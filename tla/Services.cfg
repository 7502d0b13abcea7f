SPECIFICATION Spec
CONSTANTS
  MaxAttempts = 2
  MaxChunks = 2
  Indexes = {1, 2}
  Names <- MCNames
  Optional <- MCStdio
  Stdio <- MCStdio
  MaxExecs = 1
  MaxDockerFailures = 1
  StaleAfter = 15
  TimeLimits = {2, 9, 15}
  Setup = 4
  Teardown = 2
  MaxTime = 21
INVARIANTS
  EveryCallReported
  NothingLeftRunning
  BriefTopologyKept
PROPERTIES
  NothingSentAfterCancel
  OperationEnds
CHECK_DEADLOCK FALSE
