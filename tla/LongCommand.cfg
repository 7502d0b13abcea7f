SPECIFICATION Spec
CONSTANTS
  MaxAttempts = 1
  MaxChunks = 0
  Indexes = {1}
  Names <- MCNames
  Optional <- MCStdio
  Stdio <- MCStdio
  MaxExecs = 0
  MaxDockerFailures = 0
  StaleAfter = 15
  TimeLimits = {2, 15}
  Setup = 4
  Teardown = 2
  MaxTime = 21
INVARIANT LiveTopologyKept
CHECK_DEADLOCK FALSE
