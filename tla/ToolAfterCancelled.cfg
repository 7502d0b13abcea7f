SPECIFICATION Spec
CONSTANTS
  MaxSteps = 2
  MaxModelRequests = 2
  MaxToolCalls = 2
  MaxCost = 1
  FailureThreshold = 1
  Fingerprints = {same}
  ChildUsage <- NoneOrOneEach
  MaxBatch = 2
  ResponseCosts = {0}
  MaxTurns = 2
  MaxCompactions = 1
PROPERTIES
  NoToolAfterCancelled
CHECK_DEADLOCK FALSE
