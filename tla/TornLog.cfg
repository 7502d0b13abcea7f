SPECIFICATION Spec
CONSTANTS
  MaxBatch = 1
  MaxEvents = 9
  MaxCrashes = 1
INVARIANTS
  LogIsTruth
CHECK_DEADLOCK FALSE
