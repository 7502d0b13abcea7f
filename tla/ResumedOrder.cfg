SPECIFICATION Spec
CONSTANTS
  MaxBatch = 2
  MaxEvents = 12
  MaxCrashes = 1
INVARIANTS
  WellFormed
CHECK_DEADLOCK FALSE
