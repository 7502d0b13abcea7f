SPECIFICATION Spec
CONSTANTS
  MaxBatch = 2
  MaxEvents = 9
  MaxCrashes = 1
INVARIANTS
  ResumedGate
  SameConversation
  AllAnswered
CHECK_DEADLOCK FALSE
