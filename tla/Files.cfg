SPECIFICATION Spec
CONSTANTS
  Paths = {"p", "q"}
  Contents <- MCContents
  Proposed <- MCProposed
  Secret = {"b"}
  Initial <- MCInitial
  Foreign <- MCForeign
  MaxEdits = 2
  MaxEntries = 4
  Slices <- MCSlices
  MaxReceipts = 1
  MaxCount = 2
  MaxTurns = 2
  MaxOutside = 1
  MaxCrashes = 1
INVARIANTS
  UndoRestores
  NothingUnseenChanged
PROPERTIES
  NothingLost
CHECK_DEADLOCK FALSE
