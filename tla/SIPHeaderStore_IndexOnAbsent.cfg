CONSTANTS
  NumKeys = 2
  Values <- MC_Values
  Empty = ""
  InitLines <- MC_InitLines
  MaxIndex = 2
  MaxOps = 4
  IndexOnAbsent = TRUE
SPECIFICATION Spec
INVARIANT CommitMatchesInsertionOrder
