SPECIFICATION Spec
CONSTANTS
  PonsTokens = {a}
  O1Tokens = {b}
  MayNotRestore = TRUE
  MaySkip = FALSE
  MaxBlocks = 2
  MaxEvents = 4
  MaxFaults = 2
INVARIANTS MirrorsStore
PROPERTIES RowsFollowFromStore
CHECK_DEADLOCK FALSE
