SPECIFICATION Spec
CONSTANTS
  PonsTokens = {a, b}
  O1Tokens = {b}
  MayNotRestore = FALSE
  MaySkip = TRUE
  MaxBlocks = 2
  MaxEvents = 3
  MaxFaults = 1
INVARIANTS TypeOK NoLateConflict FillsOnlyForStored
CHECK_DEADLOCK FALSE
