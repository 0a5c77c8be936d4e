SPECIFICATION Spec
CONSTANTS
  PonsTokens = {a}
  O1Tokens = {}
  MayNotRestore = TRUE
  MaySkip = TRUE
  MaxBlocks = 3
  MaxEvents = 3
  MaxFaults = 1
INVARIANTS FillsOnlyForStored
CHECK_DEADLOCK FALSE
