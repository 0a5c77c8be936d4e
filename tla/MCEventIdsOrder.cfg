SPECIFICATION Spec
CONSTANTS
  Base = 2
  BlockWidth = 3
  TxWidth = 1
  LogWidth = 1
  Blocks = {6, 7, 8}
  TxIndexes = {0, 1}
  LogIndexes = {0, 1}
  MaxEvents = 2
INVARIANTS IdsFollowChain
