SPECIFICATION Spec
CONSTANTS
  FromBlock = 0
  RecentOffset = 2
  SkipLag = 3
  MaxPerTick = 2
  MaxPrefetch = 2
  LaggingNodes = TRUE
  MaxHeight = 4
  MaxReorgs = 1
  MaxFaults = 1
  NoHash = NoHash
  NoBlock = NoBlock
INVARIANTS TypeOK RoundInv ForksAreLogged
PROPERTIES RefinesIngest
