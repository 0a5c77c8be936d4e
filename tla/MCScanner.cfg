SPECIFICATION Spec
CONSTANTS
  FromBlock = 1
  RecentOffset = 2
  SkipLag = 1
  MaxPerTick = 2
  MaxPrefetch = 2
  LaggingNodes = FALSE
  MaxHeight = 5
  MaxReorgs = 2
  MaxFaults = 2
  NoHash = NoHash
  NoBlock = NoBlock
INVARIANTS NoSilentGap CommittedOnce
