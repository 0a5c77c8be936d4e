SPECIFICATION FairSpec
CONSTANTS
  FromBlock = 0
  RecentOffset = 2
  SkipLag = 1
  MaxPerTick = 2
  MaxPrefetch = 2
  LaggingNodes = FALSE
  MaxHeight = 4
  MaxReorgs = 1
  MaxFaults = 2
  NoHash = NoHash
  NoBlock = NoBlock
PROPERTIES CatchesUp StopsEnd
