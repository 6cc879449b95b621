SPECIFICATION FairSpec
CONSTANTS
  Ranks = {0, 1, 2}
  Names <- MCNames
  SortedNames <- MCSortedNames
  MaxStores = 5
  Stores = 4
  Constants = 2
  TimeChunkSize = 2
CHECK_DEADLOCK FALSE
INVARIANTS
  GathersAreSnapshots
  FilesHoldTheirTimes
  NothingLost
  WritesInBounds
  TimesAreComplete
  StoreIsComplete
PROPERTY
  EveryRankEnds
