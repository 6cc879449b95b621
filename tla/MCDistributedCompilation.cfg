SPECIFICATION FairSpec
CONSTANTS
  Layout <- MCOneByOne
  Ranks <- MCSixRanks
  Modes = {"Python", "Build", "BuildAndRun"}
  Steps = 3
CHECK_DEADLOCK FALSE
INVARIANTS
  WaitersFindItCompiled
  RunsItsOwnBuild
  BarrierSeparates
PROPERTY
  EveryRankEnds
