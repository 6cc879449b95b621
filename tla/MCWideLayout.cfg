SPECIFICATION FairSpec
CONSTANTS
  Layout <- MCFourByFour
  Ranks <- MCBottomRow
  Modes = {"BuildAndRun"}
  Steps = 2
CHECK_DEADLOCK FALSE
PROPERTY
  EveryRankEnds
