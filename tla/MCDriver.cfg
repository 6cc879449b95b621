SPECIFICATION FairSpec
CONSTANTS
  Ranks = {0, 1, 2}
  Root = 0
  Steps = 2
  IntermediateRestart = {0}
  SaveRestart = TRUE
  CheckedSteps = {0, 1}
  MaxRuns = 3
CHECK_DEADLOCK FALSE
INVARIANTS
  FilesOfOneRunAgree
  RunsBeginWithOneState
PROPERTY
  EveryRankEnds
