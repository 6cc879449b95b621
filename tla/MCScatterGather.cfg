SPECIFICATION FairSpec
CONSTANT
  Dimensions <- MCDimensions
CHECK_DEADLOCK FALSE
INVARIANTS
  ScatterDelivers
  GatherKeepsTheOwners
PROPERTY
  EveryRankEnds
