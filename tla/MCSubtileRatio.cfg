SPECIFICATION WalkSpec
CONSTANTS
  Sizes = {5}
  TileLayouts <- MCTileLayouts
  MaxPoints = 18
  Ratios <- MCUnitRatio
CHECK_DEADLOCK FALSE
INVARIANT ClosestRatioUsed
