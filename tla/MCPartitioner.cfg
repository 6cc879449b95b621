SPECIFICATION WalkSpec
CONSTANTS
  Sizes = {1, 2, 3, 4, 6}
  TileLayouts <- MCTileLayouts
  MaxPoints = 20
  Ratios <- MCRatios
CHECK_DEADLOCK FALSE
INVARIANTS
  NeighboursAreAdjacent
  HalosContinueTheCube
  BoundariesPairUp
  PeriodicTilePairsUp
  CornersContinueTheCube
  CodeFitsThePlace
  SlicesPartition
  NeighboursHaveEqualEdges
