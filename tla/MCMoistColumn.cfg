SPECIFICATION Spec
CONSTANTS
  N = 3
  Sponge = 3
  NTimes = 2
  DeepCold = {2}
  VapourLimit = 0
  Kmp = 2
  Overdraw <- MCOverdraw
  MaxUnits = 2
  Columns <- MCColumns
INVARIANTS
  MomentumFluxIsTheWaterFallen
  NothingBelowZero
PROPERTIES
  OnlyFixersMakeWater
  BooksBalance
