---------------------- MODULE MCDistributedCompilation ----------------------
(* All ranks of a layout of one rank a tile; four ranks of a 4 by 4 layout:  *)
(* two neighbours on the bottom edge of the first tile, two of the second.   *)
EXTENDS DistributedCompilation

MCOneByOne   == <<1, 1>>
MCFourByFour == <<4, 4>>

MCSixRanks  == 0..5
MCBottomRow == {1, 2, 17, 18}
=============================================================================
