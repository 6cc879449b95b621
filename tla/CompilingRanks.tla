--------------------------- MODULE CompilingRanks ---------------------------
(***************************************************************************)
(* Which ranks compile for which.  The ranks of the first tile compile,    *)
(* and the others take the code of the rank at the same place of that tile *)
(* (pace.util.decomposition, pace.dsl.stencil_config, pace.dsl.dace.build).*)
(***************************************************************************)
EXTENDS Partitioner

(* rank < size / 6, and rank % int(size / 6) = rank. *)
IsCompiling(rank, layout) == rank < TileRanks(layout)

(***************************************************************************)
(* With code built on a layout of at most 3 by 3 ranks, the rank of that   *)
(* layout whose subtile lies on the same edges of its tile.                *)
(***************************************************************************)
(* Bottom and top tested, left and right taken from the smaller layout. *)
BuiltPositionTwoByTwo(rank, layout) ==
  LET row == IF OnTileBottom(rank, layout) THEN 0
             ELSE IF OnTileTop(rank, layout) THEN 2 ELSE 1
      col == IF OnTileLeft(rank, layout) THEN 0 ELSE 1
  IN  3 * row + col

BuiltPosition(rank, layout) ==
  CASE layout = <<1, 1>> -> 0
    [] layout = <<2, 2>> -> (IF OnTileBottom(rank, layout) THEN 0 ELSE 2)
                            + (IF OnTileLeft(rank, layout) THEN 0 ELSE 1)
    [] layout \notin {<<1, 1>>, <<2, 2>>} ->
         LET row == IF OnTileBottom(rank, layout) THEN 0
                    ELSE IF OnTileTop(rank, layout) THEN 2 ELSE 1
             col == IF OnTileLeft(rank, layout) THEN 0
                    ELSE IF OnTileRight(rank, layout) THEN 2 ELSE 1
         IN  3 * row + col

(* determine_compiling_equivalent of a CompilationConfig. *)
CompilingEquivalent(rank, layout, run_mode) ==
  IF run_mode = "Run" THEN BuiltPosition(rank, layout)
  ELSE rank % TileRanks(layout)

(* get_target_rank of a DaceConfig, whatever its mode. *)
TargetRank(rank, layout) == BuiltPosition(rank, layout)

(* unblock_waiting_tiles: the same place on each of the other five tiles. *)
Unblocked(tile, rank, layout) == tile * TileRanks(layout) + rank
=============================================================================
