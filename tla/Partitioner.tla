---------------------------- MODULE Partitioner ----------------------------
(***************************************************************************)
(* The rank arithmetic of pace.util.partitioner: which rank lies across    *)
(* each edge and corner of a rank's subtile, and how many clockwise        *)
(* rotations the data undergoes on the way, on a doubly periodic tile      *)
(* (TilePartitioner) and on the cubed sphere (CubedSpherePartitioner).     *)
(*                                                                         *)
(* Ranks are the flat integers the code computes with.  A layout is the    *)
(* pair <<ranks along y, ranks along x>>; a boundary is the record that    *)
(* stands for SimpleBoundary, NoBoundary for Python's None.                *)
(***************************************************************************)
EXTENDS Integers

NoBoundary == [to |-> 0, rotations |-> -1]

Edges   == {"W", "E", "N", "S"}
Corners == {"NW", "NE", "SW", "SE"}

Boundary(to, rotations) == [to |-> to, rotations |-> rotations]

IsEven(value) == value % 2 = 0

TileRanks(layout)  == layout[1] * layout[2]
TotalRanks(layout) == 6 * TileRanks(layout)

TileIndex(rank, layout)    == rank \div TileRanks(layout)
TileRootRank(rank, layout) == TileRanks(layout) * (rank \div TileRanks(layout))

(* (y, x) position of a rank on its tile. *)
SubtileIndex(rank, layout) ==
  LET within == rank % TileRanks(layout)
  IN  <<within \div layout[2], within % layout[2]>>

OnTileLeft(rank, layout)   == SubtileIndex(rank, layout)[2] = 0
OnTileRight(rank, layout)  == SubtileIndex(rank, layout)[2] = layout[2] - 1
OnTileTop(rank, layout)    == SubtileIndex(rank, layout)[1] = layout[1] - 1
OnTileBottom(rank, layout) == SubtileIndex(rank, layout)[1] = 0

(***************************************************************************)
(* The rank array of one tile is np.arange(ranks).reshape(layout); numpy   *)
(* moves its entries and the code looks up where the entry went.           *)
(***************************************************************************)
Position(entries, rank) == CHOOSE q \in DOMAIN entries : entries[q] = rank

RotateRank(rank, layout) ==          \* n_clockwise_rotations = 1, np.rot90
  Position([q \in 0..(TileRanks(layout) - 1) |->
              (q % layout[2]) * layout[2] + (layout[2] - 1 - (q \div layout[2]))],
           rank)

FliplrRank(rank, layout) ==
  Position([q \in 0..(TileRanks(layout) - 1) |->
              (q \div layout[2]) * layout[2] + (layout[2] - 1 - (q % layout[2]))],
           rank)

-----------------------------------------------------------------------------
(* TilePartitioner: opposite edges of the tile are joined. *)

TileLeft(rank, layout) ==
  Boundary(IF OnTileLeft(rank, layout) THEN rank + layout[2] - 1 ELSE rank - 1, 0)

TileRight(rank, layout) ==
  Boundary(IF OnTileRight(rank, layout) THEN rank - layout[2] + 1 ELSE rank + 1, 0)

TileTopOtherSide(rank, layout) ==      \* the two sides of the layout swapped
  Boundary(IF OnTileTop(rank, layout)
           THEN rank - (layout[2] - 1) * layout[2] ELSE rank + layout[2], 0)

TileTop(rank, layout) ==
  Boundary(IF OnTileTop(rank, layout)
           THEN rank - (layout[1] - 1) * layout[2] ELSE rank + layout[2], 0)

TileBottom(rank, layout) ==
  Boundary(IF OnTileBottom(rank, layout)
           THEN rank + (layout[1] - 1) * layout[2] ELSE rank - layout[2], 0)

(* _get_corner: edge1 crossed, edge2 is an edge of the rank met there. *)
CornerVia(edge1, edge2) == Boundary(edge2.to, edge1.rotations + edge2.rotations)

TileBoundary(type, rank, layout) ==
  LET left  == TileLeft(rank, layout)
      right == TileRight(rank, layout)
  IN  CASE type = "W"  -> left
        [] type = "E"  -> right
        [] type = "N"  -> TileTop(rank, layout)
        [] type = "S"  -> TileBottom(rank, layout)
        [] type = "NW" -> CornerVia(left, TileTop(left.to, layout))
        [] type = "NE" -> CornerVia(right, TileTop(right.to, layout))
        [] type = "SW" -> CornerVia(left, TileBottom(left.to, layout))
        [] type = "SE" -> CornerVia(right, TileBottom(right.to, layout))

-----------------------------------------------------------------------------
(***************************************************************************)
(* CubedSpherePartitioner: a tile's edge continues either on the next      *)
(* (previous) tile without rotation, or two tiles on, entered through a    *)
(* perpendicular edge.  Ranks are reduced modulo the total only at the     *)
(* end, so an intermediate rank may be negative or past the last one.      *)
(***************************************************************************)
Shift(boundary, ranks) == [boundary EXCEPT !.to = @ + ranks]

(* Position along the edge kept instead of mirrored. *)
TurnedUnflipped(rank, layout) == RotateRank(rank % TileRanks(layout), layout)

(* The rank met when the edge is entered from the perpendicular direction. *)
Turned(rank, layout) ==
  FliplrRank(RotateRank(rank % TileRanks(layout), layout), layout)

LeftEdge(rank, layout) ==
  LET T == TileRanks(layout) IN
  IF ~OnTileLeft(rank, layout) THEN TileLeft(rank, layout)
  ELSE IF IsEven(TileIndex(rank, layout))
       THEN Boundary(TileRootRank(rank - 2 * T, layout) + Turned(rank, layout), 1)
       ELSE Shift(TileLeft(rank, layout), -T)

RightEdge(rank, layout) ==
  LET T == TileRanks(layout) IN
  IF ~OnTileRight(rank, layout) THEN TileRight(rank, layout)
  ELSE IF IsEven(TileIndex(rank, layout))
       THEN Shift(TileRight(rank, layout), T)
       ELSE Boundary(TileRootRank(rank + 2 * T, layout) + Turned(rank, layout), 1)

TopEdge(rank, layout) ==
  LET T == TileRanks(layout) IN
  IF ~OnTileTop(rank, layout) THEN TileTop(rank, layout)
  ELSE IF IsEven(TileIndex(rank, layout))
       THEN Boundary((TileIndex(rank, layout) + 2) * T + Turned(rank, layout), 3)
       ELSE Shift(TileTop(rank, layout), T)

BottomEdgeWrongTurn(rank, layout) ==
  LET T == TileRanks(layout) IN
  IF ~OnTileBottom(rank, layout) THEN TileBottom(rank, layout)
  ELSE IF IsEven(TileIndex(rank, layout))
       THEN Shift(TileBottom(rank, layout), -T)
       ELSE Boundary((TileIndex(rank, layout) - 2) * T + Turned(rank, layout), 1)

BottomEdge(rank, layout) ==
  LET T == TileRanks(layout) IN
  IF ~OnTileBottom(rank, layout) THEN TileBottom(rank, layout)
  ELSE IF IsEven(TileIndex(rank, layout))
       THEN Shift(TileBottom(rank, layout), -T)
       ELSE Boundary((TileIndex(rank, layout) - 2) * T + Turned(rank, layout), 3)

(* Three tiles meet at a tile's corner: there is no boundary across it. *)
TopLeftCorner(rank, layout) ==
  IF OnTileTop(rank, layout) /\ OnTileLeft(rank, layout) THEN NoBoundary
  ELSE LET left == LeftEdge(rank, layout)
       IN  CornerVia(left,
             IF IsEven(TileIndex(rank, layout)) /\ OnTileLeft(rank, layout)
             THEN LeftEdge(left.to, layout) ELSE TopEdge(left.to, layout))

TopRightCorner(rank, layout) ==
  IF OnTileTop(rank, layout) /\ OnTileRight(rank, layout) THEN NoBoundary
  ELSE LET top == TopEdge(rank, layout)
       IN  CornerVia(top,
             IF IsEven(TileIndex(rank, layout)) /\ OnTileTop(rank, layout)
             THEN BottomEdge(top.to, layout) ELSE RightEdge(top.to, layout))

BottomLeftCorner(rank, layout) ==
  IF OnTileBottom(rank, layout) /\ OnTileLeft(rank, layout) THEN NoBoundary
  ELSE LET bottom == BottomEdge(rank, layout)
       IN  CornerVia(bottom,
             IF ~IsEven(TileIndex(rank, layout)) /\ OnTileBottom(rank, layout)
             THEN TopEdge(bottom.to, layout) ELSE LeftEdge(bottom.to, layout))

BottomRightCorner(rank, layout) ==
  IF OnTileBottom(rank, layout) /\ OnTileRight(rank, layout) THEN NoBoundary
  ELSE LET bottom == BottomEdge(rank, layout)
       IN  CornerVia(bottom,
             IF ~IsEven(TileIndex(rank, layout)) /\ OnTileBottom(rank, layout)
             THEN BottomEdge(bottom.to, layout) ELSE RightEdge(bottom.to, layout))

(* _cached_boundary: dispatch on the type, then reduce the rank. *)
Reduced(boundary, layout) ==
  IF boundary = NoBoundary THEN boundary
  ELSE [boundary EXCEPT !.to = @ % TotalRanks(layout)]

SphereBoundary(type, rank, layout) ==
  Reduced(CASE type = "W"  -> LeftEdge(rank, layout)
            [] type = "E"  -> RightEdge(rank, layout)
            [] type = "N"  -> TopEdge(rank, layout)
            [] type = "S"  -> BottomEdge(rank, layout)
            [] type = "NW" -> TopLeftCorner(rank, layout)
            [] type = "NE" -> TopRightCorner(rank, layout)
            [] type = "SW" -> BottomLeftCorner(rank, layout)
            [] type = "SE" -> BottomRightCorner(rank, layout),
          layout)
=============================================================================
