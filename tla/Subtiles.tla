------------------------------ MODULE Subtiles ------------------------------
(***************************************************************************)
(* How pace.util.partitioner cuts one dimension of a tile among the ranks  *)
(* of a layout: the extents of edge and interior subtiles, the slice of    *)
(* each rank, and the extent of the tile recovered from that of a rank.    *)
(*                                                                         *)
(* A horizontal dimension is the record [count, extent, interface, ratio]: *)
(* ranks along it, its extent, whether it holds interface points, and the  *)
(* edge_interior_ratio as the fraction ratio[1] / ratio[2].  The ratio is  *)
(* one that binary floating point represents exactly, such as 1 or 1/2.    *)
(***************************************************************************)
EXTENDS Integers

IsDimension(dim) ==
  dim \in [count : Nat \ {0}, extent : Nat, interface : BOOLEAN,
          ratio : (Nat \ {0}) \X (Nat \ {0})]

ValueError == [edge |-> 0, interior |-> 0]

(* Python's round(a / b): to the nearest integer, ties to the even one. *)
RoundHalfEven(a, b) ==
  IF 2 * (a % b) > b \/ (2 * (a % b) = b /\ (a \div b) % 2 = 1)
  THEN a \div b + 1 ELSE a \div b

-----------------------------------------------------------------------------
(***************************************************************************)
(* int(edge / r) where r = edge / interior is rounded to a double.  The    *)
(* quotient r has 53 significant bits: the least d with edge * 2^d >=      *)
(* interior gives edge * 2^(52 + d) / interior, whose remainder tells      *)
(* whether r was rounded up; then edge / r lies below interior, and is     *)
(* truncated to interior - 1 unless that division rounds back up to it.    *)
(***************************************************************************)
BinaryExponent(edge, interior) ==
  LET Reaches(d) == IF d >= 0 THEN edge * 2^d >= interior
                    ELSE edge >= interior * 2^(-d)
  IN  CHOOSE d \in -10..10 : Reaches(d) /\ ~Reaches(d - 1)

FloorLog2(k) == CHOOSE b \in 0..20 : 2^b <= k /\ k < 2^(b + 1)

ScaledRemainder(edge, interior, bits) ==      \* (edge * 2^bits) % interior
  LET rem[b \in Nat] == IF b = 0 THEN edge % interior
                        ELSE (2 * rem[b - 1]) % interior
  IN  rem[bits]

FloatTruncates(edge, interior) ==
  LET d     == BinaryExponent(edge, interior)
      below == interior - ScaledRemainder(edge, interior, 52 + d)
      j     == d + FloorLog2(interior) - 1
  IN  /\ 2 * below < interior
      /\ IF j >= 0 THEN interior * below > edge * 2^j
                   ELSE interior * below * 2^(-j) > edge

Recovered(edge, interior) ==
  IF FloatTruncates(edge, interior) THEN interior - 1 ELSE interior

-----------------------------------------------------------------------------
(***************************************************************************)
(* _valid_edge_tile_sizes.  The sizes tried are start, down to 1, then up  *)
(* from start; an iteration at 1 turns the count around, so a search that  *)
(* starts at 1 stays there.  The loop ends after one more iteration than   *)
(* there are sizes to try.                                                 *)
(***************************************************************************)
EdgeSizes(count, points) == 1..((points - count + 2) \div 2)

Tried(start, i) ==
  IF i < start THEN start - i ELSE IF start = 1 THEN 1 ELSE i

StartSize(count, points, ratio) ==
  RoundHalfEven(points * ratio[1], 2 * ratio[1] + (count - 2) * ratio[2])

(***************************************************************************)
(* An edge size is accepted when interiors of the recovered integer size   *)
(* fill the rest.  A quotient that is no integer never is: truncated, it   *)
(* leaves points over.                                                     *)
(***************************************************************************)
Accepts(count, points, edge) ==
  /\ (points - 2 * edge) % (count - 2) = 0
  /\ LET interior == (points - 2 * edge) \div (count - 2)
     IN  Recovered(edge, interior) = interior

SearchedExtents(count, points, ratio) ==
  LET start == StartSize(count, points, ratio)
      sizes == EdgeSizes(count, points)
      good  == {i \in 0..((points - count + 2) \div 2) :
                  /\ Tried(start, i) \in sizes
                  /\ Accepts(count, points, Tried(start, i))}
  IN  IF good = {} THEN ValueError
      ELSE LET edge == Tried(start, CHOOSE i \in good : \A j \in good : i <= j)
           IN  [edge |-> edge, interior |-> (points - 2 * edge) \div (count - 2)]

Points(dim) == IF dim.interface THEN dim.extent - 1 ELSE dim.extent

SubtileExtents(dim) ==
  LET points == Points(dim) IN
  CASE dim.count % 2 = 0 /\ points % 2 = 1 -> ValueError
    [] dim.count >= 3 /\ ~(dim.count % 2 = 0 /\ points % 2 = 1) ->
         SearchedExtents(dim.count, points, dim.ratio)
    [] dim.count < 3 /\ ~(dim.count % 2 = 0 /\ points % 2 = 1) ->
         [edge |-> points \div dim.count, interior |-> points \div dim.count]

-----------------------------------------------------------------------------
(***************************************************************************)
(* rank_slice_from_tile_metadata, as the half-open range start..stop-1:    *)
(* the loop over the ranks up to this one adds up their sizes.             *)
(***************************************************************************)
(* The second edge one rank too early. *)
SizeEarlyEdge(count, e, index) ==
  IF index = 0 \/ index = count - 2 THEN e.edge ELSE e.interior

Size(count, e, index) ==
  IF index = 0 \/ index = count - 1 THEN e.edge ELSE e.interior

SliceStart(dim, index) ==
  LET e == SubtileExtents(dim)
      start[i \in Nat] == IF i = 0 THEN 0 ELSE start[i - 1] + Size(dim.count, e, i - 1)
  IN  start[index]

SliceEnd(dim, index) == SliceStart(dim, index) + Size(dim.count, SubtileExtents(dim), index)

(* The last rank left without the last interface point. *)
SubtileSliceNoLast(dim, index, overlap) ==
  [start |-> SliceStart(dim, index),
   stop  |-> SliceEnd(dim, index) + IF dim.interface /\ overlap THEN 1 ELSE 0]

SubtileSlice(dim, index, overlap) ==
  [start |-> SliceStart(dim, index),
   stop  |-> SliceEnd(dim, index)
               + IF dim.interface /\ (overlap \/ index = dim.count - 1)
                 THEN 1 ELSE 0]

SlicePoints(slice) == slice.start..(slice.stop - 1)

SubtileExtent(dim, index) ==
  SubtileSlice(dim, index, TRUE).stop - SubtileSlice(dim, index, TRUE).start

(* global_extent: the tile recovered from one rank, its neighbours alike. *)
GlobalExtent(dim, rank_extent) ==
  IF dim.interface THEN (rank_extent - 1) * dim.count + 1
  ELSE rank_extent * dim.count
=============================================================================
