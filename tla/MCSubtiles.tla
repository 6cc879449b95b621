----------------------------- MODULE MCSubtiles -----------------------------
(***************************************************************************)
(* Cuts the dimensions of a bounded family among the ranks of each layout: *)
(* the slices of a row of ranks are compared with each other, and the      *)
(* extents of the walker's rank with those across its edges.               *)
(***************************************************************************)
EXTENDS MCPartitioner, Subtiles

CONSTANTS MaxPoints,    \* the longest dimension
          Ratios        \* edge_interior_ratio, as fractions

ASSUME DimsAssumption ==
  MaxPoints \in Nat /\ Ratios \subseteq (Nat \ {0}) \X (Nat \ {0})

MCRatios == {<<1, 1>>, <<1, 2>>, <<2, 1>>}
MCUnitRatio == {<<1, 1>>}

(* Dimensions with a cell at least for every rank of a row. *)
Dims == {dim \in [count : {size}, extent : 1..MaxPoints, interface : BOOLEAN, ratio : Ratios] :
           Points(dim) >= dim.count}

Decomposed(dim) == SubtileExtents(dim) # ValueError

(* The bottom row of the first tile. *)
Row == 0..(size - 1)

(***************************************************************************)
(* The slices without overlap give every point of the tile to exactly one  *)
(* rank: what is written rank by rank covers the tile and nothing twice.   *)
(***************************************************************************)
SlicesPartition ==
  rank \in Row => \A dim \in {d \in Dims : Decomposed(d)} :
    LET Owned(i) == SlicePoints(SubtileSlice(dim, i, FALSE))
    IN  /\ \A i \in Row \ {rank} : Owned(rank) \cap Owned(i) = {}
        /\ UNION {Owned(i) : i \in Row} = 0..(dim.extent - 1)

(***************************************************************************)
(* Ranks on the two sides of an edge of the cube have that edge in common: *)
(* the extent of one along it is the extent of the other, also where it    *)
(* passes to a perpendicular axis counted the other way.  Halo buffers are *)
(* sized by the sender's and by the receiver's own extent.                 *)
(***************************************************************************)
NeighboursHaveEqualEdges ==
  \A dim \in {d \in Dims : Decomposed(d)} :
    LET length == [i \in Row |-> SubtileExtent(dim, i)]
        Along(type, r) ==     \* extent of the rank along that edge
          length[SubtileIndex(r, Layout)[IF type \in {"N", "S"} THEN 2 ELSE 1]]
        Turn(type, rotations) ==
          IF rotations % 2 = 0 THEN type
          ELSE IF type \in {"N", "S"} THEN "E" ELSE "N"
    IN  \A x \in {y \in SphereBoundaries(rank) : y[1] \in Edges} :
          Along(x[1], rank) = Along(Turn(x[1], x[2].rotations), x[2].to)

-----------------------------------------------------------------------------
(* What the documentation of the partitioner says of every decomposition. *)

(* The pairs of edge and interior sizes that fill the dimension. *)
ValidPairs(dim) ==
  {pair \in (1..Points(dim)) \X (1..Points(dim)) :
     2 * pair[1] + (size - 2) * pair[2] = Points(dim)}

Distance(dim, pair) ==       \* |edge / interior - ratio| * interior * ratio[2]
  LET d == pair[1] * dim.ratio[2] - pair[2] * dim.ratio[1]
  IN  IF d >= 0 THEN d ELSE -d

(***************************************************************************)
(* "In all cases, the closest valid value will be used": where some pair   *)
(* of sizes fits a pair is used, and none comes closer to the ratio.       *)
(***************************************************************************)
ClosestRatioUsed ==
  \A dim \in Dims :
    (size >= 3 /\ ValidPairs(dim) # {}) =>
      LET used == <<SubtileExtents(dim).edge, SubtileExtents(dim).interior>>
      IN  /\ Decomposed(dim)
          /\ \A pair \in ValidPairs(dim) :
               Distance(dim, used) * pair[2] <= Distance(dim, pair) * used[2]
=============================================================================
