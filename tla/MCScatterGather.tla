--------------------------- MODULE MCScatterGather ---------------------------
(* Scatter and gather along dimensions cut evenly, unevenly or not at all. *)
EXTENDS ScatterGather

Dimension(count, extent, interface) ==
  [count |-> count, extent |-> extent, interface |-> interface, ratio |-> <<1, 1>>]

MCDimensions ==
  { Dimension(1, 3, TRUE),
    Dimension(2, 5, TRUE),  Dimension(2, 4, FALSE), Dimension(2, 3, FALSE),
    Dimension(3, 7, TRUE),  Dimension(3, 3, FALSE),
    Dimension(3, 5, FALSE),          \* cut in 2 + 1 + 2
    Dimension(3, 9, TRUE),           \* cut in 3 + 2 + 3, interfaces shared
    Dimension(4, 9, TRUE),  Dimension(4, 4, FALSE) }

Even == cut # ValueError /\ cut.edge = cut.interior

(***************************************************************************)
(* A rank that has left scatter holds exactly the part of the tile its     *)
(* subtile covers, the interface points shared with its neighbours too.    *)
(***************************************************************************)
ScatterDelivers ==
  \A r \in Ranks :
    (pc[r] \in {"work", "gather", "place", "done"} /\ Even) =>
      /\ Len(field[r]) = Length(r)
      /\ \A k \in DOMAIN field[r] : field[r][k].at = Overlap(r).start + k - 1

(***************************************************************************)
(* The gathered tile has the extent of the scattered one, and each point   *)
(* comes from the rank that owns it.  Two ranks computed the interface     *)
(* between them and may differ: the greater one's value is kept, as the    *)
(* slices without overlap have it.                                         *)
(***************************************************************************)
GatherKeepsTheOwners ==
  pc[ROOT_RANK] = "done" =>
    /\ Len(tile) = dim.extent
    /\ \A r \in Ranks : \A p \in SlicePoints(SubtileSlice(dim, r, FALSE)) :
         tile[p + 1] = Value(r, p)

(***************************************************************************)
(* What a rank waits for: the root's data, or a client's array.            *)
(***************************************************************************)
WaitsFor(r, q) ==
  \/ q = ROOT_RANK /\ pc[r] = "receive" /\ ~scattered
  \/ r = ROOT_RANK /\ pc[r] = "gather" /\ q \in Clients /\ sent[q] = Nothing

LeftWaiting(r) == \E q \in Ranks : pc[q] = "raised" /\ WaitsFor(r, q)

(***************************************************************************)
(* Over an evenly cut dimension every rank completes scatter and gather;   *)
(* where there is no decomposition every rank raises.  However a dimension *)
(* is cut, a rank that neither ends nor raises waits for one that raised:  *)
(* the root, which packs a row of another length than its own before it    *)
(* enters Scatter, or a client whose array is too short for what it gets.  *)
(***************************************************************************)
EveryRankEnds ==
  /\ <>[](\A r \in Ranks : pc[r] \in {"done", "raised"} \/ LeftWaiting(r))
  /\ Even ~> (\A r \in Ranks : pc[r] = "done")
  /\ (cut = ValueError) ~> (\A r \in Ranks : pc[r] = "raised")
=============================================================================
