---------------------------- MODULE ScatterGather ----------------------------
(***************************************************************************)
(* Communicator.scatter of a tile quantity to the ranks along one of its   *)
(* dimensions, work of every rank on its subtile, and Communicator.gather  *)
(* of the result.  Each process runs its own copy of the code; the         *)
(* collectives bcast, Scatter and Gather are where they meet.              *)
(*                                                                         *)
(* A value is the record [by, at] of the writer (Nobody for the root's     *)
(* tile before it is scattered) and the point of the tile it was written   *)
(* for; an array is a sequence of values.                                  *)
(***************************************************************************)
EXTENDS Subtiles, Sequences, FiniteSets

CONSTANT Dimensions     \* the dimensions of Subtiles to scatter along

ASSUME DimensionsAssumption ==
  \A d \in Dimensions : IsDimension(d) /\ Points(d) >= d.count

VARIABLES
  dim,          \* the dimension of the quantity
  cut, slices,  \* what the partitioner made of it, computed once and cached
  pc,           \* what each rank does next
  sendbuf,      \* the root's buffer: one array per rank packed so far
  scattered,    \* the root has entered Scatter: its data is on the way
  field,        \* each rank's subtile of the quantity
  sent,         \* the array each rank has given to Gather
  placed,       \* ranks whose array the root has copied into the tile
  tile          \* the tile gathered at the root

partition == <<dim, cut, slices>>
vars == <<dim, cut, slices, pc, sendbuf, scattered, field, sent, placed, tile>>

Nobody == -1
ROOT_RANK == 0

Ranks   == 0..(dim.count - 1)
Clients == Ranks \ {ROOT_RANK}

Value(by, at) == [by |-> by, at |-> at]

(* np.empty: whatever the memory held. *)
Uninitialized == Value(Nobody, -1)

Nothing == << >>

ViewOf(slice) == [k \in 1..(slice.stop - slice.start) |-> Value(Nobody, slice.start + k - 1)]

Overlap(rank) == slices[rank]
Length(rank)  == Overlap(rank).stop - Overlap(rank).start

Init ==
  /\ dim \in Dimensions
  /\ cut = SubtileExtents(dim)
  /\ slices = [r \in 0..(dim.count - 1) |-> SubtileSlice(dim, r, TRUE)]
  /\ pc = [r \in 0..(dim.count - 1) |-> IF r = ROOT_RANK THEN "bcast" ELSE "metadata"]
  /\ sendbuf = << >>
  /\ scattered = FALSE
  /\ field = [r \in 0..(dim.count - 1) |-> Nothing]
  /\ sent = [r \in 0..(dim.count - 1) |-> Nothing]
  /\ placed = 0
  /\ tile = << >>

Goto(rank, label) == pc' = [pc EXCEPT ![rank] = label]

-----------------------------------------------------------------------------
(***************************************************************************)
(* The metadata is broadcast; then subtile_extent computes the shape, or   *)
(* raises, on every rank from the same metadata.                           *)
(***************************************************************************)
AfterMetadata(label) == IF cut = ValueError THEN "raised" ELSE label

BroadcastMetadata ==
  /\ pc[ROOT_RANK] = "bcast"
  /\ Goto(ROOT_RANK, AfterMetadata("pack"))
  /\ UNCHANGED <<partition, sendbuf, scattered, field, sent, placed, tile>>

ReceiveMetadata(rank) ==
  /\ rank \in Clients
  /\ pc[rank] = "metadata"
  /\ pc[ROOT_RANK] # "bcast"
  /\ Goto(rank, AfterMetadata("receive"))
  /\ UNCHANGED <<partition, sendbuf, scattered, field, sent, placed, tile>>

(***************************************************************************)
(* The root packs one row per rank, each as long as its own subtile; numpy *)
(* spreads a view of one point over the row and raises on other lengths.   *)
(***************************************************************************)
NextRow == Len(sendbuf)       \* rank of the next row

Fits(length, row) == length = row \/ length = 1

(* The slice of the rank before in the loop. *)
PackedRowBehind(rank) ==
  LET behind == IF rank = 0 THEN 0 ELSE rank - 1
  IN  [k \in 1..Length(ROOT_RANK) |-> ViewOf(Overlap(behind))[IF Length(behind) = 1 THEN 1 ELSE k]]

PackedRow(rank) ==
  [k \in 1..Length(ROOT_RANK) |->
     ViewOf(Overlap(rank))[IF Length(rank) = 1 THEN 1 ELSE k]]

PackRow ==
  /\ pc[ROOT_RANK] = "pack"
  /\ NextRow \in Ranks
  /\ Fits(Length(NextRow), Length(ROOT_RANK))
  /\ sendbuf' = Append(sendbuf, PackedRow(NextRow))
  /\ UNCHANGED <<partition, pc, scattered, field, sent, placed, tile>>

PackRaises ==
  /\ pc[ROOT_RANK] = "pack"
  /\ NextRow \in Ranks
  /\ ~Fits(Length(NextRow), Length(ROOT_RANK))
  /\ Goto(ROOT_RANK, "raised")
  /\ UNCHANGED <<partition, sendbuf, scattered, field, sent, placed, tile>>

(* Scatter: the root sends every row and keeps its own. *)
RootScatter ==
  /\ pc[ROOT_RANK] = "pack"
  /\ NextRow \notin Ranks
  /\ scattered' = TRUE
  /\ field' = [field EXCEPT ![ROOT_RANK] = sendbuf[ROOT_RANK + 1]]
  /\ Goto(ROOT_RANK, "work")
  /\ UNCHANGED <<partition, sendbuf, sent, placed, tile>>

(* A row longer than the rank's array is truncated: MPI raises. *)
ClientScatter(rank) ==
  /\ rank \in Clients
  /\ pc[rank] = "receive"
  /\ scattered
  /\ IF Len(sendbuf[rank + 1]) <= Length(rank)
     THEN /\ field' = [field EXCEPT ![rank] = sendbuf[rank + 1]]
          /\ Goto(rank, "work")
     ELSE /\ Goto(rank, "raised")
          /\ UNCHANGED field
  /\ UNCHANGED <<partition, sendbuf, scattered, sent, placed, tile>>

(* The model writes its subtile, the points shared with neighbours too. *)
Work(rank) ==
  /\ pc[rank] = "work"
  /\ field' = [field EXCEPT ![rank] =
                 [k \in DOMAIN @ |-> Value(rank, @[k].at)]]
  /\ Goto(rank, "gather")
  /\ UNCHANGED <<partition, sendbuf, scattered, sent, placed, tile>>

ClientGather(rank) ==
  /\ rank \in Clients
  /\ pc[rank] = "gather"
  /\ sent' = [sent EXCEPT ![rank] = field[rank]]
  /\ Goto(rank, "done")
  /\ UNCHANGED <<partition, sendbuf, scattered, field, placed, tile>>

(* The received quantity is as long as global_extent makes it. *)
TileExtent == GlobalExtent(dim, Length(ROOT_RANK))

(* The root waits for an array from itself too. *)
GatherCompleteOwn == \A rank \in Ranks : sent[rank] # Nothing

GatherComplete == \A rank \in Clients : sent[rank] # Nothing

RootGather ==
  /\ pc[ROOT_RANK] = "gather"
  /\ GatherComplete
  /\ sent' = [sent EXCEPT ![ROOT_RANK] = field[ROOT_RANK]]
  /\ tile' = [k \in 1..TileExtent |-> Uninitialized]
  /\ Goto(ROOT_RANK, "place")
  /\ UNCHANGED <<partition, sendbuf, scattered, field, placed>>

(* The root copies the arrays in rank order, interfaces included. *)
Assigned(slice, array) ==
  [k \in 1..Len(tile) |-> IF (k - 1) \in SlicePoints(slice) /\ k - slice.start <= Len(array)
                          THEN array[k - slice.start] ELSE tile[k]]

(* The copies made from the last rank down. *)
LastPlaced == dim.count - 1 - placed

NextPlaced == placed

PlaceSubtile ==
  /\ pc[ROOT_RANK] = "place"
  /\ placed < dim.count
  /\ LET slice == IF Len(tile) = dim.extent THEN Overlap(NextPlaced)
                  ELSE SubtileSlice([dim EXCEPT !.extent = Len(tile)], NextPlaced, TRUE)
     IN  tile' = Assigned(slice, sent[NextPlaced])
  /\ placed' = placed + 1
  /\ IF placed + 1 = dim.count THEN Goto(ROOT_RANK, "done") ELSE UNCHANGED pc
  /\ UNCHANGED <<partition, sendbuf, scattered, field, sent>>

RankStep(rank) ==
  \/ ReceiveMetadata(rank)
  \/ ClientScatter(rank)
  \/ Work(rank)
  \/ ClientGather(rank)

RootStep ==
  \/ BroadcastMetadata
  \/ PackRow
  \/ PackRaises
  \/ RootScatter
  \/ RootGather
  \/ PlaceSubtile

Next == RootStep \/ \E rank \in Ranks : RankStep(rank)

Spec == Init /\ [][Next]_vars

(* Processes that can continue do: nothing in the code makes them pause. *)
FairSpec == Spec /\ WF_vars(Next)
=============================================================================
