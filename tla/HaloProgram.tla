---------------------------- MODULE HaloProgram ----------------------------
(***************************************************************************)
(* What the model code asks of a Communicator: every rank runs the same    *)
(* sequence of operations on its own quantities (one program, many data).  *)
(* The operators below say what a program promises: which start a wait     *)
(* finishes, and which version of a quantity a start sends.                *)
(***************************************************************************)
EXTENDS Integers, FiniteSets, Sequences

CONSTANTS
  Ranks,        \* the processes of the communicator
  Neighbors,    \* Neighbors[r]: the ranks across r's boundaries
  SyncTo,       \* SyncTo[r]: the ranks across r's south and west edges
  SyncFrom,     \* SyncFrom[r]: the ranks across r's north and east edges
  Updaters,     \* HaloUpdater objects
  OneShot,      \* those force_finalize_on_wait was called on
  Requests,     \* HaloUpdateRequest objects of vector interface exchanges
  Fields        \* quantities (a list of quantities exchanged together is one)

(***************************************************************************)
(* What is assumed of the boundaries: they pair up, a rank is never its    *)
(* own neighbour, and what one rank sends to its south and west another    *)
(* receives from its north and east.  PartitionerProofs proves it of the   *)
(* boundaries of both partitioners.                                        *)
(***************************************************************************)
ASSUME BoundariesAssumption ==
  /\ IsFiniteSet(Ranks)
  /\ Neighbors \in [Ranks -> SUBSET Ranks]
  /\ SyncTo \in [Ranks -> SUBSET Ranks]
  /\ SyncFrom \in [Ranks -> SUBSET Ranks]
  /\ \A r, s \in Ranks : s \in Neighbors[r] <=> r \in Neighbors[s]
  /\ \A r, s \in Ranks : s \in SyncTo[r] <=> r \in SyncFrom[s]
  /\ \A r \in Ranks : r \notin Neighbors[r] /\ r \notin SyncTo[r]

ASSUME ObjectsAssumption ==
  /\ OneShot \subseteq Updaters
  /\ IsFiniteSet(OneShot)
  /\ Updaters \cap Requests = {}

UpdaterOps == {"create", "start", "wait", "delete"}
RequestOps == {"sync_start", "sync_wait"}

(* start and sync_start name the field they exchange, write the one written. *)
Op ==
  [kind : UpdaterOps, obj : Updaters, field : Fields] \cup
  [kind : RequestOps, obj : Requests, field : Fields] \cup
  [kind : {"write"}, obj : {"none"}, field : Fields]

(* Points of a quantity: zeros, or a rank's values after its write at ver. *)
Zeros == [rank |-> "none", ver |-> 0]
Value == {Zeros} \cup [rank : Ranks, ver : Nat]

(* The last index up to k that satisfies P; 0 when there is none. *)
LastIndex(k, P(_)) ==
  IF \E j \in 1..k : P(j)
  THEN CHOOSE j \in 1..k : P(j) /\ \A i \in 1..k : P(i) => i <= j
  ELSE 0

(* The write that made the version of field f current after k operations. *)
VersionAt(program, f, k) ==
  LastIndex(k, LAMBDA j : program[j].kind = "write" /\ program[j].field = f)

StartKind(kind) == IF kind = "wait" THEN "start" ELSE "sync_start"

(* The start that the wait at index k finishes. *)
StartOf(program, k) ==
  LastIndex(k, LAMBDA j : /\ program[j].obj = program[k].obj
                          /\ program[j].kind = StartKind(program[k].kind))

(* The ranks whose points a start (or the wait for it) brings to rank r. *)
SourcesOf(kind, r) == IF kind \in UpdaterOps THEN Neighbors[r] ELSE SyncFrom[r]

(* The last wait, of the k operations rank r has finished, that brought it *)
(* points of field f from rank n.                                          *)
LastWaitFor(program, r, f, n, k) ==
  LastIndex(k, LAMBDA j : /\ program[j].kind \in {"wait", "sync_wait"}
                          /\ program[StartOf(program, j)].field = f
                          /\ n \in SourcesOf(program[j].kind, r))
=============================================================================
