----------------------------- MODULE ZarrMonitor -----------------------------
(***************************************************************************)
(* pace.util.monitor.ZarrMonitor: all ranks write their subtiles into one  *)
(* zarr store.  For each variable of a state, in the order of the names,   *)
(* the root creates or extends the array on disk, broadcasts the array     *)
(* object, and every rank writes its part at its own i_time.  A broadcast  *)
(* does not hold the root back; the barrier that ends the writing of       *)
(* "time" does.  After the stores come the constants: variables without a  *)
(* time that are appended once.                                            *)
(***************************************************************************)
EXTENDS Integers, Sequences, FiniteSets

CONSTANTS Ranks,        \* the root is 0
          Names,        \* the variables of a state, sorted, "time" among them
          Stores,       \* stores each rank makes
          Constants     \* store_constant calls after them

VARIABLES
  pc,           \* the statement of append each rank is at
  var,          \* index of the variable each rank appends to
  i_time,       \* i_time of the writer: stores each rank has completed of var
  created,      \* rank -> variables whose array object it has
  view,         \* rank -> variable -> length of the array as its object has it
  syncs,        \* broadcasts sent to each client and not yet received
  length,       \* variable -> length of the array on disk, 0 before it is created
  disk,         \* variable -> set of <<i_time, rank>> written
  arrived       \* ranks waiting in the barrier

vars == <<pc, var, i_time, created, view, syncs, length, disk, arrived>>

Root    == 0
Clients == Ranks \ {Root}
Vars    == 1..(Len(Names) + Constants)

IsConstant(v) == v > Len(Names)
IsTime(v) == ~ IsConstant(v) /\ Names[v] = "time"

Init ==
  /\ pc = [r \in Ranks |-> "append"]
  /\ var = [r \in Ranks |-> 1]
  /\ i_time = [r \in Ranks |-> 0]
  /\ created = [r \in Ranks |-> {}]
  /\ view = [r \in Ranks |-> [v \in Vars |-> 0]]
  /\ syncs = [r \in Clients |-> << >>]
  /\ length = [v \in Vars |-> 0]
  /\ disk = [v \in Vars |-> {}]
  /\ arrived = {}

(* The index a rank writes at: a constant has no times. *)
Index(rank) == IF IsConstant(var[rank]) THEN 0 ELSE i_time[rank]

Goto(rank, label) == pc' = [pc EXCEPT ![rank] = label]

(* sync_array at the root: the object is on its way to the clients. *)
Send(v) == syncs' = [r \in Clients |-> Append(syncs[r], v)]

-----------------------------------------------------------------------------
(* append of a variable without an array: _init_zarr, with a sync. *)
RootCreate ==
  LET v == var[Root] IN
  /\ pc[Root] = "append"
  /\ v \notin created[Root]
  /\ length' = [length EXCEPT ![v] = 1]
  /\ created' = [created EXCEPT ![Root] = @ \cup {v}]
  /\ view' = [view EXCEPT ![Root][v] = 1]
  /\ Send(v)
  /\ UNCHANGED <<pc, var, i_time, disk, arrived>>

(* The length at which the root extends the array. *)
ResizeNeededLate(time, len) == time > len

ResizeNeeded(time, len) == time >= len

(* The length the root gives the array. *)
Grown(time) == time + 1

(* The root extends the array by one time if need be, then the sync. *)
RootExtend ==
  LET v == var[Root] IN
  /\ pc[Root] = "append"
  /\ v \in created[Root]
  /\ IF ResizeNeeded(Index(Root), view[Root][v])
     THEN /\ length' = [length EXCEPT ![v] = Grown(Index(Root))]
          /\ view' = [view EXCEPT ![Root][v] = Grown(Index(Root))]
     ELSE UNCHANGED <<length, view>>
  /\ Send(v)
  /\ Goto(Root, "write")
  /\ UNCHANGED <<var, i_time, created, disk, arrived>>

(***************************************************************************)
(* A client unpickles the object broadcast, which reads the shape from the *)
(* store: the first sync of a variable in _init_zarr, the other in append. *)
(***************************************************************************)
ClientSync(rank) ==
  LET v == var[rank] IN
  /\ rank \in Clients
  /\ pc[rank] = "append"
  /\ syncs[rank] # << >>
  /\ syncs' = [syncs EXCEPT ![rank] = Tail(@)]
  /\ view' = [view EXCEPT ![rank][Head(syncs[rank])] = length[Head(syncs[rank])]]
  /\ IF v \in created[rank] THEN Goto(rank, "write") /\ UNCHANGED created
     ELSE created' = [created EXCEPT ![rank] = @ \cup {v}] /\ UNCHANGED pc
  /\ UNCHANGED <<var, i_time, length, disk, arrived>>

(***************************************************************************)
(* What follows the append of a variable, in the order of the names, and   *)
(* after the last store the constants.                                     *)
(***************************************************************************)
NextVar(v, time) ==
  IF v = Len(Names) /\ time + 1 < Stores THEN 1 ELSE v + 1

NextTime(v, time) == IF v = Len(Names) THEN time + 1 ELSE time

NextLabel(v, time) ==
  IF NextVar(v, time) \in Vars THEN "append" ELSE "done"

Advance(rank) ==
  /\ var' = [var EXCEPT ![rank] = NextVar(@, i_time[rank])]
  /\ i_time' = [i_time EXCEPT ![rank] = NextTime(var[rank], @)]
  /\ Goto(rank, NextLabel(var[rank], i_time[rank]))

(* The time written without asking for the rank. *)
WritesAnyRank(rank, v) == TRUE

(* Who writes: every rank its slice of a variable, the root alone the time. *)
Writes(rank, v) == IsTime(v) => rank = Root

(* The assignment into the array, and the barrier after the time. *)
Write(rank) ==
  LET v == var[rank] IN
  /\ pc[rank] = "write"
  /\ disk' = IF Writes(rank, v)
             THEN [disk EXCEPT ![v] = @ \cup {<<Index(rank), rank>>}]
             ELSE disk
  /\ IF IsTime(v)
     THEN Goto(rank, "barrier") /\ arrived' = arrived \cup {rank} /\ UNCHANGED <<var, i_time>>
     ELSE Advance(rank) /\ UNCHANGED arrived
  /\ UNCHANGED <<created, view, syncs, length>>

(* Left when another rank is there. *)
BarrierOpenEarly == Cardinality(arrived) > 1

BarrierOpen == arrived = Ranks

(* The barrier is left by all at once; what follows is Advance of each. *)
LeaveBarrier ==
  /\ BarrierOpen
  /\ arrived' = {}
  /\ var' = [r \in Ranks |-> IF r \in arrived THEN NextVar(var[r], i_time[r]) ELSE var[r]]
  /\ i_time' = [r \in Ranks |-> IF r \in arrived THEN NextTime(var[r], i_time[r]) ELSE i_time[r]]
  /\ pc' = [r \in Ranks |-> IF r \in arrived THEN NextLabel(var[r], i_time[r]) ELSE pc[r]]
  /\ UNCHANGED <<created, view, syncs, length, disk>>

RankStep(rank) == ClientSync(rank) \/ Write(rank)

RootStep == RootCreate \/ RootExtend

Next == (\E rank \in Ranks : RankStep(rank)) \/ RootStep \/ LeaveBarrier

Spec == Init /\ [][Next]_vars

-----------------------------------------------------------------------------
(***************************************************************************)
(* A rank about to write finds the array long enough, on disk and in its   *)
(* own copy of the object, although the root alone extends it and never    *)
(* waits for the others.                                                   *)
(***************************************************************************)
WritesInBounds ==
  \A r \in Ranks : pc[r] = "write" =>
    Index(r) < view[r][var[r]] /\ view[r][var[r]] <= length[var[r]]

(***************************************************************************)
(* When a time is in the store and its barrier is passed, the variables    *)
(* named before "time" are complete up to it on every rank, and the others *)
(* up to the time before.                                                  *)
(***************************************************************************)
TimesAreComplete ==
  LET t == CHOOSE v \in Vars : IsTime(v)
      Passed(r) == IF var[r] > t /\ i_time[r] < Stores THEN i_time[r] ELSE i_time[r] - 1
  IN  \A r, q \in Ranks : \A v \in Vars : (~ IsConstant(v) /\ v # t) =>
        \A i \in 0..(IF v < t THEN Passed(r) ELSE Passed(r) - 1) : <<i, q>> \in disk[v]

(***************************************************************************)
(* When all are done every variable has every time of every rank, and each *)
(* constant every rank's part, and the arrays are exactly that long.       *)
(***************************************************************************)
Ended == \A r \in Ranks : pc[r] = "done"

StoreIsComplete ==
  Ended =>
    \A v \in Vars :
      LET times == IF IsConstant(v) THEN 1 ELSE Stores
      IN  /\ length[v] = times
          /\ disk[v] = (0..(times - 1)) \X (IF IsTime(v) THEN {Root} ELSE Ranks)
=============================================================================
