--------------------------- MODULE MCCachingComm ---------------------------
(* Every program of a bounded number of calls, recorded and replayed. *)
EXTENDS CachingComm

Positions == 1..Len(trace)

-----------------------------------------------------------------------------
Receives(comm) == {k \in Positions : trace[k].comm = comm /\ trace[k].call \in {"Recv", "Irecv"}}

(* The call by which the data of a receive was there, 0 for none. *)
Completion(k) ==
  IF trace[k].call = "Recv" THEN k
  ELSE LET waits == {w \in Positions : trace[w].call = "wait" /\ trace[w].arg = k}
       IN  IF waits = {} THEN 0 ELSE CHOOSE w \in waits : TRUE

AllWaitedFor == \A c \in 1..comms : \A k \in Receives(c) : Completion(k) # 0

(* On each communicator receives are completed in the order they are made. *)
CompletedInOrder ==
  \A c \in 1..comms : \A i, j \in Receives(c) :
    i < j => Completion(i) < Completion(j)

NoGatherOnClient == \A k \in Positions : trace[k].call # "Gather"

(* The value the first run received by each call. *)
Received(k) == CASE trace[k].call \in {"bcast", "allreduce", "Recv"} -> k
                 [] trace[k].call = "wait" -> trace[k].arg
                 [] OTHER -> None

Identical == \A k \in DOMAIN seen : seen[k] = Received(k)

(***************************************************************************)
(* A program that completes its receives in the order it posts them, waits *)
(* for all of them and gathers nothing to another rank is replayed exactly *)
(* and uses up the record, on every communicator it splits off; the halo   *)
(* updates of the dynamical core are such a program.                       *)
(***************************************************************************)
OrderlyProgramsReplay ==
  (phase = "read" /\ AllWaitedFor /\ CompletedInOrder /\ NoGatherOnClient) =>
    /\ Identical
    /\ \A c \in 1..Len(reads) : reads[c] = c
    /\ done = Len(trace) =>
         \A c \in 1..comms : \A list \in Lists : cursor[c][list] = Len(data[c][list])

-----------------------------------------------------------------------------
(***************************************************************************)
(* "identical communication as was written by that writer, played back in  *)
(* the same order", for every program that waits for what it receives.     *)
(***************************************************************************)
EveryProgramReplays == (phase = "read" /\ AllWaitedFor) => Identical
=============================================================================
