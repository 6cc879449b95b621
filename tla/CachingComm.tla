----------------------------- MODULE CachingComm -----------------------------
(***************************************************************************)
(* pace.util.caching_comm: a rank runs once over a CachingCommWriter,      *)
(* which records what it receives, and later again over CachingCommReaders *)
(* that replay the record without any other rank.  The program of the rank *)
(* is left open: in the first run it makes any legal sequence of calls     *)
(* (trace), in the second it makes the same calls again.                   *)
(*                                                                         *)
(* A value received is named after the call it is meant for: the position  *)
(* in trace of the Recv, Irecv, Scatter, Gather, bcast or allreduce.       *)
(***************************************************************************)
EXTENDS Integers, Sequences

CONSTANTS MaxCalls,     \* bound on the length of the program
          MaxComms      \* bound on the communicators it splits off

ASSUME BoundsAssumption == MaxCalls \in Nat \ {0} /\ MaxComms \in Nat \ {0}

VARIABLES
  phase,        \* "write", then "read"
  trace,        \* calls of the first run: records [call, comm, arg]
  comms,        \* communicators of the first run: the first is the world
  data,         \* CachingCommData of each: its lists
  pending,      \* Irecvs posted and not yet waited for
  done,         \* calls replayed
  cursor,       \* positions of the readers in the lists
  reads,        \* communicator of the second run -> the data it reads
  posted,       \* Irecv replayed -> the value its reader request holds
  seen          \* values the second run received, by position in trace

vars == <<phase, trace, comms, data, pending, done, cursor, reads, posted, seen>>

(* A list entry that is no array (the recvbuf of a non-root Gather). *)
None == -1

(* get_buffer beyond the end of the list: IndexError. *)
IndexError == -2

Lists == {"bcast", "received", "generic", "split"}

EmptyData == [list \in Lists |-> << >>]
AtStart   == [list \in Lists |-> 0]

Init ==
  /\ phase = "write"
  /\ trace = << >>
  /\ comms = 1
  /\ data = <<EmptyData>>
  /\ pending = {}
  /\ done = 0
  /\ cursor = <<AtStart>>
  /\ reads = <<1>>
  /\ posted = << >>
  /\ seen = << >>

Call(call, comm, arg) == [call |-> call, comm |-> comm, arg |-> arg]

Position == Len(trace) + 1      \* of the call being made

Record(comm, list, value) ==
  data' = [data EXCEPT ![comm][list] = Append(@, value)]

-----------------------------------------------------------------------------
(* CachingCommWriter. *)

CanWrite(comm) == phase = "write" /\ comm \in 1..comms /\ Len(trace) < MaxCalls

Made(call, comm, arg) == trace' = Append(trace, Call(call, comm, arg))

Reader == <<done, cursor, reads, posted, seen>>

WriteBcast(comm) ==
  /\ CanWrite(comm)
  /\ Made("bcast", comm, 0)
  /\ Record(comm, "bcast", Position)
  /\ UNCHANGED <<phase, comms, pending, Reader>>

WriteAllreduce(comm) ==
  /\ CanWrite(comm)
  /\ Made("allreduce", comm, 0)
  /\ Record(comm, "generic", Position)
  /\ UNCHANGED <<phase, comms, pending, Reader>>

(* Recv, Scatter and Gather at the root: the data is there on return. *)
WriteRecv(comm) ==
  /\ CanWrite(comm)
  /\ Made("Recv", comm, 0)
  /\ Record(comm, "received", Position)
  /\ UNCHANGED <<phase, comms, pending, Reader>>

(* Gather on another rank: recvbuf is None and recorded all the same. *)
WriteGatherClient(comm) ==
  /\ CanWrite(comm)
  /\ Made("Gather", comm, 0)
  /\ Record(comm, "received", None)
  /\ UNCHANGED <<phase, comms, pending, Reader>>

WriteIrecv(comm) ==
  /\ CanWrite(comm)
  /\ Made("Irecv", comm, 0)
  /\ pending' = pending \cup {Position}
  /\ UNCHANGED <<phase, comms, data, Reader>>

(* The request completed without recording its buffer. *)
WriteWaitUnrecorded(irecv) ==
  /\ irecv \in pending
  /\ CanWrite(trace[irecv].comm)
  /\ Made("wait", trace[irecv].comm, irecv)
  /\ pending' = pending \ {irecv}
  /\ UNCHANGED <<phase, comms, data, Reader>>

(* The request records the buffer once it is filled. *)
WriteWait(irecv) ==
  /\ irecv \in pending
  /\ CanWrite(trace[irecv].comm)
  /\ Made("wait", trace[irecv].comm, irecv)
  /\ Record(trace[irecv].comm, "received", irecv)
  /\ pending' = pending \ {irecv}
  /\ UNCHANGED <<phase, comms, Reader>>

(* The data of the new communicator is part of that of the one split. *)
WriteSplit(comm) ==
  /\ CanWrite(comm)
  /\ comms < MaxComms
  /\ Made("Split", comm, comms + 1)
  /\ comms' = comms + 1
  /\ data' = Append([data EXCEPT ![comm]["split"] = Append(@, comms + 1)], EmptyData)
  /\ UNCHANGED <<phase, pending, Reader>>

(* cleanup dumps the record; it is loaded with its cursors at the start. *)
DumpAndLoad ==
  /\ phase = "write"
  /\ phase' = "read"
  /\ cursor' = [c \in 1..comms |-> AtStart]
  /\ UNCHANGED <<trace, comms, data, pending, done, reads, posted, seen>>

-----------------------------------------------------------------------------
(* CachingCommReader. *)

Due == trace[done + 1]          \* the call replayed next

CanRead(calls) == phase = "read" /\ done < Len(trace) /\ Due.call \in calls

From == reads[Due.comm]         \* the data its communicator reads

NextEntry(list) ==
  IF cursor[From][list] < Len(data[From][list])
  THEN data[From][list][cursor[From][list] + 1] ELSE IndexError

Advance(list) == cursor' = [cursor EXCEPT ![From][list] = @ + 1]

See(value) == seen' = Append(seen, value) /\ done' = done + 1

(* A call that returns no data may still run off the end of its list. *)
NoneUnlessRaised(list) == IF NextEntry(list) = IndexError THEN IndexError ELSE None

Writer == <<phase, trace, comms, data, pending>>

(* The list a call that returns data reads from. *)
Source(call) == CASE call = "bcast"     -> "bcast"
                  [] call = "allreduce" -> "generic"
                  [] call = "Recv"      -> "received"

ReadValue ==
  /\ CanRead({"bcast", "allreduce", "Recv"})
  /\ See(NextEntry(Source(Due.call)))
  /\ Advance(Source(Due.call))
  /\ UNCHANGED <<Writer, reads, posted>>

(* With no recvbuf the reader takes nothing from the list. *)
ReadGatherClient ==
  /\ CanRead({"Gather"})
  /\ See(None)
  /\ UNCHANGED <<Writer, cursor, reads, posted>>

(* The request holds the next entry from the moment it is made. *)
ReadIrecv ==
  /\ CanRead({"Irecv"})
  /\ posted' = [i \in DOMAIN posted \cup {done + 1} |->
                  IF i = done + 1 THEN NextEntry("received") ELSE posted[i]]
  /\ Advance("received")
  /\ See(NoneUnlessRaised("received"))
  /\ UNCHANGED <<Writer, reads>>

ReadWait ==
  /\ CanRead({"wait"})
  /\ See(posted[Due.arg])
  /\ UNCHANGED <<Writer, cursor, reads, posted>>

ReadSplit ==
  /\ CanRead({"Split"})
  /\ reads' = Append(reads, NextEntry("split"))
  /\ Advance("split")
  /\ See(NoneUnlessRaised("split"))
  /\ UNCHANGED <<Writer, posted>>

(* An IndexError ends the second run. *)
Raised == seen # << >> /\ seen[Len(seen)] = IndexError

Write(comm) ==
  \/ WriteBcast(comm)
  \/ WriteAllreduce(comm)
  \/ WriteRecv(comm)
  \/ WriteGatherClient(comm)
  \/ WriteIrecv(comm)
  \/ WriteSplit(comm)

Read ==
  /\ ~Raised
  /\ ReadValue \/ ReadGatherClient \/ ReadIrecv \/ ReadWait \/ ReadSplit

Next ==
  \/ \E comm \in 1..comms : Write(comm)
  \/ \E irecv \in pending : WriteWait(irecv)
  \/ DumpAndLoad
  \/ Read

Spec == Init /\ [][Next]_vars
=============================================================================
