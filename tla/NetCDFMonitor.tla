---------------------------- MODULE NetCDFMonitor ----------------------------
(***************************************************************************)
(* pace.util.monitor.NetCDFMonitor on the ranks of one tile: store gathers *)
(* the variables of a state to the tile's root one after the other, the    *)
(* root keeps them in memory and writes a file per time chunk, and cleanup *)
(* writes what is left.  Clients do not wait for the root: the gathers of  *)
(* several stores may be under way.                                        *)
(*                                                                         *)
(* A value is the record [name, time, rank] of what a rank stored.         *)
(***************************************************************************)
EXTENDS Integers, Sequences, FiniteSets

CONSTANTS Ranks,        \* ranks of the tile, the root is 0
          Names,        \* the variables of a state, in the order of the dictionary
          MaxStores,    \* bound on the stores of a run
          TimeChunkSize

VARIABLES
  last,         \* stores made before the run ends
  pc,           \* "store", "append", "cleanup" or "done", by rank
  stored,       \* stores each rank has completed
  name,         \* index of the variable each rank gathers next
  network,      \* data sent to the root by each client, in order
  gathered,     \* the variables of the present state gathered at the root
  chunked,      \* _chunked: variable -> snapshots held in memory
  i_time,       \* _i_time of the writer
  files         \* chunk index -> variable -> snapshots

vars == <<last, pc, stored, name, network, gathered, chunked, i_time, files>>

Root    == 0
Clients == Ranks \ {Root}
Vars    == 1..Len(Names)

NoChunk == [v \in Vars |-> << >>]

Value(v, time, rank) == [name |-> Names[v], time |-> time, rank |-> rank]

Init ==
  /\ last \in 0..MaxStores
  /\ pc = [r \in Ranks |-> IF last = 0 THEN "cleanup" ELSE "store"]
  /\ stored = [r \in Ranks |-> 0]
  /\ name = [r \in Ranks |-> 1]
  /\ network = [r \in Clients |-> << >>]
  /\ gathered = << >>
  /\ chunked = NoChunk
  /\ i_time = 0
  /\ files = << >>

-----------------------------------------------------------------------------
AfterStore(rank) == IF stored[rank] + 1 = last THEN "cleanup" ELSE "store"

(* Gather at a client: the data is sent and the call returns. *)
ClientGather(rank) ==
  /\ rank \in Clients
  /\ pc[rank] = "store"
  /\ network' = [network EXCEPT ![rank] = Append(@, Value(name[rank], stored[rank], rank))]
  /\ IF name[rank] = Len(Names)
     THEN /\ name' = [name EXCEPT ![rank] = 1]
          /\ stored' = [stored EXCEPT ![rank] = @ + 1]
          /\ pc' = [pc EXCEPT ![rank] = AfterStore(rank)]
     ELSE name' = [name EXCEPT ![rank] = @ + 1] /\ UNCHANGED <<stored, pc>>
  /\ UNCHANGED <<last, gathered, chunked, i_time, files>>

Snapshot(heads) == [r \in Ranks |-> IF r = Root THEN Value(name[Root], stored[Root], Root)
                                    ELSE heads[r]]

(* What Gather takes of the arrays a client has sent. *)
TakenLatest(sent) == sent[Len(sent)]

Taken(sent) == Head(sent)

(* The root waits for an array in the network from itself too. *)
AllSentByRanks == \A r \in Ranks : r \in Clients /\ network[r] # << >>

AllSent == \A r \in Clients : network[r] # << >>

(* Gather at the root: one array of each rank, in the order they were sent. *)
RootGather ==
  /\ pc[Root] = "store"
  /\ AllSent
  /\ gathered' = Append(gathered, Snapshot([r \in Clients |-> Taken(network[r])]))
  /\ network' = [r \in Clients |-> Tail(network[r])]
  /\ IF name[Root] = Len(Names)
     THEN pc' = [pc EXCEPT ![Root] = "append"] /\ name' = [name EXCEPT ![Root] = 1]
     ELSE name' = [name EXCEPT ![Root] = @ + 1] /\ UNCHANGED pc
  /\ UNCHANGED <<last, stored, chunked, i_time, files>>

-----------------------------------------------------------------------------
(* A file of the same chunk is removed first. *)
Written(index, chunk) ==
  [i \in DOMAIN files \cup {index} |-> IF i = index THEN chunk ELSE files[i]]

ChunkIndex(time) == time \div TimeChunkSize

(* flush: nothing in memory, nothing written. *)
Flush(chunk) ==
  IF chunk = NoChunk THEN files ELSE Written(ChunkIndex(i_time), chunk)

ChunkFullLate(time) == time % TimeChunkSize = 0

ChunkFull(time) == (time + 1) % TimeChunkSize = 0

(* self._chunked = None *)
MemoryAfterFlush(chunk) == NoChunk

AppendState ==
  /\ pc[Root] = "append"
  /\ LET chunk == [v \in Vars |-> Append(chunked[v], gathered[v])]
     IN  IF ChunkFull(i_time)
         THEN files' = Flush(chunk) /\ chunked' = MemoryAfterFlush(chunk)
         ELSE chunked' = chunk /\ UNCHANGED files
  /\ i_time' = i_time + 1
  /\ gathered' = << >>
  /\ stored' = [stored EXCEPT ![Root] = @ + 1]
  /\ pc' = [pc EXCEPT ![Root] = AfterStore(Root)]
  /\ UNCHANGED <<last, name, network>>

(* The states in memory dropped. *)
CleanupWithoutFlush(rank) ==
  /\ pc[rank] = "cleanup"
  /\ pc' = [pc EXCEPT ![rank] = "done"]
  /\ UNCHANGED <<last, stored, name, network, gathered, chunked, i_time, files>>

(* Every rank has a writer by now; that of a client never holds anything. *)
Cleanup(rank) ==
  /\ pc[rank] = "cleanup"
  /\ IF rank = Root THEN files' = Flush(chunked) /\ chunked' = MemoryAfterFlush(chunked)
                    ELSE UNCHANGED <<files, chunked>>
  /\ pc' = [pc EXCEPT ![rank] = "done"]
  /\ UNCHANGED <<last, stored, name, network, gathered, i_time>>

RankStep(rank) == ClientGather(rank) \/ Cleanup(rank)

Next == (\E rank \in Ranks : RankStep(rank)) \/ RootGather \/ AppendState

Spec == Init /\ [][Next]_vars

-----------------------------------------------------------------------------
(* The snapshot of a variable at a time: every rank's part, of that time. *)
Whole(v, time) == [r \in Ranks |-> Value(v, time, r)]

(***************************************************************************)
(* However far the clients run ahead, what the root gathers for a variable *)
(* are the parts of that variable, at the root's own time, of all ranks.   *)
(***************************************************************************)
GathersAreSnapshots ==
  \A k \in DOMAIN gathered : gathered[k] = Whole(k, stored[Root])

(***************************************************************************)
(* File k holds the times from k * time_chunk_size on: as many as a chunk  *)
(* has, or up to the end of the run in the last one.  Nothing is written   *)
(* twice and no time is left out.                                          *)
(***************************************************************************)
FilesHoldTheirTimes ==
  \A k \in DOMAIN files : \A v \in Vars :
    /\ \A i \in DOMAIN files[k][v] : files[k][v][i] = Whole(v, k * TimeChunkSize + i - 1)
    /\ Len(files[k][v]) = TimeChunkSize
         \/ /\ pc[Root] = "done"
            /\ k * TimeChunkSize + Len(files[k][v]) = last

(***************************************************************************)
(* When the root has cleaned up every stored time is in a file.            *)
(***************************************************************************)
NothingLost ==
  pc[Root] = "done" =>
    \A time \in 0..(last - 1) :
      /\ time \div TimeChunkSize \in DOMAIN files
      /\ time % TimeChunkSize < Len(files[time \div TimeChunkSize][1])

Ended == \A r \in Ranks : pc[r] = "done"
=============================================================================
