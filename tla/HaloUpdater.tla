---------------------------- MODULE HaloUpdater ----------------------------
(***************************************************************************)
(* Halo exchanges as pace.util runs them: HaloUpdater objects (created     *)
(* once and reused, or one-shot ones finalized by their wait), the         *)
(* HaloUpdateRequest of a vector interface exchange, the buffer cache they *)
(* draw from, and the non-blocking MPI messages between the ranks.         *)
(*                                                                         *)
(* Messages are zero-copy: Isend and Irecv hand MPI the buffer itself, so  *)
(* what arrives is what the send buffer holds when the message is moved,   *)
(* and it lands in whatever the receive buffer is then used for.           *)
(***************************************************************************)
EXTENDS HaloProgram

CONSTANTS
  Programs,     \* the operation sequences explored
  MaxBuffers    \* bound on the buffers a rank ever allocates

ASSUME ProgramsAssumption ==
  /\ Programs \subseteq Seq(Op)
  /\ MaxBuffers \in Nat

VARIABLES
  program,      \* the sequence of operations every rank runs
  pc,           \* pc[r]: operations rank r has finished
  raised,       \* raised[r]: rank r stopped at an exception
  data,         \* data[r][f]: version of r's own points of f
  ghost,        \* ghost[r][f][n]: r's copy of points of f that n owns
  lastTag,      \* Communicator._last_halo_tag
  status,       \* status[r][o]: life cycle of an updater or a request
  tag,          \* tag[r][u]: HaloUpdater._tag
  inflight,     \* inflight[r][o]: index of the start under way, 0 if none
  buffer,       \* buffer[r][<<o, dir, n>>]: o's buffer for rank n, or None
  cache,        \* BUFFER_CACHE: buffers free for reuse (order abstracted)
  allocated,    \* buffers r has allocated: 1..allocated[r]
  memory,       \* memory[r][b]: content of a buffer
  sends,        \* posted Isends MPI has not completed
  sysbuf,       \* messages MPI copied out of the send buffer
  recvs         \* posted Irecvs not completed

rankVars == <<program, pc, raised, data, ghost, lastTag, status, tag, inflight>>
bufVars  == <<buffer, cache, allocated, memory>>
netVars  == <<sends, sysbuf, recvs>>
vars     == <<rankVars, bufVars, netVars>>

-----------------------------------------------------------------------------
Objects == Updaters \cup Requests
None    == 0
Buffers == 1..MaxBuffers
Slots   == Objects \X {"send", "recv"} \X Ranks

SendMsg == [src : Ranks, dst : Ranks, tag : Nat, op : Nat, buf : Buffers]
SysMsg  == [src : Ranks, dst : Ranks, tag : Nat, op : Nat, val : Value]

(* VectorInterfaceHaloUpdater counts its own tags, from one, in each object. *)
InterfaceTag == 1

Running(r) == ~raised[r] /\ pc[r] < Len(program)
CurrentOp(r) == program[pc[r] + 1]
Executes(r, kind) == Running(r) /\ CurrentOp(r).kind = kind

Advance(r) == pc' = [pc EXCEPT ![r] = @ + 1]

Raise(r) ==
  /\ raised' = [raised EXCEPT ![r] = TRUE]
  /\ UNCHANGED <<program, pc, data, ghost, lastTag, status, tag, inflight>>
  /\ UNCHANGED <<bufVars, netVars>>

UpdaterSlots(u, r) == {u} \X {"send", "recv"} \X Neighbors[r]

SlotBuffers(slots, r) == {buffer[r][s] : s \in slots} \ {None}

Packed(r, f) == [rank |-> r, ver |-> data[r][f]]

-----------------------------------------------------------------------------
(* Buffer.pop_from_cache: a free buffer, a new one when the cache is empty. *)
PopFromCache(r, slot) ==
  LET reuse == cache[r] # {}
      b     == IF reuse THEN CHOOSE c \in cache[r] : TRUE ELSE allocated[r] + 1
  IN  /\ b \in Buffers
      /\ buffer' = [buffer EXCEPT ![r][slot] = b]
      /\ cache' = [cache EXCEPT ![r] = @ \ {b}]
      /\ allocated' = IF reuse THEN allocated ELSE [allocated EXCEPT ![r] = @ + 1]

(* Were the references kept, a finalized transformer would still use them. *)
PushKeepsReference(r, slots) ==
  /\ cache' = [cache EXCEPT ![r] = @ \cup SlotBuffers(slots, r)]
  /\ UNCHANGED buffer

(* The references of some slots dropped. *)
Drop(r, slots) ==
  buffer' = [buffer EXCEPT ![r] = [s \in Slots |-> IF s \in slots THEN None ELSE @[s]]]

(* HaloDataTransformer.finalize: back to the cache, the references dropped. *)
PushToCache(r, slots) ==
  /\ cache' = [cache EXCEPT ![r] = @ \cup SlotBuffers(slots, r)]
  /\ Drop(r, slots)

-----------------------------------------------------------------------------
(* get_scalar_halo_updater, get_vector_halo_updater: HaloDataTransformer._compile *)
(* takes a pack and an unpack buffer for every target rank.                *)

MissingSlots(r) == {s \in UpdaterSlots(CurrentOp(r).obj, r) : buffer[r][s] = None}

Compile(r) ==
  /\ Executes(r, "create")
  /\ status[r][CurrentOp(r).obj] = "absent"
  /\ MissingSlots(r) # {}
  /\ PopFromCache(r, CHOOSE s \in MissingSlots(r) : TRUE)
  /\ UNCHANGED <<rankVars, memory, netVars>>

Create(r) ==
  /\ Executes(r, "create")
  /\ status[r][CurrentOp(r).obj] = "absent"
  /\ MissingSlots(r) = {}
  /\ lastTag' = [lastTag EXCEPT ![r] = @ + 1]
  /\ tag' = [tag EXCEPT ![r][CurrentOp(r).obj] = lastTag[r] + 1]
  /\ status' = [status EXCEPT ![r][CurrentOp(r).obj] = "idle"]
  /\ Advance(r)
  /\ UNCHANGED <<program, raised, data, ghost, inflight, bufVars, netVars>>

-----------------------------------------------------------------------------
(* HaloUpdater.start: post the receives, pack, post the sends. *)

SendsIgnored(r, op) == FALSE
SendsPending(r, op) == \E m \in sends : m.src = r /\ m.op = op
RecvsPending(r, op) == \E m \in recvs : m.dst = r /\ m.op = op

Busy(r, u) == status[r][u] = "inflight"

(* Without buffers get_unpack_buffer raises. *)
Spent(r, u) == status[r][u] = "finalized"

(* A mutation: the sends of every updater carry the first tag. *)
SendsOfFirstTag(r, u, op) ==
  {[src |-> r, dst |-> n, tag |-> InterfaceTag, op |-> op,
    buf |-> buffer[r][<<u, "send", n>>]] : n \in Neighbors[r]}

SendsOf(r, u, op) ==
  {[src |-> r, dst |-> n, tag |-> tag[r][u], op |-> op,
    buf |-> buffer[r][<<u, "send", n>>]] : n \in Neighbors[r]}

RecvsOfNewestTag(r, u, op) ==
  {[src |-> n, dst |-> r, tag |-> lastTag[r], op |-> op,
    buf |-> buffer[r][<<u, "recv", n>>]] : n \in Neighbors[r]}

RecvsOf(r, u, op) ==
  {[src |-> n, dst |-> r, tag |-> tag[r][u], op |-> op,
    buf |-> buffer[r][<<u, "recv", n>>]] : n \in Neighbors[r]}

StartRecv(r) ==
  /\ Executes(r, "start")
  /\ ~Busy(r, CurrentOp(r).obj) /\ ~Spent(r, CurrentOp(r).obj)
  /\ status[r][CurrentOp(r).obj] \notin {"absent", "deleted", "receiving"}
  /\ recvs' = recvs \cup RecvsOf(r, CurrentOp(r).obj, pc[r] + 1)
  /\ status' = [status EXCEPT ![r][CurrentOp(r).obj] = "receiving"]
  /\ UNCHANGED <<program, pc, raised, data, ghost, lastTag, tag, inflight>>
  /\ UNCHANGED <<bufVars, sends, sysbuf>>

StartSend(r) ==
  /\ Executes(r, "start")
  /\ LET u == CurrentOp(r).obj
         f == CurrentOp(r).field
         packBuffers == {buffer[r][<<u, "send", n>>] : n \in Neighbors[r]}
     IN  /\ status[r][u] = "receiving"
         /\ memory' = [memory EXCEPT ![r] =
                         [b \in Buffers |-> IF b \in packBuffers THEN Packed(r, f) ELSE @[b]]]
         /\ inflight' = [inflight EXCEPT ![r][u] = pc[r] + 1]
         /\ status' = [status EXCEPT ![r][u] = "inflight"]
         /\ sends' = sends \cup SendsOf(r, u, pc[r] + 1)
  /\ Advance(r)
  /\ UNCHANGED <<program, raised, data, ghost, lastTag, tag>>
  /\ UNCHANGED <<buffer, cache, allocated, sysbuf, recvs>>

(* An exchange is still under way, or the buffers were given back. *)
StartRaises(r) ==
  /\ Executes(r, "start")
  /\ Busy(r, CurrentOp(r).obj) \/ Spent(r, CurrentOp(r).obj)
  /\ Raise(r)

(* HaloUpdater.wait: every request, then unpack, then keep or give back. *)

UnpackForgotten(r, o, sources) == UNCHANGED ghost

Unpack(r, o, sources) ==
  ghost' = [ghost EXCEPT ![r][program[inflight[r][o]].field] =
              [n \in Ranks |-> IF n \in sources
                               THEN memory[r][buffer[r][<<o, "recv", n>>]] ELSE @[n]]]

Wait(r) ==
  /\ Executes(r, "wait")
  /\ LET u == CurrentOp(r).obj
     IN  /\ status[r][u] = "inflight"
         /\ ~SendsPending(r, inflight[r][u])
         /\ ~RecvsPending(r, inflight[r][u])
         /\ Unpack(r, u, Neighbors[r])
         /\ inflight' = [inflight EXCEPT ![r][u] = 0]
         /\ \/ /\ u \in OneShot
               /\ PushToCache(r, UpdaterSlots(u, r))
               /\ status' = [status EXCEPT ![r][u] = "finalized"]
            \/ /\ u \notin OneShot
               /\ status' = [status EXCEPT ![r][u] = "idle"]
               /\ UNCHANGED <<buffer, cache>>
  /\ Advance(r)
  /\ UNCHANGED <<program, raised, data, lastTag, tag, allocated, memory, netVars>>

WaitRaises(r) ==
  /\ Executes(r, "wait")
  /\ status[r][CurrentOp(r).obj] \in {"idle", "finalized"}
  /\ Raise(r)

(* HaloUpdater.__del__, on an updater with no exchange under way.  A one-shot *)
(* updater is not finalized here: what it holds is collected with it.      *)
Delete(r) ==
  /\ Executes(r, "delete")
  /\ LET u == CurrentOp(r).obj
     IN  /\ status[r][u] \in {"idle", "finalized"}
         /\ IF u \in OneShot THEN Drop(r, UpdaterSlots(u, r)) /\ UNCHANGED cache
                             ELSE PushToCache(r, UpdaterSlots(u, r))
         /\ status' = [status EXCEPT ![r][u] = "deleted"]
  /\ Advance(r)
  /\ UNCHANGED <<program, raised, data, ghost, lastTag, tag, inflight>>
  /\ UNCHANGED <<allocated, memory, netVars>>

-----------------------------------------------------------------------------
(* start_synchronize_vector_interfaces: the sends, one buffer at a time,   *)
(* then the receives; a new updater object, hence always the same tag.     *)

Unposted(r, i, dir, ranks) == {n \in ranks : buffer[r][<<i, dir, n>>] = None}

SyncIsend(r) ==
  /\ Executes(r, "sync_start")
  /\ LET i == CurrentOp(r).obj
         todo == Unposted(r, i, "send", SyncTo[r])
         n == CHOOSE m \in todo : TRUE
     IN  /\ status[r][i] = "absent"
         /\ todo # {}
         /\ PopFromCache(r, <<i, "send", n>>)
         /\ memory' = [memory EXCEPT ![r][buffer'[r][<<i, "send", n>>]] =
                         Packed(r, CurrentOp(r).field)]
         /\ sends' = sends \cup {[src |-> r, dst |-> n, tag |-> InterfaceTag,
                                  op |-> pc[r] + 1, buf |-> buffer'[r][<<i, "send", n>>]]}
  /\ UNCHANGED <<rankVars, sysbuf, recvs>>

SyncIrecv(r) ==
  /\ Executes(r, "sync_start")
  /\ LET i == CurrentOp(r).obj
         todo == Unposted(r, i, "recv", SyncFrom[r])
         n == CHOOSE m \in todo : TRUE
     IN  /\ status[r][i] = "absent"
         /\ Unposted(r, i, "send", SyncTo[r]) = {}
         /\ todo # {}
         /\ PopFromCache(r, <<i, "recv", n>>)
         /\ recvs' = recvs \cup {[src |-> n, dst |-> r, tag |-> InterfaceTag,
                                  op |-> pc[r] + 1, buf |-> buffer'[r][<<i, "recv", n>>]]}
  /\ UNCHANGED <<rankVars, memory, sends, sysbuf>>

SyncStarted(r) ==
  /\ Executes(r, "sync_start")
  /\ LET i == CurrentOp(r).obj
     IN  /\ status[r][i] = "absent"
         /\ Unposted(r, i, "send", SyncTo[r]) = {}
         /\ Unposted(r, i, "recv", SyncFrom[r]) = {}
         /\ inflight' = [inflight EXCEPT ![r][i] = pc[r] + 1]
         /\ status' = [status EXCEPT ![r][i] = "inflight"]
  /\ Advance(r)
  /\ UNCHANGED <<program, raised, data, ghost, lastTag, tag, bufVars, netVars>>

(* HaloUpdateRequest.wait: each send's buffer is given back as soon as that *)
(* send completes, then each receive is unpacked and its buffer given back. *)

SyncNeverPending(r, n, op) == FALSE
SyncSendPending(r, n, op) == \E m \in sends : m.src = r /\ m.dst = n /\ m.op = op
SyncRecvPending(r, n, op) == \E m \in recvs : m.dst = r /\ m.src = n /\ m.op = op

SyncSendDone(r) ==
  /\ Executes(r, "sync_wait")
  /\ LET i == CurrentOp(r).obj
     IN  \E n \in SyncTo[r] :
           /\ status[r][i] = "inflight"
           /\ buffer[r][<<i, "send", n>>] # None
           /\ ~SyncSendPending(r, n, inflight[r][i])
           /\ PushToCache(r, {<<i, "send", n>>})
  /\ UNCHANGED <<rankVars, allocated, memory, netVars>>

SyncRecvDone(r) ==
  /\ Executes(r, "sync_wait")
  /\ LET i == CurrentOp(r).obj
     IN  /\ status[r][i] = "inflight"
         /\ \A n \in SyncTo[r] : buffer[r][<<i, "send", n>>] = None
         /\ \E n \in SyncFrom[r] :
              /\ buffer[r][<<i, "recv", n>>] # None
              /\ ~SyncRecvPending(r, n, inflight[r][i])
              /\ Unpack(r, i, {n})
              /\ PushToCache(r, {<<i, "recv", n>>})
  /\ UNCHANGED <<program, pc, raised, data, lastTag, status, tag, inflight>>
  /\ UNCHANGED <<allocated, memory, netVars>>

SyncWaited(r) ==
  /\ Executes(r, "sync_wait")
  /\ LET i == CurrentOp(r).obj
     IN  /\ status[r][i] = "inflight"
         /\ \A n \in SyncTo[r] : buffer[r][<<i, "send", n>>] = None
         /\ \A n \in SyncFrom[r] : buffer[r][<<i, "recv", n>>] = None
         /\ status' = [status EXCEPT ![r][i] = "finalized"]
         /\ inflight' = [inflight EXCEPT ![r][i] = 0]
  /\ Advance(r)
  /\ UNCHANGED <<program, raised, data, ghost, lastTag, tag, bufVars, netVars>>

-----------------------------------------------------------------------------
(* Model code computes new values of a field's own points. *)
Write(r) ==
  /\ Executes(r, "write")
  /\ data' = [data EXCEPT ![r][CurrentOp(r).field] = pc[r] + 1]
  /\ Advance(r)
  /\ UNCHANGED <<program, raised, ghost, lastTag, status, tag, inflight>>
  /\ UNCHANGED <<bufVars, netVars>>

-----------------------------------------------------------------------------
(***************************************************************************)
(* MPI: on one channel (source, destination, tag) the k-th send matches    *)
(* the k-th receive; matched messages complete in any order.  A send may   *)
(* complete early, its content copied by MPI.  Posts follow program order, *)
(* so a message's position on its channel is the number of earlier ones.   *)
(***************************************************************************)
SameChannel(m, p) == m.src = p.src /\ m.dst = p.dst /\ m.tag = p.tag

Ahead(m, posted) ==
  {p.op : p \in {x \in posted : SameChannel(x, m) /\ x.op < m.op}}

Matches(m, p) ==
  /\ SameChannel(m, p)
  /\ Cardinality(Ahead(m, sends) \cup Ahead(m, sysbuf)) = Cardinality(Ahead(p, recvs))

Deliver(m, p) ==
  /\ Matches(m, p)
  /\ memory' = [memory EXCEPT ![p.dst][p.buf] = memory[m.src][m.buf]]
  /\ sends' = sends \ {m}
  /\ recvs' = recvs \ {p}
  /\ UNCHANGED <<rankVars, buffer, cache, allocated, sysbuf>>

CopyOut(m) ==
  /\ sends' = sends \ {m}
  /\ sysbuf' = sysbuf \cup {[src |-> m.src, dst |-> m.dst, tag |-> m.tag, op |-> m.op,
                             val |-> memory[m.src][m.buf]]}
  /\ UNCHANGED <<rankVars, bufVars, recvs>>

DeliverCopy(m, p) ==
  /\ Matches(m, p)
  /\ memory' = [memory EXCEPT ![p.dst][p.buf] = m.val]
  /\ sysbuf' = sysbuf \ {m}
  /\ recvs' = recvs \ {p}
  /\ UNCHANGED <<rankVars, buffer, cache, allocated, sends>>

-----------------------------------------------------------------------------
Init ==
  /\ program \in Programs
  /\ pc = [r \in Ranks |-> 0]
  /\ raised = [r \in Ranks |-> FALSE]
  /\ data = [r \in Ranks |-> [f \in Fields |-> 0]]
  /\ ghost = [r \in Ranks |-> [f \in Fields |-> [n \in Ranks |-> Zeros]]]
  /\ lastTag = [r \in Ranks |-> 0]
  /\ status = [r \in Ranks |-> [o \in Objects |-> "absent"]]
  /\ tag = [r \in Ranks |-> [u \in Updaters |-> 0]]
  /\ inflight = [r \in Ranks |-> [o \in Objects |-> 0]]
  /\ buffer = [r \in Ranks |-> [s \in Slots |-> None]]
  /\ cache = [r \in Ranks |-> {}]
  /\ allocated = [r \in Ranks |-> 0]
  /\ memory = [r \in Ranks |-> [b \in Buffers |-> Zeros]]
  /\ sends = {}
  /\ sysbuf = {}
  /\ recvs = {}

RankStep(r) ==
  \/ Compile(r) \/ Create(r)
  \/ StartRecv(r) \/ StartSend(r) \/ StartRaises(r)
  \/ Wait(r) \/ WaitRaises(r) \/ Delete(r)
  \/ SyncIsend(r) \/ SyncIrecv(r) \/ SyncStarted(r)
  \/ SyncSendDone(r) \/ SyncRecvDone(r) \/ SyncWaited(r)
  \/ Write(r)

Progress ==
  \/ \E m \in sends, p \in recvs : Deliver(m, p)
  \/ \E m \in sysbuf, p \in recvs : DeliverCopy(m, p)

Ended == \A r \in Ranks : raised[r] \/ pc[r] = Len(program)

Terminated == Ended /\ UNCHANGED vars

Next ==
  \/ \E r \in Ranks : RankStep(r)
  \/ Progress
  \/ \E m \in sends : CopyOut(m)
  \/ Terminated

(* Ranks keep running and MPI keeps moving matched messages; it need not   *)
(* copy anything out of a send buffer.                                     *)
Fairness ==
  /\ \A r \in Ranks : WF_vars(RankStep(r))
  /\ WF_vars(Progress)

Spec == Init /\ [][Next]_vars

FairSpec == Spec /\ Fairness

-----------------------------------------------------------------------------
RankTypeOK ==
  /\ program \in Seq(Op)
  /\ pc \in [Ranks -> Nat] /\ \A r \in Ranks : pc[r] <= Len(program)
  /\ raised \in [Ranks -> BOOLEAN]
  /\ data \in [Ranks -> [Fields -> Nat]]
  /\ ghost \in [Ranks -> [Fields -> [Ranks -> Value]]]
  /\ lastTag \in [Ranks -> Nat]
  /\ status \in [Ranks -> [Objects ->
                 {"absent", "idle", "receiving", "inflight", "finalized", "deleted"}]]
  /\ tag \in [Ranks -> [Updaters -> Nat]]
  /\ inflight \in [Ranks -> [Objects -> Nat]]

BufferTypeOK ==
  /\ buffer \in [Ranks -> [Slots -> Buffers \cup {None}]]
  /\ cache \in [Ranks -> SUBSET Buffers]
  /\ allocated \in [Ranks -> 0..MaxBuffers]
  /\ memory \in [Ranks -> [Buffers -> Value]]

NetworkTypeOK == sends \subseteq SendMsg /\ sysbuf \subseteq SysMsg /\ recvs \subseteq SendMsg

(* No action stores anything outside these sets: a buffer beyond the bound, *)
(* a message or a halo value packed from no buffer (HaloUpdater.start, wait). *)
TypeOK == RankTypeOK /\ BufferTypeOK /\ NetworkTypeOK

(* What the objects that still exist hold. *)
Held(r) == SlotBuffers({s \in Slots : status[r][s[1]] # "deleted"}, r)

(* One-shot updaters deleted without a wait, the only call that finalizes them. *)
NeverUsed(r) ==
  {u \in OneShot : /\ status[r][u] = "deleted"
                   /\ \A k \in 1..pc[r] : program[k].kind = "wait" => program[k].obj # u}

(***************************************************************************)
(* A buffer a rank allocated is free in the cache, or held by one existing *)
(* transformer or request, and never handed out twice.  The docstrings     *)
(* promise that none is lost (HaloUpdater.__del__, HaloDataTransformer);   *)
(* the code loses the two buffers per neighbour of every one-shot updater  *)
(* deleted without having been waited for, and no other buffer.            *)
(***************************************************************************)
OnlyUnusedBuffersAreLost ==
  \A r \in Ranks :
    /\ cache[r] \cup Held(r) \subseteq 1..allocated[r]
    /\ cache[r] \cap Held(r) = {}
    /\ \A s, t \in Slots :
         buffer[r][s] # None /\ buffer[r][s] = buffer[r][t] => s = t
    /\ Cardinality((1..allocated[r]) \ (cache[r] \cup Held(r))) =
         2 * Cardinality(Neighbors[r]) * Cardinality(NeverUsed(r))

(***************************************************************************)
(* A buffer MPI still reads or writes is not free, and serves one message: *)
(* wait gives buffers back only after the requests that use them.          *)
(***************************************************************************)
PendingBuffersHeld ==
  /\ \A m \in sends : m.buf \notin cache[m.src]
  /\ \A m \in recvs : m.buf \notin cache[m.dst]
  /\ \A m, p \in sends : m.src = p.src /\ m.buf = p.buf => m = p
  /\ \A m, p \in recvs : m.dst = p.dst /\ m.buf = p.buf => m = p
  /\ \A m \in sends, p \in recvs : m.src = p.dst => m.buf # p.buf

(***************************************************************************)
(* While a zero-copy send is pending nobody writes its buffer: what is     *)
(* delivered is what start packed.                                         *)
(***************************************************************************)
SendBuffersFrozen ==
  [][\A m \in sends \cap sends' :
       memory'[m.src][m.buf] = memory[m.src][m.buf]]_vars

(***************************************************************************)
(* Messages that MPI matches come from the same operation of the program,  *)
(* also when two exchanges share a tag: the interface exchange always uses *)
(* tag 1, which is the tag of the first HaloUpdater too.                   *)
(***************************************************************************)
MatchedMessagesAgree ==
  \A m \in sends \cup sysbuf, p \in recvs : Matches(m, p) => m.op = p.op

(* What neighbour n's points were when it called the start that rank r has *)
(* waited for last: the halo that exchange promises.                       *)
Received(r, f, n) ==
  LET k == LastWaitFor(program, r, f, n, pc[r])
  IN  IF k = 0 THEN Zeros
      ELSE [rank |-> n, ver |-> VersionAt(program, f, StartOf(program, k))]

(***************************************************************************)
(* No set of ranks waits for each other for ever: every rank reaches the   *)
(* end of its program or the operation that raises.                        *)
(***************************************************************************)
EveryRankEnds == <>Ended
-----------------------------------------------------------------------------
(***************************************************************************)
(* The exchange implements the promise of HaloExchange.  The edges of an   *)
(* interface exchange are written one at a time; its wait shows them all   *)
(* when it returns.                                                        *)
(***************************************************************************)
Promised == INSTANCE HaloExchange WITH
  halo <- [r \in Ranks |-> [f \in Fields |-> [n \in Ranks |->
             IF Executes(r, "sync_wait") THEN Received(r, f, n) ELSE ghost[r][f][n]]]]

(* Every behaviour of the updaters is one of HaloExchange (HaloUpdater.start, *)
(* HaloUpdater.wait, HaloUpdateRequest.wait).                              *)
ImplementsPromise == Promised!Spec

=============================================================================
