------------------------- MODULE HaloUpdaterProofs -------------------------
(***************************************************************************)
(* The halo exchange, for every communicator, every program and every      *)
(* number of buffers: what becomes of its buffers, which of its messages   *)
(* meet, and that it implements the promise of HaloExchange.               *)
(***************************************************************************)
EXTENDS HaloUpdater, FiniteSetTheorems, WellFoundedInduction, TLAPS

(***************************************************************************)
(* Buffer safety: no buffer is shared or reused too early.                 *)
(***************************************************************************)

(* The inductive invariant.                                                *)

(* An exchange is under way exactly when its start is remembered. *)
LifeCycle ==
  \A r \in Ranks, o \in Objects :
    /\ status[r][o] = "inflight" <=> inflight[r][o] # 0
    /\ inflight[r][o] <= pc[r]

(* A created updater that is not finalized holds all of its buffers. *)
LiveUpdatersHold ==
  \A r \in Ranks, u \in Updaters :
    status[r][u] \in {"idle", "receiving", "inflight"} =>
      \A s \in UpdaterSlots(u, r) : buffer[r][s] # None

TagOf(r, op) ==
  IF program[op].obj \in Updaters THEN tag[r][program[op].obj] ELSE InterfaceTag

(* Rank r is between posting the message of operation op and waiting for it. *)
Posted(r, op, early) ==
  LET o == program[op].obj
  IN  \/ inflight[r][o] = op
      \/ op = pc[r] + 1 /\ <<program[op].kind, status[r][o]>> \in early

EarlySends == {<<"sync_start", "absent">>}
EarlyRecvs == {<<"sync_start", "absent">>, <<"start", "receiving">>}

(* A pending message uses the buffer of the operation that posted it, and  *)
(* that operation has not been waited for.                                 *)
Owned(m, r, slot, early) ==
  /\ m.op \in 1..Len(program)
  /\ program[m.op].kind \in {"start", "sync_start"}
  /\ m.buf = buffer[r][slot]
  /\ m.tag = TagOf(r, m.op)
  /\ Posted(r, m.op, early)

SendSlot(m) == <<program[m.op].obj, "send", m.dst>>
RecvSlot(m) == <<program[m.op].obj, "recv", m.src>>

SendsOwned ==
  \A m \in sends :
    /\ Owned(m, m.src, SendSlot(m), EarlySends)
    /\ program[m.op].kind = "sync_start" => m.dst \in SyncTo[m.src]

RecvsOwned ==
  \A m \in recvs :
    /\ Owned(m, m.dst, RecvSlot(m), EarlyRecvs)
    /\ program[m.op].kind = "sync_start" => m.src \in SyncFrom[m.dst]

(* No buffer is free and held, or held twice. *)
BuffersPartitioned ==
  \A r \in Ranks :
    /\ cache[r] \cup SlotBuffers(Slots, r) \subseteq 1..allocated[r]
    /\ cache[r] \cap SlotBuffers(Slots, r) = {}
    /\ \A s, t \in Slots :
         buffer[r][s] # None /\ buffer[r][s] = buffer[r][t] => s = t

IInv ==
  /\ TypeOK
  /\ LifeCycle
  /\ LiveUpdatersHold
  /\ BuffersPartitioned
  /\ SendsOwned
  /\ RecvsOwned

-----------------------------------------------------------------------------
(* What the operators used by the steps return.                            *)

(* An operation is about an updater, about a request, or writes a field. *)
LEMMA OpTypes ==
  ASSUME NEW op \in Op
  PROVE  /\ op.kind \in UpdaterOps => op.obj \in Updaters
         /\ op.kind \in RequestOps => op.obj \in Requests
         /\ op.field \in Fields
BY DEF Op, UpdaterOps, RequestOps

(* The operation a running rank executes is one of its program. *)
LEMMA CurrentOpType ==
  ASSUME TypeOK, NEW r \in Ranks, NEW kind, Executes(r, kind)
  PROVE  /\ pc[r] \in Nat /\ pc[r] + 1 \in 1..Len(program)
         /\ CurrentOp(r) \in Op
         /\ CurrentOp(r) = program[pc[r] + 1]
         /\ CurrentOp(r).field \in Fields
         /\ CurrentOp(r).kind = kind
         /\ kind \in UpdaterOps => CurrentOp(r).obj \in Updaters
         /\ kind \in RequestOps => CurrentOp(r).obj \in Requests
<1>1. /\ pc[r] \in Nat /\ pc[r] < Len(program)
      /\ program \in Seq(Op)
  BY DEF TypeOK, RankTypeOK, Executes, Running
<1>2. pc[r] + 1 \in 1..Len(program) /\ program[pc[r] + 1] \in Op
  BY <1>1
<1> QED
  BY <1>1, <1>2, OpTypes DEF CurrentOp, Executes

(* pop_from_cache fills one slot with a buffer nobody holds. *)
Pops(r, slot, b) ==
  /\ buffer' = [buffer EXCEPT ![r][slot] = b]
  /\ cache' = [cache EXCEPT ![r] = @ \ {b}]
  /\ \/ b \in cache[r] /\ allocated' = allocated
     \/ /\ b = allocated[r] + 1
        /\ allocated' = [allocated EXCEPT ![r] = b]
  /\ \A s \in Slots : buffer[r][s] # b

(* pop_from_cache does what Pops says: the buffer it hands out was held by nobody. *)
LEMMA PopEffect ==
  ASSUME TypeOK, BuffersPartitioned, NEW r \in Ranks, NEW slot \in Slots,
         PopFromCache(r, slot)
  PROVE  \E b \in Buffers : Pops(r, slot, b)
<1> DEFINE b == IF cache[r] # {} THEN CHOOSE c \in cache[r] : TRUE ELSE allocated[r] + 1
<1>1. /\ b \in Buffers
      /\ buffer' = [buffer EXCEPT ![r][slot] = b]
      /\ cache' = [cache EXCEPT ![r] = @ \ {b}]
      /\ allocated' = IF cache[r] # {} THEN allocated ELSE [allocated EXCEPT ![r] = @ + 1]
  BY DEF PopFromCache
<1>2. IF cache[r] # {} THEN b \in cache[r] ELSE b = allocated[r] + 1
  OBVIOUS
<1>3. /\ cache[r] \cup SlotBuffers(Slots, r) \subseteq 1..allocated[r]
      /\ cache[r] \cap SlotBuffers(Slots, r) = {}
      /\ allocated[r] \in Nat
      /\ allocated \in [Ranks -> 0..MaxBuffers]
  BY ProgramsAssumption DEF BuffersPartitioned, TypeOK, BufferTypeOK
<1>4. b \notin SlotBuffers(Slots, r)
  BY <1>2, <1>3
<1> HIDE DEF b
<1>5. ASSUME NEW s \in Slots PROVE buffer[r][s] # b
  BY <1>1, <1>4 DEF SlotBuffers, Buffers, None
<1>6. \/ b \in cache[r] /\ allocated' = allocated
      \/ b = allocated[r] + 1 /\ allocated' = [allocated EXCEPT ![r] = b]
  BY <1>1, <1>2, <1>3
<1> QED
  BY <1>1, <1>5, <1>6 DEF Pops

(* Handing out a buffer keeps the types of the buffer variables. *)
LEMMA PopsTypes ==
  ASSUME TypeOK, NEW r \in Ranks, NEW slot \in Slots, NEW b \in Buffers, Pops(r, slot, b)
  PROVE  /\ buffer' \in [Ranks -> [Slots -> Buffers \cup {None}]]
         /\ cache' \in [Ranks -> SUBSET Buffers]
         /\ allocated' \in [Ranks -> 0..MaxBuffers]
BY DEF Pops, TypeOK, BufferTypeOK, Buffers

(* Dropping references empties the slots and touches no other slot. *)
LEMMA DropEffect ==
  ASSUME TypeOK, NEW r \in Ranks, NEW slots \in SUBSET Slots, Drop(r, slots)
  PROVE  /\ buffer' \in [Ranks -> [Slots -> Buffers \cup {None}]]
         /\ \A q \in Ranks, s \in Slots :
              buffer'[q][s] = IF q = r /\ s \in slots THEN None ELSE buffer[q][s]
BY DEF Drop, TypeOK, BufferTypeOK

(* finalize empties the slots into the cache and touches no other slot. *)
LEMMA PushEffect ==
  ASSUME TypeOK, NEW r \in Ranks, NEW slots \in SUBSET Slots, PushToCache(r, slots)
  PROVE  /\ cache' = [cache EXCEPT ![r] = @ \cup SlotBuffers(slots, r)]
         /\ Drop(r, slots)
         /\ buffer' \in [Ranks -> [Slots -> Buffers \cup {None}]]
         /\ \A q \in Ranks, s \in Slots :
              buffer'[q][s] = IF q = r /\ s \in slots THEN None ELSE buffer[q][s]
BY DropEffect DEF PushToCache

(* Giving buffers back keeps the types of the buffer variables. *)
LEMMA PushTypes ==
  ASSUME TypeOK, NEW r \in Ranks, NEW slots \in SUBSET Slots, PushToCache(r, slots)
  PROVE  /\ buffer' \in [Ranks -> [Slots -> Buffers \cup {None}]]
         /\ cache' \in [Ranks -> SUBSET Buffers]
<1>1. SlotBuffers(slots, r) \subseteq Buffers
  BY DEF SlotBuffers, TypeOK, BufferTypeOK
<1>2. cache \in [Ranks -> SUBSET Buffers]
  BY DEF TypeOK, BufferTypeOK
<1> QED
  BY <1>1, <1>2, PushEffect

(* The slots of an updater are slots. *)
LEMMA SlotTypes ==
  ASSUME NEW r \in Ranks, NEW o \in Objects
  PROVE  /\ UpdaterSlots(o, r) \in SUBSET Slots
         /\ \A n \in Ranks : <<o, "send", n>> \in Slots /\ <<o, "recv", n>> \in Slots
         /\ Neighbors[r] \subseteq Ranks
BY BoundariesAssumption DEF UpdaterSlots, Slots

-----------------------------------------------------------------------------
(* The two posts of an interface exchange, with the buffer they take named. *)

IsendEffect(r, n, b) ==
  LET i == CurrentOp(r).obj
  IN  /\ Executes(r, "sync_start") /\ status[r][i] = "absent"
      /\ n \in SyncTo[r] /\ buffer[r][<<i, "send", n>>] = None
      /\ Pops(r, <<i, "send", n>>, b)
      /\ memory' = [memory EXCEPT ![r][b] = Packed(r, CurrentOp(r).field)]
      /\ sends' = sends \cup {[src |-> r, dst |-> n, tag |-> InterfaceTag,
                               op |-> pc[r] + 1, buf |-> b]}
      /\ UNCHANGED <<rankVars, sysbuf, recvs>>

IrecvEffect(r, n, b) ==
  LET i == CurrentOp(r).obj
  IN  /\ Executes(r, "sync_start") /\ status[r][i] = "absent"
      /\ n \in SyncFrom[r] /\ buffer[r][<<i, "recv", n>>] = None
      /\ Pops(r, <<i, "recv", n>>, b)
      /\ recvs' = recvs \cup {[src |-> n, dst |-> r, tag |-> InterfaceTag,
                               op |-> pc[r] + 1, buf |-> b]}
      /\ UNCHANGED <<rankVars, memory, sends, sysbuf>>

(* A send of the interface exchange is one pop and one message with that buffer. *)
LEMMA IsendPops ==
  ASSUME TypeOK, BuffersPartitioned, NEW r \in Ranks, SyncIsend(r)
  PROVE  \E n \in Ranks, b \in Buffers : IsendEffect(r, n, b)
<1> DEFINE i == CurrentOp(r).obj
           todo == Unposted(r, i, "send", SyncTo[r])
           n == CHOOSE m \in todo : TRUE
           slot == <<i, "send", n>>
<1>1. todo # {} /\ PopFromCache(r, slot)
  BY DEF SyncIsend
<1>2. n \in SyncTo[r] /\ n \in Ranks /\ buffer[r][slot] = None
  BY <1>1, BoundariesAssumption DEF Unposted
<1>3. /\ Executes(r, "sync_start") /\ status[r][i] = "absent"
      /\ memory' = [memory EXCEPT ![r][buffer'[r][slot]] = Packed(r, CurrentOp(r).field)]
      /\ sends' = sends \cup {[src |-> r, dst |-> n, tag |-> InterfaceTag,
                               op |-> pc[r] + 1, buf |-> buffer'[r][slot]]}
      /\ UNCHANGED <<rankVars, sysbuf, recvs>>
  BY DEF SyncIsend
<1>4. slot \in Slots
  BY <1>2, <1>3, CurrentOpType, SlotTypes DEF RequestOps, Objects
<1> HIDE DEF n
<1>5. PICK b \in Buffers : Pops(r, slot, b)
  BY <1>1, <1>4, PopEffect
<1>6. buffer'[r][slot] = b
  BY <1>4, <1>5 DEF Pops, TypeOK, BufferTypeOK
<1> QED
  BY <1>2, <1>3, <1>5, <1>6 DEF IsendEffect

(* A receive of the interface exchange is one pop and one message as well. *)
LEMMA IrecvPops ==
  ASSUME TypeOK, BuffersPartitioned, NEW r \in Ranks, SyncIrecv(r)
  PROVE  \E n \in Ranks, b \in Buffers : IrecvEffect(r, n, b)
<1> DEFINE i == CurrentOp(r).obj
           todo == Unposted(r, i, "recv", SyncFrom[r])
           n == CHOOSE m \in todo : TRUE
           slot == <<i, "recv", n>>
<1>1. todo # {} /\ PopFromCache(r, slot)
  BY DEF SyncIrecv
<1>2. n \in SyncFrom[r] /\ n \in Ranks /\ buffer[r][slot] = None
  BY <1>1, BoundariesAssumption DEF Unposted
<1>3. /\ Executes(r, "sync_start") /\ status[r][i] = "absent"
      /\ recvs' = recvs \cup {[src |-> n, dst |-> r, tag |-> InterfaceTag,
                               op |-> pc[r] + 1, buf |-> buffer'[r][slot]]}
      /\ UNCHANGED <<rankVars, memory, sends, sysbuf>>
  BY DEF SyncIrecv
<1>4. slot \in Slots
  BY <1>2, <1>3, CurrentOpType, SlotTypes DEF RequestOps, Objects
<1> HIDE DEF n
<1>5. PICK b \in Buffers : Pops(r, slot, b)
  BY <1>1, <1>4, PopEffect
<1>6. buffer'[r][slot] = b
  BY <1>4, <1>5 DEF Pops, TypeOK, BufferTypeOK
<1> QED
  BY <1>2, <1>3, <1>5, <1>6 DEF IrecvEffect

-----------------------------------------------------------------------------
(* The types of what the steps produce, and the types after a step.        *)

(* What a rank packs is a value. *)
LEMMA PackedType ==
  ASSUME TypeOK, NEW r \in Ranks, NEW f \in Fields
  PROVE  Packed(r, f) \in Value
BY DEF Packed, Value, TypeOK, RankTypeOK

(* Unpacking buffers a rank holds keeps its halos values. *)
LEMMA UnpackType ==
  ASSUME IInv, NEW r \in Ranks, NEW o \in Objects, NEW sources \in SUBSET Ranks,
         \A n \in sources : buffer[r][<<o, "recv", n>>] # None,
         Unpack(r, o, sources)
  PROVE  ghost' \in [Ranks -> [Fields -> [Ranks -> Value]]]
<1>1. \A n \in sources : memory[r][buffer[r][<<o, "recv", n>>]] \in Value
  <2>1. /\ buffer \in [Ranks -> [Slots -> Buffers \cup {None}]]
        /\ memory \in [Ranks -> [Buffers -> Value]]
    BY DEF IInv, TypeOK, BufferTypeOK
  <2> QED BY <2>1, SlotTypes
<1> DEFINE f == program[inflight[r][o]].field
           new == [n \in Ranks |-> IF n \in sources
                                   THEN memory[r][buffer[r][<<o, "recv", n>>]]
                                   ELSE ghost[r][f][n]]
<1>2. ghost \in [Ranks -> [Fields -> [Ranks -> Value]]]
  BY DEF IInv, TypeOK, RankTypeOK
<1>3. f \in Fields => new \in [Ranks -> Value]
  BY <1>1, <1>2
<1>4. ghost' = [ghost EXCEPT ![r] = [@ EXCEPT ![f] = new]]
  BY <1>2 DEF Unpack
<1> HIDE DEF new, f
<1>5. [ghost[r] EXCEPT ![f] = new] \in [Fields -> [Ranks -> Value]]
  BY <1>2, <1>3
<1> QED
  BY <1>2, <1>4, <1>5

(* The messages a start posts. *)
LEMMA PostedMessages ==
  ASSUME NEW r, NEW u, NEW op
  PROVE  /\ \A m \in SendsOf(r, u, op) : \E n \in Neighbors[r] :
              /\ m.src = r /\ m.dst = n /\ m.op = op /\ m.tag = tag[r][u]
              /\ m.buf = buffer[r][<<u, "send", n>>]
         /\ \A m \in RecvsOf(r, u, op) : \E n \in Neighbors[r] :
              /\ m.dst = r /\ m.src = n /\ m.op = op /\ m.tag = tag[r][u]
              /\ m.buf = buffer[r][<<u, "recv", n>>]
<1>1. ASSUME NEW m \in SendsOf(r, u, op)
      PROVE  \E n \in Neighbors[r] :
               /\ m.src = r /\ m.dst = n /\ m.op = op /\ m.tag = tag[r][u]
               /\ m.buf = buffer[r][<<u, "send", n>>]
  <2>1. PICK n \in Neighbors[r] :
          m = [src |-> r, dst |-> n, tag |-> tag[r][u], op |-> op,
               buf |-> buffer[r][<<u, "send", n>>]]
    BY DEF SendsOf
  <2> QED BY <2>1
<1>2. ASSUME NEW m \in RecvsOf(r, u, op)
      PROVE  \E n \in Neighbors[r] :
               /\ m.dst = r /\ m.src = n /\ m.op = op /\ m.tag = tag[r][u]
               /\ m.buf = buffer[r][<<u, "recv", n>>]
  <2>1. PICK n \in Neighbors[r] :
          m = [src |-> n, dst |-> r, tag |-> tag[r][u], op |-> op,
               buf |-> buffer[r][<<u, "recv", n>>]]
    BY DEF RecvsOf
  <2> QED BY <2>1
<1> QED
  BY <1>1, <1>2

(* The messages a start posts are messages, with buffers the updater holds. *)
LEMMA MessageTypes ==
  ASSUME IInv, NEW r \in Ranks, NEW u \in Updaters, NEW op \in Nat,
         status[r][u] \in {"idle", "receiving", "inflight"}
  PROVE  SendsOf(r, u, op) \subseteq SendMsg /\ RecvsOf(r, u, op) \subseteq SendMsg
<1>1. u \in Objects /\ tag[r][u] \in Nat
  BY DEF Objects, IInv, TypeOK, RankTypeOK
<1>2. ASSUME NEW n \in Neighbors[r]
      PROVE  /\ n \in Ranks
             /\ buffer[r][<<u, "send", n>>] \in Buffers
             /\ buffer[r][<<u, "recv", n>>] \in Buffers
  <2>1. \A s \in UpdaterSlots(u, r) : buffer[r][s] # None
    BY DEF IInv, LiveUpdatersHold
  <2>2. /\ <<u, "send", n>> \in UpdaterSlots(u, r)
        /\ <<u, "recv", n>> \in UpdaterSlots(u, r)
    BY DEF UpdaterSlots
  <2>3. buffer \in [Ranks -> [Slots -> Buffers \cup {None}]]
    BY DEF IInv, TypeOK, BufferTypeOK
  <2> QED BY <1>1, <2>1, <2>2, <2>3, SlotTypes
<1>3. ASSUME NEW n \in Neighbors[r], NEW b \in Buffers
      PROVE  /\ [src |-> r, dst |-> n, tag |-> tag[r][u], op |-> op, buf |-> b] \in SendMsg
             /\ [src |-> n, dst |-> r, tag |-> tag[r][u], op |-> op, buf |-> b] \in SendMsg
  BY <1>1, <1>2 DEF SendMsg
<1> QED
  BY <1>2, <1>3 DEF SendsOf, RecvsOf

(* A step is a step of one rank, of one message, or a stutter. *)
LEMMA StepCases ==
  ASSUME [Next]_vars, NEW P,
         \A r \in Ranks : RankStep(r) => P,
         \A m \in sends, p \in recvs : Deliver(m, p) => P,
         \A m \in sysbuf, p \in recvs : DeliverCopy(m, p) => P,
         \A m \in sends : CopyOut(m) => P,
         UNCHANGED vars => P
  PROVE  P
BY DEF Next, Progress, Terminated

(* Steps that leave a group of variables alone keep the types of the group. *)
LEMMA Frames ==
  ASSUME TypeOK
  PROVE  /\ UNCHANGED rankVars => RankTypeOK'
         /\ UNCHANGED bufVars => BufferTypeOK'
         /\ UNCHANGED netVars => NetworkTypeOK'
<1>1. ASSUME UNCHANGED rankVars PROVE RankTypeOK'
  BY <1>1 DEF TypeOK, RankTypeOK, rankVars
<1>2. ASSUME UNCHANGED bufVars PROVE BufferTypeOK'
  BY <1>2 DEF TypeOK, BufferTypeOK, bufVars
<1>3. ASSUME UNCHANGED netVars PROVE NetworkTypeOK'
  BY <1>3 DEF TypeOK, NetworkTypeOK, netVars
<1> QED
  BY <1>1, <1>2, <1>3

(* Every step of the ranks and of MPI keeps the types. *)
LEMMA TypeStep == IInv /\ [Next]_vars => TypeOK'
<1> SUFFICES ASSUME IInv, [Next]_vars PROVE TypeOK'
  OBVIOUS
<1>0. TypeOK /\ BuffersPartitioned
  BY DEF IInv
<1>1. ASSUME NEW r \in Ranks, RankStep(r) PROVE TypeOK'
  <2> DEFINE o == CurrentOp(r).obj
  <2>0. /\ BuffersPartitioned /\ TypeOK
        /\ Updaters \subseteq Objects /\ Requests \subseteq Objects
    BY <1>0 DEF Objects
  <2>1. CASE Compile(r)
    <3> DEFINE s == CHOOSE t \in MissingSlots(r) : TRUE
    <3>1. o \in Objects
      BY <2>0, <2>1, CurrentOpType DEF Compile, UpdaterOps
    <3>2. s \in Slots /\ buffer[r][s] = None /\ PopFromCache(r, s)
      BY <2>1, <3>1, SlotTypes DEF Compile, MissingSlots
    <3> HIDE DEF s
    <3>3. BufferTypeOK'
      BY <2>0, <2>1, <3>2, PopEffect, PopsTypes DEF Compile, TypeOK, BufferTypeOK
    <3> QED
      BY <2>0, <2>1, <3>3, Frames DEF Compile, TypeOK
  <2>2. CASE Create(r)
    <3>1. o \in Updaters /\ pc[r] + 1 <= Len(program)
      BY <2>0, <2>2, CurrentOpType DEF Create, UpdaterOps
    <3>2. RankTypeOK'
      BY <2>0, <2>2, <3>1 DEF Create, Advance, TypeOK, RankTypeOK
    <3> QED
      BY <2>0, <2>2, <3>2, Frames DEF Create, TypeOK
  <2>3. CASE StartRecv(r)
    <3>0. o \in Updaters /\ pc[r] + 1 \in Nat
      BY <2>0, <2>3, CurrentOpType DEF StartRecv, UpdaterOps
    <3>1. o \in Updaters /\ pc[r] + 1 \in Nat /\ status[r][o] = "idle"
      BY <2>0, <2>3, <3>0 DEF StartRecv, TypeOK, RankTypeOK, Busy, Spent
    <3>2. RecvsOf(r, o, pc[r] + 1) \subseteq SendMsg
      BY <3>1, MessageTypes
    <3>3. RankTypeOK'
      BY <2>0, <2>3, <3>1 DEF StartRecv, TypeOK, RankTypeOK
    <3>4. NetworkTypeOK'
      BY <2>0, <2>3, <3>2 DEF StartRecv, TypeOK, NetworkTypeOK
    <3> QED
      BY <2>0, <2>3, <3>3, <3>4, Frames DEF StartRecv, TypeOK
  <2>4. CASE StartSend(r)
    <3>1. /\ o \in Updaters /\ pc[r] + 1 \in Nat /\ pc[r] + 1 <= Len(program)
          /\ status[r][o] = "receiving" /\ CurrentOp(r).field \in Fields
      BY <2>0, <2>4, CurrentOpType DEF StartSend, UpdaterOps
    <3>2. SendsOf(r, o, pc[r] + 1) \subseteq SendMsg
      BY <3>1, MessageTypes
    <3>3. RankTypeOK'
      BY <2>0, <2>4, <3>1 DEF StartSend, Advance, TypeOK, RankTypeOK
    <3>4. BufferTypeOK'
      BY <2>0, <2>4, <3>1, PackedType DEF StartSend, TypeOK, BufferTypeOK
    <3>5. NetworkTypeOK'
      BY <2>0, <2>4, <3>2 DEF StartSend, TypeOK, NetworkTypeOK
    <3> QED
      BY <3>3, <3>4, <3>5 DEF TypeOK
  <2>5. CASE StartRaises(r)
    <3>1. RankTypeOK'
      BY <2>0, <2>5 DEF StartRaises, Raise, TypeOK, RankTypeOK
    <3> QED
      BY <2>0, <2>5, <3>1, Frames DEF StartRaises, Raise, TypeOK
  <2>6. CASE Wait(r)
    <3>1. o \in Updaters /\ o \in Objects /\ pc[r] + 1 <= Len(program)
      BY <2>0, <2>6, CurrentOpType DEF Wait, UpdaterOps
    <3>2. \A n \in Neighbors[r] : buffer[r][<<o, "recv", n>>] # None
      <4>1. \A s \in UpdaterSlots(o, r) : buffer[r][s] # None
        BY <2>6, <3>1 DEF Wait, IInv, LiveUpdatersHold
      <4> QED BY <4>1 DEF UpdaterSlots
    <3>3. ghost' \in [Ranks -> [Fields -> [Ranks -> Value]]]
      BY <2>6, <3>1, <3>2, UnpackType, BoundariesAssumption DEF Wait
    <3>4. RankTypeOK'
      <4>1. status' \in [Ranks -> [Objects ->
                 {"absent", "idle", "receiving", "inflight", "finalized", "deleted"}]]
        <5>1. \/ status' = [status EXCEPT ![r][o] = "finalized"]
              \/ status' = [status EXCEPT ![r][o] = "idle"]
          BY <2>6 DEF Wait
        <5>2. status \in [Ranks -> [Objects ->
                 {"absent", "idle", "receiving", "inflight", "finalized", "deleted"}]]
          BY <2>0 DEF TypeOK, RankTypeOK
        <5>3. CASE status' = [status EXCEPT ![r][o] = "finalized"]
          BY <3>1, <5>2, <5>3
        <5>4. CASE status' = [status EXCEPT ![r][o] = "idle"]
          BY <3>1, <5>2, <5>4
        <5> QED
          BY <5>1, <5>3, <5>4
      <4>2. inflight' \in [Ranks -> [Objects -> Nat]]
        BY <2>0, <2>6, <3>1 DEF Wait, TypeOK, RankTypeOK
      <4>3. pc' \in [Ranks -> Nat] /\ \A q \in Ranks : pc'[q] <= Len(program)
        BY <2>0, <2>6, <3>1 DEF Wait, Advance, TypeOK, RankTypeOK
      <4> QED
        BY <2>0, <2>6, <3>3, <4>1, <4>2, <4>3 DEF Wait, TypeOK, RankTypeOK
    <3>5. BufferTypeOK'
      BY <2>0, <2>6, <3>1, PushTypes, SlotTypes DEF Wait, TypeOK, BufferTypeOK
    <3> QED
      BY <2>0, <2>6, <3>4, <3>5, Frames DEF Wait, TypeOK
  <2>7. CASE WaitRaises(r)
    <3>1. RankTypeOK'
      BY <2>0, <2>7 DEF WaitRaises, Raise, TypeOK, RankTypeOK
    <3> QED
      BY <2>0, <2>7, <3>1, Frames DEF WaitRaises, Raise, TypeOK
  <2>8. CASE Delete(r)
    <3>1. o \in Updaters /\ o \in Objects /\ pc[r] + 1 <= Len(program)
      BY <2>0, <2>8, CurrentOpType DEF Delete, UpdaterOps
    <3>2. RankTypeOK'
      BY <2>0, <2>8, <3>1 DEF Delete, Advance, TypeOK, RankTypeOK
    <3>3. BufferTypeOK'
      <4>1. UpdaterSlots(o, r) \in SUBSET Slots /\ allocated' = allocated /\ memory' = memory
        BY <2>8, <3>1, SlotTypes DEF Delete
      <4>2. \/ PushToCache(r, UpdaterSlots(o, r))
            \/ Drop(r, UpdaterSlots(o, r)) /\ cache' = cache
        BY <2>8 DEF Delete
      <4>3. /\ buffer' \in [Ranks -> [Slots -> Buffers \cup {None}]]
            /\ cache' \in [Ranks -> SUBSET Buffers]
        BY <2>0, <4>1, <4>2, PushTypes, DropEffect DEF TypeOK, BufferTypeOK
      <4> QED BY <2>0, <4>1, <4>3 DEF TypeOK, BufferTypeOK
    <3> QED
      BY <2>0, <2>8, <3>2, <3>3, Frames DEF Delete, TypeOK
  <2>9. CASE SyncIsend(r)
    <3>1. PICK n \in Ranks, b \in Buffers : IsendEffect(r, n, b)
      BY <1>0, <2>9, IsendPops
    <3>2. CurrentOp(r).field \in Fields /\ pc[r] + 1 \in Nat
      BY <2>0, <2>9, CurrentOpType DEF SyncIsend
    <3>3. BufferTypeOK'
      <4>1. o \in Objects
        BY <2>0, <2>9, CurrentOpType DEF SyncIsend, RequestOps
      <4>2. Pops(r, <<o, "send", n>>, b) /\ <<o, "send", n>> \in Slots
        BY <3>1, <4>1, SlotTypes DEF IsendEffect
      <4>3. memory' \in [Ranks -> [Buffers -> Value]]
        BY <2>0, <3>1, <3>2, PackedType DEF IsendEffect, TypeOK, BufferTypeOK
      <4> QED
        BY <2>0, <4>2, <4>3, PopsTypes DEF BufferTypeOK
    <3>4. NetworkTypeOK'
      BY <2>0, <3>1, <3>2 DEF IsendEffect, TypeOK, NetworkTypeOK, SendMsg, InterfaceTag
    <3> QED
      BY <2>0, <2>9, <3>3, <3>4, Frames DEF SyncIsend, TypeOK
  <2>10. CASE SyncIrecv(r)
    <3>1. PICK n \in Ranks, b \in Buffers : IrecvEffect(r, n, b)
      BY <1>0, <2>10, IrecvPops
    <3>2. pc[r] + 1 \in Nat
      BY <2>0, <2>10, CurrentOpType DEF SyncIrecv
    <3>3. BufferTypeOK'
      <4>1. o \in Objects
        BY <2>0, <2>10, CurrentOpType DEF SyncIrecv, RequestOps
      <4>2. Pops(r, <<o, "recv", n>>, b) /\ <<o, "recv", n>> \in Slots
        BY <3>1, <4>1, SlotTypes DEF IrecvEffect
      <4> QED
        BY <2>0, <3>1, <4>2, PopsTypes DEF IrecvEffect, TypeOK, BufferTypeOK
    <3>4. NetworkTypeOK'
      BY <2>0, <3>1, <3>2 DEF IrecvEffect, TypeOK, NetworkTypeOK, SendMsg, InterfaceTag
    <3> QED
      BY <2>0, <2>10, <3>3, <3>4, Frames DEF SyncIrecv, TypeOK
  <2>11. CASE SyncStarted(r)
    <3>1. o \in Requests /\ pc[r] + 1 <= Len(program) /\ pc[r] + 1 \in Nat
      BY <2>0, <2>11, CurrentOpType DEF SyncStarted, RequestOps
    <3>2. RankTypeOK'
      BY <2>0, <2>11, <3>1 DEF SyncStarted, Advance, TypeOK, RankTypeOK
    <3> QED
      BY <2>0, <2>11, <3>2, Frames DEF SyncStarted, TypeOK
  <2>12. CASE SyncSendDone(r)
    <3>1. PICK n \in SyncTo[r] : PushToCache(r, {<<o, "send", n>>})
      BY <2>12 DEF SyncSendDone
    <3>2. {<<o, "send", n>>} \subseteq Slots
      <4>1. o \in Objects /\ n \in Ranks
        BY <2>0, <2>12, CurrentOpType, BoundariesAssumption DEF SyncSendDone, RequestOps
      <4> QED BY <4>1, SlotTypes
    <3>3. BufferTypeOK'
      BY <2>0, <2>12, <3>1, <3>2, PushTypes DEF SyncSendDone, TypeOK, BufferTypeOK
    <3> QED
      BY <2>0, <2>12, <3>3, Frames DEF SyncSendDone, TypeOK
  <2>13. CASE SyncRecvDone(r)
    <3>1. PICK n \in SyncFrom[r] : /\ buffer[r][<<o, "recv", n>>] # None
                                  /\ Unpack(r, o, {n})
                                  /\ PushToCache(r, {<<o, "recv", n>>})
      BY <2>13 DEF SyncRecvDone
    <3>2. o \in Objects /\ n \in Ranks /\ {<<o, "recv", n>>} \subseteq Slots
      <4>1. o \in Objects /\ n \in Ranks
        BY <2>0, <2>13, CurrentOpType, BoundariesAssumption DEF SyncRecvDone, RequestOps
      <4> QED BY <4>1, SlotTypes
    <3>3. ghost' \in [Ranks -> [Fields -> [Ranks -> Value]]]
      BY <3>1, <3>2, UnpackType
    <3>4. RankTypeOK'
      BY <2>0, <2>13, <3>3 DEF SyncRecvDone, TypeOK, RankTypeOK
    <3>5. BufferTypeOK'
      BY <2>0, <2>13, <3>1, <3>2, PushTypes DEF SyncRecvDone, TypeOK, BufferTypeOK
    <3> QED
      BY <2>0, <2>13, <3>4, <3>5, Frames DEF SyncRecvDone, TypeOK
  <2>14. CASE SyncWaited(r)
    <3>1. o \in Requests /\ pc[r] + 1 <= Len(program) /\ pc[r] + 1 \in Nat
      BY <2>0, <2>14, CurrentOpType DEF SyncWaited, RequestOps
    <3>2. RankTypeOK'
      BY <2>0, <2>14, <3>1 DEF SyncWaited, Advance, TypeOK, RankTypeOK
    <3> QED
      BY <2>0, <2>14, <3>2, Frames DEF SyncWaited, TypeOK
  <2>15. CASE Write(r)
    <3>1. pc[r] + 1 <= Len(program) /\ pc[r] + 1 \in Nat
      BY <2>0, <2>15, CurrentOpType DEF Write
    <3>2. RankTypeOK'
      BY <2>0, <2>15, <3>1 DEF Write, Advance, TypeOK, RankTypeOK
    <3> QED
      BY <2>0, <2>15, <3>2, Frames DEF Write, TypeOK
  <2> QED
    BY <1>1, <2>1, <2>2, <2>3, <2>4, <2>5, <2>6, <2>7, <2>8, <2>9, <2>10,
       <2>11, <2>12, <2>13, <2>14, <2>15 DEF RankStep
<1>2. ASSUME NEW m \in sends, NEW p \in recvs, Deliver(m, p) PROVE TypeOK'
  <2>1. memory[m.src][m.buf] \in Value
    BY <1>0 DEF TypeOK, BufferTypeOK, NetworkTypeOK, SendMsg
  <2>2. BufferTypeOK'
    BY <1>0, <1>2, <2>1 DEF Deliver, TypeOK, BufferTypeOK
  <2>3. NetworkTypeOK'
    BY <1>0, <1>2 DEF Deliver, TypeOK, NetworkTypeOK
  <2> QED
    BY <1>0, <1>2, <2>2, <2>3, Frames DEF Deliver, TypeOK
<1>3. ASSUME NEW m \in sysbuf, NEW p \in recvs, DeliverCopy(m, p) PROVE TypeOK'
  <2>1. m.val \in Value
    BY <1>0 DEF TypeOK, NetworkTypeOK, SysMsg
  <2>2. BufferTypeOK'
    BY <1>0, <1>3, <2>1 DEF DeliverCopy, TypeOK, BufferTypeOK
  <2>3. NetworkTypeOK'
    BY <1>0, <1>3 DEF DeliverCopy, TypeOK, NetworkTypeOK
  <2> QED
    BY <1>0, <1>3, <2>2, <2>3, Frames DEF DeliverCopy, TypeOK
<1>4. ASSUME NEW m \in sends, CopyOut(m) PROVE TypeOK'
  <2>1. [src |-> m.src, dst |-> m.dst, tag |-> m.tag, op |-> m.op,
         val |-> memory[m.src][m.buf]] \in SysMsg
    BY <1>0 DEF TypeOK, BufferTypeOK, NetworkTypeOK, SendMsg, SysMsg
  <2>2. NetworkTypeOK'
    BY <1>0, <1>4, <2>1 DEF CopyOut, TypeOK, NetworkTypeOK
  <2> QED
    BY <1>0, <1>4, <2>2, Frames DEF CopyOut, TypeOK
<1>5. CASE UNCHANGED vars
  BY <1>0, <1>5, Frames DEF vars, TypeOK
<1> QED
  BY <1>1, <1>2, <1>3, <1>4, <1>5, StepCases

-----------------------------------------------------------------------------
(* A pending message's operation is neither waited for nor forgotten.      *)

(* What is known of a message that is pending, and of its slot. *)
LEMMA PendingSend ==
  ASSUME IInv, NEW m \in sends
  PROVE  /\ m.src \in Ranks /\ m.dst \in Ranks /\ m.buf \in Buffers /\ m.buf # None
         /\ m.op \in 1..Len(program) /\ m.op \in Nat /\ m.op # 0
         /\ program[m.op] \in Op /\ program[m.op].obj \in Objects
         /\ program[m.op].kind \in {"start", "sync_start"}
         /\ program[m.op].kind = "start" <=> program[m.op].obj \in Updaters
         /\ SendSlot(m) \in Slots /\ buffer[m.src][SendSlot(m)] = m.buf
         /\ Posted(m.src, m.op, EarlySends)
<1>1. /\ m.src \in Ranks /\ m.dst \in Ranks /\ m.buf \in Buffers
  BY DEF IInv, TypeOK, NetworkTypeOK, SendMsg
<1>2. /\ m.op \in 1..Len(program) /\ program \in Seq(Op)
      /\ program[m.op].kind \in {"start", "sync_start"}
      /\ buffer[m.src][SendSlot(m)] = m.buf /\ Posted(m.src, m.op, EarlySends)
  BY DEF IInv, SendsOwned, Owned, TypeOK, RankTypeOK
<1>3. m.op \in Nat /\ m.op # 0 /\ program[m.op] \in Op
  BY <1>2
<1>4. /\ program[m.op].kind = "start" => program[m.op].obj \in Updaters
      /\ program[m.op].kind = "sync_start" => program[m.op].obj \in Requests
  BY <1>3, OpTypes DEF UpdaterOps, RequestOps
<1>5. /\ program[m.op].obj \in Objects
      /\ program[m.op].kind = "start" <=> program[m.op].obj \in Updaters
  BY <1>2, <1>4, ObjectsAssumption DEF Objects
<1>6. m.buf # None
  BY <1>1, ProgramsAssumption DEF Buffers, None
<1>7. SendSlot(m) \in Slots
  BY <1>1, <1>5, SlotTypes DEF SendSlot
<1> QED
  BY <1>1, <1>2, <1>3, <1>5, <1>6, <1>7

(* The same for a receive. *)
LEMMA PendingRecv ==
  ASSUME IInv, NEW m \in recvs
  PROVE  /\ m.src \in Ranks /\ m.dst \in Ranks /\ m.buf \in Buffers /\ m.buf # None
         /\ m.op \in 1..Len(program) /\ m.op \in Nat /\ m.op # 0
         /\ program[m.op] \in Op /\ program[m.op].obj \in Objects
         /\ program[m.op].kind \in {"start", "sync_start"}
         /\ program[m.op].kind = "start" <=> program[m.op].obj \in Updaters
         /\ RecvSlot(m) \in Slots /\ buffer[m.dst][RecvSlot(m)] = m.buf
         /\ Posted(m.dst, m.op, EarlyRecvs)
<1>1. /\ m.src \in Ranks /\ m.dst \in Ranks /\ m.buf \in Buffers
  BY DEF IInv, TypeOK, NetworkTypeOK, SendMsg
<1>2. /\ m.op \in 1..Len(program) /\ program \in Seq(Op)
      /\ program[m.op].kind \in {"start", "sync_start"}
      /\ buffer[m.dst][RecvSlot(m)] = m.buf /\ Posted(m.dst, m.op, EarlyRecvs)
  BY DEF IInv, RecvsOwned, Owned, TypeOK, RankTypeOK
<1>3. m.op \in Nat /\ m.op # 0 /\ program[m.op] \in Op
  BY <1>2
<1>4. /\ program[m.op].kind = "start" => program[m.op].obj \in Updaters
      /\ program[m.op].kind = "sync_start" => program[m.op].obj \in Requests
  BY <1>3, OpTypes DEF UpdaterOps, RequestOps
<1>5. /\ program[m.op].obj \in Objects
      /\ program[m.op].kind = "start" <=> program[m.op].obj \in Updaters
  BY <1>2, <1>4, ObjectsAssumption DEF Objects
<1>6. m.buf # None
  BY <1>1, ProgramsAssumption DEF Buffers, None
<1>7. RecvSlot(m) \in Slots
  BY <1>1, <1>5, SlotTypes DEF RecvSlot
<1> QED
  BY <1>1, <1>2, <1>3, <1>5, <1>6, <1>7

(* A rank that is past the start of an exchange remembers it until the wait. *)
LEMMA PostedInflight ==
  ASSUME IInv, NEW r \in Ranks, NEW op \in 1..Len(program), NEW early,
         early \in {EarlySends, EarlyRecvs}, Posted(r, op, early),
         NEW kind, Executes(r, kind), kind \notin {"start", "sync_start"},
         program[op].kind \in {"start", "sync_start"}
  PROVE  inflight[r][program[op].obj] = op
<1>1. CurrentOp(r).kind = kind /\ CurrentOp(r) = program[pc[r] + 1]
  BY DEF Executes, CurrentOp
<1> QED
  BY <1>1 DEF Posted, EarlySends, EarlyRecvs

(* A finished wait or a completed request leaves no message of its own. *)
LEMMA WaitedSends ==
  ASSUME IInv, NEW r \in Ranks, NEW m \in sends, m.src = r
  PROVE  /\ Wait(r) => program[m.op].obj # CurrentOp(r).obj
         /\ SyncWaited(r) => program[m.op].obj # CurrentOp(r).obj
<1>1. ASSUME Wait(r), program[m.op].obj = CurrentOp(r).obj PROVE FALSE
  <2>1. Executes(r, "wait") /\ ~SendsPending(r, inflight[r][CurrentOp(r).obj])
    BY <1>1 DEF Wait
  <2>2. inflight[r][program[m.op].obj] = m.op
    BY <2>1, PendingSend, PostedInflight
  <2> QED
    BY <1>1, <2>1, <2>2 DEF SendsPending
<1>2. ASSUME SyncWaited(r), program[m.op].obj = CurrentOp(r).obj PROVE FALSE
  <2>1. CurrentOp(r).obj \in Requests
    BY <1>2, CurrentOpType DEF IInv, SyncWaited, RequestOps
  <2>2. program[m.op].kind = "sync_start"
    BY <1>2, <2>1, PendingSend, ObjectsAssumption
  <2>3. m.dst \in SyncTo[r]
    BY <2>2 DEF IInv, SendsOwned
  <2>4. buffer[r][SendSlot(m)] = None
    BY <1>2, <2>3 DEF SyncWaited, SendSlot
  <2> QED
    BY <2>4, PendingSend
<1> QED
  BY <1>1, <1>2

(* The same for receives. *)
LEMMA WaitedRecvs ==
  ASSUME IInv, NEW r \in Ranks, NEW m \in recvs, m.dst = r
  PROVE  /\ Wait(r) => program[m.op].obj # CurrentOp(r).obj
         /\ SyncWaited(r) => program[m.op].obj # CurrentOp(r).obj
<1>1. ASSUME Wait(r), program[m.op].obj = CurrentOp(r).obj PROVE FALSE
  <2>1. Executes(r, "wait") /\ ~RecvsPending(r, inflight[r][CurrentOp(r).obj])
    BY <1>1 DEF Wait
  <2>2. inflight[r][program[m.op].obj] = m.op
    BY <2>1, PendingRecv, PostedInflight
  <2> QED
    BY <1>1, <2>1, <2>2 DEF RecvsPending
<1>2. ASSUME SyncWaited(r), program[m.op].obj = CurrentOp(r).obj PROVE FALSE
  <2>1. CurrentOp(r).obj \in Requests
    BY <1>2, CurrentOpType DEF IInv, SyncWaited, RequestOps
  <2>2. program[m.op].kind = "sync_start"
    BY <1>2, <2>1, PendingRecv, ObjectsAssumption
  <2>3. m.src \in SyncFrom[r]
    BY <2>2 DEF IInv, RecvsOwned
  <2>4. buffer[r][RecvSlot(m)] = None
    BY <1>2, <2>3 DEF SyncWaited, RecvSlot
  <2> QED
    BY <2>4, PendingRecv
<1> QED
  BY <1>1, <1>2

(* A step of the rank keeps what it remembers of an exchange not waited for. *)
LEMMA PostedStep ==
  ASSUME IInv, NEW r \in Ranks, RankStep(r), NEW op \in 1..Len(program), NEW early,
         early \in {EarlySends, EarlyRecvs}, Posted(r, op, early),
         program[op].kind \in {"start", "sync_start"}, program[op].obj \in Objects,
         Wait(r) => program[op].obj # CurrentOp(r).obj,
         SyncWaited(r) => program[op].obj # CurrentOp(r).obj
  PROVE  Posted(r, op, early)' /\ TagOf(r, op)' = TagOf(r, op) /\ program' = program
<1> DEFINE o == program[op].obj
<1>0. /\ TypeOK
      /\ pc \in [Ranks -> Nat]
      /\ status \in [Ranks -> [Objects ->
                 {"absent", "idle", "receiving", "inflight", "finalized", "deleted"}]]
      /\ tag \in [Ranks -> [Updaters -> Nat]]
      /\ inflight \in [Ranks -> [Objects -> Nat]]
      /\ status[r][o] = "inflight" <=> inflight[r][o] # 0
      /\ op \in Nat /\ op # 0
  BY DEF IInv, TypeOK, RankTypeOK, LifeCycle
<1>1. CASE UNCHANGED <<program, pc, status, tag, inflight>>
  BY <1>1 DEF Posted, TagOf
<1>2. CASE Create(r)
  <2>1. CurrentOp(r).kind = "create" /\ CurrentOp(r) = program[pc[r] + 1]
    BY <1>2 DEF Create, Executes, CurrentOp
  <2>2. inflight[r][o] = op
    BY <1>2, PostedInflight DEF Create
  <2>3. CurrentOp(r).obj # o
    BY <1>0, <1>2, <2>2 DEF Create
  <2> QED
    BY <1>0, <1>2, <2>2, <2>3 DEF Create, Posted, TagOf
<1>3. CASE StartRecv(r)
  <2>1. /\ CurrentOp(r).kind = "start" /\ CurrentOp(r) = program[pc[r] + 1]
        /\ status[r][CurrentOp(r).obj] \notin {"absent", "inflight", "receiving"}
    BY <1>3 DEF StartRecv, Executes, CurrentOp, Busy
  <2>2. inflight[r][o] = op
    BY <2>1 DEF Posted, EarlySends, EarlyRecvs
  <2> QED
    BY <1>3, <2>2 DEF StartRecv, Posted, TagOf
<1>4. CASE StartSend(r)
  <2>1. /\ CurrentOp(r).kind = "start" /\ CurrentOp(r) = program[pc[r] + 1]
        /\ status[r][CurrentOp(r).obj] = "receiving"
        /\ CurrentOp(r).obj \in Updaters /\ CurrentOp(r).obj \in Objects
    BY <1>0, <1>4, CurrentOpType DEF StartSend, Executes, CurrentOp, UpdaterOps, Objects
  <2>2. inflight'[r][o] = op
    <3>1. CASE inflight[r][o] = op
      BY <1>0, <1>4, <2>1, <3>1 DEF StartSend
    <3>2. CASE op = pc[r] + 1
      BY <1>0, <1>4, <2>1, <3>2 DEF StartSend
    <3> QED BY <3>1, <3>2 DEF Posted
  <2> QED
    BY <1>4, <2>2 DEF StartSend, Posted, TagOf
<1>5. CASE Wait(r)
  <2>1. inflight[r][o] = op /\ CurrentOp(r).obj # o
    BY <1>5, PostedInflight DEF Wait
  <2> QED
    BY <1>0, <1>5, <2>1 DEF Wait, Posted, TagOf
<1>6. CASE Delete(r)
  <2>1. inflight[r][o] = op
    BY <1>6, PostedInflight DEF Delete
  <2> QED
    BY <1>6, <2>1 DEF Delete, Posted, TagOf
<1>7. CASE SyncStarted(r)
  <2>1. /\ CurrentOp(r).kind = "sync_start" /\ CurrentOp(r) = program[pc[r] + 1]
        /\ status[r][CurrentOp(r).obj] = "absent"
        /\ CurrentOp(r).obj \in Objects
    BY <1>0, <1>7, CurrentOpType DEF SyncStarted, Executes, CurrentOp, RequestOps, Objects
  <2>2. inflight'[r][o] = op
    <3>1. CASE inflight[r][o] = op
      BY <1>0, <1>7, <2>1, <3>1 DEF SyncStarted
    <3>2. CASE op = pc[r] + 1
      BY <1>0, <1>7, <2>1, <3>2 DEF SyncStarted
    <3> QED BY <3>1, <3>2 DEF Posted
  <2> QED
    BY <1>7, <2>2 DEF SyncStarted, Posted, TagOf
<1>8. CASE SyncWaited(r)
  <2>1. inflight[r][o] = op /\ CurrentOp(r).obj # o
    BY <1>8, PostedInflight DEF SyncWaited
  <2> QED
    BY <1>0, <1>8, <2>1 DEF SyncWaited, Posted, TagOf
<1>9. CASE Write(r)
  <2>1. inflight[r][o] = op
    BY <1>9, PostedInflight DEF Write
  <2> QED
    BY <1>9, <2>1 DEF Write, Posted, TagOf
<1> QED
  BY <1>1, <1>2, <1>3, <1>4, <1>5, <1>6, <1>7, <1>8, <1>9
  DEF RankStep, Compile, StartRaises, WaitRaises, Raise, SyncIsend, SyncIrecv,
      SyncSendDone, SyncRecvDone, rankVars

-----------------------------------------------------------------------------
(* What a step may do to the buffers of the rank that takes it.            *)

(* The slots of the messages the rank has pending. *)
PendingSlots(r) ==
  {SendSlot(m) : m \in {x \in sends : x.src = r}} \cup
  {RecvSlot(m) : m \in {x \in recvs : x.dst = r}}

BuffersSame == UNCHANGED <<buffer, cache, allocated>>

(* An empty slot takes a buffer nobody holds. *)
BufferTaken(r) ==
  \E slot \in Slots, b \in Buffers : buffer[r][slot] = None /\ Pops(r, slot, b)

(* Slots without a pending message give theirs back, or drop them. *)
BuffersGiven(r) ==
  \E slots \in SUBSET Slots :
    /\ PushToCache(r, slots) \/ (Drop(r, slots) /\ UNCHANGED cache)
    /\ UNCHANGED allocated
    /\ slots \cap PendingSlots(r) = {}

(* A slot that a pending message uses is a slot, and it is filled. *)
LEMMA PendingSlotsHeld ==
  ASSUME IInv, NEW r \in Ranks, NEW s \in PendingSlots(r)
  PROVE  s \in Slots /\ buffer[r][s] # None
BY PendingSend, PendingRecv DEF PendingSlots

(* Compile and the posts of the interface exchange take one buffer each. *)
LEMMA PopsTake ==
  ASSUME IInv, NEW r \in Ranks, Compile(r) \/ SyncIsend(r) \/ SyncIrecv(r)
  PROVE  BufferTaken(r)
<1> DEFINE o == CurrentOp(r).obj
<1>0. TypeOK /\ BuffersPartitioned /\ Updaters \subseteq Objects /\ Requests \subseteq Objects
  BY DEF IInv, Objects
<1>1. CASE Compile(r)
  <2> DEFINE s == CHOOSE t \in MissingSlots(r) : TRUE
  <2>1. o \in Objects
    BY <1>0, <1>1, CurrentOpType DEF Compile, UpdaterOps
  <2>2. s \in Slots /\ buffer[r][s] = None /\ PopFromCache(r, s)
    BY <1>1, <2>1, SlotTypes DEF Compile, MissingSlots
  <2> HIDE DEF s
  <2> QED
    BY <1>0, <2>2, PopEffect DEF BufferTaken
<1>2. CASE SyncIsend(r)
  <2>1. PICK n \in Ranks, b \in Buffers : IsendEffect(r, n, b)
    BY <1>0, <1>2, IsendPops
  <2>2. <<o, "send", n>> \in Slots
    BY <1>0, <1>2, CurrentOpType, SlotTypes DEF SyncIsend, RequestOps
  <2> QED
    BY <2>1, <2>2 DEF IsendEffect, BufferTaken
<1>3. CASE SyncIrecv(r)
  <2>1. PICK n \in Ranks, b \in Buffers : IrecvEffect(r, n, b)
    BY <1>0, <1>3, IrecvPops
  <2>2. <<o, "recv", n>> \in Slots
    BY <1>0, <1>3, CurrentOpType, SlotTypes DEF SyncIrecv, RequestOps
  <2> QED
    BY <2>1, <2>2 DEF IrecvEffect, BufferTaken
<1> QED BY <1>1, <1>2, <1>3

(* Every step of a rank takes a buffer, gives back or drops buffers no      *)
(* message uses, or leaves the buffers alone.                              *)
LEMMA BufferStep ==
  ASSUME IInv, NEW r \in Ranks, RankStep(r)
  PROVE  BuffersSame \/ BufferTaken(r) \/ BuffersGiven(r)
<1> DEFINE o == CurrentOp(r).obj
<1>0. TypeOK /\ BuffersPartitioned /\ Updaters \cap Requests = {}
      /\ Updaters \subseteq Objects /\ Requests \subseteq Objects
  BY ObjectsAssumption DEF IInv, Objects
<1>1. CASE Compile(r) \/ SyncIsend(r) \/ SyncIrecv(r)
  BY <1>1, PopsTake
<1>2. CASE Wait(r)
  <2>1. o \in Updaters /\ o \in Objects
    BY <1>0, <1>2, CurrentOpType DEF Wait, UpdaterOps
  <2>2. \A s \in UpdaterSlots(o, r) : s \notin PendingSlots(r)
    BY <1>2, WaitedSends, WaitedRecvs DEF UpdaterSlots, PendingSlots, SendSlot, RecvSlot
  <2> QED
    BY <1>2, <2>1, <2>2, SlotTypes DEF Wait, BuffersSame, BuffersGiven
<1>3. CASE Delete(r)
  <2>1. o \in Updaters /\ o \in Objects
    BY <1>0, <1>3, CurrentOpType DEF Delete, UpdaterOps
  <2>2. inflight[r][o] = 0
    BY <1>3, <2>1 DEF Delete, IInv, LifeCycle
  <2>3. ASSUME NEW s \in UpdaterSlots(o, r) PROVE s \notin PendingSlots(r)
    <3>1. \A m \in sends : m.src = r => program[m.op].obj # o
      BY <1>3, <2>2, PendingSend, PostedInflight DEF Delete
    <3>2. \A m \in recvs : m.dst = r => program[m.op].obj # o
      BY <1>3, <2>2, PendingRecv, PostedInflight DEF Delete
    <3> QED
      BY <3>1, <3>2 DEF UpdaterSlots, PendingSlots, SendSlot, RecvSlot
  <2> QED
    BY <1>3, <2>1, <2>3, SlotTypes DEF Delete, BuffersSame, BuffersGiven
<1>4. CASE SyncSendDone(r)
  <2>1. /\ o \in Requests /\ Executes(r, "sync_wait") /\ allocated' = allocated
    BY <1>0, <1>4, CurrentOpType DEF SyncSendDone, RequestOps
  <2>2. PICK n \in SyncTo[r] : /\ ~SyncSendPending(r, n, inflight[r][o])
                               /\ PushToCache(r, {<<o, "send", n>>})
    BY <1>4 DEF SyncSendDone
  <2>3. n \in Ranks /\ <<o, "send", n>> \in Slots
    BY <1>0, <2>1, <2>2, SlotTypes, BoundariesAssumption
  <2>4. <<o, "send", n>> \notin PendingSlots(r)
    <3>1. ASSUME NEW m \in sends, m.src = r PROVE SendSlot(m) # <<o, "send", n>>
      BY <2>1, <2>2, <3>1, PendingSend, PostedInflight DEF SyncSendPending, SendSlot
    <3> QED
      BY <3>1 DEF PendingSlots, RecvSlot
  <2> QED
    BY <2>1, <2>2, <2>3, <2>4 DEF BuffersGiven
<1>5. CASE SyncRecvDone(r)
  <2>1. /\ o \in Requests /\ Executes(r, "sync_wait") /\ allocated' = allocated
    BY <1>0, <1>5, CurrentOpType DEF SyncRecvDone, RequestOps
  <2>2. PICK n \in SyncFrom[r] : /\ ~SyncRecvPending(r, n, inflight[r][o])
                                 /\ PushToCache(r, {<<o, "recv", n>>})
    BY <1>5 DEF SyncRecvDone
  <2>3. n \in Ranks /\ <<o, "recv", n>> \in Slots
    BY <1>0, <2>1, <2>2, SlotTypes, BoundariesAssumption
  <2>4. <<o, "recv", n>> \notin PendingSlots(r)
    <3>1. ASSUME NEW m \in recvs, m.dst = r PROVE RecvSlot(m) # <<o, "recv", n>>
      BY <2>1, <2>2, <3>1, PendingRecv, PostedInflight DEF SyncRecvPending, RecvSlot
    <3> QED
      BY <3>1 DEF PendingSlots, SendSlot
  <2> QED
    BY <2>1, <2>2, <2>3, <2>4 DEF BuffersGiven
<1> QED
  BY <1>1, <1>2, <1>3, <1>4, <1>5
  DEF RankStep, Create, StartRecv, StartSend, StartRaises, WaitRaises, Raise,
      SyncStarted, SyncWaited, Write, bufVars, BuffersSame

(* Whatever the step does, each buffer stays in one place. *)
LEMMA PartitionStep ==
  ASSUME IInv, NEW r \in Ranks, BuffersSame \/ BufferTaken(r) \/ BuffersGiven(r)
  PROVE  BuffersPartitioned'
<1>0. /\ BuffersPartitioned /\ TypeOK
      /\ buffer \in [Ranks -> [Slots -> Buffers \cup {None}]]
      /\ cache \in [Ranks -> SUBSET Buffers]
      /\ allocated \in [Ranks -> Nat]
  BY ProgramsAssumption DEF IInv, TypeOK, BufferTypeOK
<1>1. CASE BuffersSame
  BY <1>0, <1>1 DEF BuffersSame, BuffersPartitioned, SlotBuffers
<1>2. CASE BufferTaken(r)
  <2>1. PICK slot \in Slots, b \in Buffers : buffer[r][slot] = None /\ Pops(r, slot, b)
    BY <1>2 DEF BufferTaken
  <2>2. b # None
    BY ProgramsAssumption DEF Buffers, None
  <2> SUFFICES ASSUME NEW q \in Ranks
               PROVE  /\ (cache[q] \cup SlotBuffers(Slots, q) \subseteq 1..allocated[q])'
                      /\ (cache[q] \cap SlotBuffers(Slots, q) = {})'
                      /\ \A s, t \in Slots :
                           (buffer[q][s] # None /\ buffer[q][s] = buffer[q][t])' => s = t
    BY DEF BuffersPartitioned
  <2>3. /\ cache[q] \cup SlotBuffers(Slots, q) \subseteq 1..allocated[q]
        /\ cache[q] \cap SlotBuffers(Slots, q) = {}
        /\ \A s, t \in Slots :
             buffer[q][s] # None /\ buffer[q][s] = buffer[q][t] => s = t
    BY <1>0 DEF BuffersPartitioned
  <2>4. CASE q # r
    BY <1>0, <2>1, <2>3, <2>4 DEF Pops, SlotBuffers
  <2>5. CASE q = r
    <3>1. SlotBuffers(Slots, r)' = SlotBuffers(Slots, r) \cup {b}
      BY <1>0, <2>1, <2>2 DEF Pops, SlotBuffers
    <3>2. cache'[r] = cache[r] \ {b} /\ b \notin SlotBuffers(Slots, r)
      BY <1>0, <2>1 DEF Pops, SlotBuffers
    <3>3. cache'[r] \cup SlotBuffers(Slots, r)' \subseteq 1..allocated'[r]
      <4>1. CASE b \in cache[r] /\ allocated' = allocated
        BY <2>3, <2>5, <3>1, <3>2, <4>1
      <4>2. CASE b = allocated[r] + 1 /\ allocated' = [allocated EXCEPT ![r] = b]
        <5>1. allocated[r] \in Nat /\ allocated'[r] = allocated[r] + 1
          BY <1>0, <4>2
        <5>2. 1..allocated'[r] = 1..allocated[r] \cup {b}
          BY <4>2, <5>1
        <5> QED
          BY <2>3, <2>5, <3>1, <3>2, <5>2
      <4> QED BY <2>1, <4>1, <4>2 DEF Pops
    <3>4. \A s, t \in Slots :
            buffer'[r][s] # None /\ buffer'[r][s] = buffer'[r][t] => s = t
      BY <1>0, <2>1, <2>3, <2>5 DEF Pops
    <3> QED
      BY <2>3, <2>5, <3>1, <3>2, <3>3, <3>4
  <2> QED BY <2>4, <2>5
<1>3. CASE BuffersGiven(r)
  <2>1. PICK slots \in SUBSET Slots :
          /\ PushToCache(r, slots) \/ (Drop(r, slots) /\ UNCHANGED cache)
          /\ UNCHANGED allocated
    BY <1>3 DEF BuffersGiven
  <2>2. /\ \/ cache' = [cache EXCEPT ![r] = @ \cup SlotBuffers(slots, r)]
           \/ UNCHANGED cache
        /\ \A q \in Ranks, s \in Slots :
             buffer'[q][s] = IF q = r /\ s \in slots THEN None ELSE buffer[q][s]
    BY <1>0, <2>1, PushEffect, DropEffect
  <2> SUFFICES ASSUME NEW q \in Ranks
               PROVE  /\ (cache[q] \cup SlotBuffers(Slots, q) \subseteq 1..allocated[q])'
                      /\ (cache[q] \cap SlotBuffers(Slots, q) = {})'
                      /\ \A s, t \in Slots :
                           (buffer[q][s] # None /\ buffer[q][s] = buffer[q][t])' => s = t
    BY DEF BuffersPartitioned
  <2>3. /\ cache[q] \cup SlotBuffers(Slots, q) \subseteq 1..allocated[q]
        /\ cache[q] \cap SlotBuffers(Slots, q) = {}
        /\ \A s, t \in Slots :
             buffer[q][s] # None /\ buffer[q][s] = buffer[q][t] => s = t
    BY <1>0 DEF BuffersPartitioned
  <2>4. CASE q # r
    <3>1. \A s \in Slots : buffer'[q][s] = buffer[q][s]
      BY <2>2, <2>4
    <3>2. SlotBuffers(Slots, q)' = SlotBuffers(Slots, q)
      BY <3>1 DEF SlotBuffers
    <3>3. cache'[q] = cache[q] /\ allocated'[q] = allocated[q]
      BY <1>0, <2>1, <2>2, <2>4
    <3> QED
      BY <2>3, <3>1, <3>2, <3>3
  <2>5. CASE q = r
    <3>0. \A s \in Slots : buffer'[r][s] = IF s \in slots THEN None ELSE buffer[r][s]
      BY <2>2
    <3>1. SlotBuffers(Slots, r)' = SlotBuffers(Slots, r) \ SlotBuffers(slots, r)
      <4>1. ASSUME NEW b PROVE b \in SlotBuffers(Slots, r)' <=>
                                b \in SlotBuffers(Slots, r) \ SlotBuffers(slots, r)
        BY <2>3, <2>5, <3>0 DEF SlotBuffers
      <4> QED BY <4>1
    <3>2. /\ \/ cache'[r] = cache[r] \cup SlotBuffers(slots, r)
             \/ cache'[r] = cache[r]
          /\ SlotBuffers(slots, r) \subseteq SlotBuffers(Slots, r)
      BY <1>0, <2>2 DEF SlotBuffers
    <3> QED
      BY <2>1, <2>2, <2>3, <2>5, <3>1, <3>2
  <2> QED BY <2>4, <2>5
<1> QED
  BY <1>1, <1>2, <1>3

(* A pending message keeps its buffer, and the other slots of live updaters. *)
LEMMA HeldStep ==
  ASSUME IInv, NEW r \in Ranks, BuffersSame \/ BufferTaken(r) \/ BuffersGiven(r),
         NEW q \in Ranks, NEW s \in PendingSlots(q)
  PROVE  buffer'[q][s] = buffer[q][s]
<1>0. /\ TypeOK /\ s \in Slots /\ buffer[q][s] # None
      /\ buffer \in [Ranks -> [Slots -> Buffers \cup {None}]]
  BY PendingSlotsHeld DEF IInv, TypeOK, BufferTypeOK
<1>1. CASE BuffersSame
  BY <1>1 DEF BuffersSame
<1>2. CASE BufferTaken(r)
  BY <1>0, <1>2 DEF BufferTaken, Pops
<1>3. CASE BuffersGiven(r)
  BY <1>0, <1>3, PushEffect, DropEffect DEF BuffersGiven
<1> QED
  BY <1>1, <1>2, <1>3

(* A step of rank r leaves the memory of every other rank's updaters alone. *)
LEMMA OtherRank ==
  ASSUME IInv, NEW r \in Ranks, RankStep(r), NEW q \in Ranks, q # r
  PROVE  /\ pc'[q] = pc[q] /\ status'[q] = status[q] /\ inflight'[q] = inflight[q]
         /\ tag'[q] = tag[q] /\ program' = program
<1>1. /\ pc \in [Ranks -> Nat] /\ DOMAIN status = Ranks /\ DOMAIN inflight = Ranks
      /\ DOMAIN tag = Ranks
  BY DEF IInv, TypeOK, RankTypeOK
<1> QED
  BY <1>1 DEF RankStep, Compile, Create, StartRecv, StartSend, StartRaises, Wait, WaitRaises,
     Delete, SyncIsend, SyncIrecv, SyncStarted, SyncSendDone, SyncRecvDone, SyncWaited,
     Write, Raise, Advance, rankVars

(* A send that stays pending over a rank's step is still owned. *)
LEMMA OwnedSendStep ==
  ASSUME IInv, NEW r \in Ranks, RankStep(r), NEW m \in sends
  PROVE  Owned(m, m.src, SendSlot(m), EarlySends)' /\ program' = program
<1> DEFINE q == m.src
<1>0. /\ q \in Ranks /\ m.op \in 1..Len(program) /\ program[m.op].obj \in Objects
      /\ program[m.op].kind \in {"start", "sync_start"}
      /\ Owned(m, q, SendSlot(m), EarlySends) /\ Posted(q, m.op, EarlySends)
  BY PendingSend DEF IInv, SendsOwned
<1>1. buffer'[q][SendSlot(m)] = buffer[q][SendSlot(m)]
  BY <1>0, BufferStep, HeldStep DEF PendingSlots
<1>2. Posted(q, m.op, EarlySends)' /\ TagOf(q, m.op)' = TagOf(q, m.op) /\ program' = program
  <2>1. CASE q = r
    BY <1>0, <2>1, WaitedSends, PostedStep
  <2>2. CASE q # r
    BY <1>0, <2>2, OtherRank DEF Posted, TagOf
  <2> QED BY <2>1, <2>2
<1> QED
  BY <1>0, <1>1, <1>2 DEF Owned, SendSlot

(* A receive that stays pending over a rank's step is still owned. *)
LEMMA OwnedRecvStep ==
  ASSUME IInv, NEW r \in Ranks, RankStep(r), NEW m \in recvs
  PROVE  Owned(m, m.dst, RecvSlot(m), EarlyRecvs)' /\ program' = program
<1> DEFINE q == m.dst
<1>0. /\ q \in Ranks /\ m.op \in 1..Len(program) /\ program[m.op].obj \in Objects
      /\ program[m.op].kind \in {"start", "sync_start"}
      /\ Owned(m, q, RecvSlot(m), EarlyRecvs) /\ Posted(q, m.op, EarlyRecvs)
  BY PendingRecv DEF IInv, RecvsOwned
<1>1. buffer'[q][RecvSlot(m)] = buffer[q][RecvSlot(m)]
  BY <1>0, BufferStep, HeldStep DEF PendingSlots
<1>2. Posted(q, m.op, EarlyRecvs)' /\ TagOf(q, m.op)' = TagOf(q, m.op) /\ program' = program
  <2>1. CASE q = r
    BY <1>0, <2>1, WaitedRecvs, PostedStep
  <2>2. CASE q # r
    BY <1>0, <2>2, OtherRank DEF Posted, TagOf
  <2> QED BY <2>1, <2>2
<1> QED
  BY <1>0, <1>1, <1>2 DEF Owned, RecvSlot

-----------------------------------------------------------------------------
(* Ownership is kept: old messages by the lemmas above, new ones by the post. *)

(* Every step keeps each pending send with the operation that posted it. *)
LEMMA SendsOwnedStep == IInv /\ [Next]_vars => SendsOwned'
<1> SUFFICES ASSUME IInv, [Next]_vars PROVE SendsOwned'
  OBVIOUS
<1>0. TypeOK /\ BuffersPartitioned /\ SendsOwned
  BY DEF IInv
<1>1. ASSUME NEW r \in Ranks, RankStep(r) PROVE SendsOwned'
  <2> DEFINE o == CurrentOp(r).obj
             op == pc[r] + 1
  <2>0. \A m \in sends : /\ Owned(m, m.src, SendSlot(m), EarlySends)'
                         /\ program[m.op].kind = "sync_start" => m.dst \in SyncTo[m.src]
                         /\ program' = program
    BY <1>0, <1>1, OwnedSendStep DEF SendsOwned
  <2>1. CASE StartSend(r)
    <3>1. /\ Executes(r, "start") /\ o \in Updaters /\ o \in Objects
          /\ op \in 1..Len(program) /\ o = program[op].obj /\ program[op].kind = "start"
      BY <1>0, <2>1, CurrentOpType DEF StartSend, UpdaterOps, Objects
    <3>2. /\ sends' = sends \cup SendsOf(r, o, op) /\ inflight'[r][o] = op
          /\ program' = program /\ tag' = tag /\ buffer' = buffer
      BY <1>0, <2>1, <3>1 DEF StartSend, TypeOK, RankTypeOK
    <3>3. ASSUME NEW m \in SendsOf(r, o, op)
          PROVE  Owned(m, m.src, SendSlot(m), EarlySends)' /\ program'[m.op].kind = "start"
      <4>1. PICK n \in Neighbors[r] :
              /\ m.src = r /\ m.dst = n /\ m.op = op /\ m.tag = tag[r][o]
              /\ m.buf = buffer[r][<<o, "send", n>>]
        <5> HIDE DEF o, op
        <5> QED BY PostedMessages
      <4>2. program'[m.op].obj = o /\ program'[m.op].kind = "start"
        BY <3>1, <3>2, <4>1
      <4> QED
        BY <3>1, <3>2, <4>1, <4>2 DEF Owned, SendSlot, TagOf, Posted
    <3> QED
      BY <2>0, <3>2, <3>3 DEF SendsOwned
  <2>2. CASE SyncIsend(r)
    <3>1. PICK n \in Ranks, b \in Buffers : IsendEffect(r, n, b)
      BY <1>0, <2>2, IsendPops
    <3>2. /\ o \in Requests /\ o \notin Updaters /\ <<o, "send", n>> \in Slots
          /\ op \in 1..Len(program) /\ o = program[op].obj
          /\ program[op].kind = "sync_start"
      BY <1>0, <2>2, CurrentOpType, SlotTypes, ObjectsAssumption
      DEF SyncIsend, RequestOps, Objects
    <3>3. buffer'[r][<<o, "send", n>>] = b
      BY <1>0, <3>1, <3>2 DEF IsendEffect, Pops, TypeOK, BufferTypeOK
    <3> DEFINE new == [src |-> r, dst |-> n, tag |-> InterfaceTag, op |-> op, buf |-> b]
    <3>5. /\ sends' = sends \cup {new} /\ n \in SyncTo[r]
          /\ program' = program /\ pc' = pc /\ status' = status /\ status[r][o] = "absent"
      BY <3>1 DEF IsendEffect, rankVars
    <3>6. Owned(new, r, SendSlot(new), EarlySends)'
      BY <3>2, <3>3, <3>5 DEF Owned, SendSlot, TagOf, Posted, EarlySends
    <3> QED
      BY <2>0, <3>5, <3>6 DEF SendsOwned
  <2>3. CASE sends' = sends
    BY <2>0, <2>3 DEF SendsOwned
  <2> QED
    BY <1>1, <2>1, <2>2, <2>3
    DEF RankStep, Compile, Create, StartRecv, StartRaises, Wait, WaitRaises, Raise, Delete,
        SyncIrecv, SyncStarted, SyncSendDone, SyncRecvDone, SyncWaited, Write, netVars
<1>2. ASSUME UNCHANGED <<rankVars, buffer>>, sends' \subseteq sends PROVE SendsOwned'
  BY <1>0, <1>2 DEF SendsOwned, Owned, SendSlot, TagOf, Posted, rankVars
<1> QED
  BY <1>1, <1>2, StepCases
  DEF Deliver, DeliverCopy, CopyOut, vars, bufVars, netVars

(* Every step keeps each pending receive with the operation that posted it. *)
LEMMA RecvsOwnedStep == IInv /\ [Next]_vars => RecvsOwned'
<1> SUFFICES ASSUME IInv, [Next]_vars PROVE RecvsOwned'
  OBVIOUS
<1>0. TypeOK /\ BuffersPartitioned /\ RecvsOwned
  BY DEF IInv
<1>1. ASSUME NEW r \in Ranks, RankStep(r) PROVE RecvsOwned'
  <2> DEFINE o == CurrentOp(r).obj
             op == pc[r] + 1
  <2>0. \A m \in recvs : /\ Owned(m, m.dst, RecvSlot(m), EarlyRecvs)'
                         /\ program[m.op].kind = "sync_start" => m.src \in SyncFrom[m.dst]
                         /\ program' = program
    BY <1>0, <1>1, OwnedRecvStep DEF RecvsOwned
  <2>1. CASE StartRecv(r)
    <3>1. /\ Executes(r, "start") /\ o \in Updaters /\ o \in Objects
          /\ op \in 1..Len(program) /\ o = program[op].obj /\ program[op].kind = "start"
      BY <1>0, <2>1, CurrentOpType DEF StartRecv, UpdaterOps, Objects
    <3>2. /\ recvs' = recvs \cup RecvsOf(r, o, op) /\ status'[r][o] = "receiving"
          /\ program' = program /\ tag' = tag /\ buffer' = buffer /\ pc' = pc
      BY <1>0, <2>1, <3>1 DEF StartRecv, bufVars, TypeOK, RankTypeOK
    <3>3. ASSUME NEW m \in RecvsOf(r, o, op)
          PROVE  Owned(m, m.dst, RecvSlot(m), EarlyRecvs)' /\ program'[m.op].kind = "start"
      <4>1. PICK n \in Neighbors[r] :
              /\ m.dst = r /\ m.src = n /\ m.op = op /\ m.tag = tag[r][o]
              /\ m.buf = buffer[r][<<o, "recv", n>>]
        BY PostedMessages
      <4>2. program'[m.op].obj = o /\ program'[m.op].kind = "start"
        BY <3>1, <3>2, <4>1
      <4> QED
        BY <3>1, <3>2, <4>1, <4>2 DEF Owned, RecvSlot, TagOf, Posted, EarlyRecvs
    <3> QED
      BY <2>0, <3>2, <3>3 DEF RecvsOwned
  <2>2. CASE SyncIrecv(r)
    <3>1. PICK n \in Ranks, b \in Buffers : IrecvEffect(r, n, b)
      BY <1>0, <2>2, IrecvPops
    <3>2. /\ o \in Requests /\ o \notin Updaters /\ <<o, "recv", n>> \in Slots
          /\ op \in 1..Len(program) /\ o = program[op].obj
          /\ program[op].kind = "sync_start"
      BY <1>0, <2>2, CurrentOpType, SlotTypes, ObjectsAssumption
      DEF SyncIrecv, RequestOps, Objects
    <3>3. buffer'[r][<<o, "recv", n>>] = b
      BY <1>0, <3>1, <3>2 DEF IrecvEffect, Pops, TypeOK, BufferTypeOK
    <3> DEFINE new == [src |-> n, dst |-> r, tag |-> InterfaceTag, op |-> op, buf |-> b]
    <3>5. /\ recvs' = recvs \cup {new} /\ n \in SyncFrom[r]
          /\ program' = program /\ pc' = pc /\ status' = status /\ status[r][o] = "absent"
      BY <3>1 DEF IrecvEffect, rankVars
    <3>6. Owned(new, r, RecvSlot(new), EarlyRecvs)'
      BY <3>2, <3>3, <3>5 DEF Owned, RecvSlot, TagOf, Posted, EarlyRecvs
    <3> QED
      BY <2>0, <3>5, <3>6 DEF RecvsOwned
  <2>3. CASE recvs' = recvs
    BY <2>0, <2>3 DEF RecvsOwned
  <2> QED
    BY <1>1, <2>1, <2>2, <2>3
    DEF RankStep, Compile, Create, StartSend, StartRaises, Wait, WaitRaises, Raise, Delete,
        SyncIsend, SyncStarted, SyncSendDone, SyncRecvDone, SyncWaited, Write, netVars
<1>2. ASSUME UNCHANGED <<rankVars, buffer>>, recvs' \subseteq recvs PROVE RecvsOwned'
  BY <1>0, <1>2 DEF RecvsOwned, Owned, RecvSlot, TagOf, Posted, rankVars
<1> QED
  BY <1>1, <1>2, StepCases
  DEF Deliver, DeliverCopy, CopyOut, vars, bufVars, netVars

-----------------------------------------------------------------------------
(* The life cycle of updaters and requests.                                *)

(* start and sync_start alone set the start under way, their waits alone clear it. *)
LEMMA LifeCycleStep == IInv /\ [Next]_vars => LifeCycle'
<1> SUFFICES ASSUME IInv, [Next]_vars PROVE LifeCycle'
  OBVIOUS
<1>0. /\ TypeOK /\ LifeCycle
      /\ pc \in [Ranks -> Nat]
      /\ status \in [Ranks -> [Objects ->
                 {"absent", "idle", "receiving", "inflight", "finalized", "deleted"}]]
      /\ inflight \in [Ranks -> [Objects -> Nat]]
  BY DEF IInv, TypeOK, RankTypeOK
<1>1. ASSUME NEW r \in Ranks, RankStep(r) PROVE LifeCycle'
  <2> SUFFICES ASSUME NEW q \in Ranks, NEW x \in Objects
               PROVE  /\ (status[q][x] = "inflight" <=> inflight[q][x] # 0)'
                      /\ (inflight[q][x] <= pc[q])'
    BY DEF LifeCycle
  <2> DEFINE o == CurrentOp(r).obj
  <2>0. /\ status[q][x] = "inflight" <=> inflight[q][x] # 0
        /\ inflight[q][x] <= pc[q]
        /\ pc[q] \in Nat /\ inflight[q][x] \in Nat
    BY <1>0 DEF LifeCycle
  <2>1. CASE q # r
    BY <1>1, <2>0, <2>1, OtherRank
  <2>2. CASE q = r
    <3>1. CASE UNCHANGED <<pc, status, inflight>>
      BY <2>0, <3>1
    <3>2. CASE Create(r)
      BY <1>0, <2>0, <2>2, <3>2 DEF Create, Advance
    <3>3. CASE StartRecv(r)
      <4>1. status[r][o] # "inflight"
        BY <3>3 DEF StartRecv, Busy
      <4> QED BY <1>0, <2>0, <2>2, <3>3, <4>1 DEF StartRecv
    <3>4. CASE StartSend(r)
      BY <1>0, <2>0, <2>2, <3>4 DEF StartSend, Advance
    <3>5. CASE Wait(r)
      <4>1. \/ status' = [status EXCEPT ![r][o] = "finalized"]
            \/ status' = [status EXCEPT ![r][o] = "idle"]
        BY <3>5 DEF Wait
      <4>2. inflight' = [inflight EXCEPT ![r][o] = 0] /\ pc' = [pc EXCEPT ![r] = @ + 1]
        BY <3>5 DEF Wait, Advance
      <4>3. (x = o => status'[r][x] # "inflight") /\ (x # o => status'[r][x] = status[r][x])
        BY <1>0, <4>1
      <4> QED BY <1>0, <2>0, <2>2, <4>2, <4>3
    <3>6. CASE Delete(r)
      BY <1>0, <2>0, <2>2, <3>6 DEF Delete, Advance
    <3>7. CASE SyncStarted(r)
      BY <1>0, <2>0, <2>2, <3>7 DEF SyncStarted, Advance
    <3>8. CASE SyncWaited(r)
      BY <1>0, <2>0, <2>2, <3>8 DEF SyncWaited, Advance
    <3>9. CASE Write(r)
      BY <1>0, <2>0, <2>2, <3>9 DEF Write, Advance
    <3> QED
      BY <1>1, <3>1, <3>2, <3>3, <3>4, <3>5, <3>6, <3>7, <3>8, <3>9
      DEF RankStep, Compile, StartRaises, WaitRaises, Raise, SyncIsend, SyncIrecv,
          SyncSendDone, SyncRecvDone, rankVars
  <2> QED BY <2>1, <2>2
<1>2. ASSUME UNCHANGED rankVars PROVE LifeCycle'
  BY <1>0, <1>2 DEF rankVars, LifeCycle
<1> QED
  BY <1>1, <1>2, StepCases DEF Deliver, DeliverCopy, CopyOut, vars

(* Buffers of an updater are given back by finalize alone, which ends its use. *)
LEMMA LiveUpdatersStep == IInv /\ [Next]_vars => LiveUpdatersHold'
<1> SUFFICES ASSUME IInv, [Next]_vars PROVE LiveUpdatersHold'
  OBVIOUS
<1>0. /\ TypeOK /\ BuffersPartitioned /\ LiveUpdatersHold
      /\ status \in [Ranks -> [Objects ->
                 {"absent", "idle", "receiving", "inflight", "finalized", "deleted"}]]
      /\ buffer \in [Ranks -> [Slots -> Buffers \cup {None}]]
      /\ Updaters \subseteq Objects /\ Updaters \cap Requests = {}
  BY ObjectsAssumption DEF IInv, TypeOK, RankTypeOK, BufferTypeOK, Objects
<1>1. ASSUME NEW r \in Ranks, RankStep(r) PROVE LiveUpdatersHold'
  <2> SUFFICES ASSUME NEW q \in Ranks, NEW u \in Updaters,
                      status'[q][u] \in {"idle", "receiving", "inflight"},
                      NEW s \in UpdaterSlots(u, q)
               PROVE  buffer'[q][s] # None
    BY DEF LiveUpdatersHold, UpdaterSlots
  <2> DEFINE o == CurrentOp(r).obj
             live == status[q][u] \in {"idle", "receiving", "inflight"}
  <2>0. s \in Slots /\ (live => buffer[q][s] # None)
    BY <1>0, SlotTypes DEF LiveUpdatersHold
  <2>1. CASE BuffersSame \/ BufferTaken(r)
    <3>1. buffer[q][s] # None => buffer'[q][s] # None
      <4>1. CASE BuffersSame
        BY <4>1 DEF BuffersSame
      <4>2. CASE BufferTaken(r)
        BY <1>0, <2>0, <4>2 DEF BufferTaken, Pops
      <4> QED BY <2>1, <4>1, <4>2
    <3>2. buffer[q][s] # None
      <4>1. CASE Create(r) /\ q = r /\ u = o
        BY <2>0, <4>1 DEF Create, MissingSlots
      <4>2. CASE ~(Create(r) /\ q = r /\ u = o)
        <5>1. live
          <6>1. CASE q # r
            BY <1>1, <6>1, OtherRank
          <6>2. CASE status'[q][u] = status[q][u]
            BY <6>2
          <6>3. CASE q = r /\ u = o /\ status'[q][u] # status[q][u]
            <7>1. CASE StartRecv(r)
              BY <1>0, <6>3, <7>1 DEF StartRecv, Busy, Spent
            <7>2. CASE StartSend(r)
              BY <6>3, <7>2 DEF StartSend
            <7>3. CASE Wait(r)
              BY <6>3, <7>3 DEF Wait
            <7>4. CASE Delete(r)
              BY <1>0, <6>3, <7>4 DEF Delete
            <7>5. CASE SyncStarted(r) \/ SyncWaited(r)
              <8>1. o \in Requests
                BY <1>0, <7>5, CurrentOpType DEF SyncStarted, SyncWaited, RequestOps
              <8> QED BY <1>0, <6>3, <8>1
            <7> QED
              BY <1>1, <4>2, <6>3, <7>1, <7>2, <7>3, <7>4, <7>5
              DEF RankStep, Compile, StartRaises, WaitRaises, Raise, SyncIsend, SyncIrecv,
                  SyncSendDone, SyncRecvDone, Write, rankVars
          <6>4. CASE q = r /\ u # o
            <7>1. \/ status' = status
                  \/ \E v : status' = [status EXCEPT ![r][o] = v]
              BY <1>1
              DEF RankStep, Compile, Create, StartRecv, StartSend, StartRaises, Wait,
                  WaitRaises, Raise, Delete, SyncIsend, SyncIrecv, SyncStarted,
                  SyncSendDone, SyncRecvDone, SyncWaited, Write, rankVars
            <7> HIDE DEF o
            <7>2. status'[r][u] = status[r][u]
              BY <1>0, <6>4, <7>1
            <7> QED BY <6>4, <7>2
          <6> QED BY <6>1, <6>2, <6>3, <6>4
        <5> QED BY <2>0, <5>1
      <4> QED BY <4>1, <4>2
    <3> QED BY <3>1, <3>2
  <2>2. CASE ~(BuffersSame \/ BufferTaken(r))
    <3>1. CASE Wait(r) \/ Delete(r)
      <4>1. o \in Updaters /\ o \in Objects
        BY <1>0, <3>1, CurrentOpType DEF Wait, Delete, UpdaterOps
      <4>2. /\ Drop(r, UpdaterSlots(o, r))
            /\ \/ status' = [status EXCEPT ![r][o] = "finalized"]
               \/ status' = [status EXCEPT ![r][o] = "deleted"]
        BY <2>2, <3>1 DEF Wait, Delete, BuffersSame, PushToCache
      <4>3. ~(q = r /\ u = o) /\ status'[q][u] = status[q][u]
        BY <1>0, <4>1, <4>2
      <4>4. s \notin UpdaterSlots(o, r) \/ q # r
        BY <4>3 DEF UpdaterSlots
      <4> QED
        BY <1>0, <2>0, <4>1, <4>2, <4>3, <4>4, SlotTypes, DropEffect
    <3>2. CASE SyncSendDone(r) \/ SyncRecvDone(r)
      <4>1. o \in Requests /\ o \in Objects /\ u # o /\ status' = status
        BY <1>0, <3>2, CurrentOpType
        DEF SyncSendDone, SyncRecvDone, RequestOps, Objects, rankVars
      <4>2. PICK slot \in Slots : PushToCache(r, {slot}) /\ slot[1] = o
        <5>1. PICK n \in Ranks : \/ PushToCache(r, {<<o, "send", n>>})
                                 \/ PushToCache(r, {<<o, "recv", n>>})
          BY <3>2, BoundariesAssumption DEF SyncSendDone, SyncRecvDone
        <5> QED BY <4>1, <5>1, SlotTypes
      <4>3. s # slot
        BY <4>1, <4>2 DEF UpdaterSlots
      <4> QED
        BY <1>0, <2>0, <4>1, <4>2, <4>3, PushEffect
    <3> QED
      BY <1>1, <2>2, <3>1, <3>2, PopsTake
      DEF RankStep, Create, StartRecv, StartSend, StartRaises, WaitRaises, Raise,
          SyncStarted, SyncWaited, Write, bufVars, BuffersSame
  <2> QED BY <2>1, <2>2
<1>2. ASSUME UNCHANGED <<rankVars, buffer>> PROVE LiveUpdatersHold'
  BY <1>0, <1>2 DEF rankVars, LiveUpdatersHold
<1> QED
  BY <1>1, <1>2, StepCases DEF Deliver, DeliverCopy, CopyOut, vars, bufVars

-----------------------------------------------------------------------------
(* Every step keeps each buffer in one place; MPI moves contents, not buffers. *)
LEMMA PartitionedStep == IInv /\ [Next]_vars => BuffersPartitioned'
<1> SUFFICES ASSUME IInv, [Next]_vars PROVE BuffersPartitioned'
  OBVIOUS
<1>1. ASSUME NEW r \in Ranks, RankStep(r) PROVE BuffersPartitioned'
  BY <1>1, BufferStep, PartitionStep
<1>2. ASSUME BuffersSame PROVE BuffersPartitioned'
  BY <1>2 DEF IInv, BuffersSame, BuffersPartitioned, SlotBuffers
<1> QED
  BY <1>1, <1>2, StepCases
  DEF Deliver, DeliverCopy, CopyOut, vars, bufVars, BuffersSame

(* Before any operation no buffer exists and nothing is pending. *)
LEMMA InitInvariant == Init => IInv
<1> SUFFICES ASSUME Init PROVE IInv
  OBVIOUS
<1>1. TypeOK
  <2>1. program \in Seq(Op)
    BY ProgramsAssumption DEF Init
  <2>2. RankTypeOK
    BY <2>1 DEF Init, RankTypeOK, Value
  <2>3. BufferTypeOK
    BY ProgramsAssumption DEF Init, BufferTypeOK, Value
  <2> QED
    BY <2>2, <2>3 DEF Init, TypeOK, NetworkTypeOK
<1>2. LifeCycle /\ LiveUpdatersHold
  <2>1. Updaters \subseteq Objects
    BY DEF Objects
  <2> QED BY <2>1 DEF Init, LifeCycle, LiveUpdatersHold
<1>3. BuffersPartitioned
  BY DEF Init, BuffersPartitioned, SlotBuffers
<1>4. SendsOwned /\ RecvsOwned
  BY DEF Init, SendsOwned, RecvsOwned
<1> QED
  BY <1>1, <1>2, <1>3, <1>4 DEF IInv

(* The conjuncts of the invariant, taken together, are inductive. *)
LEMMA NextInvariant == IInv /\ [Next]_vars => IInv'
BY TypeStep, LifeCycleStep, LiveUpdatersStep, PartitionedStep, SendsOwnedStep, RecvsOwnedStep
DEF IInv

(***************************************************************************)
(* In every reachable state each pending message belongs to an operation   *)
(* not waited for, whose object still holds the message's buffer, and each *)
(* buffer is in one place (HaloUpdater, HaloUpdateRequest, Buffer).        *)
(***************************************************************************)
THEOREM Invariant == Spec => []IInv
BY InitInvariant, NextInvariant, PTL DEF Spec

(* A message's slot tells which message it is. *)
LEMMA OneMessagePerSlot ==
  ASSUME IInv
  PROVE  /\ \A m, p \in sends : m.src = p.src /\ SendSlot(m) = SendSlot(p) => m = p
         /\ \A m, p \in recvs : m.dst = p.dst /\ RecvSlot(m) = RecvSlot(p) => m = p
<1>0. /\ sends \subseteq SendMsg /\ recvs \subseteq SendMsg /\ pc \in [Ranks -> Nat]
      /\ LifeCycle /\ SendsOwned /\ RecvsOwned
  BY DEF IInv, TypeOK, RankTypeOK, NetworkTypeOK
<1>1. ASSUME NEW m \in sends, NEW p \in sends, m.src = p.src, SendSlot(m) = SendSlot(p)
      PROVE  m = p
  <2>1. program[m.op].obj = program[p.op].obj /\ m.dst = p.dst
    BY <1>1 DEF SendSlot
  <2>2. m.op = p.op
    <3>1. status[m.src][program[m.op].obj] = "inflight" <=> inflight[m.src][program[m.op].obj] # 0
      BY <1>0, PendingSend DEF LifeCycle
    <3> QED
      BY <1>1, <2>1, <3>1, PendingSend DEF Posted, EarlySends
  <2>3. m.tag = p.tag /\ m.buf = p.buf
    BY <1>0, <1>1, <2>2 DEF SendsOwned, Owned
  <2> QED
    BY <1>0, <1>1, <2>1, <2>2, <2>3 DEF SendMsg
<1>2. ASSUME NEW m \in recvs, NEW p \in recvs, m.dst = p.dst, RecvSlot(m) = RecvSlot(p)
      PROVE  m = p
  <2>1. program[m.op].obj = program[p.op].obj /\ m.src = p.src
    BY <1>2 DEF RecvSlot
  <2>2. m.op = p.op
    <3>1. status[m.dst][program[m.op].obj] = "inflight" <=> inflight[m.dst][program[m.op].obj] # 0
      BY <1>0, PendingRecv DEF LifeCycle
    <3> QED
      BY <1>2, <2>1, <3>1, PendingRecv DEF Posted, EarlyRecvs
  <2>3. m.tag = p.tag /\ m.buf = p.buf
    BY <1>0, <1>2, <2>2 DEF RecvsOwned, Owned
  <2> QED
    BY <1>0, <1>2, <2>1, <2>2, <2>3 DEF SendMsg
<1> QED
  BY <1>1, <1>2

(* Owned messages use buffers in slots, and these are not in the cache. *)
LEMMA HeldFromInvariant == IInv => PendingBuffersHeld
<1> SUFFICES ASSUME IInv PROVE PendingBuffersHeld
  OBVIOUS
<1>0. ASSUME NEW r \in Ranks
      PROVE  /\ cache[r] \cap SlotBuffers(Slots, r) = {}
             /\ \A s, t \in Slots :
                  buffer[r][s] # None /\ buffer[r][s] = buffer[r][t] => s = t
  BY DEF IInv, BuffersPartitioned
<1>1. \A m \in sends : m.buf \notin cache[m.src]
  BY <1>0, PendingSend DEF SlotBuffers
<1>2. \A m \in recvs : m.buf \notin cache[m.dst]
  BY <1>0, PendingRecv DEF SlotBuffers
<1>3. \A m, p \in sends : m.src = p.src /\ m.buf = p.buf => m = p
  BY <1>0, PendingSend, OneMessagePerSlot
<1>4. \A m, p \in recvs : m.dst = p.dst /\ m.buf = p.buf => m = p
  BY <1>0, PendingRecv, OneMessagePerSlot
<1>5. \A m \in sends, p \in recvs : m.src = p.dst => m.buf # p.buf
  <2>1. \A m \in sends, p \in recvs : SendSlot(m) # RecvSlot(p)
    BY DEF SendSlot, RecvSlot
  <2> QED BY <1>0, <2>1, PendingSend, PendingRecv
<1> QED
  BY <1>1, <1>2, <1>3, <1>4, <1>5 DEF PendingBuffersHeld

(* A step writes no buffer that MPI may still read. *)
LEMMA FrozenStep ==
  IInv /\ [Next]_vars =>
    \A m \in sends \cap sends' : memory'[m.src][m.buf] = memory[m.src][m.buf]
<1> SUFFICES ASSUME IInv, [Next]_vars, NEW m \in sends, m \in sends'
             PROVE  memory'[m.src][m.buf] = memory[m.src][m.buf]
  OBVIOUS
<1>0. /\ TypeOK /\ BuffersPartitioned /\ PendingBuffersHeld
      /\ memory \in [Ranks -> [Buffers -> Value]]
      /\ m.src \in Ranks /\ m.buf \in Buffers /\ SendSlot(m) \in Slots
      /\ buffer[m.src][SendSlot(m)] = m.buf /\ m.buf # None
  BY HeldFromInvariant, PendingSend DEF IInv, TypeOK, BufferTypeOK
<1>1. ASSUME NEW r \in Ranks, RankStep(r) PROVE memory'[m.src][m.buf] = memory[m.src][m.buf]
  <2>1. CASE StartSend(r)
    <3> DEFINE u == CurrentOp(r).obj
    <3>1. u \in Updaters /\ u \in Objects /\ status[r][u] = "receiving"
      BY <1>0, <2>1, CurrentOpType DEF StartSend, UpdaterOps, Objects
    <3>2. \A b \in Buffers :
            b \notin {buffer[r][<<u, "send", n>>] : n \in Neighbors[r]} =>
              memory'[r][b] = memory[r][b]
      BY <1>0, <2>1 DEF StartSend
    <3>3. \A q \in Ranks : q # r => memory'[q] = memory[q]
      BY <1>0, <2>1 DEF StartSend
    <3>4. ASSUME m.src = r, NEW n \in Neighbors[r], m.buf = buffer[r][<<u, "send", n>>]
          PROVE  FALSE
      <4>1. <<u, "send", n>> \in Slots
        BY <3>1, SlotTypes
      <4>2. SendSlot(m) = <<u, "send", n>>
        BY <1>0, <3>4, <4>1 DEF BuffersPartitioned
      <4>3. program[m.op].obj = u
        BY <4>2 DEF SendSlot
      <4>4. inflight[r][u] = 0 /\ program[m.op].kind = "start"
        BY <3>1, <4>3, PendingSend DEF IInv, LifeCycle
      <4> QED
        BY <3>4, <4>3, <4>4, PendingSend DEF Posted, EarlySends
    <3> QED
      BY <1>0, <3>2, <3>3, <3>4
  <2>2. CASE SyncIsend(r)
    <3>1. PICK n \in Ranks, b \in Buffers : IsendEffect(r, n, b)
      BY <1>0, <2>2, IsendPops
    <3>2. m.src = r => m.buf # b
      BY <1>0, <3>1 DEF IsendEffect, Pops
    <3> QED
      BY <1>0, <3>1, <3>2 DEF IsendEffect
  <2>3. CASE UNCHANGED memory
    BY <2>3
  <2> QED
    BY <1>1, <2>1, <2>2, <2>3
    DEF RankStep, Compile, Create, StartRecv, StartRaises, Wait, WaitRaises, Raise, Delete,
        SyncIrecv, SyncStarted, SyncSendDone, SyncRecvDone, SyncWaited, Write, bufVars
<1>2. ASSUME NEW p \in recvs, NEW v,
             memory' = [memory EXCEPT ![p.dst][p.buf] = v]
      PROVE  memory'[m.src][m.buf] = memory[m.src][m.buf]
  BY <1>0, <1>2 DEF PendingBuffersHeld
<1>3. CASE UNCHANGED memory
  BY <1>3
<1> QED
  BY <1>1, <1>2, <1>3, StepCases DEF Deliver, DeliverCopy, CopyOut, vars, bufVars

-----------------------------------------------------------------------------
(* The theorems.                                                           *)

(***************************************************************************)
(* No rank ever packs from, unpacks into or posts a buffer it does not     *)
(* hold (HaloUpdater.start and wait, HaloUpdateRequest.wait).              *)
(***************************************************************************)
THEOREM TypeCorrect == Spec => []TypeOK
<1>1. IInv => TypeOK
  BY DEF IInv
<1> QED
  BY <1>1, Invariant, PTL

(***************************************************************************)
(* No buffer goes back to the cache, or serves two messages, while MPI     *)
(* still uses it (HaloUpdater.wait and __del__, HaloUpdateRequest.wait).   *)
(***************************************************************************)
THEOREM NoPendingBufferReused == Spec => []PendingBuffersHeld
BY Invariant, HeldFromInvariant, PTL

(***************************************************************************)
(* A zero-copy send delivers what was packed: no step of any rank or of    *)
(* MPI writes the buffer of a pending send (HaloUpdater.start).            *)
(***************************************************************************)
THEOREM PackedDataIsSent == Spec => SendBuffersFrozen
<1>1. IInv /\ [Next]_vars =>
        [\A m \in sends \cap sends' : memory'[m.src][m.buf] = memory[m.src][m.buf]]_vars
  BY FrozenStep
<1> QED
  BY <1>1, Invariant, PTL DEF Spec, SendBuffersFrozen

(***************************************************************************)
(* Which messages of the halo exchange meet: MPI matches only messages of  *)
(* the same operation.                                                     *)
(***************************************************************************)

(* The inductive invariant.                                                *)

Creations(p, k) == {j \in 1..k : p[j].kind = "create"}

(* The tag of an updater is its place among the updaters the program makes, *)
(* on every rank.                                                          *)
TagsFollowTheProgram ==
  \A r \in Ranks :
    /\ lastTag[r] = Cardinality(Creations(program, pc[r]))
    /\ \A u \in Updaters :
         status[r][u] # "absent" => \E k \in Creations(program, pc[r]) : program[k].obj = u
    /\ \A k \in Creations(program, pc[r]) :
         /\ status[r][program[k].obj] # "absent"
         /\ tag[r][program[k].obj] = Cardinality(Creations(program, k))

AtInterface(r, k) ==
  k = pc[r] + 1 /\ program[k].kind = "sync_start" /\ status[r][program[k].obj] = "absent"

(* A request takes its first buffer when its exchange starts. *)
RequestsStartEmpty ==
  \A r \in Ranks, i \in Requests :
    status[r][i] = "absent" =>
      \/ pc[r] + 1 \in 1..Len(program) /\ AtInterface(r, pc[r] + 1) /\ program[pc[r] + 1].obj = i
      \/ \A dir \in {"send", "recv"}, n \in Ranks : buffer[r][<<i, dir, n>>] = None

(* An updater is between its receives and its sends only inside its start. *)
ReceivesInsideStart ==
  \A r \in Ranks, u \in Objects :
    status[r][u] = "receiving" =>
      /\ pc[r] + 1 \in 1..Len(program)
      /\ program[pc[r] + 1].kind = "start" /\ program[pc[r] + 1].obj = u

(* Operation k brings points of rank s to rank d; each end has posted its  *)
(* message of it, or has it pending.                                       *)
Carries(s, d, k) ==
  \/ program[k].kind = "start" /\ d \in Neighbors[s]
  \/ program[k].kind = "sync_start" /\ d \in SyncTo[s]

SendPosted(s, d, k) ==
  \/ k <= pc[s]
  \/ AtInterface(s, k) /\ buffer[s][<<program[k].obj, "send", d>>] # None

RecvPosted(s, d, k) ==
  \/ k <= pc[d]
  \/ AtInterface(d, k) /\ buffer[d][<<program[k].obj, "recv", s>>] # None
  \/ k = pc[d] + 1 /\ program[k].kind = "start" /\ status[d][program[k].obj] = "receiving"

IsAbout(m, s, d, k) == m.src = s /\ m.dst = d /\ m.op = k

SendOpen(s, d, k) == \E m \in sends \cup sysbuf : IsAbout(m, s, d, k)
RecvOpen(s, d, k) == \E m \in recvs : IsAbout(m, s, d, k)

(* The ends of a channel have completed the same operations. *)
EndsAgree ==
  \A s, d \in Ranks, k \in 1..Len(program) :
    Carries(s, d, k) =>
      ((SendPosted(s, d, k) /\ ~SendOpen(s, d, k)) <=> (RecvPosted(s, d, k) /\ ~RecvOpen(s, d, k)))

MessagesCarried ==
  /\ \A m \in sends \cup sysbuf :
       /\ m.op \in 1..Len(program) /\ m.tag = TagOf(m.src, m.op)
       /\ Carries(m.src, m.dst, m.op) /\ SendPosted(m.src, m.dst, m.op)
       /\ program[m.op].kind = "start" => status[m.src][program[m.op].obj] # "absent"
  /\ \A m \in recvs :
       /\ Carries(m.src, m.dst, m.op) /\ RecvPosted(m.src, m.dst, m.op)
       /\ program[m.op].kind = "start" => status[m.dst][program[m.op].obj] # "absent"

(* No operation has two messages on a channel. *)
OneMessageEach ==
  \A m, p \in sends \cup sysbuf : IsAbout(m, p.src, p.dst, p.op) => m = p

MInv ==
  /\ IInv
  /\ TagsFollowTheProgram
  /\ RequestsStartEmpty
  /\ ReceivesInsideStart
  /\ EndsAgree
  /\ MessagesCarried
  /\ OneMessageEach

-----------------------------------------------------------------------------
(* What a step of a rank changes.                                          *)

States == {"absent", "idle", "receiving", "inflight", "finalized", "deleted"}

(* The types that the steps below rest on. *)
LEMMA Typed ==
  ASSUME TypeOK
  PROVE  /\ program \in Seq(Op) /\ Len(program) \in Nat
         /\ pc \in [Ranks -> Nat] /\ lastTag \in [Ranks -> Nat]
         /\ status \in [Ranks -> [Objects -> States]]
         /\ tag \in [Ranks -> [Updaters -> Nat]]
         /\ inflight \in [Ranks -> [Objects -> Nat]]
         /\ buffer \in [Ranks -> [Slots -> Buffers \cup {None}]]
         /\ Updaters \subseteq Objects /\ Requests \subseteq Objects
         /\ Updaters \cap Requests = {}
<1>1. program \in Seq(Op) /\ Len(program) \in Nat
  BY DEF TypeOK, RankTypeOK
<1>2. /\ pc \in [Ranks -> Nat] /\ lastTag \in [Ranks -> Nat]
      /\ status \in [Ranks -> [Objects -> States]]
      /\ tag \in [Ranks -> [Updaters -> Nat]]
      /\ inflight \in [Ranks -> [Objects -> Nat]]
  BY DEF TypeOK, RankTypeOK, States
<1>3. buffer \in [Ranks -> [Slots -> Buffers \cup {None}]]
  BY DEF TypeOK, BufferTypeOK
<1>4. Updaters \subseteq Objects /\ Requests \subseteq Objects /\ Updaters \cap Requests = {}
  BY ObjectsAssumption DEF Objects
<1> QED
  BY <1>1, <1>2, <1>3, <1>4

(* What operation k is about. *)
LEMMA ProgramOps ==
  ASSUME TypeOK, NEW k \in 1..Len(program)
  PROVE  /\ k \in Nat /\ program[k] \in Op /\ program[k].field \in Fields
         /\ program[k].kind \in UpdaterOps => program[k].obj \in Updaters
         /\ program[k].kind \in RequestOps => program[k].obj \in Requests
<1>1. k \in Nat /\ program[k] \in Op
  BY Typed
<1> QED
  BY <1>1, OpTypes

(* A rank stays at its operation, or it finished it. *)
Stays(r) == pc' = pc

Moves(r) == pc' = [pc EXCEPT ![r] = pc[r] + 1]

(* A step of a rank is a step of the operation it has come to. *)
LEMMA RankMoves ==
  ASSUME TypeOK, NEW r \in Ranks, RankStep(r)
  PROVE  /\ program' = program
         /\ Stays(r) \/ Moves(r)
         /\ ~Create(r) => lastTag' = lastTag /\ tag' = tag
         /\ Running(r) /\ pc[r] + 1 \in 1..Len(program)
         /\ CurrentOp(r) = program[pc[r] + 1]
<1>1. ASSUME NEW kind, Executes(r, kind)
      PROVE  Running(r) /\ pc[r] + 1 \in 1..Len(program) /\ CurrentOp(r) = program[pc[r] + 1]
  BY <1>1, CurrentOpType DEF Executes
<1>2. Running(r) /\ pc[r] + 1 \in 1..Len(program) /\ CurrentOp(r) = program[pc[r] + 1]
  BY <1>1 DEF RankStep, Compile, Create, StartRecv, StartSend, StartRaises, Wait, WaitRaises,
     Delete, SyncIsend, SyncIrecv, SyncStarted, SyncSendDone, SyncRecvDone, SyncWaited, Write
<1>3. program' = program
  BY DEF RankStep, Compile, Create, StartRecv, StartSend, StartRaises, Wait, WaitRaises,
     Delete, SyncIsend, SyncIrecv, SyncStarted, SyncSendDone, SyncRecvDone, SyncWaited, Write,
     Raise, rankVars
<1>4. ~Create(r) => lastTag' = lastTag /\ tag' = tag
  BY DEF RankStep, Compile, StartRecv, StartSend, StartRaises, Wait, WaitRaises,
     Delete, SyncIsend, SyncIrecv, SyncStarted, SyncSendDone, SyncRecvDone, SyncWaited, Write,
     Raise, rankVars
<1>5. Stays(r) \/ pc' = [pc EXCEPT ![r] = @ + 1]
  BY DEF RankStep, Compile, Create, StartRecv, StartSend, StartRaises, Wait, WaitRaises,
     Delete, SyncIsend, SyncIrecv, SyncStarted, SyncSendDone, SyncRecvDone, SyncWaited, Write,
     Stays, Advance, Raise, rankVars
<1> QED
  BY <1>2, <1>3, <1>4, <1>5 DEF Moves

(* What a step does to the states of the objects: those of its own object  *)
(* only, and only create and sync_start make an object.                    *)
LEMMA StatusMoves ==
  ASSUME TypeOK, NEW r \in Ranks, RankStep(r), NEW q \in Ranks, NEW x \in Objects
  PROVE  /\ q # r \/ x # CurrentOp(r).obj => status'[q][x] = status[q][x]
         /\ status[q][x] # "absent" => status'[q][x] # "absent"
         /\ q # r \/ ~(Create(r) \/ SyncStarted(r)) =>
              (status[q][x] = "absent" => status'[q][x] = "absent")
<1>1. /\ status \in [Ranks -> [Objects -> States]]
  BY Typed
<1>2. CASE status' = status
  BY <1>2
<1>3. CASE \E v \in States \ {"absent"} : status' = [status EXCEPT ![r][CurrentOp(r).obj] = v]
  <2>1. PICK v \in States \ {"absent"} : status' = [status EXCEPT ![r][CurrentOp(r).obj] = v]
    BY <1>3
  <2>2. /\ q # r \/ x # CurrentOp(r).obj => status'[q][x] = status[q][x]
        /\ q = r /\ x = CurrentOp(r).obj => status'[q][x] = v
    BY <1>1, <2>1
  <2>3. status[r][CurrentOp(r).obj] = "absent" /\ ~(Create(r) \/ SyncStarted(r)) => status' = status
    BY DEF RankStep, Compile, StartRecv, StartSend, StartRaises, Wait, WaitRaises,
     Delete, SyncIsend, SyncIrecv, SyncSendDone, SyncRecvDone, SyncWaited, Write,
     Raise, rankVars
  <2> QED
    BY <2>1, <2>2, <2>3
<1>4. \/ status' = status
      \/ \E v \in States \ {"absent"} : status' = [status EXCEPT ![r][CurrentOp(r).obj] = v]
  BY DEF RankStep, Compile, Create, StartRecv, StartSend, StartRaises, Wait, WaitRaises,
     Delete, SyncIsend, SyncIrecv, SyncStarted, SyncSendDone, SyncRecvDone, SyncWaited, Write,
     Raise, rankVars, States
<1> QED
  BY <1>2, <1>3, <1>4

-----------------------------------------------------------------------------
(* Tags.                                                                   *)

(* A create adds one to the updaters made, every other operation nothing. *)
LEMMA CreationsGrow ==
  ASSUME NEW k \in Nat
  PROVE  /\ IsFiniteSet(Creations(program, k)) /\ Cardinality(Creations(program, k)) \in Nat
         /\ program[k + 1].kind = "create" =>
              /\ Creations(program, k + 1) = Creations(program, k) \cup {k + 1}
              /\ Cardinality(Creations(program, k + 1)) = Cardinality(Creations(program, k)) + 1
         /\ program[k + 1].kind # "create" => Creations(program, k + 1) = Creations(program, k)
<1>1. IsFiniteSet(1..k)
  BY FS_Interval
<1>2. IsFiniteSet(Creations(program, k))
  BY <1>1, FS_Subset DEF Creations
<1>3. 1..(k + 1) = (1..k) \cup {k + 1} /\ k + 1 \notin Creations(program, k)
  BY DEF Creations
<1>4. ASSUME program[k + 1].kind = "create" PROVE Creations(program, k + 1) = Creations(program, k) \cup {k + 1}
  BY <1>3, <1>4 DEF Creations
<1>5. ASSUME program[k + 1].kind # "create" PROVE Creations(program, k + 1) = Creations(program, k)
  BY <1>3, <1>5 DEF Creations
<1>6. Cardinality(Creations(program, k) \cup {k + 1}) = Cardinality(Creations(program, k)) + 1
  BY <1>2, <1>3, FS_AddElement
<1> QED
  BY <1>2, <1>4, <1>5, <1>6, FS_CardinalityType

(* Two ranks that have both made an updater gave it the same tag. *)
LEMMA TagsAgree ==
  ASSUME TypeOK, TagsFollowTheProgram, NEW r \in Ranks, NEW s \in Ranks, NEW u \in Updaters,
         status[r][u] # "absent", status[s][u] # "absent"
  PROVE  tag[r][u] = tag[s][u]
<1>0. pc[r] \in Nat /\ pc[s] \in Nat
  BY Typed
<1>1. PICK k \in Creations(program, pc[r]) : program[k].obj = u
  BY DEF TagsFollowTheProgram
<1>2. PICK j \in Creations(program, pc[s]) : program[j].obj = u
  BY DEF TagsFollowTheProgram
<1>3. tag[r][u] = Cardinality(Creations(program, k)) /\ tag[s][u] = Cardinality(Creations(program, j))
  BY <1>1, <1>2 DEF TagsFollowTheProgram
<1>4. CASE pc[r] <= pc[s]
  <2>1. k \in Creations(program, pc[s])
    BY <1>0, <1>4 DEF Creations
  <2> QED BY <1>1, <1>3, <2>1 DEF TagsFollowTheProgram
<1>5. CASE pc[s] <= pc[r]
  <2>1. j \in Creations(program, pc[r])
    BY <1>0, <1>5 DEF Creations
  <2> QED BY <1>2, <1>3, <2>1 DEF TagsFollowTheProgram
<1> QED
  BY <1>0, <1>4, <1>5

(* The tag of a newly made updater is one more than the last. *)
LEMMA TagsRankStep ==
  ASSUME TypeOK, TagsFollowTheProgram, NEW r \in Ranks, RankStep(r)
  PROVE  TagsFollowTheProgram'
<1> DEFINE u == CurrentOp(r).obj
           k == pc[r] + 1
<1>0. /\ program' = program /\ (Stays(r) \/ Moves(r)) /\ k \in 1..Len(program)
      /\ CurrentOp(r) = program[k]
      /\ pc \in [Ranks -> Nat] /\ lastTag \in [Ranks -> Nat]
      /\ status \in [Ranks -> [Objects -> States]]
      /\ tag \in [Ranks -> [Updaters -> Nat]]
      /\ Updaters \subseteq Objects /\ Updaters \cap Requests = {}
  BY RankMoves, Typed
<1>1. CASE Create(r)
  <2>1. /\ program[k].kind = "create" /\ u \in Updaters /\ status[r][u] = "absent"
        /\ lastTag' = [lastTag EXCEPT ![r] = @ + 1]
        /\ tag' = [tag EXCEPT ![r][u] = lastTag[r] + 1]
        /\ status' = [status EXCEPT ![r][u] = "idle"]
        /\ pc' = [pc EXCEPT ![r] = @ + 1]
    BY <1>0, <1>1, CurrentOpType DEF Create, Executes, Advance, UpdaterOps
  <2> SUFFICES ASSUME NEW q \in Ranks
      PROVE  /\ lastTag'[q] = Cardinality(Creations(program, pc'[q]))
             /\ \A x \in Updaters :
                  status'[q][x] # "absent" => \E j \in Creations(program, pc'[q]) : program[j].obj = x
             /\ \A j \in Creations(program, pc'[q]) :
                  /\ status'[q][program[j].obj] # "absent"
                  /\ tag'[q][program[j].obj] = Cardinality(Creations(program, j))
    BY <1>0 DEF TagsFollowTheProgram
  <2>2. /\ lastTag[q] = Cardinality(Creations(program, pc[q]))
        /\ \A x \in Updaters :
             status[q][x] # "absent" => \E j \in Creations(program, pc[q]) : program[j].obj = x
        /\ \A j \in Creations(program, pc[q]) :
             /\ status[q][program[j].obj] # "absent"
             /\ tag[q][program[j].obj] = Cardinality(Creations(program, j))
    BY DEF TagsFollowTheProgram
  <2>3. CASE q # r
    BY <1>0, <2>1, <2>2, <2>3
  <2>4. CASE q = r
    <3>1. /\ pc'[r] = k /\ pc[r] \in Nat /\ lastTag'[r] = lastTag[r] + 1
          /\ tag'[r][u] = lastTag[r] + 1 /\ status'[r][u] = "idle"
          /\ \A x \in Updaters : x # u => tag'[r][x] = tag[r][x] /\ status'[r][x] = status[r][x]
      BY <1>0, <2>1
    <3>2. /\ Creations(program, k) = Creations(program, pc[r]) \cup {k}
          /\ Cardinality(Creations(program, k)) = Cardinality(Creations(program, pc[r])) + 1
      BY <2>1, <3>1, CreationsGrow
    <3>3. ASSUME NEW j \in Creations(program, pc[r])
          PROVE  program[j].obj \in Updaters /\ program[j].obj # u
      <4>1. j \in 1..Len(program) /\ program[j].kind = "create"
        BY <1>0, <3>1 DEF Creations
      <4> QED BY <2>1, <2>2, <2>4, <4>1, ProgramOps DEF UpdaterOps
    <3>4. u = program[k].obj
      BY <1>0
    <3> HIDE DEF u, k
    <3>5. lastTag'[q] = Cardinality(Creations(program, pc'[q]))
      BY <2>2, <2>4, <3>1, <3>2
    <3>6. ASSUME NEW x \in Updaters, status'[q][x] # "absent"
          PROVE  \E j \in Creations(program, pc'[q]) : program[j].obj = x
      BY <2>2, <2>4, <3>1, <3>2, <3>4, <3>6
    <3>7. ASSUME NEW j \in Creations(program, pc'[q])
          PROVE  /\ status'[q][program[j].obj] # "absent"
                 /\ tag'[q][program[j].obj] = Cardinality(Creations(program, j))
      <4>1. CASE j = k
        BY <2>2, <2>4, <3>1, <3>2, <3>4, <4>1
      <4>2. CASE j # k
        BY <2>2, <2>4, <3>1, <3>2, <3>3, <4>2
      <4> QED BY <4>1, <4>2
    <3> QED BY <3>5, <3>6, <3>7
  <2> QED BY <2>3, <2>4
<1>2. CASE ~Create(r)
  <2>1. lastTag' = lastTag /\ tag' = tag
    BY <1>2, RankMoves
  <2>2. ASSUME Moves(r) PROVE program[k].kind # "create"
    <3>1. CASE program[k].kind = "create"
      <4>1. Stays(r)
        BY <1>0, <1>2, <3>1
        DEF RankStep, Compile, StartRecv, StartSend, StartRaises, Wait, WaitRaises,
     Delete, SyncIsend, SyncIrecv, SyncStarted, SyncSendDone, SyncRecvDone, SyncWaited, Write,
     Raise, rankVars, Executes, Stays
      <4> QED BY <1>0, <2>2, <4>1 DEF Stays, Moves
    <3> QED BY <3>1
  <2> SUFFICES ASSUME NEW q \in Ranks
      PROVE  /\ lastTag'[q] = Cardinality(Creations(program, pc'[q]))
             /\ \A x \in Updaters :
                  status'[q][x] # "absent" => \E j \in Creations(program, pc'[q]) : program[j].obj = x
             /\ \A j \in Creations(program, pc'[q]) :
                  /\ status'[q][program[j].obj] # "absent"
                  /\ tag'[q][program[j].obj] = Cardinality(Creations(program, j))
    BY <1>0 DEF TagsFollowTheProgram
  <2>3. /\ lastTag[q] = Cardinality(Creations(program, pc[q]))
        /\ \A x \in Updaters :
             status[q][x] # "absent" => \E j \in Creations(program, pc[q]) : program[j].obj = x
        /\ \A j \in Creations(program, pc[q]) :
             /\ status[q][program[j].obj] # "absent"
             /\ tag[q][program[j].obj] = Cardinality(Creations(program, j))
    BY DEF TagsFollowTheProgram
  <2>4. Creations(program, pc'[q]) = Creations(program, pc[q])
    <3>1. CASE Stays(r) \/ q # r
      BY <1>0, <3>1 DEF Stays, Moves
    <3>2. CASE Moves(r) /\ q = r
      <4>1. pc'[q] = pc[r] + 1 /\ pc[r] \in Nat
        BY <1>0, <3>2 DEF Moves
      <4> QED BY <2>2, <3>2, <4>1, CreationsGrow
    <3> QED BY <1>0, <3>1, <3>2
  <2>5. ASSUME NEW x \in Updaters, status'[q][x] # "absent" PROVE status[q][x] # "absent"
    <3>1. CASE SyncStarted(r) /\ q = r
      <4>1. u \in Requests
        BY <3>1, CurrentOpType DEF SyncStarted, RequestOps
      <4>2. x # u
        BY <1>0, <4>1
      <4> QED BY <1>0, <2>5, <4>2, StatusMoves
    <3> QED BY <1>0, <1>2, <2>5, <3>1, StatusMoves
  <2>6. ASSUME NEW j \in Creations(program, pc[q]) PROVE status'[q][program[j].obj] # "absent"
    <3>1. j \in 1..Len(program) /\ program[j].kind = "create"
      BY <1>0, Typed DEF Creations, TypeOK, RankTypeOK
    <3>2. program[j].obj \in Objects
      BY <1>0, <3>1, ProgramOps DEF UpdaterOps
    <3> QED BY <2>3, <3>2, StatusMoves
  <2> QED BY <2>1, <2>3, <2>4, <2>5, <2>6
<1> QED
  BY <1>1, <1>2

-----------------------------------------------------------------------------
(* Buffers of the objects.                                                 *)

(* A step touches only the slots of the object its operation is about. *)
LEMMA OwnSlots ==
  ASSUME TypeOK, NEW r \in Ranks, RankStep(r), NEW q \in Ranks, NEW s \in Slots,
         q # r \/ s[1] # CurrentOp(r).obj
  PROVE  buffer'[q][s] = buffer[q][s]
<1> DEFINE o == CurrentOp(r).obj
<1>0. /\ buffer \in [Ranks -> [Slots -> Buffers \cup {None}]]
      /\ CurrentOp(r) = program[pc[r] + 1] /\ pc[r] + 1 \in 1..Len(program)
  BY Typed, RankMoves
<1>1. CASE buffer' = buffer
  BY <1>1
<1>2. ASSUME NEW t \in Slots, t[1] = o, PopFromCache(r, t)
      PROVE  buffer'[q][s] = buffer[q][s]
  <2>1. \E b : buffer' = [buffer EXCEPT ![r][t] = b]
    BY <1>2 DEF PopFromCache
  <2> QED BY <1>0, <1>2, <2>1
<1>3. ASSUME NEW slots \in SUBSET Slots, \A t \in slots : t[1] = o, Drop(r, slots)
      PROVE  buffer'[q][s] = buffer[q][s]
  BY <1>3, DropEffect
<1>4. CASE Compile(r)
  <2> DEFINE t == CHOOSE x \in MissingSlots(r) : TRUE
  <2>1. o \in Objects
    BY <1>4, CurrentOpType, Typed DEF Compile, UpdaterOps
  <2>2. t \in UpdaterSlots(o, r) /\ PopFromCache(r, t)
    BY <1>4 DEF Compile, MissingSlots
  <2>3. t \in Slots /\ t[1] = o
    BY <2>1, <2>2, SlotTypes DEF UpdaterSlots
  <2> QED BY <1>2, <2>2, <2>3
<1>5. CASE Wait(r) \/ Delete(r)
  <2>1. o \in Objects
    BY <1>5, CurrentOpType, Typed DEF Wait, Delete, UpdaterOps
  <2>2. buffer' = buffer \/ Drop(r, UpdaterSlots(o, r))
    BY <1>5 DEF Wait, Delete, PushToCache
  <2>3. UpdaterSlots(o, r) \in SUBSET Slots /\ \A t \in UpdaterSlots(o, r) : t[1] = o
    BY <2>1, SlotTypes DEF UpdaterSlots
  <2> QED BY <1>1, <1>3, <2>2, <2>3
<1>6. CASE SyncIsend(r) \/ SyncIrecv(r)
  <2> DEFINE n == CHOOSE m \in Unposted(r, o, "send", SyncTo[r]) : TRUE
             p == CHOOSE m \in Unposted(r, o, "recv", SyncFrom[r]) : TRUE
  <2>1. o \in Objects
    BY <1>6, CurrentOpType, Typed DEF SyncIsend, SyncIrecv, RequestOps
  <2>2. \/ n \in SyncTo[r] /\ PopFromCache(r, <<o, "send", n>>)
        \/ p \in SyncFrom[r] /\ PopFromCache(r, <<o, "recv", p>>)
    BY <1>6 DEF SyncIsend, SyncIrecv, Unposted
  <2> HIDE DEF n, p
  <2> QED
    BY <1>2, <2>1, <2>2, SlotTypes, BoundariesAssumption
<1>7. CASE SyncSendDone(r) \/ SyncRecvDone(r)
  <2>1. o \in Objects
    BY <1>7, CurrentOpType, Typed DEF SyncSendDone, SyncRecvDone, RequestOps
  <2>2. PICK n \in Ranks : \/ PushToCache(r, {<<o, "send", n>>})
                           \/ PushToCache(r, {<<o, "recv", n>>})
    BY <1>7, BoundariesAssumption DEF SyncSendDone, SyncRecvDone
  <2>3. /\ {<<o, "send", n>>} \in SUBSET Slots /\ {<<o, "recv", n>>} \in SUBSET Slots
    BY <2>1, SlotTypes
  <2> QED BY <1>3, <2>2, <2>3 DEF PushToCache
<1> QED
  BY <1>1, <1>4, <1>5, <1>6, <1>7
  DEF RankStep, Create, StartRecv, StartSend, StartRaises, WaitRaises, Raise,
      SyncStarted, Write, bufVars, SyncWaited

(* Before a request has started, only its start does anything with it. *)
LEMMA AbsentRequest ==
  ASSUME TypeOK, NEW r \in Ranks, RankStep(r),
         CurrentOp(r).obj \in Requests, status[r][CurrentOp(r).obj] = "absent"
  PROVE  \/ AtInterface(r, pc[r] + 1) /\ (SyncIsend(r) \/ SyncIrecv(r) \/ SyncStarted(r))
         \/ Write(r)
<1>1. CurrentOp(r) = program[pc[r] + 1] /\ Updaters \cap Requests = {}
  BY RankMoves, Typed
<1>2. ~Executes(r, "create") /\ ~Executes(r, "start") /\ ~Executes(r, "wait") /\ ~Executes(r, "delete")
  BY <1>1, CurrentOpType DEF UpdaterOps
<1>3. SyncIsend(r) \/ SyncIrecv(r) \/ SyncStarted(r) \/ Write(r)
  BY <1>2 DEF RankStep, Compile, Create, StartRecv, StartSend, StartRaises, Wait, WaitRaises,
     Delete, SyncSendDone, SyncRecvDone, SyncWaited
<1>4. SyncIsend(r) \/ SyncIrecv(r) \/ SyncStarted(r) => AtInterface(r, pc[r] + 1)
  BY <1>1 DEF SyncIsend, SyncIrecv, SyncStarted, Executes, AtInterface
<1> QED BY <1>3, <1>4

(* A request has no buffers until the rank comes to its start. *)
LEMMA RequestsStartEmptyStep ==
  ASSUME TypeOK, RequestsStartEmpty, NEW r \in Ranks, RankStep(r)
  PROVE  RequestsStartEmpty'
<1> DEFINE k == pc[r] + 1
           o == CurrentOp(r).obj
<1>0. /\ program' = program /\ (Stays(r) \/ Moves(r)) /\ k \in 1..Len(program)
      /\ CurrentOp(r) = program[k] /\ pc \in [Ranks -> Nat]
      /\ Requests \subseteq Objects
  BY RankMoves, Typed
<1> SUFFICES ASSUME NEW q \in Ranks, NEW i \in Requests, status'[q][i] = "absent"
             PROVE  \/ /\ pc'[q] + 1 \in 1..Len(program') /\ AtInterface(q, pc[q] + 1)'
                       /\ program'[pc'[q] + 1].obj = i
                    \/ \A dir \in {"send", "recv"}, n \in Ranks : buffer'[q][<<i, dir, n>>] = None
  BY DEF RequestsStartEmpty
<1>1. i \in Objects /\ status[q][i] = "absent"
  BY <1>0, StatusMoves
<1>2. \A dir \in {"send", "recv"}, n \in Ranks : <<i, dir, n>> \in Slots
  BY <1>1, SlotTypes
<1>3. CASE q # r
  <2>1. pc'[q] = pc[q] /\ status'[q][i] = status[q][i]
    BY <1>0, <1>1, <1>3, StatusMoves DEF Stays, Moves
  <2>2. \A dir \in {"send", "recv"}, n \in Ranks :
          buffer'[q][<<i, dir, n>>] = buffer[q][<<i, dir, n>>]
    BY <1>2, <1>3, OwnSlots
  <2> QED BY <1>0, <1>1, <2>1, <2>2, SMTT(30) DEF RequestsStartEmpty, AtInterface
<1>4. CASE q = r /\ i = o
  <2>1. CASE AtInterface(r, k) /\ (SyncIsend(r) \/ SyncIrecv(r) \/ SyncStarted(r))
    <3>1. CASE SyncIsend(r) \/ SyncIrecv(r)
      <4>1. pc' = pc /\ status' = status
        BY <3>1 DEF SyncIsend, SyncIrecv, rankVars
      <4> QED BY <1>0, <1>4, <2>1, <4>1 DEF AtInterface
    <3>2. CASE SyncStarted(r)
      <4>1. status' = [status EXCEPT ![r][o] = "inflight"]
        BY <3>2 DEF SyncStarted
      <4> QED BY <1>1, <1>4, <4>1, Typed
    <3> QED BY <2>1, <3>1, <3>2
  <2>2. CASE Write(r)
    <3>1. buffer' = buffer /\ CurrentOp(r).kind = "write"
      BY <2>2 DEF Write, bufVars, Executes
    <3> QED BY <1>0, <1>1, <1>4, <3>1 DEF RequestsStartEmpty, AtInterface
  <2> QED BY <1>1, <1>4, <2>1, <2>2, AbsentRequest
<1>5. CASE q = r /\ i # o
  <2>1. \A dir \in {"send", "recv"}, n \in Ranks :
          buffer'[q][<<i, dir, n>>] = buffer[q][<<i, dir, n>>]
    BY <1>2, <1>5, OwnSlots
  <2> QED BY <1>0, <1>1, <1>5, <2>1, SMTT(30) DEF RequestsStartEmpty
<1> QED
  BY <1>3, <1>4, <1>5

-----------------------------------------------------------------------------
(* Which messages are posted.                                              *)

(* A start that has posted its receives goes on to post its sends. *)
LEMMA ReceivesInsideStartStep ==
  ASSUME TypeOK, ReceivesInsideStart, NEW r \in Ranks, RankStep(r)
  PROVE  ReceivesInsideStart'
<1> DEFINE k == pc[r] + 1
           o == CurrentOp(r).obj
<1>0. /\ program' = program /\ (Stays(r) \/ Moves(r)) /\ k \in 1..Len(program)
      /\ CurrentOp(r) = program[k] /\ pc \in [Ranks -> Nat]
      /\ status \in [Ranks -> [Objects -> States]]
  BY RankMoves, Typed
<1> SUFFICES ASSUME NEW q \in Ranks, NEW u \in Objects, status'[q][u] = "receiving"
             PROVE  /\ pc'[q] + 1 \in 1..Len(program)
                    /\ program[pc'[q] + 1].kind = "start" /\ program[pc'[q] + 1].obj = u
  BY <1>0 DEF ReceivesInsideStart
<1>1. CASE q # r
  <2>1. pc'[q] = pc[q] /\ status'[q][u] = status[q][u]
    BY <1>0, <1>1, StatusMoves DEF Stays, Moves
  <2> QED BY <2>1 DEF ReceivesInsideStart
<1>2. CASE q = r /\ StartRecv(r)
  <2>1. pc' = pc /\ status' = [status EXCEPT ![r][o] = "receiving"] /\ program[k].kind = "start"
    BY <1>0, <1>2 DEF StartRecv, Executes
  <2> QED BY <1>0, <1>2, <2>1 DEF ReceivesInsideStart
<1>3. CASE q = r /\ ~StartRecv(r)
  <2>1. ~StartSend(r) /\ status[r][u] = "receiving"
    <3>1. \A x \in Objects : StartSend(r) /\ status'[r][x] = "receiving" => status[r][x] = "receiving" /\ x # o
      BY <1>0 DEF StartSend
    <3>2. \/ status' = status
          \/ \E v \in States \ {"receiving"} : status' = [status EXCEPT ![r][o] = v]
      BY <1>3
      DEF RankStep, Compile, Create, StartSend, StartRaises, Wait, WaitRaises,
          Delete, SyncIsend, SyncIrecv, SyncStarted, SyncSendDone, SyncRecvDone, SyncWaited, Write,
          Raise, rankVars, States
    <3>3. status[r][u] = "receiving"
      BY <1>0, <1>3, <3>2
    <3> QED BY <1>0, <1>3, <3>1, <3>3 DEF ReceivesInsideStart
  <2>2. k \in 1..Len(program) /\ program[k].kind = "start" /\ program[k].obj = u
    BY <2>1 DEF ReceivesInsideStart
  <2>3. pc' = pc
    BY <1>0, <1>3, <2>1, <2>2
    DEF RankStep, Compile, Create, StartRaises, Wait, WaitRaises,
        Delete, SyncIsend, SyncIrecv, SyncStarted, SyncSendDone, SyncRecvDone, SyncWaited, Write,
        Raise, rankVars, Executes
  <2> QED BY <1>0, <1>3, <2>2, <2>3
<1> QED
  BY <1>1, <1>2, <1>3

(* What a rank can do while its next operation is of a kind. *)
LEMMA StepExecutes ==
  ASSUME NEW r \in Ranks
  PROVE  /\ Compile(r) \/ Create(r) => Executes(r, "create")
         /\ StartRecv(r) \/ StartSend(r) \/ StartRaises(r) => Executes(r, "start")
         /\ Wait(r) \/ WaitRaises(r) => Executes(r, "wait")
         /\ Delete(r) => Executes(r, "delete")
         /\ SyncIsend(r) \/ SyncIrecv(r) \/ SyncStarted(r) => Executes(r, "sync_start")
         /\ SyncSendDone(r) \/ SyncRecvDone(r) \/ SyncWaited(r) => Executes(r, "sync_wait")
         /\ Write(r) => Executes(r, "write")
<1>1. Compile(r) \/ Create(r) => Executes(r, "create")
  BY DEF Compile, Create
<1>2. StartRecv(r) \/ StartSend(r) \/ StartRaises(r) => Executes(r, "start")
  BY DEF StartRecv, StartSend, StartRaises
<1>3. Wait(r) \/ WaitRaises(r) => Executes(r, "wait")
  BY DEF Wait, WaitRaises
<1>4. Delete(r) => Executes(r, "delete")
  BY DEF Delete
<1>5. SyncIsend(r) \/ SyncIrecv(r) \/ SyncStarted(r) => Executes(r, "sync_start")
  BY DEF SyncIsend, SyncIrecv, SyncStarted
<1>6. SyncSendDone(r) \/ SyncRecvDone(r) \/ SyncWaited(r) => Executes(r, "sync_wait")
  BY DEF SyncSendDone, SyncRecvDone, SyncWaited
<1>7. Write(r) => Executes(r, "write")
  BY DEF Write
<1> QED BY <1>1, <1>2, <1>3, <1>4, <1>5, <1>6, <1>7

(* A step at the start of an updater or of an interface exchange. *)
LEMMA StepAtStart ==
  ASSUME TypeOK, NEW r \in Ranks, RankStep(r)
  PROVE  /\ program[pc[r] + 1].kind = "start" =>
              StartRecv(r) \/ StartSend(r) \/ StartRaises(r)
         /\ program[pc[r] + 1].kind = "sync_start" =>
              /\ AtInterface(r, pc[r] + 1)
              /\ SyncIsend(r) \/ SyncIrecv(r) \/ SyncStarted(r)
<1>0. CurrentOp(r) = program[pc[r] + 1]
  BY RankMoves
<1>1. ASSUME NEW kind, program[pc[r] + 1].kind = kind, NEW other, Executes(r, other)
      PROVE  kind = other
  BY <1>0, <1>1 DEF Executes
<1>2. program[pc[r] + 1].kind = "start" => StartRecv(r) \/ StartSend(r) \/ StartRaises(r)
  BY <1>1, StepExecutes DEF RankStep
<1>3. program[pc[r] + 1].kind = "sync_start" => SyncIsend(r) \/ SyncIrecv(r) \/ SyncStarted(r)
  BY <1>1, StepExecutes DEF RankStep
<1>4. SyncIsend(r) \/ SyncIrecv(r) \/ SyncStarted(r) => AtInterface(r, pc[r] + 1)
  BY <1>0 DEF SyncIsend, SyncIrecv, SyncStarted, Executes, AtInterface
<1> QED BY <1>2, <1>3, <1>4

(* An operation that is not the next one gets no buffer of a request. *)
LEMMA LaterRequestEmpty ==
  ASSUME TypeOK, RequestsStartEmpty, NEW r \in Ranks, RankStep(r), Moves(r),
         NEW k \in 1..Len(program), k = pc[r] + 2,
         program[k].kind = "sync_start", status'[r][program[k].obj] = "absent"
  PROVE  \A dir \in {"send", "recv"}, n \in Ranks :
           buffer'[r][<<program[k].obj, dir, n>>] = None
<1> DEFINE i == program[k].obj
<1>0. /\ program' = program /\ CurrentOp(r) = program[pc[r] + 1] /\ pc \in [Ranks -> Nat]
      /\ i \in Requests /\ i \in Objects
      /\ status \in [Ranks -> [Objects -> States]]
  BY RankMoves, Typed, ProgramOps DEF RequestOps
<1>1. status[r][i] = "absent"
  BY <1>0, StatusMoves
<1>2. pc[r] + 1 # k /\ pc'[r] = pc[r] + 1
  BY <1>0 DEF Moves
<1>3. ASSUME AtInterface(r, pc[r] + 1), program[pc[r] + 1].obj = i PROVE FALSE
  <2>0. pc' # pc /\ program[pc[r] + 1].kind = "sync_start"
    BY <1>0, <1>2, <1>3 DEF AtInterface
  <2>1. SyncStarted(r)
    BY <2>0, StepAtStart DEF SyncIsend, SyncIrecv, rankVars
  <2> QED BY <1>0, <1>3, <2>1 DEF SyncStarted
<1>4. \A dir \in {"send", "recv"}, n \in Ranks : buffer[r][<<i, dir, n>>] = None
  BY <1>0, <1>1, <1>3 DEF RequestsStartEmpty
<1>5. CASE CurrentOp(r).obj = i
  <2>1. Write(r)
    BY <1>0, <1>1, <1>3, <1>5, AbsentRequest
  <2> QED BY <1>4, <2>1 DEF Write, bufVars
<1>6. CASE CurrentOp(r).obj # i
  <2>1. \A dir \in {"send", "recv"}, n \in Ranks : <<i, dir, n>> \in Slots
    BY <1>0, SlotTypes
  <2>2. \A dir \in {"send", "recv"}, n \in Ranks :
          buffer'[r][<<i, dir, n>>] = buffer[r][<<i, dir, n>>]
    BY <1>6, <2>1, OwnSlots
  <2> QED BY <1>4, <2>2
<1> QED BY <1>5, <1>6

(* Posted messages stay posted, and what is newly posted is pending. *)
LEMMA SendPostedStep ==
  ASSUME IInv, RequestsStartEmpty, NEW r \in Ranks, RankStep(r),
         NEW s \in Ranks, NEW d \in Ranks, NEW k \in 1..Len(program), Carries(s, d, k)
  PROVE  /\ SendPosted(s, d, k) => SendPosted(s, d, k)'
         /\ SendPosted(s, d, k)' /\ ~SendPosted(s, d, k) => \E m \in sends' : IsAbout(m, s, d, k)
<1> DEFINE o == program[k].obj
           slot == <<o, "send", d>>
<1>0. /\ TypeOK /\ BuffersPartitioned
      /\ program' = program /\ (Stays(r) \/ Moves(r)) /\ pc[r] + 1 \in 1..Len(program)
      /\ CurrentOp(r) = program[pc[r] + 1] /\ pc \in [Ranks -> Nat] /\ k \in Nat
      /\ status \in [Ranks -> [Objects -> States]]
      /\ Requests \subseteq Objects /\ Updaters \subseteq Objects
      /\ buffer \in [Ranks -> [Slots -> Buffers \cup {None}]]
  BY RankMoves, Typed DEF IInv
<1>1. /\ program[k].kind = "start" => o \in Updaters /\ d \in Neighbors[s]
      /\ program[k].kind = "sync_start" => o \in Requests /\ d \in SyncTo[s]
      /\ program[k].kind \in {"start", "sync_start"}
      /\ o \in Objects /\ slot \in Slots
  BY <1>0, ProgramOps, SlotTypes DEF Carries, UpdaterOps, RequestOps
<1>2. CASE s # r
  <2>1. pc'[s] = pc[s] /\ status'[s] = status[s] /\ buffer'[s][slot] = buffer[s][slot]
    BY <1>0, <1>1, <1>2, OtherRank, OwnSlots
  <2> QED BY <1>0, <2>1 DEF SendPosted, AtInterface
<1>3. CASE s = r /\ k <= pc[r]
  BY <1>0, <1>3 DEF SendPosted, Stays, Moves
<1>4. CASE s = r /\ k > pc[r] + 1
  <2>1. ~SendPosted(s, d, k)
    BY <1>0, <1>4 DEF SendPosted, AtInterface
  <2>2. ~SendPosted(s, d, k)'
    <3>1. CASE Moves(r) /\ k = pc[r] + 2 /\ program[k].kind = "sync_start" /\ status'[r][o] = "absent"
      <4>1. buffer'[r][slot] = None
        BY <1>0, <3>1, LaterRequestEmpty
      <4> QED BY <1>0, <1>4, <3>1, <4>1 DEF SendPosted, AtInterface, Moves
    <3>2. CASE ~(Moves(r) /\ k = pc[r] + 2 /\ program[k].kind = "sync_start" /\ status'[r][o] = "absent")
      BY <1>0, <1>4, <3>2 DEF SendPosted, AtInterface, Moves, Stays
    <3> QED BY <3>1, <3>2
  <2> QED BY <2>1, <2>2
<1>5. CASE s = r /\ k = pc[r] + 1 /\ program[k].kind = "start"
  <2>1. ~SendPosted(s, d, k)
    BY <1>0, <1>5 DEF SendPosted, AtInterface
  <2>2. CASE StartSend(r)
    <3>1. sends' = sends \cup SendsOf(r, o, k)
      BY <1>0, <1>5, <2>2 DEF StartSend
    <3> DEFINE m == [src |-> r, dst |-> d, tag |-> tag[r][o], op |-> k,
                     buf |-> buffer[r][<<o, "send", d>>]]
    <3>2. m \in SendsOf(r, o, k)
      BY <1>1, <1>5 DEF SendsOf
    <3>3. IsAbout(m, s, d, k)
      BY <1>5 DEF IsAbout
    <3> QED BY <2>1, <3>1, <3>2, <3>3
  <2>3. CASE ~StartSend(r)
    <3>1. pc' = pc
      <4>1. StartRecv(r) \/ StartRaises(r)
        <5>1. program[pc[r] + 1].kind = "start"
          BY <1>5
        <5> QED BY <1>0, <2>3, <5>1, StepAtStart
      <4> QED BY <4>1 DEF StartRecv, StartRaises, Raise
    <3> QED BY <1>0, <1>5, <2>1, <3>1 DEF SendPosted, AtInterface
  <2> QED BY <2>2, <2>3
<1>6. CASE s = r /\ k = pc[r] + 1 /\ program[k].kind = "sync_start"
  <2>1. AtInterface(r, k) /\ (SyncIsend(r) \/ SyncIrecv(r) \/ SyncStarted(r)) /\ CurrentOp(r).obj = o
    BY <1>0, <1>6, StepAtStart
  <2>2. CASE SyncIsend(r)
    <3>1. PICK n \in Ranks, b \in Buffers : IsendEffect(r, n, b)
      BY <1>0, <2>2, IsendPops
    <3> DEFINE m == [src |-> r, dst |-> n, tag |-> InterfaceTag, op |-> k, buf |-> b]
    <3>2. /\ m \in sends' /\ pc' = pc /\ status' = status
          /\ buffer[r][<<o, "send", n>>] = None
          /\ buffer' = [buffer EXCEPT ![r][<<o, "send", n>>] = b]
      BY <1>6, <2>1, <3>1 DEF IsendEffect, rankVars, Pops
    <3>3. CASE n = d
      <4>1. IsAbout(m, s, d, k) /\ ~SendPosted(s, d, k)
        BY <1>0, <1>6, <3>2, <3>3 DEF IsAbout, SendPosted
      <4> QED BY <3>2, <4>1
    <3>4. CASE n # d
      <4>1. buffer'[r][slot] = buffer[r][slot]
        BY <1>0, <1>1, <3>2, <3>4
      <4> QED BY <1>0, <1>6, <3>2, <4>1 DEF SendPosted, AtInterface
    <3> QED BY <3>3, <3>4
  <2>3. CASE SyncIrecv(r) \/ SyncStarted(r)
    <3>1. buffer[r][slot] # None
      BY <1>1, <1>6, <2>1, <2>3 DEF SyncIrecv, SyncStarted, Unposted
    <3>2. SendPosted(s, d, k)
      BY <1>6, <2>1, <3>1 DEF SendPosted
    <3>3. CASE SyncIrecv(r)
      <4>1. PICK n \in Ranks, b \in Buffers : IrecvEffect(r, n, b)
        BY <1>0, <3>3, IrecvPops
      <4>2. /\ pc' = pc /\ status' = status
            /\ buffer' = [buffer EXCEPT ![r][<<o, "recv", n>>] = b]
        BY <2>1, <4>1 DEF IrecvEffect, rankVars, Pops
      <4>3. buffer'[r][slot] = buffer[r][slot]
        BY <1>0, <1>1, <4>2
      <4> QED BY <1>0, <1>6, <3>2, <4>2, <4>3 DEF SendPosted, AtInterface
    <3>4. CASE SyncStarted(r)
      <4>1. pc'[r] = pc[r] + 1
        BY <1>0, <3>4 DEF SyncStarted, Advance
      <4> QED BY <1>0, <1>6, <3>2, <4>1 DEF SendPosted
    <3> QED BY <2>3, <3>3, <3>4
  <2> QED BY <2>1, <2>2, <2>3
<1> QED
  BY <1>0, <1>1, <1>2, <1>3, <1>4, <1>5, <1>6

(* The messages a step sends are those of the rank's operation, not posted before. *)
LEMMA NewSends ==
  ASSUME IInv, NEW r \in Ranks, RankStep(r), NEW k, k = pc[r] + 1
  PROVE  /\ sends \subseteq sends' /\ sysbuf' = sysbuf
         /\ \A m \in sends' \ sends :
              /\ m.src = r /\ m.dst \in Ranks /\ m.op = k /\ k \in 1..Len(program)
              /\ Carries(r, m.dst, k) /\ m.tag = TagOf(r, k)
              /\ ~SendPosted(r, m.dst, k) /\ SendPosted(r, m.dst, k)'
              /\ program[k].kind = "start" => status[r][program[k].obj] # "absent"
         /\ \A m, p \in sends' \ sends : m.dst = p.dst => m = p
<1> DEFINE o == program[k].obj
<1>0. /\ TypeOK /\ BuffersPartitioned /\ program' = program /\ k \in 1..Len(program)
      /\ CurrentOp(r) = program[k] /\ pc \in [Ranks -> Nat] /\ Updaters \cap Requests = {}
      /\ buffer \in [Ranks -> [Slots -> Buffers \cup {None}]]
  BY RankMoves, Typed DEF IInv
<1>1. CASE StartSend(r)
  <2>1. /\ program[k].kind = "start" /\ o \in Updaters /\ status[r][o] = "receiving"
        /\ sends' = sends \cup SendsOf(r, o, k) /\ sysbuf' = sysbuf
        /\ pc'[r] = k
    BY <1>0, <1>1, CurrentOpType DEF StartSend, Executes, UpdaterOps, Advance
  <2>2. \A d \in Ranks : ~SendPosted(r, d, k) /\ SendPosted(r, d, k)'
    BY <1>0, <2>1 DEF SendPosted, AtInterface
  <2>3. ASSUME NEW m \in SendsOf(r, o, k)
        PROVE  /\ m.src = r /\ m.dst \in Neighbors[r] /\ m.op = k /\ m.tag = tag[r][o]
               /\ m = [src |-> r, dst |-> m.dst, tag |-> tag[r][o], op |-> k,
                       buf |-> buffer[r][<<o, "send", m.dst>>]]
    <3>1. PICK n \in Neighbors[r] :
            m = [src |-> r, dst |-> n, tag |-> tag[r][o], op |-> k,
                 buf |-> buffer[r][<<o, "send", n>>]]
      BY DEF SendsOf
    <3> QED BY <3>1
  <2>4. \A m \in sends' \ sends : m \in SendsOf(r, o, k)
    BY <2>1
  <2> HIDE DEF o
  <2>5. \A m, p \in SendsOf(r, o, k) : m.dst = p.dst => m = p
    BY <2>3
  <2>6. \A m \in SendsOf(r, o, k) :
             /\ m.src = r /\ m.dst \in Ranks /\ m.op = k
             /\ Carries(r, m.dst, k) /\ m.tag = TagOf(r, k)
             /\ ~SendPosted(r, m.dst, k) /\ SendPosted(r, m.dst, k)'
             /\ program[k].kind = "start" => status[r][program[k].obj] # "absent"
    BY <2>1, <2>2, <2>3, BoundariesAssumption DEF Carries, TagOf, o
  <2> QED BY <1>0, <2>1, <2>4, <2>5, <2>6
<1>2. CASE SyncIsend(r)
  <2>1. PICK n \in Ranks, b \in Buffers : IsendEffect(r, n, b)
    BY <1>0, <1>2, IsendPops
  <2> DEFINE new == [src |-> r, dst |-> n, tag |-> InterfaceTag, op |-> k, buf |-> b]
  <2>2. /\ program[k].kind = "sync_start" /\ o \in Requests /\ status[r][o] = "absent"
        /\ n \in SyncTo[r] /\ sends' = sends \cup {new} /\ sysbuf' = sysbuf
        /\ pc' = pc /\ status' = status
        /\ buffer[r][<<o, "send", n>>] = None
        /\ buffer' = [buffer EXCEPT ![r][<<o, "send", n>>] = b]
    BY <1>0, <2>1, CurrentOpType DEF IsendEffect, rankVars, Pops, Executes, RequestOps
  <2>3. buffer'[r][<<o, "send", n>>] = b /\ b # None
    <3>1. o \in Objects /\ b # None
      BY <2>2, ProgramsAssumption DEF Objects, Buffers, None
    <3>2. <<o, "send", n>> \in Slots
      BY <3>1, SlotTypes
    <3> QED BY <1>0, <2>2, <3>1, <3>2
  <2>4. ~SendPosted(r, n, k) /\ SendPosted(r, n, k)'
    BY <1>0, <2>2, <2>3 DEF SendPosted, AtInterface
  <2>5. Carries(r, n, k) /\ InterfaceTag = TagOf(r, k)
    BY <1>0, <2>2 DEF Carries, TagOf
  <2>6. \A m \in sends' \ sends : m = new
    BY <2>2
  <2> QED BY <1>0, <2>2, <2>4, <2>5, <2>6
<1>3. CASE sends' = sends /\ sysbuf' = sysbuf
  BY <1>3
<1> QED
  BY <1>1, <1>2, <1>3
  DEF RankStep, Compile, Create, StartRecv, StartRaises, Wait, WaitRaises, Raise, Delete,
      SyncIrecv, SyncStarted, SyncSendDone, SyncRecvDone, SyncWaited, Write, netVars, SyncIsend,
      StartSend

(* The same for receives. *)
LEMMA RecvPostedStep ==
  ASSUME IInv, RequestsStartEmpty, ReceivesInsideStart, NEW r \in Ranks, RankStep(r),
         NEW s \in Ranks, NEW d \in Ranks, NEW k \in 1..Len(program), Carries(s, d, k)
  PROVE  /\ RecvPosted(s, d, k) => RecvPosted(s, d, k)'
         /\ RecvPosted(s, d, k)' /\ ~RecvPosted(s, d, k) => \E m \in recvs' : IsAbout(m, s, d, k)
<1> DEFINE o == program[k].obj
           slot == <<o, "recv", s>>
<1>0. /\ TypeOK /\ BuffersPartitioned
      /\ program' = program /\ (Stays(r) \/ Moves(r)) /\ pc[r] + 1 \in 1..Len(program)
      /\ CurrentOp(r) = program[pc[r] + 1] /\ pc \in [Ranks -> Nat] /\ k \in Nat
      /\ status \in [Ranks -> [Objects -> States]]
      /\ Requests \subseteq Objects /\ Updaters \subseteq Objects
      /\ buffer \in [Ranks -> [Slots -> Buffers \cup {None}]]
  BY RankMoves, Typed DEF IInv
<1>1. /\ program[k].kind = "start" => o \in Updaters /\ s \in Neighbors[d]
      /\ program[k].kind = "sync_start" => o \in Requests /\ s \in SyncFrom[d]
      /\ program[k].kind \in {"start", "sync_start"}
      /\ o \in Objects /\ slot \in Slots
  BY <1>0, ProgramOps, SlotTypes, BoundariesAssumption DEF Carries, UpdaterOps, RequestOps
<1>2. CASE d # r
  <2>1. pc'[d] = pc[d] /\ status'[d] = status[d] /\ buffer'[d][slot] = buffer[d][slot]
    BY <1>0, <1>1, <1>2, OtherRank, OwnSlots
  <2> QED BY <1>0, <2>1 DEF RecvPosted, AtInterface
<1>3. CASE d = r /\ k <= pc[r]
  BY <1>0, <1>3 DEF RecvPosted, Stays, Moves
<1>4. CASE d = r /\ k > pc[r] + 1
  <2>1. ~RecvPosted(s, d, k)
    BY <1>0, <1>4 DEF RecvPosted, AtInterface
  <2>2. ~RecvPosted(s, d, k)'
    <3>1. CASE Moves(r) /\ k = pc[r] + 2 /\ program[k].kind = "sync_start" /\ status'[r][o] = "absent"
      <4>1. buffer'[r][slot] = None
        BY <1>0, <3>1, LaterRequestEmpty
      <4> QED BY <1>0, <1>4, <3>1, <4>1 DEF RecvPosted, AtInterface, Moves
    <3>2. CASE Moves(r) /\ k = pc[r] + 2 /\ program[k].kind = "start"
      <4>1. ASSUME status'[r][o] = "receiving" PROVE FALSE
        <5>1. ~StartRecv(r) /\ ~StartRaises(r)
          BY <1>0, <3>2 DEF StartRecv, StartRaises, Raise, Moves
        <5>2. \/ status' = status
              \/ \E v \in States \ {"receiving"} : status' = [status EXCEPT ![r][CurrentOp(r).obj] = v]
          BY <5>1
          DEF RankStep, Compile, Create, StartSend, Wait, WaitRaises,
              Delete, SyncIsend, SyncIrecv, SyncStarted, SyncSendDone, SyncRecvDone, SyncWaited, Write,
              Raise, rankVars, States
        <5>3. status[r][o] = "receiving"
          BY <1>0, <1>1, <4>1, <5>2
        <5>4. program[pc[r] + 1].kind = "start" /\ program[pc[r] + 1].obj = o
          BY <1>1, <5>3 DEF ReceivesInsideStart
        <5>5. StartSend(r)
          BY <1>0, <5>1, <5>4, StepAtStart
        <5> QED BY <1>0, <1>1, <4>1, <5>4, <5>5 DEF StartSend
      <4> QED BY <1>0, <1>4, <3>2, <4>1 DEF RecvPosted, AtInterface, Moves
    <3>3. CASE /\ ~(Moves(r) /\ k = pc[r] + 2 /\ program[k].kind = "sync_start" /\ status'[r][o] = "absent")
               /\ ~(Moves(r) /\ k = pc[r] + 2 /\ program[k].kind = "start")
      BY <1>0, <1>4, <3>3 DEF RecvPosted, AtInterface, Moves, Stays
    <3> QED BY <3>1, <3>2, <3>3
  <2> QED BY <2>1, <2>2
<1>5. CASE d = r /\ k = pc[r] + 1 /\ program[k].kind = "start"
  <2>0. StartRecv(r) \/ StartSend(r) \/ StartRaises(r)
    <3>1. program[pc[r] + 1].kind = "start"
      BY <1>5
    <3> QED BY <1>0, <3>1, StepAtStart
  <2>1. CASE StartRecv(r)
    <3>1. recvs' = recvs \cup RecvsOf(r, o, k) /\ status[r][o] # "receiving"
      BY <1>0, <1>5, <2>1 DEF StartRecv
    <3> DEFINE m == [src |-> s, dst |-> r, tag |-> tag[r][o], op |-> k,
                     buf |-> buffer[r][<<o, "recv", s>>]]
    <3>2. m \in RecvsOf(r, o, k)
      BY <1>1, <1>5 DEF RecvsOf
    <3>3. IsAbout(m, s, d, k)
      BY <1>5 DEF IsAbout
    <3>4. ~RecvPosted(s, d, k)
      BY <1>0, <1>5, <3>1 DEF RecvPosted, AtInterface
    <3> QED BY <3>1, <3>2, <3>3, <3>4
  <2>2. CASE StartSend(r)
    <3>1. status[r][o] = "receiving" /\ pc'[r] = k
      BY <1>0, <1>5, <2>2 DEF StartSend, Advance
    <3> QED BY <1>0, <1>5, <3>1 DEF RecvPosted
  <2>3. CASE StartRaises(r)
    <3>1. pc' = pc /\ status' = status /\ buffer' = buffer
      BY <2>3 DEF StartRaises, Raise, bufVars
    <3> QED BY <1>0, <1>5, <3>1 DEF RecvPosted, AtInterface
  <2> QED BY <2>0, <2>1, <2>2, <2>3
<1>6. CASE d = r /\ k = pc[r] + 1 /\ program[k].kind = "sync_start"
  <2>1. AtInterface(r, k) /\ (SyncIsend(r) \/ SyncIrecv(r) \/ SyncStarted(r)) /\ CurrentOp(r).obj = o
    BY <1>0, <1>6, StepAtStart
  <2>2. CASE SyncIrecv(r)
    <3>1. PICK n \in Ranks, b \in Buffers : IrecvEffect(r, n, b)
      BY <1>0, <2>2, IrecvPops
    <3> DEFINE m == [src |-> n, dst |-> r, tag |-> InterfaceTag, op |-> k, buf |-> b]
    <3>2. /\ m \in recvs' /\ pc' = pc /\ status' = status
          /\ buffer[r][<<o, "recv", n>>] = None
          /\ buffer' = [buffer EXCEPT ![r][<<o, "recv", n>>] = b]
      BY <1>6, <2>1, <3>1 DEF IrecvEffect, rankVars, Pops
    <3>3. CASE n = s
      <4>1. IsAbout(m, s, d, k) /\ ~RecvPosted(s, d, k)
        BY <1>0, <1>6, <3>2, <3>3 DEF IsAbout, RecvPosted
      <4> QED BY <3>2, <4>1
    <3>4. CASE n # s
      <4>1. buffer'[r][slot] = buffer[r][slot]
        BY <1>0, <1>1, <3>2, <3>4
      <4> QED BY <1>0, <1>6, <3>2, <4>1 DEF RecvPosted, AtInterface
    <3> QED BY <3>3, <3>4
  <2>3. CASE SyncIsend(r)
    <3>1. PICK n \in Ranks, b \in Buffers : IsendEffect(r, n, b)
      BY <1>0, <2>3, IsendPops
    <3>2. /\ pc' = pc /\ status' = status
          /\ buffer' = [buffer EXCEPT ![r][<<o, "send", n>>] = b]
      BY <2>1, <3>1 DEF IsendEffect, rankVars, Pops
    <3>3. buffer'[r][slot] = buffer[r][slot]
      BY <1>0, <1>1, <3>2
    <3> QED BY <1>0, <1>6, <3>2, <3>3 DEF RecvPosted, AtInterface
  <2>4. CASE SyncStarted(r)
    <3>1. buffer[r][slot] # None
      BY <1>1, <1>6, <2>1, <2>4 DEF SyncStarted, Unposted
    <3>2. RecvPosted(s, d, k) /\ pc'[r] = pc[r] + 1
      BY <1>0, <1>6, <2>1, <2>4, <3>1 DEF RecvPosted, SyncStarted, Advance
    <3> QED BY <1>0, <1>6, <3>2 DEF RecvPosted
  <2> QED BY <2>1, <2>2, <2>3, <2>4
<1> QED
  BY <1>0, <1>1, <1>2, <1>3, <1>4, <1>5, <1>6

(* The receives a step posts are those of the rank's operation. *)
LEMMA NewRecvs ==
  ASSUME IInv, NEW r \in Ranks, RankStep(r), NEW k, k = pc[r] + 1
  PROVE  /\ recvs \subseteq recvs'
         /\ \A m \in recvs' \ recvs :
              /\ m.dst = r /\ m.src \in Ranks /\ m.op = k /\ k \in 1..Len(program)
              /\ Carries(m.src, r, k)
              /\ ~RecvPosted(m.src, r, k) /\ RecvPosted(m.src, r, k)'
              /\ program[k].kind = "start" => status[r][program[k].obj] # "absent"
<1> DEFINE o == program[k].obj
<1>0. /\ TypeOK /\ BuffersPartitioned /\ program' = program /\ k \in 1..Len(program)
      /\ CurrentOp(r) = program[k] /\ pc \in [Ranks -> Nat] /\ Updaters \cap Requests = {}
      /\ status \in [Ranks -> [Objects -> States]]
      /\ buffer \in [Ranks -> [Slots -> Buffers \cup {None}]]
  BY RankMoves, Typed DEF IInv
<1>1. CASE StartRecv(r)
  <2>1. /\ program[k].kind = "start" /\ o \in Objects
        /\ status[r][o] \notin {"receiving", "absent"}
        /\ recvs' = recvs \cup RecvsOf(r, o, k)
        /\ pc' = pc /\ status'[r][o] = "receiving"
    <3>1. /\ program[k].kind = "start" /\ o \in Objects
          /\ status[r][o] \notin {"receiving", "absent"}
          /\ recvs' = recvs \cup RecvsOf(r, o, k)
          /\ pc' = pc /\ status' = [status EXCEPT ![r][o] = "receiving"]
      BY <1>0, <1>1, CurrentOpType DEF StartRecv, Executes, UpdaterOps, Objects
    <3> QED BY <1>0, <3>1
  <2>2. \A s \in Ranks : ~RecvPosted(s, r, k) /\ RecvPosted(s, r, k)'
    BY <1>0, <2>1 DEF RecvPosted, AtInterface
  <2>3. ASSUME NEW m \in RecvsOf(r, o, k)
        PROVE  m.dst = r /\ m.src \in Neighbors[r] /\ m.op = k
    <3>1. PICK n \in Neighbors[r] :
            m = [src |-> n, dst |-> r, tag |-> tag[r][o], op |-> k,
                 buf |-> buffer[r][<<o, "recv", n>>]]
      BY DEF RecvsOf
    <3> QED BY <3>1
  <2>4. \A m \in recvs' \ recvs : m \in RecvsOf(r, o, k)
    BY <2>1
  <2> HIDE DEF o
  <2>5. \A m \in RecvsOf(r, o, k) :
             /\ m.dst = r /\ m.src \in Ranks /\ m.op = k
             /\ Carries(m.src, r, k)
             /\ ~RecvPosted(m.src, r, k) /\ RecvPosted(m.src, r, k)'
             /\ program[k].kind = "start" => status[r][program[k].obj] # "absent"
    BY <2>1, <2>2, <2>3, BoundariesAssumption DEF Carries, o
  <2> QED BY <1>0, <2>1, <2>4, <2>5
<1>2. CASE SyncIrecv(r)
  <2>1. PICK n \in Ranks, b \in Buffers : IrecvEffect(r, n, b)
    BY <1>0, <1>2, IrecvPops
  <2> DEFINE new == [src |-> n, dst |-> r, tag |-> InterfaceTag, op |-> k, buf |-> b]
  <2>2. /\ program[k].kind = "sync_start" /\ o \in Requests /\ status[r][o] = "absent"
        /\ n \in SyncFrom[r] /\ recvs' = recvs \cup {new}
        /\ pc' = pc /\ status' = status
        /\ buffer[r][<<o, "recv", n>>] = None
        /\ buffer' = [buffer EXCEPT ![r][<<o, "recv", n>>] = b]
    BY <1>0, <2>1, CurrentOpType DEF IrecvEffect, rankVars, Pops, Executes, RequestOps
  <2>3. buffer'[r][<<o, "recv", n>>] = b /\ b # None
    <3>1. o \in Objects /\ b # None
      BY <2>2, ProgramsAssumption DEF Objects, Buffers, None
    <3>2. <<o, "recv", n>> \in Slots
      BY <3>1, SlotTypes
    <3> QED BY <1>0, <2>2, <3>1, <3>2
  <2>4. ~RecvPosted(n, r, k) /\ RecvPosted(n, r, k)'
    BY <1>0, <2>2, <2>3 DEF RecvPosted, AtInterface
  <2>5. Carries(n, r, k)
    BY <1>0, <2>2, BoundariesAssumption DEF Carries
  <2>6. \A m \in recvs' \ recvs : m = new
    BY <2>2
  <2> QED BY <1>0, <2>2, <2>4, <2>5, <2>6
<1>3. CASE recvs' = recvs
  BY <1>3
<1> QED
  BY <1>1, <1>2, <1>3
  DEF RankStep, Compile, Create, StartSend, StartRaises, Wait, WaitRaises, Raise, Delete,
      SyncIsend, SyncStarted, SyncSendDone, SyncRecvDone, SyncWaited, Write, netVars, SyncIrecv,
      StartRecv

-----------------------------------------------------------------------------
(* Matched messages are of one operation.                                  *)

(* What is known of a message that is on the way to a receive, or waits. *)
LEMMA OpenMessage ==
  ASSUME MInv, NEW s, NEW d, NEW k, SendOpen(s, d, k) \/ RecvOpen(s, d, k)
  PROVE  /\ s \in Ranks /\ d \in Ranks /\ k \in 1..Len(program) /\ k \in Nat
         /\ Carries(s, d, k)
         /\ SendOpen(s, d, k) => SendPosted(s, d, k) /\ k <= pc[s] + 1
         /\ RecvOpen(s, d, k) => RecvPosted(s, d, k) /\ k <= pc[d] + 1
<1>0. /\ TypeOK /\ sends \subseteq SendMsg /\ sysbuf \subseteq SysMsg /\ recvs \subseteq SendMsg
      /\ pc \in [Ranks -> Nat] /\ Len(program) \in Nat
  BY Typed DEF MInv, IInv, TypeOK, NetworkTypeOK
<1>1. ASSUME NEW m \in sends \cup sysbuf, IsAbout(m, s, d, k)
      PROVE  /\ s \in Ranks /\ d \in Ranks /\ k \in 1..Len(program)
             /\ Carries(s, d, k) /\ SendPosted(s, d, k)
  BY <1>0, <1>1 DEF MInv, MessagesCarried, IsAbout, SendMsg, SysMsg
<1>2. ASSUME NEW m \in recvs, IsAbout(m, s, d, k)
      PROVE  /\ s \in Ranks /\ d \in Ranks /\ k \in 1..Len(program)
             /\ Carries(s, d, k) /\ RecvPosted(s, d, k)
  BY <1>0, <1>2, PendingRecv DEF MInv, MessagesCarried, IsAbout, SendMsg
<1>3. s \in Ranks /\ d \in Ranks /\ k \in 1..Len(program) /\ Carries(s, d, k)
  BY <1>1, <1>2 DEF SendOpen, RecvOpen
<1>4. SendPosted(s, d, k) => k <= pc[s] + 1
  BY <1>0, <1>3 DEF SendPosted, AtInterface
<1>5. RecvPosted(s, d, k) => k <= pc[d] + 1
  BY <1>0, <1>3 DEF RecvPosted, AtInterface
<1> QED
  BY <1>1, <1>2, <1>3, <1>4, <1>5 DEF SendOpen, RecvOpen

(* Both ends of a channel give an operation the same tag. *)
LEMMA ChannelTag ==
  ASSUME MInv, NEW x \in sends \cup sysbuf, NEW y \in recvs, IsAbout(x, y.src, y.dst, y.op)
  PROVE  SameChannel(x, y)
<1> DEFINE o == program[y.op].obj
<1>0. /\ TypeOK /\ x.src \in Ranks /\ y.dst \in Ranks /\ y.op \in 1..Len(program)
      /\ x.src = y.src /\ x.dst = y.dst /\ x.op = y.op
  BY PendingRecv, OpenMessage DEF MInv, IInv, IsAbout, SendOpen
<1>1. x.tag = TagOf(x.src, y.op) /\ y.tag = TagOf(y.dst, y.op)
  BY <1>0 DEF MInv, IInv, MessagesCarried, RecvsOwned, Owned
<1>2. CASE o \in Updaters
  <2>1. program[y.op].kind = "start"
    BY <1>2, PendingRecv DEF MInv
  <2>2. status[x.src][o] # "absent" /\ status[y.dst][o] # "absent"
    BY <1>0, <2>1 DEF MInv, MessagesCarried
  <2>3. tag[x.src][o] = tag[y.dst][o]
    BY <1>0, <1>2, <2>2, TagsAgree DEF MInv
  <2> QED BY <1>0, <1>1, <1>2, <2>3 DEF TagOf, SameChannel
<1>3. CASE o \notin Updaters
  BY <1>0, <1>1, <1>3 DEF TagOf, SameChannel
<1> QED BY <1>2, <1>3

(* A message ahead of both has a counterpart at the other end. *)
LEMMA Counterparts ==
  ASSUME MInv, NEW m \in sends \cup sysbuf, NEW p \in recvs, SameChannel(m, p)
  PROVE  /\ m.op < p.op => \E y \in recvs : SameChannel(y, p) /\ y.op = m.op
         /\ p.op < m.op => \E x \in sends \cup sysbuf : SameChannel(x, m) /\ x.op = p.op
<1> DEFINE s == m.src
           d == m.dst
<1>0. /\ p.src = s /\ p.dst = d /\ m.tag = p.tag
      /\ pc \in [Ranks -> Nat]
  BY Typed DEF SameChannel, MInv, IInv
<1>1. SendOpen(s, d, m.op) /\ RecvOpen(s, d, p.op)
  BY <1>0 DEF SendOpen, RecvOpen, IsAbout
<1>2. /\ s \in Ranks /\ d \in Ranks
      /\ m.op \in 1..Len(program) /\ Carries(s, d, m.op) /\ SendPosted(s, d, m.op) /\ m.op <= pc[s] + 1
      /\ p.op \in 1..Len(program) /\ Carries(s, d, p.op) /\ RecvPosted(s, d, p.op) /\ p.op <= pc[d] + 1
      /\ m.op \in Nat /\ p.op \in Nat
  BY <1>1, OpenMessage
<1> HIDE DEF s, d
<1>3. ASSUME m.op < p.op PROVE \E y \in recvs : SameChannel(y, p) /\ y.op = m.op
  <2>1. RecvPosted(s, d, m.op)
    BY <1>0, <1>2, <1>3 DEF RecvPosted
  <2>2. RecvOpen(s, d, m.op)
    BY <1>1, <1>2, <2>1 DEF MInv, EndsAgree
  <2>3. PICK y \in recvs : IsAbout(y, s, d, m.op)
    BY <2>2 DEF RecvOpen
  <2>4. SameChannel(m, y)
    BY <2>3, ChannelTag DEF IsAbout, s, d
  <2> QED BY <1>0, <2>3, <2>4 DEF SameChannel, IsAbout
<1>4. ASSUME p.op < m.op PROVE \E x \in sends \cup sysbuf : SameChannel(x, m) /\ x.op = p.op
  <2>1. SendPosted(s, d, p.op)
    BY <1>0, <1>2, <1>4 DEF SendPosted
  <2>2. SendOpen(s, d, p.op)
    BY <1>1, <1>2, <2>1 DEF MInv, EndsAgree
  <2>3. PICK x \in sends \cup sysbuf : IsAbout(x, s, d, p.op)
    BY <2>2 DEF SendOpen
  <2>4. SameChannel(x, p)
    BY <1>0, <2>3, ChannelTag DEF IsAbout
  <2> QED BY <1>0, <2>3, <2>4 DEF SameChannel, IsAbout, s, d
<1> QED BY <1>3, <1>4

(* Equal positions on a channel are equal operations. *)
LEMMA MatchesAgree ==
  ASSUME MInv, NEW m \in sends \cup sysbuf, NEW p \in recvs, Matches(m, p)
  PROVE  m.op = p.op
<1> DEFINE A == Ahead(m, sends) \cup Ahead(m, sysbuf)
           B == Ahead(p, recvs)
<1>0. SameChannel(m, p) /\ Cardinality(A) = Cardinality(B)
  BY DEF Matches
<1>1. /\ \A k \in A : \E x \in sends \cup sysbuf : SameChannel(x, m) /\ x.op = k /\ k < m.op
      /\ \A x \in sends \cup sysbuf : SameChannel(x, m) /\ x.op < m.op => x.op \in A
  BY DEF Ahead
<1>2. /\ \A k \in B : \E y \in recvs : SameChannel(y, p) /\ y.op = k /\ k < p.op
      /\ \A y \in recvs : SameChannel(y, p) /\ y.op < p.op => y.op \in B
  BY DEF Ahead
<1>3. /\ \A x \in sends \cup sysbuf : x.op \in 1..Len(program)
      /\ \A y \in recvs : y.op \in 1..Len(program)
      /\ Len(program) \in Nat
  <2>1. \A x \in sends \cup sysbuf : SendOpen(x.src, x.dst, x.op)
    BY DEF SendOpen, IsAbout
  <2> QED BY <2>1, OpenMessage, PendingRecv, Typed DEF MInv, IInv
<1> HIDE DEF A, B
<1>4. IsFiniteSet(A) /\ IsFiniteSet(B)
  <2>1. IsFiniteSet(1..Len(program))
    BY <1>3, FS_Interval
  <2>2. A \subseteq 1..Len(program) /\ B \subseteq 1..Len(program)
    BY <1>1, <1>2, <1>3
  <2> QED BY <2>1, <2>2, FS_Subset
<1>5. m.op \in Nat /\ p.op \in Nat
  BY <1>3
<1>6. CASE m.op < p.op
  <2>1. m.op \in B
    BY <1>0, <1>2, <1>6, Counterparts
  <2>2. ASSUME NEW k \in A PROVE k \in B
    <3>1. PICK x \in sends \cup sysbuf : SameChannel(x, m) /\ x.op = k /\ k < m.op
      BY <1>1
    <3>2. SameChannel(x, p) /\ x.op < p.op
      BY <1>0, <1>3, <1>6, <3>1 DEF SameChannel
    <3> QED BY <1>2, <1>3, <3>1, <3>2, Counterparts
  <2>3. m.op \notin A
    BY <1>1, <1>5
  <2>4. Cardinality(A \cup {m.op}) = Cardinality(A) + 1 /\ IsFiniteSet(A \cup {m.op})
    BY <1>4, <2>3, FS_AddElement
  <2>5. Cardinality(A \cup {m.op}) <= Cardinality(B)
    BY <1>4, <2>1, <2>2, FS_Subset
  <2> QED BY <1>0, <1>4, <2>4, <2>5, FS_CardinalityType
<1>7. CASE p.op < m.op
  <2>1. p.op \in A
    BY <1>0, <1>1, <1>7, Counterparts
  <2>2. ASSUME NEW k \in B PROVE k \in A
    <3>1. PICK y \in recvs : SameChannel(y, p) /\ y.op = k /\ k < p.op
      BY <1>2
    <3>2. SameChannel(m, y) /\ y.op < m.op
      BY <1>0, <1>3, <1>7, <3>1 DEF SameChannel
    <3> QED BY <1>1, <1>3, <3>1, <3>2, Counterparts
  <2>3. p.op \notin B
    BY <1>2, <1>5
  <2>4. Cardinality(B \cup {p.op}) = Cardinality(B) + 1 /\ IsFiniteSet(B \cup {p.op})
    BY <1>4, <2>3, FS_AddElement
  <2>5. Cardinality(B \cup {p.op}) <= Cardinality(A)
    BY <1>4, <2>1, <2>2, FS_Subset
  <2> QED BY <1>0, <1>4, <2>4, <2>5, FS_CardinalityType
<1> QED BY <1>5, <1>6, <1>7

-----------------------------------------------------------------------------
(* The invariant over the steps of the ranks.                              *)

(* A rank keeps the tag of an operation whose updater exists. *)
LEMMA TagKept ==
  ASSUME TypeOK, NEW r \in Ranks, RankStep(r), NEW q \in Ranks, NEW k \in 1..Len(program),
         program[k].kind \in {"start", "sync_start"},
         program[k].kind = "start" => status[q][program[k].obj] # "absent"
  PROVE  /\ TagOf(q, k)' = TagOf(q, k)
         /\ program[k].kind = "start" => status'[q][program[k].obj] # "absent"
<1> DEFINE o == program[k].obj
<1>0. /\ program' = program /\ (~Create(r) => tag' = tag)
      /\ tag \in [Ranks -> [Updaters -> Nat]]
      /\ Updaters \subseteq Objects /\ Requests \subseteq Objects /\ Updaters \cap Requests = {}
  BY RankMoves, Typed
<1>1. /\ program[k].kind = "start" => o \in Updaters
      /\ program[k].kind = "sync_start" => o \in Requests
  BY ProgramOps DEF UpdaterOps, RequestOps
<1>2. o \in Updaters => tag'[q][o] = tag[q][o]
  <2>1. CASE Create(r)
    <3>1. tag' = [tag EXCEPT ![r][CurrentOp(r).obj] = lastTag[r] + 1]
          /\ status[r][CurrentOp(r).obj] = "absent"
      BY <2>1 DEF Create
    <3> QED BY <1>0, <1>1, <3>1
  <2> QED BY <1>0, <2>1
<1>3. program[k].kind = "start" => status'[q][o] # "absent"
  BY <1>0, <1>1, StatusMoves
<1> QED BY <1>0, <1>2, <1>3 DEF TagOf

(* Old messages stay as they are, new ones are of the operation that posts them. *)
LEMMA MessagesRankStep ==
  ASSUME MInv, NEW r \in Ranks, RankStep(r)
  PROVE  MessagesCarried' /\ OneMessageEach'
<1> DEFINE j == pc[r] + 1
<1>0. /\ TypeOK /\ IInv /\ program' = program /\ RequestsStartEmpty /\ ReceivesInsideStart
      /\ CurrentOp(r) = program[j] /\ j \in 1..Len(program)
  BY RankMoves DEF MInv, IInv
<1>1. \A s, d : \A k : Carries(s, d, k)' <=> Carries(s, d, k)
  BY <1>0 DEF Carries
<1>2. ASSUME NEW m \in sends \cup sysbuf
      PROVE  /\ m.op \in 1..Len(program) /\ m.tag = TagOf(m.src, m.op)'
             /\ Carries(m.src, m.dst, m.op) /\ SendPosted(m.src, m.dst, m.op)'
             /\ program[m.op].kind = "start" => status'[m.src][program[m.op].obj] # "absent"
  <2>1. /\ m.op \in 1..Len(program) /\ m.tag = TagOf(m.src, m.op)
        /\ Carries(m.src, m.dst, m.op) /\ SendPosted(m.src, m.dst, m.op)
        /\ program[m.op].kind = "start" => status[m.src][program[m.op].obj] # "absent"
    BY DEF MInv, MessagesCarried
  <2>2. m.src \in Ranks /\ m.dst \in Ranks /\ program[m.op].kind \in {"start", "sync_start"}
    BY <1>0, <2>1, Typed DEF TypeOK, NetworkTypeOK, SendMsg, SysMsg, Carries
  <2> QED BY <1>0, <2>1, <2>2, TagKept, SendPostedStep
<1>3. ASSUME NEW m \in recvs
      PROVE  /\ Carries(m.src, m.dst, m.op) /\ RecvPosted(m.src, m.dst, m.op)'
             /\ program[m.op].kind = "start" => status'[m.dst][program[m.op].obj] # "absent"
  <2>1. /\ m.op \in 1..Len(program) /\ m.src \in Ranks /\ m.dst \in Ranks
        /\ Carries(m.src, m.dst, m.op) /\ RecvPosted(m.src, m.dst, m.op)
        /\ program[m.op].kind \in {"start", "sync_start"}
        /\ program[m.op].kind = "start" => status[m.dst][program[m.op].obj] # "absent"
    BY <1>0, PendingRecv DEF MInv, MessagesCarried
  <2> QED BY <1>0, <2>1, TagKept, RecvPostedStep
<1>4. ASSUME NEW m \in sends', m \notin sends
      PROVE  /\ m.op \in 1..Len(program) /\ m.tag = TagOf(m.src, m.op)'
             /\ Carries(m.src, m.dst, m.op) /\ SendPosted(m.src, m.dst, m.op)'
             /\ program[m.op].kind = "start" => status'[m.src][program[m.op].obj] # "absent"
             /\ m.src = r /\ m.op = j /\ ~SendPosted(m.src, m.dst, m.op)
  <2>1. PICK k : k = j
    OBVIOUS
  <2>2. /\ m.src = r /\ m.dst \in Ranks /\ m.op = k /\ k \in 1..Len(program)
        /\ Carries(r, m.dst, k) /\ m.tag = TagOf(r, k)
        /\ ~SendPosted(r, m.dst, k) /\ SendPosted(r, m.dst, k)'
        /\ program[k].kind = "start" => status[r][program[k].obj] # "absent"
    BY <1>0, <1>4, <2>1, NewSends
  <2>3. program[k].kind \in {"start", "sync_start"}
    BY <2>2 DEF Carries
  <2>4. TagOf(r, k)' = TagOf(r, k) /\ (program[k].kind = "start" => status'[r][program[k].obj] # "absent")
    BY <1>0, <2>2, <2>3, TagKept
  <2> QED BY <2>1, <2>2, <2>4
<1>5. ASSUME NEW m \in recvs', m \notin recvs
      PROVE  /\ Carries(m.src, m.dst, m.op) /\ RecvPosted(m.src, m.dst, m.op)'
             /\ program[m.op].kind = "start" => status'[m.dst][program[m.op].obj] # "absent"
  <2>1. PICK k : k = j
    OBVIOUS
  <2>2. /\ m.dst = r /\ m.src \in Ranks /\ m.op = k /\ k \in 1..Len(program)
        /\ Carries(m.src, r, k) /\ RecvPosted(m.src, r, k)'
        /\ program[k].kind = "start" => status[r][program[k].obj] # "absent"
    BY <1>0, <1>5, <2>1, NewRecvs
  <2>3. program[k].kind \in {"start", "sync_start"}
    BY <2>2 DEF Carries
  <2>4. program[k].kind = "start" => status'[r][program[k].obj] # "absent"
    BY <1>0, <2>2, <2>3, TagKept
  <2> QED BY <2>2, <2>4
<1>6. sysbuf' = sysbuf
  BY <1>0, NewSends
<1>7. MessagesCarried'
  BY <1>0, <1>1, <1>2, <1>3, <1>4, <1>5, <1>6 DEF MessagesCarried
<1>8. OneMessageEach'
  <2> SUFFICES ASSUME NEW m \in sends' \cup sysbuf', NEW p \in sends' \cup sysbuf',
                      IsAbout(m, p.src, p.dst, p.op)
               PROVE  m = p
    BY DEF OneMessageEach, IsAbout
  <2>1. CASE m \in sends \cup sysbuf /\ p \in sends \cup sysbuf
    BY <2>1 DEF MInv, OneMessageEach
  <2>2. CASE m \in sends \cup sysbuf /\ p \notin sends \cup sysbuf
    <3>1. SendPosted(m.src, m.dst, m.op)
      BY <2>2 DEF MInv, MessagesCarried
    <3>2. ~SendPosted(p.src, p.dst, p.op)
      BY <1>4, <1>6, <2>2
    <3> QED BY <3>1, <3>2 DEF IsAbout
  <2>3. CASE m \notin sends \cup sysbuf /\ p \in sends \cup sysbuf
    <3>1. SendPosted(p.src, p.dst, p.op)
      BY <2>3 DEF MInv, MessagesCarried
    <3>2. ~SendPosted(m.src, m.dst, m.op)
      BY <1>4, <1>6, <2>3
    <3> QED BY <3>1, <3>2 DEF IsAbout
  <2>4. CASE m \notin sends \cup sysbuf /\ p \notin sends \cup sysbuf
    <3>1. PICK k : k = j
      OBVIOUS
    <3>2. m \in sends' \ sends /\ p \in sends' \ sends /\ m.dst = p.dst
      BY <1>6, <2>4 DEF IsAbout
    <3> QED BY <1>0, <3>1, <3>2, NewSends
  <2> QED BY <2>1, <2>2, <2>3, <2>4
<1> QED BY <1>7, <1>8

(* Posting a message at one end completes nothing at either. *)
LEMMA EndsAgreeRankStep ==
  ASSUME MInv, NEW r \in Ranks, RankStep(r)
  PROVE  EndsAgree'
<1> DEFINE j == pc[r] + 1
<1>0. /\ TypeOK /\ IInv /\ program' = program /\ RequestsStartEmpty /\ ReceivesInsideStart
  BY RankMoves DEF MInv, IInv
<1> SUFFICES ASSUME NEW s \in Ranks, NEW d \in Ranks, NEW k \in 1..Len(program), Carries(s, d, k)
    PROVE  (SendPosted(s, d, k)' /\ ~SendOpen(s, d, k)') <=> (RecvPosted(s, d, k)' /\ ~RecvOpen(s, d, k)')
  BY <1>0 DEF EndsAgree, Carries
<1>1. PICK i : i = j
  OBVIOUS
<1>2. SendOpen(s, d, k)' <=> SendOpen(s, d, k) \/ \E m \in sends' \ sends : IsAbout(m, s, d, k)
  BY <1>0, <1>1, NewSends DEF SendOpen, IsAbout
<1>3. (\E m \in sends' \ sends : IsAbout(m, s, d, k)) => ~SendPosted(s, d, k)
  BY <1>0, <1>1, NewSends DEF IsAbout
<1>4. (SendPosted(s, d, k)' /\ ~SendOpen(s, d, k)') <=> (SendPosted(s, d, k) /\ ~SendOpen(s, d, k))
  <2>1. SendPosted(s, d, k)' /\ ~SendPosted(s, d, k) => SendOpen(s, d, k)'
    BY <1>0, SendPostedStep DEF SendOpen, IsAbout
  <2>2. SendPosted(s, d, k) => SendPosted(s, d, k)'
    BY <1>0, SendPostedStep
  <2> QED BY <1>2, <1>3, <2>1, <2>2
<1>5. RecvOpen(s, d, k)' <=> RecvOpen(s, d, k) \/ \E m \in recvs' \ recvs : IsAbout(m, s, d, k)
  BY <1>0, <1>1, NewRecvs DEF RecvOpen, IsAbout
<1>6. (\E m \in recvs' \ recvs : IsAbout(m, s, d, k)) => ~RecvPosted(s, d, k)
  BY <1>0, <1>1, NewRecvs DEF IsAbout
<1>7. (RecvPosted(s, d, k)' /\ ~RecvOpen(s, d, k)') <=> (RecvPosted(s, d, k) /\ ~RecvOpen(s, d, k))
  <2>1. RecvPosted(s, d, k)' /\ ~RecvPosted(s, d, k) => RecvOpen(s, d, k)'
    BY <1>0, RecvPostedStep DEF RecvOpen, IsAbout
  <2>2. RecvPosted(s, d, k) => RecvPosted(s, d, k)'
    BY <1>0, RecvPostedStep
  <2> QED BY <1>5, <1>6, <2>1, <2>2
<1>8. (SendPosted(s, d, k) /\ ~SendOpen(s, d, k)) <=> (RecvPosted(s, d, k) /\ ~RecvOpen(s, d, k))
  BY DEF MInv, EndsAgree
<1> QED BY <1>4, <1>7, <1>8

-----------------------------------------------------------------------------
(* The invariant over the steps of MPI.                                    *)

(* A message pending in its buffer and one MPI has copied are different. *)
LEMMA CopiesDiffer ==
  ASSUME NetworkTypeOK, NEW m \in sends, NEW c \in sysbuf
  PROVE  m # c
<1>1. m \in SendMsg /\ c \in SysMsg
  BY DEF NetworkTypeOK
<1>2. DOMAIN m = {"src", "dst", "tag", "op", "buf"}
  BY <1>1 DEF SendMsg
<1>3. DOMAIN c = {"src", "dst", "tag", "op", "val"}
  BY <1>1 DEF SysMsg
<1> QED BY <1>2, <1>3

(* Where the ranks are does not depend on what MPI moves. *)
LEMMA MovingChangesNoRank ==
  ASSUME MInv, UNCHANGED <<rankVars, buffer>>
  PROVE  /\ TagsFollowTheProgram' /\ RequestsStartEmpty' /\ ReceivesInsideStart'
         /\ program' = program
         /\ \A r, k : TagOf(r, k)' = TagOf(r, k)
         /\ \A s, d, k : /\ Carries(s, d, k)' <=> Carries(s, d, k)
                         /\ SendPosted(s, d, k)' <=> SendPosted(s, d, k)
                         /\ RecvPosted(s, d, k)' <=> RecvPosted(s, d, k)
<1>1. /\ program' = program /\ pc' = pc /\ status' = status /\ tag' = tag
      /\ lastTag' = lastTag /\ buffer' = buffer
  BY DEF rankVars
<1>2. TagsFollowTheProgram'
  BY <1>1 DEF MInv, TagsFollowTheProgram
<1>3. RequestsStartEmpty'
  BY <1>1 DEF MInv, RequestsStartEmpty, AtInterface
<1>4. ReceivesInsideStart'
  BY <1>1 DEF MInv, ReceivesInsideStart
<1> QED
  BY <1>1, <1>2, <1>3, <1>4 DEF TagOf, Carries, SendPosted, RecvPosted, AtInterface

(* Delivering a message completes the same operation at both its ends. *)
LEMMA MeetingStep ==
  ASSUME MInv, NEW m \in sends \cup sysbuf, NEW p \in recvs, Matches(m, p),
         UNCHANGED <<rankVars, buffer>>,
         sends' \cup sysbuf' = (sends \cup sysbuf) \ {m}, recvs' = recvs \ {p}
  PROVE  EndsAgree' /\ MessagesCarried' /\ OneMessageEach'
<1>0. m.op = p.op /\ m.src = p.src /\ m.dst = p.dst
  BY MatchesAgree DEF Matches, SameChannel
<1>1. OneMessageEach'
  BY DEF MInv, OneMessageEach, IsAbout
<1>2. MessagesCarried'
  BY MovingChangesNoRank DEF MInv, MessagesCarried, rankVars
<1>3. ASSUME NEW y \in recvs, IsAbout(y, p.src, p.dst, p.op)
      PROVE  y = p
  BY <1>3, OneMessagePerSlot DEF MInv, IsAbout, RecvSlot
<1>4. ASSUME NEW s, NEW d, NEW k
      PROVE  /\ SendOpen(s, d, k)' <=> SendOpen(s, d, k) /\ ~IsAbout(m, s, d, k)
             /\ RecvOpen(s, d, k)' <=> RecvOpen(s, d, k) /\ ~IsAbout(m, s, d, k)
  <2>1. SendOpen(s, d, k)' <=> SendOpen(s, d, k) /\ ~IsAbout(m, s, d, k)
    BY DEF SendOpen, IsAbout, MInv, OneMessageEach
  <2>2. RecvOpen(s, d, k)' <=> RecvOpen(s, d, k) /\ ~IsAbout(p, s, d, k)
    BY <1>3 DEF RecvOpen, IsAbout
  <2> QED BY <1>0, <2>1, <2>2 DEF IsAbout
<1>5. EndsAgree'
  <2> SUFFICES ASSUME NEW s \in Ranks, NEW d \in Ranks, NEW k \in 1..Len(program),
                      Carries(s, d, k)
               PROVE  (SendPosted(s, d, k) /\ ~SendOpen(s, d, k)') <=>
                      (RecvPosted(s, d, k) /\ ~RecvOpen(s, d, k)')
    BY MovingChangesNoRank DEF EndsAgree
  <2>1. CASE IsAbout(m, s, d, k)
    <3>1. SendPosted(s, d, k) /\ RecvPosted(s, d, k)
      BY <1>0, <2>1 DEF IsAbout, MInv, MessagesCarried
    <3> QED BY <1>4, <2>1, <3>1
  <2>2. CASE ~IsAbout(m, s, d, k)
    BY <1>4, <2>2 DEF MInv, EndsAgree
  <2> QED BY <2>1, <2>2
<1> QED BY <1>1, <1>2, <1>5

(* A copy stands for the message it was taken from. *)
LEMMA CopyOutStep ==
  ASSUME MInv, NEW m \in sends, CopyOut(m)
  PROVE  EndsAgree' /\ MessagesCarried' /\ OneMessageEach'
<1> DEFINE c == [src |-> m.src, dst |-> m.dst, tag |-> m.tag, op |-> m.op,
                 val |-> memory[m.src][m.buf]]
<1>0. /\ sends' = sends \ {m} /\ sysbuf' = sysbuf \cup {c} /\ recvs' = recvs
      /\ UNCHANGED <<rankVars, buffer>>
      /\ c.src = m.src /\ c.dst = m.dst /\ c.tag = m.tag /\ c.op = m.op
  BY DEF CopyOut, bufVars
<1> HIDE DEF c
<1>1. ASSUME NEW x \in sends' \cup sysbuf'
      PROVE  /\ x # c => x \in sends \cup sysbuf
             /\ x # c => x # m
  BY <1>0, CopiesDiffer DEF MInv, IInv, TypeOK
<1>2. OneMessageEach'
  <2> SUFFICES ASSUME NEW x \in sends' \cup sysbuf', NEW y \in sends' \cup sysbuf',
                      IsAbout(x, y.src, y.dst, y.op)
               PROVE  x = y
    BY DEF OneMessageEach, IsAbout
  <2>1. CASE x = c /\ y # c
    <3>1. IsAbout(m, y.src, y.dst, y.op) /\ y \in sends \cup sysbuf /\ y # m
      BY <1>0, <1>1, <2>1 DEF IsAbout
    <3> QED BY <3>1 DEF MInv, OneMessageEach
  <2>2. CASE x # c /\ y = c
    <3>1. IsAbout(x, m.src, m.dst, m.op) /\ x \in sends \cup sysbuf /\ x # m
      BY <1>0, <1>1, <2>2 DEF IsAbout
    <3> QED BY <3>1 DEF MInv, OneMessageEach
  <2>3. CASE x # c /\ y # c
    BY <1>1, <2>3 DEF MInv, OneMessageEach
  <2> QED BY <2>1, <2>2, <2>3
<1>3. MessagesCarried'
  <2>1. ASSUME NEW x \in sends \cup sysbuf
        PROVE  /\ x.op \in 1..Len(program) /\ x.tag = TagOf(x.src, x.op)'
               /\ Carries(x.src, x.dst, x.op) /\ SendPosted(x.src, x.dst, x.op)
               /\ program[x.op].kind = "start" => status'[x.src][program[x.op].obj] # "absent"
    BY <1>0, MovingChangesNoRank DEF MInv, MessagesCarried, rankVars
  <2>2. ASSUME NEW x \in sends' \cup sysbuf'
        PROVE  /\ x.op \in 1..Len(program) /\ x.tag = TagOf(x.src, x.op)'
               /\ Carries(x.src, x.dst, x.op) /\ SendPosted(x.src, x.dst, x.op)
               /\ program[x.op].kind = "start" => status'[x.src][program[x.op].obj] # "absent"
    BY <1>0, <1>1, <2>1
  <2> QED BY <1>0, <2>2, MovingChangesNoRank DEF MInv, MessagesCarried, rankVars
<1>4. ASSUME NEW s, NEW d, NEW k
      PROVE  /\ SendOpen(s, d, k)' <=> SendOpen(s, d, k)
             /\ RecvOpen(s, d, k)' <=> RecvOpen(s, d, k)
  BY <1>0, <1>1 DEF SendOpen, RecvOpen, IsAbout
<1>5. EndsAgree'
  BY <1>0, <1>4, MovingChangesNoRank DEF MInv, EndsAgree
<1> QED BY <1>2, <1>3, <1>5

-----------------------------------------------------------------------------
(* The first part of the invariant holds.                                  *)

(* Nothing is made, posted or on the way when the program starts. *)
LEMMA InitMatching == Init => MInv
<1> SUFFICES ASSUME Init PROVE MInv
  OBVIOUS
<1>1. IInv
  BY InitInvariant
<1>2. /\ \A r \in Ranks : pc[r] = 0 /\ lastTag[r] = 0
      /\ \A r \in Ranks, o \in Objects : status[r][o] = "absent"
      /\ \A r \in Ranks, s \in Slots : buffer[r][s] = None
      /\ sends = {} /\ sysbuf = {} /\ recvs = {} /\ Updaters \subseteq Objects
      /\ Requests \subseteq Objects /\ Len(program) \in Nat
  BY <1>1, Typed DEF Init, IInv
<1>3. Creations(program, 0) = {} /\ Cardinality(Creations(program, 0)) = 0
  BY FS_EmptySet DEF Creations
<1>4. TagsFollowTheProgram
  BY <1>2, <1>3 DEF TagsFollowTheProgram
<1>5. RequestsStartEmpty
  <2>1. ASSUME NEW r \in Ranks, NEW i \in Requests, NEW dir \in {"send", "recv"}, NEW n \in Ranks
        PROVE  buffer[r][<<i, dir, n>>] = None
    BY <1>2 DEF Slots
  <2> QED BY <2>1 DEF RequestsStartEmpty
<1>6. ReceivesInsideStart
  BY <1>2 DEF ReceivesInsideStart
<1>7. EndsAgree
  <2> SUFFICES ASSUME NEW s \in Ranks, NEW d \in Ranks, NEW k \in 1..Len(program), Carries(s, d, k)
               PROVE  ~SendPosted(s, d, k) /\ ~RecvPosted(s, d, k)
    BY DEF EndsAgree
  <2>1. program[k].kind \in {"start", "sync_start"} /\ program[k].obj \in Objects
    BY <1>1, <1>2, ProgramOps DEF Carries, IInv, UpdaterOps, RequestOps
  <2>2. /\ <<program[k].obj, "send", d>> \in Slots /\ <<program[k].obj, "recv", s>> \in Slots
    BY <2>1, SlotTypes
  <2> QED BY <1>2, <2>1, <2>2 DEF SendPosted, RecvPosted, AtInterface
<1>8. MessagesCarried /\ OneMessageEach
  BY <1>2 DEF MessagesCarried, OneMessageEach
<1> QED BY <1>1, <1>4, <1>5, <1>6, <1>7, <1>8 DEF MInv

(* Every step keeps the ends of every channel in agreement. *)
LEMMA NextMatching == MInv /\ [Next]_vars => MInv'
<1> SUFFICES ASSUME MInv, [Next]_vars PROVE MInv'
  OBVIOUS
<1>0. IInv' /\ NetworkTypeOK
  BY NextInvariant DEF MInv, IInv, TypeOK
<1> DEFINE Rest == /\ TagsFollowTheProgram' /\ RequestsStartEmpty' /\ ReceivesInsideStart'
                   /\ EndsAgree' /\ MessagesCarried' /\ OneMessageEach'
<1>1. ASSUME NEW r \in Ranks, RankStep(r) PROVE Rest
  BY <1>1, TagsRankStep, RequestsStartEmptyStep, ReceivesInsideStartStep, EndsAgreeRankStep,
     MessagesRankStep DEF MInv, IInv
<1>2. ASSUME NEW m \in sends, NEW p \in recvs, Deliver(m, p) PROVE Rest
  <2>1. /\ Matches(m, p) /\ UNCHANGED <<rankVars, buffer>>
        /\ sends' = sends \ {m} /\ sysbuf' = sysbuf /\ recvs' = recvs \ {p}
    BY <1>2 DEF Deliver
  <2>2. m \notin sysbuf
    BY <1>0, CopiesDiffer
  <2>3. sends' \cup sysbuf' = (sends \cup sysbuf) \ {m}
    BY <2>1, <2>2
  <2> QED BY <2>1, <2>3, MeetingStep, MovingChangesNoRank
<1>3. ASSUME NEW m \in sysbuf, NEW p \in recvs, DeliverCopy(m, p) PROVE Rest
  <2>1. /\ Matches(m, p) /\ UNCHANGED <<rankVars, buffer>>
        /\ sends' = sends /\ sysbuf' = sysbuf \ {m} /\ recvs' = recvs \ {p}
    BY <1>3 DEF DeliverCopy
  <2>2. m \notin sends
    BY <1>0, CopiesDiffer
  <2>3. sends' \cup sysbuf' = (sends \cup sysbuf) \ {m}
    BY <2>1, <2>2
  <2> QED BY <2>1, <2>3, MeetingStep, MovingChangesNoRank
<1>4. ASSUME NEW m \in sends, CopyOut(m) PROVE Rest
  <2>1. UNCHANGED <<rankVars, buffer>>
    BY <1>4 DEF CopyOut, bufVars
  <2> QED BY <1>4, <2>1, CopyOutStep, MovingChangesNoRank
<1>5. ASSUME UNCHANGED vars PROVE Rest
  <2>1. UNCHANGED <<rankVars, buffer>> /\ sends' = sends /\ sysbuf' = sysbuf /\ recvs' = recvs
    BY <1>5 DEF vars, bufVars, netVars
  <2>2. EndsAgree'
    BY <2>1, MovingChangesNoRank DEF MInv, EndsAgree, SendOpen, RecvOpen
  <2>3. MessagesCarried'
    BY <2>1, MovingChangesNoRank DEF MInv, MessagesCarried, rankVars
  <2>4. OneMessageEach'
    BY <2>1 DEF MInv, OneMessageEach
  <2> QED BY <2>1, <2>2, <2>3, <2>4, MovingChangesNoRank
<1> HIDE DEF Rest
<1>6. Rest
  BY <1>1, <1>2, <1>3, <1>4, <1>5, StepCases
<1> QED BY <1>0, <1>6 DEF MInv, Rest

(***************************************************************************)
(* Both ends of every channel have completed the same operations: a send   *)
(* is posted and over exactly when the receive it is for is (HaloUpdater,  *)
(* VectorInterfaceHaloUpdater, HaloUpdateRequest).                         *)
(***************************************************************************)
THEOREM MatchingInvariant == Spec => []MInv
BY InitMatching, NextMatching, PTL DEF Spec

(***************************************************************************)
(* Whatever the program, the tags and the order in which MPI moves the     *)
(* messages, those it matches are the two ends of one operation: an        *)
(* updater and an interface exchange may share a tag without mixing up     *)
(* their points (HaloUpdater.start, start_synchronize_vector_interfaces).  *)
(***************************************************************************)
THEOREM OnlyOneOperationMeets == Spec => []MatchedMessagesAgree
<1>1. MInv => MatchedMessagesAgree
  BY MatchesAgree DEF MatchedMessagesAgree
<1> QED BY <1>1, MatchingInvariant, PTL

(***************************************************************************)
(* The halo exchange implements the promise of HaloExchange.               *)
(*                                                                         *)
(* The start that a rank remembers is its last one, and what MPI holds or  *)
(* has delivered is what the start of that number offered; so a wait       *)
(* unpacks what the promise names.  The ends of a channel have completed   *)
(* the same operations (MInv), so a wait that finds its receives over      *)
(* finds its sources at their own start or past it.                        *)
(***************************************************************************)

(* Last indices.                                                           *)

(* v is the last of the indices up to k that are in S, 0 when none is. *)
IsLast(v, S, k) ==
  /\ v \in 0..k
  /\ v # 0 => v \in S
  /\ \A j \in S : j <= k => j <= v

(* A set of naturals with an element up to k has a greatest one. *)
LEMMA GreatestExists ==
  ASSUME NEW k \in Nat, NEW S \in SUBSET (1..k), S # {}
  PROVE  \E j \in S : \A i \in S : i <= j
<1> DEFINE T == {k - j : j \in S}
<1>1. T \subseteq Nat /\ T # {}
  <2>1. \A j \in S : k - j \in Nat
    OBVIOUS
  <2> QED BY <2>1
<1>2. PICK x \in T : \A y \in T : ~ (<<y, x>> \in OpToRel(<, Nat))
  <2> HIDE DEF T
  <2> QED BY <1>1, WFMin, NatLessThanWellFounded
<1>3. \A y \in T : ~ (y < x)
  BY <1>1, <1>2 DEF OpToRel
<1>4. PICK j \in S : x = k - j
  OBVIOUS
<1>5. ASSUME NEW i \in S PROVE i <= j
  <2>1. k - i \in T
    OBVIOUS
  <2> HIDE DEF T
  <2> QED BY <1>3, <1>4, <2>1
<1> QED BY <1>5

(* There is at most one. *)
LEMMA LastUnique ==
  ASSUME NEW k \in Nat, NEW S, S \subseteq Nat \ {0}, NEW v, NEW w,
         IsLast(v, S, k), IsLast(w, S, k)
  PROVE  v = w
<1>1. v \in Nat /\ w \in Nat /\ v <= k /\ w <= k
  BY DEF IsLast
<1>2. v <= w
  BY <1>1 DEF IsLast
<1>3. w <= v
  BY <1>1 DEF IsLast
<1> QED BY <1>1, <1>2, <1>3

(* One operation more is the last, or changes nothing. *)
LEMMA LastMoves ==
  ASSUME NEW k \in Nat, NEW S, S \subseteq Nat \ {0}, NEW v, IsLast(v, S, k)
  PROVE  /\ k + 1 \in S => IsLast(k + 1, S, k + 1)
         /\ k + 1 \notin S => IsLast(v, S, k + 1)
BY DEF IsLast

(* The writes of a field, the starts and the waits of an object. *)
Writes(p, f) == {j \in 1..Len(p) : p[j].kind = "write" /\ p[j].field = f}

Starts(p, o) ==
  {j \in 1..Len(p) : p[j].kind \in {"start", "sync_start"} /\ p[j].obj = o}

Waits(p, o) ==
  {j \in 1..Len(p) : p[j].kind \in {"wait", "sync_wait"} /\ p[j].obj = o}

(* The waits that bring rank r points of field f from rank n. *)
WaitsFor(p, r, f, n) ==
  {j \in 1..Len(p) : /\ p[j].kind \in {"wait", "sync_wait"}
                     /\ p[StartOf(p, j)].field = f
                     /\ n \in SourcesOf(p[j].kind, r)}

(* The last write is what VersionAt returns. *)
LEMMA VersionIsLast ==
  ASSUME NEW p \in Seq(Op), NEW f, NEW k \in 0..Len(p)
  PROVE  IsLast(VersionAt(p, f, k), Writes(p, f), k)
<1> DEFINE S == {j \in 1..k : p[j].kind = "write" /\ p[j].field = f}
<1>1. k \in Nat /\ S \subseteq 1..k /\ Len(p) \in Nat
  OBVIOUS
<1>2. CASE S = {}
  <2>1. VersionAt(p, f, k) = 0
    BY <1>2 DEF VersionAt, LastIndex
  <2> QED BY <1>1, <1>2, <2>1 DEF IsLast, Writes
<1>3. CASE S # {}
  <2>1. \E j \in S : \A i \in S : i <= j
    BY <1>1, <1>3, GreatestExists
  <2>2. \E j \in 1..k : /\ p[j].kind = "write" /\ p[j].field = f
                        /\ \A i \in 1..k : p[i].kind = "write" /\ p[i].field = f => i <= j
    BY <2>1
  <2>3. /\ VersionAt(p, f, k) \in S
        /\ \A i \in S : i <= VersionAt(p, f, k)
    BY <2>2 DEF VersionAt, LastIndex
  <2> QED BY <1>1, <2>3 DEF IsLast, Writes
<1> QED BY <1>2, <1>3

(* The last start of a wait's object is what StartOf returns. *)
LEMMA StartIsLast ==
  ASSUME NEW p \in Seq(Op), NEW k \in 1..Len(p), p[k].kind \in {"wait", "sync_wait"}
  PROVE  IsLast(StartOf(p, k), Starts(p, p[k].obj), k)
<1> DEFINE S == {j \in 1..k : p[j].obj = p[k].obj /\ p[j].kind = StartKind(p[k].kind)}
<1>1. k \in Nat /\ S \subseteq 1..k /\ Len(p) \in Nat
  OBVIOUS
<1>0. S = Starts(p, p[k].obj) \cap (1..k)
  <2>1. ASSUME NEW j \in 1..k, p[j].obj = p[k].obj
        PROVE  p[j].kind \in {"start", "sync_start"} <=> p[j].kind = StartKind(p[k].kind)
    <3>1. p[j] \in Op /\ p[k] \in Op
      OBVIOUS
    <3>2. /\ p[j].kind = "start" => p[j].obj \in Updaters
          /\ p[j].kind = "sync_start" => p[j].obj \in Requests
          /\ p[k].kind = "wait" => p[k].obj \in Updaters
          /\ p[k].kind = "sync_wait" => p[k].obj \in Requests
      BY <3>1, OpTypes DEF UpdaterOps, RequestOps
    <3> QED BY <2>1, <3>2, ObjectsAssumption DEF StartKind
  <2> QED BY <2>1 DEF Starts
<1>2. CASE S = {}
  <2>1. StartOf(p, k) = 0
    BY <1>2 DEF StartOf, LastIndex
  <2> HIDE DEF S
  <2> QED BY <1>0, <1>1, <1>2, <2>1 DEF IsLast
<1>3. CASE S # {}
  <2>1. \E j \in S : \A i \in S : i <= j
    BY <1>1, <1>3, GreatestExists
  <2>2. \E j \in 1..k :
          /\ p[j].obj = p[k].obj /\ p[j].kind = StartKind(p[k].kind)
          /\ \A i \in 1..k : p[i].obj = p[k].obj /\ p[i].kind = StartKind(p[k].kind) => i <= j
    BY <2>1
  <2>3. /\ StartOf(p, k) \in S
        /\ \A i \in S : i <= StartOf(p, k)
    BY <2>2 DEF StartOf, LastIndex
  <2> HIDE DEF S
  <2> QED BY <1>0, <1>1, <2>3 DEF IsLast
<1> QED BY <1>2, <1>3

(* The last such wait is what LastWaitFor returns. *)
LEMMA WaitIsLast ==
  ASSUME NEW p \in Seq(Op), NEW r, NEW f, NEW n, NEW k \in 0..Len(p)
  PROVE  IsLast(LastWaitFor(p, r, f, n, k), WaitsFor(p, r, f, n), k)
<1> DEFINE S == {j \in 1..k : /\ p[j].kind \in {"wait", "sync_wait"}
                              /\ p[StartOf(p, j)].field = f
                              /\ n \in SourcesOf(p[j].kind, r)}
<1>1. k \in Nat /\ S \subseteq 1..k /\ Len(p) \in Nat
  OBVIOUS
<1>2. CASE S = {}
  <2>1. LastWaitFor(p, r, f, n, k) = 0
    BY <1>2 DEF LastWaitFor, LastIndex
  <2> QED BY <1>1, <1>2, <2>1 DEF IsLast, WaitsFor
<1>3. CASE S # {}
  <2>1. \E j \in S : \A i \in S : i <= j
    BY <1>1, <1>3, GreatestExists
  <2>2. \E j \in 1..k :
          /\ p[j].kind \in {"wait", "sync_wait"} /\ p[StartOf(p, j)].field = f
          /\ n \in SourcesOf(p[j].kind, r)
          /\ \A i \in 1..k : /\ p[i].kind \in {"wait", "sync_wait"} /\ p[StartOf(p, i)].field = f
                             /\ n \in SourcesOf(p[i].kind, r)
                             => i <= j
    BY <2>1
  <2>3. /\ LastWaitFor(p, r, f, n, k) \in S
        /\ \A i \in S : i <= LastWaitFor(p, r, f, n, k)
    BY <2>2 DEF LastWaitFor, LastIndex
  <2> QED BY <1>1, <2>3 DEF IsLast, WaitsFor
<1> QED BY <1>2, <1>3

(* The promise of HaloExchange is stated with the same operators. *)
LEMMA PromisedOperators ==
  /\ \A p, f, k : Promised!VersionAt(p, f, k) = VersionAt(p, f, k)
  /\ \A p, k : Promised!StartOf(p, k) = StartOf(p, k)
  /\ \A kind, r : Promised!SourcesOf(kind, r) = SourcesOf(kind, r)
<1>1. \A p, f, k : Promised!VersionAt(p, f, k) = VersionAt(p, f, k)
  BY DEF Promised!VersionAt, VersionAt, Promised!LastIndex, LastIndex
<1>2. \A p, k : Promised!StartOf(p, k) = StartOf(p, k)
  BY DEF Promised!StartOf, StartOf, Promised!StartKind, StartKind, Promised!LastIndex, LastIndex
<1>3. \A kind, r : Promised!SourcesOf(kind, r) = SourcesOf(kind, r)
  BY DEF Promised!SourcesOf, SourcesOf, Promised!UpdaterOps, UpdaterOps
<1> QED BY <1>1, <1>2, <1>3

(* An exchange is under way when its last start comes after its last wait. *)
LEMMA UnderWayIsLast ==
  ASSUME program \in Seq(Op), NEW o, NEW k \in 0..Len(program),
         NEW s, NEW w, IsLast(s, Starts(program, o), k), IsLast(w, Waits(program, o), k)
  PROVE  Promised!UnderWay(o, k) <=> s > w
<1> DEFINE S == {j \in 1..k : program[j].obj = o /\ program[j].kind \in {"start", "sync_start"}}
           W == {j \in 1..k : program[j].obj = o /\ program[j].kind \in {"wait", "sync_wait"}}
           s1 == LastIndex(k, LAMBDA j : /\ program[j].obj = o
                                         /\ program[j].kind \in {"start", "sync_start"})
           w1 == LastIndex(k, LAMBDA j : /\ program[j].obj = o
                                         /\ program[j].kind \in {"wait", "sync_wait"})
<1>1. /\ k \in Nat /\ Len(program) \in Nat
      /\ S = Starts(program, o) \cap (1..k) /\ W = Waits(program, o) \cap (1..k)
  BY DEF Starts, Waits
<1>2. Promised!UnderWay(o, k) <=> s1 > w1
  BY DEF Promised!UnderWay, Promised!LastIndex, LastIndex
<1>3. s1 = s
  <2>1. CASE S = {}
    <3>1. s1 = 0
      BY <2>1 DEF LastIndex
    <3> HIDE DEF s1, S
    <3> QED BY <1>1, <2>1, <3>1 DEF IsLast
  <2>2. CASE S # {}
    <3>1. \E j \in S : \A i \in S : i <= j
      BY <1>1, <2>2, GreatestExists
    <3>2. \E j \in 1..k :
            /\ program[j].obj = o /\ program[j].kind \in {"start", "sync_start"}
            /\ \A i \in 1..k :
                 program[i].obj = o /\ program[i].kind \in {"start", "sync_start"} => i <= j
      BY <3>1
    <3>3. s1 \in S /\ \A i \in S : i <= s1
      BY <3>2 DEF LastIndex
    <3> HIDE DEF s1, S
    <3> QED BY <1>1, <3>3 DEF IsLast
  <2> QED BY <2>1, <2>2
<1>4. w1 = w
  <2>1. CASE W = {}
    <3>1. w1 = 0
      BY <2>1 DEF LastIndex
    <3> HIDE DEF w1, W
    <3> QED BY <1>1, <2>1, <3>1 DEF IsLast
  <2>2. CASE W # {}
    <3>1. \E j \in W : \A i \in W : i <= j
      BY <1>1, <2>2, GreatestExists
    <3>2. \E j \in 1..k :
            /\ program[j].obj = o /\ program[j].kind \in {"wait", "sync_wait"}
            /\ \A i \in 1..k :
                 program[i].obj = o /\ program[i].kind \in {"wait", "sync_wait"} => i <= j
      BY <3>1
    <3>3. w1 \in W /\ \A i \in W : i <= w1
      BY <3>2 DEF LastIndex
    <3> HIDE DEF w1, W
    <3> QED BY <1>1, <3>3 DEF IsLast
  <2> QED BY <2>1, <2>2
<1> QED BY <1>2, <1>3, <1>4

-----------------------------------------------------------------------------
(* The inductive invariant: what the messages and the buffers hold.        *)

(* What the start at index op offers the ranks around n. *)
Offered(n, op) == [rank |-> n, ver |-> VersionAt(program, program[op].field, op)]

DataIsTheLastWrite ==
  \A r \in Ranks, f \in Fields : IsLast(data[r][f], Writes(program, f), pc[r])

(* The start under way is the last one, and nothing has waited for it yet. *)
StartsRemembered ==
  \A r \in Ranks, o \in Objects :
    /\ inflight[r][o] # 0 =>
         /\ IsLast(inflight[r][o], Starts(program, o), pc[r])
         /\ \A w \in Waits(program, o) : w <= pc[r] => w < inflight[r][o]
    /\ inflight[r][o] = 0 =>
         \A j \in Starts(program, o) :
           j <= pc[r] => \E w \in Waits(program, o) : j < w /\ w <= pc[r]

(* A one-shot updater is spent by its wait. *)
OneShotsAreSpent ==
  \A r \in Ranks, u \in Updaters :
    /\ status[r][u] = "finalized" =>
         u \in OneShot /\ \E w \in Waits(program, u) : w <= pc[r]
    /\ u \in OneShot /\ status[r][u] \notin {"finalized", "deleted"} =>
         \A w \in Waits(program, u) : pc[r] < w

(* What is on the way is what its start offered, and so is what arrived. *)
SentAsOffered ==
  /\ \A m \in sends : memory[m.src][m.buf] = Offered(m.src, m.op)
  /\ \A m \in sysbuf : m.val = Offered(m.src, m.op)

RecvBuffer(r, n, k) == buffer[r][<<program[k].obj, "recv", n>>]

Arrived(r, n, k) ==
  /\ Carries(n, r, k)
  /\ Posted(r, k, EarlyRecvs)
  /\ RecvBuffer(r, n, k) # None
  /\ ~RecvOpen(n, r, k)

ArrivedAsOffered ==
  \A r \in Ranks, n \in Ranks, k \in 1..Len(program) :
    Arrived(r, n, k) => memory[r][RecvBuffer(r, n, k)] = Offered(n, k)

(* The rank waits for the request i. *)
AtSyncWait(r, i) == Executes(r, "sync_wait") /\ CurrentOp(r).obj = i

(* A request gives its buffers back only while the rank waits for it. *)
RequestsHold ==
  \A r \in Ranks, i \in Requests :
    status[r][i] = "inflight" /\ ~AtSyncWait(r, i) =>
      \A n \in SyncFrom[r] : buffer[r][<<i, "recv", n>>] # None

(* The wait for a request has unpacked the edge of rank n. *)
EdgeUnpacked(r, f, n) ==
  /\ Executes(r, "sync_wait")
  /\ status[r][CurrentOp(r).obj] = "inflight"
  /\ program[inflight[r][CurrentOp(r).obj]].field = f
  /\ n \in SyncFrom[r] /\ buffer[r][<<CurrentOp(r).obj, "recv", n>>] = None

GhostsAsPromised ==
  \A r \in Ranks, f \in Fields, n \in Ranks :
    /\ EdgeUnpacked(r, f, n) => ghost[r][f][n] = Offered(n, inflight[r][CurrentOp(r).obj])
    /\ ~EdgeUnpacked(r, f, n) => ghost[r][f][n] = Received(r, f, n)

PInv ==
  /\ MInv
  /\ DataIsTheLastWrite
  /\ StartsRemembered
  /\ OneShotsAreSpent
  /\ SentAsOffered
  /\ ArrivedAsOffered
  /\ RequestsHold
  /\ GhostsAsPromised

-----------------------------------------------------------------------------
(* What a rank has done.                                                   *)

(* Indices of the operations of a program, as sets of positive numbers. *)
LEMMA IndexSets ==
  ASSUME NEW p \in Seq(Op)
  PROVE  /\ \A f : Writes(p, f) \subseteq Nat \ {0}
         /\ \A o : Starts(p, o) \subseteq Nat \ {0}
         /\ \A o : Waits(p, o) \subseteq Nat \ {0}
         /\ \A r, f, n : WaitsFor(p, r, f, n) \subseteq Nat \ {0}
<1>1. Len(p) \in Nat
  OBVIOUS
<1> QED BY <1>1 DEF Writes, Starts, Waits, WaitsFor

(* A step of a rank moves its counter by one, and only its own. *)
LEMMA CounterMoves ==
  ASSUME TypeOK, NEW r \in Ranks, RankStep(r), NEW q \in Ranks
  PROVE  /\ pc[q] \in Nat /\ pc[q] <= Len(program)
         /\ q # r => pc'[q] = pc[q]
         /\ Stays(r) => pc'[q] = pc[q]
         /\ Moves(r) => pc'[r] = pc[r] + 1
<1>1. pc \in [Ranks -> Nat] /\ \A s \in Ranks : pc[s] <= Len(program)
  BY DEF TypeOK, RankTypeOK
<1>2. Stays(r) \/ Moves(r)
  BY RankMoves
<1> QED BY <1>1, <1>2 DEF Stays, Moves

(* The version of a rank's points is that of the last write it finished. *)
LEMMA DataRankStep ==
  ASSUME TypeOK, DataIsTheLastWrite, NEW r \in Ranks, RankStep(r)
  PROVE  DataIsTheLastWrite'
<1>0. /\ program' = program /\ (Stays(r) \/ Moves(r)) /\ pc[r] + 1 \in 1..Len(program)
      /\ CurrentOp(r) = program[pc[r] + 1] /\ program \in Seq(Op)
      /\ data \in [Ranks -> [Fields -> Nat]]
  BY RankMoves, Typed DEF TypeOK, RankTypeOK
<1> SUFFICES ASSUME NEW q \in Ranks, NEW f \in Fields
             PROVE  IsLast(data'[q][f], Writes(program, f), pc'[q])
  BY <1>0 DEF DataIsTheLastWrite
<1>1. /\ IsLast(data[q][f], Writes(program, f), pc[q])
      /\ Writes(program, f) \subseteq Nat \ {0}
      /\ pc[q] \in Nat /\ (q # r => pc'[q] = pc[q])
      /\ Stays(r) => pc'[q] = pc[q]
      /\ Moves(r) => pc'[r] = pc[r] + 1
  BY <1>0, IndexSets, CounterMoves DEF DataIsTheLastWrite
<1>2. CASE Write(r)
  <2>1. /\ program[pc[r] + 1].kind = "write" /\ pc'[r] = pc[r] + 1
        /\ data' = [data EXCEPT ![r][program[pc[r] + 1].field] = pc[r] + 1]
        /\ program[pc[r] + 1].field \in Fields
    BY <1>0, <1>1, <1>2, ProgramOps, Typed DEF Write, Executes, Advance
  <2>2. CASE q = r /\ f = program[pc[r] + 1].field
    <3>1. pc[r] + 1 \in Writes(program, f)
      BY <1>0, <2>1, <2>2 DEF Writes
    <3>2. data'[q][f] = pc[r] + 1
      BY <1>0, <2>1, <2>2
    <3> QED BY <1>1, <2>1, <2>2, <3>1, <3>2, LastMoves
  <2>3. CASE q = r /\ f # program[pc[r] + 1].field
    <3>1. pc[r] + 1 \notin Writes(program, f)
      BY <2>3 DEF Writes
    <3>2. data'[q][f] = data[q][f]
      BY <1>0, <2>1, <2>3
    <3> QED BY <1>1, <2>1, <2>3, <3>1, <3>2, LastMoves
  <2>4. CASE q # r
    <3>1. data'[q][f] = data[q][f]
      BY <1>0, <2>1, <2>4
    <3> QED BY <1>1, <2>4, <3>1
  <2> QED BY <2>2, <2>3, <2>4
<1>3. CASE ~Write(r)
  <2>1. data' = data
    BY <1>3
    DEF RankStep, Compile, Create, StartRecv, StartSend, StartRaises, Wait, WaitRaises, Delete,
        SyncIsend, SyncIrecv, SyncStarted, SyncSendDone, SyncRecvDone, SyncWaited,
        Raise, rankVars
  <2>2. CASE Moves(r) /\ q = r
    <3>1. program[pc[r] + 1].kind # "write"
      <4>1. CASE program[pc[r] + 1].kind = "write"
        BY <1>0, <1>3, <4>1
        DEF RankStep, Compile, Create, StartRecv, StartSend, StartRaises, Wait, WaitRaises, Delete,
            SyncIsend, SyncIrecv, SyncStarted, SyncSendDone, SyncRecvDone, SyncWaited,
            Executes
      <4> QED BY <4>1
    <3>2. pc[r] + 1 \notin Writes(program, f)
      BY <3>1 DEF Writes
    <3> QED BY <1>1, <2>1, <2>2, <3>2, LastMoves
  <2>3. CASE ~(Moves(r) /\ q = r)
    BY <1>0, <1>1, <2>1, <2>3
  <2> QED BY <2>2, <2>3
<1> QED BY <1>2, <1>3

(* A rank finishes the start of an object, a wait for it, or nothing of it. *)
StartsNow(r, o) ==
  /\ Moves(r) /\ pc[r] + 1 \in Starts(program, o)
  /\ status[r][o] \in {"receiving", "absent"} /\ inflight[r][o] = 0
  /\ status'[r][o] = "inflight" /\ inflight'[r][o] = pc[r] + 1

WaitsNow(r, o) ==
  /\ Moves(r) /\ pc[r] + 1 \in Waits(program, o)
  /\ status[r][o] = "inflight" /\ inflight[r][o] # 0
  /\ status'[r][o] = (IF o \in OneShot \cup Requests THEN "finalized" ELSE "idle")
  /\ inflight'[r][o] = 0

Neither(r, q, o) ==
  /\ inflight'[q][o] = inflight[q][o]
  /\ q = r /\ Moves(r) => pc[r] + 1 \notin Starts(program, o) \cup Waits(program, o)

(* Every step of a rank is one of the three for every object. *)
LEMMA ExchangeMoves ==
  ASSUME IInv, NEW r \in Ranks, RankStep(r), NEW q \in Ranks, NEW o \in Objects
  PROVE  \/ q = r /\ StartsNow(r, o)
         \/ q = r /\ WaitsNow(r, o)
         \/ Neither(r, q, o)
<1> DEFINE k == pc[r] + 1
<1>0. /\ TypeOK /\ program' = program /\ (Stays(r) \/ Moves(r)) /\ k \in 1..Len(program)
      /\ CurrentOp(r) = program[k] /\ pc \in [Ranks -> Nat]
      /\ status \in [Ranks -> [Objects -> States]]
      /\ inflight \in [Ranks -> [Objects -> Nat]]
      /\ Updaters \cap Requests = {} /\ Updaters \subseteq Objects /\ Requests \subseteq Objects
      /\ status[r][o] = "inflight" <=> inflight[r][o] # 0
      /\ OneShot \subseteq Updaters
  BY RankMoves, Typed, ObjectsAssumption DEF IInv, LifeCycle
<1>1. ASSUME NEW kind, Executes(r, kind)
      PROVE  /\ program[k].kind = kind
             /\ kind \notin {"start", "sync_start", "wait", "sync_wait"} =>
                  k \notin Starts(program, o) \cup Waits(program, o)
             /\ kind \in {"start", "sync_start"} =>
                  /\ k \in Starts(program, program[k].obj)
                  /\ o # program[k].obj => k \notin Starts(program, o)
                  /\ k \notin Waits(program, o)
             /\ kind \in {"wait", "sync_wait"} =>
                  /\ k \in Waits(program, program[k].obj)
                  /\ o # program[k].obj => k \notin Waits(program, o)
                  /\ k \notin Starts(program, o)
             /\ kind \in {"start", "wait"} => program[k].obj \in Updaters
             /\ kind \in {"sync_start", "sync_wait"} => program[k].obj \in Requests
  <2>1. program[k].kind = kind
    BY <1>0, <1>1 DEF Executes
  <2> QED BY <1>0, <2>1, ProgramOps DEF Starts, Waits, UpdaterOps, RequestOps
<1>2. CASE inflight' = inflight /\ Stays(r)
  BY <1>0, <1>2 DEF Neither, Stays, Moves
<1>3. CASE Create(r) \/ Delete(r) \/ Write(r)
  <2>1. inflight' = inflight
    BY <1>3 DEF Create, Delete, Write
  <2>2. k \notin Starts(program, o) \cup Waits(program, o)
    BY <1>1, <1>3 DEF Create, Delete, Write
  <2> QED BY <2>1, <2>2 DEF Neither
<1>4. CASE StartSend(r)
  <2>1. /\ Executes(r, "start") /\ status[r][program[k].obj] = "receiving"
        /\ inflight' = [inflight EXCEPT ![r][program[k].obj] = k]
        /\ status' = [status EXCEPT ![r][program[k].obj] = "inflight"]
        /\ pc' = [pc EXCEPT ![r] = pc[r] + 1]
    BY <1>0, <1>4 DEF StartSend, Advance
  <2>2. CASE q = r /\ o = program[k].obj
    BY <1>0, <1>1, <2>1, <2>2 DEF StartsNow, Moves
  <2>3. CASE ~(q = r /\ o = program[k].obj)
    <3>1. inflight'[q][o] = inflight[q][o]
      BY <1>0, <2>1, <2>3
    <3>2. q = r => k \notin Starts(program, o) \cup Waits(program, o)
      BY <1>1, <2>1, <2>3
    <3> QED BY <3>1, <3>2 DEF Neither
  <2> QED BY <2>2, <2>3
<1>5. CASE SyncStarted(r)
  <2>1. /\ Executes(r, "sync_start") /\ status[r][program[k].obj] = "absent"
        /\ inflight' = [inflight EXCEPT ![r][program[k].obj] = k]
        /\ status' = [status EXCEPT ![r][program[k].obj] = "inflight"]
        /\ pc' = [pc EXCEPT ![r] = pc[r] + 1]
    BY <1>0, <1>5 DEF SyncStarted, Advance
  <2>2. CASE q = r /\ o = program[k].obj
    BY <1>0, <1>1, <2>1, <2>2 DEF StartsNow, Moves
  <2>3. CASE ~(q = r /\ o = program[k].obj)
    <3>1. inflight'[q][o] = inflight[q][o]
      BY <1>0, <2>1, <2>3
    <3>2. q = r => k \notin Starts(program, o) \cup Waits(program, o)
      BY <1>1, <2>1, <2>3
    <3> QED BY <3>1, <3>2 DEF Neither
  <2> QED BY <2>2, <2>3
<1>6. CASE Wait(r)
  <2>1. /\ Executes(r, "wait") /\ status[r][program[k].obj] = "inflight"
        /\ inflight' = [inflight EXCEPT ![r][program[k].obj] = 0]
        /\ status' = [status EXCEPT ![r][program[k].obj] =
                        IF program[k].obj \in OneShot THEN "finalized" ELSE "idle"]
        /\ pc' = [pc EXCEPT ![r] = pc[r] + 1]
    BY <1>0, <1>6 DEF Wait, Advance
  <2>2. CASE q = r /\ o = program[k].obj
    BY <1>0, <1>1, <2>1, <2>2 DEF WaitsNow, Moves
  <2>3. CASE ~(q = r /\ o = program[k].obj)
    <3>1. inflight'[q][o] = inflight[q][o]
      BY <1>0, <2>1, <2>3
    <3>2. q = r => k \notin Starts(program, o) \cup Waits(program, o)
      BY <1>1, <2>1, <2>3
    <3> QED BY <3>1, <3>2 DEF Neither
  <2> QED BY <2>2, <2>3
<1>7. CASE SyncWaited(r)
  <2>1. /\ Executes(r, "sync_wait") /\ status[r][program[k].obj] = "inflight"
        /\ inflight' = [inflight EXCEPT ![r][program[k].obj] = 0]
        /\ status' = [status EXCEPT ![r][program[k].obj] = "finalized"]
        /\ pc' = [pc EXCEPT ![r] = pc[r] + 1]
    BY <1>0, <1>7 DEF SyncWaited, Advance
  <2>2. CASE q = r /\ o = program[k].obj
    BY <1>0, <1>1, <2>1, <2>2 DEF WaitsNow, Moves
  <2>3. CASE ~(q = r /\ o = program[k].obj)
    <3>1. inflight'[q][o] = inflight[q][o]
      BY <1>0, <2>1, <2>3
    <3>2. q = r => k \notin Starts(program, o) \cup Waits(program, o)
      BY <1>1, <2>1, <2>3
    <3> QED BY <3>1, <3>2 DEF Neither
  <2> QED BY <2>2, <2>3
<1>8. \/ inflight' = inflight /\ Stays(r)
      \/ Create(r) \/ Delete(r) \/ Write(r) \/ StartSend(r) \/ SyncStarted(r)
      \/ Wait(r) \/ SyncWaited(r)
  BY DEF RankStep, Compile, StartRecv, StartRaises, WaitRaises,
         SyncIsend, SyncIrecv, SyncSendDone, SyncRecvDone, Raise, rankVars, Stays
<1> QED BY <1>2, <1>3, <1>4, <1>5, <1>6, <1>7, <1>8

(* The start a rank remembers is its last, and not waited for. *)
LEMMA StartsRankStep ==
  ASSUME IInv, StartsRemembered, NEW r \in Ranks, RankStep(r)
  PROVE  StartsRemembered'
<1>0. /\ TypeOK /\ program' = program /\ (Stays(r) \/ Moves(r)) /\ program \in Seq(Op)
  BY RankMoves, Typed DEF IInv
<1> SUFFICES ASSUME NEW q \in Ranks, NEW o \in Objects
      PROVE  /\ inflight'[q][o] # 0 =>
                  /\ IsLast(inflight'[q][o], Starts(program, o), pc'[q])
                  /\ \A w \in Waits(program, o) : w <= pc'[q] => w < inflight'[q][o]
             /\ inflight'[q][o] = 0 =>
                  \A j \in Starts(program, o) :
                    j <= pc'[q] => \E w \in Waits(program, o) : j < w /\ w <= pc'[q]
  BY <1>0 DEF StartsRemembered
<1>1. /\ inflight[q][o] # 0 =>
           /\ IsLast(inflight[q][o], Starts(program, o), pc[q])
           /\ \A w \in Waits(program, o) : w <= pc[q] => w < inflight[q][o]
      /\ inflight[q][o] = 0 =>
           \A j \in Starts(program, o) :
             j <= pc[q] => \E w \in Waits(program, o) : j < w /\ w <= pc[q]
  BY DEF StartsRemembered
<1>2. /\ pc[q] \in Nat /\ pc[r] \in Nat /\ (q # r => pc'[q] = pc[q])
      /\ Stays(r) => pc'[q] = pc[q]
      /\ Moves(r) => pc'[r] = pc[r] + 1
      /\ Starts(program, o) \subseteq Nat \ {0} /\ Waits(program, o) \subseteq Nat \ {0}
  BY <1>0, IndexSets, CounterMoves
<1>3. CASE q = r /\ StartsNow(r, o)
  <2>1. pc'[r] = pc[r] + 1 /\ inflight'[r][o] = pc[r] + 1 /\ pc[r] + 1 \in Starts(program, o)
    BY <1>2, <1>3 DEF StartsNow
  <2>2. pc[r] + 1 \notin Waits(program, o)
    BY <2>1 DEF Starts, Waits
  <2>3. IsLast(pc[r] + 1, Starts(program, o), pc[r] + 1)
    BY <1>2, <2>1 DEF IsLast
  <2>4. ASSUME NEW w \in Waits(program, o), w <= pc[r] + 1 PROVE w < pc[r] + 1
    <3>1. w \in Nat /\ w # pc[r] + 1
      BY <1>2, <2>2
    <3> QED BY <1>2, <2>4, <3>1
  <2>5. pc[r] + 1 # 0
    BY <1>2
  <2> QED BY <1>3, <2>1, <2>3, <2>4, <2>5
<1>4. CASE q = r /\ WaitsNow(r, o)
  <2>1. pc'[r] = pc[r] + 1 /\ inflight'[r][o] = 0 /\ pc[r] + 1 \in Waits(program, o)
    BY <1>2, <1>4 DEF WaitsNow
  <2>2. pc[r] + 1 \notin Starts(program, o)
    BY <2>1 DEF Starts, Waits
  <2> QED BY <1>2, <1>4, <2>1, <2>2
<1>5. CASE Neither(r, q, o)
  <2>1. CASE q = r /\ Moves(r)
    <3>1. pc'[q] = pc[q] + 1 /\ inflight'[q][o] = inflight[q][o]
          /\ pc[q] + 1 \notin Starts(program, o) /\ pc[q] + 1 \notin Waits(program, o)
      BY <1>2, <1>5, <2>1 DEF Neither
    <3>2. ASSUME inflight[q][o] # 0
          PROVE  /\ IsLast(inflight[q][o], Starts(program, o), pc[q] + 1)
                 /\ \A w \in Waits(program, o) : w <= pc[q] + 1 => w < inflight[q][o]
      BY <1>1, <1>2, <3>1, <3>2, LastMoves
    <3>3. ASSUME inflight[q][o] = 0, NEW j \in Starts(program, o), j <= pc[q] + 1
          PROVE  \E w \in Waits(program, o) : j < w /\ w <= pc[q] + 1
      <4>1. j <= pc[q]
        BY <1>2, <3>1, <3>3
      <4> QED BY <1>1, <1>2, <3>3, <4>1
    <3> QED BY <3>1, <3>2, <3>3
  <2>2. CASE ~(q = r /\ Moves(r))
    BY <1>0, <1>1, <1>2, <1>5, <2>2 DEF Neither
  <2> QED BY <2>1, <2>2
<1> QED BY <1>3, <1>4, <1>5, ExchangeMoves

(* A one-shot updater is spent from its wait on. *)
LEMMA OneShotsRankStep ==
  ASSUME IInv, OneShotsAreSpent, NEW r \in Ranks, RankStep(r)
  PROVE  OneShotsAreSpent'
<1> DEFINE k == pc[r] + 1
<1>0. /\ TypeOK /\ program' = program /\ (Stays(r) \/ Moves(r)) /\ program \in Seq(Op)
      /\ CurrentOp(r) = program[k] /\ Updaters \subseteq Objects
      /\ status \in [Ranks -> [Objects -> States]]
      /\ Updaters \cap Requests = {} /\ OneShot \subseteq Updaters
  BY RankMoves, Typed, ObjectsAssumption DEF IInv
<1> SUFFICES ASSUME NEW q \in Ranks, NEW u \in Updaters
      PROVE  /\ status'[q][u] = "finalized" =>
                  u \in OneShot /\ \E w \in Waits(program, u) : w <= pc'[q]
             /\ u \in OneShot /\ status'[q][u] \notin {"finalized", "deleted"} =>
                  \A w \in Waits(program, u) : pc'[q] < w
  BY <1>0 DEF OneShotsAreSpent
<1>1. /\ status[q][u] = "finalized" =>
           u \in OneShot /\ \E w \in Waits(program, u) : w <= pc[q]
      /\ u \in OneShot /\ status[q][u] \notin {"finalized", "deleted"} =>
           \A w \in Waits(program, u) : pc[q] < w
  BY DEF OneShotsAreSpent
<1>2. /\ pc[q] \in Nat /\ pc[r] \in Nat /\ (q # r => pc'[q] = pc[q])
      /\ Stays(r) => pc'[q] = pc[q]
      /\ Moves(r) => pc'[r] = pc[r] + 1
      /\ Waits(program, u) \subseteq Nat \ {0} /\ u \in Objects
      /\ pc[q] <= pc'[q] /\ pc'[q] \in Nat
  BY <1>0, IndexSets, CounterMoves
<1>3. CASE q = r /\ WaitsNow(r, u)
  <2>1. /\ pc'[r] = pc[r] + 1 /\ pc[r] + 1 \in Waits(program, u)
        /\ status'[r][u] = IF u \in OneShot THEN "finalized" ELSE "idle"
    BY <1>0, <1>2, <1>3 DEF WaitsNow
  <2>2. \E w \in Waits(program, u) : w <= pc'[r]
    BY <1>2, <2>1
  <2> QED BY <1>3, <2>1, <2>2
<1>4. CASE ~(q = r /\ WaitsNow(r, u))
  <2>1. status'[q][u] = "finalized" => status[q][u] = "finalized"
    <3>1. CASE Wait(r)
      <4>1. /\ status' = [status EXCEPT ![r][program[k].obj] =
                            IF program[k].obj \in OneShot THEN "finalized" ELSE "idle"]
            /\ status[r][program[k].obj] = "inflight"
            /\ inflight' = [inflight EXCEPT ![r][program[k].obj] = 0]
        BY <1>0, <3>1 DEF Wait
      <4>2. ASSUME q = r, u = program[k].obj PROVE FALSE
        <5>1. inflight[r][u] # 0 /\ inflight'[r][u] = 0
          BY <1>0, <1>2, <4>1, <4>2, Typed DEF IInv, LifeCycle
        <5>2. ~StartsNow(r, u) /\ ~Neither(r, r, u)
          BY <1>2, <5>1 DEF StartsNow, Neither
        <5> QED BY <1>2, <1>4, <4>2, <5>2, ExchangeMoves
      <4> QED BY <1>0, <1>2, <4>1, <4>2
    <3>2. CASE SyncWaited(r)
      <4>1. /\ status' = [status EXCEPT ![r][program[k].obj] = "finalized"]
            /\ program[k].obj \in Requests
        BY <1>0, <3>2, CurrentOpType DEF SyncWaited, RequestOps
      <4> QED BY <1>0, <1>2, <4>1
    <3>3. CASE \/ status' = status
               \/ \E v \in States \ {"finalized"} : status' = [status EXCEPT ![r][program[k].obj] = v]
      BY <1>0, <1>2, <3>3
    <3> QED
      BY <1>0, <3>1, <3>2, <3>3
      DEF RankStep, Compile, Create, StartRecv, StartSend, StartRaises, WaitRaises, Delete,
          SyncIsend, SyncIrecv, SyncStarted, SyncSendDone, SyncRecvDone, Write,
          Raise, rankVars, States
  <2>2. status[q][u] \in {"finalized", "deleted"} => status'[q][u] \in {"finalized", "deleted"}
    <3>1. CASE status' = status
      BY <3>1
    <3>2. CASE Delete(r)
      <4>1. status' = [status EXCEPT ![r][program[k].obj] = "deleted"]
        BY <1>0, <3>2 DEF Delete
      <4> QED BY <1>0, <1>2, <4>1
    <3>3. CASE /\ status[r][program[k].obj] \notin {"finalized", "deleted"}
               /\ \E v \in States : status' = [status EXCEPT ![r][program[k].obj] = v]
      BY <1>0, <1>2, <3>3
    <3> QED
      BY <1>0, <3>1, <3>2, <3>3
      DEF RankStep, Compile, Create, StartRecv, StartSend, StartRaises, Wait, WaitRaises,
          SyncIsend, SyncIrecv, SyncStarted, SyncSendDone, SyncRecvDone, SyncWaited, Write,
          Raise, rankVars, States, Spent
  <2>3. q = r /\ Moves(r) => pc[r] + 1 \notin Waits(program, u)
    <3>1. pc[r] + 1 \in Starts(program, u) => pc[r] + 1 \notin Waits(program, u)
      BY DEF Starts, Waits
    <3> QED BY <1>2, <1>4, <3>1, ExchangeMoves DEF StartsNow, Neither
  <2>4. ASSUME \A w \in Waits(program, u) : pc[q] < w
        PROVE  \A w \in Waits(program, u) : pc'[q] < w
    <3>1. CASE q = r /\ Moves(r)
      <4>1. pc'[q] = pc[q] + 1 /\ pc[q] + 1 \notin Waits(program, u)
        BY <1>2, <2>3, <3>1
      <4>2. ASSUME NEW w \in Waits(program, u) PROVE pc[q] + 1 < w
        <5>1. w \in Nat /\ pc[q] < w /\ w # pc[q] + 1
          BY <1>2, <2>4, <4>1
        <5> QED BY <1>2, <5>1
      <4> QED BY <4>1, <4>2
    <3>2. CASE ~(q = r /\ Moves(r))
      BY <1>0, <1>2, <2>4, <3>2
    <3> QED BY <3>1, <3>2
  <2>5. (\E w \in Waits(program, u) : w <= pc[q]) => \E w \in Waits(program, u) : w <= pc'[q]
    BY <1>2
  <2> QED BY <1>1, <2>1, <2>2, <2>4, <2>5
<1> QED BY <1>3, <1>4

-----------------------------------------------------------------------------
(* What the messages hold.                                                 *)

(* A start packs the version that the program makes current there. *)
LEMMA PackedIsOffered ==
  ASSUME TypeOK, DataIsTheLastWrite, NEW r \in Ranks, NEW k \in 1..Len(program),
         k = pc[r] + 1, program[k].kind \in {"start", "sync_start"}
  PROVE  Packed(r, program[k].field) = Offered(r, k)
<1> DEFINE f == program[k].field
<1>1. /\ program \in Seq(Op) /\ pc[r] \in Nat /\ f \in Fields /\ k \in 0..Len(program) /\ k \in Nat
      /\ Writes(program, f) \subseteq Nat \ {0}
  BY Typed, ProgramOps, IndexSets
<1>2. k \notin Writes(program, f)
  BY DEF Writes
<1> HIDE DEF f
<1>3. IsLast(data[r][f], Writes(program, f), k)
  BY <1>1, <1>2, LastMoves DEF DataIsTheLastWrite
<1>4. IsLast(VersionAt(program, f, k), Writes(program, f), k)
  BY <1>1, VersionIsLast
<1>5. data[r][f] = VersionAt(program, f, k)
  BY <1>1, <1>3, <1>4, LastUnique
<1> QED BY <1>5 DEF Packed, Offered, f

(* A program does not change what it offers. *)
LEMMA OfferedKept ==
  ASSUME program' = program
  PROVE  \A n, k : Offered(n, k)' = Offered(n, k)
BY DEF Offered

(* What a start posts is what it packed. *)
LEMMA SentRankStep ==
  ASSUME IInv, DataIsTheLastWrite, SentAsOffered, NEW r \in Ranks, RankStep(r)
  PROVE  SentAsOffered'
<1>0. /\ TypeOK /\ BuffersPartitioned /\ program' = program /\ sysbuf' = sysbuf
      /\ CurrentOp(r) = program[pc[r] + 1] /\ pc[r] + 1 \in 1..Len(program)
      /\ memory \in [Ranks -> [Buffers -> Value]] /\ [Next]_vars
  BY RankMoves, NewSends DEF IInv, TypeOK, BufferTypeOK, Next
<1>1. ASSUME NEW m \in sends, m \in sends'
      PROVE  memory'[m.src][m.buf] = Offered(m.src, m.op)
  BY <1>0, <1>1, FrozenStep DEF SentAsOffered
<1>2. ASSUME NEW m \in sends', m \notin sends
      PROVE  memory'[m.src][m.buf] = Offered(m.src, m.op)
  <2>1. PICK k : k = pc[r] + 1
    OBVIOUS
  <2>2. program[k].kind \in {"start", "sync_start"} => Packed(r, program[k].field) = Offered(r, k)
    BY <1>0, <2>1, PackedIsOffered DEF IInv
  <2>3. CASE StartSend(r)
    <3> DEFINE u == program[k].obj
               packBuffers == {buffer[r][<<u, "send", n>>] : n \in Neighbors[r]}
    <3>1. /\ memory' = [memory EXCEPT ![r] =
                         [b \in Buffers |-> IF b \in packBuffers
                                            THEN Packed(r, program[k].field) ELSE @[b]]]
          /\ sends' = sends \cup SendsOf(r, u, k)
          /\ status[r][u] = "receiving" /\ program[k].kind = "start" /\ u \in Updaters
      BY <1>0, <2>1, <2>3, CurrentOpType DEF StartSend, Executes, UpdaterOps
    <3>2. m \in SendsOf(r, u, k) /\ k \in Nat
      BY <1>0, <1>2, <2>1, <3>1
    <3>3. PICK n \in Neighbors[r] :
            m = [src |-> r, dst |-> n, tag |-> tag[r][u], op |-> k,
                 buf |-> buffer[r][<<u, "send", n>>]]
      BY <3>2 DEF SendsOf
    <3>4. m.buf \in Buffers
      BY <3>1, <3>2, MessageTypes DEF SendMsg
    <3>5. m.src = r /\ m.op = k /\ m.buf \in packBuffers
      BY <3>3
    <3> HIDE DEF packBuffers, u
    <3>6. memory'[r][m.buf] = Packed(r, program[k].field)
      BY <1>0, <3>1, <3>4, <3>5
    <3> QED BY <2>2, <3>1, <3>5, <3>6
  <2>4. CASE SyncIsend(r)
    <3>1. PICK n \in Ranks, b \in Buffers : IsendEffect(r, n, b)
      BY <1>0, <2>4, IsendPops
    <3>2. /\ memory' = [memory EXCEPT ![r][b] = Packed(r, program[k].field)]
          /\ m = [src |-> r, dst |-> n, tag |-> InterfaceTag, op |-> k, buf |-> b]
          /\ program[k].kind = "sync_start"
      BY <1>0, <1>2, <2>1, <3>1 DEF IsendEffect, Executes
    <3>3. memory'[r][b] = Packed(r, program[k].field) /\ m.src = r /\ m.op = k /\ m.buf = b
      BY <1>0, <3>2
    <3> QED BY <2>2, <3>2, <3>3
  <2>5. CASE sends' = sends
    BY <1>2, <2>5
  <2> QED
    BY <2>3, <2>4, <2>5
    DEF RankStep, Compile, Create, StartRecv, StartRaises, Wait, WaitRaises, Delete,
        SyncIrecv, SyncStarted, SyncSendDone, SyncRecvDone, SyncWaited, Write, Raise, netVars
<1> QED BY <1>0, <1>1, <1>2, OfferedKept DEF SentAsOffered

(* MPI moves what was packed. *)
LEMMA SentMovingStep ==
  ASSUME IInv, SentAsOffered, [Next]_vars,
         \/ \E m \in sends, p \in recvs : Deliver(m, p)
         \/ \E m \in sysbuf, p \in recvs : DeliverCopy(m, p)
         \/ \E m \in sends : CopyOut(m)
         \/ UNCHANGED vars
  PROVE  SentAsOffered'
<1>0. program' = program /\ sends' \subseteq sends
  BY DEF Deliver, DeliverCopy, CopyOut, vars, rankVars, netVars
<1>1. \A m \in sends' : memory'[m.src][m.buf] = Offered(m.src, m.op)
  BY <1>0, FrozenStep DEF SentAsOffered
<1>2. \A m \in sysbuf' : m.val = Offered(m.src, m.op)
  <2>1. CASE sysbuf' \subseteq sysbuf
    BY <2>1 DEF SentAsOffered
  <2>2. ASSUME NEW m \in sends, CopyOut(m) PROVE \A x \in sysbuf' : x.val = Offered(x.src, x.op)
    BY <2>2 DEF CopyOut, SentAsOffered
  <2> QED BY <2>1, <2>2 DEF Deliver, DeliverCopy, vars, netVars
<1> QED BY <1>0, <1>1, <1>2, OfferedKept DEF SentAsOffered

-----------------------------------------------------------------------------
(* What has arrived.                                                       *)

(* A start of an object, and the slot that receives from a rank. *)
LEMMA CarriedSlots ==
  ASSUME TypeOK, NEW s \in Ranks, NEW d \in Ranks, NEW k \in 1..Len(program), Carries(s, d, k)
  PROVE  /\ k \in Nat /\ k # 0 /\ program[k].kind \in {"start", "sync_start"}
         /\ program[k].obj \in Objects
         /\ program[k].kind = "start" <=> program[k].obj \in Updaters
         /\ program[k].kind = "start" => s \in Neighbors[d]
         /\ program[k].kind = "sync_start" => program[k].obj \in Requests /\ s \in SyncFrom[d]
         /\ <<program[k].obj, "recv", s>> \in Slots
<1>1. /\ program[k].kind \in {"start", "sync_start"} /\ k \in Nat /\ k # 0
      /\ program[k].kind = "start" => s \in Neighbors[d]
      /\ program[k].kind = "sync_start" => s \in SyncFrom[d]
  BY Typed, BoundariesAssumption DEF Carries
<1>2. /\ program[k].kind = "start" => program[k].obj \in Updaters
      /\ program[k].kind = "sync_start" => program[k].obj \in Requests
      /\ Updaters \cap Requests = {} /\ Updaters \subseteq Objects /\ Requests \subseteq Objects
  BY ProgramOps, Typed DEF UpdaterOps, RequestOps
<1> QED BY <1>1, <1>2, SlotTypes

(* A buffer that has received is not exchanged for another. *)
LEMMA ReceivedBufferKept ==
  ASSUME IInv, NEW r \in Ranks, RankStep(r), NEW q \in Ranks, NEW n \in Ranks,
         NEW k \in 1..Len(program), Carries(n, q, k), Posted(q, k, EarlyRecvs),
         buffer'[q][<<program[k].obj, "recv", n>>] # None, ~RecvOpen(n, q, k)'
  PROVE  buffer'[q][<<program[k].obj, "recv", n>>] = buffer[q][<<program[k].obj, "recv", n>>]
<1> DEFINE o == program[k].obj
           slot == <<o, "recv", n>>
           j == pc[r] + 1
<1>0. /\ TypeOK /\ BuffersPartitioned /\ buffer \in [Ranks -> [Slots -> Buffers \cup {None}]]
      /\ CurrentOp(r) = program[j] /\ program' = program
      /\ slot \in Slots /\ o \in Objects /\ k # 0
      /\ program[k].kind \in {"start", "sync_start"}
      /\ status[q][o] = "inflight" <=> inflight[q][o] # 0
      /\ Updaters \cap Requests = {}
  <2>1. TypeOK /\ BuffersPartitioned /\ LifeCycle
    BY DEF IInv
  <2>2. /\ slot \in Slots /\ o \in Objects /\ k # 0
        /\ program[k].kind \in {"start", "sync_start"}
    BY <2>1, CarriedSlots
  <2>3. status[q][o] = "inflight" <=> inflight[q][o] # 0
    BY <2>1, <2>2 DEF LifeCycle
  <2> QED BY <2>1, <2>2, <2>3, RankMoves, Typed
<1>1. CASE q # r
  BY <1>0, <1>1, OwnSlots
<1>2. CASE q = r /\ Compile(r)
  <2>1. program[j].kind = "create" /\ status[r][program[j].obj] = "absent"
    BY <1>0, <1>2 DEF Compile, Executes
  <2>2. o # program[j].obj
    BY <1>0, <1>2, <2>1 DEF Posted, EarlyRecvs
  <2> QED BY <1>0, <2>2, OwnSlots
<1>3. CASE q = r /\ SyncIsend(r)
  <2>1. PICK m \in Ranks, b \in Buffers : IsendEffect(r, m, b)
    BY <1>0, <1>3, IsendPops
  <2>2. buffer' = [buffer EXCEPT ![r][<<program[j].obj, "send", m>>] = b]
    BY <1>0, <2>1 DEF IsendEffect, Pops
  <2> QED BY <1>0, <1>3, <2>2
<1>4. CASE q = r /\ SyncIrecv(r)
  <2>1. PICK m \in Ranks, b \in Buffers : IrecvEffect(r, m, b)
    BY <1>0, <1>4, IrecvPops
  <2>2. /\ buffer' = [buffer EXCEPT ![r][<<program[j].obj, "recv", m>>] = b]
        /\ program[j].kind = "sync_start" /\ status[r][program[j].obj] = "absent"
        /\ [src |-> m, dst |-> r, tag |-> InterfaceTag, op |-> j, buf |-> b] \in recvs'
    BY <1>0, <2>1 DEF IrecvEffect, Pops, Executes
  <2>3. CASE slot = <<program[j].obj, "recv", m>>
    <3>1. k = j /\ n = m
      BY <1>0, <1>4, <2>2, <2>3 DEF Posted
    <3>2. RecvOpen(n, q, k)'
      BY <1>4, <2>2, <3>1 DEF RecvOpen, IsAbout
    <3> QED BY <3>2
  <2>4. CASE slot # <<program[j].obj, "recv", m>>
    BY <1>0, <1>4, <2>2, <2>4
  <2> QED BY <2>3, <2>4
<1>5. CASE q = r /\ ~Compile(r) /\ ~SyncIsend(r) /\ ~SyncIrecv(r)
  <2>1. buffer' = buffer \/ \E slots \in SUBSET Slots : Drop(r, slots)
    <3>1. CASE Wait(r) \/ Delete(r)
      <4>1. CurrentOp(r).obj \in Objects
        BY <1>0, <3>1, CurrentOpType DEF Wait, Delete, UpdaterOps, Objects
      <4>2. UpdaterSlots(CurrentOp(r).obj, r) \in SUBSET Slots
        BY <4>1, SlotTypes
      <4> QED BY <3>1, <4>2 DEF Wait, Delete, PushToCache
    <3>2. CASE SyncSendDone(r) \/ SyncRecvDone(r)
      <4>1. CurrentOp(r).obj \in Objects
        BY <1>0, <3>2, CurrentOpType DEF SyncSendDone, SyncRecvDone, RequestOps, Objects
      <4>2. \A m \in Ranks : /\ {<<CurrentOp(r).obj, "send", m>>} \in SUBSET Slots
                             /\ {<<CurrentOp(r).obj, "recv", m>>} \in SUBSET Slots
        BY <4>1, SlotTypes
      <4> QED BY <3>2, <4>2, BoundariesAssumption DEF SyncSendDone, SyncRecvDone, PushToCache
    <3> QED
      BY <1>5, <3>1, <3>2
      DEF RankStep, Create, StartRecv, StartSend, StartRaises, WaitRaises, Raise,
          SyncStarted, SyncWaited, Write, bufVars
  <2>2. ASSUME NEW slots \in SUBSET Slots, Drop(r, slots)
        PROVE  buffer'[q][slot] = buffer[q][slot]
    BY <1>0, <1>5, <2>2, DropEffect
  <2> QED BY <2>1, <2>2
<1> QED BY <1>1, <1>2, <1>3, <1>4, <1>5

(* Ranks write only into buffers they send from. *)
LEMMA ReceivedMemoryKept ==
  ASSUME IInv, NEW r \in Ranks, RankStep(r), NEW q \in Ranks, NEW o \in Objects, NEW n \in Ranks,
         buffer[q][<<o, "recv", n>>] # None
  PROVE  memory'[q][buffer[q][<<o, "recv", n>>]] = memory[q][buffer[q][<<o, "recv", n>>]]
<1> DEFINE slot == <<o, "recv", n>>
           b == buffer[q][slot]
<1>0. /\ TypeOK /\ BuffersPartitioned /\ memory \in [Ranks -> [Buffers -> Value]]
      /\ slot \in Slots /\ b \in Buffers
  <2>1. TypeOK /\ BuffersPartitioned /\ slot \in Slots
    BY SlotTypes DEF IInv
  <2>2. b \in Buffers
    BY <2>1, Typed
  <2> QED BY <2>1, <2>2 DEF TypeOK, BufferTypeOK
<1>1. CASE StartSend(r)
  <2> DEFINE u == CurrentOp(r).obj
             packBuffers == {buffer[r][<<u, "send", m>>] : m \in Neighbors[r]}
  <2>1. /\ memory' = [memory EXCEPT ![r] =
                        [x \in Buffers |-> IF x \in packBuffers
                                           THEN Packed(r, CurrentOp(r).field) ELSE @[x]]]
        /\ u \in Objects
    BY <1>0, <1>1, CurrentOpType DEF StartSend, UpdaterOps, Objects
  <2>2. ASSUME q = r, NEW m \in Neighbors[r], b = buffer[r][<<u, "send", m>>] PROVE FALSE
    <3>1. <<u, "send", m>> \in Slots
      BY <2>1, SlotTypes
    <3>2. <<u, "send", m>> = slot
      BY <1>0, <2>2, <3>1 DEF BuffersPartitioned
    <3> QED BY <3>2
  <2>3. q = r => b \notin packBuffers
    BY <2>2
  <2> HIDE DEF b, packBuffers
  <2>4. memory'[q][b] = memory[q][b]
    BY <1>0, <2>1, <2>3
  <2> QED BY <2>4 DEF b
<1>2. CASE SyncIsend(r)
  <2>1. PICK m \in Ranks, c \in Buffers : IsendEffect(r, m, c)
    BY <1>0, <1>2, IsendPops
  <2>2. q = r => b # c
    BY <1>0, <2>1 DEF IsendEffect, Pops
  <2>3. memory' = [memory EXCEPT ![r][c] = Packed(r, CurrentOp(r).field)]
    BY <2>1 DEF IsendEffect
  <2> QED BY <1>0, <2>2, <2>3
<1>3. CASE memory' = memory
  BY <1>3
<1> QED
  BY <1>1, <1>2, <1>3
  DEF RankStep, Compile, Create, StartRecv, StartRaises, Wait, WaitRaises, Raise, Delete,
      SyncIrecv, SyncStarted, SyncSendDone, SyncRecvDone, SyncWaited, Write, bufVars

(* No step of a rank makes a message arrive. *)
LEMMA ArrivedRankStep ==
  ASSUME MInv, ArrivedAsOffered, NEW r \in Ranks, RankStep(r)
  PROVE  ArrivedAsOffered'
<1>0. /\ TypeOK /\ IInv /\ program' = program /\ RequestsStartEmpty /\ ReceivesInsideStart
      /\ [Next]_vars /\ \A n, k : Offered(n, k)' = Offered(n, k)
  BY RankMoves, OfferedKept DEF MInv, IInv, Next
<1>00. IInv'
  BY <1>0, NextInvariant
<1> SUFFICES ASSUME NEW q \in Ranks, NEW n \in Ranks, NEW k \in 1..Len(program),
                    Arrived(q, n, k)'
             PROVE  memory'[q][buffer'[q][<<program[k].obj, "recv", n>>]] = Offered(n, k)
  BY <1>0 DEF ArrivedAsOffered, RecvBuffer
<1> DEFINE o == program[k].obj
           slot == <<o, "recv", n>>
<1>1. /\ Carries(n, q, k) /\ buffer'[q][slot] # None /\ ~RecvOpen(n, q, k)'
      /\ \/ inflight'[q][o] = k
         \/ k = pc'[q] + 1 /\ <<program[k].kind, status'[q][o]>> \in EarlyRecvs
  BY <1>0 DEF Arrived, Carries, Posted, RecvBuffer
<1>2. /\ k \in Nat /\ k # 0 /\ o \in Objects /\ slot \in Slots
      /\ program[k].kind \in {"start", "sync_start"}
      /\ pc[q] \in Nat /\ pc'[q] \in Nat /\ inflight'[q][o] <= pc'[q] /\ pc[q] <= pc'[q]
      /\ pc'[q] # pc[q] => q = r /\ Moves(r) /\ pc'[q] = pc[q] + 1
  <2>1. pc'[q] \in Nat
    BY <1>00, Typed DEF IInv, TypeOK, RankTypeOK
  <2>2. pc[q] \in Nat /\ (q # r => pc'[q] = pc[q]) /\ (Stays(r) => pc'[q] = pc[q])
        /\ (Moves(r) => pc'[r] = pc[r] + 1) /\ (Stays(r) \/ Moves(r))
    BY <1>0, CounterMoves, RankMoves
  <2>3. o \in Objects => inflight'[q][o] <= pc'[q]
    BY <1>00 DEF IInv, LifeCycle
  <2> QED BY <1>0, <1>1, <2>1, <2>2, <2>3, CarriedSlots
<1>3. RecvPosted(n, q, k)'
  BY <1>0, <1>1, <1>2 DEF RecvPosted, AtInterface, EarlyRecvs
<1>4. RecvPosted(n, q, k) /\ ~RecvOpen(n, q, k)
  <2>1. RecvPosted(n, q, k)
    BY <1>0, <1>1, <1>3, RecvPostedStep DEF RecvOpen
  <2>2. recvs \subseteq recvs'
    <3>1. PICK j : j = pc[r] + 1
      OBVIOUS
    <3> QED BY <1>0, <3>1, NewRecvs
  <2> QED BY <1>1, <2>1, <2>2 DEF RecvOpen
<1>5. Posted(q, k, EarlyRecvs)
  <2>1. CASE k <= pc[q]
    <3>1. inflight'[q][o] = k
      BY <1>1, <1>2, <2>1
    <3>2. ~(q = r /\ StartsNow(r, o)) /\ ~(q = r /\ WaitsNow(r, o))
      BY <1>2, <2>1, <3>1 DEF StartsNow, WaitsNow
    <3>3. Neither(r, q, o)
      BY <1>0, <1>2, <3>2, ExchangeMoves
    <3> QED BY <3>1, <3>3 DEF Neither, Posted
  <2>2. CASE ~(k <= pc[q])
    BY <1>4, <2>2 DEF RecvPosted, AtInterface, Posted, EarlyRecvs
  <2> QED BY <2>1, <2>2
<1>6. buffer'[q][slot] = buffer[q][slot]
  BY <1>0, <1>1, <1>5, ReceivedBufferKept
<1>7. memory[q][buffer[q][slot]] = Offered(n, k)
  BY <1>1, <1>4, <1>5, <1>6 DEF ArrivedAsOffered, Arrived, RecvBuffer
<1> QED BY <1>0, <1>1, <1>2, <1>6, <1>7, ReceivedMemoryKept

(* What MPI delivers is what the start of the same operation offered. *)
LEMMA ArrivingStep ==
  ASSUME MInv, ArrivedAsOffered, UNCHANGED <<rankVars, buffer>>,
         NEW m \in sends \cup sysbuf, NEW p \in recvs, Matches(m, p),
         memory' = [memory EXCEPT ![p.dst][p.buf] = Offered(m.src, m.op)],
         recvs' = recvs \ {p}
  PROVE  ArrivedAsOffered'
<1>0. /\ TypeOK /\ IInv /\ BuffersPartitioned /\ program' = program /\ buffer' = buffer
      /\ pc' = pc /\ status' = status /\ inflight' = inflight
      /\ memory \in [Ranks -> [Buffers -> Value]]
      /\ m.op = p.op /\ m.src = p.src /\ m.dst = p.dst
      /\ \A n, k : Offered(n, k)' = Offered(n, k)
  BY MatchesAgree, OfferedKept DEF MInv, IInv, TypeOK, BufferTypeOK, rankVars, Matches, SameChannel
<1>1. /\ p.src \in Ranks /\ p.dst \in Ranks /\ p.buf \in Buffers /\ p.op \in 1..Len(program)
      /\ p.op \in Nat /\ p.op # 0
      /\ RecvSlot(p) \in Slots /\ buffer[p.dst][RecvSlot(p)] = p.buf /\ p.buf # None
      /\ Posted(p.dst, p.op, EarlyRecvs)
  BY <1>0, PendingRecv
<1> SUFFICES ASSUME NEW q \in Ranks, NEW n \in Ranks, NEW k \in 1..Len(program),
                    Arrived(q, n, k)'
             PROVE  memory'[q][RecvBuffer(q, n, k)] = Offered(n, k)
  BY <1>0 DEF ArrivedAsOffered, RecvBuffer
<1> DEFINE o == program[k].obj
           slot == <<o, "recv", n>>
<1>2. /\ Carries(n, q, k) /\ Posted(q, k, EarlyRecvs)
      /\ buffer[q][slot] # None /\ ~RecvOpen(n, q, k)'
  BY <1>0 DEF Arrived, Carries, Posted, RecvBuffer
<1>3. slot \in Slots /\ buffer[q][slot] \in Buffers /\ o \in Objects /\ k \in Nat /\ k # 0
  BY <1>0, <1>2, CarriedSlots, Typed
<1>4. CASE n = p.src /\ q = p.dst /\ k = p.op
  <2>1. buffer[q][slot] = p.buf
    BY <1>1, <1>4 DEF RecvSlot
  <2> QED BY <1>0, <1>1, <1>4, <2>1 DEF RecvBuffer
<1>5. CASE ~(n = p.src /\ q = p.dst /\ k = p.op)
  <2>1. ~RecvOpen(n, q, k)
    BY <1>2, <1>5 DEF RecvOpen, IsAbout
  <2>2. memory[q][buffer[q][slot]] = Offered(n, k)
    BY <1>2, <2>1 DEF ArrivedAsOffered, Arrived, RecvBuffer
  <2>3. ASSUME q = p.dst, buffer[q][slot] = p.buf PROVE FALSE
    <3>1. slot = RecvSlot(p)
      BY <1>0, <1>1, <1>3, <2>3 DEF BuffersPartitioned
    <3>2. n = p.src /\ o = program[p.op].obj
      BY <3>1 DEF RecvSlot
    <3>3. k # p.op
      BY <1>5, <2>3, <3>2
    <3>4. /\ inflight[q][o] = k \/ (k = pc[q] + 1 /\ status[q][o] \in {"absent", "receiving"})
          /\ inflight[q][o] = p.op \/ (p.op = pc[q] + 1 /\ status[q][o] \in {"absent", "receiving"})
      BY <1>1, <1>2, <2>3, <3>2 DEF Posted, EarlyRecvs
    <3>5. status[q][o] = "inflight" <=> inflight[q][o] # 0
      BY <1>0, <1>3 DEF IInv, LifeCycle
    <3> QED BY <1>1, <1>3, <3>3, <3>4, <3>5
  <2>4. memory'[q][buffer[q][slot]] = memory[q][buffer[q][slot]]
    BY <1>0, <1>1, <1>3, <2>3
  <2> QED BY <2>2, <2>4 DEF RecvBuffer
<1> QED BY <1>4, <1>5

(* What has arrived stays while MPI moves other messages. *)
LEMMA ArrivedMovingStep ==
  ASSUME MInv, SentAsOffered, ArrivedAsOffered,
         \/ \E m \in sends, p \in recvs : Deliver(m, p)
         \/ \E m \in sysbuf, p \in recvs : DeliverCopy(m, p)
         \/ \E m \in sends : CopyOut(m)
         \/ UNCHANGED vars
  PROVE  ArrivedAsOffered'
<1>1. ASSUME NEW m \in sends, NEW p \in recvs, Deliver(m, p) PROVE ArrivedAsOffered'
  BY <1>1, ArrivingStep DEF Deliver, SentAsOffered
<1>2. ASSUME NEW m \in sysbuf, NEW p \in recvs, DeliverCopy(m, p) PROVE ArrivedAsOffered'
  BY <1>2, ArrivingStep DEF DeliverCopy, SentAsOffered
<1>3. ASSUME UNCHANGED <<rankVars, bufVars, recvs>> PROVE ArrivedAsOffered'
  <2>1. /\ program' = program /\ buffer' = buffer /\ memory' = memory /\ recvs' = recvs
        /\ pc' = pc /\ status' = status /\ inflight' = inflight
    BY <1>3 DEF rankVars, bufVars
  <2>2. \A n, k : Offered(n, k)' = Offered(n, k)
    BY <2>1, OfferedKept
  <2>3. \A q, n, k : /\ Arrived(q, n, k)' <=> Arrived(q, n, k)
                     /\ RecvBuffer(q, n, k)' = RecvBuffer(q, n, k)
    BY <2>1 DEF Arrived, RecvBuffer, Carries, Posted, RecvOpen
  <2> QED BY <2>1, <2>2, <2>3 DEF ArrivedAsOffered
<1> QED BY <1>1, <1>2, <1>3 DEF CopyOut, vars, netVars

-----------------------------------------------------------------------------
(* What the halos hold.                                                    *)

(* A step of a rank does not move another rank to another operation. *)
LEMMA OthersExecute ==
  ASSUME IInv, NEW r \in Ranks, RankStep(r), NEW q \in Ranks, q # r
  PROVE  /\ CurrentOp(q)' = CurrentOp(q)
         /\ \A kind : Executes(q, kind)' <=> Executes(q, kind)
<1>1. pc'[q] = pc[q] /\ program' = program
  BY OtherRank
<1>2. raised'[q] = raised[q]
  <2>1. raised \in [Ranks -> BOOLEAN]
    BY DEF IInv, TypeOK, RankTypeOK
  <2>2. raised' = raised \/ raised' = [raised EXCEPT ![r] = TRUE]
    BY DEF RankStep, Compile, Create, StartRecv, StartSend, StartRaises, Wait, WaitRaises,
       Delete, SyncIsend, SyncIrecv, SyncStarted, SyncSendDone, SyncRecvDone, SyncWaited,
       Write, Raise, rankVars
  <2> QED BY <2>1, <2>2
<1> QED BY <1>1, <1>2 DEF CurrentOp, Executes, Running

(* At the wait for a request a rank unpacks an edge, or is done with all. *)
LEMMA StepAtSyncWait ==
  ASSUME NEW r \in Ranks, RankStep(r)
  PROVE  Executes(r, "sync_wait") <=> SyncSendDone(r) \/ SyncRecvDone(r) \/ SyncWaited(r)
<1>1. ASSUME NEW a, NEW b, Executes(r, a), Executes(r, b) PROVE a = b
  BY <1>1 DEF Executes
<1>2. Executes(r, "sync_wait") => SyncSendDone(r) \/ SyncRecvDone(r) \/ SyncWaited(r)
  BY <1>1, StepExecutes DEF RankStep
<1> QED BY <1>2, StepExecutes

(* Only its wait gives back the buffers of a request under way. *)
LEMMA RequestBuffersStay ==
  ASSUME IInv, RequestsHold, NEW r \in Ranks, RankStep(r), NEW q \in Ranks,
         NEW i \in Requests, ~AtSyncWait(q, i), status'[q][i] = "inflight",
         NEW n \in SyncFrom[q]
  PROVE  buffer'[q][<<i, "recv", n>>] # None
<1> DEFINE slot == <<i, "recv", n>>
           k == pc[r] + 1
<1>0. /\ TypeOK /\ IInv' /\ program' = program /\ i \in Objects /\ slot \in Slots /\ n \in Ranks
      /\ CurrentOp(r) = program[k] /\ Updaters \cap Requests = {} /\ k \in 1..Len(program)
      /\ buffer \in [Ranks -> [Slots -> Buffers \cup {None}]]
  <2>1. [Next]_vars /\ TypeOK
    BY DEF Next, IInv
  <2>2. i \in Objects /\ n \in Ranks
    BY <2>1, BoundariesAssumption, Typed
  <2> QED BY <2>1, <2>2, NextInvariant, RankMoves, Typed, SlotTypes
<1>1. inflight'[q][i] # 0
  BY <1>0 DEF IInv, LifeCycle
<1>2. CASE q = r /\ StartsNow(r, i)
  <2>1. program[k].obj = i /\ program[k].kind \in {"start", "sync_start"} /\ pc' # pc
    <3>1. Moves(r) /\ k \in Starts(program, i)
      BY <1>2 DEF StartsNow
    <3>2. pc'[r] = pc[r] + 1 /\ pc[r] \in Nat
      BY <1>0, <3>1, CounterMoves
    <3> QED BY <3>1, <3>2 DEF Starts
  <2>2. program[k].kind = "sync_start"
    BY <1>0, <2>1, ProgramOps DEF UpdaterOps
  <2>3. SyncStarted(r)
    BY <1>0, <2>1, <2>2, StepAtStart DEF SyncIsend, SyncIrecv, rankVars
  <2>4. buffer[r][slot] # None /\ buffer' = buffer
    BY <1>0, <1>2, <2>1, <2>3 DEF SyncStarted, Unposted, bufVars
  <2> QED BY <1>2, <2>4
<1>3. CASE Neither(r, q, i)
  <2>1. status[q][i] = "inflight"
    BY <1>0, <1>1, <1>3 DEF Neither, IInv, LifeCycle
  <2>2. buffer[q][slot] # None
    BY <2>1 DEF RequestsHold
  <2>3. CASE q # r \/ i # CurrentOp(r).obj
    BY <1>0, <2>2, <2>3, OwnSlots
  <2>4. CASE q = r /\ i = CurrentOp(r).obj
    <3>1. ~Executes(r, "sync_wait")
      BY <2>4 DEF AtSyncWait
    <3>2. \A kind \in UpdaterOps : ~Executes(r, kind)
      BY <1>0, <2>4, CurrentOpType
    <3>3. Write(r)
      BY <2>1, <2>4, <3>1, <3>2
      DEF RankStep, Compile, Create, StartRecv, StartSend, StartRaises, Wait, WaitRaises, Delete,
          SyncIsend, SyncIrecv, SyncStarted, SyncSendDone, SyncRecvDone, SyncWaited, UpdaterOps
    <3> QED BY <2>2, <3>3 DEF Write, bufVars
  <2> QED BY <2>3, <2>4
<1>4. ~(q = r /\ WaitsNow(r, i))
  BY <1>1 DEF WaitsNow
<1> QED BY <1>0, <1>2, <1>3, <1>4, ExchangeMoves

(* A request under way keeps its buffers until the rank waits for it. *)
LEMMA RequestsRankStep ==
  ASSUME IInv, RequestsHold, NEW r \in Ranks, RankStep(r)
  PROVE  RequestsHold'
<1> SUFFICES ASSUME NEW q \in Ranks, NEW i \in Requests, status'[q][i] = "inflight",
                    ~AtSyncWait(q, i)', NEW n \in SyncFrom[q]
             PROVE  buffer'[q][<<i, "recv", n>>] # None
  BY DEF RequestsHold
<1>1. CASE AtSyncWait(q, i)
  <2>1. q = r
    BY <1>1, OthersExecute DEF AtSyncWait
  <2>2. Executes(r, "sync_wait") /\ CurrentOp(r).obj = i /\ status \in [Ranks -> [Objects -> States]]
        /\ i \in Objects
    BY <1>1, <2>1, Typed DEF AtSyncWait, IInv
  <2>3. CASE SyncWaited(r)
    <3>1. status' = [status EXCEPT ![r][i] = "finalized"]
      BY <2>2, <2>3 DEF SyncWaited
    <3> QED BY <2>1, <2>2, <3>1
  <2>4. CASE SyncSendDone(r) \/ SyncRecvDone(r)
    <3>1. program' = program /\ pc' = pc /\ raised' = raised
      BY <2>4 DEF SyncSendDone, SyncRecvDone, rankVars
    <3> QED BY <1>1, <3>1 DEF AtSyncWait, Executes, Running, CurrentOp
  <2> QED BY <2>2, <2>3, <2>4, StepAtSyncWait
<1>2. CASE ~AtSyncWait(q, i)
  BY <1>2, RequestBuffersStay
<1> QED BY <1>1, <1>2

(* When a rank comes to the wait for a request nothing of it is unpacked. *)
LEMMA NoEdgeUnpackedYet ==
  ASSUME IInv, RequestsHold, NEW r \in Ranks, RankStep(r),
         Moves(r) \/ ~Executes(r, "sync_wait"), NEW f, NEW n
  PROVE  ~EdgeUnpacked(r, f, n)'
<1> SUFFICES ASSUME EdgeUnpacked(r, f, n)' PROVE FALSE
  OBVIOUS
<1> DEFINE i == program[pc'[r] + 1].obj
<1>0. /\ TypeOK /\ IInv' /\ program' = program /\ program' \in Seq(Op)
      /\ status \in [Ranks -> [Objects -> States]] /\ pc[r] \in Nat
  <2>1. [Next]_vars /\ TypeOK
    BY DEF Next, IInv
  <2>2. IInv'
    BY <2>1, NextInvariant
  <2> QED BY <2>1, <2>2, RankMoves, Typed DEF IInv, TypeOK, RankTypeOK
<1>1. /\ ~raised'[r] /\ pc'[r] < Len(program) /\ program[pc'[r] + 1].kind = "sync_wait"
      /\ status'[r][i] = "inflight" /\ n \in SyncFrom[r] /\ buffer'[r][<<i, "recv", n>>] = None
  BY <1>0 DEF EdgeUnpacked, Executes, Running, CurrentOp
<1>2. i \in Requests
  <2>1. pc'[r] \in Nat
    BY <1>0 DEF IInv, TypeOK, RankTypeOK
  <2>2. pc'[r] + 1 \in 1..Len(program)
    BY <1>0, <1>1, <2>1
  <2> QED BY <1>0, <1>1, <2>2, ProgramOps DEF RequestOps
<1> HIDE DEF i
<1>3. AtSyncWait(r, i)
  BY <1>1, <1>2, RequestBuffersStay
<1>4. SyncWaited(r)
  <2>1. Executes(r, "sync_wait")
    BY <1>3 DEF AtSyncWait
  <2>2. pc'[r] # pc[r]
    BY <1>0, <2>1, CounterMoves
  <2> QED BY <2>1, <2>2, StepAtSyncWait DEF SyncSendDone, SyncRecvDone, rankVars
<1>5. status' = [status EXCEPT ![r][i] = "finalized"]
  BY <1>3, <1>4 DEF SyncWaited, AtSyncWait
<1>6. i \in Objects
  BY <1>0, <1>2, Typed
<1> QED BY <1>0, <1>1, <1>5, <1>6

(* A wait brings the points its last start promised, other operations none. *)
LEMMA ReceivedMoves ==
  ASSUME TypeOK, program' = program, NEW r \in Ranks, pc[r] + 1 \in 1..Len(program),
         NEW f, NEW n
  PROVE  /\ pc'[r] = pc[r] => Received(r, f, n)' = Received(r, f, n)
         /\ pc'[r] = pc[r] + 1 /\ pc[r] + 1 \notin WaitsFor(program, r, f, n) =>
              Received(r, f, n)' = Received(r, f, n)
         /\ pc'[r] = pc[r] + 1 /\ pc[r] + 1 \in WaitsFor(program, r, f, n) =>
              Received(r, f, n)' =
                [rank |-> n, ver |-> VersionAt(program, f, StartOf(program, pc[r] + 1))]
<1> DEFINE k == pc[r] + 1
           S == WaitsFor(program, r, f, n)
<1>1. /\ program \in Seq(Op) /\ pc[r] \in Nat /\ pc[r] \in 0..Len(program) /\ k \in 0..Len(program)
      /\ S \subseteq Nat \ {0} /\ k # 0 /\ k \in Nat
  BY Typed, IndexSets
<1>2. /\ IsLast(LastWaitFor(program, r, f, n, pc[r]), S, pc[r])
      /\ IsLast(LastWaitFor(program, r, f, n, k), S, k)
  BY <1>1, WaitIsLast
<1> DEFINE v == LastWaitFor(program, r, f, n, pc[r])
           w == LastWaitFor(program, r, f, n, k)
<1> HIDE DEF S, v, w
<1>5. k = pc[r] + 1 /\ IsLast(v, S, pc[r]) /\ IsLast(w, S, k)
  BY <1>2 DEF v, w
<1> HIDE DEF k
<1>3. k \in S => w = k
  <2>1. k \in S => IsLast(k, S, k)
    BY <1>1, <1>5, LastMoves
  <2> QED BY <1>1, <1>5, <2>1, LastUnique
<1>4. k \notin S => w = v
  <2>1. k \notin S => IsLast(v, S, k)
    BY <1>1, <1>5, LastMoves
  <2> QED BY <1>1, <1>5, <2>1, LastUnique
<1> QED BY <1>1, <1>3, <1>4, <1>5 DEF Received, S, v, w

(* The wait for an exchange finishes the start that the rank remembers. *)
LEMMA RememberedStart ==
  ASSUME IInv, StartsRemembered, NEW r \in Ranks, NEW k \in 1..Len(program), k = pc[r] + 1,
         program[k].kind \in {"wait", "sync_wait"}, inflight[r][program[k].obj] # 0
  PROVE  /\ StartOf(program, k) = inflight[r][program[k].obj]
         /\ inflight[r][program[k].obj] \in Starts(program, program[k].obj)
         /\ inflight[r][program[k].obj] <= pc[r]
<1> DEFINE o == program[k].obj
<1>1. /\ TypeOK /\ program \in Seq(Op) /\ pc[r] \in Nat /\ k \in Nat
      /\ Starts(program, o) \subseteq Nat \ {0}
  BY Typed, IndexSets DEF IInv
<1>2. o \in Objects
  BY <1>1, ProgramOps DEF UpdaterOps, RequestOps, Objects
<1>3. IsLast(inflight[r][o], Starts(program, o), pc[r])
  BY <1>2 DEF StartsRemembered
<1>4. k \notin Starts(program, o)
  BY DEF Starts
<1>5. IsLast(inflight[r][o], Starts(program, o), k)
  BY <1>1, <1>3, <1>4, LastMoves
<1>6. IsLast(StartOf(program, k), Starts(program, o), k)
  BY <1>1, StartIsLast
<1>7. StartOf(program, k) = inflight[r][o]
  BY <1>1, <1>5, <1>6, LastUnique
<1> QED BY <1>3, <1>7 DEF IsLast

(* A wait unpacks what the last start of each source offered. *)
LEMMA UnpackedAsOffered ==
  ASSUME PInv, NEW r \in Ranks, NEW o \in Objects, NEW n \in Ranks, inflight[r][o] # 0,
         Carries(n, r, inflight[r][o]), inflight[r][o] \in Starts(program, o),
         buffer[r][<<o, "recv", n>>] # None, ~RecvOpen(n, r, inflight[r][o])
  PROVE  memory[r][buffer[r][<<o, "recv", n>>]] = Offered(n, inflight[r][o])
<1> DEFINE k == inflight[r][o]
<1>1. k \in 1..Len(program) /\ program[k].obj = o
  BY DEF Starts
<1>2. Posted(r, k, EarlyRecvs)
  BY <1>1 DEF Posted
<1> QED BY <1>1, <1>2 DEF PInv, ArrivedAsOffered, Arrived, RecvBuffer

(* The exchange under way brings points from the ranks its wait unpacks. *)
LEMMA UnderWayCarries ==
  ASSUME TypeOK, NEW r \in Ranks, NEW o, NEW n \in Ranks, NEW k \in Starts(program, o)
  PROVE  /\ k \in 1..Len(program) /\ program[k].obj = o
         /\ o \in Updaters /\ n \in Neighbors[r] => Carries(n, r, k)
         /\ o \in Requests /\ n \in SyncFrom[r] => Carries(n, r, k)
<1>1. k \in 1..Len(program) /\ program[k].obj = o /\ program[k].kind \in {"start", "sync_start"}
  BY DEF Starts
<1>2. /\ o \in Updaters => program[k].kind = "start"
      /\ o \in Requests => program[k].kind = "sync_start"
  BY <1>1, ProgramOps, Typed DEF UpdaterOps, RequestOps
<1> QED BY <1>1, <1>2, BoundariesAssumption DEF Carries

(* The wait of an updater brings the halo its last start promised. *)
LEMMA GhostsWait ==
  ASSUME PInv, NEW r \in Ranks, Wait(r), RankStep(r), NEW f \in Fields, NEW n \in Ranks
  PROVE  ghost'[r][f][n] = Received(r, f, n)'
<1> DEFINE k == pc[r] + 1
           u == program[k].obj
           j == inflight[r][u]
           S == WaitsFor(program, r, f, n)
<1>0. /\ TypeOK /\ IInv /\ StartsRemembered /\ program' = program /\ CurrentOp(r) = program[k]
      /\ k \in 1..Len(program) /\ pc[r] \in Nat /\ Executes(r, "wait")
      /\ ghost \in [Ranks -> [Fields -> [Ranks -> Value]]]
      /\ pc \in [Ranks -> Nat] /\ inflight \in [Ranks -> [Objects -> Nat]]
  BY RankMoves, Typed DEF PInv, MInv, IInv, TypeOK, RankTypeOK, Wait
<1>1. /\ program[k].kind = "wait" /\ u \in Updaters /\ u \in Objects /\ pc'[r] = k
      /\ status[r][u] = "inflight" /\ ~RecvsPending(r, j)
      /\ ghost' = [ghost EXCEPT ![r][program[j].field] =
                     [m \in Ranks |-> IF m \in Neighbors[r]
                                      THEN memory[r][buffer[r][<<u, "recv", m>>]] ELSE @[m]]]
  BY <1>0, CurrentOpType DEF Wait, Executes, Unpack, Advance, UpdaterOps, Objects
<1>2. j # 0 /\ StartOf(program, k) = j /\ j \in Starts(program, u)
  <2>1. j # 0
    BY <1>0, <1>1 DEF IInv, LifeCycle
  <2> QED BY <1>0, <1>1, <2>1, RememberedStart
<1>3. k \in S <=> program[j].field = f /\ n \in Neighbors[r]
  BY <1>0, <1>1, <1>2 DEF WaitsFor, SourcesOf, UpdaterOps
<1>4. ghost[r][f][n] = Received(r, f, n)
  BY <1>0 DEF PInv, GhostsAsPromised, EdgeUnpacked, Executes
<1>5. CASE k \in S
  <2>1. Received(r, f, n)' = [rank |-> n, ver |-> VersionAt(program, f, j)]
    BY <1>0, <1>1, <1>2, <1>5, ReceivedMoves
  <2>2. ghost'[r][f][n] = memory[r][buffer[r][<<u, "recv", n>>]]
    BY <1>0, <1>1, <1>3, <1>5
  <2>3. Carries(n, r, j)
    BY <1>0, <1>1, <1>2, <1>3, <1>5, UnderWayCarries
  <2>4. buffer[r][<<u, "recv", n>>] # None
    <3>1. <<u, "recv", n>> \in UpdaterSlots(u, r)
      BY <1>3, <1>5 DEF UpdaterSlots
    <3> QED BY <1>0, <1>1, <3>1 DEF IInv, LiveUpdatersHold
  <2>5. ~RecvOpen(n, r, j)
    BY <1>1 DEF RecvsPending, RecvOpen, IsAbout
  <2>6. memory[r][buffer[r][<<u, "recv", n>>]] = Offered(n, j)
    BY <1>1, <1>2, <2>3, <2>4, <2>5, UnpackedAsOffered
  <2> QED BY <1>3, <1>5, <2>1, <2>2, <2>6 DEF Offered
<1>6. CASE k \notin S
  <2>1. Received(r, f, n)' = Received(r, f, n)
    BY <1>0, <1>1, <1>6, ReceivedMoves
  <2>2. ghost'[r][f][n] = ghost[r][f][n]
    <3>1. CASE program[j].field = f
      BY <1>0, <1>1, <1>3, <1>6, <3>1
    <3>2. CASE program[j].field # f
      BY <1>0, <1>1, <3>2
    <3> QED BY <3>1, <3>2
  <2> QED BY <1>4, <2>1, <2>2
<1> QED BY <1>5, <1>6

(* The wait for a request unpacks one edge after the other. *)
LEMMA GhostsSyncWait ==
  ASSUME PInv, NEW r \in Ranks, Executes(r, "sync_wait"), RankStep(r),
         NEW f \in Fields, NEW n \in Ranks
  PROVE  /\ EdgeUnpacked(r, f, n)' =>
              ghost'[r][f][n] = Offered(n, inflight[r][CurrentOp(r).obj])'
         /\ ~EdgeUnpacked(r, f, n)' => ghost'[r][f][n] = Received(r, f, n)'
<1> DEFINE k == pc[r] + 1
           i == program[k].obj
           j == inflight[r][i]
           slot == <<i, "recv", n>>
<1>0. /\ TypeOK /\ IInv /\ StartsRemembered /\ RequestsHold /\ program' = program
      /\ CurrentOp(r) = program[k]
      /\ k \in 1..Len(program) /\ pc[r] \in Nat
      /\ ghost \in [Ranks -> [Fields -> [Ranks -> Value]]]
      /\ buffer \in [Ranks -> [Slots -> Buffers \cup {None}]]
      /\ \A m, op : Offered(m, op)' = Offered(m, op)
  BY RankMoves, Typed, OfferedKept DEF PInv, MInv, IInv, TypeOK, RankTypeOK
<1>1. /\ program[k].kind = "sync_wait" /\ i \in Requests /\ i \in Objects
      /\ status[r][i] = "inflight" /\ Running(r)
  BY <1>0, CurrentOpType, StepAtSyncWait
  DEF Executes, RequestOps, Objects, SyncSendDone, SyncRecvDone, SyncWaited
<1>2. slot \in Slots /\ j # 0 /\ StartOf(program, k) = j /\ j \in Starts(program, i)
  <2>1. j # 0
    BY <1>0, <1>1 DEF IInv, LifeCycle
  <2> QED BY <1>0, <1>1, <2>1, RememberedStart, SlotTypes
<1>3. /\ EdgeUnpacked(r, f, n) <=>
           program[j].field = f /\ n \in SyncFrom[r] /\ buffer[r][slot] = None
      /\ EdgeUnpacked(r, f, n) => ghost[r][f][n] = Offered(n, j)
      /\ ~EdgeUnpacked(r, f, n) => ghost[r][f][n] = Received(r, f, n)
  BY <1>0, <1>1 DEF EdgeUnpacked, PInv, GhostsAsPromised
<1>4. ASSUME pc' = pc, raised' = raised, status' = status, inflight' = inflight
      PROVE  /\ EdgeUnpacked(r, f, n)' <=>
                  program[j].field = f /\ n \in SyncFrom[r] /\ buffer'[r][slot] = None
             /\ Offered(n, inflight[r][CurrentOp(r).obj])' = Offered(n, j)
             /\ Received(r, f, n)' = Received(r, f, n)
  <2>1. /\ CurrentOp(r)' = program[k] /\ Executes(r, "sync_wait")'
        /\ inflight'[r][i] = j /\ status'[r][i] = "inflight"
    BY <1>0, <1>1, <1>4 DEF CurrentOp, Executes, Running
  <2>2. Received(r, f, n)' = Received(r, f, n)
    BY <1>0, <1>4, ReceivedMoves
  <2>3. Offered(n, inflight[r][CurrentOp(r).obj])' = Offered(n, j)
    BY <1>0, <2>1 DEF Offered
  <2> QED BY <1>0, <2>1, <2>2, <2>3 DEF EdgeUnpacked
<1>5. CASE SyncSendDone(r)
  <2>1. PICK m \in SyncTo[r] : PushToCache(r, {<<i, "send", m>>})
    BY <1>0, <1>5 DEF SyncSendDone
  <2>2. m \in Ranks
    BY BoundariesAssumption
  <2>5. <<i, "send", m>> \in Slots /\ <<i, "send", m>> # slot
    BY <1>1, <2>2, SlotTypes
  <2> DEFINE given == {<<i, "send", m>>}
  <2>6. given \in SUBSET Slots /\ slot \notin given /\ PushToCache(r, given)
    BY <2>1, <2>5
  <2> HIDE DEF given, slot
  <2>3. buffer'[r][slot] = buffer[r][slot]
    BY <1>0, <1>2, <2>6, PushEffect
  <2>4. ghost' = ghost /\ pc' = pc /\ raised' = raised /\ status' = status /\ inflight' = inflight
    BY <1>5 DEF SyncSendDone, rankVars
  <2> QED BY <1>3, <1>4, <2>3, <2>4
<1>6. CASE SyncRecvDone(r)
  <2>1. PICK m \in SyncFrom[r] : /\ buffer[r][<<i, "recv", m>>] # None
                                 /\ ~SyncRecvPending(r, m, j)
                                 /\ Unpack(r, i, {m})
                                 /\ PushToCache(r, {<<i, "recv", m>>})
    BY <1>0, <1>6 DEF SyncRecvDone
  <2>2. m \in Ranks
    BY BoundariesAssumption
  <2>8. <<i, "recv", m>> \in Slots /\ (<<i, "recv", m>> = slot <=> n = m)
    BY <1>1, <2>2, SlotTypes
  <2> DEFINE given == {<<i, "recv", m>>}
  <2>9. given \in SUBSET Slots /\ (slot \in given <=> n = m) /\ PushToCache(r, given)
    BY <2>1, <2>8
  <2>3. buffer'[r][slot] = IF n = m THEN None ELSE buffer[r][slot]
    <3> HIDE DEF given, slot
    <3> QED BY <1>0, <1>2, <2>9, PushEffect
  <2>4. pc' = pc /\ raised' = raised /\ status' = status /\ inflight' = inflight
    BY <1>6 DEF SyncRecvDone
  <2>5. ghost' = [ghost EXCEPT ![r][program[j].field] =
                    [x \in Ranks |-> IF x \in {m}
                                     THEN memory[r][buffer[r][<<i, "recv", x>>]] ELSE @[x]]]
    BY <2>1 DEF Unpack
  <2>6. CASE program[j].field = f /\ n = m
    <3>1. ghost'[r][f][n] = memory[r][buffer[r][slot]]
      BY <1>0, <2>5, <2>6
    <3>2. Carries(n, r, j)
      BY <1>0, <1>1, <1>2, <2>1, <2>6, UnderWayCarries
    <3>3. ~RecvOpen(n, r, j)
      BY <2>1, <2>6 DEF SyncRecvPending, RecvOpen, IsAbout
    <3>4. ghost'[r][f][n] = Offered(n, j)
      BY <1>1, <1>2, <2>1, <2>6, <3>1, <3>2, <3>3, UnpackedAsOffered
    <3>5. EdgeUnpacked(r, f, n)'
      BY <1>4, <2>1, <2>3, <2>4, <2>6
    <3> QED BY <1>4, <2>4, <3>4, <3>5
  <2>7. CASE ~(program[j].field = f /\ n = m)
    <3>1. ghost'[r][f][n] = ghost[r][f][n]
      <4>1. CASE program[j].field = f
        BY <1>0, <2>5, <2>7, <4>1
      <4>2. CASE program[j].field # f
        BY <1>0, <2>5, <4>2
      <4> QED BY <4>1, <4>2
    <3>2. EdgeUnpacked(r, f, n)' <=> EdgeUnpacked(r, f, n)
      BY <1>3, <1>4, <2>3, <2>4, <2>7
    <3> QED BY <1>3, <1>4, <2>4, <3>1, <3>2
  <2> QED BY <2>6, <2>7
<1>7. CASE SyncWaited(r)
  <2>1. /\ pc' = [pc EXCEPT ![r] = pc[r] + 1] /\ ghost' = ghost
        /\ \A m \in SyncFrom[r] : buffer[r][<<i, "recv", m>>] = None
    BY <1>0, <1>7 DEF SyncWaited, Advance
  <2>2. pc'[r] = k
    BY <1>0, <2>1, Typed
  <2>3. ~EdgeUnpacked(r, f, n)'
    BY <1>0, <2>1, NoEdgeUnpackedYet DEF Moves
  <2>4. k \in WaitsFor(program, r, f, n) <=> program[j].field = f /\ n \in SyncFrom[r]
    BY <1>0, <1>1, <1>2 DEF WaitsFor, SourcesOf, UpdaterOps
  <2>5. EdgeUnpacked(r, f, n) <=> k \in WaitsFor(program, r, f, n)
    BY <1>3, <2>1, <2>4
  <2>6. CASE k \in WaitsFor(program, r, f, n)
    <3>1. Received(r, f, n)' = [rank |-> n, ver |-> VersionAt(program, f, j)]
      BY <1>0, <1>2, <2>2, <2>6, ReceivedMoves
    <3> QED BY <1>3, <2>1, <2>3, <2>4, <2>5, <2>6, <3>1 DEF Offered
  <2>7. CASE k \notin WaitsFor(program, r, f, n)
    <3>1. Received(r, f, n)' = Received(r, f, n)
      BY <1>0, <2>2, <2>7, ReceivedMoves
    <3> QED BY <1>3, <2>1, <2>3, <2>5, <2>7, <3>1
  <2> QED BY <2>6, <2>7
<1> QED BY <1>5, <1>6, <1>7, StepAtSyncWait

(* Nothing but a wait changes a halo, or what it was promised. *)
LEMMA GhostsRankStep ==
  ASSUME PInv, NEW r \in Ranks, RankStep(r)
  PROVE  GhostsAsPromised'
<1> DEFINE k == pc[r] + 1
<1>0. /\ TypeOK /\ IInv /\ RequestsHold /\ GhostsAsPromised /\ program' = program
      /\ k \in 1..Len(program) /\ pc[r] \in Nat /\ CurrentOp(r) = program[k]
      /\ ghost \in [Ranks -> [Fields -> [Ranks -> Value]]]
      /\ buffer \in [Ranks -> [Slots -> Buffers \cup {None}]]
      /\ \A m, op : Offered(m, op)' = Offered(m, op)
  BY RankMoves, Typed, OfferedKept DEF PInv, MInv, IInv, TypeOK, RankTypeOK
<1> SUFFICES ASSUME NEW q \in Ranks, NEW f \in Fields, NEW n \in Ranks
      PROVE  /\ EdgeUnpacked(q, f, n)' =>
                  ghost'[q][f][n] = Offered(n, inflight[q][CurrentOp(q).obj])'
             /\ ~EdgeUnpacked(q, f, n)' => ghost'[q][f][n] = Received(q, f, n)'
  BY DEF GhostsAsPromised
<1>1. CASE q # r
  <2>1. /\ pc'[q] = pc[q] /\ status'[q] = status[q] /\ inflight'[q] = inflight[q]
        /\ CurrentOp(q)' = CurrentOp(q)
        /\ Executes(q, "sync_wait")' <=> Executes(q, "sync_wait")
    BY <1>0, <1>1, OtherRank, OthersExecute
  <2>2. ghost'[q] = ghost[q]
    BY <1>0, <1>1
    DEF RankStep, Compile, Create, StartRecv, StartSend, StartRaises, Wait, WaitRaises, Delete,
        SyncIsend, SyncIrecv, SyncStarted, SyncSendDone, SyncRecvDone, SyncWaited, Write,
        Raise, rankVars, Unpack
  <2>3. ASSUME Executes(q, "sync_wait")
        PROVE  buffer'[q][<<CurrentOp(q).obj, "recv", n>>] = buffer[q][<<CurrentOp(q).obj, "recv", n>>]
    <3>1. CurrentOp(q).obj \in Objects
      BY <1>0, <2>3, CurrentOpType DEF RequestOps, Objects
    <3>2. <<CurrentOp(q).obj, "recv", n>> \in Slots
      BY <3>1, SlotTypes
    <3> QED BY <1>0, <1>1, <3>2, OwnSlots
  <2>4. EdgeUnpacked(q, f, n)' <=> EdgeUnpacked(q, f, n)
    BY <1>0, <2>1, <2>3 DEF EdgeUnpacked
  <2>5. Received(q, f, n)' = Received(q, f, n)
    BY <1>0, <2>1 DEF Received
  <2>6. Offered(n, inflight[q][CurrentOp(q).obj])' = Offered(n, inflight[q][CurrentOp(q).obj])
    BY <1>0, <2>1 DEF Offered
  <2> QED BY <1>0, <2>2, <2>4, <2>5, <2>6 DEF GhostsAsPromised
<1>2. CASE q = r /\ Executes(r, "sync_wait")
  BY <1>2, GhostsSyncWait
<1>3. CASE q = r /\ ~Executes(r, "sync_wait")
  <2>1. ~EdgeUnpacked(r, f, n) /\ ~EdgeUnpacked(r, f, n)'
    BY <1>0, <1>3, NoEdgeUnpackedYet DEF EdgeUnpacked
  <2>2. CASE Wait(r)
    BY <1>3, <2>1, <2>2, GhostsWait
  <2>3. CASE ~Wait(r)
    <3>1. ghost' = ghost
      BY <1>3, <2>3, StepAtSyncWait
      DEF RankStep, Compile, Create, StartRecv, StartSend, StartRaises, WaitRaises, Delete,
          SyncIsend, SyncIrecv, SyncStarted, SyncSendDone, SyncRecvDone, SyncWaited, Write,
          Raise, rankVars
    <3>2. Received(r, f, n)' = Received(r, f, n)
      <4>1. CASE Stays(r)
        BY <1>0, <4>1, ReceivedMoves, CounterMoves
      <4>2. CASE Moves(r)
        <5>1. program[k].kind \notin {"wait", "sync_wait"}
          <6>1. ~Executes(r, "wait")
            <7>1. ~WaitRaises(r)
              BY <1>0, <4>2, CounterMoves DEF WaitRaises, Raise
            <7>2. ASSUME NEW a, NEW b, Executes(r, a), Executes(r, b) PROVE a = b
              BY <7>2 DEF Executes
            <7> QED
              BY <2>3, <7>1, <7>2
              DEF RankStep, Compile, Create, StartRecv, StartSend, StartRaises, Delete,
                  SyncIsend, SyncIrecv, SyncStarted, SyncSendDone, SyncRecvDone, SyncWaited, Write
          <6> QED BY <1>0, <1>3, <6>1, RankMoves DEF Executes
        <5>2. k \notin WaitsFor(program, r, f, n)
          BY <5>1 DEF WaitsFor
        <5> QED BY <1>0, <4>2, <5>2, ReceivedMoves, CounterMoves
      <4> QED BY <1>0, <4>1, <4>2, RankMoves
    <3> QED BY <1>0, <1>3, <2>1, <3>1, <3>2 DEF GhostsAsPromised
  <2> QED BY <2>2, <2>3
<1> QED BY <1>1, <1>2, <1>3

-----------------------------------------------------------------------------
(* The invariant holds.                                                    *)

(* MPI changes nothing that a rank has done or received. *)
LEMMA MovingStep ==
  ASSUME PInv, UNCHANGED <<rankVars, buffer>>
  PROVE  /\ DataIsTheLastWrite' /\ StartsRemembered' /\ OneShotsAreSpent'
         /\ RequestsHold' /\ GhostsAsPromised'
<1>1. /\ program' = program /\ pc' = pc /\ raised' = raised /\ data' = data /\ ghost' = ghost
      /\ status' = status /\ inflight' = inflight /\ buffer' = buffer
  BY DEF rankVars
<1>2. DataIsTheLastWrite'
  BY <1>1 DEF PInv, DataIsTheLastWrite
<1>3. StartsRemembered'
  BY <1>1 DEF PInv, StartsRemembered
<1>4. OneShotsAreSpent'
  BY <1>1 DEF PInv, OneShotsAreSpent
<1>5. /\ \A r : CurrentOp(r)' = CurrentOp(r)
      /\ \A r, kind : Executes(r, kind)' <=> Executes(r, kind)
  BY <1>1 DEF CurrentOp, Executes, Running
<1>6. RequestsHold'
  BY <1>1, <1>5 DEF PInv, RequestsHold, AtSyncWait
<1>7. /\ \A r, f, n : EdgeUnpacked(r, f, n)' <=> EdgeUnpacked(r, f, n)
      /\ \A r, f, n : Received(r, f, n)' = Received(r, f, n)
      /\ \A r, n : Offered(n, inflight[r][CurrentOp(r).obj])' =
                     Offered(n, inflight[r][CurrentOp(r).obj])
  <2>1. \A r, f, n : EdgeUnpacked(r, f, n)' <=> EdgeUnpacked(r, f, n)
    BY <1>1, <1>5 DEF EdgeUnpacked
  <2>2. \A r, f, n : Received(r, f, n)' = Received(r, f, n)
    BY <1>1 DEF Received
  <2>3. \A r, n : Offered(n, inflight[r][CurrentOp(r).obj])' =
                     Offered(n, inflight[r][CurrentOp(r).obj])
    BY <1>1, <1>5 DEF Offered
  <2> QED BY <2>1, <2>2, <2>3
<1>8. GhostsAsPromised'
  <2> SUFFICES ASSUME NEW r \in Ranks, NEW f \in Fields, NEW n \in Ranks
               PROVE  /\ EdgeUnpacked(r, f, n)' =>
                           ghost'[r][f][n] = Offered(n, inflight[r][CurrentOp(r).obj])'
                      /\ ~EdgeUnpacked(r, f, n)' => ghost'[r][f][n] = Received(r, f, n)'
    BY DEF GhostsAsPromised
  <2>1. /\ EdgeUnpacked(r, f, n) => ghost[r][f][n] = Offered(n, inflight[r][CurrentOp(r).obj])
        /\ ~EdgeUnpacked(r, f, n) => ghost[r][f][n] = Received(r, f, n)
    BY DEF PInv, GhostsAsPromised
  <2>2. ghost' = ghost
    BY <1>1
  <2> QED BY <1>7, <2>1, <2>2
<1> QED BY <1>2, <1>3, <1>4, <1>6, <1>8

(* Before the first operation nothing is offered and every halo is zeros. *)
LEMMA InitPromise == Init => PInv
<1> SUFFICES ASSUME Init PROVE PInv
  OBVIOUS
<1>0. MInv /\ TypeOK /\ program \in Seq(Op) /\ 0 \in 0..Len(program)
  BY InitMatching, Typed DEF MInv, IInv
<1>1. /\ \A r \in Ranks : pc[r] = 0 /\ ~raised[r]
      /\ \A r \in Ranks, o \in Objects : status[r][o] = "absent" /\ inflight[r][o] = 0
      /\ \A r \in Ranks, f \in Fields : data[r][f] = 0
      /\ \A r \in Ranks, f \in Fields, n \in Ranks : ghost[r][f][n] = Zeros
      /\ sends = {} /\ sysbuf = {} /\ recvs = {}
  BY DEF Init
<1>2. /\ \A f : Writes(program, f) \subseteq Nat \ {0}
      /\ \A o : Starts(program, o) \subseteq Nat \ {0}
      /\ \A o : Waits(program, o) \subseteq Nat \ {0}
  BY <1>0, IndexSets
<1>3. DataIsTheLastWrite
  BY <1>1, <1>2 DEF DataIsTheLastWrite, IsLast
<1>4. StartsRemembered
  BY <1>1, <1>2 DEF StartsRemembered
<1>5. OneShotsAreSpent
  BY <1>1, <1>2 DEF OneShotsAreSpent, Objects
<1>6. SentAsOffered /\ RequestsHold
  BY <1>1 DEF SentAsOffered, RequestsHold, Objects
<1>7. ArrivedAsOffered
  <2> SUFFICES ASSUME NEW r \in Ranks, NEW n \in Ranks, NEW k \in 1..Len(program), Arrived(r, n, k)
               PROVE  FALSE
    BY DEF ArrivedAsOffered
  <2>1. <<program[k].obj, "recv", n>> \in Slots /\ program[k].obj \in Objects
    BY <1>0, CarriedSlots DEF Arrived
  <2>2. buffer[r][<<program[k].obj, "recv", n>>] = None
    BY <2>1 DEF Init
  <2> QED BY <2>2 DEF Arrived, RecvBuffer
<1>8. GhostsAsPromised
  <2> SUFFICES ASSUME NEW r \in Ranks, NEW f \in Fields, NEW n \in Ranks
               PROVE  ~EdgeUnpacked(r, f, n) /\ Received(r, f, n) = Zeros
    BY <1>1 DEF GhostsAsPromised
  <2>1. ~EdgeUnpacked(r, f, n)
    <3>1. Executes(r, "sync_wait") => CurrentOp(r).obj \in Objects
      BY <1>0, CurrentOpType DEF RequestOps, Objects
    <3> QED BY <1>1, <3>1 DEF EdgeUnpacked
  <2>2. IsLast(LastWaitFor(program, r, f, n, 0), WaitsFor(program, r, f, n), 0)
    BY <1>0, WaitIsLast
  <2> QED BY <1>1, <2>1, <2>2 DEF Received, IsLast
<1> QED BY <1>0, <1>3, <1>4, <1>5, <1>6, <1>7, <1>8 DEF PInv

(* Every step keeps what the messages, the buffers and the halos hold. *)
LEMMA NextPromise == PInv /\ [Next]_vars => PInv'
<1> SUFFICES ASSUME PInv, [Next]_vars PROVE PInv'
  OBVIOUS
<1>0. MInv' /\ MInv /\ IInv /\ TypeOK
  BY NextMatching DEF PInv, MInv, IInv
<1> DEFINE Rest == /\ DataIsTheLastWrite' /\ StartsRemembered' /\ OneShotsAreSpent'
                   /\ SentAsOffered' /\ ArrivedAsOffered' /\ RequestsHold' /\ GhostsAsPromised'
<1>1. ASSUME NEW r \in Ranks, RankStep(r) PROVE Rest
  BY <1>0, <1>1, DataRankStep, StartsRankStep, OneShotsRankStep, SentRankStep, ArrivedRankStep,
     RequestsRankStep, GhostsRankStep DEF PInv
<1>2. ASSUME \/ \E m \in sends, p \in recvs : Deliver(m, p)
             \/ \E m \in sysbuf, p \in recvs : DeliverCopy(m, p)
             \/ \E m \in sends : CopyOut(m)
             \/ UNCHANGED vars
      PROVE  Rest
  <2>1. UNCHANGED <<rankVars, buffer>>
    BY <1>2 DEF Deliver, DeliverCopy, CopyOut, vars, bufVars
  <2>2. SentAsOffered' /\ ArrivedAsOffered'
    BY <1>0, <1>2, SentMovingStep, ArrivedMovingStep DEF PInv
  <2> QED BY <2>1, <2>2, MovingStep
<1> HIDE DEF Rest
<1>3. Rest
  BY <1>1, <1>2, StepCases
<1> QED BY <1>0, <1>3 DEF PInv, Rest

-----------------------------------------------------------------------------
(* The refinement.                                                         *)

(* The halo of HaloExchange, and the halo that the program promises. *)
PromisedHalo ==
  [r \in Ranks |-> [f \in Fields |-> [n \in Ranks |->
     IF Executes(r, "sync_wait") THEN Received(r, f, n) ELSE ghost[r][f][n]]]]

ReceivedHalo == [r \in Ranks |-> [f \in Fields |-> [n \in Ranks |-> Received(r, f, n)]]]

(* They are the same. *)
LEMMA HaloIsReceived == PInv => PromisedHalo = ReceivedHalo
<1> SUFFICES ASSUME PInv PROVE PromisedHalo = ReceivedHalo
  OBVIOUS
<1>1. ASSUME NEW r \in Ranks, ~Executes(r, "sync_wait"), NEW f \in Fields, NEW n \in Ranks
      PROVE  ghost[r][f][n] = Received(r, f, n)
  BY <1>1 DEF PInv, GhostsAsPromised, EdgeUnpacked
<1> QED BY <1>1 DEF PromisedHalo, ReceivedHalo

(* After a step too. *)
LEMMA HaloIsReceivedNext == (PInv => PromisedHalo = ReceivedHalo)'
BY HaloIsReceived, PTL

(* HaloExchange sees the program, the counters, the failures and the halos. *)
LEMMA PromisedState == Promised!vars = <<program, pc, raised, PromisedHalo>>
BY DEF Promised!vars, PromisedHalo

LEMMA PromisedStateNext == (Promised!vars = <<program, pc, raised, PromisedHalo>>)'
BY PromisedState, PTL

(* A set of indices has a last one up to any bound. *)
LEMMA LastExists ==
  ASSUME NEW k \in Nat, NEW S, S \subseteq Nat \ {0}
  PROVE  \E v : IsLast(v, S, k)
<1> DEFINE T == S \cap (1..k)
<1>1. T \subseteq 1..k /\ \A j \in S : j <= k => j \in T
  OBVIOUS
<1>2. CASE T = {}
  <2>1. IsLast(0, S, k)
    BY <1>1, <1>2 DEF IsLast
  <2> QED BY <2>1
<1>3. CASE T # {}
  <2>1. PICK v \in T : \A i \in T : i <= v
    <3> HIDE DEF T
    <3> QED BY <1>1, <1>3, GreatestExists
  <2>2. IsLast(v, S, k)
    BY <1>1, <2>1 DEF IsLast
  <2> QED BY <2>2
<1> QED BY <1>2, <1>3

(* An exchange is under way when the rank remembers its start. *)
LEMMA UnderWayIsRemembered ==
  ASSUME PInv, NEW r \in Ranks, NEW o \in Objects
  PROVE  Promised!UnderWay(o, pc[r]) <=> inflight[r][o] # 0
<1> DEFINE S == Starts(program, o)
           W == Waits(program, o)
<1>0. /\ TypeOK /\ program \in Seq(Op) /\ pc[r] \in Nat /\ pc[r] \in 0..Len(program)
      /\ S \subseteq Nat \ {0} /\ W \subseteq Nat \ {0}
  <2>1. TypeOK /\ program \in Seq(Op)
    BY Typed DEF PInv, MInv, IInv
  <2>2. pc[r] \in Nat /\ pc[r] <= Len(program) /\ Len(program) \in Nat
    BY <2>1 DEF TypeOK, RankTypeOK
  <2> QED BY <2>1, <2>2, IndexSets
<1>1. /\ inflight[r][o] # 0 => /\ IsLast(inflight[r][o], S, pc[r])
                               /\ \A w \in W : w <= pc[r] => w < inflight[r][o]
      /\ inflight[r][o] = 0 =>
           \A j \in S : j <= pc[r] => \E w \in W : j < w /\ w <= pc[r]
  BY DEF PInv, StartsRemembered
<1> HIDE DEF S, W
<1>2. PICK s : IsLast(s, S, pc[r])
  BY <1>0, LastExists
<1>3. PICK w : IsLast(w, W, pc[r])
  BY <1>0, LastExists
<1>4. Promised!UnderWay(o, pc[r]) <=> s > w
  BY <1>0, <1>2, <1>3, UnderWayIsLast DEF S, W
<1>5. s \in Nat /\ w \in Nat /\ s <= pc[r] /\ w <= pc[r]
  BY <1>0, <1>2, <1>3 DEF IsLast
<1>6. CASE inflight[r][o] # 0
  <2>1. s = inflight[r][o]
    BY <1>0, <1>1, <1>2, <1>6, LastUnique
  <2>2. w < s
    BY <1>1, <1>3, <1>5, <1>6, <2>1 DEF IsLast
  <2> QED BY <1>4, <1>5, <1>6, <2>2
<1>7. CASE inflight[r][o] = 0
  <2>1. s # 0 => s < w
    <3>1. ASSUME s # 0 PROVE s < w
      <4>1. s \in S
        BY <1>2, <3>1 DEF IsLast
      <4>2. PICK x \in W : s < x /\ x <= pc[r]
        BY <1>1, <1>5, <1>7, <4>1
      <4>3. x <= w /\ x \in Nat
        BY <1>0, <1>3, <4>2 DEF IsLast
      <4> QED BY <1>5, <4>2, <4>3
    <3> QED BY <3>1
  <2>2. ~(s > w)
    BY <1>5, <2>1
  <2> QED BY <1>4, <1>7, <2>2
<1> QED BY <1>6, <1>7

(* The code raises at the misuses that HaloExchange names, ... *)
LEMMA RaisesAtMisuse ==
  ASSUME PInv, NEW r \in Ranks, RankStep(r), StartRaises(r) \/ WaitRaises(r)
  PROVE  Promised!Misused(pc[r] + 1)
<1> DEFINE k == pc[r] + 1
           u == program[k].obj
<1>0. /\ TypeOK /\ IInv /\ CurrentOp(r) = program[k] /\ k \in 1..Len(program) /\ pc[r] \in Nat
      /\ k - 1 = pc[r] /\ Updaters \subseteq Objects
  BY RankMoves, Typed DEF PInv, MInv, IInv
<1>1. CASE StartRaises(r)
  <2>1. /\ program[k].kind = "start" /\ u \in Updaters /\ u \in Objects
        /\ status[r][u] \in {"inflight", "finalized"}
    BY <1>0, <1>1, CurrentOpType DEF StartRaises, Executes, Busy, Spent, UpdaterOps
  <2>2. CASE status[r][u] = "inflight"
    <3>1. Promised!UnderWay(u, pc[r])
      BY <1>0, <2>1, <2>2, UnderWayIsRemembered DEF IInv, LifeCycle
    <3> QED BY <1>0, <2>1, <3>1 DEF Promised!Misused
  <2>3. CASE status[r][u] = "finalized"
    <3>1. u \in OneShot /\ \E w \in Waits(program, u) : w <= pc[r]
      BY <2>1, <2>3 DEF PInv, OneShotsAreSpent
    <3>2. PICK w \in 1..Len(program) :
            w <= pc[r] /\ program[w].obj = u /\ program[w].kind \in {"wait", "sync_wait"}
      BY <3>1 DEF Waits
    <3>3. program[w].kind = "wait" /\ w \in 1..pc[r]
      BY <1>0, <2>1, <3>2, ProgramOps, Typed DEF RequestOps
    <3>4. Promised!Finished(u, pc[r])
      BY <3>2, <3>3 DEF Promised!Finished
    <3> QED BY <1>0, <2>1, <3>1, <3>4 DEF Promised!Misused
  <2> QED BY <2>1, <2>2, <2>3
<1>2. CASE WaitRaises(r)
  <2>1. /\ program[k].kind = "wait" /\ u \in Objects /\ status[r][u] \in {"idle", "finalized"}
    BY <1>0, <1>2, CurrentOpType DEF WaitRaises, Executes, UpdaterOps
  <2>2. ~Promised!UnderWay(u, pc[r])
    BY <1>0, <2>1, UnderWayIsRemembered DEF IInv, LifeCycle
  <2> QED BY <1>0, <2>1, <2>2 DEF Promised!Misused
<1> QED BY <1>1, <1>2

(* A rank finishes a start or a wait by its last step. *)
LEMMA LastSteps ==
  ASSUME TypeOK, NEW r \in Ranks, RankStep(r), Moves(r)
  PROVE  /\ program[pc[r] + 1].kind = "start" => StartSend(r)
         /\ program[pc[r] + 1].kind = "wait" => Wait(r)
         /\ program[pc[r] + 1].kind = "sync_wait" => SyncWaited(r)
<1>0. CurrentOp(r) = program[pc[r] + 1] /\ pc' # pc
  BY RankMoves, CounterMoves
<1>1. \A a, b : program[pc[r] + 1].kind = a /\ Executes(r, b) => a = b
  BY <1>0 DEF Executes
<1>2. program[pc[r] + 1].kind = "start" => StartSend(r)
  <2>1. ~StartRecv(r) /\ ~StartRaises(r)
    BY <1>0 DEF StartRecv, StartRaises, Raise
  <2> QED BY <2>1, StepAtStart
<1>3. program[pc[r] + 1].kind = "wait" => Wait(r)
  <2>1. program[pc[r] + 1].kind = "wait" => Wait(r) \/ WaitRaises(r)
    BY <1>1, StepExecutes DEF RankStep
  <2>2. ~WaitRaises(r)
    BY <1>0 DEF WaitRaises, Raise
  <2> QED BY <2>1, <2>2
<1>4. program[pc[r] + 1].kind = "sync_wait" => SyncWaited(r)
  <2>1. program[pc[r] + 1].kind = "sync_wait" => Executes(r, "sync_wait")
    BY <1>0, RankMoves DEF Executes
  <2>2. ~SyncSendDone(r) /\ ~SyncRecvDone(r)
    BY <1>0 DEF SyncSendDone, SyncRecvDone, rankVars
  <2> QED BY <2>1, <2>2, StepAtSyncWait
<1> QED BY <1>2, <1>3, <1>4

(* ... and only there. *)
LEMMA CompletesWithoutMisuse ==
  ASSUME PInv, NEW r \in Ranks, RankStep(r), Moves(r)
  PROVE  ~Promised!Misused(pc[r] + 1)
<1> DEFINE k == pc[r] + 1
           u == program[k].obj
<1>0. /\ TypeOK /\ IInv /\ CurrentOp(r) = program[k] /\ k \in 1..Len(program) /\ pc[r] \in Nat
      /\ k - 1 = pc[r] /\ Updaters \subseteq Objects
  BY RankMoves, Typed DEF PInv, MInv, IInv
<1>1. CASE program[k].kind = "start"
  <2>1. u \in Updaters /\ u \in Objects /\ status[r][u] = "receiving"
    BY <1>0, <1>1, LastSteps, ProgramOps DEF StartSend, UpdaterOps
  <2>2. ~Promised!UnderWay(u, pc[r])
    BY <1>0, <2>1, UnderWayIsRemembered DEF IInv, LifeCycle
  <2>3. ASSUME u \in OneShot, Promised!Finished(u, pc[r]) PROVE FALSE
    <3>1. PICK w \in 1..pc[r] : program[w].obj = u /\ program[w].kind = "wait"
      BY <2>3 DEF Promised!Finished
    <3>2. w \in Waits(program, u) /\ w \in Nat /\ w <= pc[r]
      BY <1>0, <3>1, Typed DEF Waits
    <3>3. pc[r] < w
      BY <2>1, <2>3, <3>2 DEF PInv, OneShotsAreSpent
    <3> QED BY <1>0, <3>2, <3>3
  <2> QED BY <1>0, <1>1, <2>2, <2>3 DEF Promised!Misused
<1>2. CASE program[k].kind = "wait"
  <2>1. u \in Objects /\ status[r][u] = "inflight"
    BY <1>0, <1>2, LastSteps, ProgramOps DEF Wait, UpdaterOps
  <2>2. Promised!UnderWay(u, pc[r])
    BY <1>0, <2>1, UnderWayIsRemembered DEF IInv, LifeCycle
  <2> QED BY <1>0, <1>2, <2>2 DEF Promised!Misused
<1>3. CASE program[k].kind \notin {"start", "wait"}
  BY <1>3 DEF Promised!Misused
<1> QED BY <1>1, <1>2, <1>3

(* No wait returns before its sources reached their own start. *)
LEMMA SourcesReached ==
  ASSUME PInv, NEW r \in Ranks, RankStep(r), Moves(r),
         NEW k \in 1..Len(program), k = pc[r] + 1, program[k].kind \in {"wait", "sync_wait"}
  PROVE  /\ inflight[r][program[k].obj] # 0
         /\ \A n \in SourcesOf(program[k].kind, r) : pc[n] + 1 >= StartOf(program, k)
<1> DEFINE o == program[k].obj
           j == inflight[r][o]
<1>0. /\ TypeOK /\ IInv /\ StartsRemembered /\ EndsAgree /\ RecvsOwned
      /\ CurrentOp(r) = program[k]
      /\ pc \in [Ranks -> Nat]
  BY RankMoves, Typed DEF PInv, MInv, IInv
<1>1. /\ program[k].kind = "wait" => Wait(r) /\ o \in Updaters
      /\ program[k].kind = "sync_wait" => SyncWaited(r) /\ o \in Requests
  BY <1>0, LastSteps, ProgramOps DEF UpdaterOps, RequestOps
<1>2. o \in Objects /\ status[r][o] = "inflight"
  BY <1>0, <1>1 DEF Wait, SyncWaited, Objects
<1>3. j # 0
  BY <1>0, <1>2 DEF IInv, LifeCycle
<1>4. StartOf(program, k) = j /\ j \in Starts(program, o) /\ j <= pc[r]
  BY <1>0, <1>3, RememberedStart
<1>5. ASSUME NEW n \in SourcesOf(program[k].kind, r) PROVE pc[n] + 1 >= j
  <2>1. /\ program[k].kind = "wait" => n \in Neighbors[r]
        /\ program[k].kind = "sync_wait" => n \in SyncFrom[r]
        /\ n \in Ranks
    BY BoundariesAssumption DEF SourcesOf, UpdaterOps
  <2>2. j \in 1..Len(program) /\ program[j].obj = o /\ Carries(n, r, j)
    BY <1>0, <1>1, <1>4, <2>1, UnderWayCarries
  <2>3. ~RecvOpen(n, r, j)
    <3>1. CASE program[k].kind = "wait"
      BY <1>0, <1>1, <3>1 DEF Wait, RecvsPending, RecvOpen, IsAbout
    <3>2. CASE program[k].kind = "sync_wait"
      <4>1. buffer[r][<<o, "recv", n>>] = None
        BY <1>0, <1>1, <2>1, <3>2 DEF SyncWaited
      <4>2. \A m \in recvs : m.buf # None /\ m.buf = buffer[m.dst][RecvSlot(m)]
        BY <1>0 DEF RecvsOwned, Owned, TypeOK, NetworkTypeOK, SendMsg, Buffers, None
      <4> QED BY <2>2, <4>1, <4>2 DEF RecvOpen, IsAbout, RecvSlot
    <3> QED BY <3>1, <3>2
  <2>4. SendPosted(n, r, j)
    BY <1>0, <1>4, <2>1, <2>2, <2>3 DEF EndsAgree, RecvPosted
  <2>5. pc[n] \in Nat /\ j \in Nat
    BY <1>0, <2>1, <2>2
  <2>6. j <= pc[n] \/ j = pc[n] + 1
    BY <2>4 DEF SendPosted, AtInterface
  <2> HIDE DEF j
  <2> QED BY <2>5, <2>6
<1> QED BY <1>3, <1>4, <1>5

(* A wait that returns brings the points of its sources, to its rank only. *)
LEMMA HaloMoves ==
  ASSUME PInv, NEW r \in Ranks, RankStep(r), Moves(r),
         NEW k \in 1..Len(program), k = pc[r] + 1, program[k].kind \in {"wait", "sync_wait"},
         NEW g, g = program[StartOf(program, k)].field
  PROVE  ReceivedHalo' =
           [ReceivedHalo EXCEPT ![r][g] =
              [n \in Ranks |->
                 IF n \in SourcesOf(program[k].kind, r)
                 THEN [rank |-> n, ver |-> VersionAt(program, g, StartOf(program, k))]
                 ELSE @[n]]]
<1>0. /\ TypeOK /\ IInv /\ StartsRemembered /\ program' = program /\ k \in 1..Len(program)
      /\ pc'[r] = pc[r] + 1 /\ \A q \in Ranks : q # r => pc'[q] = pc[q]
  BY RankMoves, CounterMoves DEF PInv, MInv, IInv
<1>1. g \in Fields
  <2>1. StartOf(program, k) \in Starts(program, program[k].obj)
    BY <1>0, SourcesReached, RememberedStart
  <2>2. StartOf(program, k) \in 1..Len(program)
    BY <2>1 DEF Starts
  <2> QED BY <1>0, <2>2, ProgramOps
<1> DEFINE new(n) == [rank |-> n, ver |-> VersionAt(program, g, StartOf(program, k))]
<1>2. ASSUME NEW f \in Fields, NEW n \in Ranks
      PROVE  Received(r, f, n)' = IF f = g /\ n \in SourcesOf(program[k].kind, r)
                                  THEN new(n) ELSE Received(r, f, n)
  <2>1. k \in WaitsFor(program, r, f, n) <=> f = g /\ n \in SourcesOf(program[k].kind, r)
    BY DEF WaitsFor
  <2> QED BY <1>0, <2>1, ReceivedMoves
<1>3. ASSUME NEW q \in Ranks, q # r, NEW f \in Fields, NEW n \in Ranks
      PROVE  Received(q, f, n)' = Received(q, f, n)
  BY <1>0, <1>3 DEF Received
<1> HIDE DEF new
<1>4. ASSUME NEW q \in Ranks, NEW f \in Fields, NEW n \in Ranks
      PROVE  Received(q, f, n)' = IF q = r /\ f = g /\ n \in SourcesOf(program[k].kind, r)
                                  THEN new(n) ELSE Received(q, f, n)
  BY <1>2, <1>3
<1>5. ReceivedHalo' =
        [q \in Ranks |-> [f \in Fields |-> [n \in Ranks |->
           IF q = r /\ f = g /\ n \in SourcesOf(program[k].kind, r)
           THEN new(n) ELSE Received(q, f, n)]]]
  BY <1>4 DEF ReceivedHalo
<1>6. [ReceivedHalo EXCEPT ![r][g] =
              [n \in Ranks |->
                 IF n \in SourcesOf(program[k].kind, r) THEN new(n) ELSE @[n]]] =
        [q \in Ranks |-> [f \in Fields |-> [n \in Ranks |->
           IF q = r /\ f = g /\ n \in SourcesOf(program[k].kind, r)
           THEN new(n) ELSE Received(q, f, n)]]]
  BY <1>1 DEF ReceivedHalo
<1> QED BY <1>5, <1>6 DEF new

(* Nothing else changes what a rank has received. *)
LEMMA HaloStays ==
  ASSUME PInv, NEW r \in Ranks, RankStep(r), NEW k, k = pc[r] + 1,
         Moves(r) => program[k].kind \notin {"wait", "sync_wait"}
  PROVE  ReceivedHalo' = ReceivedHalo
<1>0. /\ TypeOK /\ program' = program /\ k \in 1..Len(program)
      /\ Stays(r) \/ (Moves(r) /\ pc'[r] = pc[r] + 1)
      /\ Stays(r) => pc' = pc
      /\ \A q \in Ranks : q # r => pc'[q] = pc[q]
  BY RankMoves, CounterMoves DEF PInv, MInv, IInv, Stays
<1>1. ASSUME NEW q \in Ranks, NEW f \in Fields, NEW n \in Ranks
      PROVE  Received(q, f, n)' = Received(q, f, n)
  <2>1. CASE pc'[q] = pc[q]
    BY <1>0, <2>1 DEF Received
  <2>2. CASE q = r /\ Moves(r) /\ pc'[r] = pc[r] + 1
    <3>1. k \notin WaitsFor(program, r, f, n)
      BY <2>2 DEF WaitsFor
    <3> QED BY <1>0, <2>2, <3>1, ReceivedMoves
  <2> QED BY <1>0, <2>1, <2>2
<1> QED BY <1>1 DEF ReceivedHalo

(* The two steps of HaloExchange, in terms of the halo that it sees. *)
LEMMA PromisedSteps ==
  ASSUME NEW r \in Ranks
  PROVE  /\ Promised!Fail(r) <=>
              /\ ~raised[r] /\ pc[r] < Len(program) /\ Promised!Misused(pc[r] + 1)
              /\ raised' = [raised EXCEPT ![r] = TRUE]
              /\ program' = program /\ pc' = pc /\ PromisedHalo' = PromisedHalo
         /\ Promised!Complete(r) <=>
              /\ ~raised[r] /\ pc[r] < Len(program) /\ ~Promised!Misused(pc[r] + 1)
              /\ pc' = [pc EXCEPT ![r] = pc[r] + 1]
              /\ IF program[pc[r] + 1].kind \in {"wait", "sync_wait"}
                 THEN /\ \A n \in Promised!SourcesOf(program[pc[r] + 1].kind, r) :
                           pc[n] + 1 >= Promised!StartOf(program, pc[r] + 1)
                      /\ PromisedHalo' =
                           [PromisedHalo EXCEPT
                              ![r][program[Promised!StartOf(program, pc[r] + 1)].field] =
                                [n \in Ranks |->
                                   IF n \in Promised!SourcesOf(program[pc[r] + 1].kind, r)
                                   THEN [rank |-> n,
                                         ver |-> Promised!VersionAt(program,
                                           program[Promised!StartOf(program, pc[r] + 1)].field,
                                           Promised!StartOf(program, pc[r] + 1))]
                                   ELSE @[n]]]
                 ELSE PromisedHalo' = PromisedHalo
              /\ program' = program /\ raised' = raised
<1>1. Promised!Fail(r) <=>
              /\ ~raised[r] /\ pc[r] < Len(program) /\ Promised!Misused(pc[r] + 1)
              /\ raised' = [raised EXCEPT ![r] = TRUE]
              /\ program' = program /\ pc' = pc /\ PromisedHalo' = PromisedHalo
  BY DEF Promised!Fail, PromisedHalo
<1> QED BY <1>1 DEF Promised!Complete, PromisedHalo

LEMMA InitKeepsPromise == Init => Promised!Init
<1> SUFFICES ASSUME Init PROVE Promised!Init
  OBVIOUS
<1>1. ASSUME NEW r \in Ranks, NEW f \in Fields, NEW n \in Ranks
      PROVE  Received(r, f, n) = Zeros
  BY DEF Init, Received, LastWaitFor, LastIndex
<1>2. PromisedHalo = [r \in Ranks |-> [f \in Fields |-> [n \in Ranks |-> Zeros]]]
  BY <1>1 DEF PromisedHalo, Init
<1> QED BY <1>2 DEF Init, Promised!Init, PromisedHalo, Promised!Zeros, Zeros

(* Every step of a rank fails, completes an operation, or shows nothing. *)
LEMMA RankKeepsPromise ==
  ASSUME PInv, PInv', NEW r \in Ranks, RankStep(r)
  PROVE  [Promised!Next]_(Promised!vars)
<1>0. /\ TypeOK /\ program' = program /\ Running(r) /\ pc[r] + 1 \in 1..Len(program)
      /\ PromisedHalo = ReceivedHalo /\ PromisedHalo' = ReceivedHalo'
      /\ Stays(r) \/ Moves(r)
  BY RankMoves, HaloIsReceived, HaloIsReceivedNext DEF PInv, MInv, IInv
<1>1. raised' = raised \/ StartRaises(r) \/ WaitRaises(r)
  BY DEF RankStep, Compile, Create, StartRecv, StartSend, Wait, Delete, SyncIsend, SyncIrecv,
     SyncStarted, SyncSendDone, SyncRecvDone, SyncWaited, Write, rankVars
<1>2. CASE StartRaises(r) \/ WaitRaises(r)
  <2>1. raised' = [raised EXCEPT ![r] = TRUE] /\ pc' = pc
    BY <1>2 DEF StartRaises, WaitRaises, Raise
  <2>2. Promised!Misused(pc[r] + 1)
    BY <1>2, RaisesAtMisuse
  <2>3. ReceivedHalo' = ReceivedHalo
    <3>1. ~Moves(r)
      BY <1>0, <2>1, CounterMoves
    <3> QED BY <3>1, HaloStays
  <2>4. Promised!Fail(r)
    BY <1>0, <2>1, <2>2, <2>3, PromisedSteps DEF Running
  <2> QED BY <2>4 DEF Promised!Next
<1>3. CASE raised' = raised /\ pc' = pc
  <2>1. ReceivedHalo' = ReceivedHalo
    <3>1. ~Moves(r)
      BY <1>0, <1>3, CounterMoves
    <3> QED BY <3>1, HaloStays
  <2>2. Promised!vars' = Promised!vars
    <3>1. Promised!vars' = <<program', pc', raised', PromisedHalo'>>
      BY PromisedStateNext
    <3> QED BY <1>0, <1>3, <2>1, <3>1, PromisedState
  <2> QED BY <2>2
<1>4. CASE raised' = raised /\ Moves(r)
  <2> DEFINE k == pc[r] + 1
             s == StartOf(program, k)
             g == program[s].field
             sources == SourcesOf(program[k].kind, r)
  <2>1. ~Promised!Misused(k)
    BY <1>4, CompletesWithoutMisuse
  <2>2. ASSUME program[k].kind \in {"wait", "sync_wait"}
        PROVE  /\ \A n \in sources : pc[n] + 1 >= s
               /\ PromisedHalo' = [PromisedHalo EXCEPT ![r][g] =
                    [n \in Ranks |-> IF n \in sources
                                     THEN [rank |-> n, ver |-> VersionAt(program, g, s)]
                                     ELSE @[n]]]
    BY <1>0, <1>4, <2>2, SourcesReached, HaloMoves
  <2>3. program[k].kind \notin {"wait", "sync_wait"} => PromisedHalo' = PromisedHalo
    BY <1>0, HaloStays
  <2>4. /\ Promised!StartOf(program, k) = s
        /\ Promised!VersionAt(program, g, s) = VersionAt(program, g, s)
        /\ Promised!SourcesOf(program[k].kind, r) = sources
    BY PromisedOperators
  <2>5. ~raised[r] /\ pc[r] < Len(program) /\ pc' = [pc EXCEPT ![r] = k]
    BY <1>0, <1>4 DEF Running, Moves
  <2> HIDE DEF s, sources
  <2>6. Promised!Complete(r)
    BY <1>0, <1>4, <2>1, <2>2, <2>3, <2>4, <2>5, PromisedSteps
  <2> QED BY <2>6 DEF Promised!Next
<1>5. Stays(r) => pc' = pc
  BY DEF Stays
<1> QED BY <1>0, <1>1, <1>2, <1>3, <1>4, <1>5

(* Every step of the exchange is one of HaloExchange, or shows nothing. *)
LEMMA NextKeepsPromise == PInv /\ PInv' /\ [Next]_vars => [Promised!Next]_(Promised!vars)
<1> SUFFICES ASSUME PInv, PInv', [Next]_vars PROVE [Promised!Next]_(Promised!vars)
  OBVIOUS
<1>1. ASSUME NEW r \in Ranks, RankStep(r) PROVE [Promised!Next]_(Promised!vars)
  BY <1>1, RankKeepsPromise
<1>2. ASSUME \/ \E m \in sends, p \in recvs : Deliver(m, p)
             \/ \E m \in sysbuf, p \in recvs : DeliverCopy(m, p)
             \/ \E m \in sends : CopyOut(m)
             \/ UNCHANGED vars
      PROVE  [Promised!Next]_(Promised!vars)
  <2>1. program' = program /\ pc' = pc /\ raised' = raised /\ ghost' = ghost
    BY <1>2 DEF Deliver, DeliverCopy, CopyOut, vars, rankVars
  <2>2. PromisedHalo' = PromisedHalo
    BY <2>1 DEF PromisedHalo, Executes, Running, CurrentOp, Received
  <2>3. Promised!vars' = <<program', pc', raised', PromisedHalo'>>
    BY PromisedStateNext
  <2> QED BY <2>1, <2>2, <2>3, PromisedState
<1> QED BY <1>1, <1>2, StepCases

-----------------------------------------------------------------------------
(* The buffers that are lost.                                              *)

(* A slot that is filled belongs to an object that exists and still needs it. *)
HoldersExist ==
  \A r \in Ranks, s \in Slots : buffer[r][s] # None =>
    /\ status[r][s[1]] # "deleted"
    /\ s[1] \in Updaters =>
         s \in UpdaterSlots(s[1], r) /\ status[r][s[1]] # "finalized"

Lost(r) == (1..allocated[r]) \ (cache[r] \cup SlotBuffers(Slots, r))

LossCounted ==
  \A r \in Ranks :
    Cardinality(Lost(r)) = 2 * Cardinality(Neighbors[r]) * Cardinality(NeverUsed(r))

(* A step changes the life of no object but the one its operation is about. *)
LEMMA OtherObjects ==
  ASSUME IInv, NEW r \in Ranks, RankStep(r), NEW q \in Ranks, NEW o \in Objects,
         q # r \/ o # CurrentOp(r).obj
  PROVE  status'[q][o] = status[q][o]
<1> DEFINE u == CurrentOp(r).obj
<1>1. \/ status' = status
      \/ \E v : status' = [status EXCEPT ![r][u] = v]
  BY DEF RankStep, Compile, Create, StartRecv, StartSend, StartRaises, Wait,
     WaitRaises, Raise, Delete, SyncIsend, SyncIrecv, SyncStarted,
     SyncSendDone, SyncRecvDone, SyncWaited, Write, rankVars
<1>2. status \in [Ranks -> [Objects -> States]]
  BY Typed DEF IInv
<1> HIDE DEF u
<1>3. q # r \/ o # u
  BY DEF u
<1> QED BY <1>1, <1>2, <1>3

(* Only finalized and deleted objects, emptied by then, are done with.  *)
LEMMA HoldersRankStep ==
  ASSUME IInv, HoldersExist, NEW r \in Ranks, RankStep(r)
  PROVE  HoldersExist'
<1> DEFINE o == CurrentOp(r).obj
<1>0. /\ TypeOK /\ BuffersPartitioned /\ Updaters \cap Requests = {}
      /\ Updaters \subseteq Objects /\ Requests \subseteq Objects
      /\ status \in [Ranks -> [Objects -> States]]
      /\ buffer \in [Ranks -> [Slots -> Buffers \cup {None}]]
  BY Typed DEF IInv
<1> SUFFICES ASSUME NEW q \in Ranks, NEW s \in Slots, buffer'[q][s] # None
             PROVE  /\ status'[q][s[1]] # "deleted"
                    /\ s[1] \in Updaters =>
                         s \in UpdaterSlots(s[1], q) /\ status'[q][s[1]] # "finalized"
  BY DEF HoldersExist, UpdaterSlots
<1>1. s[1] \in Objects
  BY DEF Slots
<1>2. buffer[q][s] # None =>
        /\ status[q][s[1]] # "deleted"
        /\ s[1] \in Updaters => s \in UpdaterSlots(s[1], q) /\ status[q][s[1]] # "finalized"
  BY DEF HoldersExist
<1>3. CASE q # r \/ s[1] # o
  BY <1>0, <1>1, <1>2, <1>3, OwnSlots, OtherObjects
<1>4. CASE q = r /\ s[1] = o
  <2>1. CASE Compile(r)
    <3> DEFINE t == CHOOSE x \in MissingSlots(r) : TRUE
    <3>1. /\ status' = status /\ status[r][o] = "absent" /\ t \in UpdaterSlots(o, r)
          /\ PopFromCache(r, t)
      BY <2>1 DEF Compile, MissingSlots, rankVars
    <3> HIDE DEF t
    <3>2. s # t => buffer'[r][s] = buffer[r][s]
      <4>1. \E b : buffer' = [buffer EXCEPT ![r][t] = b]
        BY <3>1 DEF PopFromCache
      <4> QED BY <1>0, <4>1
    <3> QED BY <1>2, <1>4, <3>1, <3>2
  <2>2. CASE Wait(r) \/ Delete(r)
    <3>1. o \in Updaters
      BY <1>0, <2>2, CurrentOpType DEF Wait, Delete, UpdaterOps
    <3>2. \/ Drop(r, UpdaterSlots(o, r))
          \/ buffer' = buffer /\ status' = [status EXCEPT ![r][o] = "idle"]
      BY <2>2 DEF Wait, Delete, PushToCache
    <3>3. CASE Drop(r, UpdaterSlots(o, r))
      <4>1. s \notin UpdaterSlots(o, r) /\ buffer'[r][s] = buffer[r][s]
        BY <1>0, <1>1, <1>4, <3>3, SlotTypes, DropEffect
      <4> QED BY <1>2, <1>4, <3>1, <4>1
    <3>4. CASE buffer' = buffer /\ status' = [status EXCEPT ![r][o] = "idle"]
      BY <1>0, <1>1, <1>2, <1>4, <3>4
    <3> QED BY <3>2, <3>3, <3>4
  <2>3. CASE Create(r) \/ StartRecv(r) \/ StartSend(r)
    <3>1. buffer' = buffer /\ \E v \in {"idle", "receiving", "inflight"} :
                                status' = [status EXCEPT ![r][o] = v]
      BY <2>3 DEF Create, StartRecv, StartSend, bufVars
    <3> QED BY <1>0, <1>1, <1>2, <1>4, <3>1
  <2>4. CASE SyncIsend(r) \/ SyncIrecv(r) \/ SyncStarted(r) \/ SyncWaited(r)
    <3>1. o \notin Updaters
      BY <1>0, <2>4, CurrentOpType
      DEF SyncIsend, SyncIrecv, SyncStarted, SyncWaited, RequestOps
    <3>2. \/ status' = status /\ status[r][o] = "absent"
          \/ \E v \in {"inflight", "finalized"} : status' = [status EXCEPT ![r][o] = v]
      BY <2>4 DEF SyncIsend, SyncIrecv, SyncStarted, SyncWaited, rankVars
    <3> QED BY <1>0, <1>1, <1>4, <3>1, <3>2
  <2>5. CASE SyncSendDone(r) \/ SyncRecvDone(r)
    <3>1. o \notin Updaters /\ status' = status /\ status[r][o] = "inflight"
      BY <1>0, <2>5, CurrentOpType DEF SyncSendDone, SyncRecvDone, RequestOps, rankVars
    <3> QED BY <1>4, <3>1
  <2>6. CASE status' = status /\ buffer' = buffer
    BY <1>2, <2>6
  <2> QED
    BY <2>1, <2>2, <2>3, <2>4, <2>5, <2>6
    DEF RankStep, StartRaises, WaitRaises, Raise, Write, bufVars
<1> QED BY <1>3, <1>4

(* Buffers that change hands are not lost. *)
LEMMA LostSame ==
  ASSUME IInv, NEW r \in Ranks, NEW q \in Ranks,
         \/ BuffersSame
         \/ BufferTaken(r)
         \/ \E slots \in SUBSET Slots : PushToCache(r, slots) /\ UNCHANGED allocated
  PROVE  Lost(q)' = Lost(q)
<1>0. /\ BuffersPartitioned /\ TypeOK
      /\ buffer \in [Ranks -> [Slots -> Buffers \cup {None}]]
      /\ cache \in [Ranks -> SUBSET Buffers]
      /\ allocated \in [Ranks -> Nat]
      /\ cache[q] \cup SlotBuffers(Slots, q) \subseteq 1..allocated[q]
  BY ProgramsAssumption DEF IInv, TypeOK, BufferTypeOK, BuffersPartitioned
<1>1. CASE BuffersSame
  BY <1>1 DEF BuffersSame, Lost, SlotBuffers
<1>2. CASE BufferTaken(r)
  <2>1. PICK slot \in Slots, b \in Buffers : buffer[r][slot] = None /\ Pops(r, slot, b)
    BY <1>2 DEF BufferTaken
  <2>2. b # None
    BY ProgramsAssumption DEF Buffers, None
  <2>3. CASE q # r
    BY <1>0, <2>1, <2>3 DEF Pops, SlotBuffers, Lost
  <2>4. CASE q = r
    <3>1. SlotBuffers(Slots, r)' = SlotBuffers(Slots, r) \cup {b}
      BY <1>0, <2>1, <2>2 DEF Pops, SlotBuffers
    <3>2. cache'[r] = cache[r] \ {b}
      BY <1>0, <2>1 DEF Pops
    <3>3. CASE b \in cache[r] /\ allocated' = allocated
      BY <2>4, <3>1, <3>2, <3>3 DEF Lost
    <3>4. CASE b = allocated[r] + 1 /\ allocated' = [allocated EXCEPT ![r] = b]
      <4>1. allocated[r] \in Nat /\ allocated'[r] = allocated[r] + 1
        BY <1>0, <3>4
      <4>2. 1..allocated'[r] = 1..allocated[r] \cup {b} /\ b \notin 1..allocated[r]
        BY <3>4, <4>1
      <4> QED
        BY <1>0, <2>4, <3>1, <3>2, <4>2 DEF Lost
    <3> QED BY <2>1, <3>3, <3>4 DEF Pops
  <2> QED BY <2>3, <2>4
<1>3. ASSUME NEW slots \in SUBSET Slots, PushToCache(r, slots), UNCHANGED allocated
      PROVE  Lost(q)' = Lost(q)
  <2>1. /\ cache' = [cache EXCEPT ![r] = @ \cup SlotBuffers(slots, r)]
        /\ \A p \in Ranks, s \in Slots :
             buffer'[p][s] = IF p = r /\ s \in slots THEN None ELSE buffer[p][s]
    BY <1>0, <1>3, PushEffect
  <2>2. CASE q # r
    <3>1. \A s \in Slots : buffer'[q][s] = buffer[q][s]
      BY <2>1, <2>2
    <3>2. cache'[q] = cache[q] /\ allocated' = allocated
      BY <1>0, <1>3, <2>1, <2>2
    <3> QED BY <3>1, <3>2 DEF Lost, SlotBuffers
  <2>3. CASE q = r
    <3>1. \A s \in Slots : buffer'[r][s] = IF s \in slots THEN None ELSE buffer[r][s]
      BY <2>1
    <3>2. ASSUME NEW b
          PROVE  b \in SlotBuffers(slots, r) \cup SlotBuffers(Slots, r)' <=>
                 b \in SlotBuffers(Slots, r)
      BY <3>1 DEF SlotBuffers
    <3>3. cache'[r] = cache[r] \cup SlotBuffers(slots, r)
      BY <1>0, <2>1
    <3> QED BY <1>3, <2>3, <3>2, <3>3 DEF Lost
  <2> QED BY <2>2, <2>3
<1> QED BY <1>1, <1>2, <1>3

(* The buffers of an updater that holds all of its slots: two for each neighbour. *)
LEMMA BuffersOfUpdater ==
  ASSUME IInv, NEW r \in Ranks, NEW u \in Updaters,
         \A s \in UpdaterSlots(u, r) : buffer[r][s] # None
  PROVE  /\ IsFiniteSet(SlotBuffers(UpdaterSlots(u, r), r))
         /\ Cardinality(SlotBuffers(UpdaterSlots(u, r), r)) = 2 * Cardinality(Neighbors[r])
<1> DEFINE S == {"send", "recv"} \X Neighbors[r]
           T == SlotBuffers(UpdaterSlots(u, r), r)
           f == [p \in S |-> buffer[r][<<u, p[1], p[2]>>]]
<1>0. /\ u \in Objects /\ UpdaterSlots(u, r) \in SUBSET Slots
      /\ \A s, t \in Slots : buffer[r][s] # None /\ buffer[r][s] = buffer[r][t] => s = t
  BY SlotTypes DEF Objects, IInv, BuffersPartitioned
<1>1. \A p \in S : <<u, p[1], p[2]>> \in UpdaterSlots(u, r) /\ p = <<p[1], p[2]>>
  BY DEF UpdaterSlots
<1>2. \A s \in UpdaterSlots(u, r) : <<s[2], s[3]>> \in S /\ s = <<u, s[2], s[3]>>
  BY DEF UpdaterSlots
<1>3. f \in [S -> T]
  BY <1>1 DEF SlotBuffers
<1>4. ASSUME NEW b \in T PROVE \E p \in S : f[p] = b
  <2>1. PICK s \in UpdaterSlots(u, r) : b = buffer[r][s]
    BY DEF SlotBuffers
  <2>2. <<s[2], s[3]>> \in S /\ f[<<s[2], s[3]>>] = b
    BY <1>2, <2>1
  <2> QED BY <2>2
<1>5. ASSUME NEW p \in S, NEW x \in S, f[p] = f[x] PROVE p = x
  <2>1. <<u, p[1], p[2]>> = <<u, x[1], x[2]>>
    BY <1>0, <1>1, <1>5
  <2> QED BY <1>1, <2>1
<1>6. f \in Surjection(S, T)
  BY <1>3, <1>4 DEF Surjection
<1>7. f \in Injection(S, T)
  BY <1>3, <1>5 DEF Injection, IsInjective
<1>8. IsFiniteSet(S) /\ Cardinality(S) = 2 * Cardinality(Neighbors[r])
  <2>1. IsFiniteSet(Neighbors[r])
    BY BoundariesAssumption, FS_Subset
  <2>2. IsFiniteSet({"send", "recv"}) /\ Cardinality({"send", "recv"}) = 2
    <3>1. IsFiniteSet({"send"}) /\ Cardinality({"send"}) = 1
      BY FS_Singleton
    <3>2. /\ IsFiniteSet({"send"} \cup {"recv"})
          /\ Cardinality({"send"} \cup {"recv"}) =
               IF "recv" \in {"send"} THEN Cardinality({"send"}) ELSE Cardinality({"send"}) + 1
      BY <3>1, FS_AddElement
    <3>3. {"send", "recv"} = {"send"} \cup {"recv"} /\ "recv" \notin {"send"}
      OBVIOUS
    <3> QED BY <3>1, <3>2, <3>3
  <2> HIDE DEF S
  <2> QED BY <2>1, <2>2, FS_Product DEF S
<1> HIDE DEF S, T, f
<1> QED BY <1>6, <1>7, <1>8, FS_Surjection DEF T

(* What was never used stays so, and no step but a deletion adds to it. *)
LEMMA NeverUsedSame ==
  ASSUME IInv, NEW r \in Ranks, RankStep(r), NEW q \in Ranks,
         q = r /\ Delete(r) =>
           \/ CurrentOp(r).obj \notin OneShot
           \/ \E k \in 1..pc[r] : program[k].kind = "wait" /\ program[k].obj = CurrentOp(r).obj
  PROVE  NeverUsed(q)' = NeverUsed(q)
<1> DEFINE o == CurrentOp(r).obj
<1>0. /\ TypeOK /\ program' = program /\ (Stays(r) \/ Moves(r))
      /\ pc \in [Ranks -> Nat] /\ o = program[pc[r] + 1]. obj
      /\ status \in [Ranks -> [Objects -> States]]
      /\ OneShot \subseteq Objects /\ OneShot \subseteq Updaters /\ Updaters \subseteq Objects
  BY RankMoves, Typed, ObjectsAssumption DEF IInv
<1>1. CASE q # r
  BY <1>0, <1>1, OtherRank DEF NeverUsed
<1>2. CASE q = r
  <2> SUFFICES ASSUME NEW u \in OneShot PROVE u \in NeverUsed(r)' <=> u \in NeverUsed(r)
    BY <1>2 DEF NeverUsed
  <2> DEFINE unwaited(k) == program[k].kind = "wait" => program[k].obj # u
  <2>1. /\ u \in NeverUsed(r) <=>
             status[r][u] = "deleted" /\ \A k \in 1..pc[r] : unwaited(k)
        /\ u \in NeverUsed(r)' <=>
             status'[r][u] = "deleted" /\ \A k \in 1..pc'[r] : unwaited(k)
    BY <1>0 DEF NeverUsed
  <2> HIDE DEF unwaited
  <2>2. \/ pc'[r] = pc[r] /\ 1..pc'[r] = 1..pc[r]
        \/ pc'[r] = pc[r] + 1 /\ 1..pc'[r] = 1..pc[r] \cup {pc[r] + 1}
    <3>1. pc[r] \in Nat
      BY <1>0
    <3> QED BY <1>0, <3>1 DEF Stays, Moves
  <2>3. status[r][u] = "deleted" => status'[r][u] = "deleted"
    <3>1. CASE u # o
      BY <1>0, <3>1, OtherObjects
    <3>2. CASE u = o /\ status[r][o] = "deleted"
      <4>1. \/ status' = status \/ status' = [status EXCEPT ![r][o] = "deleted"]
        BY <3>2 DEF RankStep, Compile, Create, StartRecv, StartSend, StartRaises, Wait,
           WaitRaises, Raise, Delete, SyncIsend, SyncIrecv, SyncStarted,
           SyncSendDone, SyncRecvDone, SyncWaited, Write, rankVars, Busy, Spent
      <4> QED BY <1>0, <3>2, <4>1
    <3> QED BY <3>1, <3>2
  <2>4. status[r][u] = "deleted" /\ Moves(r) => unwaited(pc[r] + 1)
    <3> SUFFICES ASSUME status[r][o] = "deleted", program[pc[r] + 1].kind = "wait"
                 PROVE  ~Moves(r)
      BY <1>0 DEF unwaited
    <3>1. Executes(r, "wait")
      BY RankMoves, <1>0 DEF Executes
    <3>2. Wait(r) \/ WaitRaises(r)
      BY <3>1 DEF RankStep, Compile, Create, StartRecv, StartSend, StartRaises, Delete,
         SyncIsend, SyncIrecv, SyncStarted, SyncSendDone, SyncRecvDone, SyncWaited, Write,
         Executes
    <3> QED BY <3>2 DEF Wait, WaitRaises
  <2>5. status'[r][u] = "deleted" /\ status[r][u] # "deleted" => Delete(r) /\ u = o
    <3>1. CASE u # o
      BY <1>0, <3>1, OtherObjects
    <3>2. CASE u = o /\ ~Delete(r)
      <4>1. \/ status' = status \/ \E v \in States \ {"deleted"} : status' = [status EXCEPT ![r][o] = v]
        BY <3>2 DEF RankStep, Compile, Create, StartRecv, StartSend, StartRaises, Wait,
           WaitRaises, Raise, SyncIsend, SyncIrecv, SyncStarted,
           SyncSendDone, SyncRecvDone, SyncWaited, Write, rankVars, States
      <4> QED BY <1>0, <3>2, <4>1
    <3> QED BY <3>1, <3>2
  <2>6. Delete(r) /\ u = o => \E k \in 1..pc[r] : ~unwaited(k)
    BY <1>2 DEF unwaited
  <2>7. pc'[r] = pc[r] + 1 => Moves(r)
    <3>1. pc[r] \in Nat
      BY <1>0
    <3> QED BY <1>0, <3>1 DEF Stays
  <2> QED BY <2>1, <2>2, <2>3, <2>4, <2>5, <2>6, <2>7
<1> QED BY <1>1, <1>2

(* A step loses buffers only when it deletes a one-shot updater never used, *)
(* and then all of that updater's.                                         *)
LEMMA LossRankStep ==
  ASSUME PInv, HoldersExist, LossCounted, NEW r \in Ranks, RankStep(r)
  PROVE  LossCounted'
<1> DEFINE o == CurrentOp(r).obj
           leaves == UpdaterSlots(o, r)
<1>0. /\ IInv /\ TypeOK /\ BuffersPartitioned /\ program' = program
      /\ pc \in [Ranks -> Nat] /\ o = program[pc[r] + 1].obj
      /\ status \in [Ranks -> [Objects -> States]]
      /\ buffer \in [Ranks -> [Slots -> Buffers \cup {None}]]
      /\ OneShot \subseteq Updaters /\ Updaters \subseteq Objects
  BY RankMoves, Typed, ObjectsAssumption DEF PInv, MInv, IInv
<1> SUFFICES ASSUME NEW q \in Ranks
             PROVE  Cardinality(Lost(q)') =
                      2 * Cardinality(Neighbors[q]) * Cardinality(NeverUsed(q)')
  BY DEF LossCounted
<1>1. Cardinality(Lost(q)) = 2 * Cardinality(Neighbors[q]) * Cardinality(NeverUsed(q))
  BY DEF LossCounted
<1>2. CASE ~(Delete(r) /\ o \in OneShot)
  <2>1. \/ BuffersSame
        \/ BufferTaken(r)
        \/ \E slots \in SUBSET Slots : PushToCache(r, slots) /\ UNCHANGED allocated
    <3>1. CASE BuffersSame \/ BufferTaken(r)
      BY <3>1
    <3>2. CASE Delete(r)
      <4>1. leaves \in SUBSET Slots /\ PushToCache(r, leaves) /\ UNCHANGED allocated
        BY <1>0, <1>2, <3>2, CurrentOpType, SlotTypes DEF Delete, UpdaterOps
      <4> QED BY <4>1
    <3>3. CASE ~Delete(r) /\ ~BuffersSame /\ ~BufferTaken(r)
      <4>1. CASE Wait(r)
        <5>1. leaves \in SUBSET Slots /\ UNCHANGED allocated
          BY <1>0, <4>1, CurrentOpType, SlotTypes DEF Wait, UpdaterOps
        <5>2. PushToCache(r, leaves)
          BY <3>3, <4>1 DEF Wait, BuffersSame
        <5> QED BY <5>1, <5>2
      <4>2. CASE SyncSendDone(r) \/ SyncRecvDone(r)
        <5>1. o \in Objects /\ UNCHANGED allocated
          BY <1>0, <4>2, CurrentOpType DEF SyncSendDone, SyncRecvDone, RequestOps, Objects
        <5>2. PICK n \in Ranks : \/ PushToCache(r, {<<o, "send", n>>})
                                 \/ PushToCache(r, {<<o, "recv", n>>})
          BY <4>2, BoundariesAssumption DEF SyncSendDone, SyncRecvDone
        <5>3. {<<o, "send", n>>} \in SUBSET Slots /\ {<<o, "recv", n>>} \in SUBSET Slots
          BY <5>1, SlotTypes
        <5> QED BY <5>1, <5>2, <5>3
      <4> QED
        BY <1>0, <3>3, <4>1, <4>2, PopsTake
        DEF RankStep, Create, StartRecv, StartSend, StartRaises, WaitRaises, Raise,
            SyncStarted, SyncWaited, Write, bufVars, BuffersSame
    <3> QED BY <3>1, <3>2, <3>3
  <2>2. Lost(q)' = Lost(q)
    BY <1>0, <2>1, LostSame
  <2>3. NeverUsed(q)' = NeverUsed(q)
    BY <1>0, <1>2, NeverUsedSame
  <2> QED BY <1>1, <2>2, <2>3
<1>3. CASE Delete(r) /\ o \in OneShot /\ status[r][o] = "finalized"
  <2>1. \A s \in leaves : buffer[r][s] = None
    BY <1>0, <1>3, SlotTypes DEF HoldersExist, UpdaterSlots
  <2>2. Drop(r, leaves) /\ leaves \in SUBSET Slots /\ cache' = cache /\ allocated' = allocated
    BY <1>0, <1>3, SlotTypes DEF Delete
  <2>3. buffer' = buffer
    <3>1. /\ buffer' \in [Ranks -> [Slots -> Buffers \cup {None}]]
          /\ \A p \in Ranks, s \in Slots : buffer'[p][s] = buffer[p][s]
      BY <1>0, <2>1, <2>2, DropEffect
    <3>2. \A p \in Ranks : buffer'[p] = buffer[p]
      BY <1>0, <3>1
    <3> QED BY <1>0, <3>1, <3>2
  <2>4. Lost(q)' = Lost(q)
    BY <1>0, <2>2, <2>3, LostSame DEF BuffersSame
  <2>5. \E k \in 1..pc[r] : program[k].kind = "wait" /\ program[k].obj = o
    <3>1. PICK w \in Waits(program, o) : w <= pc[r]
      BY <1>0, <1>3 DEF PInv, OneShotsAreSpent
    <3>2. w \in 1..pc[r] /\ w \in 1..Len(program) /\ program[w].obj = o
      BY <1>0, <3>1 DEF Waits
    <3>3. program[w].kind = "wait"
      BY <1>0, <1>3, <3>1, <3>2, ProgramOps, ObjectsAssumption DEF Waits, RequestOps
    <3> QED BY <3>2, <3>3
  <2>6. NeverUsed(q)' = NeverUsed(q)
    BY <1>0, <2>5, NeverUsedSame
  <2> QED BY <1>1, <2>4, <2>6
<1>4. CASE Delete(r) /\ o \in OneShot /\ status[r][o] # "finalized" /\ q # r
  <2>1. Drop(r, leaves) /\ leaves \in SUBSET Slots /\ cache' = cache /\ allocated' = allocated
    BY <1>0, <1>4, SlotTypes DEF Delete
  <2>2. \A s \in Slots : buffer'[q][s] = buffer[q][s]
    BY <1>0, <1>4, <2>1, DropEffect
  <2>3. Lost(q)' = Lost(q)
    BY <2>1, <2>2 DEF Lost, SlotBuffers
  <2>4. NeverUsed(q)' = NeverUsed(q)
    BY <1>0, <1>4, NeverUsedSame
  <2> QED BY <1>1, <2>3, <2>4
<1>5. CASE Delete(r) /\ o \in OneShot /\ status[r][o] # "finalized" /\ q = r
  <2> DEFINE gone == SlotBuffers(leaves, r)
  <2>1. /\ Drop(r, leaves) /\ leaves \in SUBSET Slots /\ cache' = cache
        /\ allocated' = allocated /\ status[r][o] = "idle" /\ o \in Objects
        /\ status' = [status EXCEPT ![r][o] = "deleted"] /\ pc' = [pc EXCEPT ![r] = @ + 1]
        /\ Executes(r, "delete")
    BY <1>0, <1>5, SlotTypes DEF Delete, Advance
  <2>2. \A s \in leaves : buffer[r][s] # None
    BY <1>0, <1>5, <2>1 DEF IInv, LiveUpdatersHold
  <2>3. /\ IsFiniteSet(gone) /\ Cardinality(gone) = 2 * Cardinality(Neighbors[r])
    BY <1>0, <1>5, <2>2, BuffersOfUpdater
  <2>4. \A s \in Slots : buffer'[r][s] = IF s \in leaves THEN None ELSE buffer[r][s]
    BY <1>0, <2>1, DropEffect
  <2>5. /\ cache[r] \cup SlotBuffers(Slots, r) \subseteq 1..allocated[r]
        /\ cache[r] \cap SlotBuffers(Slots, r) = {}
        /\ \A s, t \in Slots :
             buffer[r][s] # None /\ buffer[r][s] = buffer[r][t] => s = t
    BY <1>0 DEF BuffersPartitioned
  <2>6. \A b : b \in SlotBuffers(Slots, r)' <=> b \in SlotBuffers(Slots, r) \ gone
    <3> SUFFICES ASSUME NEW b
                 PROVE  b \in SlotBuffers(Slots, r)' <=> b \in SlotBuffers(Slots, r) \ gone
      OBVIOUS
    <3> QED BY <2>1, <2>4, <2>5 DEF SlotBuffers
  <2>7. gone \subseteq SlotBuffers(Slots, r)
    BY <2>1 DEF SlotBuffers
  <2>8. Lost(r)' = Lost(r) \cup gone /\ Lost(r) \cap gone = {}
    BY <2>1, <2>5, <2>6, <2>7 DEF Lost
  <2>9. IsFiniteSet(Lost(r))
    <3>1. allocated[r] \in Int
      BY <1>0, ProgramsAssumption DEF TypeOK, BufferTypeOK
    <3> QED BY <3>1, FS_Interval, FS_Subset DEF Lost
  <2>10. Cardinality(Lost(r)') = Cardinality(Lost(r)) + 2 * Cardinality(Neighbors[r])
    <3>1. Cardinality(Lost(r) \cap gone) = 0
      BY <2>8, FS_EmptySet
    <3>2. Cardinality(Lost(r)) \in Nat /\ Cardinality(gone) \in Nat
      BY <2>3, <2>9, FS_CardinalityType
    <3> HIDE DEF gone
    <3>3. Cardinality(Lost(r) \cup gone) =
            Cardinality(Lost(r)) + Cardinality(gone) - Cardinality(Lost(r) \cap gone)
      BY <2>3, <2>9, FS_Union
    <3>4. Cardinality(Lost(r)') = Cardinality(Lost(r) \cup gone)
      BY <2>8
    <3> QED BY <2>3, <3>1, <3>2, <3>3, <3>4
  <2>11. NeverUsed(r)' = NeverUsed(r) \cup {o} /\ o \notin NeverUsed(r)
    <3>1. \A k \in 1..pc[r] : program[k].kind = "wait" => program[k].obj # o
      <4> SUFFICES ASSUME NEW k \in 1..pc[r], program[k].kind = "wait", program[k].obj = o
                   PROVE  FALSE
        OBVIOUS
      <4>1. k \in Waits(program, o)
        <5>1. pc[r] + 1 \in 1..Len(program) /\ pc[r] \in Nat
          BY <1>0, RankMoves
        <5> QED BY <5>1 DEF Waits
      <4>2. pc[r] < k
        BY <1>0, <1>5, <2>1, <4>1 DEF PInv, OneShotsAreSpent
      <4> QED BY <1>0, <4>2
    <3>2. pc'[r] = pc[r] + 1 /\ 1..pc'[r] = 1..pc[r] \cup {pc[r] + 1}
      <4>1. pc[r] \in Nat /\ pc'[r] = pc[r] + 1
        BY <1>0, <2>1
      <4>2. \A k \in Nat : 1..(k + 1) = 1..k \cup {k + 1}
        OBVIOUS
      <4> QED BY <4>1, <4>2
    <3>3. program[pc[r] + 1].kind = "delete"
      BY <1>0, <2>1, RankMoves DEF Executes
    <3>4. \A u \in Objects : status'[r][u] = IF u = o THEN "deleted" ELSE status[r][u]
      BY <1>0, <2>1
    <3>5. \A k : k \in 1..pc'[r] <=> k \in 1..pc[r] \/ k = pc[r] + 1
      BY <3>2
    <3> HIDE DEF o
    <3>6. ASSUME NEW u \in OneShot
          PROVE  u \in NeverUsed(r)' <=> u \in NeverUsed(r) \/ u = o
      <4>1. u \in NeverUsed(r)' <=>
              /\ status'[r][u] = "deleted"
              /\ \A k \in 1..pc'[r] : program[k].kind = "wait" => program[k].obj # u
        BY <1>0 DEF NeverUsed
      <4>2. u \in NeverUsed(r) <=>
              /\ status[r][u] = "deleted"
              /\ \A k \in 1..pc[r] : program[k].kind = "wait" => program[k].obj # u
        BY DEF NeverUsed
      <4>3. \A k \in 1..pc'[r] : k \in 1..pc[r] \/ k = pc[r] + 1
        BY <3>5
      <4>4. \A k \in 1..pc[r] : k \in 1..pc'[r]
        BY <3>5
      <4>5. "delete" # "wait" /\ u \in Objects
        BY <1>0
      <4> QED BY <3>1, <3>3, <3>4, <4>1, <4>2, <4>3, <4>4, <4>5
    <3>7. o \notin NeverUsed(r) /\ o \in OneShot
      BY <1>5, <2>1 DEF NeverUsed
    <3>8. NeverUsed(r) \subseteq OneShot /\ NeverUsed(r)' \subseteq OneShot
      BY DEF NeverUsed
    <3> QED BY <3>6, <3>7, <3>8
  <2>12. IsFiniteSet(NeverUsed(r))
    BY ObjectsAssumption, FS_Subset DEF NeverUsed
  <2>13. Cardinality(NeverUsed(r)') = Cardinality(NeverUsed(r)) + 1
    BY <2>11, <2>12, FS_AddElement
  <2>14. Cardinality(NeverUsed(r)) \in Nat /\ Cardinality(Neighbors[r]) \in Nat
    BY <2>12, BoundariesAssumption, FS_Subset, FS_CardinalityType
  <2>15. \A a, b \in Nat : 2 * a * (b + 1) = 2 * a * b + 2 * a
    OBVIOUS
  <2> QED BY <1>1, <1>5, <2>10, <2>13, <2>14, <2>15
<1> QED BY <1>0, <1>2, <1>3, <1>4, <1>5

(* Counting holds at first, and every step keeps the count. *)
LEMMA InitLoss == Init => HoldersExist /\ LossCounted
<1> SUFFICES ASSUME Init PROVE HoldersExist /\ LossCounted
  OBVIOUS
<1>1. HoldersExist
  BY DEF Init, HoldersExist
<1>2. ASSUME NEW r \in Ranks
      PROVE  Cardinality(Lost(r)) = 2 * Cardinality(Neighbors[r]) * Cardinality(NeverUsed(r))
  <2>1. Lost(r) = {}
    BY DEF Init, Lost
  <2>2. NeverUsed(r) = {}
    BY ObjectsAssumption DEF Init, NeverUsed, Objects
  <2>3. Cardinality(Neighbors[r]) \in Nat
    BY BoundariesAssumption, FS_Subset, FS_CardinalityType
  <2>4. \A a \in Nat : 2 * a * 0 = 0
    OBVIOUS
  <2> QED BY <2>1, <2>2, <2>3, <2>4, FS_EmptySet
<1> QED BY <1>1, <1>2 DEF LossCounted

LEMMA NextLoss == PInv /\ HoldersExist /\ LossCounted /\ [Next]_vars => (HoldersExist /\ LossCounted)'
<1> SUFFICES ASSUME PInv, HoldersExist, LossCounted, [Next]_vars
             PROVE  HoldersExist' /\ LossCounted'
  OBVIOUS
<1>0. IInv
  BY DEF PInv, MInv
<1>1. ASSUME NEW r \in Ranks, RankStep(r) PROVE HoldersExist' /\ LossCounted'
  BY <1>0, <1>1, HoldersRankStep, LossRankStep
<1>2. ASSUME UNCHANGED <<rankVars, buffer, cache, allocated>> PROVE HoldersExist' /\ LossCounted'
  BY <1>2 DEF rankVars, HoldersExist, LossCounted, Lost, NeverUsed, SlotBuffers
<1> QED
  BY <1>1, <1>2, StepCases DEF Deliver, DeliverCopy, CopyOut, vars, bufVars

-----------------------------------------------------------------------------
(***************************************************************************)
(* What is pending, copied out or arrived is what its start offered, the   *)
(* start under way is the last one, and every halo holds what its waits    *)
(* brought (HaloUpdater.start, HaloUpdater.wait, HaloUpdateRequest.wait).  *)
(***************************************************************************)
THEOREM PromiseInvariant == Spec => []PInv
BY InitPromise, NextPromise, PTL DEF Spec

(***************************************************************************)
(* Whatever exchanges a program makes, no buffer is free and held, or held *)
(* twice, and exactly the buffers of the one-shot updaters deleted without *)
(* a wait are gone (Buffer.pop_from_cache, push_to_cache,                  *)
(* HaloDataTransformer.finalize, HaloUpdater.__del__).                     *)
(***************************************************************************)
THEOREM OnlyUnusedOneShotsLoseBuffers == Spec => []OnlyUnusedBuffersAreLost
<1>1. Spec => [](HoldersExist /\ LossCounted)
  BY InitLoss, NextLoss, PromiseInvariant, PTL DEF Spec
<1>2. PInv /\ HoldersExist /\ LossCounted => OnlyUnusedBuffersAreLost
  <2> SUFFICES ASSUME PInv, HoldersExist, LossCounted, NEW r \in Ranks
      PROVE  /\ cache[r] \cup Held(r) \subseteq 1..allocated[r]
             /\ cache[r] \cap Held(r) = {}
             /\ \A s, t \in Slots :
                  buffer[r][s] # None /\ buffer[r][s] = buffer[r][t] => s = t
             /\ Cardinality((1..allocated[r]) \ (cache[r] \cup Held(r))) =
                  2 * Cardinality(Neighbors[r]) * Cardinality(NeverUsed(r))
    BY DEF OnlyUnusedBuffersAreLost
  <2>1. Held(r) = SlotBuffers(Slots, r)
    BY DEF Held, SlotBuffers, HoldersExist
  <2>2. BuffersPartitioned
    BY DEF PInv, MInv, IInv
  <2> QED BY <2>1, <2>2 DEF BuffersPartitioned, LossCounted, Lost
<1> QED BY <1>1, <1>2, PromiseInvariant, PTL

(***************************************************************************)
(* Whatever the program, the number of ranks and of buffers, every         *)
(* behaviour of the exchange keeps the promise of HaloExchange: a wait     *)
(* returns no sooner than its sources reached their start, with exactly    *)
(* what they offered there, and misuse raises (HaloUpdater.start,          *)
(* HaloUpdater.wait, HaloUpdateRequest.wait).                              *)
(***************************************************************************)
THEOREM ExchangeKeepsItsPromise == Spec => ImplementsPromise
<1>1. Spec => Promised!Init /\ [][Promised!Next]_(Promised!vars)
  BY InitKeepsPromise, NextKeepsPromise, PromiseInvariant, PTL DEF Spec
<1> QED BY <1>1 DEF ImplementsPromise, Promised!Spec

=============================================================================
