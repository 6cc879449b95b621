--------------------------- MODULE DiagnosticsProofs ---------------------------
(***************************************************************************)
(* What the ranks write through the NetCDF and the zarr monitor, for every *)
(* number of ranks, list of variables, chunk size and length of a run.     *)
(***************************************************************************)
EXTENDS Diagnostics, SequenceTheorems, TLAPS

-----------------------------------------------------------------------------
(* Products, quotients and remainders, of which both proofs count.         *)

(* Of two multiples of a number the greater is greater by that number at least. *)
LEMMA ProductGrows ==
  ASSUME NEW a \in Int, NEW b \in Int, NEW c \in Nat \ {0}, a < b
  PROVE  a * c + c <= b * c
<1> DEFINE d == b - a - 1
<1>1. d \in Nat
  OBVIOUS
<1>2. d * c \in Nat
  <2> HIDE DEF d
  <2> QED BY <1>1
<1>3. b = a + 1 + d
  OBVIOUS
<1> HIDE DEF d
<1> QED BY <1>1, <1>2, <1>3

(* Quotient and remainder are numbers that give the dividend back. *)
LEMMA DivMod ==
  ASSUME NEW a \in Nat, NEW c \in Nat \ {0}
  PROVE  /\ a \div c \in Nat /\ a % c \in Nat /\ a % c < c
         /\ a = ((a \div c) * c) + (a % c)
  BY SMT

(* No other quotient and remainder do. *)
LEMMA DivModUnique ==
  ASSUME NEW q \in Nat, NEW m \in Nat, NEW c \in Nat \ {0}, m < c
  PROVE  (q * c + m) \div c = q /\ (q * c + m) % c = m
<1> DEFINE a == q * c + m
           p == a \div c
           r == a % c
<1>1. a \in Nat
  BY SMT
<1>2. p \in Nat /\ r \in Nat /\ r < c /\ a = p * c + r
  BY <1>1, DivMod
<1>3. ~ (p < q)
  BY <1>2, ProductGrows
<1>4. ~ (q < p)
  BY <1>2, ProductGrows
<1>5. p = q
  <2> HIDE DEF p
  <2> QED BY <1>2, <1>3, <1>4
<1>6. r = m
  <2> HIDE DEF p, r
  <2> QED BY <1>2, <1>5
<1> QED BY <1>5, <1>6

(* The quotient and the remainder of the next number. *)
LEMMA NextInChunk ==
  ASSUME NEW a \in Nat, NEW c \in Nat \ {0}
  PROVE  IF (a + 1) % c = 0
         THEN (a + 1) \div c = (a \div c) + 1 /\ a % c = c - 1
         ELSE (a + 1) \div c = a \div c /\ (a + 1) % c = (a % c) + 1
<1> DEFINE p == a \div c
           r == a % c
<1>1. p \in Nat /\ r \in Nat /\ r < c /\ a = p * c + r
  BY DivMod
<1>2. CASE r = c - 1
  <2>1. a + 1 = (p + 1) * c + 0
    <3> HIDE DEF p, r
    <3> QED BY <1>1, <1>2
  <2>2. (a + 1) \div c = p + 1 /\ (a + 1) % c = 0
    <3>1. p + 1 \in Nat /\ 0 < c
      BY <1>1
    <3> HIDE DEF p, r
    <3>2. ((p + 1) * c + 0) \div c = p + 1 /\ ((p + 1) * c + 0) % c = 0
      BY <3>1, DivModUnique
    <3> QED BY <3>2, <2>1
  <2> QED BY <2>2, <1>2
<1>3. CASE r # c - 1
  <2>1. a + 1 = p * c + (r + 1) /\ r + 1 \in Nat /\ r + 1 < c
    <3> HIDE DEF p, r
    <3> QED BY <1>1, <1>3
  <2>2. (a + 1) \div c = p /\ (a + 1) % c = r + 1
    <3> HIDE DEF p, r
    <3> QED BY <1>1, <2>1, DivModUnique
  <2> QED BY <2>2, <1>1
<1> QED BY <1>2, <1>3

-----------------------------------------------------------------------------
(***************************************************************************)
(* What the ranks of a tile write through the NetCDF monitor, for every    *)
(* number of ranks, list of variables, chunk size and length of a run.     *)
(*                                                                         *)
(* The clients run ahead of the root.  The argument counts the arrays each *)
(* rank has handed to Gather since the start: what is in the network from  *)
(* a client are the arrays between the root's count and the client's, in   *)
(* that order, so that the array the root takes next is the one it asks    *)
(* for.                                                                    *)
(***************************************************************************)

NRoot == N!Root

Width == Len(Names)

Datum == [name : {Names[v] : v \in N!Vars}, time : Nat, rank : Ranks]

Snapshots == [Ranks -> Datum]

NTypeOK ==
  /\ last \in Nat
  /\ n_pc \in [Ranks -> {"store", "append", "cleanup", "done"}]
  /\ stored \in [Ranks -> Nat]
  /\ name \in [Ranks -> N!Vars]
  /\ network \in [N!Clients -> Seq(Datum)]
  /\ gathered \in Seq(Snapshots)
  /\ chunked \in [N!Vars -> Seq(Snapshots)]
  /\ n_time \in Nat
  /\ files \in [DOMAIN files -> [N!Vars -> Seq(Snapshots)]]
  /\ DOMAIN files \subseteq Nat

(* Where a rank is in its stores. *)
PhaseOK(rank) ==
  /\ stored[rank] <= last
  /\ n_pc[rank] \in {"store", "append"} <=> stored[rank] < last
  /\ n_pc[rank] # "store" => name[rank] = 1
  /\ n_pc[rank] = "append" => rank = NRoot

PhasesOK == \A rank \in Ranks : PhaseOK(rank)

(* The variables before the one the root gathers, at its present time. *)
GatheredSoFar ==
  /\ Len(gathered) = IF n_pc[NRoot] = "append" THEN Width ELSE name[NRoot] - 1
  /\ \A k \in 1..Len(gathered) : gathered[k] = N!Whole(k, stored[NRoot])

(* The arrays a client has sent and the root has taken of each client. *)
SentBy(rank) == stored[rank] * Width + (name[rank] - 1)

TakenByRoot == stored[NRoot] * Width + Len(gathered)

(* The array a rank hands to Gather after p others. *)
ArrayAfter(p, rank) == N!Value((p % Width) + 1, p \div Width, rank)

NQueueOK(rank) ==
  /\ Len(network[rank]) = SentBy(rank) - TakenByRoot
  /\ \A k \in 1..Len(network[rank]) : network[rank][k] = ArrayAfter(TakenByRoot + k - 1, rank)

NetworkInOrder == \A rank \in N!Clients : NQueueOK(rank)

(* The times of the present chunk, and none once the root has cleaned up. *)
MemoryHoldsTheChunk ==
  /\ n_time = stored[NRoot]
  /\ \A v \in N!Vars :
       /\ Len(chunked[v]) = IF n_pc[NRoot] = "done" THEN 0 ELSE n_time % TimeChunkSize
       /\ \A i \in 1..Len(chunked[v]) :
            chunked[v][i] = N!Whole(v, (n_time \div TimeChunkSize) * TimeChunkSize + i - 1)

(* The chunks before the present one, and that one after the cleanup. *)
FilesWritten ==
  /\ \A k \in Nat :
       k \in DOMAIN files <=> \/ k < n_time \div TimeChunkSize
                              \/ /\ n_pc[NRoot] = "done"
                                 /\ k = n_time \div TimeChunkSize
                                 /\ n_time % TimeChunkSize # 0
  /\ \A k \in DOMAIN files, v \in N!Vars :
       /\ Len(files[k][v]) = IF k < n_time \div TimeChunkSize THEN TimeChunkSize
                             ELSE n_time % TimeChunkSize
       /\ \A i \in 1..Len(files[k][v]) : files[k][v][i] = N!Whole(v, k * TimeChunkSize + i - 1)

NInv ==
  /\ NTypeOK
  /\ PhasesOK
  /\ GatheredSoFar
  /\ NetworkInOrder
  /\ MemoryHoldsTheChunk
  /\ FilesWritten

NetCDFInv == format = "netcdf" => NInv
-----------------------------------------------------------------------------
(* The constants. *)
LEMMA NetCDFParameters ==
  /\ NRoot \in Ranks /\ N!Clients = Ranks \ {NRoot}
  /\ Width \in Nat \ {0} /\ N!Vars = 1..Width
  /\ TimeChunkSize \in Nat \ {0}
  BY DiagnosticsAssumption, EmptySeq DEF NRoot, Width, N!Root, N!Clients, N!Vars

LEMMA ValueType ==
  ASSUME NEW v \in N!Vars, NEW time \in Nat, NEW rank \in Ranks
  PROVE  N!Value(v, time, rank) \in Datum
  BY DEF N!Value, Datum

LEMMA ArrayInOrder ==
  ASSUME NEW time \in Nat, NEW v \in N!Vars, NEW rank
  PROVE  ArrayAfter(time * Width + (v - 1), rank) = N!Value(v, time, rank)
<1>1. v - 1 \in Nat /\ v - 1 < Width /\ Width \in Nat \ {0} /\ (v - 1) + 1 = v
  BY NetCDFParameters
<1>2. (time * Width + (v - 1)) \div Width = time /\ (time * Width + (v - 1)) % Width = v - 1
  BY <1>1, DivModUnique
<1> QED BY <1>1, <1>2 DEF ArrayAfter

-----------------------------------------------------------------------------
LEMMA NetCDFInit == Init => NetCDFInv
<1> SUFFICES ASSUME N!Init PROVE NInv
  BY DEF Init, NetCDFInv
<1> USE DEF N!Init
<1>0. NRoot \in Ranks /\ 1 \in N!Vars /\ last \in Nat
  BY NetCDFParameters, DiagnosticsAssumption
<1>1. NTypeOK
  <2>1. N!NoChunk \in [N!Vars -> Seq(Snapshots)]
    BY EmptySeq DEF N!NoChunk
  <2>2. files \in [DOMAIN files -> [N!Vars -> Seq(Snapshots)]] /\ DOMAIN files \subseteq Nat
    OBVIOUS
  <2> QED BY <1>0, <2>1, <2>2, EmptySeq DEF NTypeOK
<1>2. PhasesOK
  BY <1>0 DEF PhasesOK, PhaseOK
<1>3. GatheredSoFar
  BY <1>0 DEF GatheredSoFar
<1>4. NetworkInOrder
  BY <1>0, NetCDFParameters DEF NetworkInOrder, NQueueOK, SentBy, TakenByRoot
<1>5. 0 \div TimeChunkSize = 0 /\ 0 % TimeChunkSize = 0
  BY DiagnosticsAssumption, SMT
<1>6. MemoryHoldsTheChunk
  BY <1>0, <1>5 DEF MemoryHoldsTheChunk, N!NoChunk
<1>7. FilesWritten
  BY <1>0, <1>5 DEF FilesWritten
<1> QED BY <1>1, <1>2, <1>3, <1>4, <1>6, <1>7 DEF NInv

-----------------------------------------------------------------------------
(* A client hands an array to Gather: it comes last in the network. *)
LEMMA ClientGatherStep ==
  ASSUME NInv, NEW rank \in Ranks, N!ClientGather(rank)
  PROVE  NInv'
<1>0. NTypeOK /\ PhasesOK /\ GatheredSoFar /\ NetworkInOrder /\ MemoryHoldsTheChunk /\ FilesWritten
  BY DEF NInv
<1>1. /\ rank \in N!Clients /\ rank # NRoot
      /\ n_pc[rank] = "store" /\ stored[rank] < last
      /\ UNCHANGED <<last, gathered, chunked, n_time, files>>
      /\ \A r \in Ranks \ {rank} :
           n_pc'[r] = n_pc[r] /\ stored'[r] = stored[r] /\ name'[r] = name[r]
      /\ \A r \in N!Clients \ {rank} : network'[r] = network[r]
      /\ network'[rank] = Append(network[rank], N!Value(name[rank], stored[rank], rank))
      /\ IF name[rank] = Width
         THEN /\ name'[rank] = 1 /\ stored'[rank] = stored[rank] + 1
              /\ n_pc'[rank] = IF stored[rank] + 1 = last THEN "cleanup" ELSE "store"
         ELSE /\ name'[rank] = name[rank] + 1 /\ stored'[rank] = stored[rank]
              /\ n_pc'[rank] = "store"
      /\ NTypeOK'
  <2> USE DEF N!ClientGather
  <2>0. /\ rank \in N!Clients /\ rank # NRoot
        /\ n_pc[rank] = "store" /\ stored[rank] < last
    BY <1>0, NetCDFParameters DEF PhasesOK, PhaseOK
  <2>1. /\ n_pc \in [Ranks -> {"store", "append", "cleanup", "done"}]
        /\ stored \in [Ranks -> Nat] /\ name \in [Ranks -> N!Vars]
        /\ network \in [N!Clients -> Seq(Datum)]
    BY <1>0 DEF NTypeOK
  <2>2. UNCHANGED <<last, gathered, chunked, n_time, files>>
    OBVIOUS
  <2>3. /\ \A r \in N!Clients \ {rank} : network'[r] = network[r]
        /\ network'[rank] = Append(network[rank], N!Value(name[rank], stored[rank], rank))
        /\ network' \in [N!Clients -> Seq(Datum)]
    <3>1. Append(network[rank], N!Value(name[rank], stored[rank], rank)) \in Seq(Datum)
      BY <2>0, <2>1, ValueType, AppendProperties
    <3> QED BY <2>0, <2>1, <3>1
  <2>4. CASE name[rank] = Width
    <3>1. /\ name' = [name EXCEPT ![rank] = 1] /\ stored' = [stored EXCEPT ![rank] = @ + 1]
          /\ n_pc' = [n_pc EXCEPT ![rank] = IF stored[rank] + 1 = last THEN "cleanup" ELSE "store"]
      BY <2>4 DEF Width, N!AfterStore
    <3>2. stored[rank] + 1 \in Nat /\ 1 \in N!Vars
      BY <2>1, NetCDFParameters
    <3>3. /\ n_pc' \in [Ranks -> {"store", "append", "cleanup", "done"}]
          /\ stored' \in [Ranks -> Nat] /\ name' \in [Ranks -> N!Vars]
      BY <2>1, <3>1, <3>2
    <3>4. NTypeOK'
      BY <1>0, <2>2, <2>3, <3>3 DEF NTypeOK
    <3> QED BY <2>0, <2>1, <2>2, <2>3, <2>4, <3>1, <3>4
  <2>5. CASE name[rank] # Width
    <3>1. name' = [name EXCEPT ![rank] = @ + 1] /\ UNCHANGED <<stored, n_pc>>
      BY <2>5 DEF Width
    <3>2. name[rank] + 1 \in N!Vars
      BY <2>1, <2>5, NetCDFParameters
    <3>3. name' \in [Ranks -> N!Vars]
      BY <2>1, <3>1, <3>2
    <3>4. NTypeOK'
      BY <1>0, <2>2, <2>3, <3>1, <3>3 DEF NTypeOK
    <3> QED BY <2>0, <2>1, <2>2, <2>3, <2>5, <3>1, <3>4
  <2> QED BY <2>4, <2>5
<1>2. /\ n_pc'[NRoot] = n_pc[NRoot] /\ stored'[NRoot] = stored[NRoot] /\ name'[NRoot] = name[NRoot]
      /\ N!Root = NRoot /\ NRoot \in Ranks
  BY <1>1, NetCDFParameters DEF NRoot
<1>3. PhasesOK'
  <2>1. PhaseOK(rank)'
    <3>1. stored[rank] \in Nat /\ last \in Nat
      BY <1>0 DEF NTypeOK
    <3> QED BY <1>1, <3>1 DEF PhaseOK
  <2>2. ASSUME NEW r \in Ranks \ {rank} PROVE PhaseOK(r)'
    BY <1>0, <1>1, <2>2 DEF PhasesOK, PhaseOK
  <2> QED BY <2>1, <2>2 DEF PhasesOK
<1>4. GatheredSoFar'
  BY <1>0, <1>1, <1>2 DEF GatheredSoFar, N!Whole, N!Value
<1>5. NetworkInOrder'
  <2>1. TakenByRoot' = TakenByRoot
    BY <1>1, <1>2 DEF TakenByRoot
  <2>2. ASSUME NEW r \in N!Clients \ {rank} PROVE NQueueOK(r)'
    <3>1. SentBy(r)' = SentBy(r) /\ r \in N!Clients /\ r \in Ranks \ {rank}
      BY <1>1, <2>2, NetCDFParameters DEF SentBy
    <3> QED BY <1>0, <1>1, <2>1, <3>1 DEF NetworkInOrder, NQueueOK, ArrayAfter, N!Value
  <2>3. NQueueOK(rank)'
    <3>1. /\ stored[rank] \in Nat /\ name[rank] \in N!Vars /\ network[rank] \in Seq(Datum)
          /\ name[rank] \in 1..Width /\ Width \in Nat \ {0}
      BY <1>0, <1>1, NetCDFParameters DEF NTypeOK
    <3>2. SentBy(rank)' = SentBy(rank) + 1 /\ SentBy(rank) \in Nat
      <4>1. stored[rank] * Width \in Nat /\ (stored[rank] + 1) * Width = stored[rank] * Width + Width
        BY <3>1
      <4>2. CASE name[rank] = Width
        <5>1. SentBy(rank)' = (stored[rank] + 1) * Width + (1 - 1)
          BY <1>1, <4>2 DEF SentBy, Width
        <5> QED BY <3>1, <4>1, <4>2, <5>1 DEF SentBy
      <4>3. CASE name[rank] # Width
        <5>1. SentBy(rank)' = stored[rank] * Width + ((name[rank] + 1) - 1)
          BY <1>1, <4>3 DEF SentBy, Width
        <5> QED BY SMTT(30), <3>1, <4>1, <4>3, <5>1 DEF SentBy
      <4> QED BY <4>2, <4>3
    <3>3. ArrayAfter(SentBy(rank), rank) = N!Value(name[rank], stored[rank], rank)
      BY <3>1, ArrayInOrder DEF SentBy
    <3>4. /\ Len(network[rank]) \in Nat /\ Len(network[rank]) = SentBy(rank) - TakenByRoot
          /\ \A k \in 1..Len(network[rank]) :
               network[rank][k] = ArrayAfter(TakenByRoot + k - 1, rank)
      BY <1>0, <1>1, <3>1, LenProperties DEF NetworkInOrder, NQueueOK
    <3>5. TakenByRoot \in Int
      <4>1. stored[NRoot] \in Nat /\ Len(gathered) \in Nat
        BY <1>0, <1>2, LenProperties DEF NTypeOK
      <4> QED BY <4>1, NetCDFParameters DEF TakenByRoot
    <3>6. /\ Len(network'[rank]) = Len(network[rank]) + 1
          /\ \A k \in 1..Len(network[rank]) : network'[rank][k] = network[rank][k]
          /\ network'[rank][Len(network[rank]) + 1] = N!Value(name[rank], stored[rank], rank)
      <4>1. N!Value(name[rank], stored[rank], rank) \in Datum
        BY <3>1, ValueType
      <4> QED BY <1>1, <3>1, <4>1, AppendProperties
    <3>7. Len(network'[rank]) = SentBy(rank)' - TakenByRoot'
      BY <2>1, <3>2, <3>4, <3>5, <3>6
    <3>8. ASSUME NEW k \in 1..Len(network'[rank])
          PROVE  network'[rank][k] = ArrayAfter(TakenByRoot + k - 1, rank)
      <4>1. CASE k \in 1..Len(network[rank])
        BY <3>4, <3>6, <4>1
      <4>2. CASE k = Len(network[rank]) + 1
        <5>1. TakenByRoot + k - 1 = SentBy(rank)
          BY <3>2, <3>4, <3>5, <4>2
        <5> QED BY <3>3, <3>6, <4>2, <5>1
      <4> QED BY <3>4, <3>6, <3>8, <4>1, <4>2
    <3> QED BY <2>1, <3>7, <3>8 DEF NQueueOK, ArrayAfter, N!Value
  <2> QED BY <2>2, <2>3 DEF NetworkInOrder
<1>6. MemoryHoldsTheChunk'
  BY <1>0, <1>1, <1>2 DEF MemoryHoldsTheChunk, N!Whole, N!Value
<1>7. FilesWritten'
  BY <1>0, <1>1, <1>2 DEF FilesWritten, N!Whole, N!Value
<1> QED BY <1>1, <1>3, <1>4, <1>5, <1>6, <1>7 DEF NInv

(* The root takes one array of each client: those of its own variable. *)
LEMMA RootGatherStep ==
  ASSUME NInv, N!RootGather
  PROVE  NInv'
<1> DEFINE snapshot == N!Snapshot([r \in N!Clients |-> N!Taken(network[r])])
<1>0. NTypeOK /\ PhasesOK /\ GatheredSoFar /\ NetworkInOrder /\ MemoryHoldsTheChunk /\ FilesWritten
  BY DEF NInv
<1>1. /\ n_pc[NRoot] = "store"
      /\ \A r \in N!Clients : network[r] # << >>
      /\ gathered' = Append(gathered, snapshot)
      /\ network' = [r \in N!Clients |-> Tail(network[r])]
      /\ IF name[NRoot] = Width
         THEN n_pc' = [n_pc EXCEPT ![NRoot] = "append"] /\ name' = [name EXCEPT ![NRoot] = 1]
         ELSE name' = [name EXCEPT ![NRoot] = @ + 1] /\ UNCHANGED n_pc
      /\ UNCHANGED <<last, stored, chunked, n_time, files>>
  BY DEF N!RootGather, N!AllSent, NRoot, Width
<1>2. /\ NRoot \in Ranks /\ N!Root = NRoot /\ Width \in Nat \ {0}
      /\ stored[NRoot] \in Nat /\ name[NRoot] \in 1..Width /\ name[NRoot] \in N!Vars
      /\ stored[NRoot] < last /\ last \in Nat
      /\ Len(gathered) = name[NRoot] - 1
  BY <1>0, <1>1, NetCDFParameters DEF NTypeOK, PhasesOK, PhaseOK, GatheredSoFar, NRoot
<1>3. TakenByRoot = stored[NRoot] * Width + (name[NRoot] - 1) /\ TakenByRoot \in Nat
  <2>1. stored[NRoot] * Width \in Nat
    BY <1>2
  <2> QED BY <1>2, <2>1, SMTT(30) DEF TakenByRoot
<1>4. ASSUME NEW r \in N!Clients
      PROVE  /\ r \in Ranks /\ r # NRoot /\ network[r] \in Seq(Datum)
             /\ Len(network[r]) \in Nat \ {0}
             /\ Len(network[r]) = SentBy(r) - TakenByRoot
             /\ \A k \in 1..Len(network[r]) : network[r][k] = ArrayAfter(TakenByRoot + k - 1, r)
             /\ network'[r] \in Seq(Datum) /\ Len(network'[r]) = Len(network[r]) - 1
             /\ \A k \in 1..(Len(network[r]) - 1) : network'[r][k] = network[r][k + 1]
  <2>1. r \in Ranks /\ r # NRoot /\ network[r] \in Seq(Datum) /\ network[r] # << >>
    BY <1>0, <1>1, <1>4, NetCDFParameters DEF NTypeOK
  <2>2. Len(network[r]) \in Nat \ {0}
    BY <2>1, EmptySeq
  <2>3. /\ Len(network[r]) = SentBy(r) - TakenByRoot
        /\ \A k \in 1..Len(network[r]) : network[r][k] = ArrayAfter(TakenByRoot + k - 1, r)
    BY <1>0, <1>4 DEF NetworkInOrder, NQueueOK
  <2>4. network'[r] = Tail(network[r])
    BY <1>1, <1>4
  <2>5. /\ Tail(network[r]) \in Seq(Datum) /\ Len(Tail(network[r])) = Len(network[r]) - 1
        /\ \A k \in 1..(Len(network[r]) - 1) : Tail(network[r])[k] = network[r][k + 1]
    BY <2>1, <2>2, HeadTailProperties
  <2> QED BY <2>1, <2>2, <2>3, <2>4, <2>5
<1>5. snapshot = N!Whole(name[NRoot], stored[NRoot]) /\ snapshot \in Snapshots
  <2>1. ASSUME NEW r \in N!Clients
        PROVE  N!Taken(network[r]) = N!Value(name[NRoot], stored[NRoot], r)
    <3>1. N!Taken(network[r]) = network[r][1] /\ 1 \in 1..Len(network[r])
      BY <1>4, <2>1 DEF N!Taken
    <3>2. network[r][1] = ArrayAfter(TakenByRoot + 1 - 1, r) /\ TakenByRoot + 1 - 1 = TakenByRoot
      BY <1>3, <1>4, <2>1, <3>1
    <3>3. ArrayAfter(stored[NRoot] * Width + (name[NRoot] - 1), r) = N!Value(name[NRoot], stored[NRoot], r)
      BY <1>2, ArrayInOrder
    <3> QED BY <1>3, <3>1, <3>2, <3>3
  <2>2. snapshot = [r \in Ranks |-> N!Value(name[NRoot], stored[NRoot], r)]
    BY <1>2, <2>1, NetCDFParameters DEF N!Snapshot
  <2>3. snapshot \in Snapshots
    BY <1>2, <2>2, ValueType DEF Snapshots
  <2> QED BY <2>2, <2>3 DEF N!Whole
<1> HIDE DEF snapshot
<1>6. /\ gathered' \in Seq(Snapshots) /\ Len(gathered') = Len(gathered) + 1
      /\ \A k \in 1..Len(gathered) : gathered'[k] = gathered[k]
      /\ gathered'[Len(gathered) + 1] = snapshot
  <2>1. gathered \in Seq(Snapshots)
    BY <1>0 DEF NTypeOK
  <2> QED BY <1>1, <1>5, <2>1, AppendProperties
<1>7. /\ \A r \in Ranks \ {NRoot} : n_pc'[r] = n_pc[r] /\ name'[r] = name[r]
      /\ n_pc'[NRoot] = IF name[NRoot] = Width THEN "append" ELSE "store"
      /\ name'[NRoot] = IF name[NRoot] = Width THEN 1 ELSE name[NRoot] + 1
      /\ NTypeOK'
  <2>1. /\ n_pc \in [Ranks -> {"store", "append", "cleanup", "done"}]
        /\ name \in [Ranks -> N!Vars]
    BY <1>0 DEF NTypeOK
  <2>2. 1 \in N!Vars /\ (name[NRoot] # Width => name[NRoot] + 1 \in N!Vars)
    BY <1>2, NetCDFParameters
  <2>3. /\ n_pc' \in [Ranks -> {"store", "append", "cleanup", "done"}]
        /\ name' \in [Ranks -> N!Vars]
    BY <1>1, <1>2, <2>1, <2>2
  <2>4. network' \in [N!Clients -> Seq(Datum)]
    BY <1>1, <1>4
  <2>5. NTypeOK'
    BY <1>0, <1>1, <1>6, <2>3, <2>4 DEF NTypeOK
  <2> QED BY <1>1, <1>2, <2>1, <2>5
<1>8. PhasesOK'
  BY <1>0, <1>1, <1>2, <1>7 DEF PhasesOK, PhaseOK
<1>9. GatheredSoFar'
  <2>1. Len(gathered') = IF n_pc'[NRoot] = "append" THEN Width ELSE name'[NRoot] - 1
    BY <1>2, <1>6, <1>7
  <2>2. stored'[NRoot] = stored[NRoot]
    BY <1>1
  <2>3. ASSUME NEW k \in 1..Len(gathered') PROVE gathered'[k] = N!Whole(k, stored[NRoot])
    <3>1. CASE k \in 1..Len(gathered)
      BY <1>0, <1>6, <3>1 DEF GatheredSoFar
    <3>2. CASE k = Len(gathered) + 1
      <4>1. k = name[NRoot]
        BY <1>2, <3>2
      <4> QED BY <1>5, <1>6, <3>2, <4>1
    <3> QED BY <1>2, <1>6, <2>3, <3>1, <3>2
  <2> QED BY <2>1, <2>2, <2>3 DEF GatheredSoFar, N!Whole, N!Value
<1>10. NetworkInOrder'
  <2>1. TakenByRoot' = TakenByRoot + 1
    <3>1. stored[NRoot] * Width \in Nat
      BY <1>2
    <3> QED BY <1>1, <1>2, <1>6, <3>1 DEF TakenByRoot, Width
  <2>2. ASSUME NEW r \in N!Clients PROVE NQueueOK(r)'
    <3>1. SentBy(r)' = SentBy(r)
      BY <1>1, <1>4, <1>7, <2>2 DEF SentBy, Width
    <3>2. SentBy(r) \in Int
      <4>1. stored[r] \in Nat /\ name[r] \in Nat
        BY <1>0, <1>4, <2>2, NetCDFParameters DEF NTypeOK
      <4> QED BY <1>2, <4>1 DEF SentBy
    <3>3. Len(network'[r]) = SentBy(r)' - TakenByRoot'
      BY <1>3, <1>4, <2>1, <2>2, <3>1, <3>2
    <3>4. ASSUME NEW k \in 1..Len(network'[r])
          PROVE  network'[r][k] = ArrayAfter(TakenByRoot' + k - 1, r)
      <4>1. /\ k + 1 \in 1..Len(network[r]) /\ k \in 1..(Len(network[r]) - 1)
            /\ TakenByRoot + (k + 1) - 1 = TakenByRoot' + k - 1
        <5>1. Len(network[r]) \in Nat \ {0} /\ Len(network'[r]) = Len(network[r]) - 1
          BY <1>4, <2>2
        <5>2. k \in 1..(Len(network[r]) - 1)
          BY <3>4, <5>1
        <5> QED BY <1>3, <2>1, <5>1, <5>2
      <4>2. network'[r][k] = network[r][k + 1]
        BY <1>4, <2>2, <4>1
      <4>3. network[r][k + 1] = ArrayAfter(TakenByRoot + (k + 1) - 1, r)
        BY <1>4, <2>2, <4>1
      <4> QED BY <4>1, <4>2, <4>3
    <3> QED BY <3>3, <3>4 DEF NQueueOK, ArrayAfter, N!Value
  <2> QED BY <2>2 DEF NetworkInOrder
<1>11. MemoryHoldsTheChunk'
  BY <1>0, <1>1, <1>2, <1>7 DEF MemoryHoldsTheChunk, N!Whole, N!Value
<1>12. FilesWritten'
  BY <1>0, <1>1, <1>2, <1>7 DEF FilesWritten, N!Whole, N!Value
<1> QED BY <1>7, <1>8, <1>9, <1>10, <1>11, <1>12 DEF NInv

(* A chunk of which every variable has the times in memory and the present *)
(* one, of which gathered has all variables.                               *)
LEMMA ChunkAppended ==
  ASSUME NInv, n_pc[NRoot] = "append",
         NEW chunk, chunk = [v \in N!Vars |-> Append(chunked[v], gathered[v])]
  PROVE  /\ chunk \in [N!Vars -> Seq(Snapshots)]
         /\ chunk # N!NoChunk
         /\ \A v \in N!Vars :
              /\ Len(chunk[v]) = (n_time % TimeChunkSize) + 1
              /\ \A i \in 1..Len(chunk[v]) :
                   chunk[v][i] = N!Whole(v, (n_time \div TimeChunkSize) * TimeChunkSize + i - 1)
<1> DEFINE q == n_time \div TimeChunkSize
           m == n_time % TimeChunkSize
<1>0. NTypeOK /\ GatheredSoFar /\ MemoryHoldsTheChunk
  BY DEF NInv
<1>1. /\ n_time \in Nat /\ q \in Nat /\ m \in Nat /\ n_time = q * TimeChunkSize + m
      /\ q * TimeChunkSize \in Nat
      /\ n_time = stored[NRoot]
      /\ n_pc[NRoot] # "done"
  <2>1. n_time \in Nat /\ n_time = stored[NRoot] /\ n_pc[NRoot] # "done"
    BY <1>0 DEF NTypeOK, MemoryHoldsTheChunk
  <2>2. q \in Nat /\ m \in Nat /\ n_time = q * TimeChunkSize + m
    BY <2>1, NetCDFParameters, DivMod
  <2>3. q * TimeChunkSize \in Nat
    <3> HIDE DEF q
    <3> QED BY <2>2, NetCDFParameters
  <2> QED BY <2>1, <2>2, <2>3
<1> HIDE DEF q, m
<1>2. ASSUME NEW v \in N!Vars
      PROVE  /\ chunk[v] \in Seq(Snapshots)
             /\ Len(chunk[v]) = m + 1
             /\ \A i \in 1..Len(chunk[v]) : chunk[v][i] = N!Whole(v, q * TimeChunkSize + i - 1)
  <2>1. /\ chunk[v] = Append(chunked[v], gathered[v])
        /\ chunked[v] \in Seq(Snapshots)
        /\ Len(chunked[v]) = m
        /\ \A i \in 1..m : chunked[v][i] = N!Whole(v, q * TimeChunkSize + i - 1)
    BY <1>0, <1>1, <1>2 DEF NTypeOK, MemoryHoldsTheChunk, q, m
  <2>2. gathered[v] = N!Whole(v, n_time) /\ gathered[v] \in Snapshots
    <3>1. gathered \in Seq(Snapshots) /\ v \in 1..Len(gathered)
      BY <1>0, <1>2, NetCDFParameters DEF NTypeOK, GatheredSoFar
    <3> QED BY <1>0, <1>1, <3>1, ElementOfSeq DEF GatheredSoFar
  <2>3. /\ chunk[v] \in Seq(Snapshots)
        /\ Len(chunk[v]) = m + 1
        /\ \A i \in 1..m : chunk[v][i] = chunked[v][i]
        /\ chunk[v][m + 1] = gathered[v]
    BY <2>1, <2>2, AppendProperties
  <2>4. ASSUME NEW i \in 1..(m + 1) PROVE chunk[v][i] = N!Whole(v, q * TimeChunkSize + i - 1)
    <3>1. CASE i \in 1..m
      BY <2>1, <2>3, <3>1
    <3>2. CASE i = m + 1
      <4>1. n_time = q * TimeChunkSize + i - 1
        BY <1>1, <3>2
      <4>2. N!Whole(v, n_time) = N!Whole(v, q * TimeChunkSize + i - 1)
        BY ONLY <4>1, Zenon
      <4>3. chunk[v][i] = N!Whole(v, n_time)
        BY <2>2, <2>3, <3>2
      <4> QED BY ONLY <4>2, <4>3, Zenon
    <3>3. i \in 1..m \/ i = m + 1
      BY <1>1, <2>4
    <3> QED BY <3>1, <3>2, <3>3, Zenon
  <2> QED BY <2>3, <2>4
<1>3. chunk \in [N!Vars -> Seq(Snapshots)]
  BY <1>2
<1>4. chunk # N!NoChunk
  <2>1. 1 \in N!Vars
    BY NetCDFParameters
  <2>2. Len(chunk[1]) # 0 /\ Len(<< >>) = 0
    BY <1>1, <1>2, <2>1
  <2> QED BY <2>1, <2>2 DEF N!NoChunk
<1> QED BY <1>2, <1>3, <1>4 DEF q, m

(* The state the root has gathered joins the chunk, which is written when full. *)
LEMMA AppendStateStep ==
  ASSUME NInv, N!AppendState
  PROVE  NInv'
<1> DEFINE chunk == [v \in N!Vars |-> Append(chunked[v], gathered[v])]
           q == n_time \div TimeChunkSize
           m == n_time % TimeChunkSize
<1>0. NTypeOK /\ PhasesOK /\ GatheredSoFar /\ NetworkInOrder /\ MemoryHoldsTheChunk /\ FilesWritten
  BY DEF NInv
<1>1. /\ n_pc[NRoot] = "append"
      /\ IF (n_time + 1) % TimeChunkSize = 0
         THEN files' = N!Flush(chunk) /\ chunked' = N!NoChunk
         ELSE chunked' = chunk /\ UNCHANGED files
      /\ n_time' = n_time + 1
      /\ gathered' = << >>
      /\ stored' = [stored EXCEPT ![NRoot] = @ + 1]
      /\ n_pc' = [n_pc EXCEPT ![NRoot] = IF stored[NRoot] + 1 = last THEN "cleanup" ELSE "store"]
      /\ UNCHANGED <<last, name, network>>
  BY DEF N!AppendState, N!ChunkFull, N!MemoryAfterFlush, N!AfterStore, NRoot
<1>2. /\ NRoot \in Ranks /\ N!Root = NRoot /\ Width \in Nat \ {0}
      /\ stored[NRoot] \in Nat /\ stored[NRoot] < last /\ last \in Nat
      /\ name[NRoot] = 1 /\ Len(gathered) = Width
      /\ n_time \in Nat /\ n_time = stored[NRoot]
      /\ TimeChunkSize \in Nat \ {0}
  BY <1>0, <1>1, NetCDFParameters
     DEF NTypeOK, PhasesOK, PhaseOK, GatheredSoFar, MemoryHoldsTheChunk, NRoot
<1>3. /\ q \in Nat /\ m \in Nat /\ m < TimeChunkSize
      /\ IF (n_time + 1) % TimeChunkSize = 0
         THEN (n_time + 1) \div TimeChunkSize = q + 1 /\ m = TimeChunkSize - 1
         ELSE (n_time + 1) \div TimeChunkSize = q /\ (n_time + 1) % TimeChunkSize = m + 1
  BY <1>2, DivMod, NextInChunk
<1>4. /\ chunk \in [N!Vars -> Seq(Snapshots)]
      /\ chunk # N!NoChunk
      /\ \A v \in N!Vars :
           /\ Len(chunk[v]) = m + 1
           /\ \A i \in 1..Len(chunk[v]) : chunk[v][i] = N!Whole(v, q * TimeChunkSize + i - 1)
  BY <1>1, ChunkAppended
<1>5. N!Flush(chunk) = [i \in DOMAIN files \cup {q} |-> IF i = q THEN chunk ELSE files[i]]
  BY <1>4 DEF N!Flush, N!Written, N!ChunkIndex
<1> HIDE DEF chunk, q, m
<1>6. /\ \A r \in Ranks \ {NRoot} : n_pc'[r] = n_pc[r] /\ stored'[r] = stored[r]
      /\ stored'[NRoot] = stored[NRoot] + 1
      /\ n_pc'[NRoot] = IF stored[NRoot] + 1 = last THEN "cleanup" ELSE "store"
      /\ NTypeOK'
  <2>1. /\ n_pc \in [Ranks -> {"store", "append", "cleanup", "done"}]
        /\ stored \in [Ranks -> Nat]
        /\ chunked \in [N!Vars -> Seq(Snapshots)]
        /\ files \in [DOMAIN files -> [N!Vars -> Seq(Snapshots)]]
        /\ DOMAIN files \subseteq Nat
    BY <1>0 DEF NTypeOK
  <2>2. stored[NRoot] + 1 \in Nat /\ n_time + 1 \in Nat
    BY <1>2
  <2>3. /\ n_pc' \in [Ranks -> {"store", "append", "cleanup", "done"}]
        /\ stored' \in [Ranks -> Nat]
    BY <1>1, <1>2, <2>1, <2>2
  <2>4. chunked' \in [N!Vars -> Seq(Snapshots)]
    <3>1. N!NoChunk \in [N!Vars -> Seq(Snapshots)]
      BY EmptySeq DEF N!NoChunk
    <3> QED BY <1>1, <1>4, <3>1
  <2>5. files' \in [DOMAIN files' -> [N!Vars -> Seq(Snapshots)]] /\ DOMAIN files' \subseteq Nat
    <3>1. CASE files' = files
      BY <2>1, <3>1
    <3>2. CASE files' = [i \in DOMAIN files \cup {q} |-> IF i = q THEN chunk ELSE files[i]]
      <4>1. \A i \in DOMAIN files : files[i] \in [N!Vars -> Seq(Snapshots)]
        BY <2>1
      <4> QED BY <1>3, <1>4, <2>1, <3>2, <4>1
    <3> QED BY <1>1, <1>5, <3>1, <3>2
  <2>6. gathered' \in Seq(Snapshots)
    BY <1>1, EmptySeq
  <2>7. NTypeOK'
    BY <1>0, <1>1, <2>2, <2>3, <2>4, <2>5, <2>6 DEF NTypeOK
  <2> QED BY <1>1, <1>2, <2>1, <2>7
<1>7. PhasesOK'
  <2>1. PhaseOK(NRoot)'
    BY <1>1, <1>2, <1>6 DEF PhaseOK
  <2>2. ASSUME NEW r \in Ranks \ {NRoot} PROVE PhaseOK(r)'
    BY <1>0, <1>1, <1>6, <2>2 DEF PhasesOK, PhaseOK
  <2> QED BY <2>1, <2>2 DEF PhasesOK
<1>8. GatheredSoFar'
  BY <1>1, <1>2, <1>6 DEF GatheredSoFar
<1>9. NetworkInOrder'
  <2>1. TakenByRoot' = TakenByRoot
    <3>1. (stored[NRoot] + 1) * Width = stored[NRoot] * Width + Width /\ stored[NRoot] * Width \in Nat
      BY <1>2
    <3>2. TakenByRoot' = (stored[NRoot] + 1) * Width + 0
      BY <1>1, <1>6 DEF TakenByRoot, Width
    <3> QED BY <1>2, <3>1, <3>2 DEF TakenByRoot
  <2>2. ASSUME NEW r \in N!Clients PROVE SentBy(r)' = SentBy(r)
    BY <1>1, <1>6, <2>2, NetCDFParameters DEF SentBy, Width
  <2> QED BY <1>0, <1>1, <2>1, <2>2 DEF NetworkInOrder, NQueueOK, ArrayAfter, N!Value
<1>10. MemoryHoldsTheChunk'
  <2>1. n_time' = stored'[NRoot] /\ n_pc'[NRoot] # "done"
    BY <1>1, <1>2, <1>6
  <2>2. CASE (n_time + 1) % TimeChunkSize = 0
    BY <1>1, <2>1, <2>2 DEF MemoryHoldsTheChunk, N!NoChunk
  <2>3. CASE (n_time + 1) % TimeChunkSize # 0
    BY <1>1, <1>3, <1>4, <2>1, <2>3 DEF MemoryHoldsTheChunk, N!Whole, N!Value
  <2> QED BY <2>2, <2>3
<1>11. FilesWritten'
  <2>1. /\ \A k \in Nat : k \in DOMAIN files <=> k < q
        /\ DOMAIN files \subseteq Nat
        /\ \A k \in DOMAIN files, v \in N!Vars :
             /\ Len(files[k][v]) = TimeChunkSize
             /\ \A i \in 1..Len(files[k][v]) : files[k][v][i] = N!Whole(v, k * TimeChunkSize + i - 1)
    BY <1>0, <1>1 DEF FilesWritten, NTypeOK, q, m
  <2>2. n_pc'[NRoot] # "done" /\ n_time' = n_time + 1
    BY <1>1, <1>6
  <2>3. CASE (n_time + 1) % TimeChunkSize = 0
    <3>1. files' = [i \in DOMAIN files \cup {q} |-> IF i = q THEN chunk ELSE files[i]]
      BY <1>1, <1>5, <2>3
    <3>2. n_time' \div TimeChunkSize = q + 1
      BY <1>3, <2>2, <2>3
    <3>3. \A k \in Nat : k \in DOMAIN files' <=> k < q + 1
      BY <1>3, <2>1, <3>1
    <3>4. ASSUME NEW k \in DOMAIN files', NEW v \in N!Vars
          PROVE  /\ k < q + 1
                 /\ Len(files'[k][v]) = TimeChunkSize
                 /\ \A i \in 1..Len(files'[k][v]) :
                      files'[k][v][i] = N!Whole(v, k * TimeChunkSize + i - 1)
      <4>1. CASE k = q
        <5>1. files'[k] = chunk
          BY <3>1, <4>1
        <5> QED BY <1>2, <1>3, <1>4, <2>3, <4>1, <5>1
      <4>2. CASE k # q
        <5>1. files'[k] = files[k] /\ k \in DOMAIN files
          BY <3>1, <3>4, <4>2
        <5>2. k < q /\ k < q + 1
          BY <1>3, <2>1, <5>1
        <5> QED BY <2>1, <5>1, <5>2
      <4> QED BY <4>1, <4>2
    <3> QED BY <2>2, <3>2, <3>3, <3>4 DEF FilesWritten, N!Whole, N!Value
  <2>4. CASE (n_time + 1) % TimeChunkSize # 0
    <3>1. files' = files /\ n_time' \div TimeChunkSize = q
      BY <1>1, <1>3, <2>2, <2>4
    <3> QED BY <2>1, <2>2, <3>1 DEF FilesWritten, N!Whole, N!Value
  <2> QED BY <2>3, <2>4
<1> QED BY <1>6, <1>7, <1>8, <1>9, <1>10, <1>11 DEF NInv

(* The root writes what is in memory, if anything is. *)
LEMMA CleanupStep ==
  ASSUME NInv, NEW rank \in Ranks, N!Cleanup(rank)
  PROVE  NInv'
<1> DEFINE q == n_time \div TimeChunkSize
           m == n_time % TimeChunkSize
<1>0. NTypeOK /\ PhasesOK /\ GatheredSoFar /\ NetworkInOrder /\ MemoryHoldsTheChunk /\ FilesWritten
  BY DEF NInv
<1>1. /\ n_pc[rank] = "cleanup" /\ n_pc' = [n_pc EXCEPT ![rank] = "done"]
      /\ IF rank = NRoot THEN files' = N!Flush(chunked) /\ chunked' = N!NoChunk
                        ELSE UNCHANGED <<files, chunked>>
      /\ UNCHANGED <<last, stored, name, network, gathered, n_time>>
  BY DEF N!Cleanup, N!MemoryAfterFlush, NRoot
<1>2. /\ NRoot \in Ranks /\ N!Root = NRoot /\ 1 \in N!Vars
      /\ n_time \in Nat /\ q \in Nat /\ m \in Nat /\ m < TimeChunkSize
      /\ TimeChunkSize \in Nat \ {0}
      /\ n_pc \in [Ranks -> {"store", "append", "cleanup", "done"}]
      /\ chunked \in [N!Vars -> Seq(Snapshots)]
      /\ files \in [DOMAIN files -> [N!Vars -> Seq(Snapshots)]] /\ DOMAIN files \subseteq Nat
      /\ N!NoChunk \in [N!Vars -> Seq(Snapshots)]
  <2>1. n_time \in Nat
    BY <1>0 DEF NTypeOK
  <2>2. N!NoChunk \in [N!Vars -> Seq(Snapshots)]
    BY EmptySeq DEF N!NoChunk
  <2>3. q \in Nat /\ m \in Nat /\ m < TimeChunkSize
    BY <2>1, NetCDFParameters, DivMod
  <2> QED BY <1>0, <2>1, <2>2, <2>3, NetCDFParameters, SMTT(30) DEF NTypeOK, NRoot
<1> HIDE DEF q, m
<1>3. /\ \A r \in Ranks : n_pc'[r] = IF r = rank THEN "done" ELSE n_pc[r]
      /\ n_pc' \in [Ranks -> {"store", "append", "cleanup", "done"}]
  BY <1>1, <1>2
<1>4. rank = NRoot =>
        /\ m = 0 => files' = files
        /\ m # 0 => files' = [i \in DOMAIN files \cup {q} |-> IF i = q THEN chunked ELSE files[i]]
        /\ \A v \in N!Vars : Len(chunked[v]) = m
  <2> SUFFICES ASSUME rank = NRoot
               PROVE  /\ m = 0 => files' = files
                      /\ m # 0 => files' = [i \in DOMAIN files \cup {q} |-> IF i = q THEN chunked ELSE files[i]]
                      /\ \A v \in N!Vars : Len(chunked[v]) = m
    OBVIOUS
  <2>1. \A v \in N!Vars : chunked[v] \in Seq(Snapshots) /\ Len(chunked[v]) = m
    BY <1>0, <1>1, <1>2 DEF MemoryHoldsTheChunk, m
  <2>2. m = 0 => chunked = N!NoChunk
    <3> SUFFICES ASSUME m = 0 PROVE chunked = N!NoChunk
      OBVIOUS
    <3>1. \A v \in N!Vars : chunked[v] = << >>
      BY <2>1, EmptySeq
    <3> QED BY <1>2, <3>1 DEF N!NoChunk
  <2>3. m # 0 => chunked # N!NoChunk
    <3>1. chunked = N!NoChunk => Len(chunked[1]) = 0
      BY <1>2 DEF N!NoChunk
    <3> QED BY <1>2, <2>1, <3>1
  <2> QED BY <1>1, <2>1, <2>2, <2>3 DEF N!Flush, N!Written, N!ChunkIndex, q
<1>5. NTypeOK'
  <2>1. files' \in [DOMAIN files' -> [N!Vars -> Seq(Snapshots)]] /\ DOMAIN files' \subseteq Nat
    <3>1. CASE files' = files
      BY <1>2, <3>1
    <3>2. CASE files' = [i \in DOMAIN files \cup {q} |-> IF i = q THEN chunked ELSE files[i]]
      <4>1. \A i \in DOMAIN files : files[i] \in [N!Vars -> Seq(Snapshots)]
        BY <1>2
      <4> QED BY <1>2, <3>2, <4>1
    <3> QED BY <1>1, <1>4, <3>1, <3>2
  <2>2. chunked' \in [N!Vars -> Seq(Snapshots)]
    BY <1>1, <1>2
  <2> QED BY <1>0, <1>1, <1>3, <2>1, <2>2 DEF NTypeOK
<1>6. PhasesOK'
  BY <1>0, <1>1, <1>3 DEF PhasesOK, PhaseOK
<1>7. GatheredSoFar'
  BY <1>0, <1>1, <1>2, <1>3 DEF GatheredSoFar, N!Whole, N!Value
<1>8. NetworkInOrder'
  BY <1>0, <1>1 DEF NetworkInOrder, NQueueOK, SentBy, TakenByRoot, ArrayAfter, N!Value
<1>9. MemoryHoldsTheChunk'
  <2>1. CASE rank = NRoot
    BY <1>0, <1>1, <1>2, <1>3, <2>1 DEF MemoryHoldsTheChunk, N!NoChunk
  <2>2. CASE rank # NRoot
    BY <1>0, <1>1, <1>2, <1>3, <2>2 DEF MemoryHoldsTheChunk, N!Whole, N!Value
  <2> QED BY <2>1, <2>2
<1>10. FilesWritten'
  <2>1. CASE rank # NRoot
    BY <1>0, <1>1, <1>2, <1>3, <2>1 DEF FilesWritten, N!Whole, N!Value
  <2>2. CASE rank = NRoot
    <3>1. /\ \A k \in Nat : k \in DOMAIN files <=> k < q
          /\ \A k \in DOMAIN files, v \in N!Vars :
               /\ Len(files[k][v]) = TimeChunkSize
               /\ \A i \in 1..Len(files[k][v]) : files[k][v][i] = N!Whole(v, k * TimeChunkSize + i - 1)
      BY <1>0, <1>1, <1>2, <2>2 DEF FilesWritten, q, m
    <3>2. n_pc'[NRoot] = "done" /\ n_time' = n_time
      BY <1>1, <1>2, <1>3, <2>2
    <3>3. CASE m = 0
      <4>1. files' = files
        BY <1>4, <2>2, <3>3
      <4> QED BY <1>2, <3>1, <3>2, <3>3, <4>1 DEF FilesWritten, N!Whole, N!Value, q, m
    <3>4. CASE m # 0
      <4>1. files' = [i \in DOMAIN files \cup {q} |-> IF i = q THEN chunked ELSE files[i]]
        BY <1>4, <2>2, <3>4
      <4>2. \A k \in Nat : k \in DOMAIN files' <=> k < q \/ k = q
        BY <1>2, <3>1, <4>1
      <4>3. ASSUME NEW k \in DOMAIN files', NEW v \in N!Vars
            PROVE  /\ Len(files'[k][v]) = IF k < q THEN TimeChunkSize ELSE m
                   /\ \A i \in 1..Len(files'[k][v]) :
                        files'[k][v][i] = N!Whole(v, k * TimeChunkSize + i - 1)
        <5>1. CASE k = q
          <6>1. files'[k] = chunked /\ ~ (k < q)
            BY <1>2, <4>1, <5>1
          <6>2. /\ Len(chunked[v]) = m
                /\ \A i \in 1..Len(chunked[v]) : chunked[v][i] = N!Whole(v, q * TimeChunkSize + i - 1)
            BY <1>0, <1>4, <2>2, <4>3 DEF MemoryHoldsTheChunk, q
          <6> QED BY <5>1, <6>1, <6>2
        <5>2. CASE k # q
          <6>1. files'[k] = files[k] /\ k \in DOMAIN files
            BY <4>1, <4>3, <5>2
          <6>2. k < q
            BY <1>2, <3>1, <6>1
          <6> QED BY <3>1, <6>1, <6>2
        <5> QED BY <5>1, <5>2
      <4> QED BY <3>2, <3>4, <4>2, <4>3 DEF FilesWritten, N!Whole, N!Value, q, m
    <3> QED BY <3>3, <3>4
  <2> QED BY <2>1, <2>2
<1> QED BY <1>5, <1>6, <1>7, <1>8, <1>9, <1>10 DEF NInv

-----------------------------------------------------------------------------
LEMMA NetCDFNext == NetCDFInv /\ [Next]_vars => NetCDFInv'
<1> SUFFICES ASSUME NetCDFInv, [Next]_vars, format' = "netcdf" PROVE NInv'
  BY DEF NetCDFInv
<1>1. CASE NetCDF(N!Next)
  <2>1. NInv
    BY <1>1 DEF NetCDF, NetCDFInv
  <2>2. CASE N!RootGather
    BY <2>1, <2>2, RootGatherStep
  <2>3. CASE N!AppendState
    BY <2>1, <2>3, AppendStateStep
  <2>4. ASSUME NEW rank \in Ranks, N!ClientGather(rank) PROVE NInv'
    BY <2>1, <2>4, ClientGatherStep
  <2>5. ASSUME NEW rank \in Ranks, N!Cleanup(rank) PROVE NInv'
    BY <2>1, <2>5, CleanupStep
  <2> QED BY <1>1, <2>2, <2>3, <2>4, <2>5 DEF NetCDF, N!Next, N!RankStep
<1>2. CASE Zarr(Z!Next)
  BY <1>2 DEF Zarr
<1>3. CASE UNCHANGED vars
  <2>1. NInv /\ UNCHANGED <<last, n_pc, stored, name, network, gathered, chunked, n_time, files>>
    BY <1>3 DEF vars, netcdf, NetCDFInv
  <2>2. NTypeOK' /\ PhasesOK' /\ GatheredSoFar'
    BY <2>1 DEF NInv, NTypeOK, PhasesOK, PhaseOK, GatheredSoFar, N!Whole, N!Value
  <2>3. NetworkInOrder'
    BY <2>1 DEF NInv, NetworkInOrder, NQueueOK, SentBy, TakenByRoot, ArrayAfter, N!Value
  <2>4. MemoryHoldsTheChunk'
    BY <2>1 DEF NInv, MemoryHoldsTheChunk, N!Whole, N!Value
  <2>5. FilesWritten'
    BY <2>1 DEF NInv, FilesWritten, N!Whole, N!Value
  <2> QED BY <2>2, <2>3, <2>4, <2>5 DEF NInv
<1> QED BY <1>1, <1>2, <1>3 DEF Next

(***************************************************************************)
(* The counts of the arrays sent and taken, the chunk in memory and the    *)
(* files written agree throughout every run with the NetCDF monitor.       *)
(***************************************************************************)
THEOREM NetCDFInvariant == Spec => []NetCDFInv
<1> QED BY NetCDFInit, NetCDFNext, PTL DEF Spec

(***************************************************************************)
(* What the root has gathered of its present state are all ranks' parts,   *)
(* of its own time, however far the clients have run ahead.                *)
(***************************************************************************)
THEOREM RootGathersItsOwnTime == Spec => []GathersAreSnapshots
<1>1. NetCDFInv => GathersAreSnapshots
  <2> SUFFICES ASSUME NInv, NEW k \in DOMAIN gathered
               PROVE  gathered[k] = N!Whole(k, stored[N!Root])
    BY DEF NetCDFInv, GathersAreSnapshots, N!GathersAreSnapshots
  <2>1. k \in 1..Len(gathered)
    BY LenProperties DEF NInv, NTypeOK
  <2> QED BY <2>1 DEF NInv, GatheredSoFar, NRoot
<1> QED BY <1>1, NetCDFInvariant, PTL

(***************************************************************************)
(* A file has the times its index stands for, each once, all of a chunk    *)
(* but for the last file of a run.                                         *)
(***************************************************************************)
THEOREM ChunksAreWholeAndInPlace == Spec => []FilesHoldTheirTimes
<1>1. NetCDFInv => FilesHoldTheirTimes
  <2> SUFFICES ASSUME NInv, NEW k \in DOMAIN files, NEW v \in N!Vars
               PROVE  /\ \A i \in DOMAIN files[k][v] :
                           files[k][v][i] = N!Whole(v, k * TimeChunkSize + i - 1)
                      /\ \/ Len(files[k][v]) = TimeChunkSize
                         \/ /\ n_pc[NRoot] = "done"
                            /\ k * TimeChunkSize + Len(files[k][v]) = last
    BY DEF NetCDFInv, FilesHoldTheirTimes, N!FilesHoldTheirTimes, NRoot
  <2>1. files[k][v] \in Seq(Snapshots) /\ k \in Nat
    BY DEF NInv, NTypeOK
  <2>2. \A i \in DOMAIN files[k][v] : files[k][v][i] = N!Whole(v, k * TimeChunkSize + i - 1)
    BY <2>1, LenProperties DEF NInv, FilesWritten
  <2>3. CASE k < n_time \div TimeChunkSize
    BY <2>2, <2>3 DEF NInv, FilesWritten
  <2>4. CASE ~ (k < n_time \div TimeChunkSize)
    <3>1. n_pc[NRoot] = "done" /\ k = n_time \div TimeChunkSize /\ Len(files[k][v]) = n_time % TimeChunkSize
      BY <2>1, <2>4 DEF NInv, FilesWritten
    <3>2. n_time = last /\ n_time \in Nat
      <4>1. /\ PhaseOK(NRoot) /\ n_time = stored[NRoot] /\ n_time \in Nat
            /\ last \in Nat
        BY NetCDFParameters DEF NInv, PhasesOK, MemoryHoldsTheChunk, NTypeOK
      <4> QED BY <3>1, <4>1 DEF PhaseOK
    <3>3. n_time = ((n_time \div TimeChunkSize) * TimeChunkSize) + (n_time % TimeChunkSize)
      BY <3>2, NetCDFParameters, DivMod
    <3> QED BY <2>2, <3>1, <3>2, <3>3
  <2> QED BY <2>3, <2>4
<1> QED BY <1>1, NetCDFInvariant, PTL

(***************************************************************************)
(* When the root has cleaned up every time stored in the run is in a file. *)
(***************************************************************************)
THEOREM EveryTimeIsWritten == Spec => []NothingLost
<1>1. NetCDFInv => NothingLost
  <2> SUFFICES ASSUME NInv, n_pc[NRoot] = "done", NEW time \in 0..(last - 1)
               PROVE  /\ time \div TimeChunkSize \in DOMAIN files
                      /\ time % TimeChunkSize < Len(files[time \div TimeChunkSize][1])
    BY DEF NetCDFInv, NothingLost, N!NothingLost, NRoot
  <2> DEFINE k == time \div TimeChunkSize
             m == time % TimeChunkSize
             p == last \div TimeChunkSize
             r == last % TimeChunkSize
  <2>1. n_time = last /\ last \in Nat /\ time \in Nat /\ time < last
    <3>1. PhaseOK(NRoot) /\ n_time = stored[NRoot] /\ last \in Nat /\ stored[NRoot] \in Nat
      BY NetCDFParameters DEF NInv, PhasesOK, MemoryHoldsTheChunk, NTypeOK
    <3> QED BY <3>1 DEF PhaseOK
  <2>2. /\ TimeChunkSize \in Nat \ {0} /\ 1 \in N!Vars
        /\ k \in Nat /\ m \in Nat /\ m < TimeChunkSize /\ time = k * TimeChunkSize + m
        /\ p \in Nat /\ r \in Nat /\ r < TimeChunkSize /\ last = p * TimeChunkSize + r
    BY <2>1, NetCDFParameters, DivMod
  <2>3. /\ \A i \in Nat : i \in DOMAIN files <=> i < p \/ (i = p /\ r # 0)
        /\ \A i \in DOMAIN files : Len(files[i][1]) = IF i < p THEN TimeChunkSize ELSE r
    BY <2>1, <2>2 DEF NInv, FilesWritten
  <2> HIDE DEF k, m, p, r
  <2>4. CASE k < p
    BY <2>2, <2>3, <2>4 DEF k, m
  <2>5. CASE ~ (k < p)
    <3>1. ~ (p < k)
      BY <2>1, <2>2, ProductGrows
    <3>2. k = p /\ m < r
      BY <2>1, <2>2, <2>5, <3>1
    <3>3. k \in DOMAIN files /\ m < Len(files[k][1])
      BY <2>2, <2>3, <3>2
    <3> QED BY <3>3 DEF k, m
  <2> QED BY <2>4, <2>5
<1> QED BY <1>1, NetCDFInvariant, PTL

-----------------------------------------------------------------------------
(***************************************************************************)
(* What the ranks write through the zarr monitor, for every number of      *)
(* ranks, list of variables, number of stores and of constants.            *)
(*                                                                         *)
(* The root sends the array object of a variable twice where it creates    *)
(* the array and once where it only extends it; a client takes as many.    *)
(* The argument numbers these messages: what a client has still to take    *)
(* are those between its number and the root's, and where the client is    *)
(* determines its number.  So the object that a client takes is that of    *)
(* the variable it appends to, and when it goes on to write, the root has  *)
(* extended this variable for this time.                                   *)
(***************************************************************************)

ZRoot == Z!Root

Fields == Len(SortedNames)

ZTypeOK ==
  /\ z_pc \in [Ranks -> {"append", "write", "barrier", "done"}]
  /\ var \in [Ranks -> 1..(Fields + Constants + 1)]
  /\ z_time \in [Ranks -> 0..Stores]
  /\ created \in [Ranks -> SUBSET Z!Vars]
  /\ view \in [Ranks -> [Z!Vars -> Nat]]
  /\ syncs \in [Z!Clients -> Seq(Z!Vars)]
  /\ length \in [Z!Vars -> Nat]
  /\ disk \in [Z!Vars -> SUBSET (Nat \X Ranks)]
  /\ arrived \subseteq Ranks

(* A rank is at a variable of a state, or at a constant after the stores. *)
Place(time, v) ==
  \/ time \in 0..(Stores - 1) /\ v \in 1..Fields
  \/ time = Stores /\ v \in (Fields + 1)..(Fields + Constants + 1)

(* Where the array of a variable is created there are two messages. *)
Needed(time, v) == IF time = 0 \/ v > Fields THEN 2 ELSE 1

(* The messages before those of a variable at a time. *)
Before(time, v) ==
  IF v > Fields THEN (Stores + 1) * Fields + 2 * (v - Fields - 1)
  ELSE IF time = 0 THEN 2 * (v - 1) ELSE (time + 1) * Fields + (v - 1)

(* The messages of its present variable that a rank has sent or taken. *)
TakenHere(rank) ==
  IF z_pc[rank] \in {"write", "barrier"} THEN Needed(z_time[rank], var[rank])
  ELSE IF Needed(z_time[rank], var[rank]) = 2 /\ var[rank] \in created[rank] THEN 1 ELSE 0

Taken(rank) == Before(z_time[rank], var[rank]) + TakenHere(rank)

PlaceOK(rank) ==
  /\ Place(z_time[rank], var[rank])
  /\ z_pc[rank] = "done" <=> var[rank] \notin Z!Vars
  /\ rank \in arrived <=> z_pc[rank] = "barrier"
  /\ z_pc[rank] = "barrier" => Z!IsTime(var[rank])

PlacesOK == \A rank \in Ranks : PlaceOK(rank)

(* The arrays a rank has are those of the variables it has been at. *)
Earlier(rank, v) == v < var[rank] \/ (z_time[rank] > 0 /\ v <= Fields)

CreatedOK(rank) ==
  /\ \A v \in Z!Vars : Earlier(rank, v) => v \in created[rank]
  /\ \A v \in Z!Vars : v > var[rank] /\ v \in created[rank] => Earlier(rank, v)
  /\ z_pc[rank] \in {"write", "barrier"} => var[rank] \in created[rank]

ArraysCreated == \A rank \in Ranks : CreatedOK(rank)

(* Message number p is about variable v. *)
About(p, v) ==
  \E time \in 0..Stores :
    /\ Place(time, v)
    /\ Before(time, v) <= p /\ p < Before(time, v) + Needed(time, v)

ZQueueOK(rank) ==
  /\ Len(syncs[rank]) = Taken(ZRoot) - Taken(rank)
  /\ \A k \in 1..Len(syncs[rank]) : About(Taken(rank) + k - 1, syncs[rank][k])

SyncsInOrder == \A rank \in Z!Clients : ZQueueOK(rank)

(* The length of an array tells where the root is. *)
Extended(v) ==
  IF v > Fields THEN (IF v \in created[ZRoot] THEN 1 ELSE 0)
  ELSE IF var[ZRoot] > Fields THEN Stores
  ELSE IF v < var[ZRoot] \/ (v = var[ZRoot] /\ z_pc[ZRoot] \in {"write", "barrier"})
       THEN z_time[ZRoot] + 1
  ELSE IF z_time[ZRoot] = 0 /\ v \in created[ZRoot] THEN 1 ELSE z_time[ZRoot]

LengthsOK == \A v \in Z!Vars : length[v] = Extended(v) /\ view[ZRoot][v] = length[v]

(* The barriers a rank has passed. *)
TimeVar == CHOOSE v \in Z!Vars : Z!IsTime(v)

Passed(rank) ==
  IF var[rank] > TimeVar /\ z_time[rank] < Stores THEN z_time[rank] + 1 ELSE z_time[rank]

PassedTogether == \A r, q \in Ranks : Passed(r) = Passed(q)

(* What is on disk tells where each rank is. *)
HasWritten(rank, v, i) ==
  IF v > Fields THEN i = 0 /\ v < var[rank]
  ELSE \/ i < z_time[rank]
       \/ /\ var[rank] <= Fields /\ i = z_time[rank]
          /\ v < var[rank] \/ (v = var[rank] /\ z_pc[rank] = "barrier")

DiskOK ==
  \A v \in Z!Vars, i \in Nat, rank \in Ranks :
    <<i, rank>> \in disk[v] <=> (v = TimeVar => rank = ZRoot) /\ HasWritten(rank, v, i)

ZInv ==
  /\ ZTypeOK
  /\ PlacesOK
  /\ ArraysCreated
  /\ SyncsInOrder
  /\ LengthsOK
  /\ Z!WritesInBounds
  /\ PassedTogether
  /\ DiskOK

ZarrInv == format = "zarr" => ZInv
-----------------------------------------------------------------------------
LEMMA ZarrParameters ==
  /\ ZRoot \in Ranks /\ Z!Root = ZRoot /\ Z!Clients = Ranks \ {ZRoot}
  /\ Fields \in Nat \ {0} /\ Constants \in Nat /\ Stores \in Nat \ {0}
  /\ Z!Vars = 1..(Fields + Constants)
  /\ \A v : Z!IsConstant(v) <=> v > Fields
  /\ TimeVar \in 1..Fields /\ TimeVar \in Z!Vars
  /\ \A v \in Z!Vars : Z!IsTime(v) <=> v = TimeVar
<1>1. /\ ZRoot \in Ranks /\ Z!Root = ZRoot /\ Z!Clients = Ranks \ {ZRoot}
      /\ Constants \in Nat /\ Stores \in Nat \ {0}
      /\ Z!Vars = 1..(Fields + Constants)
      /\ \A v : Z!IsConstant(v) <=> v > Fields
  BY DiagnosticsAssumption DEF ZRoot, Z!Root, Z!Clients, Z!Vars, Fields, Z!IsConstant
<1>2. SortedNames \in Seq(STRING)
  BY DiagnosticsAssumption
<1>3. Fields \in Nat /\ DOMAIN SortedNames = 1..Fields
  BY <1>2, LenProperties DEF Fields
<1>4. PICK k \in 1..Fields : SortedNames[k] = "time"
  BY <1>3, DiagnosticsAssumption
<1>5. k \in Z!Vars /\ Z!IsTime(k) /\ Fields # 0
  BY <1>1, <1>3, <1>4 DEF Z!IsTime
<1>6. \A v \in Z!Vars : Z!IsTime(v) <=> v = k
  <2> SUFFICES ASSUME NEW v \in Z!Vars, Z!IsTime(v) PROVE v = k
    BY <1>5
  <2>1. v \in 1..Fields /\ SortedNames[v] = "time"
    BY <1>1, <1>3 DEF Z!IsTime
  <2> QED BY <1>3, <1>4, <2>1, DiagnosticsAssumption
<1>7. TimeVar = k
  BY <1>5, <1>6 DEF TimeVar
<1> QED BY <1>1, <1>3, <1>4, <1>5, <1>6, <1>7

(* The numbers of messages. *)
LEMMA BeforeType ==
  ASSUME NEW time \in 0..Stores, NEW v \in 1..(Fields + Constants + 1), Place(time, v)
  PROVE  Before(time, v) \in Nat /\ Needed(time, v) \in 1..2
<1>1. (Stores + 1) * Fields \in Nat /\ (time + 1) * Fields \in Nat
  BY ZarrParameters
<1> QED BY <1>1, ZarrParameters DEF Before, Needed, Place

LEMMA BeforeNext ==
  ASSUME NEW time \in 0..Stores, NEW v \in Z!Vars, Place(time, v)
  PROVE  /\ Z!NextTime(v, time) \in 0..Stores
         /\ Z!NextVar(v, time) \in 1..(Fields + Constants + 1)
         /\ Place(Z!NextTime(v, time), Z!NextVar(v, time))
         /\ Before(Z!NextTime(v, time), Z!NextVar(v, time)) = Before(time, v) + Needed(time, v)
<1>0. /\ time \in Nat /\ v \in 1..(Fields + Constants)
      /\ Fields \in Nat \ {0} /\ Constants \in Nat /\ Stores \in Nat \ {0}
  BY ZarrParameters
<1>1. CASE v > Fields
  <2>1. Z!NextTime(v, time) = time /\ Z!NextVar(v, time) = v + 1
    BY <1>0, <1>1 DEF Z!NextTime, Z!NextVar, Fields
  <2>2. (Stores + 1) * Fields \in Nat
    BY <1>0
  <2> QED BY <1>0, <1>1, <2>1, <2>2 DEF Place, Before, Needed
<1>2. CASE v < Fields
  <2>1. Z!NextTime(v, time) = time /\ Z!NextVar(v, time) = v + 1
    BY <1>0, <1>2 DEF Z!NextTime, Z!NextVar, Fields
  <2>2. (time + 1) * Fields \in Nat
    BY <1>0
  <2> QED BY <1>0, <1>2, <2>1, <2>2 DEF Place, Before, Needed
<1>3. CASE v = Fields /\ time + 1 < Stores
  <2>1. Z!NextTime(v, time) = time + 1 /\ Z!NextVar(v, time) = 1
    BY <1>0, <1>3 DEF Z!NextTime, Z!NextVar, Fields
  <2>2. /\ (time + 1 + 1) * Fields = (time + 1) * Fields + Fields /\ (time + 1) * Fields \in Nat
        /\ time = 0 => (time + 1 + 1) * Fields = 2 * Fields
    BY <1>0
  <2>3. Before(time + 1, 1) = (time + 1 + 1) * Fields
    BY <1>0, <1>3, <2>2 DEF Before
  <2>4. Before(time, v) + Needed(time, v) = (time + 1 + 1) * Fields
    BY <1>0, <1>3, <2>2 DEF Before, Needed
  <2> QED BY <1>0, <1>3, <2>1, <2>3, <2>4 DEF Place
<1>4. CASE v = Fields /\ ~ (time + 1 < Stores)
  <2>1. Z!NextTime(v, time) = time + 1 /\ Z!NextVar(v, time) = v + 1 /\ time + 1 = Stores
    BY <1>0, <1>4 DEF Z!NextTime, Z!NextVar, Fields, Place
  <2>2. /\ (time + 1 + 1) * Fields = (time + 1) * Fields + Fields /\ (time + 1) * Fields \in Nat
        /\ time = 0 => (time + 1 + 1) * Fields = 2 * Fields
    BY <1>0
  <2>3. Before(Stores, Fields + 1) = (Stores + 1) * Fields
    <3>1. (Stores + 1) * Fields \in Nat
      BY <1>0
    <3> QED BY <1>0, <3>1 DEF Before
  <2>4. Before(time, v) + Needed(time, v) = (time + 1 + 1) * Fields
    BY <1>0, <1>4, <2>2 DEF Before, Needed
  <2> QED BY <1>0, <1>4, <2>1, <2>3, <2>4 DEF Place
<1> QED BY <1>0, <1>1, <1>2, <1>3, <1>4

LEMMA BeforeLater ==
  ASSUME NEW t \in 0..Stores, NEW v \in 1..(Fields + Constants + 1), Place(t, v),
         NEW u \in 0..Stores, NEW w \in 1..(Fields + Constants + 1), Place(u, w),
         t < u \/ (t = u /\ v < w)
  PROVE  Before(t, v) + Needed(t, v) <= Before(u, w)
<1>0. /\ t \in Nat /\ u \in Nat /\ v \in Nat \ {0} /\ w \in Nat \ {0}
      /\ Fields \in Nat \ {0} /\ Constants \in Nat /\ Stores \in Nat \ {0}
      /\ (t + 1) * Fields \in Nat /\ (u + 1) * Fields \in Nat
  BY ZarrParameters
<1>1. CASE t = u
  BY <1>0, <1>1 DEF Place, Before, Needed
<1>2. CASE t < u
  <2>1. v \in 1..Fields /\ (w > Fields <=> u = Stores)
    BY <1>0, <1>2 DEF Place
  <2>2. Before(u, w) >= (u + 1) * Fields
    BY <1>0, <1>2, <2>1 DEF Before, Place
  <2>3. (t + 1) * Fields + Fields <= (u + 1) * Fields
    <3>1. t + 1 \in Int /\ u + 1 \in Int /\ t + 1 < u + 1
      BY <1>0, <1>2
    <3> QED BY <1>0, <3>1, ProductGrows
  <2>4. Before(t, v) + Needed(t, v) <= (t + 1) * Fields + Fields
    <3>1. t = 0 => (t + 1) * Fields = Fields
      BY <1>0
    <3> QED BY <1>0, <2>1, <3>1 DEF Before, Needed
  <2>5. Before(u, w) \in Nat /\ Before(t, v) \in Nat /\ Needed(t, v) \in Nat
    BY BeforeType
  <2> QED BY <1>0, <2>2, <2>3, <2>4, <2>5
<1> QED BY <1>1, <1>2

(* A number belongs to the messages of one place. *)
LEMMA AboutOnePlace ==
  ASSUME NEW time \in 0..Stores, NEW v \in Z!Vars, Place(time, v),
         NEW p \in Nat, Before(time, v) <= p, p < Before(time, v) + Needed(time, v),
         NEW w \in Z!Vars, About(p, w)
  PROVE  w = v
<1>1. PICK u \in 0..Stores : /\ Place(u, w)
                             /\ Before(u, w) <= p /\ p < Before(u, w) + Needed(u, w)
  BY DEF About
<1>2. v \in 1..(Fields + Constants + 1) /\ w \in 1..(Fields + Constants + 1)
  BY ZarrParameters
<1>3. /\ Before(time, v) \in Nat /\ Needed(time, v) \in Nat
      /\ Before(u, w) \in Nat /\ Needed(u, w) \in Nat
  BY <1>1, <1>2, BeforeType
<1>4. ~ (time < u \/ (time = u /\ v < w))
  <2> SUFFICES ASSUME time < u \/ (time = u /\ v < w) PROVE FALSE
    OBVIOUS
  <2>1. Before(time, v) + Needed(time, v) <= Before(u, w)
    BY <1>1, <1>2, BeforeLater
  <2> QED BY <1>1, <1>3, <2>1
<1>5. ~ (u < time \/ (time = u /\ w < v))
  <2> SUFFICES ASSUME u < time \/ (time = u /\ w < v) PROVE FALSE
    OBVIOUS
  <2>1. Before(u, w) + Needed(u, w) <= Before(time, v)
    BY <1>1, <1>2, BeforeLater
  <2> QED BY <1>1, <1>3, <2>1
<1> QED BY <1>2, <1>4, <1>5

LEMMA PlaceFacts ==
  ASSUME ZTypeOK, NEW rank \in Ranks, PlaceOK(rank)
  PROVE  /\ z_time[rank] \in 0..Stores /\ var[rank] \in 1..(Fields + Constants + 1)
         /\ Place(z_time[rank], var[rank])
         /\ Before(z_time[rank], var[rank]) \in Nat
         /\ Needed(z_time[rank], var[rank]) \in 1..2
         /\ TakenHere(rank) \in 0..Needed(z_time[rank], var[rank])
         /\ Taken(rank) \in Nat
         /\ z_pc[rank] # "done" => var[rank] \in Z!Vars
<1>1. /\ z_time[rank] \in 0..Stores /\ var[rank] \in 1..(Fields + Constants + 1)
      /\ Place(z_time[rank], var[rank])
      /\ z_pc[rank] # "done" => var[rank] \in Z!Vars
  BY DEF ZTypeOK, PlaceOK
<1>2. Before(z_time[rank], var[rank]) \in Nat /\ Needed(z_time[rank], var[rank]) \in 1..2
  BY <1>1, BeforeType
<1> QED BY <1>1, <1>2 DEF TakenHere, Taken

(* Where the array of the present variable is missing it needs two messages. *)
LEMMA NotYetCreated ==
  ASSUME ZTypeOK, NEW rank \in Ranks, PlaceOK(rank), CreatedOK(rank),
         var[rank] \in Z!Vars, var[rank] \notin created[rank]
  PROVE  Needed(z_time[rank], var[rank]) = 2
<1>1. z_time[rank] \in 0..Stores /\ var[rank] \in 1..(Fields + Constants)
      /\ ~ Earlier(rank, var[rank])
  BY ZarrParameters DEF ZTypeOK, CreatedOK
<1> QED BY <1>1, ZarrParameters DEF Earlier, Needed

(* A rank that goes on to its next variable has taken as many messages, and *)
(* the next variable none of its own.                                       *)
LEMMA GoesOn ==
  ASSUME ZTypeOK, NEW rank \in Ranks, PlaceOK(rank), CreatedOK(rank),
         z_pc[rank] \in {"write", "barrier"},
         var'[rank] = Z!NextVar(var[rank], z_time[rank]),
         z_time'[rank] = Z!NextTime(var[rank], z_time[rank]),
         z_pc'[rank] = Z!NextLabel(var[rank], z_time[rank]),
         created'[rank] = created[rank],
         rank \notin arrived'
  PROVE  /\ PlaceOK(rank)' /\ CreatedOK(rank)'
         /\ Taken(rank)' = Taken(rank)
         /\ z_time'[rank] \in 0..Stores /\ var'[rank] \in 1..(Fields + Constants + 1)
         /\ z_pc'[rank] \in {"append", "done"}
<1> DEFINE v == var[rank]
           t == z_time[rank]
<1>0. v \in Z!Vars /\ t \in 0..Stores /\ Place(t, v) /\ v \in 1..(Fields + Constants)
  BY PlaceFacts, ZarrParameters
<1>1. /\ z_time'[rank] \in 0..Stores /\ var'[rank] \in 1..(Fields + Constants + 1)
      /\ Place(z_time'[rank], var'[rank])
      /\ Before(z_time'[rank], var'[rank]) = Before(t, v) + Needed(t, v)
  BY <1>0, BeforeNext
<1>2. z_pc'[rank] = IF var'[rank] \in Z!Vars THEN "append" ELSE "done"
  BY DEF Z!NextLabel
<1>3. PlaceOK(rank)'
  BY <1>1, <1>2 DEF PlaceOK, Place
<1>4. /\ \/ z_time'[rank] = t /\ var'[rank] = v + 1
         \/ z_time'[rank] = t + 1 /\ v = Fields /\ var'[rank] = 1
         \/ z_time'[rank] = t + 1 /\ v = Fields /\ var'[rank] = v + 1
      /\ created[rank] \subseteq Z!Vars
  BY DEF Z!NextVar, Z!NextTime, Fields, ZTypeOK
<1>5. CreatedOK(rank)'
  <2>1. ASSUME NEW w \in Z!Vars PROVE Earlier(rank, w)' <=> (Earlier(rank, w) \/ w = v)
    BY <1>0, <1>4, <2>1, ZarrParameters DEF Earlier, Place
  <2>2. \A w \in Z!Vars : Earlier(rank, w)' => w \in created[rank]
    BY <2>1 DEF CreatedOK
  <2>3. ASSUME NEW w \in Z!Vars, w > var'[rank], w \in created[rank] PROVE Earlier(rank, w)'
    <3>1. w > v => Earlier(rank, w)
      BY <2>3 DEF CreatedOK
    <3>2. w <= v => Earlier(rank, w) \/ w = v
      BY <1>0, <2>3, ZarrParameters DEF Earlier
    <3> QED BY <1>0, <2>1, <2>3, <3>1, <3>2, ZarrParameters
  <2> QED BY <1>2, <2>2, <2>3 DEF CreatedOK, Earlier
<1>6. Taken(rank)' = Taken(rank)
  <2>1. TakenHere(rank) = Needed(t, v)
    BY DEF TakenHere
  <2>2. TakenHere(rank)' = 0
    <3>1. ~ (Needed(z_time'[rank], var'[rank]) = 2 /\ var'[rank] \in created[rank])
      <4> SUFFICES ASSUME Needed(z_time'[rank], var'[rank]) = 2, var'[rank] \in created[rank]
                   PROVE  FALSE
        OBVIOUS
      <4>1. var'[rank] \in Z!Vars
        BY <1>4
      <4>2. z_time'[rank] = 0 \/ var'[rank] > Fields
        BY DEF Needed
      <4>3. var'[rank] = v + 1
        BY <1>0, <1>4, <4>2, ZarrParameters
      <4>4. ~ Earlier(rank, v + 1)
        BY <1>0, <1>4, <4>2, <4>3, ZarrParameters DEF Earlier
      <4> QED BY <1>0, <4>1, <4>3, <4>4 DEF CreatedOK
    <3> QED BY <1>2, <3>1 DEF TakenHere, Needed
  <2> QED BY <1>0, <1>1, <2>1, <2>2, BeforeType DEF Taken, Before
<1> QED BY <1>1, <1>2, <1>3, <1>5, <1>6

(* A client short of a message of a variable whose array it has is behind  *)
(* the root, which has extended the array for the client's time.           *)
LEMMA RootIsAhead ==
  ASSUME ZTypeOK, PlaceOK(ZRoot), NEW rank \in Z!Clients, PlaceOK(rank),
         z_pc[rank] = "append", var[rank] \in created[rank],
         Taken(rank) < Taken(ZRoot), CreatedOK(ZRoot)
  PROVE  Z!Index(rank) < Extended(var[rank])
<1> DEFINE v == var[rank]
           t == z_time[rank]
           w == var[ZRoot]
           u == z_time[ZRoot]
<1>1. /\ rank \in Ranks /\ ZRoot \in Ranks
      /\ t \in 0..Stores /\ v \in Z!Vars /\ v \in 1..(Fields + Constants + 1) /\ Place(t, v)
      /\ u \in 0..Stores /\ w \in 1..(Fields + Constants + 1) /\ Place(u, w)
      /\ Fields \in Nat \ {0} /\ Constants \in Nat /\ Stores \in Nat \ {0}
  BY PlaceFacts, ZarrParameters
<1>2. /\ Before(t, v) \in Nat /\ Before(u, w) \in Nat
      /\ Needed(t, v) \in 1..2 /\ Needed(u, w) \in 1..2
      /\ TakenHere(ZRoot) \in 0..Needed(u, w)
  BY <1>1, PlaceFacts
<1>3. TakenHere(rank) = Needed(t, v) - 1
  BY <1>2 DEF TakenHere
<1>4. ~ (u < t \/ (u = t /\ w < v))
  <2> SUFFICES ASSUME u < t \/ (u = t /\ w < v) PROVE FALSE
    OBVIOUS
  <2>1. Before(u, w) + Needed(u, w) <= Before(t, v)
    BY <1>1, BeforeLater
  <2> QED BY <1>2, <1>3, <2>1 DEF Taken
<1>5. Z!Index(rank) = IF v > Fields THEN 0 ELSE t
  BY <1>1, ZarrParameters DEF Z!Index
<1>6. u = t /\ w = v => z_pc[ZRoot] \in {"write", "barrier"}
  <2> SUFFICES ASSUME u = t, w = v, z_pc[ZRoot] \notin {"write", "barrier"} PROVE FALSE
    OBVIOUS
  <2>1. TakenHere(ZRoot) <= Needed(u, w) - 1
    BY <1>2 DEF TakenHere
  <2> QED BY <1>2, <1>3, <2>1 DEF Taken
<1>7. CASE v > Fields
  <2>1. v \in created[ZRoot]
    <3>1. u = t /\ (v < w \/ v = w)
      BY <1>1, <1>4, <1>7 DEF Place
    <3> QED BY <1>1, <1>6, <3>1 DEF CreatedOK, Earlier
  <2> QED BY <1>5, <1>7, <2>1 DEF Extended
<1>8. CASE ~ (v > Fields)
  <2>1. t < Stores
    BY <1>1, <1>8 DEF Place
  <2>2. t < u \/ (t = u /\ v < w) \/ (t = u /\ v = w)
    BY <1>1, <1>4
  <2>3. u < Stores \/ w > Fields
    BY <1>1 DEF Place
  <2> QED BY <1>1, <1>5, <1>6, <1>8, <2>1, <2>2, <2>3 DEF Extended
<1> QED BY <1>7, <1>8

-----------------------------------------------------------------------------
LEMMA ZarrInit == Init => ZarrInv
<1> SUFFICES ASSUME Z!Init PROVE ZInv
  BY DEF Init, ZarrInv
<1> USE DEF Z!Init
<1>0. /\ ZRoot \in Ranks /\ 1 \in Z!Vars /\ Z!Clients = Ranks \ {ZRoot}
      /\ Fields \in Nat \ {0} /\ Constants \in Nat /\ Stores \in Nat \ {0}
      /\ Z!Vars = 1..(Fields + Constants)
  BY ZarrParameters
<1>1. ZTypeOK
  <2>1. length \in [Z!Vars -> Nat] /\ [v \in Z!Vars |-> 0] \in [Z!Vars -> Nat]
    OBVIOUS
  <2>2. syncs \in [Z!Clients -> Seq(Z!Vars)]
    BY EmptySeq
  <2>3. disk \in [Z!Vars -> SUBSET (Nat \X Ranks)] /\ arrived \subseteq Ranks
    OBVIOUS
  <2>4. view \in [Ranks -> [Z!Vars -> Nat]]
    BY <2>1
  <2> QED BY <1>0, <2>1, <2>2, <2>3, <2>4 DEF ZTypeOK
<1>2. PlacesOK
  BY <1>0 DEF PlacesOK, PlaceOK, Place
<1>3. ArraysCreated
  BY <1>0 DEF ArraysCreated, CreatedOK, Earlier
<1>4. SyncsInOrder
  <2>1. ASSUME NEW r \in Ranks PROVE Taken(r) = 0
    <3>1. /\ z_pc[r] = "append" /\ var[r] = 1 /\ z_time[r] = 0 /\ created[r] = {}
      OBVIOUS
    <3>2. TakenHere(r) = 0
      BY <3>1 DEF TakenHere
    <3>3. Before(0, 1) = 0
      BY <1>0 DEF Before
    <3> QED BY <3>1, <3>2, <3>3 DEF Taken
  <2> QED BY <1>0, <2>1 DEF SyncsInOrder, ZQueueOK
<1>5. LengthsOK
  BY <1>0 DEF LengthsOK, Extended
<1>6. Z!WritesInBounds
  BY DEF Z!WritesInBounds
<1>7. PassedTogether
  BY <1>0 DEF PassedTogether, Passed
<1>8. DiskOK
  BY <1>0 DEF DiskOK, HasWritten
<1> QED BY <1>1, <1>2, <1>3, <1>4, <1>5, <1>6, <1>7, <1>8 DEF ZInv

-----------------------------------------------------------------------------
(* The root sends the object of its variable to every client. *)
LEMMA SendStep ==
  ASSUME ZInv, NEW v \in Z!Vars, v = var[ZRoot], Z!Send(v),
         TakenHere(ZRoot) < Needed(z_time[ZRoot], v),
         Taken(ZRoot)' = Taken(ZRoot) + 1,
         \A r \in Z!Clients : Taken(r)' = Taken(r)
  PROVE  SyncsInOrder' /\ syncs' \in [Z!Clients -> Seq(Z!Vars)]
<1>0. ZTypeOK /\ PlacesOK /\ SyncsInOrder /\ ZRoot \in Ranks
  BY ZarrParameters DEF ZInv
<1>1. ASSUME NEW r \in Z!Clients
      PROVE  /\ syncs'[r] \in Seq(Z!Vars) /\ Len(syncs'[r]) = Len(syncs[r]) + 1
             /\ Len(syncs[r]) \in Nat
             /\ \A k \in 1..Len(syncs[r]) : syncs'[r][k] = syncs[r][k]
             /\ syncs'[r][Len(syncs[r]) + 1] = v
  <2>1. syncs'[r] = Append(syncs[r], v) /\ syncs[r] \in Seq(Z!Vars)
    BY <1>0, <1>1 DEF Z!Send, ZTypeOK
  <2> QED BY <2>1, AppendProperties, LenProperties
<1>2. About(Taken(ZRoot), v)
  <2>1. /\ z_time[ZRoot] \in 0..Stores /\ Place(z_time[ZRoot], v)
        /\ Before(z_time[ZRoot], v) \in Nat /\ Needed(z_time[ZRoot], v) \in 1..2
        /\ TakenHere(ZRoot) \in Nat
    BY <1>0, PlaceFacts DEF PlacesOK
  <2> QED BY <2>1 DEF About, Taken
<1>3. ASSUME NEW r \in Z!Clients PROVE ZQueueOK(r)'
  <2>1. Taken(r) \in Nat /\ Taken(ZRoot) \in Nat /\ Taken(r)' = Taken(r)
    BY <1>0, <1>3, PlaceFacts, ZarrParameters DEF PlacesOK
  <2>2. /\ Len(syncs[r]) = Taken(ZRoot) - Taken(r)
        /\ \A k \in 1..Len(syncs[r]) : About(Taken(r) + k - 1, syncs[r][k])
    BY <1>0, <1>3 DEF SyncsInOrder, ZQueueOK
  <2>3. Len(syncs'[r]) = Taken(ZRoot)' - Taken(r)'
    BY <1>1, <1>3, <2>1, <2>2
  <2>4. ASSUME NEW k \in 1..Len(syncs'[r]) PROVE About(Taken(r) + k - 1, syncs'[r][k])
    <3>1. CASE k \in 1..Len(syncs[r])
      BY <1>1, <1>3, <2>2, <3>1
    <3>2. CASE k = Len(syncs[r]) + 1
      <4>1. Taken(r) + k - 1 = Taken(ZRoot) /\ syncs'[r][k] = v
        BY <1>1, <1>3, <2>1, <2>2, <3>2
      <4> QED BY <1>2, <4>1
    <3>3. k \in 1..Len(syncs[r]) \/ k = Len(syncs[r]) + 1
      BY <1>1, <1>3, <2>4
    <3> QED BY <3>1, <3>2, <3>3
  <2> QED BY <2>1, <2>3, <2>4 DEF ZQueueOK
<1> QED BY <1>1, <1>3 DEF SyncsInOrder, Z!Send

(* What depends on the places of the ranks only. *)
LEMMA PlacesKept ==
  ASSUME ZInv, UNCHANGED <<var, z_time, disk, arrived>>,
         \A r \in Ranks : z_pc'[r] = z_pc[r] \/ (z_pc[r] = "append" /\ z_pc'[r] = "write")
  PROVE  PlacesOK' /\ PassedTogether' /\ DiskOK'
<1>1. PlacesOK'
  BY DEF ZInv, PlacesOK, PlaceOK, Place
<1>2. PassedTogether'
  BY DEF ZInv, PassedTogether, Passed
<1>3. DiskOK'
  <2>1. ASSUME NEW v \in Z!Vars, NEW i \in Nat, NEW r \in Ranks
        PROVE  HasWritten(r, v, i)' <=> HasWritten(r, v, i)
    BY DEF HasWritten
  <2> QED BY <2>1 DEF ZInv, DiskOK
<1> QED BY <1>1, <1>2, <1>3

(* Arrays only grow, so that a rank that may write still may. *)
LEMMA StaysInBounds ==
  ASSUME ZTypeOK, ZTypeOK', Z!WritesInBounds, NEW r \in Ranks, z_pc[r] = "write", var[r] \in Z!Vars,
         UNCHANGED <<var, z_time>>, view'[r] = view[r], length[var[r]] <= length'[var[r]]
  PROVE  /\ Z!Index(r)' < view'[r][var'[r]]
         /\ view'[r][var'[r]] <= length'[var'[r]]
<1>1. Z!Index(r)' = Z!Index(r)
  BY DEF Z!Index, Z!IsConstant
<1>2. Z!Index(r) < view[r][var[r]] /\ view[r][var[r]] <= length[var[r]]
  BY DEF Z!WritesInBounds
<1>3. length[var[r]] \in Nat /\ view[r][var[r]] \in Nat /\ length'[var[r]] \in Nat
  BY DEF ZTypeOK
<1> QED BY <1>1, <1>2, <1>3

LEMMA RootCreateStep ==
  ASSUME ZInv, Z!RootCreate
  PROVE  ZInv'
<1> DEFINE v == var[ZRoot]
<1>0. /\ ZTypeOK /\ PlacesOK /\ ArraysCreated /\ SyncsInOrder /\ LengthsOK /\ Z!WritesInBounds
      /\ ZRoot \in Ranks /\ Z!Root = ZRoot /\ Z!Clients = Ranks \ {ZRoot}
  BY ZarrParameters DEF ZInv
<1>1. /\ z_pc[ZRoot] = "append" /\ v \notin created[ZRoot]
      /\ length' = [length EXCEPT ![v] = 1]
      /\ created' = [created EXCEPT ![ZRoot] = @ \cup {v}]
      /\ view' = [view EXCEPT ![ZRoot][v] = 1]
      /\ Z!Send(v)
      /\ UNCHANGED <<z_pc, var, z_time, disk, arrived>>
  BY <1>0 DEF Z!RootCreate
<1>2. v \in Z!Vars /\ PlaceOK(ZRoot) /\ CreatedOK(ZRoot)
  BY <1>0, <1>1, PlaceFacts DEF PlacesOK, ArraysCreated
<1>3. Needed(z_time[ZRoot], v) = 2
  BY <1>0, <1>1, <1>2, NotYetCreated
<1>4. /\ created' \in [Ranks -> SUBSET Z!Vars] /\ view' \in [Ranks -> [Z!Vars -> Nat]]
      /\ length' \in [Z!Vars -> Nat]
      /\ \A r \in Z!Clients : created'[r] = created[r] /\ view'[r] = view[r]
      /\ created'[ZRoot] = created[ZRoot] \cup {v}
      /\ \A w \in Z!Vars : view'[ZRoot][w] = IF w = v THEN 1 ELSE view[ZRoot][w]
      /\ \A w \in Z!Vars : length'[w] = IF w = v THEN 1 ELSE length[w]
  <2>1. /\ created \in [Ranks -> SUBSET Z!Vars] /\ view \in [Ranks -> [Z!Vars -> Nat]]
        /\ length \in [Z!Vars -> Nat]
    BY <1>0 DEF ZTypeOK
  <2>2. view[ZRoot] \in [Z!Vars -> Nat] /\ view' = [view EXCEPT ![ZRoot] = [view[ZRoot] EXCEPT ![v] = 1]]
    BY <1>0, <1>1, <2>1
  <2>3. [view[ZRoot] EXCEPT ![v] = 1] \in [Z!Vars -> Nat]
    BY <2>2
  <2>4. view' \in [Ranks -> [Z!Vars -> Nat]]
    BY <2>1, <2>2, <2>3
  <2> QED BY <1>0, <1>1, <1>2, <2>1, <2>2, <2>4
<1>5. PlacesOK' /\ PassedTogether' /\ DiskOK'
  BY <1>1, PlacesKept
<1>6. /\ Taken(ZRoot)' = Taken(ZRoot) + 1 /\ TakenHere(ZRoot) = 0
      /\ \A r \in Z!Clients : Taken(r)' = Taken(r)
  <2>1. TakenHere(ZRoot) = 0 /\ TakenHere(ZRoot)' = 1
    BY <1>1, <1>3, <1>4 DEF TakenHere, Needed
  <2>2. Before(z_time[ZRoot], v) \in Nat
    BY <1>0, PlaceFacts DEF PlacesOK
  <2>3. Taken(ZRoot)' = Taken(ZRoot) + 1
    BY <1>1, <2>1, <2>2 DEF Taken, Before
  <2>4. \A r \in Z!Clients : Taken(r)' = Taken(r)
    BY <1>1, <1>4 DEF Taken, TakenHere, Needed, Before
  <2> QED BY <2>1, <2>3, <2>4
<1>7. SyncsInOrder' /\ syncs' \in [Z!Clients -> Seq(Z!Vars)]
  BY <1>1, <1>2, <1>3, <1>6, SendStep
<1>8. ZTypeOK'
  BY <1>0, <1>1, <1>4, <1>7 DEF ZTypeOK
<1>9. ArraysCreated'
  <2>1. ASSUME NEW r \in Z!Clients PROVE CreatedOK(r)'
    BY <1>0, <1>1, <1>4, <2>1 DEF ArraysCreated, CreatedOK, Earlier
  <2>2. CreatedOK(ZRoot)'
    <3>1. v \in 1..(Fields + Constants)
      BY <1>2, ZarrParameters
    <3> QED BY <1>0, <1>1, <1>2, <1>4, <3>1, ZarrParameters DEF CreatedOK, Earlier
  <2> QED BY <1>0, <2>1, <2>2 DEF ArraysCreated
<1>10. LengthsOK'
  <2>1. ASSUME NEW w \in Z!Vars, w # v PROVE Extended(w)' = Extended(w)
    BY <1>1, <1>4, <2>1 DEF Extended
  <2>2. ASSUME NEW w \in Z!Vars, w = v PROVE Extended(w)' = 1
    <3>1. v > Fields \/ z_time[ZRoot] = 0
      BY <1>3 DEF Needed
    <3> QED BY <1>1, <1>2, <1>4, <2>2, <3>1, ZarrParameters DEF Extended
  <2> QED BY <1>0, <1>4, <2>1, <2>2 DEF LengthsOK
<1>11. Z!WritesInBounds'
  <2>1. length[v] = 0
    <3>1. v > Fields \/ z_time[ZRoot] = 0
      BY <1>3 DEF Needed
    <3> QED BY <1>0, <1>1, <1>2, <3>1, ZarrParameters DEF LengthsOK, Extended
  <2>2. ASSUME NEW r \in Ranks, z_pc'[r] = "write"
        PROVE  /\ Z!Index(r)' < view'[r][var'[r]]
               /\ view'[r][var'[r]] <= length'[var'[r]]
    <3>1. r \in Z!Clients /\ z_pc[r] = "write" /\ var[r] \in Z!Vars
      BY <1>0, <1>1, <2>2, PlaceFacts DEF PlacesOK
    <3>2. length[var[r]] \in Nat
      BY <1>0, <3>1 DEF ZTypeOK
    <3>3. length[var[r]] <= length'[var[r]]
      BY <1>4, <2>1, <3>1, <3>2
    <3> QED BY <1>0, <1>1, <1>4, <1>8, <3>1, <3>3, StaysInBounds
  <2> QED BY <2>2 DEF Z!WritesInBounds
<1> QED BY <1>5, <1>7, <1>8, <1>9, <1>10, <1>11 DEF ZInv

LEMMA RootExtendStep ==
  ASSUME ZInv, Z!RootExtend
  PROVE  ZInv'
<1> DEFINE v == var[ZRoot]
           enough == IF v > Fields THEN 1 ELSE z_time[ZRoot] + 1
<1>0. /\ ZTypeOK /\ PlacesOK /\ ArraysCreated /\ SyncsInOrder /\ LengthsOK /\ Z!WritesInBounds
      /\ ZRoot \in Ranks /\ Z!Root = ZRoot /\ Z!Clients = Ranks \ {ZRoot}
  BY ZarrParameters DEF ZInv
<1>1. /\ z_pc[ZRoot] = "append" /\ v \in created[ZRoot]
      /\ IF Z!Index(ZRoot) >= view[ZRoot][v]
         THEN /\ length' = [length EXCEPT ![v] = Z!Index(ZRoot) + 1]
              /\ view' = [view EXCEPT ![ZRoot][v] = Z!Index(ZRoot) + 1]
         ELSE UNCHANGED <<length, view>>
      /\ Z!Send(v)
      /\ z_pc' = [z_pc EXCEPT ![ZRoot] = "write"]
      /\ UNCHANGED <<var, z_time, created, disk, arrived>>
  BY <1>0 DEF Z!RootExtend, Z!ResizeNeeded, Z!Grown, Z!Goto
<1>2. /\ v \in Z!Vars /\ PlaceOK(ZRoot) /\ CreatedOK(ZRoot)
      /\ z_time[ZRoot] \in Nat /\ v \in 1..(Fields + Constants)
      /\ (v > Fields \/ z_time[ZRoot] < Stores)
  BY <1>0, <1>1, PlaceFacts, ZarrParameters DEF PlacesOK, ArraysCreated, Place
<1>3. /\ Z!Index(ZRoot) = IF v > Fields THEN 0 ELSE z_time[ZRoot]
      /\ view[ZRoot][v] = length[v]
      /\ length[v] = IF v > Fields \/ z_time[ZRoot] = 0 THEN 1 ELSE z_time[ZRoot]
  <2>1. Z!Index(ZRoot) = IF v > Fields THEN 0 ELSE z_time[ZRoot]
    BY <1>2, ZarrParameters DEF Z!Index
  <2>2. view[ZRoot][v] = length[v] /\ length[v] = Extended(v)
    BY <1>0, <1>2 DEF LengthsOK
  <2>3. Extended(v) = IF v > Fields \/ z_time[ZRoot] = 0 THEN 1 ELSE z_time[ZRoot]
    <3>1. ~ (v < var[ZRoot]) /\ z_pc[ZRoot] \notin {"write", "barrier"}
      BY <1>1, <1>2
    <3>2. CASE v > Fields
      BY <1>1, <3>2 DEF Extended
    <3>3. CASE ~ (v > Fields)
      BY <1>1, <3>1, <3>3 DEF Extended
    <3> QED BY <3>2, <3>3
  <2> QED BY <2>1, <2>2, <2>3
<1>4. /\ view' \in [Ranks -> [Z!Vars -> Nat]] /\ length' \in [Z!Vars -> Nat]
      /\ z_pc' \in [Ranks -> {"append", "write", "barrier", "done"}]
      /\ \A r \in Z!Clients : view'[r] = view[r] /\ z_pc'[r] = z_pc[r]
      /\ z_pc'[ZRoot] = "write"
      /\ \A w \in Z!Vars : view'[ZRoot][w] = IF w = v THEN enough ELSE view[ZRoot][w]
      /\ \A w \in Z!Vars : length'[w] = IF w = v THEN enough ELSE length[w]
  <2>1. /\ view \in [Ranks -> [Z!Vars -> Nat]] /\ length \in [Z!Vars -> Nat]
        /\ z_pc \in [Ranks -> {"append", "write", "barrier", "done"}]
    BY <1>0 DEF ZTypeOK
  <2>2. CASE Z!Index(ZRoot) >= view[ZRoot][v]
    <3>1. enough = Z!Index(ZRoot) + 1 /\ enough \in Nat
      BY <1>2, <1>3, <2>2
    <3> HIDE DEF enough
    <3>2. /\ length' = [length EXCEPT ![v] = enough]
          /\ view' = [view EXCEPT ![ZRoot] = [view[ZRoot] EXCEPT ![v] = enough]]
      BY <1>0, <1>1, <2>1, <2>2, <3>1
    <3>3. [view[ZRoot] EXCEPT ![v] = enough] \in [Z!Vars -> Nat]
      BY <1>0, <2>1, <3>1
    <3>4. view' \in [Ranks -> [Z!Vars -> Nat]] /\ length' \in [Z!Vars -> Nat]
      BY <2>1, <3>1, <3>2, <3>3
    <3> QED BY <1>0, <1>1, <1>2, <2>1, <3>2, <3>4
  <2>3. CASE ~ (Z!Index(ZRoot) >= view[ZRoot][v])
    <3>1. enough = view[ZRoot][v] /\ enough = length[v]
      BY <1>2, <1>3, <2>3
    <3> HIDE DEF enough
    <3>2. length' = length /\ view' = view
      BY <1>1, <2>3
    <3> QED BY <1>0, <1>1, <1>2, <2>1, <3>1, <3>2
  <2> QED BY <2>2, <2>3
<1>5. PlacesOK' /\ PassedTogether' /\ DiskOK'
  <2>1. \A r \in Ranks : z_pc'[r] = z_pc[r] \/ (z_pc[r] = "append" /\ z_pc'[r] = "write")
    BY <1>0, <1>1, <1>4
  <2> QED BY <1>1, <2>1, PlacesKept
<1>6. /\ Taken(ZRoot)' = Taken(ZRoot) + 1 /\ TakenHere(ZRoot) < Needed(z_time[ZRoot], v)
      /\ \A r \in Z!Clients : Taken(r)' = Taken(r)
  <2>1. /\ Needed(z_time[ZRoot], v) \in 1..2 /\ Before(z_time[ZRoot], v) \in Nat
    BY <1>0, PlaceFacts DEF PlacesOK
  <2>2. TakenHere(ZRoot) = Needed(z_time[ZRoot], v) - 1
    BY <1>1, <2>1 DEF TakenHere
  <2>3. TakenHere(ZRoot)' = Needed(z_time[ZRoot], v)
    BY <1>1, <1>4 DEF TakenHere, Needed
  <2>4. Taken(ZRoot)' = Taken(ZRoot) + 1
    <3>1. Taken(ZRoot)' = Before(z_time[ZRoot], v) + Needed(z_time[ZRoot], v)
      BY <1>1, <2>3 DEF Taken, Before
    <3> QED BY <2>1, <2>2, <3>1 DEF Taken
  <2>5. \A r \in Z!Clients : Taken(r)' = Taken(r)
    BY <1>1, <1>4 DEF Taken, TakenHere, Needed, Before
  <2> QED BY <2>1, <2>2, <2>4, <2>5
<1>7. SyncsInOrder' /\ syncs' \in [Z!Clients -> Seq(Z!Vars)]
  BY <1>1, <1>2, <1>6, SendStep
<1>8. ZTypeOK'
  BY <1>0, <1>1, <1>4, <1>7 DEF ZTypeOK
<1>9. ArraysCreated'
  <2>1. ASSUME NEW r \in Z!Clients PROVE CreatedOK(r)'
    BY <1>0, <1>1, <1>4, <2>1 DEF ArraysCreated, CreatedOK, Earlier
  <2>2. CreatedOK(ZRoot)'
    BY <1>1, <1>2 DEF CreatedOK, Earlier
  <2> QED BY <1>0, <2>1, <2>2 DEF ArraysCreated
<1>10. LengthsOK'
  <2>1. ASSUME NEW w \in Z!Vars, w # v PROVE Extended(w)' = Extended(w)
    BY <1>1, <1>4, <2>1 DEF Extended
  <2>2. ASSUME NEW w \in Z!Vars, w = v PROVE Extended(w)' = enough
    BY <1>1, <1>2, <1>4, <2>2 DEF Extended
  <2> QED BY <1>0, <1>4, <2>1, <2>2 DEF LengthsOK
<1>11. Z!WritesInBounds'
  <2>1. ASSUME NEW r \in Z!Clients, z_pc'[r] = "write"
        PROVE  /\ Z!Index(r)' < view'[r][var'[r]]
               /\ view'[r][var'[r]] <= length'[var'[r]]
    <3>1. r \in Ranks /\ z_pc[r] = "write" /\ var[r] \in Z!Vars
      BY <1>0, <1>4, <2>1, PlaceFacts DEF PlacesOK
    <3>2. length[var[r]] \in Nat
      BY <1>0, <3>1 DEF ZTypeOK
    <3>3. length[var[r]] <= length'[var[r]]
      BY <1>2, <1>3, <1>4, <3>1, <3>2
    <3> QED BY <1>0, <1>1, <1>4, <1>8, <2>1, <3>1, <3>3, StaysInBounds
  <2>2. /\ Z!Index(ZRoot)' < view'[ZRoot][var'[ZRoot]]
        /\ view'[ZRoot][var'[ZRoot]] <= length'[var'[ZRoot]]
    <3>1. Z!Index(ZRoot)' = Z!Index(ZRoot)
      BY <1>1 DEF Z!Index, Z!IsConstant
    <3>2. view'[ZRoot][var'[ZRoot]] = enough /\ length'[var'[ZRoot]] = enough
      BY <1>1, <1>2, <1>4
    <3> QED BY <1>2, <1>3, <3>1, <3>2
  <2> QED BY <1>0, <2>1, <2>2 DEF Z!WritesInBounds
<1> QED BY <1>5, <1>7, <1>8, <1>9, <1>10, <1>11 DEF ZInv

LEMMA ClientSyncStep ==
  ASSUME ZInv, NEW rank \in Ranks, Z!ClientSync(rank)
  PROVE  ZInv'
<1> DEFINE v == var[rank]
           t == z_time[rank]
           taken == Head(syncs[rank])
<1>0. /\ ZTypeOK /\ PlacesOK /\ ArraysCreated /\ SyncsInOrder /\ LengthsOK /\ Z!WritesInBounds
      /\ ZRoot \in Ranks /\ Z!Root = ZRoot /\ Z!Clients = Ranks \ {ZRoot}
  BY ZarrParameters DEF ZInv
<1>1. /\ rank \in Z!Clients /\ rank # ZRoot
      /\ z_pc[rank] = "append" /\ syncs[rank] # << >>
      /\ syncs' = [syncs EXCEPT ![rank] = Tail(@)]
      /\ view' = [view EXCEPT ![rank][taken] = length[taken]]
      /\ IF v \in created[rank] THEN z_pc' = [z_pc EXCEPT ![rank] = "write"] /\ UNCHANGED created
         ELSE created' = [created EXCEPT ![rank] = @ \cup {v}] /\ UNCHANGED z_pc
      /\ UNCHANGED <<var, z_time, length, disk, arrived>>
  BY <1>0 DEF Z!ClientSync, Z!Goto
<1>2. /\ v \in Z!Vars /\ PlaceOK(rank) /\ CreatedOK(rank) /\ t \in 0..Stores /\ Place(t, v)
      /\ Before(t, v) \in Nat /\ Needed(t, v) \in 1..2
      /\ TakenHere(rank) \in 0..(Needed(t, v) - 1)
      /\ Taken(rank) \in Nat /\ Taken(ZRoot) \in Nat
      /\ PlaceOK(ZRoot) /\ CreatedOK(ZRoot)
  <2>1. PlaceOK(rank) /\ CreatedOK(rank) /\ PlaceOK(ZRoot) /\ CreatedOK(ZRoot)
    BY <1>0 DEF PlacesOK, ArraysCreated
  <2>2. TakenHere(rank) # Needed(t, v)
    BY <1>1 DEF TakenHere, Needed
  <2> QED BY <1>0, <1>1, <2>1, <2>2, PlaceFacts
<1>3. /\ syncs[rank] \in Seq(Z!Vars) /\ Len(syncs[rank]) \in Nat \ {0}
      /\ Len(syncs[rank]) = Taken(ZRoot) - Taken(rank)
      /\ \A k \in 1..Len(syncs[rank]) : About(Taken(rank) + k - 1, syncs[rank][k])
  <2>1. syncs[rank] \in Seq(Z!Vars)
    BY <1>0, <1>1 DEF ZTypeOK
  <2> QED BY <1>0, <1>1, <2>1, EmptySeq DEF SyncsInOrder, ZQueueOK
<1>4. taken = v
  <2>1. taken = syncs[rank][1] /\ taken \in Z!Vars
    BY <1>3, HeadTailProperties
  <2>2. About(Taken(rank), taken)
    <3>1. Taken(rank) + 1 - 1 = Taken(rank) /\ 1 \in 1..Len(syncs[rank])
      BY <1>2, <1>3
    <3> QED BY <1>3, <2>1, <3>1
  <2>3. Before(t, v) <= Taken(rank) /\ Taken(rank) < Before(t, v) + Needed(t, v)
    BY <1>2 DEF Taken
  <2> QED BY <1>2, <2>1, <2>2, <2>3, AboutOnePlace
<1> HIDE DEF taken
<1>5. /\ syncs' \in [Z!Clients -> Seq(Z!Vars)]
      /\ \A r \in Z!Clients \ {rank} : syncs'[r] = syncs[r]
      /\ Len(syncs'[rank]) = Len(syncs[rank]) - 1
      /\ \A k \in 1..(Len(syncs[rank]) - 1) : syncs'[rank][k] = syncs[rank][k + 1]
  <2>1. syncs \in [Z!Clients -> Seq(Z!Vars)]
    BY <1>0 DEF ZTypeOK
  <2>2. /\ Tail(syncs[rank]) \in Seq(Z!Vars)
        /\ Len(Tail(syncs[rank])) = Len(syncs[rank]) - 1
        /\ \A k \in 1..(Len(syncs[rank]) - 1) : Tail(syncs[rank])[k] = syncs[rank][k + 1]
    BY <1>1, <1>3, HeadTailProperties
  <2>3. syncs'[rank] = Tail(syncs[rank])
    BY <1>1, <2>1
  <2>4. /\ syncs' \in [Z!Clients -> Seq(Z!Vars)]
        /\ \A r \in Z!Clients \ {rank} : syncs'[r] = syncs[r]
    BY <1>1, <2>1, <2>2
  <2> QED BY <2>2, <2>3, <2>4
<1>6. /\ view' \in [Ranks -> [Z!Vars -> Nat]]
      /\ \A r \in Ranks \ {rank} : view'[r] = view[r]
      /\ view'[rank][v] = length[v] /\ length[v] \in Nat
  <2>1. view \in [Ranks -> [Z!Vars -> Nat]] /\ view[rank] \in [Z!Vars -> Nat] /\ length[v] \in Nat
    BY <1>0, <1>2 DEF ZTypeOK
  <2>2. view' = [view EXCEPT ![rank] = [view[rank] EXCEPT ![v] = length[v]]]
    BY <1>1, <1>4, <2>1
  <2>3. [view[rank] EXCEPT ![v] = length[v]] \in [Z!Vars -> Nat]
    BY <2>1
  <2> QED BY <1>2, <2>1, <2>2, <2>3
<1>7. /\ created' \in [Ranks -> SUBSET Z!Vars]
      /\ z_pc' \in [Ranks -> {"append", "write", "barrier", "done"}]
      /\ \A r \in Ranks \ {rank} : created'[r] = created[r] /\ z_pc'[r] = z_pc[r]
      /\ created'[rank] = created[rank] \cup {v}
      /\ z_pc'[rank] = IF v \in created[rank] THEN "write" ELSE "append"
  <2>1. created \in [Ranks -> SUBSET Z!Vars] /\ z_pc \in [Ranks -> {"append", "write", "barrier", "done"}]
    BY <1>0 DEF ZTypeOK
  <2>2. CASE v \in created[rank]
    BY <1>1, <2>1, <2>2
  <2>3. CASE v \notin created[rank]
    BY <1>1, <1>2, <2>1, <2>3
  <2> QED BY <2>2, <2>3
<1>8. ZTypeOK'
  BY <1>0, <1>1, <1>5, <1>6, <1>7 DEF ZTypeOK
<1>9. PlacesOK' /\ PassedTogether' /\ DiskOK'
  <2>1. \A r \in Ranks : z_pc'[r] = z_pc[r] \/ (z_pc[r] = "append" /\ z_pc'[r] = "write")
    BY <1>1, <1>7
  <2> QED BY <1>1, <2>1, PlacesKept
<1>10. Taken(rank)' = Taken(rank) + 1 /\ \A r \in Ranks \ {rank} : Taken(r)' = Taken(r)
  <2>1. TakenHere(rank)' = TakenHere(rank) + 1
    <3>1. CASE v \in created[rank]
      <4>1. TakenHere(rank)' = Needed(t, v)
        BY <1>1, <1>7, <3>1 DEF TakenHere, Needed
      <4>2. TakenHere(rank) = IF Needed(t, v) = 2 THEN 1 ELSE 0
        BY <1>1, <3>1 DEF TakenHere
      <4> QED BY <1>2, <4>1, <4>2
    <3>2. CASE v \notin created[rank]
      <4>1. Needed(t, v) = 2
        BY <1>0, <1>2, <3>2, NotYetCreated
      <4>2. TakenHere(rank) = 0
        BY <1>1, <3>2 DEF TakenHere
      <4>3. TakenHere(rank)' = 1
        BY <1>1, <1>7, <3>2, <4>1 DEF TakenHere, Needed
      <4> QED BY <4>2, <4>3
    <3> QED BY <3>1, <3>2
  <2>2. Taken(rank)' = Before(t, v) + TakenHere(rank)'
    BY <1>1 DEF Taken, Before
  <2>3. Taken(rank)' = Taken(rank) + 1
    BY <1>2, <2>1, <2>2 DEF Taken
  <2>4. \A r \in Ranks \ {rank} : Taken(r)' = Taken(r)
    BY <1>1, <1>7 DEF Taken, TakenHere, Needed, Before
  <2> QED BY <2>3, <2>4
<1>11. SyncsInOrder'
  <2>1. ASSUME NEW r \in Z!Clients, r # rank PROVE ZQueueOK(r)'
    <3>1. Taken(r)' = Taken(r) /\ Taken(ZRoot)' = Taken(ZRoot) /\ syncs'[r] = syncs[r]
      BY <1>0, <1>1, <1>5, <1>10, <2>1
    <3> QED BY <1>0, <2>1, <3>1 DEF SyncsInOrder, ZQueueOK
  <2>2. ZQueueOK(rank)'
    <3>1. Taken(rank)' = Taken(rank) + 1 /\ Taken(ZRoot)' = Taken(ZRoot)
      BY <1>0, <1>1, <1>10
    <3>2. Len(syncs'[rank]) = Taken(ZRoot)' - Taken(rank)'
      BY <1>2, <1>3, <1>5, <3>1
    <3>3. ASSUME NEW k \in 1..Len(syncs'[rank])
          PROVE  About(Taken(rank)' + k - 1, syncs'[rank][k])
      <4>1. k \in 1..(Len(syncs[rank]) - 1) /\ k + 1 \in 1..Len(syncs[rank])
        BY <1>3, <1>5, <3>3
      <4>2. Taken(rank)' + k - 1 = Taken(rank) + (k + 1) - 1
        BY <1>2, <3>1, <4>1
      <4>3. syncs'[rank][k] = syncs[rank][k + 1]
        BY <1>5, <4>1
      <4>4. About(Taken(rank) + (k + 1) - 1, syncs[rank][k + 1])
        BY <1>3, <4>1
      <4> QED BY <4>2, <4>3, <4>4
    <3> QED BY <3>2, <3>3 DEF ZQueueOK
  <2> QED BY <2>1, <2>2 DEF SyncsInOrder
<1>12. ArraysCreated'
  <2>1. ASSUME NEW r \in Ranks \ {rank} PROVE CreatedOK(r)'
    BY <1>0, <1>1, <1>7, <2>1 DEF ArraysCreated, CreatedOK, Earlier
  <2>2. CreatedOK(rank)'
    <3>1. v \in 1..(Fields + Constants)
      BY <1>2, ZarrParameters
    <3>2. \A w \in Z!Vars : Earlier(rank, w)' <=> Earlier(rank, w)
      BY <1>1 DEF Earlier
    <3>3. \A w \in Z!Vars : w > v /\ w \in created'[rank] => w \in created[rank]
      BY <1>7, <3>1, ZarrParameters
    <3> QED BY <1>1, <1>2, <1>7, <3>2, <3>3 DEF CreatedOK
  <2> QED BY <2>1, <2>2 DEF ArraysCreated
<1>13. LengthsOK'
  <2>1. \A w \in Z!Vars : Extended(w)' = Extended(w)
    BY <1>0, <1>1, <1>7 DEF Extended
  <2> QED BY <1>0, <1>1, <1>6, <2>1 DEF LengthsOK
<1>14. Z!WritesInBounds'
  <2>1. ASSUME NEW r \in Ranks \ {rank}, z_pc'[r] = "write"
        PROVE  /\ Z!Index(r)' < view'[r][var'[r]]
               /\ view'[r][var'[r]] <= length'[var'[r]]
    <3>1. z_pc[r] = "write" /\ var[r] \in Z!Vars
      BY <1>0, <1>7, <2>1, PlaceFacts DEF PlacesOK
    <3>2. length[var[r]] \in Nat /\ length' = length
      BY <1>0, <1>1, <3>1 DEF ZTypeOK
    <3>3. length[var[r]] <= length'[var[r]]
      BY <3>2
    <3> QED BY <1>0, <1>1, <1>6, <1>8, <2>1, <3>1, <3>3, StaysInBounds
  <2>2. ASSUME z_pc'[rank] = "write"
        PROVE  /\ Z!Index(rank)' < view'[rank][var'[rank]]
               /\ view'[rank][var'[rank]] <= length'[var'[rank]]
    <3>1. v \in created[rank]
      BY <1>7, <2>2
    <3>2. Taken(rank) < Taken(ZRoot)
      BY <1>2, <1>3
    <3>3. Z!Index(rank) < Extended(v)
      BY <1>0, <1>1, <1>2, <3>1, <3>2, RootIsAhead
    <3>4. Z!Index(rank)' = Z!Index(rank)
      BY <1>1 DEF Z!Index, Z!IsConstant
    <3>5. length[v] = Extended(v)
      BY <1>0, <1>2 DEF LengthsOK
    <3> QED BY <1>1, <1>6, <3>3, <3>4, <3>5
  <2> QED BY <2>1, <2>2 DEF Z!WritesInBounds
<1> QED BY <1>8, <1>9, <1>11, <1>12, <1>13, <1>14 DEF ZInv

-----------------------------------------------------------------------------
(* The next place of a rank, case by case. *)
LEMMA NextPlace ==
  ASSUME NEW time \in 0..Stores, NEW v \in Z!Vars, Place(time, v)
  PROVE  \/ /\ v > Fields /\ time = Stores
            /\ Z!NextTime(v, time) = time /\ Z!NextVar(v, time) = v + 1
         \/ /\ v < Fields /\ time < Stores
            /\ Z!NextTime(v, time) = time /\ Z!NextVar(v, time) = v + 1
         \/ /\ v = Fields /\ time + 1 < Stores
            /\ Z!NextTime(v, time) = time + 1 /\ Z!NextVar(v, time) = 1
         \/ /\ v = Fields /\ time + 1 = Stores
            /\ Z!NextTime(v, time) = time + 1 /\ Z!NextVar(v, time) = v + 1
<1>1. v \in Nat /\ Fields \in Nat /\ Stores \in Nat
  BY ZarrParameters
<1> QED BY <1>1 DEF Place, Z!NextTime, Z!NextVar, Fields

(* Going on, the root leaves the lengths as they are. *)
LEMMA LengthsGoOn ==
  ASSUME ZTypeOK, PlaceOK(ZRoot), CreatedOK(ZRoot), LengthsOK,
         z_pc[ZRoot] \in {"write", "barrier"}, z_pc'[ZRoot] \in {"append", "done"},
         var'[ZRoot] = Z!NextVar(var[ZRoot], z_time[ZRoot]),
         z_time'[ZRoot] = Z!NextTime(var[ZRoot], z_time[ZRoot]),
         created'[ZRoot] = created[ZRoot], UNCHANGED <<view, length>>
  PROVE  LengthsOK'
<1> DEFINE v == var[ZRoot]
           t == z_time[ZRoot]
<1>1. /\ ZRoot \in Ranks /\ v \in Z!Vars /\ t \in 0..Stores /\ Place(t, v)
      /\ v \in 1..(Fields + Constants) /\ Fields \in Nat \ {0} /\ Stores \in Nat \ {0}
      /\ Constants \in Nat
  BY PlaceFacts, ZarrParameters
<1>2. ASSUME NEW w \in Z!Vars PROVE Extended(w)' = Extended(w)
  <2>1. w \in Nat \ {0}
    BY <1>2, ZarrParameters
  <2>2. CASE w > Fields
    BY <2>2 DEF Extended
  <2>3. CASE ~ (w > Fields) /\ v > Fields
    <3>1. var'[ZRoot] > Fields
      BY <1>1, <2>3, NextPlace
    <3> QED BY <2>3, <3>1 DEF Extended
  <2>4. CASE ~ (w > Fields) /\ v < Fields
    <3>1. var'[ZRoot] = v + 1 /\ z_time'[ZRoot] = t
      BY <1>1, <2>4, NextPlace
    <3>2. w < var'[ZRoot] <=> w < v \/ w = v
      BY <1>1, <2>1, <3>1
    <3> QED BY <1>1, <2>1, <2>4, <3>1, <3>2 DEF Extended
  <2>5. CASE ~ (w > Fields) /\ v = Fields /\ t + 1 < Stores
    <3>1. var'[ZRoot] = 1 /\ z_time'[ZRoot] = t + 1
      BY <1>1, <2>5, NextPlace
    <3>2. Extended(w) = t + 1
      BY <1>1, <2>1, <2>5 DEF Extended
    <3>3. ~ (w < var'[ZRoot]) /\ ~ (var'[ZRoot] > Fields) /\ z_time'[ZRoot] # 0
      BY <1>1, <2>1, <3>1
    <3>4. Extended(w)' = t + 1
      BY <2>5, <3>1, <3>3 DEF Extended
    <3> QED BY <3>2, <3>4
  <2>6. CASE ~ (w > Fields) /\ v = Fields /\ ~ (t + 1 < Stores)
    <3>1. var'[ZRoot] = v + 1 /\ t + 1 = Stores
      BY <1>1, <2>6, NextPlace
    <3>2. Extended(w) = t + 1
      BY <1>1, <2>1, <2>6 DEF Extended
    <3>3. var'[ZRoot] > Fields
      BY <1>1, <2>6, <3>1
    <3> QED BY <2>6, <3>1, <3>2, <3>3 DEF Extended
  <2> QED BY <1>1, <2>1, <2>2, <2>3, <2>4, <2>5, <2>6
<1> QED BY <1>2 DEF LengthsOK

(* Having gone on, a rank has written one index of its variable more. *)
LEMMA WrittenGoesOn ==
  ASSUME ZTypeOK, NEW rank \in Ranks, PlaceOK(rank),
         z_pc[rank] \in {"write", "barrier"}, z_pc'[rank] # "barrier",
         var'[rank] = Z!NextVar(var[rank], z_time[rank]),
         z_time'[rank] = Z!NextTime(var[rank], z_time[rank]),
         NEW w \in Z!Vars, NEW i \in Nat
  PROVE  HasWritten(rank, w, i)' <=>
           HasWritten(rank, w, i) \/ (w = var[rank] /\ i = Z!Index(rank))
<1> DEFINE v == var[rank]
           t == z_time[rank]
<1>1. /\ v \in Z!Vars /\ t \in 0..Stores /\ Place(t, v)
      /\ v \in 1..(Fields + Constants) /\ Fields \in Nat \ {0} /\ Stores \in Nat \ {0}
      /\ Constants \in Nat /\ w \in Nat \ {0}
  BY PlaceFacts, ZarrParameters
<1>2. Z!Index(rank) = IF v > Fields THEN 0 ELSE t
  BY ZarrParameters DEF Z!Index
<1>3. CASE v > Fields
  <2>1. var'[rank] = v + 1 /\ z_time'[rank] = t /\ t = Stores
    BY <1>1, <1>3, NextPlace
  <2> QED BY <1>1, <1>2, <1>3, <2>1 DEF HasWritten
<1>4. CASE v < Fields
  <2>1. var'[rank] = v + 1 /\ z_time'[rank] = t
    BY <1>1, <1>4, NextPlace
  <2> QED BY <1>1, <1>2, <1>4, <2>1 DEF HasWritten
<1>5. CASE v = Fields /\ t + 1 < Stores
  <2>1. var'[rank] = 1 /\ z_time'[rank] = t + 1
    BY <1>1, <1>5, NextPlace
  <2> QED BY <1>1, <1>2, <1>5, <2>1 DEF HasWritten
<1>6. CASE v = Fields /\ ~ (t + 1 < Stores)
  <2>1. var'[rank] = v + 1 /\ z_time'[rank] = t + 1
    BY <1>1, <1>6, NextPlace
  <2> QED BY <1>1, <1>2, <1>6, <2>1 DEF HasWritten
<1> QED BY <1>1, <1>3, <1>4, <1>5, <1>6

(* A rank passes a barrier where it goes on from the time, and there only. *)
LEMMA PassedGoesOn ==
  ASSUME ZTypeOK, NEW rank \in Ranks, PlaceOK(rank), z_pc[rank] \in {"write", "barrier"},
         var'[rank] = Z!NextVar(var[rank], z_time[rank]),
         z_time'[rank] = Z!NextTime(var[rank], z_time[rank])
  PROVE  Passed(rank)' = IF var[rank] = TimeVar THEN z_time[rank] + 1 ELSE Passed(rank)
<1> DEFINE v == var[rank]
           t == z_time[rank]
<1>1. /\ v \in Z!Vars /\ t \in 0..Stores /\ Place(t, v)
      /\ v \in 1..(Fields + Constants) /\ Fields \in Nat \ {0} /\ Stores \in Nat \ {0}
      /\ Constants \in Nat /\ TimeVar \in 1..Fields
  BY PlaceFacts, ZarrParameters
<1>2. Passed(rank)' = IF var'[rank] > TimeVar /\ z_time'[rank] < Stores
                      THEN z_time'[rank] + 1 ELSE z_time'[rank]
  BY DEF Passed, TimeVar, Z!IsTime, Z!Vars, Z!IsConstant
<1> QED BY <1>1, <1>2, NextPlace DEF Passed

(* What a write puts on disk. *)
LEMMA WriteEffect ==
  ASSUME ZTypeOK, DiskOK, NEW rank \in Ranks, PlaceOK(rank), Z!Write(rank)
  PROVE  /\ z_pc[rank] = "write" /\ var[rank] \in Z!Vars
         /\ disk' \in [Z!Vars -> SUBSET (Nat \X Ranks)]
         /\ \A w \in Z!Vars, i \in Nat, r \in Ranks :
              <<i, r>> \in disk'[w] <=>
                \/ <<i, r>> \in disk[w]
                \/ /\ r = rank /\ w = var[rank] /\ i = Z!Index(rank)
                   /\ (w = TimeVar => r = ZRoot)
<1> DEFINE v == var[rank]
<1>1. /\ z_pc[rank] = "write" /\ v \in Z!Vars
      /\ disk' = IF Z!IsTime(v) => rank = ZRoot
                 THEN [disk EXCEPT ![v] = @ \cup {<<Z!Index(rank), rank>>}]
                 ELSE disk
  BY PlaceFacts, ZarrParameters DEF Z!Write, Z!Writes
<1>2. Z!IsTime(v) <=> v = TimeVar
  BY <1>1, ZarrParameters
<1>3. disk \in [Z!Vars -> SUBSET (Nat \X Ranks)] /\ Z!Index(rank) \in Nat
  BY ZarrParameters DEF ZTypeOK, Z!Index
<1> QED BY <1>1, <1>2, <1>3

LEMMA WriteStep ==
  ASSUME ZInv, NEW rank \in Ranks, Z!Write(rank)
  PROVE  ZInv'
<1> DEFINE v == var[rank]
<1>0. /\ ZTypeOK /\ PlacesOK /\ ArraysCreated /\ SyncsInOrder /\ LengthsOK /\ Z!WritesInBounds
      /\ PassedTogether /\ DiskOK
      /\ ZRoot \in Ranks /\ Z!Root = ZRoot /\ Z!Clients = Ranks \ {ZRoot}
  BY ZarrParameters DEF ZInv
<1>1. PlaceOK(rank) /\ CreatedOK(rank)
  BY <1>0 DEF PlacesOK, ArraysCreated
<1>2. /\ z_pc[rank] = "write" /\ v \in Z!Vars
      /\ disk' \in [Z!Vars -> SUBSET (Nat \X Ranks)]
      /\ \A w \in Z!Vars, i \in Nat, r \in Ranks :
           <<i, r>> \in disk'[w] <=>
             \/ <<i, r>> \in disk[w]
             \/ /\ r = rank /\ w = v /\ i = Z!Index(rank)
                /\ (w = TimeVar => r = ZRoot)
  BY <1>0, <1>1, WriteEffect
<1>3. UNCHANGED <<created, view, syncs, length>>
  BY DEF Z!Write
<1>4. Z!IsTime(v) <=> v = TimeVar
  BY <1>2, ZarrParameters
<1>5. z_pc \in [Ranks -> {"append", "write", "barrier", "done"}] /\ arrived \subseteq Ranks
  BY <1>0 DEF ZTypeOK
<1>6. \A r \in Ranks \ {rank} :
        /\ z_pc'[r] = z_pc[r] /\ var'[r] = var[r] /\ z_time'[r] = z_time[r]
        /\ r \in arrived' <=> r \in arrived
  <2>1. CASE Z!IsTime(v)
    BY <1>5, <2>1 DEF Z!Write, Z!Goto
  <2>2. CASE ~ Z!IsTime(v)
    <3>1. var \in [Ranks -> 1..(Fields + Constants + 1)] /\ z_time \in [Ranks -> 0..Stores]
      BY <1>0 DEF ZTypeOK
    <3> QED BY <1>5, <2>2, <3>1 DEF Z!Write, Z!Goto, Z!Advance
  <2> QED BY <2>1, <2>2
<1>7. /\ PlaceOK(rank)' /\ CreatedOK(rank)' /\ Taken(rank)' = Taken(rank)
      /\ z_time'[rank] \in 0..Stores /\ var'[rank] \in 1..(Fields + Constants + 1)
      /\ z_pc'[rank] \in {"append", "barrier", "done"}
      /\ Passed(rank)' = Passed(rank)
      /\ \A w \in Z!Vars, i \in Nat :
           HasWritten(rank, w, i)' <=> HasWritten(rank, w, i) \/ (w = v /\ i = Z!Index(rank))
      /\ rank = ZRoot => LengthsOK'
      /\ z_pc' \in [Ranks -> {"append", "write", "barrier", "done"}]
      /\ var' \in [Ranks -> 1..(Fields + Constants + 1)] /\ z_time' \in [Ranks -> 0..Stores]
      /\ arrived' \subseteq Ranks
  <2>1. CASE Z!IsTime(v)
    <3>1. /\ z_pc' = [z_pc EXCEPT ![rank] = "barrier"] /\ arrived' = arrived \cup {rank}
          /\ UNCHANGED <<var, z_time>>
      BY <2>1 DEF Z!Write, Z!Goto
    <3>2. z_pc'[rank] = "barrier"
      BY <1>5, <3>1
    <3>3. PlaceOK(rank)'
      BY <1>1, <1>2, <2>1, <3>1, <3>2 DEF PlaceOK, Place
    <3>4. CreatedOK(rank)' /\ Taken(rank)' = Taken(rank)
      BY <1>1, <1>2, <1>3, <3>1, <3>2 DEF CreatedOK, Earlier, Taken, TakenHere, Needed, Before
    <3>5. Passed(rank)' = Passed(rank)
      BY <3>1 DEF Passed
    <3>6. ASSUME NEW w \in Z!Vars, NEW i \in Nat
          PROVE  HasWritten(rank, w, i)' <=> HasWritten(rank, w, i) \/ (w = v /\ i = Z!Index(rank))
      <4>1. v <= Fields /\ v \in 1..Fields /\ ~ Z!IsConstant(v) /\ Fields \in Nat
        BY <1>4, <2>1, ZarrParameters
      <4>2. Z!Index(rank) = z_time[rank]
        BY <4>1 DEF Z!Index
      <4> QED BY <1>2, <3>1, <3>2, <4>1, <4>2 DEF HasWritten
    <3>7. rank = ZRoot => LengthsOK'
      <4> SUFFICES ASSUME rank = ZRoot PROVE LengthsOK'
        OBVIOUS
      <4>1. \A w \in Z!Vars : Extended(w)' = Extended(w)
        BY <1>2, <1>3, <3>1, <3>2 DEF Extended
      <4> QED BY <1>0, <1>3, <4>1 DEF LengthsOK
    <3>8. /\ z_time[rank] \in 0..Stores /\ v \in 1..(Fields + Constants + 1)
      BY <1>0 DEF ZTypeOK
    <3> QED BY <1>0, <1>5, <3>1, <3>2, <3>3, <3>4, <3>5, <3>6, <3>7, <3>8 DEF ZTypeOK
  <2>2. CASE ~ Z!IsTime(v)
    <3>1. /\ var' = [var EXCEPT ![rank] = Z!NextVar(@, z_time[rank])]
          /\ z_time' = [z_time EXCEPT ![rank] = Z!NextTime(v, @)]
          /\ z_pc' = [z_pc EXCEPT ![rank] = Z!NextLabel(v, z_time[rank])]
          /\ arrived' = arrived
      BY <2>2 DEF Z!Write, Z!Goto, Z!Advance
    <3>2. /\ z_pc'[rank] = Z!NextLabel(v, z_time[rank]) /\ var'[rank] = Z!NextVar(v, z_time[rank])
          /\ z_time'[rank] = Z!NextTime(v, z_time[rank]) /\ created'[rank] = created[rank]
      BY <1>0, <1>3, <1>5, <3>1 DEF ZTypeOK
    <3>3. rank \notin arrived'
      BY <1>1, <1>2, <3>1 DEF PlaceOK
    <3>4. /\ PlaceOK(rank)' /\ CreatedOK(rank)'
          /\ Taken(rank)' = Taken(rank)
          /\ z_time'[rank] \in 0..Stores /\ var'[rank] \in 1..(Fields + Constants + 1)
          /\ z_pc'[rank] \in {"append", "done"}
      BY <1>0, <1>1, <1>2, <3>2, <3>3, GoesOn
    <3>5. Passed(rank)' = Passed(rank)
      BY <1>0, <1>1, <1>2, <1>4, <2>2, <3>2, PassedGoesOn
    <3>6. \A w \in Z!Vars, i \in Nat :
            HasWritten(rank, w, i)' <=> HasWritten(rank, w, i) \/ (w = v /\ i = Z!Index(rank))
      BY <1>0, <1>1, <1>2, <3>2, <3>4, WrittenGoesOn
    <3>7. rank = ZRoot => LengthsOK'
      BY <1>0, <1>1, <1>2, <1>3, <3>2, <3>4, LengthsGoOn
    <3>8. /\ var \in [Ranks -> 1..(Fields + Constants + 1)] /\ z_time \in [Ranks -> 0..Stores]
      BY <1>0 DEF ZTypeOK
    <3>9. /\ var' \in [Ranks -> 1..(Fields + Constants + 1)] /\ z_time' \in [Ranks -> 0..Stores]
          /\ z_pc' \in [Ranks -> {"append", "write", "barrier", "done"}]
      BY <1>5, <3>1, <3>2, <3>4, <3>8
    <3> QED BY <1>5, <3>1, <3>4, <3>5, <3>6, <3>7, <3>9
  <2> QED BY <2>1, <2>2
<1>8. ZTypeOK'
  BY <1>0, <1>2, <1>3, <1>7 DEF ZTypeOK
<1>9. PlacesOK' /\ ArraysCreated'
  <2>1. ASSUME NEW r \in Ranks \ {rank} PROVE PlaceOK(r)' /\ CreatedOK(r)'
    BY <1>0, <1>3, <1>6, <2>1
       DEF PlacesOK, PlaceOK, Place, ArraysCreated, CreatedOK, Earlier
  <2> QED BY <1>7, <2>1 DEF PlacesOK, ArraysCreated
<1>10. SyncsInOrder'
  <2>1. \A r \in Ranks : Taken(r)' = Taken(r)
    BY <1>3, <1>6, <1>7 DEF Taken, TakenHere, Needed, Before
  <2> QED BY <1>0, <1>3, <2>1 DEF SyncsInOrder, ZQueueOK
<1>11. LengthsOK'
  <2>1. CASE rank # ZRoot
    <3>1. \A w \in Z!Vars : Extended(w)' = Extended(w)
      BY <1>0, <1>3, <1>6, <2>1 DEF Extended
    <3> QED BY <1>0, <1>3, <3>1 DEF LengthsOK
  <2> QED BY <1>7, <2>1
<1>12. Z!WritesInBounds'
  <2>1. ASSUME NEW r \in Ranks, z_pc'[r] = "write"
        PROVE  r # rank /\ z_pc[r] = "write" /\ var'[r] = var[r] /\ Z!Index(r)' = Z!Index(r)
    BY <1>6, <1>7, <2>1 DEF Z!Index, Z!IsConstant
  <2> QED BY <1>0, <1>3, <2>1 DEF Z!WritesInBounds
<1>13. PassedTogether'
  <2>1. \A r \in Ranks : Passed(r)' = Passed(r)
    BY <1>6, <1>7 DEF Passed
  <2> QED BY <1>0, <2>1 DEF PassedTogether
<1>14. DiskOK'
  <2>1. ASSUME NEW r \in Ranks \ {rank}, NEW w \in Z!Vars, NEW i \in Nat
        PROVE  HasWritten(r, w, i)' <=> HasWritten(r, w, i)
    BY <1>6, <2>1 DEF HasWritten
  <2>2. ASSUME NEW r \in Ranks, NEW w \in Z!Vars, NEW i \in Nat
        PROVE  <<i, r>> \in disk'[w] <=> (w = TimeVar => r = ZRoot) /\ HasWritten(r, w, i)'
    <3>1. <<i, r>> \in disk[w] <=> (w = TimeVar => r = ZRoot) /\ HasWritten(r, w, i)
      BY <1>0, <2>2 DEF DiskOK
    <3>2. CASE r = rank
      BY <1>2, <1>7, <2>2, <3>1, <3>2
    <3>3. CASE r # rank
      BY <1>2, <2>1, <2>2, <3>1, <3>3
    <3> QED BY <3>2, <3>3
  <2> QED BY <2>2 DEF DiskOK, TimeVar, Z!IsTime, Z!Vars, Z!IsConstant
<1> QED BY <1>8, <1>9, <1>10, <1>11, <1>12, <1>13, <1>14 DEF ZInv

(* In the barrier all ranks are at the time of one store, and leave it together. *)
LEMMA LeaveBarrierStep ==
  ASSUME ZInv, Z!LeaveBarrier
  PROVE  ZInv'
<1>0. /\ ZTypeOK /\ PlacesOK /\ ArraysCreated /\ SyncsInOrder /\ LengthsOK /\ Z!WritesInBounds
      /\ PassedTogether /\ DiskOK
      /\ ZRoot \in Ranks /\ Z!Root = ZRoot /\ Z!Clients = Ranks \ {ZRoot}
  BY ZarrParameters DEF ZInv
<1>1. /\ arrived = Ranks /\ arrived' = {}
      /\ UNCHANGED <<created, view, syncs, length, disk>>
      /\ var' = [r \in Ranks |-> IF r \in arrived THEN Z!NextVar(var[r], z_time[r]) ELSE var[r]]
      /\ z_time' = [r \in Ranks |-> IF r \in arrived THEN Z!NextTime(var[r], z_time[r]) ELSE z_time[r]]
      /\ z_pc' = [r \in Ranks |-> IF r \in arrived THEN Z!NextLabel(var[r], z_time[r]) ELSE z_pc[r]]
  BY DEF Z!LeaveBarrier, Z!BarrierOpen
<1>2. ASSUME NEW r \in Ranks
      PROVE  /\ PlaceOK(r) /\ CreatedOK(r)
             /\ z_pc[r] = "barrier" /\ var[r] = TimeVar /\ z_time[r] < Stores
             /\ var'[r] = Z!NextVar(var[r], z_time[r])
             /\ z_time'[r] = Z!NextTime(var[r], z_time[r])
             /\ z_pc'[r] = Z!NextLabel(var[r], z_time[r])
             /\ created'[r] = created[r] /\ r \notin arrived'
  <2>1. PlaceOK(r) /\ CreatedOK(r)
    BY <1>0, <1>2 DEF PlacesOK, ArraysCreated
  <2>2. z_pc[r] = "barrier" /\ Z!IsTime(var[r])
    BY <1>1, <1>2, <2>1 DEF PlaceOK
  <2>3. var[r] \in Z!Vars /\ Place(z_time[r], var[r])
    BY <1>0, <1>2, <2>1, <2>2, PlaceFacts
  <2>4. var[r] = TimeVar /\ TimeVar \in 1..Fields
    BY <2>2, <2>3, ZarrParameters
  <2>5. z_time[r] < Stores
    BY <2>3, <2>4, ZarrParameters DEF Place
  <2> QED BY <1>1, <1>2, <2>1, <2>2, <2>4, <2>5
<1>3. ASSUME NEW r \in Ranks
      PROVE  /\ PlaceOK(r)' /\ CreatedOK(r)' /\ Taken(r)' = Taken(r)
             /\ z_time'[r] \in 0..Stores /\ var'[r] \in 1..(Fields + Constants + 1)
             /\ z_pc'[r] \in {"append", "done"}
  BY <1>0, <1>2, <1>3, GoesOn
<1>4. ZTypeOK'
  <2>1. /\ var' \in [Ranks -> 1..(Fields + Constants + 1)] /\ z_time' \in [Ranks -> 0..Stores]
        /\ z_pc' \in [Ranks -> {"append", "write", "barrier", "done"}]
    BY <1>1, <1>3
  <2> QED BY <1>0, <1>1, <2>1 DEF ZTypeOK
<1>5. PlacesOK' /\ ArraysCreated'
  BY <1>3 DEF PlacesOK, ArraysCreated
<1>6. SyncsInOrder'
  BY <1>0, <1>1, <1>3 DEF SyncsInOrder, ZQueueOK
<1>7. LengthsOK'
  BY <1>0, <1>1, <1>2, <1>3, LengthsGoOn
<1>8. Z!WritesInBounds'
  BY <1>3 DEF Z!WritesInBounds
<1>9. PassedTogether'
  <2>1. \A r \in Ranks : Passed(r)' = z_time[r] + 1
    BY <1>0, <1>2, PassedGoesOn
  <2>2. \A r \in Ranks : Passed(r) = z_time[r]
    <3>1. TimeVar \in Nat
      BY ZarrParameters
    <3> QED BY <1>2, <3>1 DEF Passed
  <2> QED BY <1>0, <2>1, <2>2 DEF PassedTogether
<1>10. DiskOK'
  <2>1. ASSUME NEW r \in Ranks, NEW w \in Z!Vars, NEW i \in Nat
        PROVE  HasWritten(r, w, i)' <=> HasWritten(r, w, i)
    <3>1. HasWritten(r, w, i)' <=> HasWritten(r, w, i) \/ (w = var[r] /\ i = Z!Index(r))
      BY <1>0, <1>2, <1>3, <2>1, WrittenGoesOn
    <3>2. w = var[r] /\ i = Z!Index(r) => HasWritten(r, w, i)
      <4>1. TimeVar \in 1..Fields /\ Fields \in Nat /\ ~ Z!IsConstant(TimeVar)
        BY ZarrParameters
      <4> QED BY <1>2, <4>1 DEF HasWritten, Z!Index
    <3> QED BY <3>1, <3>2
  <2> QED BY <1>0, <1>1, <2>1 DEF DiskOK, TimeVar, Z!IsTime, Z!Vars, Z!IsConstant
<1> QED BY <1>4, <1>5, <1>6, <1>7, <1>8, <1>9, <1>10 DEF ZInv

-----------------------------------------------------------------------------
LEMMA ZarrNext == ZarrInv /\ [Next]_vars => ZarrInv'
<1> SUFFICES ASSUME ZarrInv, [Next]_vars, format' = "zarr" PROVE ZInv'
  BY DEF ZarrInv
<1>1. CASE Zarr(Z!Next)
  <2>1. ZInv
    BY <1>1 DEF Zarr, ZarrInv
  <2>2. CASE Z!RootCreate
    BY <2>1, <2>2, RootCreateStep
  <2>3. CASE Z!RootExtend
    BY <2>1, <2>3, RootExtendStep
  <2>4. ASSUME NEW rank \in Ranks, Z!ClientSync(rank) PROVE ZInv'
    BY <2>1, <2>4, ClientSyncStep
  <2>5. ASSUME NEW rank \in Ranks, Z!Write(rank) PROVE ZInv'
    BY <2>1, <2>5, WriteStep
  <2>6. CASE Z!LeaveBarrier
    BY <2>1, <2>6, LeaveBarrierStep
  <2> QED BY <1>1, <2>2, <2>3, <2>4, <2>5, <2>6 DEF Zarr, Z!Next, Z!RankStep, Z!RootStep
<1>2. CASE NetCDF(N!Next)
  BY <1>2 DEF NetCDF
<1>3. CASE UNCHANGED vars
  <2>1. /\ ZInv
        /\ UNCHANGED <<z_pc, var, z_time, created, view, syncs, length, disk, arrived>>
    BY <1>3 DEF vars, zarr, ZarrInv
  <2>2. ZTypeOK' /\ PlacesOK' /\ ArraysCreated'
    BY <2>1 DEF ZInv, ZTypeOK, PlacesOK, PlaceOK, Place, ArraysCreated, CreatedOK, Earlier
  <2>3. SyncsInOrder'
    <3>1. \A r : Taken(r)' = Taken(r)
      BY <2>1 DEF Taken, TakenHere, Before, Needed
    <3> QED BY <2>1, <3>1 DEF ZInv, SyncsInOrder, ZQueueOK
  <2>4. LengthsOK'
    <3>1. \A w : Extended(w)' = Extended(w)
      BY <2>1 DEF Extended
    <3> QED BY <2>1, <3>1 DEF ZInv, LengthsOK
  <2>5. Z!WritesInBounds'
    BY <2>1 DEF ZInv, Z!WritesInBounds, Z!Index
  <2>6. PassedTogether' /\ DiskOK'
    BY <2>1, PlacesKept
  <2> QED BY <2>2, <2>3, <2>4, <2>5, <2>6 DEF ZInv
<1> QED BY <1>1, <1>2, <1>3 DEF Next

(***************************************************************************)
(* The messages, the arrays on disk and the places of the ranks agree      *)
(* throughout every run with the zarr monitor.                             *)
(***************************************************************************)
THEOREM ZarrInvariant == Spec => []ZarrInv
<1> QED BY ZarrInit, ZarrNext, PTL DEF Spec

(***************************************************************************)
(* A rank about to write finds the array long enough, on disk and in its   *)
(* own copy of the object, though the root does not wait for it.           *)
(***************************************************************************)
THEOREM NoWriteBeyondTheArray == Spec => []WritesInBounds
<1>1. ZarrInv => WritesInBounds
  BY DEF ZarrInv, ZInv, WritesInBounds
<1> QED BY <1>1, ZarrInvariant, PTL

(***************************************************************************)
(* A time whose barrier a rank has passed is complete in the variables     *)
(* before "time", and the time before it in the others, for every rank.    *)
(***************************************************************************)
THEOREM PassedTimesAreComplete == Spec => []TimesAreComplete
<1>1. ZarrInv => TimesAreComplete
  <2> DEFINE Until(r) == IF var[r] > TimeVar /\ z_time[r] < Stores THEN z_time[r] ELSE z_time[r] - 1
  <2> SUFFICES ASSUME ZInv, NEW r \in Ranks, NEW q \in Ranks, NEW v \in Z!Vars,
                      ~ Z!IsConstant(v), v # TimeVar,
                      NEW i \in 0..(IF v < TimeVar THEN Until(r) ELSE Until(r) - 1)
               PROVE  <<i, q>> \in disk[v]
    BY DEF ZarrInv, TimesAreComplete, Z!TimesAreComplete, TimeVar
  <2>1. /\ TimeVar \in 1..Fields /\ v \in 1..Fields /\ Fields \in Nat /\ Stores \in Nat
        /\ z_time[r] \in 0..Stores /\ z_time[q] \in 0..Stores
        /\ var[q] \in Nat /\ var[r] \in Nat
    <3>1. /\ z_time[r] \in 0..Stores /\ z_time[q] \in 0..Stores
          /\ var[q] \in 1..(Fields + Constants + 1) /\ var[r] \in 1..(Fields + Constants + 1)
      BY DEF ZInv, ZTypeOK
    <3>2. /\ TimeVar \in 1..Fields /\ Fields \in Nat /\ Constants \in Nat /\ Stores \in Nat
          /\ ~ (v > Fields) /\ v \in 1..(Fields + Constants)
      BY ZarrParameters
    <3> HIDE DEF Until
    <3> QED BY <3>1, <3>2
  <2>2. Until(r) = Passed(r) - 1 /\ Passed(r) \in Nat
    BY <2>1 DEF Passed
  <2>3. Passed(r) = Passed(q)
    BY DEF ZInv, PassedTogether
  <2>4. i \in Nat /\ (v < TimeVar => i <= Passed(q) - 1) /\ (~ (v < TimeVar) => i <= Passed(q) - 2)
    <3> HIDE DEF Until
    <3> QED BY <2>2, <2>3
  <2>5. Place(z_time[q], var[q])
    BY DEF ZInv, PlacesOK, PlaceOK
  <2>6. HasWritten(q, v, i)
    <3>1. CASE var[q] > TimeVar /\ z_time[q] < Stores
      <4>1. Passed(q) = z_time[q] + 1 /\ var[q] <= Fields
        BY <2>1, <2>5, <3>1 DEF Passed, Place
      <4> QED BY <2>1, <2>4, <3>1, <4>1 DEF HasWritten
    <3>2. CASE ~ (var[q] > TimeVar /\ z_time[q] < Stores)
      <4>1. Passed(q) = z_time[q]
        BY <3>2 DEF Passed
      <4> QED BY <2>1, <2>4, <4>1 DEF HasWritten
    <3> QED BY <3>1, <3>2
  <2> QED BY <2>4, <2>6 DEF ZInv, DiskOK
<1> QED BY <1>1, ZarrInvariant, PTL

(***************************************************************************)
(* When all ranks are done each array has every time, or the one index of  *)
(* a constant, of every rank, and is just as long.                         *)
(***************************************************************************)
THEOREM NothingIsMissing == Spec => []StoreIsComplete
<1>1. ZarrInv => StoreIsComplete
  <2> SUFFICES ASSUME ZInv, \A r \in Ranks : z_pc[r] = "done", NEW v \in Z!Vars
               PROVE  LET times == IF Z!IsConstant(v) THEN 1 ELSE Stores
                      IN  /\ length[v] = times
                          /\ disk[v] = (0..(times - 1)) \X (IF Z!IsTime(v) THEN {ZRoot} ELSE Ranks)
    BY DEF ZarrInv, StoreIsComplete, Z!StoreIsComplete, Z!Ended, ZRoot
  <2> DEFINE times == IF v > Fields THEN 1 ELSE Stores
             writers == IF v = TimeVar THEN {ZRoot} ELSE Ranks
  <2>1. /\ ZRoot \in Ranks /\ Fields \in Nat \ {0} /\ Constants \in Nat /\ Stores \in Nat \ {0}
        /\ v \in 1..(Fields + Constants) /\ Z!Vars = 1..(Fields + Constants)
        /\ Z!IsConstant(v) <=> v > Fields
        /\ Z!IsTime(v) <=> v = TimeVar
        /\ TimeVar \in 1..Fields
    BY ZarrParameters
  <2>2. ASSUME NEW r \in Ranks PROVE var[r] = Fields + Constants + 1 /\ z_time[r] = Stores
    <3>1. Place(z_time[r], var[r]) /\ var[r] \in 1..(Fields + Constants + 1) /\ var[r] \notin Z!Vars
      BY <2>2 DEF ZInv, ZTypeOK, PlacesOK, PlaceOK
    <3> QED BY <2>1, <3>1 DEF Place
  <2>3. length[v] = times
    <3>1. length[v] = Extended(v)
      BY DEF ZInv, LengthsOK
    <3>2. v \in created[ZRoot]
      <4>1. v < var[ZRoot]
        BY <2>1, <2>2
      <4> QED BY <2>1, <4>1 DEF ZInv, ArraysCreated, CreatedOK, Earlier
    <3>3. var[ZRoot] > Fields
      BY <2>1, <2>2
    <3> QED BY <3>1, <3>2, <3>3 DEF Extended
  <2>4. ASSUME NEW i \in Nat, NEW r \in Ranks
        PROVE  <<i, r>> \in disk[v] <=> i \in 0..(times - 1) /\ r \in writers
    <3>1. <<i, r>> \in disk[v] <=> (v = TimeVar => r = ZRoot) /\ HasWritten(r, v, i)
      BY <2>4 DEF ZInv, DiskOK
    <3>2. HasWritten(r, v, i) <=> i \in 0..(times - 1)
      BY <2>1, <2>2, <2>4 DEF HasWritten
    <3> QED BY <2>4, <3>1, <3>2
  <2>5. disk[v] \subseteq Nat \X Ranks
    BY DEF ZInv, ZTypeOK
  <2>6. times - 1 \in Nat /\ writers \subseteq Ranks
    BY <2>1
  <2>7. disk[v] = (0..(times - 1)) \X writers
    <3> HIDE DEF times, writers
    <3> QED BY <2>4, <2>5, <2>6
  <2> QED BY <2>1, <2>3, <2>7
<1> QED BY <1>1, ZarrInvariant, PTL
==============================================================================
