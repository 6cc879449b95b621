--------------------------- MODULE CachingCommProofs ---------------------------
(***************************************************************************)
(* What a recorded rank sees when it is replayed, for every program and    *)
(* every number of communicators.                                          *)
(*                                                                         *)
(* The argument counts calls.  The record of a communicator holds at       *)
(* position n what the n-th call that records returned; a reader that has  *)
(* replayed n calls that read is at position n.  For bcast, allreduce and  *)
(* Split these are the same calls.  A receive reads when it is made and    *)
(* records when it is completed; in an orderly program the n-th receive    *)
(* made is the n-th completed.                                             *)
(***************************************************************************)
EXTENDS MCCachingComm, FiniteSetTheorems, SequenceTheorems, TLAPS

-----------------------------------------------------------------------------
(* The inductive invariant.                                                *)

Calls == {"bcast", "allreduce", "Recv", "Gather", "Irecv", "wait", "Split"}

CallType == [call : Calls, comm : Nat, arg : Nat]

(* How many of a set of positions come no later than k. *)
CountUpto(S, k) == Cardinality({i \in S : i <= k})

CallsOn(t, c, calls) == {i \in 1..Len(t) : t[i].comm = c /\ t[i].call \in calls}

Splits(t) == {i \in 1..Len(t) : t[i].call = "Split"}

(* The calls that add to a list in the first run, and read it in the second. *)
Recorded(list) ==
  CASE list = "bcast"    -> {"bcast"}
    [] list = "generic"  -> {"allreduce"}
    [] list = "split"    -> {"Split"}
    [] list = "received" -> {"Recv", "wait", "Gather"}

Replayed(list) == IF list = "received" THEN {"Recv", "Irecv"} ELSE Recorded(list)

(* What a call that records adds to its list. *)
Entry(t, k) ==
  IF t[k].call \in {"wait", "Split"} THEN t[k].arg
  ELSE IF t[k].call = "Gather" THEN None ELSE k

WaitedFor(t, k) == \E w \in 1..Len(t) : t[w].call = "wait" /\ t[w].arg = k

TypeOK ==
  /\ phase \in {"write", "read"}
  /\ trace \in Seq(CallType)
  /\ comms \in Nat
  /\ data \in Seq([Lists -> Seq(Int)])

(* A communicator is used once it is there; a request is waited for once. *)
TraceOK ==
  /\ comms = CountUpto(Splits(trace), Len(trace)) + 1
  /\ \A k \in 1..Len(trace) :
       /\ trace[k].comm \in 1..(CountUpto(Splits(trace), k - 1) + 1)
       /\ trace[k].call = "Split" => trace[k].arg = CountUpto(Splits(trace), k) + 1
       /\ trace[k].call = "wait" => /\ trace[k].arg \in 1..(k - 1)
                                    /\ trace[trace[k].arg].call = "Irecv"
                                    /\ trace[trace[k].arg].comm = trace[k].comm
  /\ \A j, k \in 1..Len(trace) :
       trace[j].call = "wait" /\ trace[k].call = "wait" /\ trace[j].arg = trace[k].arg => j = k
  /\ pending = {k \in 1..Len(trace) : trace[k].call = "Irecv" /\ ~WaitedFor(trace, k)}

ListOK(t, entries, c, list) ==
  /\ Len(entries) = CountUpto(CallsOn(t, c, Recorded(list)), Len(t))
  /\ \A k \in CallsOn(t, c, Recorded(list)) :
       entries[CountUpto(CallsOn(t, c, Recorded(list)), k)] = Entry(t, k)

ListsOK ==
  /\ Len(data) = comms
  /\ \A c \in 1..comms, list \in Lists : ListOK(trace, data[c][list], c, list)

NotReadYet == done = 0 /\ reads = <<1>> /\ seen = << >>

Orderly == AllWaitedFor /\ CompletedInOrder /\ NoGatherOnClient

ReadInOrder ==
  /\ done \in 0..Len(trace)
  /\ seen \in Seq(Int) /\ Len(seen) = done
  /\ \A k \in 1..done : seen[k] = Received(k)
  /\ reads \in Seq(Nat) /\ Len(reads) = CountUpto(Splits(trace), done) + 1
  /\ \A c \in 1..Len(reads) : reads[c] = c
  /\ cursor \in [1..comms -> [Lists -> Nat]]
  /\ \A c \in 1..comms, list \in Lists :
       cursor[c][list] = CountUpto(CallsOn(trace, c, Replayed(list)), done)
  /\ \A k \in 1..done : trace[k].call = "Irecv" => k \in DOMAIN posted /\ posted[k] = k

CInv ==
  /\ TypeOK
  /\ TraceOK
  /\ ListsOK
  /\ phase = "write" => NotReadYet
  /\ phase = "read" /\ Orderly => ReadInOrder

-----------------------------------------------------------------------------
(* Counting.                                                               *)

LEMMA CountType ==
  ASSUME NEW n \in Nat, NEW S, \A i \in S : i \in 1..n, NEW k
  PROVE  CountUpto(S, k) \in Nat /\ IsFiniteSet({i \in S : i <= k})
<1>1. IsFiniteSet(1..n)
  BY FS_Interval
<1>2. IsFiniteSet({i \in S : i <= k})
  BY <1>1, FS_Subset
<1> QED BY <1>2, FS_CardinalityType DEF CountUpto

LEMMA CountStarts ==
  ASSUME NEW n \in Nat, NEW S, \A i \in S : i \in 1..n
  PROVE  CountUpto(S, 0) = 0
<1>0. \A i \in S : i \in Int /\ 1 <= i /\ i <= n
  OBVIOUS
<1>1. {i \in S : i <= 0} = {}
  BY <1>0
<1> QED BY <1>1, FS_EmptySet DEF CountUpto

(* A position adds one to the count when it is in the set. *)
LEMMA CountStep ==
  ASSUME NEW n \in Nat, NEW S, \A i \in S : i \in 1..n, NEW k \in Nat
  PROVE  CountUpto(S, k + 1) = CountUpto(S, k) + (IF k + 1 \in S THEN 1 ELSE 0)
<1> DEFINE A == {i \in S : i <= k}
           B == {i \in S : i <= k + 1}
<1>0. \A i \in S : i \in Int /\ 1 <= i /\ i <= n
  OBVIOUS
<1>1. IsFiniteSet(A) /\ Cardinality(A) \in Nat
  BY CountType DEF CountUpto
<1>4. k + 1 \notin A
  OBVIOUS
<1>2. CASE k + 1 \in S
  <2>1. B = A \cup {k + 1}
    BY <1>0, <1>2
  <2> HIDE DEF A, B
  <2>2. Cardinality(B) = Cardinality(A) + 1
    BY <1>1, <1>4, <2>1, FS_AddElement
  <2> QED BY <1>2, <2>2 DEF CountUpto, A, B
<1>3. CASE k + 1 \notin S
  <2>1. B = A
    BY <1>0, <1>3
  <2> QED BY <1>1, <1>3, <2>1 DEF CountUpto
<1> QED BY <1>2, <1>3

LEMMA CountGrows ==
  ASSUME NEW n \in Nat, NEW S, \A i \in S : i \in 1..n, NEW j \in Nat, NEW k \in Nat, j <= k
  PROVE  CountUpto(S, j) <= CountUpto(S, k)
<1>0. \A i \in S : i \in Int /\ 1 <= i /\ i <= n
  OBVIOUS
<1>1. {i \in S : i <= j} \subseteq {i \in S : i <= k}
  BY <1>0
<1>2. IsFiniteSet({i \in S : i <= k})
  BY CountType
<1> QED BY <1>1, <1>2, FS_Subset DEF CountUpto

(* Positions are counted from one on. *)
LEMMA CountInRange ==
  ASSUME NEW n \in Nat, NEW S, \A i \in S : i \in 1..n, NEW k \in S
  PROVE  CountUpto(S, k) \in 1..CountUpto(S, n)
<1>0. \A i \in S : i \in Int /\ 1 <= i /\ i <= n
  OBVIOUS
<1> DEFINE j == k - 1
<1>1. k \in Nat /\ j \in Nat /\ k <= n /\ j + 1 = k
  BY <1>0
<1> HIDE DEF j
<1>2. CountUpto(S, k) = CountUpto(S, j) + 1
  BY <1>1, CountStep
<1>3. CountUpto(S, j) \in Nat /\ CountUpto(S, n) \in Nat
  BY CountType
<1>4. CountUpto(S, k) <= CountUpto(S, n)
  BY <1>1, CountGrows
<1> QED BY <1>2, <1>3, <1>4

(* A later position changes no count. *)
LEMMA CountExtend ==
  ASSUME NEW n \in Nat, NEW S, \A i \in S : i \in 1..n, NEW k \in 0..n
  PROVE  CountUpto(S \cup {n + 1}, k) = CountUpto(S, k)
<1>1. {i \in S \cup {n + 1} : i <= k} = {i \in S : i <= k}
  OBVIOUS
<1> QED BY <1>1 DEF CountUpto

(* Positions of calls are positions. *)
LEMMA Positional ==
  ASSUME NEW t
  PROVE  /\ \A c, calls : \A i \in CallsOn(t, c, calls) : i \in 1..Len(t)
         /\ \A i \in Splits(t) : i \in 1..Len(t)
  BY DEF CallsOn, Splits

(* One call more. *)
LEMMA AppendedCalls ==
  ASSUME NEW t \in Seq(CallType), NEW e \in CallType
  PROVE  /\ Append(t, e) \in Seq(CallType)
         /\ Len(t) \in Nat /\ Len(Append(t, e)) = Len(t) + 1
         /\ \A k \in 1..Len(t) : Append(t, e)[k] = t[k]
         /\ Append(t, e)[Len(t) + 1] = e
         /\ \A c, calls :
              CallsOn(Append(t, e), c, calls) =
                IF e.comm = c /\ e.call \in calls
                THEN CallsOn(t, c, calls) \cup {Len(t) + 1} ELSE CallsOn(t, c, calls)
         /\ Splits(Append(t, e)) =
              IF e.call = "Split" THEN Splits(t) \cup {Len(t) + 1} ELSE Splits(t)
<1> DEFINE u == Append(t, e)
           n == Len(t)
<1>1. /\ u \in Seq(CallType) /\ n \in Nat /\ Len(u) = n + 1
      /\ \A k \in 1..n : u[k] = t[k]
      /\ u[n + 1] = e
  BY AppendProperties
<1>2. 1..(n + 1) = (1..n) \cup {n + 1} /\ n + 1 \notin 1..n
  BY <1>1
<1> HIDE DEF u, n
<1>3. \A c, calls :
        CallsOn(u, c, calls) = IF e.comm = c /\ e.call \in calls
                               THEN CallsOn(t, c, calls) \cup {n + 1} ELSE CallsOn(t, c, calls)
  BY <1>1, <1>2 DEF CallsOn, n
<1>4. Splits(u) = IF e.call = "Split" THEN Splits(t) \cup {n + 1} ELSE Splits(t)
  BY <1>1, <1>2 DEF Splits, n
<1> QED BY <1>1, <1>3, <1>4 DEF u, n

(* A list stays in order when the call that records is made with the entry *)
(* appended to the list of its communicator, and no other is.              *)
LEMMA ListStep ==
  ASSUME NEW t \in Seq(CallType), NEW e \in CallType, NEW entries \in Seq(Int), NEW c, NEW list,
         ListOK(t, entries, c, list), NEW new, NEW value \in Int,
         e.comm = c /\ e.call \in Recorded(list) =>
           /\ new = Append(entries, value)
           /\ value = Entry(Append(t, e), Len(t) + 1),
         ~(e.comm = c /\ e.call \in Recorded(list)) => new = entries
  PROVE  ListOK(Append(t, e), new, c, list) /\ new \in Seq(Int)
<1> DEFINE u == Append(t, e)
           n == Len(t)
           S == CallsOn(t, c, Recorded(list))
           T == CallsOn(u, c, Recorded(list))
<1>1. /\ n \in Nat /\ Len(u) = n + 1
      /\ \A k \in 1..n : u[k] = t[k]
      /\ T = IF e.comm = c /\ e.call \in Recorded(list) THEN S \cup {n + 1} ELSE S
      /\ \A i \in S : i \in 1..n
      /\ n + 1 \notin S
  BY AppendedCalls, Positional
<1>2. /\ Len(entries) = CountUpto(S, n)
      /\ \A k \in S : entries[CountUpto(S, k)] = Entry(t, k)
      /\ \A k \in S : CountUpto(S, k) \in 1..CountUpto(S, n)
      /\ CountUpto(S, n) \in Nat
      /\ CountUpto(S, n + 1) = CountUpto(S, n) + (IF n + 1 \in S THEN 1 ELSE 0)
  BY <1>1, CountInRange, CountType, CountStep DEF ListOK
<1>3. \A k \in S : Entry(u, k) = Entry(t, k)
  BY <1>1 DEF Entry
<1>4. ListOK(u, new, c, list) <=>
        /\ Len(new) = CountUpto(T, n + 1)
        /\ \A k \in T : new[CountUpto(T, k)] = Entry(u, k)
  BY <1>1 DEF ListOK
<1> HIDE DEF u, n, S, T
<1>5. CASE e.comm = c /\ e.call \in Recorded(list)
  <2>1. /\ T = S \cup {n + 1} /\ new = Append(entries, value) /\ value = Entry(u, n + 1)
    BY <1>1, <1>5 DEF u, n
  <2>2. /\ new \in Seq(Int) /\ Len(new) = Len(entries) + 1
        /\ \A k \in 1..Len(entries) : new[k] = entries[k]
        /\ new[Len(entries) + 1] = value
    BY <2>1, AppendProperties
  <2>3. \A k \in S : CountUpto(T, k) = CountUpto(S, k)
    <3>1. \A k \in 0..n : CountUpto(S \cup {n + 1}, k) = CountUpto(S, k)
      BY <1>1, CountExtend
    <3>2. \A k \in S : k \in 0..n
      BY <1>1
    <3> QED BY <2>1, <3>1, <3>2
  <2>4. CountUpto(T, n + 1) = CountUpto(S, n) + 1
    <3>1. CountUpto(T, n) = CountUpto(S, n)
      BY <1>1, <2>1, CountExtend
    <3>2. n + 1 \in Nat /\ \A i \in T : i \in 1..(n + 1)
      BY <1>1, <2>1
    <3>3. CountUpto(T, n + 1) = CountUpto(T, n) + (IF n + 1 \in T THEN 1 ELSE 0)
      BY <1>1, <3>2, CountStep
    <3> QED BY <2>1, <3>1, <3>3
  <2>5. ASSUME NEW k \in T PROVE new[CountUpto(T, k)] = Entry(u, k)
    <3>1. CASE k \in S
      BY <1>2, <1>3, <2>2, <2>3, <3>1
    <3>2. CASE k = n + 1
      BY <1>2, <2>1, <2>2, <2>4, <3>2
    <3> QED BY <2>1, <3>1, <3>2
  <2> QED BY <1>2, <1>4, <2>2, <2>4, <2>5 DEF u
<1>6. CASE ~(e.comm = c /\ e.call \in Recorded(list))
  BY <1>1, <1>2, <1>3, <1>4, <1>6 DEF u
<1> QED BY <1>5, <1>6

-----------------------------------------------------------------------------
(* The first run.                                                          *)

(* A legal call keeps what is said of the calls made. *)
LEMMA TraceStep ==
  ASSUME TypeOK, TraceOK, NEW e \in CallType, trace' = Append(trace, e), e.comm \in 1..comms,
         e.call = "Split" => e.arg = comms + 1,
         e.call = "wait" => e.arg \in pending /\ trace[e.arg].comm = e.comm,
         comms' = IF e.call = "Split" THEN comms + 1 ELSE comms,
         pending' = IF e.call = "Irecv" THEN pending \cup {Len(trace) + 1}
                    ELSE IF e.call = "wait" THEN pending \ {e.arg} ELSE pending
  PROVE  TraceOK'
<1> DEFINE n == Len(trace)
           S == Splits(trace)
           T == Splits(trace')
<1>0. trace \in Seq(CallType) /\ comms \in Nat
  BY DEF TypeOK
<1>1. /\ n \in Nat /\ Len(trace') = n + 1
      /\ \A k \in 1..n : trace'[k] = trace[k]
      /\ trace'[n + 1] = e
      /\ T = IF e.call = "Split" THEN S \cup {n + 1} ELSE S
      /\ \A i \in S : i \in 1..n
      /\ n + 1 \notin S
  BY <1>0, AppendedCalls, Positional
<1>2. /\ comms = CountUpto(S, n) + 1
      /\ \A k \in 1..n :
           /\ trace[k].comm \in 1..(CountUpto(S, k - 1) + 1)
           /\ trace[k].call = "Split" => trace[k].arg = CountUpto(S, k) + 1
           /\ trace[k].call = "wait" => /\ trace[k].arg \in 1..(k - 1)
                                        /\ trace[trace[k].arg].call = "Irecv"
                                        /\ trace[trace[k].arg].comm = trace[k].comm
      /\ \A j, k \in 1..n :
           trace[j].call = "wait" /\ trace[k].call = "wait" /\ trace[j].arg = trace[k].arg
           => j = k
      /\ pending = {k \in 1..n : trace[k].call = "Irecv" /\ ~WaitedFor(trace, k)}
  BY DEF TraceOK
<1> HIDE DEF n, S, T
<1>3. \A k \in 0..n : CountUpto(T, k) = CountUpto(S, k)
  BY <1>1, CountExtend
<1>4. CountUpto(T, n + 1) = CountUpto(S, n) + (IF e.call = "Split" THEN 1 ELSE 0)
  <2>1. n + 1 \in Nat /\ \A i \in T : i \in 1..(n + 1)
    BY <1>1
  <2>2. CountUpto(T, n + 1) = CountUpto(T, n) + (IF n + 1 \in T THEN 1 ELSE 0)
    BY <1>1, <2>1, CountStep
  <2>3. CountUpto(T, n) = CountUpto(S, n)
    <3>1. n \in 0..n
      BY <1>1
    <3> QED BY <1>3, <3>1
  <2> QED BY <1>1, <2>2, <2>3
<1>5. \A k : WaitedFor(trace', k) <=> WaitedFor(trace, k) \/ (e.call = "wait" /\ e.arg = k)
  <2>1. 1..(n + 1) = (1..n) \cup {n + 1}
    BY <1>1
  <2> QED BY <1>1, <2>1 DEF WaitedFor, n
<1>6. comms' = CountUpto(T, n + 1) + 1
  <2>1. CountUpto(S, n) \in Nat
    BY <1>1, CountType
  <2> QED BY <1>2, <1>4, <2>1
<1>7. e.call = "wait" => /\ e.arg \in 1..n /\ trace[e.arg].call = "Irecv"
                         /\ ~WaitedFor(trace, e.arg)
  BY <1>2
<1>8. ASSUME NEW k \in 1..(n + 1)
      PROVE  /\ trace'[k].comm \in 1..(CountUpto(T, k - 1) + 1)
             /\ trace'[k].call = "Split" => trace'[k].arg = CountUpto(T, k) + 1
             /\ trace'[k].call = "wait" => /\ trace'[k].arg \in 1..(k - 1)
                                           /\ trace'[trace'[k].arg].call = "Irecv"
                                           /\ trace'[trace'[k].arg].comm = trace'[k].comm
  <2>1. CASE k \in 1..n
    <3>1. k - 1 \in 0..n /\ k \in 0..n /\ trace'[k] = trace[k]
      BY <1>1, <2>1
    <3>2. trace[k].call = "wait" => trace[k].arg \in 1..n
      BY <1>1, <1>2, <2>1
    <3>3. CountUpto(T, k - 1) = CountUpto(S, k - 1) /\ CountUpto(T, k) = CountUpto(S, k)
      BY <1>3, <3>1
    <3>4. trace[k].call = "wait" => trace'[trace[k].arg] = trace[trace[k].arg]
      BY <1>1, <3>2
    <3> QED BY <1>2, <2>1, <3>1, <3>3, <3>4, ZenonT(40)
  <2>2. CASE k = n + 1
    <3>1. k - 1 = n /\ n \in 0..n /\ trace'[k] = e
      BY <1>1, <2>2
    <3>2. CountUpto(T, k - 1) + 1 = comms
      BY <1>2, <1>3, <3>1
    <3>3. e.call = "Split" => e.arg = CountUpto(T, k) + 1
      BY <1>2, <1>4, <2>2, <1>0, <1>6
    <3>4. e.call = "wait" => trace'[e.arg] = trace[e.arg]
      BY <1>1, <1>7
    <3> QED BY <1>7, <3>1, <3>2, <3>3, <3>4
  <2> QED BY <1>1, <2>1, <2>2
<1>9. ASSUME NEW j \in 1..(n + 1), NEW k \in 1..(n + 1),
             trace'[j].call = "wait", trace'[k].call = "wait", trace'[j].arg = trace'[k].arg
      PROVE  j = k
  <2>1. \A i \in 1..(n + 1) : i \in 1..n \/ i = n + 1
    BY <1>1
  <2>2. ASSUME NEW i \in 1..n, trace[i].call = "wait", e.call = "wait", trace[i].arg = e.arg
        PROVE  FALSE
    BY <1>7, <2>2 DEF WaitedFor, n
  <2>3. CASE j \in 1..n /\ k \in 1..n
    BY <1>1, <1>2, <1>9, <2>3
  <2>4. CASE j \in 1..n /\ k = n + 1
    BY <1>1, <1>9, <2>2, <2>4
  <2>5. CASE j = n + 1 /\ k \in 1..n
    BY <1>1, <1>9, <2>2, <2>5
  <2> QED BY <2>1, <2>3, <2>4, <2>5
<1>10. pending' = {k \in 1..(n + 1) : trace'[k].call = "Irecv" /\ ~WaitedFor(trace', k)}
  <2>1. ~WaitedFor(trace', n + 1)
    <3>1. ~WaitedFor(trace, n + 1)
      <4>1. ASSUME NEW w \in 1..n, trace[w].call = "wait", trace[w].arg = n + 1 PROVE FALSE
        BY <1>1, <1>2, <4>1
      <4> QED BY <4>1 DEF WaitedFor, n
    <3>2. e.call = "wait" => e.arg # n + 1
      BY <1>1, <1>7
    <3> QED BY <1>5, <3>1, <3>2
  <2>2. 1..(n + 1) = (1..n) \cup {n + 1} /\ n + 1 \notin 1..n
    BY <1>1
  <2>3. pending' = IF e.call = "Irecv" THEN pending \cup {n + 1}
                   ELSE IF e.call = "wait" THEN pending \ {e.arg} ELSE pending
    BY DEF n
  <2>4. \A k : k \in pending <=> k \in 1..n /\ trace[k].call = "Irecv" /\ ~WaitedFor(trace, k)
    BY <1>2
  <2>5. \A k : k \in pending' <=> /\ k \in 1..(n + 1) /\ trace'[k].call = "Irecv"
                                 /\ ~WaitedFor(trace', k)
    <3>1. ASSUME NEW k, k \in 1..n
          PROVE  k \in pending' <=> trace'[k].call = "Irecv" /\ ~WaitedFor(trace', k)
      <4>1. trace'[k] = trace[k] /\ k # n + 1
        BY <1>1, <2>2, <3>1
      <4> QED BY <1>5, <2>3, <2>4, <3>1, <4>1
    <3>2. n + 1 \in pending' <=> trace'[n + 1].call = "Irecv" /\ ~WaitedFor(trace', n + 1)
      BY <1>1, <2>1, <2>2, <2>3, <2>4
    <3>3. ASSUME NEW k, k \notin 1..n, k # n + 1 PROVE k \notin pending'
      BY <2>3, <2>4, <3>3
    <3> QED BY <2>2, <3>1, <3>2, <3>3
  <2> QED BY <2>5
<1>11. Splits(trace') = T /\ Len(trace') = n + 1
  BY <1>1 DEF T
<1> QED BY <1>6, <1>8, <1>9, <1>10, <1>11, SMTT(30) DEF TraceOK

(* A record changes one list of one communicator. *)
LEMMA RecordEffect ==
  ASSUME TypeOK, NEW comm \in 1..Len(data), NEW list \in Lists, NEW value \in Int,
         Record(comm, list, value)
  PROVE  /\ data' \in Seq([Lists -> Seq(Int)]) /\ Len(data') = Len(data)
         /\ \A c \in 1..Len(data), l \in Lists :
              /\ c = comm /\ l = list => data'[c][l] = Append(data[c][l], value)
              /\ ~(c = comm /\ l = list) => data'[c][l] = data[c][l]
<1> DEFINE D == [Lists -> Seq(Int)]
           new == [data[comm] EXCEPT ![list] = Append(@, value)]
<1>1. data \in Seq(D) /\ Len(data) \in Nat
  BY DEF TypeOK
<1>2. data[comm] \in D /\ Append(data[comm][list], value) \in Seq(Int)
  BY <1>1
<1>3. new \in D
  BY <1>2
<1>4. data' = [data EXCEPT ![comm] = new]
  BY DEF Record
<1>5. \A l \in Lists : new[l] = IF l = list THEN Append(data[comm][l], value) ELSE data[comm][l]
  BY <1>2
<1> HIDE DEF new, D
<1>6. data' \in Seq(D) /\ Len(data') = Len(data)
  BY <1>1, <1>3, <1>4, ExceptSeq
<1>7. \A c \in 1..Len(data) : data'[c] = IF c = comm THEN new ELSE data[c]
  BY <1>1, <1>4
<1> QED BY <1>5, <1>6, <1>7 DEF D

(* A call that records adds what it returns to its list. *)
LEMMA ListsRecord ==
  ASSUME TypeOK, ListsOK, NEW e \in CallType, trace' = Append(trace, e), e.comm \in 1..comms,
         comms' = comms, NEW list \in Lists, NEW value \in Int, Record(e.comm, list, value),
         \A l \in Lists : e.call \in Recorded(l) <=> l = list,
         value = Entry(Append(trace, e), Len(trace) + 1)
  PROVE  ListsOK' /\ data' \in Seq([Lists -> Seq(Int)])
<1>1. trace \in Seq(CallType) /\ data \in Seq([Lists -> Seq(Int)]) /\ Len(data) = comms
  BY DEF TypeOK, ListsOK
<1>2. /\ data' \in Seq([Lists -> Seq(Int)]) /\ Len(data') = comms
      /\ \A c \in 1..comms, l \in Lists :
           /\ c = e.comm /\ l = list => data'[c][l] = Append(data[c][l], value)
           /\ ~(c = e.comm /\ l = list) => data'[c][l] = data[c][l]
  <2>1. e.comm \in 1..Len(data)
    BY <1>1
  <2> QED BY <1>1, <2>1, RecordEffect, ZenonT(40)
<1>3. ASSUME NEW c \in 1..comms, NEW l \in Lists PROVE ListOK(trace', data'[c][l], c, l)
  <2>1. data[c][l] \in Seq(Int) /\ ListOK(trace, data[c][l], c, l)
    BY <1>1 DEF ListsOK
  <2>2. /\ e.comm = c /\ e.call \in Recorded(l) => data'[c][l] = Append(data[c][l], value)
        /\ ~(e.comm = c /\ e.call \in Recorded(l)) => data'[c][l] = data[c][l]
    BY <1>2
  <2> QED BY <1>1, <2>1, <2>2, ListStep
<1> QED BY <1>2, <1>3 DEF ListsOK

(* Other calls leave the lists alone. *)
LEMMA ListsKept ==
  ASSUME TypeOK, ListsOK, NEW e \in CallType, trace' = Append(trace, e),
         comms' = comms, data' = data, \A l \in Lists : e.call \notin Recorded(l)
  PROVE  ListsOK'
<1>1. trace \in Seq(CallType) /\ data \in Seq([Lists -> Seq(Int)]) /\ Len(data) = comms
  BY DEF TypeOK, ListsOK
<1>2. ASSUME NEW c \in 1..comms, NEW l \in Lists PROVE ListOK(trace', data[c][l], c, l)
  <2>1. data[c][l] \in Seq(Int) /\ ListOK(trace, data[c][l], c, l)
    BY <1>1 DEF ListsOK
  <2>2. 0 \in Int /\ ~(e.comm = c /\ e.call \in Recorded(l))
    OBVIOUS
  <2> QED BY <1>1, <2>1, <2>2, ListStep
<1> QED BY <1>1, <1>2 DEF ListsOK

(* The lists of a communicator that is split off are empty. *)
LEMMA ListsSplit ==
  ASSUME TypeOK, TraceOK, ListsOK, NEW e \in CallType, trace' = Append(trace, e),
         e.comm \in 1..comms, e.call = "Split", e.arg = comms + 1, comms' = comms + 1,
         data' = Append([data EXCEPT ![e.comm]["split"] = Append(@, comms + 1)], EmptyData)
  PROVE  ListsOK' /\ data' \in Seq([Lists -> Seq(Int)])
<1> DEFINE mid == [data EXCEPT ![e.comm]["split"] = Append(@, comms + 1)]
           D == [Lists -> Seq(Int)]
           n == Len(trace)
<1>1. /\ trace \in Seq(CallType) /\ data \in Seq(D) /\ Len(data) = comms
      /\ comms \in Nat /\ "split" \in Lists /\ comms + 1 \in Int
  BY DEF TypeOK, ListsOK, Lists
<1>2. /\ mid \in Seq(D) /\ Len(mid) = comms
      /\ \A c \in 1..comms, l \in Lists :
           /\ c = e.comm /\ l = "split" => mid[c][l] = Append(data[c][l], comms + 1)
           /\ ~(c = e.comm /\ l = "split") => mid[c][l] = data[c][l]
  <2> DEFINE new == [data[e.comm] EXCEPT !["split"] = Append(@, comms + 1)]
  <2>1. data[e.comm] \in D /\ Append(data[e.comm]["split"], comms + 1) \in Seq(Int)
    <3>1. \A c \in 1..comms : data[c] \in D
      BY <1>1
    <3>2. \A d \in D : d["split"] \in Seq(Int)
      BY <1>1
    <3> HIDE DEF D
    <3>3. data[e.comm] \in D /\ data[e.comm]["split"] \in Seq(Int)
      BY <3>1, <3>2
    <3> QED BY <1>1, <3>3, AppendProperties
  <2>2. /\ new \in D
        /\ \A l \in Lists : new[l] = IF l = "split" THEN Append(data[e.comm][l], comms + 1)
                                     ELSE data[e.comm][l]
    BY <1>1, <2>1
  <2>3. mid = [data EXCEPT ![e.comm] = new]
    OBVIOUS
  <2> HIDE DEF new, D, mid
  <2>4. mid \in Seq(D) /\ Len(mid) = comms
    BY <1>1, <2>2, <2>3, ExceptSeq
  <2>5. \A c \in 1..comms : mid[c] = IF c = e.comm THEN new ELSE data[c]
    BY <1>1, <2>3
  <2> QED BY <2>2, <2>4, <2>5
<1>3. EmptyData \in D /\ \A l \in Lists : EmptyData[l] = << >>
  BY DEF EmptyData
<1>4. data' = Append(mid, EmptyData)
  OBVIOUS
<1> HIDE DEF mid, D
<1>5. /\ data' \in Seq(D) /\ Len(data') = comms + 1
      /\ \A c \in 1..comms : data'[c] = mid[c]
      /\ data'[comms + 1] = EmptyData
  <2>1. mid \in Seq(D) /\ EmptyData \in D /\ Len(mid) = comms
    BY <1>2, <1>3
  <2>2. /\ Append(mid, EmptyData) \in Seq(D)
        /\ Len(Append(mid, EmptyData)) = Len(mid) + 1
        /\ \A c \in 1..Len(mid) : Append(mid, EmptyData)[c] = mid[c]
        /\ Append(mid, EmptyData)[Len(mid) + 1] = EmptyData
    BY <2>1, AppendProperties
  <2> QED BY <1>4, <2>1, <2>2
<1>6. /\ n \in Nat /\ Len(trace') = n + 1
      /\ \A k \in 1..n : trace'[k] = trace[k]
      /\ trace'[n + 1] = e
  BY <1>1, AppendedCalls
<1>7. ASSUME NEW c \in 1..comms, NEW l \in Lists PROVE ListOK(trace', data'[c][l], c, l)
  <2>1. data[c][l] \in Seq(Int) /\ ListOK(trace, data[c][l], c, l)
    BY <1>1 DEF ListsOK, D
  <2>2. e.call \in Recorded(l) <=> l = "split"
    BY DEF Recorded, Lists
  <2>3. /\ e.comm = c /\ e.call \in Recorded(l) => data'[c][l] = Append(data[c][l], comms + 1)
        /\ ~(e.comm = c /\ e.call \in Recorded(l)) => data'[c][l] = data[c][l]
    BY <1>2, <1>5, <2>2, ZenonT(40)
  <2>4. comms + 1 = Entry(trace', n + 1)
    BY <1>6 DEF Entry
  <2> QED BY <1>1, <2>1, <2>3, <2>4, ListStep
<1>8. ASSUME NEW l \in Lists PROVE ListOK(trace', data'[comms + 1][l], comms + 1, l)
  <2>1. \A k \in 1..n : trace[k].comm \in 1..comms
    <3>1. ASSUME NEW k \in 1..n PROVE trace[k].comm \in 1..comms
      <4> DEFINE j == k - 1
                 S == Splits(trace)
      <4>1. /\ trace[k].comm \in 1..(CountUpto(S, j) + 1) /\ comms = CountUpto(S, n) + 1
            /\ j \in Nat /\ j <= n /\ n \in Nat
        BY <1>6 DEF TraceOK
      <4> HIDE DEF j, S
      <4>2. CountUpto(S, j) <= CountUpto(S, n) /\ CountUpto(S, j) \in Nat /\ CountUpto(S, n) \in Nat
        BY <4>1, Positional, CountGrows, CountType DEF S
      <4> QED BY <4>1, <4>2
    <3> QED BY <3>1
  <2>2. CallsOn(trace', comms + 1, Recorded(l)) = {}
    <3>1. \A k \in 1..(n + 1) : k \in 1..n \/ k = n + 1
      BY <1>6
    <3>2. \A k \in 1..(n + 1) : trace'[k].comm \in 1..comms
      BY <1>6, <2>1, <3>1
    <3>3. \A k \in 1..(n + 1) : trace'[k].comm # comms + 1
      BY <1>1, <3>2
    <3> QED BY <1>6, <3>3 DEF CallsOn
  <2>3. CountUpto({}, Len(trace')) = 0
    <3>1. {i \in {} : i <= Len(trace')} = {}
      OBVIOUS
    <3>2. Cardinality({}) = 0
      BY FS_EmptySet
    <3> QED BY <3>1, <3>2 DEF CountUpto
  <2>4. data'[comms + 1][l] = << >>
    BY <1>3, <1>5
  <2>5. Len(data'[comms + 1][l]) = 0
    BY <2>4
  <2> QED BY <2>2, <2>3, <2>5 DEF ListOK
<1>9. \A c \in 1..(comms + 1) : c \in 1..comms \/ c = comms + 1
  BY <1>1
<1> QED BY <1>5, <1>7, <1>8, <1>9 DEF ListsOK, D

(* What a call of the first run leaves to be shown. *)
LEMMA Written ==
  ASSUME CInv, phase = "write", phase' = "write", NEW e \in CallType, trace' = Append(trace, e),
         comms' \in Nat, data' \in Seq([Lists -> Seq(Int)]), TraceOK', ListsOK', UNCHANGED Reader
  PROVE  CInv'
<1>1. trace' \in Seq(CallType)
  BY AppendedCalls DEF CInv, TypeOK
<1>2. TypeOK'
  BY <1>1 DEF TypeOK
<1>3. NotReadYet'
  BY DEF CInv, NotReadYet, Reader
<1> QED BY <1>2, <1>3 DEF CInv

LEMMA WrittenAndRecorded ==
  ASSUME CInv, phase = "write", phase' = "write", NEW e \in CallType, trace' = Append(trace, e),
         e.comm \in 1..comms, e.call # "Split", e.call # "Irecv",
         e.call = "wait" => e.arg \in pending /\ trace[e.arg].comm = e.comm,
         pending' = IF e.call = "wait" THEN pending \ {e.arg} ELSE pending,
         NEW list \in Lists, NEW value \in Int, Record(e.comm, list, value),
         \A l \in Lists : e.call \in Recorded(l) <=> l = list,
         value = Entry(Append(trace, e), Len(trace) + 1),
         comms' = comms, UNCHANGED Reader
  PROVE  CInv'
<1>1. TypeOK /\ TraceOK /\ ListsOK /\ comms' \in Nat
  BY DEF CInv, TypeOK
<1>2. ListsOK' /\ data' \in Seq([Lists -> Seq(Int)])
  BY <1>1, ListsRecord
<1>3. TraceOK'
  BY <1>1, TraceStep
<1> QED BY <1>1, <1>2, <1>3, Written

LEMMA CallsAreTyped ==
  ASSUME NEW call \in Calls, NEW comm \in Nat, NEW arg \in Nat
  PROVE  /\ Call(call, comm, arg) \in CallType
         /\ Call(call, comm, arg).call = call
         /\ Call(call, comm, arg).comm = comm
         /\ Call(call, comm, arg).arg = arg
  BY DEF Call, CallType

(* The last entry of a trace. *)
LEMMA EntryOfLast ==
  ASSUME TypeOK, NEW e \in CallType
  PROVE  Entry(Append(trace, e), Len(trace) + 1) =
           IF e.call \in {"wait", "Split"} THEN e.arg
           ELSE IF e.call = "Gather" THEN None ELSE Position
<1>1. Append(trace, e)[Len(trace) + 1] = e
  BY AppendedCalls DEF TypeOK
<1> QED BY <1>1 DEF Entry, Position

LEMMA WriteKeepsInvariant ==
  ASSUME CInv, NEW comm \in 1..comms, Write(comm)
  PROVE  CInv'
<1>1. /\ TypeOK /\ TraceOK /\ ListsOK /\ comm \in Nat /\ 0 \in Nat /\ comms \in Nat
      /\ trace \in Seq(CallType) /\ Position \in Nat /\ Position \in Int
      /\ data \in Seq([Lists -> Seq(Int)])
  BY DEF CInv, TypeOK, Position
<1>2. Lists = {"bcast", "received", "generic", "split"}
  BY DEF Lists
<1>3. CASE WriteBcast(comm)
  <2> DEFINE e == Call("bcast", comm, 0)
  <2>1. e \in CallType /\ e.call = "bcast" /\ e.comm = comm
    BY <1>1, CallsAreTyped DEF Calls
  <2>2. /\ phase = "write" /\ phase' = "write" /\ trace' = Append(trace, e)
        /\ Record(e.comm, "bcast", Position) /\ comms' = comms /\ pending' = pending
        /\ UNCHANGED Reader
    BY <1>3, <2>1 DEF WriteBcast, CanWrite, Made
  <2> HIDE DEF e
  <2>3. /\ \A l \in Lists : e.call \in Recorded(l) <=> l = "bcast"
        /\ Position = Entry(Append(trace, e), Len(trace) + 1) /\ "bcast" \in Lists
    BY <1>1, <1>2, <2>1, EntryOfLast DEF Recorded
  <2> QED BY <1>1, <2>1, <2>2, <2>3, WrittenAndRecorded
<1>4. CASE WriteAllreduce(comm)
  <2> DEFINE e == Call("allreduce", comm, 0)
  <2>1. e \in CallType /\ e.call = "allreduce" /\ e.comm = comm
    BY <1>1, CallsAreTyped DEF Calls
  <2>2. /\ phase = "write" /\ phase' = "write" /\ trace' = Append(trace, e)
        /\ Record(e.comm, "generic", Position) /\ comms' = comms /\ pending' = pending
        /\ UNCHANGED Reader
    BY <1>4, <2>1 DEF WriteAllreduce, CanWrite, Made
  <2> HIDE DEF e
  <2>3. /\ \A l \in Lists : e.call \in Recorded(l) <=> l = "generic"
        /\ Position = Entry(Append(trace, e), Len(trace) + 1) /\ "generic" \in Lists
    BY <1>1, <1>2, <2>1, EntryOfLast DEF Recorded
  <2> QED BY <1>1, <2>1, <2>2, <2>3, WrittenAndRecorded
<1>5. CASE WriteRecv(comm)
  <2> DEFINE e == Call("Recv", comm, 0)
  <2>1. e \in CallType /\ e.call = "Recv" /\ e.comm = comm
    BY <1>1, CallsAreTyped DEF Calls
  <2>2. /\ phase = "write" /\ phase' = "write" /\ trace' = Append(trace, e)
        /\ Record(e.comm, "received", Position) /\ comms' = comms /\ pending' = pending
        /\ UNCHANGED Reader
    BY <1>5, <2>1 DEF WriteRecv, CanWrite, Made
  <2> HIDE DEF e
  <2>3. /\ \A l \in Lists : e.call \in Recorded(l) <=> l = "received"
        /\ Position = Entry(Append(trace, e), Len(trace) + 1) /\ "received" \in Lists
    BY <1>1, <1>2, <2>1, EntryOfLast DEF Recorded
  <2> QED BY <1>1, <2>1, <2>2, <2>3, WrittenAndRecorded
<1>6. CASE WriteGatherClient(comm)
  <2> DEFINE e == Call("Gather", comm, 0)
  <2>1. e \in CallType /\ e.call = "Gather" /\ e.comm = comm
    BY <1>1, CallsAreTyped DEF Calls
  <2>2. /\ phase = "write" /\ phase' = "write" /\ trace' = Append(trace, e)
        /\ Record(e.comm, "received", None) /\ comms' = comms /\ pending' = pending
        /\ UNCHANGED Reader
    BY <1>6, <2>1 DEF WriteGatherClient, CanWrite, Made
  <2> HIDE DEF e
  <2>3. /\ \A l \in Lists : e.call \in Recorded(l) <=> l = "received"
        /\ None = Entry(Append(trace, e), Len(trace) + 1) /\ "received" \in Lists
        /\ None \in Int
    BY <1>1, <1>2, <2>1, EntryOfLast DEF Recorded, None
  <2> QED BY <1>1, <2>1, <2>2, <2>3, WrittenAndRecorded
<1>7. CASE WriteIrecv(comm)
  <2> DEFINE e == Call("Irecv", comm, 0)
  <2>1. e \in CallType /\ e.call = "Irecv" /\ e.comm = comm
    BY <1>1, CallsAreTyped DEF Calls
  <2>2. /\ phase = "write" /\ phase' = "write" /\ trace' = Append(trace, e)
        /\ comms' = comms /\ data' = data /\ pending' = pending \cup {Len(trace) + 1}
        /\ UNCHANGED Reader
    BY <1>7, <2>1 DEF WriteIrecv, CanWrite, Made, Position
  <2> HIDE DEF e
  <2>3. \A l \in Lists : e.call \notin Recorded(l)
    BY <1>2, <2>1 DEF Recorded
  <2>4. ListsOK'
    BY <1>1, <2>1, <2>2, <2>3, ListsKept
  <2>5. TraceOK'
    BY <1>1, <2>1, <2>2, TraceStep
  <2> QED BY <1>1, <2>1, <2>2, <2>4, <2>5, Written
<1>8. CASE WriteSplit(comm)
  <2> DEFINE e == Call("Split", comm, comms + 1)
  <2>1. e \in CallType /\ e.call = "Split" /\ e.comm = comm /\ e.arg = comms + 1
    <3>1. comms + 1 \in Nat
      BY <1>1
    <3> QED BY <1>1, <3>1, CallsAreTyped DEF Calls
  <2>2. /\ phase = "write" /\ phase' = "write" /\ trace' = Append(trace, e)
        /\ comms' = comms + 1 /\ pending' = pending
        /\ data' = Append([data EXCEPT ![e.comm]["split"] = Append(@, comms + 1)], EmptyData)
        /\ UNCHANGED Reader
    BY <1>8, <2>1 DEF WriteSplit, CanWrite, Made
  <2> HIDE DEF e
  <2>3. ListsOK' /\ data' \in Seq([Lists -> Seq(Int)])
    BY <1>1, <2>1, <2>2, ListsSplit
  <2>4. TraceOK'
    BY <1>1, <2>1, <2>2, TraceStep
  <2>5. comms' \in Nat
    BY <1>1, <2>2
  <2> QED BY <2>1, <2>2, <2>3, <2>4, <2>5, Written
<1> QED BY <1>3, <1>4, <1>5, <1>6, <1>7, <1>8 DEF Write

LEMMA WaitKeepsInvariant ==
  ASSUME CInv, NEW irecv \in pending, WriteWait(irecv)
  PROVE  CInv'
<1>1. /\ TypeOK /\ TraceOK /\ ListsOK /\ comms \in Nat
      /\ trace \in Seq(CallType)
  BY DEF CInv, TypeOK
<1>2. irecv \in 1..Len(trace)
  BY <1>1 DEF TraceOK
<1>3. irecv \in Nat /\ irecv \in Int /\ trace[irecv] \in CallType
  BY <1>1, <1>2
<1> DEFINE comm == trace[irecv].comm
           e == Call("wait", comm, irecv)
<1>4. comm \in Nat
  BY <1>3 DEF CallType
<1>5. e \in CallType /\ e.call = "wait" /\ e.comm = comm /\ e.arg = irecv
  BY <1>3, <1>4, CallsAreTyped DEF Calls
<1>6. /\ phase = "write" /\ phase' = "write" /\ trace' = Append(trace, e) /\ comm \in 1..comms
      /\ Record(e.comm, "received", irecv) /\ comms' = comms /\ pending' = pending \ {irecv}
      /\ UNCHANGED Reader
  BY <1>5 DEF WriteWait, CanWrite, Made
<1> HIDE DEF e
<1>7. /\ \A l \in Lists : e.call \in Recorded(l) <=> l = "received"
      /\ irecv = Entry(Append(trace, e), Len(trace) + 1) /\ "received" \in Lists
  BY <1>1, <1>5, EntryOfLast DEF Recorded, Lists
<1>8. e.arg \in pending /\ trace[e.arg].comm = e.comm
  BY <1>5
<1> QED BY <1>3, <1>5, <1>6, <1>7, <1>8, WrittenAndRecorded

-----------------------------------------------------------------------------
(* The end of the first run.                                               *)

LEMMA StartsInOrder ==
  ASSUME Init
  PROVE  CInv
<1>1. /\ trace = << >> /\ comms = 1 /\ data = <<EmptyData>> /\ pending = {} /\ phase = "write"
      /\ done = 0 /\ reads = <<1>> /\ seen = << >>
  BY DEF Init
<1>2. Len(trace) = 0 /\ 1..Len(trace) = {} /\ trace \in Seq(CallType)
  BY <1>1
<1>3. Splits(trace) = {} /\ \A c, calls : CallsOn(trace, c, calls) = {}
  BY <1>2 DEF Splits, CallsOn
<1>4. CountUpto({}, 0) = 0
  <2>1. {i \in {} : i <= 0} = {}
    OBVIOUS
  <2> QED BY <2>1, FS_EmptySet DEF CountUpto
<1>5. EmptyData \in [Lists -> Seq(Int)] /\ \A l \in Lists : EmptyData[l] = << >>
  BY DEF EmptyData
<1>6. TypeOK
  <2> DEFINE D == [Lists -> Seq(Int)]
  <2>1. EmptyData \in D
    BY <1>5
  <2> HIDE DEF D
  <2>2. data \in Seq(D)
    BY <1>1, <2>1
  <2> QED BY <1>1, <1>2, <2>2 DEF TypeOK, D
<1>7. TraceOK
  <2>1. comms = CountUpto(Splits(trace), Len(trace)) + 1
    <3>1. Splits(trace) = {} /\ Len(trace) = 0
      BY <1>2, <1>3
    <3>2. CountUpto(Splits(trace), Len(trace)) = 0
      BY <1>4, <3>1, Zenon
    <3> QED BY <1>1, <3>2
  <2>2. \A k : k \notin 1..Len(trace)
    BY <1>2
  <2>3. pending = {k \in 1..Len(trace) : trace[k].call = "Irecv" /\ ~WaitedFor(trace, k)}
    BY <1>1, <2>2
  <2> QED BY <2>1, <2>2, <2>3 DEF TraceOK
<1>8. ListsOK
  <2>1. Len(data) = 1 /\ data[1] = EmptyData
    BY <1>1
  <2>2. ASSUME NEW c \in 1..comms, NEW l \in Lists PROVE ListOK(trace, data[c][l], c, l)
    <3>1. data[c][l] = << >>
      BY <1>1, <1>5, <2>1
    <3>2. Len(data[c][l]) = 0
      BY <3>1
    <3> QED BY <1>2, <1>3, <1>4, <3>2 DEF ListOK
  <2> QED BY <1>1, <2>1, <2>2 DEF ListsOK
<1> QED BY <1>1, <1>6, <1>7, <1>8 DEF CInv, NotReadYet

LEMMA LoadKeepsInvariant ==
  ASSUME CInv, DumpAndLoad
  PROVE  CInv'
<1>1. /\ TypeOK /\ TraceOK /\ ListsOK /\ NotReadYet
      /\ phase' = "read" /\ cursor' = [c \in 1..comms |-> AtStart]
      /\ UNCHANGED <<trace, comms, data, pending, done, reads, posted, seen>>
  BY DEF CInv, DumpAndLoad
<1>2. TypeOK' /\ TraceOK' /\ ListsOK'
  BY <1>1 DEF TypeOK, TraceOK, ListsOK
<1>3. ReadInOrder'
  <2>1. done' = 0 /\ reads' = <<1>> /\ seen' = << >> /\ trace' = trace /\ comms' = comms
    BY <1>1 DEF NotReadYet
  <2>2. Len(trace) \in Nat
    BY <1>1 DEF TypeOK
  <2>3. CountUpto(Splits(trace), 0) = 0
    BY <2>2, Positional, CountStarts
  <2>4. ASSUME NEW c, NEW calls PROVE CountUpto(CallsOn(trace, c, calls), 0) = 0
    BY <2>2, Positional, CountStarts
  <2>5. AtStart \in [Lists -> Nat] /\ \A l \in Lists : AtStart[l] = 0
    BY DEF AtStart
  <2>6. cursor' \in [1..comms -> [Lists -> Nat]]
    BY <1>1, <2>5
  <2>7. \A c \in 1..comms, l \in Lists : cursor'[c][l] = 0
    BY <1>1, <2>5
  <2>8. Len(reads') = 1 /\ reads' \in Seq(Nat) /\ reads'[1] = 1
    BY <2>1
  <2>9. seen' \in Seq(Int) /\ Len(seen') = 0
    BY <2>1
  <2>10. 0 \in 0..Len(trace) /\ 1..0 = {}
    BY <2>2
  <2> QED BY <2>1, <2>3, <2>4, <2>6, <2>7, <2>8, <2>9, <2>10 DEF ReadInOrder
<1> QED BY <1>1, <1>2, <1>3 DEF CInv

-----------------------------------------------------------------------------
(* Orderly programs.                                                       *)

(* Counting goes through an enumeration that keeps the order. *)
LEMMA CountsAgree ==
  ASSUME NEW n \in Nat, NEW P, \A i \in P : i \in 1..n, NEW Q, \A i \in Q : i \in 1..n,
         NEW F \in [P -> Q], \A i, j \in P : i < j => F[i] < F[j],
         \A q \in Q : \E p \in P : F[p] = q
  PROVE  /\ \A k \in P : CountUpto(P, k) = CountUpto(Q, F[k])
         /\ CountUpto(P, n) = CountUpto(Q, n)
<1>1. \A i \in P : i \in Int /\ i <= n
  OBVIOUS
<1>2. \A i \in Q : i \in Int /\ i <= n
  OBVIOUS
<1>3. \A i, j \in P : i <= j <=> F[i] <= F[j]
  <2>1. ASSUME NEW i \in P, NEW j \in P PROVE i <= j <=> F[i] <= F[j]
    <3>1. i \in Int /\ j \in Int /\ F[i] \in Int /\ F[j] \in Int
      BY <1>1, <1>2
    <3>2. (i < j => F[i] < F[j]) /\ (j < i => F[j] < F[i]) /\ (i = j => F[i] = F[j])
      OBVIOUS
    <3> QED BY <3>1, <3>2
  <2> QED BY <2>1
<1>4. \A i, j \in P : F[i] = F[j] => i = j
  <2>1. ASSUME NEW i \in P, NEW j \in P, F[i] = F[j] PROVE i = j
    <3>1. i \in Int /\ j \in Int /\ F[i] \in Int
      BY <1>1, <1>2
    <3>2. i <= j /\ j <= i
      BY <1>3, <2>1, <3>1
    <3> QED BY <3>1, <3>2
  <2> QED BY <2>1
<1>5. ASSUME NEW k, NEW m,
             \A i \in P : i <= k <=> F[i] <= m
      PROVE  CountUpto(P, k) = CountUpto(Q, m)
  <2> DEFINE A == {i \in P : i <= k}
             B == {i \in Q : i <= m}
             G == [i \in A |-> F[i]]
  <2>1. IsFiniteSet(A)
    BY CountType
  <2>2. G \in [A -> B]
    BY <1>5
  <2>3. \A a, b \in A : G[a] = G[b] => a = b
    BY <1>4
  <2>4. \A b \in B : \E a \in A : G[a] = b
    BY <1>5
  <2> HIDE DEF A, B, G
  <2>5. G \in Bijection(A, B)
    BY <2>2, <2>3, <2>4 DEF Bijection, Injection, Surjection, IsInjective
  <2>6. Cardinality(A) = Cardinality(B)
    BY <2>1, <2>5, FS_Bijection DEF ExistsBijection
  <2> QED BY <2>6 DEF CountUpto, A, B
<1>6. \A k \in P : CountUpto(P, k) = CountUpto(Q, F[k])
  BY <1>3, <1>5
<1>7. CountUpto(P, n) = CountUpto(Q, n)
  BY <1>1, <1>2, <1>5
<1> QED BY <1>6, <1>7

(* In an orderly program the n-th receive made is the n-th recorded. *)
LEMMA ReceivesAreRecordedInOrder ==
  ASSUME TypeOK, TraceOK, ListsOK, Orderly, NEW c \in 1..comms
  PROVE  LET P == CallsOn(trace, c, Replayed("received"))
         IN  /\ \A k \in P : data[c]["received"][CountUpto(P, k)] = k
             /\ CountUpto(P, Len(trace)) = Len(data[c]["received"])
<1> DEFINE n == Len(trace)
           P == CallsOn(trace, c, Replayed("received"))
           Q == CallsOn(trace, c, Recorded("received"))
           F == [k \in P |-> Completion(k)]
<1>1. /\ trace \in Seq(CallType) /\ n \in Nat
      /\ \A i \in P : i \in 1..n
      /\ \A i \in Q : i \in 1..n
  BY Positional DEF TypeOK
<1>2. \A k : k \in P <=> k \in 1..n /\ trace[k].comm = c /\ trace[k].call \in {"Recv", "Irecv"}
  BY DEF CallsOn, Replayed
<1>3. \A k : k \in Q <=> k \in 1..n /\ trace[k].comm = c /\ trace[k].call \in {"Recv", "wait"}
  <2>1. \A k \in 1..n : trace[k].call # "Gather"
    BY DEF Orderly, NoGatherOnClient, Positions
  <2>2. Recorded("received") = {"Recv", "wait", "Gather"}
    BY DEF Recorded
  <2> QED BY <2>1, <2>2 DEF CallsOn
<1>4. Receives(c) = P
  BY <1>2 DEF Receives, Positions
<1> HIDE DEF P, Q
<1>5. ASSUME NEW k \in P, trace[k].call = "Irecv"
      PROVE  /\ Completion(k) \in 1..n
             /\ trace[Completion(k)].call = "wait" /\ trace[Completion(k)].arg = k
  <2> DEFINE W == {w \in Positions : trace[w].call = "wait" /\ trace[w].arg = k}
  <2>1. Completion(k) = IF W = {} THEN 0 ELSE CHOOSE w \in W : TRUE
    BY <1>5 DEF Completion
  <2>2. Completion(k) # 0
    BY <1>4 DEF Orderly, AllWaitedFor
  <2> HIDE DEF W
  <2>3. Completion(k) \in W
    BY <2>1, <2>2
  <2> QED BY <2>3 DEF W, Positions
<1>6. \A k \in P : trace[k].call = "Recv" => Completion(k) = k
  BY DEF Completion
<1>7. /\ \A k \in 1..n : trace[k].call = "wait" => /\ trace[k].arg \in 1..(k - 1)
                                                   /\ trace[trace[k].arg].call = "Irecv"
                                                   /\ trace[trace[k].arg].comm = trace[k].comm
      /\ \A j, k \in 1..n :
           trace[j].call = "wait" /\ trace[k].call = "wait" /\ trace[j].arg = trace[k].arg
           => j = k
  BY DEF TraceOK
<1>8. ASSUME NEW k \in P PROVE Completion(k) \in Q /\ Entry(trace, Completion(k)) = k
  <2>1. CASE trace[k].call = "Recv"
    BY <1>2, <1>3, <1>6, <2>1 DEF Entry
  <2>2. CASE trace[k].call = "Irecv"
    <3>1. /\ Completion(k) \in 1..n
          /\ trace[Completion(k)].call = "wait" /\ trace[Completion(k)].arg = k
      BY <1>5, <2>2
    <3>2. trace[Completion(k)].comm = c
      BY <1>2, <1>7, <3>1
    <3> QED BY <1>3, <3>1, <3>2 DEF Entry
  <2> QED BY <1>2, <2>1, <2>2
<1>9. ASSUME NEW q \in Q PROVE \E p \in P : Completion(p) = q
  <2>1. CASE trace[q].call = "Recv"
    BY <1>2, <1>3, <1>6, <2>1
  <2>2. CASE trace[q].call = "wait"
    <3> DEFINE p == trace[q].arg
    <3>1. q \in 1..n /\ q \in Nat /\ trace[q].comm = c
      BY <1>1, <1>3
    <3>2. p \in 1..(q - 1) /\ trace[p].call = "Irecv" /\ trace[p].comm = c
      BY <1>7, <2>2, <3>1
    <3>3. p \in P
      BY <1>1, <1>2, <3>1, <3>2
    <3>4. /\ Completion(p) \in 1..n
          /\ trace[Completion(p)].call = "wait" /\ trace[Completion(p)].arg = p
      BY <1>5, <3>2, <3>3
    <3>5. Completion(p) = q
      BY <1>7, <2>2, <3>1, <3>4
    <3> QED BY <3>3, <3>5
  <2> QED BY <1>3, <2>1, <2>2
<1>10. \A i, j \in P : i < j => Completion(i) < Completion(j)
  BY <1>4 DEF Orderly, CompletedInOrder
<1>11. /\ F \in [P -> Q] /\ \A k \in P : F[k] = Completion(k)
       /\ \A i, j \in P : i < j => F[i] < F[j]
       /\ \A q \in Q : \E p \in P : F[p] = q
  BY <1>8, <1>9, <1>10
<1> HIDE DEF F, n
<1>12. /\ \A k \in P : CountUpto(P, k) = CountUpto(Q, F[k])
       /\ CountUpto(P, n) = CountUpto(Q, n)
  BY <1>1, <1>11, CountsAgree
<1>13. /\ Len(data[c]["received"]) = CountUpto(Q, n)
       /\ \A k \in Q : data[c]["received"][CountUpto(Q, k)] = Entry(trace, k)
  BY DEF ListsOK, ListOK, Lists, Q, n
<1> QED BY <1>8, <1>11, <1>12, <1>13 DEF P, n

-----------------------------------------------------------------------------
(* The second run.                                                         *)

(* The communicator a call is made on reads its own data. *)
LEMMA DueIsRead ==
  ASSUME TypeOK, TraceOK, ReadInOrder, done < Len(trace)
  PROVE  /\ done + 1 \in 1..Len(trace) /\ done \in Nat /\ Due \in CallType
         /\ From = Due.comm /\ From \in 1..comms
<1> DEFINE n == Len(trace)
           S == Splits(trace)
           k == done + 1
<1>1. /\ trace \in Seq(CallType) /\ n \in Nat /\ done \in Nat /\ k \in 1..n /\ k - 1 = done
      /\ done <= n /\ done \in 0..n
  BY DEF TypeOK, ReadInOrder
<1>2. Due \in CallType
  BY <1>1 DEF Due
<1>3. Due.comm \in 1..(CountUpto(S, done) + 1)
  BY <1>1 DEF TraceOK, Due
<1>4. Len(reads) = CountUpto(S, done) + 1 /\ \A c \in 1..Len(reads) : reads[c] = c
  BY DEF ReadInOrder
<1>5. comms = CountUpto(S, n) + 1
  BY DEF TraceOK
<1> HIDE DEF n, S
<1>6. CountUpto(S, done) <= CountUpto(S, n) /\ CountUpto(S, done) \in Nat /\ CountUpto(S, n) \in Nat
  <2>1. \A i \in S : i \in 1..n
    BY Positional DEF S, n
  <2> QED BY <1>1, <2>1, CountGrows, CountType
<1>7. From = Due.comm
  BY <1>3, <1>4 DEF From
<1>8. From \in 1..comms
  BY <1>3, <1>5, <1>6, <1>7
<1> QED BY <1>1, <1>2, <1>7, <1>8 DEF n

(* The next call on a communicator is counted there and nowhere else. *)
LEMMA DueIsCounted ==
  ASSUME TypeOK, done \in Nat, done + 1 \in 1..Len(trace), NEW c, NEW calls
  PROVE  CountUpto(CallsOn(trace, c, calls), done + 1) =
           CountUpto(CallsOn(trace, c, calls), done)
             + (IF Due.comm = c /\ Due.call \in calls THEN 1 ELSE 0)
<1> DEFINE S == CallsOn(trace, c, calls)
<1>1. done + 1 \in S <=> Due.comm = c /\ Due.call \in calls
  BY DEF CallsOn, Due
<1>2. \A i \in S : i \in 1..Len(trace)
  BY Positional
<1>3. Len(trace) \in Nat
  BY DEF TypeOK
<1> HIDE DEF S
<1>4. CountUpto(S, done + 1) = CountUpto(S, done) + (IF done + 1 \in S THEN 1 ELSE 0)
  BY <1>2, <1>3, CountStep
<1> QED BY <1>1, <1>4 DEF S

(* A call that reads finds its own entry next. *)
LEMMA NextIsItsOwn ==
  ASSUME TypeOK, TraceOK, ListsOK, Orderly, ReadInOrder, done < Len(trace),
         NEW list \in Lists, Due.call \in Replayed(list)
  PROVE  NextEntry(list) = IF list = "received" THEN done + 1 ELSE Entry(trace, done + 1)
<1> DEFINE k == done + 1
           c == Due.comm
           P == CallsOn(trace, c, Replayed(list))
           entries == data[c][list]
<1>1. k \in 1..Len(trace) /\ done \in Nat /\ From = c /\ c \in 1..comms
  BY DueIsRead
<1>2. k \in P
  BY <1>1 DEF CallsOn, Due
<1>3. Len(trace) \in Nat /\ \A i \in P : i \in 1..Len(trace)
  BY Positional DEF TypeOK
<1>4. /\ \A i \in P : entries[CountUpto(P, i)] = IF list = "received" THEN i ELSE Entry(trace, i)
      /\ Len(entries) = CountUpto(P, Len(trace))
  <2>1. CASE list = "received"
    BY <1>1, <2>1, ReceivesAreRecordedInOrder
  <2>2. CASE list # "received"
    BY <1>1, <2>2 DEF ListsOK, ListOK, Replayed
  <2> QED BY <2>1, <2>2
<1>5. cursor[c][list] = CountUpto(P, done)
  BY <1>1 DEF ReadInOrder
<1>6. CountUpto(P, k) = CountUpto(P, done) + 1
  BY <1>1, DueIsCounted
<1> HIDE DEF P, entries, c, k
<1>7. CountUpto(P, k) \in 1..CountUpto(P, Len(trace))
  BY <1>2, <1>3, CountInRange
<1>8. CountUpto(P, done) \in Nat /\ CountUpto(P, Len(trace)) \in Nat
  BY <1>3, CountType
<1>9. cursor[c][list] < Len(entries) /\ cursor[c][list] + 1 = CountUpto(P, k)
  BY <1>4, <1>5, <1>6, <1>7, <1>8
<1>10. NextEntry(list) = IF cursor[c][list] < Len(entries)
                         THEN entries[cursor[c][list] + 1] ELSE IndexError
  BY <1>1 DEF NextEntry, entries
<1>11. NextEntry(list) = entries[CountUpto(P, k)]
  BY <1>9, <1>10
<1> QED BY <1>2, <1>4, <1>11 DEF k

(* A reader that advances counts the call. *)
LEMMA CursorAdvances ==
  ASSUME TypeOK, TraceOK, ReadInOrder, done < Len(trace),
         NEW list \in Lists, \A l \in Lists : Due.call \in Replayed(l) <=> l = list, Advance(list)
  PROVE  /\ cursor' \in [1..comms -> [Lists -> Nat]]
         /\ \A c \in 1..comms, l \in Lists :
              cursor'[c][l] = CountUpto(CallsOn(trace, c, Replayed(l)), done + 1)
<1> DEFINE L == [Lists -> Nat]
           new == [cursor[From] EXCEPT ![list] = @ + 1]
<1>1. /\ done + 1 \in 1..Len(trace) /\ done \in Nat /\ From = Due.comm /\ From \in 1..comms
  BY DueIsRead
<1>2. /\ cursor \in [1..comms -> L]
      /\ \A c \in 1..comms, l \in Lists :
           cursor[c][l] = CountUpto(CallsOn(trace, c, Replayed(l)), done)
  BY DEF ReadInOrder
<1>3. /\ new \in L
      /\ \A l \in Lists : new[l] = cursor[From][l] + (IF l = list THEN 1 ELSE 0)
  BY <1>1, <1>2
<1>4. cursor' = [cursor EXCEPT ![From] = new]
  BY DEF Advance
<1> HIDE DEF L, new
<1>5. /\ cursor' \in [1..comms -> L]
      /\ \A c \in 1..comms : cursor'[c] = IF c = From THEN new ELSE cursor[c]
  BY <1>1, <1>2, <1>3, <1>4
<1>6. ASSUME NEW c \in 1..comms, NEW l \in Lists
      PROVE  cursor'[c][l] = CountUpto(CallsOn(trace, c, Replayed(l)), done + 1)
  <2>1. CountUpto(CallsOn(trace, c, Replayed(l)), done + 1) =
          CountUpto(CallsOn(trace, c, Replayed(l)), done)
            + (IF Due.comm = c /\ Due.call \in Replayed(l) THEN 1 ELSE 0)
    BY <1>1, DueIsCounted
  <2>2. cursor[c][l] = CountUpto(CallsOn(trace, c, Replayed(l)), done) /\ cursor[c][l] \in Nat
    BY <1>2 DEF L
  <2> QED BY <1>1, <1>3, <1>5, <2>1, <2>2
<1> QED BY <1>5, <1>6 DEF L

LEMMA CursorStays ==
  ASSUME TypeOK, TraceOK, ReadInOrder, done < Len(trace),
         \A l \in Lists : Due.call \notin Replayed(l), cursor' = cursor
  PROVE  /\ cursor' \in [1..comms -> [Lists -> Nat]]
         /\ \A c \in 1..comms, l \in Lists :
              cursor'[c][l] = CountUpto(CallsOn(trace, c, Replayed(l)), done + 1)
<1>1. done + 1 \in 1..Len(trace) /\ done \in Nat
  BY DueIsRead
<1>2. /\ cursor \in [1..comms -> [Lists -> Nat]]
      /\ \A c \in 1..comms, l \in Lists :
           cursor[c][l] = CountUpto(CallsOn(trace, c, Replayed(l)), done)
  BY DEF ReadInOrder
<1>3. ASSUME NEW c \in 1..comms, NEW l \in Lists
      PROVE  cursor'[c][l] = CountUpto(CallsOn(trace, c, Replayed(l)), done + 1)
  <2>1. CountUpto(CallsOn(trace, c, Replayed(l)), done + 1) =
          CountUpto(CallsOn(trace, c, Replayed(l)), done)
            + (IF Due.comm = c /\ Due.call \in Replayed(l) THEN 1 ELSE 0)
    BY <1>1, DueIsCounted
  <2>2. cursor[c][l] = CountUpto(CallsOn(trace, c, Replayed(l)), done) /\ cursor[c][l] \in Nat
    BY <1>2
  <2> QED BY <2>1, <2>2
<1> QED BY <1>2, <1>3

(* What a call of the second run leaves to be shown. *)
LEMMA ReplayedInOrder ==
  ASSUME TypeOK, TraceOK, ReadInOrder, done < Len(trace), UNCHANGED Writer,
         NEW value \in Int, See(value), value = Received(done + 1),
         cursor' \in [1..comms -> [Lists -> Nat]],
         \A c \in 1..comms, l \in Lists :
           cursor'[c][l] = CountUpto(CallsOn(trace, c, Replayed(l)), done + 1),
         reads' = IF Due.call = "Split" THEN Append(reads, Len(reads) + 1) ELSE reads,
         \A k \in 1..done : k \in DOMAIN posted =>
           k \in DOMAIN posted' /\ posted'[k] = posted[k],
         Due.call = "Irecv" => done + 1 \in DOMAIN posted' /\ posted'[done + 1] = done + 1
  PROVE  ReadInOrder'
<1>1. /\ trace' = trace /\ comms' = comms /\ done' = done + 1 /\ seen' = Append(seen, value)
      /\ Len(trace) \in Nat
  BY DEF Writer, See, TypeOK
<1>2. done + 1 \in 1..Len(trace) /\ done \in Nat /\ done' \in 0..Len(trace')
  BY <1>1, DueIsRead
<1>3. /\ seen \in Seq(Int) /\ Len(seen) = done
      /\ \A k \in 1..done : seen[k] = Received(k)
      /\ reads \in Seq(Nat) /\ Len(reads) = CountUpto(Splits(trace), done) + 1
      /\ \A c \in 1..Len(reads) : reads[c] = c
      /\ \A k \in 1..done : trace[k].call = "Irecv" => k \in DOMAIN posted /\ posted[k] = k
  BY DEF ReadInOrder
<1>4. \A k \in 1..(done + 1) : k \in 1..done \/ k = done + 1
  BY <1>2
<1>5. /\ seen' \in Seq(Int) /\ Len(seen') = done + 1
      /\ \A k \in 1..done : seen'[k] = seen[k]
      /\ seen'[done + 1] = value
  BY <1>1, <1>3, AppendProperties
<1>6. \A k : Received(k)' = Received(k)
  BY <1>1 DEF Received
<1>7. \A k \in 1..done' : seen'[k] = Received(k)'
  BY <1>1, <1>3, <1>4, <1>5, <1>6
<1>8. Splits(trace)' = Splits(trace)
  BY <1>1
<1>9. CountUpto(Splits(trace), done + 1) =
        CountUpto(Splits(trace), done) + (IF Due.call = "Split" THEN 1 ELSE 0)
  <2>1. done + 1 \in Splits(trace) <=> Due.call = "Split"
    BY <1>2 DEF Splits, Due
  <2>2. \A i \in Splits(trace) : i \in 1..Len(trace)
    BY Positional
  <2> QED BY <1>1, <1>2, <2>1, <2>2, CountStep
<1>10. /\ reads' \in Seq(Nat) /\ Len(reads') = CountUpto(Splits(trace), done + 1) + 1
       /\ \A c \in 1..Len(reads') : reads'[c] = c
  <2>1. CASE Due.call = "Split"
    <3> DEFINE r == Len(reads)
    <3>1. r \in Nat /\ r + 1 \in Nat /\ reads' = Append(reads, r + 1)
      BY <1>3, <2>1
    <3> HIDE DEF r
    <3>2. /\ reads' \in Seq(Nat) /\ Len(reads') = Len(reads) + 1
          /\ \A c \in 1..Len(reads) : reads'[c] = reads[c]
          /\ reads'[Len(reads) + 1] = r + 1
      BY <1>3, <3>1, AppendProperties
    <3>3. \A c \in 1..(r + 1) : c \in 1..r \/ c = r + 1
      BY <3>1
    <3>4. Len(reads') = CountUpto(Splits(trace), done + 1) + 1
      <4>1. CountUpto(Splits(trace), done) \in Nat
        BY <1>1, Positional, CountType
      <4> QED BY <1>3, <1>9, <2>1, <3>2, <4>1
    <3> QED BY <1>3, <3>2, <3>3, <3>4 DEF r
  <2>2. CASE Due.call # "Split"
    <3>1. CountUpto(Splits(trace), done) \in Nat
      BY <1>1, Positional, CountType
    <3> QED BY <1>3, <1>9, <2>2, <3>1
  <2> QED BY <2>1, <2>2
<1>11. ASSUME NEW k \in 1..(done + 1), trace[k].call = "Irecv"
       PROVE  k \in DOMAIN posted' /\ posted'[k] = k
  BY <1>3, <1>4, <1>11 DEF Due
<1> QED BY <1>1, <1>2, <1>5, <1>7, <1>10, <1>11 DEF ReadInOrder

LEMMA ReadsInOrder ==
  ASSUME TypeOK, TraceOK, ListsOK, Orderly, ReadInOrder, Read
  PROVE  ReadInOrder'
<1> DEFINE k == done + 1
<1>1. done < Len(trace)
  BY DEF Read, ReadValue, ReadGatherClient, ReadIrecv, ReadWait, ReadSplit, CanRead
<1>2. /\ k \in 1..Len(trace) /\ done \in Nat /\ k \in Int /\ Due = trace[k]
      /\ None \in Int /\ None # IndexError /\ k # IndexError
  BY <1>1, DueIsRead DEF Due, None, IndexError
<1>3. Lists = {"bcast", "received", "generic", "split"}
  BY DEF Lists
<1>4. CASE ReadValue
  <2> DEFINE list == Source(Due.call)
  <2>1. /\ Due.call \in {"bcast", "allreduce", "Recv"} /\ See(NextEntry(list)) /\ Advance(list)
        /\ UNCHANGED Writer /\ reads' = reads /\ posted' = posted
    BY <1>4 DEF ReadValue, CanRead
  <2>2. list \in Lists /\ \A l \in Lists : Due.call \in Replayed(l) <=> l = list
    BY <1>3, <2>1 DEF Source, Replayed, Recorded
  <2>3. Received(k) = k /\ Entry(trace, k) = k
    BY <1>2, <2>1 DEF Received, Entry
  <2> HIDE DEF list
  <2>4. NextEntry(list) = k
    <3>1. Due.call \in Replayed(list)
      BY <2>2
    <3> QED BY <1>1, <2>2, <2>3, <3>1, NextIsItsOwn
  <2>5. /\ cursor' \in [1..comms -> [Lists -> Nat]]
        /\ \A c \in 1..comms, l \in Lists :
             cursor'[c][l] = CountUpto(CallsOn(trace, c, Replayed(l)), done + 1)
    BY <1>1, <2>1, <2>2, CursorAdvances
  <2>6. See(k) /\ Due.call # "Split" /\ Due.call # "Irecv"
    BY <2>1, <2>4
  <2> QED BY <1>1, <1>2, <2>1, <2>3, <2>5, <2>6, ReplayedInOrder
<1>5. ~ReadGatherClient
  BY <1>2 DEF ReadGatherClient, CanRead, Orderly, NoGatherOnClient, Positions
<1>6. CASE ReadIrecv
  <2>1. /\ Due.call = "Irecv" /\ See(NoneUnlessRaised("received")) /\ Advance("received")
        /\ posted' = [i \in DOMAIN posted \cup {k} |->
                        IF i = k THEN NextEntry("received") ELSE posted[i]]
        /\ UNCHANGED Writer /\ reads' = reads
    BY <1>6 DEF ReadIrecv, CanRead
  <2>2. "received" \in Lists /\ \A l \in Lists : Due.call \in Replayed(l) <=> l = "received"
    BY <1>3, <2>1 DEF Replayed, Recorded
  <2>3. Received(k) = None
    BY <1>2, <2>1 DEF Received
  <2>4. NextEntry("received") = k
    <3>1. Due.call \in Replayed("received")
      BY <2>2
    <3> QED BY <1>1, <2>2, <3>1, NextIsItsOwn
  <2>5. /\ cursor' \in [1..comms -> [Lists -> Nat]]
        /\ \A c \in 1..comms, l \in Lists :
             cursor'[c][l] = CountUpto(CallsOn(trace, c, Replayed(l)), done + 1)
    BY <1>1, <2>1, <2>2, CursorAdvances
  <2>6. See(None) /\ Due.call # "Split"
    BY <1>2, <2>1, <2>4 DEF NoneUnlessRaised
  <2>7. k \in DOMAIN posted' /\ posted'[k] = k
    BY <2>1, <2>4
  <2>8. \A i \in 1..done : i \in DOMAIN posted => i \in DOMAIN posted' /\ posted'[i] = posted[i]
    BY <1>2, <2>1
  <2> QED BY <1>1, <1>2, <2>1, <2>3, <2>5, <2>6, <2>7, <2>8, ReplayedInOrder
<1>7. CASE ReadWait
  <2>1. /\ Due.call = "wait" /\ See(posted[Due.arg]) /\ cursor' = cursor
        /\ UNCHANGED Writer /\ reads' = reads /\ posted' = posted
    BY <1>7 DEF ReadWait, CanRead
  <2>2. \A l \in Lists : Due.call \notin Replayed(l)
    BY <1>3, <2>1 DEF Replayed, Recorded
  <2>3. Received(k) = Due.arg
    BY <1>2, <2>1 DEF Received
  <2>4. Due.arg \in 1..(k - 1) /\ trace[Due.arg].call = "Irecv"
    BY <1>2, <2>1 DEF TraceOK
  <2>5. posted[Due.arg] = Due.arg /\ Due.arg \in Int
    BY <1>2, <2>4 DEF ReadInOrder
  <2>6. /\ cursor' \in [1..comms -> [Lists -> Nat]]
        /\ \A c \in 1..comms, l \in Lists :
             cursor'[c][l] = CountUpto(CallsOn(trace, c, Replayed(l)), done + 1)
    BY <1>1, <2>1, <2>2, CursorStays
  <2>7. See(Due.arg) /\ Due.call # "Split" /\ Due.call # "Irecv"
    BY <2>1, <2>5
  <2> QED BY <1>1, <1>2, <2>1, <2>3, <2>5, <2>6, <2>7, ReplayedInOrder
<1>8. CASE ReadSplit
  <2>1. /\ Due.call = "Split" /\ See(NoneUnlessRaised("split")) /\ Advance("split")
        /\ reads' = Append(reads, NextEntry("split"))
        /\ UNCHANGED Writer /\ posted' = posted
    BY <1>8 DEF ReadSplit, CanRead
  <2>2. "split" \in Lists /\ \A l \in Lists : Due.call \in Replayed(l) <=> l = "split"
    BY <1>3, <2>1 DEF Replayed, Recorded
  <2>3. Received(k) = None
    BY <1>2, <2>1 DEF Received
  <2>4. NextEntry("split") = Entry(trace, k)
    <3>1. Due.call \in Replayed("split")
      BY <2>2
    <3> QED BY <1>1, <2>2, <3>1, NextIsItsOwn
  <2>5. Entry(trace, k) = CountUpto(Splits(trace), k) + 1
    BY <1>2, <2>1 DEF TraceOK, Entry
  <2>6. /\ CountUpto(Splits(trace), k) = CountUpto(Splits(trace), done) + 1
        /\ CountUpto(Splits(trace), done) \in Nat
    <3>1. k \in Splits(trace)
      BY <1>2, <2>1 DEF Splits
    <3>2. Len(trace) \in Nat /\ \A i \in Splits(trace) : i \in 1..Len(trace)
      BY Positional DEF TypeOK
    <3> QED BY <1>2, <3>1, <3>2, CountStep, CountType
  <2>7. NextEntry("split") = Len(reads) + 1 /\ NextEntry("split") # IndexError
    BY <2>4, <2>5, <2>6 DEF ReadInOrder, IndexError
  <2>8. /\ cursor' \in [1..comms -> [Lists -> Nat]]
        /\ \A c \in 1..comms, l \in Lists :
             cursor'[c][l] = CountUpto(CallsOn(trace, c, Replayed(l)), done + 1)
    BY <1>1, <2>1, <2>2, CursorAdvances
  <2>9. See(None) /\ Due.call # "Irecv" /\ reads' = Append(reads, Len(reads) + 1)
    BY <2>1, <2>7 DEF NoneUnlessRaised
  <2> QED BY <1>1, <1>2, <2>1, <2>3, <2>8, <2>9, ReplayedInOrder
<1> QED BY <1>4, <1>5, <1>6, <1>7, <1>8 DEF Read

(* What is said of the first run does not depend on the second. *)
LEMMA ReaderLeavesTheRecord ==
  ASSUME UNCHANGED Writer, TypeOK, TraceOK, ListsOK
  PROVE  /\ TypeOK' /\ TraceOK' /\ ListsOK' /\ phase' = phase
         /\ Orderly' <=> Orderly
<1>1. /\ phase' = phase /\ trace' = trace /\ comms' = comms /\ data' = data
      /\ pending' = pending
  BY DEF Writer
<1>2. TypeOK'
  BY <1>1 DEF TypeOK
<1>3. TraceOK'
  BY <1>1 DEF TraceOK
<1>4. ListsOK'
  BY <1>1 DEF ListsOK
<1>5. Orderly' <=> Orderly
  BY <1>1 DEF Orderly, AllWaitedFor, CompletedInOrder, NoGatherOnClient, Receives, Completion,
              Positions
<1> QED BY <1>1, <1>2, <1>3, <1>4, <1>5

LEMMA ReadKeepsInvariant ==
  ASSUME CInv, Read
  PROVE  CInv'
<1>1. phase = "read" /\ UNCHANGED Writer
  BY DEF Read, ReadValue, ReadGatherClient, ReadIrecv, ReadWait, ReadSplit, CanRead
<1>2. TypeOK /\ TraceOK /\ ListsOK
  BY DEF CInv
<1>3. /\ TypeOK' /\ TraceOK' /\ ListsOK' /\ phase' = phase
      /\ Orderly' <=> Orderly
  BY <1>1, <1>2, ReaderLeavesTheRecord
<1>4. Orderly => ReadInOrder'
  BY <1>1, <1>2, ReadsInOrder DEF CInv
<1> QED BY <1>1, <1>3, <1>4 DEF CInv

(***************************************************************************)
(* At every point of the two runs each list holds what the calls that      *)
(* record returned, in the order they were made, and in an orderly program *)
(* every reader is as far in its list as the calls replayed on its         *)
(* communicator: data_buffer, CachingCommData and the cursors of           *)
(* CachingCommReader.                                                      *)
(***************************************************************************)
THEOREM RecordInvariant == Spec => []CInv
<1>1. Init => CInv
  BY StartsInOrder
<1>2. CInv /\ [Next]_vars => CInv'
  <2> SUFFICES ASSUME CInv, [Next]_vars PROVE CInv'
    OBVIOUS
  <2>1. CASE \E comm \in 1..comms : Write(comm)
    BY <2>1, WriteKeepsInvariant
  <2>2. CASE \E irecv \in pending : WriteWait(irecv)
    BY <2>2, WaitKeepsInvariant
  <2>3. CASE DumpAndLoad
    BY <2>3, LoadKeepsInvariant
  <2>4. CASE Read
    BY <2>4, ReadKeepsInvariant
  <2>5. CASE UNCHANGED vars
    <3>1. /\ UNCHANGED Writer /\ done' = done /\ cursor' = cursor /\ reads' = reads
          /\ posted' = posted /\ seen' = seen /\ trace' = trace /\ comms' = comms
      BY <2>5 DEF vars, Writer
    <3>2. TypeOK' /\ TraceOK' /\ ListsOK' /\ phase' = phase /\ (Orderly' <=> Orderly)
      BY <3>1, ReaderLeavesTheRecord DEF CInv
    <3>3. NotReadYet => NotReadYet'
      BY <3>1 DEF NotReadYet
    <3>4. ReadInOrder => ReadInOrder'
      <4>1. \A k : Received(k)' = Received(k)
        BY <3>1 DEF Received
      <4> QED BY <3>1, <4>1 DEF ReadInOrder
    <3> QED BY <3>2, <3>3, <3>4 DEF CInv
  <2> QED BY <2>1, <2>2, <2>3, <2>4, <2>5 DEF Next
<1> QED BY <1>1, <1>2, PTL DEF Spec

(***************************************************************************)
(* A rank that completes its receives in the order it posts them, waits    *)
(* for all of them and gathers nothing to another rank sees in the second  *)
(* run what it saw in the first and uses up the record, however many calls *)
(* it makes and communicators it splits off: CachingCommReader.            *)
(***************************************************************************)
THEOREM OrderlyProgramsAreReplayed == Spec => []OrderlyProgramsReplay
<1>1. CInv => OrderlyProgramsReplay
  <2> SUFFICES ASSUME CInv, phase = "read", Orderly
               PROVE  /\ Identical
                      /\ \A c \in 1..Len(reads) : reads[c] = c
                      /\ done = Len(trace) =>
                           \A c \in 1..comms : \A list \in Lists :
                             cursor[c][list] = Len(data[c][list])
    BY DEF OrderlyProgramsReplay, Orderly
  <2>1. TypeOK /\ TraceOK /\ ListsOK /\ ReadInOrder
    BY DEF CInv
  <2>2. Identical
    BY <2>1 DEF Identical, ReadInOrder
  <2>3. \A c \in 1..Len(reads) : reads[c] = c
    BY <2>1 DEF ReadInOrder
  <2>4. ASSUME done = Len(trace), NEW c \in 1..comms, NEW list \in Lists
        PROVE  cursor[c][list] = Len(data[c][list])
    <3>1. cursor[c][list] = CountUpto(CallsOn(trace, c, Replayed(list)), Len(trace))
      BY <2>1, <2>4 DEF ReadInOrder
    <3>2. CASE list = "received"
      BY <2>1, <3>1, <3>2, ReceivesAreRecordedInOrder
    <3>3. CASE list # "received"
      BY <2>1, <3>1, <3>3 DEF ListsOK, ListOK, Replayed
    <3> QED BY <3>2, <3>3
  <2> QED BY <2>2, <2>3, <2>4
<1> QED BY <1>1, RecordInvariant, PTL
==============================================================================
