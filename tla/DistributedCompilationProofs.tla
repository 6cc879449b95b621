-------------------- MODULE DistributedCompilationProofs --------------------
(***************************************************************************)
(* Proofs that a rank goes on only with code compiled for the very stencil *)
(* or call it is at, for every layout, any ranks of it and any number of   *)
(* steps.                                                                  *)
(***************************************************************************)
EXTENDS DistributedCompilation, TLAPS

(* Where a rank is once the barrier of its step is open. *)
Past == {"unblock", "receive", "run", "exited"}

ConstructionLabels == {"block", "build", "unblock", "done"}
CallLabels         == {"call", "barrier", "done"} \cup Past

Messages == {Finished, NoPath} \cup (Ranks \X Nat)

TypeOK ==
  /\ orchestration \in Modes
  /\ pc \in [Ranks -> ConstructionLabels \cup CallLabels]
  /\ completed \in [Ranks -> Nat]
  /\ tile \in [Ranks -> 1..5]
  /\ arrived \subseteq Ranks
  /\ mail \in [Ranks -> [Ranks -> Seq(Messages)]]
  /\ path \in [Ranks -> Messages]

(* Each orchestration has its own program, in which only compiling ranks   *)
(* unblock others and only the others wait for a message.                  *)
OwnProgram ==
  /\ \A r \in Ranks :
       /\ pc[r] = "unblock" => Compiling(r)
       /\ pc[r] \in {"block", "receive"} => ~Compiling(r)
  /\ orchestration = "Python" => arrived = {} /\ \A r \in Ranks : pc[r] \in ConstructionLabels
  /\ orchestration # "Python" =>
       /\ arrived = {r \in Ranks : pc[r] = "barrier"}
       /\ \A r \in Ranks : pc[r] \in CallLabels

(* What a compiling rank has completed, and what it has just built, is on disk. *)
Built ==
  \A q \in Ranks : Compiling(q) =>
    /\ \A k \in 1..completed[q] : <<q, k>> \in disk
    /\ pc[q] \in {"barrier"} \cup Past => <<q, Step(q)>> \in disk

(* How many barriers a rank has passed. *)
Passed(r) == completed[r] + (IF pc[r] \in Past THEN 1 ELSE 0)

BarriersPassedTogether ==
  orchestration # "Python" => \A q, r \in Ranks : Passed(q) = Passed(r)

OwnPath ==
  orchestration # "Python" =>
    \A s \in Ranks :
      Compiling(s) /\ pc[s] \in {"barrier"} \cup Past => path[s] = <<s, Step(s)>>

(* Rank s sends rank r nothing more in this step. *)
NoMoreFor(s, r) == pc[s] = "unblock" => \A t \in tile[s]..5 : Unblocked(t, s, Layout) # r

(* Rank r receives one path a call from its target s, that of the build of *)
(* this call.                                                              *)
OnePath(s, r) ==
  /\ pc[r] # "receive" => mail[s][r] = << >> /\ NoMoreFor(s, r)
  /\ mail[s][r] # << >> =>
       mail[s][r] = << <<s, Step(r)>> >> /\ s = Equivalent(r) /\ NoMoreFor(s, r)
  /\ pc[r] = "run" => path[r] = <<s, Step(r)>> /\ s = Equivalent(r)

OnePathPerCall ==
  orchestration # "Python" =>
    \A r, s \in Ranks : ~Compiling(r) /\ s = TargetRank(r, Layout) => OnePath(s, r)

(* A rank that compiles nobody's stencil runs only what its target sent. *)
RunnersHaveTargets ==
  orchestration # "Python" =>
    \A r \in Ranks : ~Compiling(r) /\ pc[r] = "run" => TargetRank(r, Layout) \in Ranks

(* Rank e has sent rank r the message of its present step. *)
HasSent(e, r) == pc[e] = "unblock" /\ \E t \in 1..(tile[e] - 1) : Unblocked(t, e, Layout) = r

(* The oks a rank r received and those on their way are no more than its   *)
(* equivalent e has sent, one for each stencil it has compiled.            *)
OksOf(e, r) ==
  Len(mail[e][r]) + completed[r] + (IF pc[r] = "build" THEN 1 ELSE 0)
    <= completed[e] + (IF HasSent(e, r) THEN 1 ELSE 0)

OksCounted ==
  orchestration = "Python" =>
    \A r, e \in Ranks : ~Compiling(r) /\ e = Equivalent(r) => OksOf(e, r)

(* Nor does a rank go on to build without its equivalent being there. *)
BuildersHaveEquivalents ==
  orchestration = "Python" =>
    \A r \in Ranks : ~Compiling(r) /\ pc[r] = "build" => Equivalent(r) \in Ranks

IInv ==
  /\ TypeOK
  /\ OwnProgram
  /\ Built
  /\ BarriersPassedTogether
  /\ OwnPath
  /\ OnePathPerCall
  /\ RunnersHaveTargets
  /\ OksCounted
  /\ BuildersHaveEquivalents

-----------------------------------------------------------------------------
(* Ranks, their places and the tiles they unblock. *)

LEMMA TileSize ==
  TileRanks(Layout) \in Nat \ {0}
<1>1. Layout[1] \in Nat \ {0} /\ Layout[2] \in Nat \ {0}
  BY RanksAssumption
<1>2. \A m, n \in Nat \ {0} : m * n \in Nat \ {0}
  OBVIOUS
<1> QED
  BY <1>1, <1>2 DEF TileRanks

LEMMA RanksAreNumbers ==
  \A r \in Ranks : r \in Nat
PROOF BY RanksAssumption

(* The equivalent of a rank is a compiling one, its own if it compiles. *)
LEMMA EquivalentCompiles ==
  ASSUME NEW r \in Ranks
  PROVE  /\ Equivalent(r) \in Nat
         /\ Compiling(Equivalent(r))
         /\ Compiling(r) => Equivalent(r) = r
<1> DEFINE T == TileRanks(Layout)
<1> HIDE DEF T
<1>1. T \in Nat \ {0} /\ r \in Nat
  BY TileSize, RanksAreNumbers DEF T
<1>2. r % T \in 0..(T - 1) /\ (r < T => r % T = r)
  BY <1>1
<1> QED
  BY <1>1, <1>2 DEF Equivalent, CompilingEquivalent, Compiling, IsCompiling, T

(* Tiles further on begin at larger ranks. *)
LEMMA Multiples ==
  ASSUME NEW T \in Nat \ {0}, NEW m \in Nat, NEW n \in Nat, m < n
  PROVE  m * T + T <= n * T
<1>1. PICK d \in Nat : n = m + 1 + d
  <2>1. n - (m + 1) \in Nat /\ n = m + 1 + (n - (m + 1))
    OBVIOUS
  <2> QED BY <2>1
<1>2. n * T = m * T + T + d * T
  BY <1>1
<1>3. d * T \in Nat /\ m * T \in Nat
  OBVIOUS
<1> QED
  BY <1>2, <1>3

(* The other tiles are unblocked one after another, each once, and only    *)
(* ranks whose equivalent is the one that unblocks.                        *)
LEMMA UnblockedOnce ==
  ASSUME NEW s \in Nat, NEW t \in 1..5, NEW u \in 1..5, t # u
  PROVE  Unblocked(t, s, Layout) # Unblocked(u, s, Layout)
<1> DEFINE T == TileRanks(Layout)
<1> HIDE DEF T
<1>1. T \in Nat \ {0}
  BY TileSize DEF T
<1>2. t * T # u * T
  <2>1. CASE t < u
    BY <1>1, <2>1, Multiples
  <2>2. CASE u < t
    BY <1>1, <2>2, Multiples
  <2> QED BY <2>1, <2>2
<1>3. t * T \in Nat /\ u * T \in Nat
  BY <1>1
<1> QED
  BY <1>2, <1>3 DEF Unblocked, T

LEMMA UnblockedByItsEquivalent ==
  ASSUME NEW s \in Ranks, Compiling(s), NEW t \in 1..5, Unblocked(t, s, Layout) \in Ranks
  PROVE  Equivalent(Unblocked(t, s, Layout)) = s
<1> DEFINE T == TileRanks(Layout)
<1> DEFINE r == Unblocked(t, s, Layout)
<1> HIDE DEF T
<1>1. T \in Nat \ {0} /\ s \in 0..(T - 1)
  BY TileSize, RanksAreNumbers DEF T, Compiling, IsCompiling
<1>2. r = t * T + s /\ t * T \in Nat
  BY <1>1 DEF Unblocked, T
<1>3. (t * T + s) % T = s
  <2> HIDE DEF r
  <2>1. PICK m \in Nat, k \in Nat : t * T + s = m * T + k /\ k < T /\ k = (t * T + s) % T
    BY <1>1
  <2>2. ~ (m < t) /\ ~ (t < m)
    BY <1>1, <1>2, <2>1, Multiples
  <2>3. m = t
    BY <2>2
  <2> QED
    BY <1>1, <2>1, <2>3
<1> QED
  BY <1>2, <1>3 DEF Equivalent, CompilingEquivalent, T

-----------------------------------------------------------------------------
LEMMA InitInvariant ==
  Init => IInv
<1> SUFFICES ASSUME Init PROVE IInv
  OBVIOUS
<1>1. TypeOK
  <2>1. << >> \in Seq(Messages) /\ NoPath \in Messages /\ 0 \in Nat /\ 1 \in 1..5
    BY DEF Messages
  <2>2. mail \in [Ranks -> [Ranks -> Seq(Messages)]]
    BY <2>1 DEF Init
  <2> QED
    BY <2>1, <2>2 DEF Init, TypeOK, First, ConstructionLabels, CallLabels
<1>2. OwnProgram
  BY DEF Init, OwnProgram, First, ConstructionLabels, CallLabels
<1>3. Built /\ BarriersPassedTogether /\ OwnPath
  BY DEF Init, Built, BarriersPassedTogether, Passed, OwnPath, First, Past
<1>4. OnePathPerCall /\ RunnersHaveTargets
  BY DEF Init, OnePathPerCall, OnePath, RunnersHaveTargets, NoMoreFor, First
<1>5. OksCounted
  <2> SUFFICES ASSUME NEW r \in Ranks, NEW e \in Ranks, orchestration = "Python", ~Compiling(r)
               PROVE  OksOf(e, r)
    BY DEF OksCounted
  <2>1. mail[e][r] = << >> /\ completed[r] = 0 /\ completed[e] = 0 /\ pc[r] = "block"
    BY DEF Init, First
  <2> QED
    BY <2>1 DEF OksOf
<1>6. BuildersHaveEquivalents
  BY DEF Init, BuildersHaveEquivalents, First
<1> QED
  BY <1>1, <1>2, <1>3, <1>4, <1>5, <1>6 DEF IInv

-----------------------------------------------------------------------------
(* What the end of a step does to a rank. *)
LEMMA CompletesStep ==
  ASSUME TypeOK, NEW r \in Ranks, Complete(r), orchestration' = orchestration
  PROVE  /\ completed' \in [Ranks -> Nat]
         /\ completed'[r] = completed[r] + 1
         /\ pc'[r] \in {"done", First(r)}
         /\ pc' \in [Ranks -> ConstructionLabels \cup CallLabels]
         /\ \A q \in Ranks \ {r} : completed'[q] = completed[q] /\ pc'[q] = pc[q]
PROOF BY DEF TypeOK, Complete, Goto, Step, First, ConstructionLabels, CallLabels

(* A received message leaves the channel, the others are as they were. *)
LEMMA ReceivesMessage ==
  ASSUME TypeOK, NEW r \in Ranks, NEW s \in Ranks, ReceiveMessage(r, s)
  PROVE  /\ mail' \in [Ranks -> [Ranks -> Seq(Messages)]]
         /\ mail[s][r] # << >> /\ mail[s][r] \in Seq(Messages)
         /\ mail'[s][r] = Tail(mail[s][r])
         /\ Head(mail[s][r]) \in Messages
         /\ \A q, to \in Ranks : q # s \/ to # r => mail'[q][to] = mail[q][to]
<1>1. mail[s][r] \in Seq(Messages) /\ mail[s][r] # << >>
  BY DEF TypeOK, ReceiveMessage
<1>2. Tail(mail[s][r]) \in Seq(Messages) /\ Head(mail[s][r]) \in Messages
  BY <1>1
<1>3. mail' = [mail EXCEPT ![s][r] = Tail(mail[s][r])]
  BY DEF ReceiveMessage
<1> QED
  BY <1>1, <1>2, <1>3 DEF TypeOK

(* A sent message is the last on its channel, the others are as they were. *)
LEMMA SendsMessage ==
  ASSUME TypeOK, NEW s \in Ranks, Unblock(s)
  PROVE  LET to == Unblocked(tile[s], s, Layout)
             message == IF orchestration = "Python" THEN Finished ELSE path[s]
         IN
         /\ mail' \in [Ranks -> [Ranks -> Seq(Messages)]]
         /\ message \in Messages
         /\ to \in Ranks => mail'[s][to] = Append(mail[s][to], message)
         /\ \A q, r \in Ranks : q # s \/ r # to => mail'[q][r] = mail[q][r]
<1> DEFINE to == Unblocked(tile[s], s, Layout)
<1> DEFINE message == IF orchestration = "Python" THEN Finished ELSE path[s]
<1>1. message \in Messages
  BY DEF TypeOK, Messages
<1>2. CASE to \notin Ranks
  BY <1>1, <1>2 DEF Unblock, TypeOK
<1>3. CASE to \in Ranks
  <2> HIDE DEF to, message
  <2>1. mail' = [mail EXCEPT ![s][to] = Append(mail[s][to], message)]
    BY <1>3 DEF Unblock, to, message
  <2>2. Append(mail[s][to], message) \in Seq(Messages)
    BY <1>1, <1>3 DEF TypeOK
  <2>3. /\ mail' \in [Ranks -> [Ranks -> Seq(Messages)]]
        /\ mail'[s][to] = Append(mail[s][to], message)
        /\ \A q, r \in Ranks : q # s \/ r # to => mail'[q][r] = mail[q][r]
    BY <1>3, <2>1, <2>2 DEF TypeOK
  <2> QED
    BY <1>1, <2>3 DEF to, message
<1> QED
  BY <1>2, <1>3

-----------------------------------------------------------------------------
LEMMA TypeStep ==
  TypeOK /\ OwnProgram /\ [Next]_vars => TypeOK'
<1> SUFFICES ASSUME TypeOK, OwnProgram, [Next]_vars PROVE TypeOK'
  OBVIOUS
<1> USE DEF ConstructionLabels, CallLabels, Past
<1>1. ASSUME NEW r \in Ranks, Block(r) PROVE TypeOK'
  <2>1. Equivalent(r) \in Ranks
    BY <1>1 DEF Block, ReceiveMessage
  <2> QED
    BY <1>1, <2>1, ReceivesMessage DEF Block, Goto, TypeOK
<1>2. ASSUME NEW r \in Ranks, Build(r) PROVE TypeOK'
  BY <1>2, CompletesStep DEF Build, Goto, TypeOK
<1>3. ASSUME NEW r \in Ranks, EnterBarrier(r) PROVE TypeOK'
  <2>1. <<r, Step(r)>> \in Messages
    BY DEF Step, TypeOK, Messages
  <2> QED
    BY <1>3, <2>1 DEF EnterBarrier, Goto, TypeOK
<1>4. ASSUME NEW r \in Ranks, Receive(r) PROVE TypeOK'
  <2>1. TargetRank(r, Layout) \in Ranks
    BY <1>4 DEF Receive, ReceiveMessage
  <2> QED
    BY <1>4, <2>1, ReceivesMessage DEF Receive, Goto, TypeOK
<1>5. ASSUME NEW r \in Ranks, Run(r) PROVE TypeOK'
  BY <1>5, CompletesStep DEF Run, TypeOK
<1>6. ASSUME NEW r \in Ranks, Unblock(r) PROVE TypeOK'
  <2>1. mail' \in [Ranks -> [Ranks -> Seq(Messages)]]
    BY <1>6, SendsMessage
  <2>2. tile' \in [Ranks -> 1..5]
    <3>1. tile[r] \in 1..5 /\ (IF tile[r] = 5 THEN 1 ELSE tile[r] + 1) \in 1..5
      BY DEF TypeOK
    <3> QED
      BY <1>6, <3>1 DEF Unblock, TypeOK
  <2>3. pc' \in [Ranks -> ConstructionLabels \cup CallLabels] /\ completed' \in [Ranks -> Nat]
    BY <1>6, CompletesStep DEF Unblock, Goto, TypeOK
  <2> QED
    BY <1>6, <2>1, <2>2, <2>3 DEF Unblock, TypeOK
<1>7. CASE OpenBarrier
  BY <1>7 DEF OpenBarrier, AfterBarrier, TypeOK
<1>8. CASE UNCHANGED vars
  BY <1>8 DEF vars, TypeOK
<1> QED
  BY <1>1, <1>2, <1>3, <1>4, <1>5, <1>6, <1>7, <1>8 DEF Next, RankStep

LEMMA OwnProgramStep ==
  TypeOK /\ OwnProgram /\ [Next]_vars => OwnProgram'
<1> SUFFICES ASSUME TypeOK, OwnProgram, [Next]_vars PROVE OwnProgram'
  OBVIOUS
<1> USE DEF ConstructionLabels, CallLabels, Past
<1>1. ASSUME NEW r \in Ranks, Block(r) PROVE OwnProgram'
  BY <1>1 DEF Block, Goto, TypeOK, OwnProgram
<1>2. ASSUME NEW r \in Ranks, Build(r) PROVE OwnProgram'
  <2>1. CASE Compiling(r)
    BY <1>2, <2>1 DEF Build, Goto, TypeOK, OwnProgram
  <2>2. CASE ~Compiling(r)
    BY <1>2, <2>2, CompletesStep DEF Build, First, TypeOK, OwnProgram
  <2> QED BY <2>1, <2>2
<1>3. ASSUME NEW r \in Ranks, EnterBarrier(r) PROVE OwnProgram'
  BY <1>3 DEF EnterBarrier, Goto, TypeOK, OwnProgram
<1>4. ASSUME NEW r \in Ranks, Receive(r) PROVE OwnProgram'
  BY <1>4 DEF Receive, Goto, TypeOK, OwnProgram
<1>5. ASSUME NEW r \in Ranks, Run(r) PROVE OwnProgram'
  BY <1>5, CompletesStep DEF Run, First, TypeOK, OwnProgram
<1>6. ASSUME NEW r \in Ranks, Unblock(r) PROVE OwnProgram'
  <2>1. /\ pc'[r] \in {"unblock", "done", "run", First(r)}
        /\ pc'[r] = "run" => orchestration # "Python"
        /\ pc'[r] = First(r) => First(r) = "unblock" \/ orchestration = "Python"
        /\ \A q \in Ranks \ {r} : pc'[q] = pc[q]
    BY <1>6, CompletesStep DEF Unblock, Goto, TypeOK, First
  <2>2. arrived' = arrived /\ orchestration' = orchestration /\ Compiling(r) /\ pc[r] = "unblock"
    BY <1>6 DEF Unblock, OwnProgram
  <2> QED
    BY <2>1, <2>2 DEF First, TypeOK, OwnProgram
<1>7. CASE OpenBarrier
  BY <1>7 DEF OpenBarrier, AfterBarrier, TypeOK, OwnProgram
<1>8. CASE UNCHANGED vars
  BY <1>8 DEF vars, OwnProgram
<1> QED
  BY <1>1, <1>2, <1>3, <1>4, <1>5, <1>6, <1>7, <1>8 DEF Next, RankStep

-----------------------------------------------------------------------------
(* Nothing compiled is ever removed, and a compiling rank completes a step *)
(* only once it has built its part.                                        *)
LEMMA BuiltStep ==
  TypeOK /\ OwnProgram /\ Built /\ [Next]_vars => Built'
<1> SUFFICES ASSUME TypeOK, OwnProgram, Built, [Next]_vars, NEW q \in Ranks, Compiling(q)
             PROVE  /\ \A k \in 1..completed'[q] : <<q, k>> \in disk'
                    /\ pc'[q] \in {"barrier"} \cup Past => <<q, completed'[q] + 1>> \in disk'
  BY DEF Built, Step
<1> USE DEF Past
<1> DEFINE Goal == /\ \A k \in 1..completed'[q] : <<q, k>> \in disk'
                   /\ pc'[q] \in {"barrier"} \cup Past => <<q, completed'[q] + 1>> \in disk'
           Stays == /\ completed'[q] = completed[q]
                    /\ pc'[q] \in {"barrier"} \cup Past =>
                         pc[q] \in {"barrier"} \cup Past \/ <<q, completed[q] + 1>> \in disk'
           Ends == /\ completed'[q] = completed[q] + 1
                   /\ pc'[q] \in {"done", "build", "block", "call"}
                   /\ <<q, completed[q] + 1>> \in disk
<1>1. completed[q] \in Nat /\ \A k \in 1..completed[q] : <<q, k>> \in disk
  BY DEF TypeOK, Built
<1>2. pc[q] \in {"barrier"} \cup Past => <<q, completed[q] + 1>> \in disk
  BY DEF Built, Step
<1>3. ASSUME disk \subseteq disk', Stays \/ Ends PROVE Goal
  <2>1. CASE Stays
    BY <1>1, <1>2, <1>3, <2>1
  <2>2. CASE Ends
    <3>1. \A k \in 1..completed'[q] : k \in 1..completed[q] \/ k = completed[q] + 1
      BY <1>1, <2>2
    <3> QED
      BY <1>1, <1>3, <2>2, <3>1
  <2> QED BY <1>3, <2>1, <2>2
<1>4. ASSUME NEW r \in Ranks, Complete(r), orchestration' = orchestration,
             q = r => <<q, completed[q] + 1>> \in disk
      PROVE  Stays \/ Ends
  <2>1. CASE q = r
    BY <1>4, <2>1, CompletesStep DEF First
  <2>2. CASE q # r
    BY <1>4, <2>2, CompletesStep
  <2> QED BY <2>1, <2>2
<1> HIDE DEF Goal
<1>5. ASSUME NEW r \in Ranks, Block(r) PROVE Goal
  BY <1>3, <1>5 DEF Block, Goto, TypeOK
<1>6. ASSUME NEW r \in Ranks, Build(r) PROVE Goal
  <2>1. CASE Compiling(r)
    BY <1>3, <1>6, <2>1 DEF Build, Goto, Step, TypeOK
  <2>2. CASE ~Compiling(r)
    BY <1>3, <1>4, <1>6, <2>2 DEF Build
  <2> QED BY <2>1, <2>2
<1>7. ASSUME NEW r \in Ranks, EnterBarrier(r) PROVE Goal
  <2>1. Stays /\ disk \subseteq disk'
    BY <1>7 DEF EnterBarrier, Goto, Step, TypeOK
  <2> QED
    BY <1>3, <2>1
<1>8. ASSUME NEW r \in Ranks, Receive(r) PROVE Goal
  BY <1>3, <1>8 DEF Receive, Goto, TypeOK
<1>9. ASSUME NEW r \in Ranks, Run(r) PROVE Goal
  BY <1>2, <1>3, <1>4, <1>9 DEF Run
<1>10. ASSUME NEW r \in Ranks, Unblock(r) PROVE Goal
  <2>1. disk' = disk /\ orchestration' = orchestration /\ pc[r] = "unblock"
    BY <1>10 DEF Unblock
  <2>2. CASE tile[r] < 5
    BY <1>3, <1>10, <2>1, <2>2 DEF Unblock
  <2>3. CASE ~(tile[r] < 5) /\ orchestration = "Python"
    BY <1>2, <1>3, <1>4, <1>10, <2>1, <2>3 DEF Unblock
  <2>4. CASE ~(tile[r] < 5) /\ orchestration # "Python"
    BY <1>3, <1>10, <2>1, <2>4 DEF Unblock, Goto, TypeOK
  <2> QED BY <2>2, <2>3, <2>4
<1>11. ASSUME OpenBarrier PROVE Goal
  <2>1. pc[q] = "barrier"
    BY <1>11 DEF OpenBarrier, OwnProgram
  <2> QED
    BY <1>3, <1>11, <2>1 DEF OpenBarrier
<1>12. ASSUME UNCHANGED vars PROVE Goal
  BY <1>3, <1>12 DEF vars
<1> QED
  BY <1>5, <1>6, <1>7, <1>8, <1>9, <1>10, <1>11, <1>12 DEF Next, RankStep, Goal

(* All ranks pass a barrier at once. *)
LEMMA BarriersStep ==
  TypeOK /\ OwnProgram /\ BarriersPassedTogether /\ [Next]_vars => BarriersPassedTogether'
<1> SUFFICES ASSUME TypeOK, OwnProgram, BarriersPassedTogether, [Next]_vars,
                    orchestration' # "Python"
             PROVE  \A q, r \in Ranks : Passed(q)' = Passed(r)'
  BY DEF BarriersPassedTogether
<1> USE DEF Past
<1>1. orchestration' = orchestration /\ orchestration # "Python"
  BY DEF Next, RankStep, Block, Build, EnterBarrier, Receive, Run, Unblock, OpenBarrier, vars
<1>2. \A q, r \in Ranks : Passed(q) = Passed(r)
  BY <1>1 DEF BarriersPassedTogether
<1>3. \A q \in Ranks : completed[q] \in Nat /\ pc[q] \in CallLabels
  BY <1>1 DEF TypeOK, OwnProgram
<1>4. CASE OpenBarrier
  <2>1. \A q \in Ranks : pc[q] = "barrier" /\ pc'[q] \in Past /\ completed'[q] = completed[q]
    BY <1>1, <1>4 DEF OpenBarrier, AfterBarrier, OwnProgram
  <2>2. \A q \in Ranks : Passed(q) = completed[q] /\ Passed(q)' = completed[q] + 1
    BY <1>3, <2>1 DEF Passed
  <2> QED
    BY <1>2, <2>2
<1>5. ASSUME NEW r \in Ranks, RankStep(r) PROVE \A q \in Ranks : Passed(q)' = Passed(q)
  <2>1. ~Block(r) /\ ~Build(r)
    BY <1>3 DEF Block, Build, CallLabels
  <2>2. ASSUME EnterBarrier(r) PROVE \A q \in Ranks : Passed(q)' = Passed(q)
    BY <2>2 DEF EnterBarrier, Goto, Passed, TypeOK
  <2>3. ASSUME Receive(r) PROVE \A q \in Ranks : Passed(q)' = Passed(q)
    BY <2>3 DEF Receive, Goto, Passed, TypeOK
  <2>4. ASSUME Run(r) PROVE \A q \in Ranks : Passed(q)' = Passed(q)
    BY <1>1, <1>3, <2>4, CompletesStep DEF Run, First, Passed
  <2>5. ASSUME Unblock(r) PROVE \A q \in Ranks : Passed(q)' = Passed(q)
    BY <1>1, <2>5 DEF Unblock, Goto, Passed, TypeOK
  <2> QED
    BY <1>5, <2>1, <2>2, <2>3, <2>4, <2>5 DEF RankStep
<1>6. CASE UNCHANGED vars
  BY <1>2, <1>6 DEF vars, Passed
<1> QED
  BY <1>2, <1>4, <1>5, <1>6 DEF Next

-----------------------------------------------------------------------------
LEMMA OrchestrationStep ==
  [Next]_vars => orchestration' = orchestration
PROOF BY DEF Next, RankStep, Block, Build, EnterBarrier, Receive, Run, Unblock, OpenBarrier, vars

LEMMA OwnPathStep ==
  TypeOK /\ OwnProgram /\ OwnPath /\ [Next]_vars => OwnPath'
<1> SUFFICES ASSUME TypeOK, OwnProgram, OwnPath, [Next]_vars, orchestration' # "Python",
                    NEW s \in Ranks, Compiling(s), pc'[s] \in {"barrier"} \cup Past
             PROVE  path'[s] = <<s, completed'[s] + 1>>
  BY DEF OwnPath, Step
<1> USE DEF Past
<1>1. orchestration' = orchestration /\ orchestration # "Python"
  BY OrchestrationStep
<1>2. pc[s] \in {"barrier"} \cup Past => path[s] = <<s, completed[s] + 1>>
  BY <1>1 DEF OwnPath, Step
<1>3. pc[s] \in CallLabels
  BY <1>1 DEF OwnProgram
<1>4. ASSUME NEW r \in Ranks, RankStep(r) PROVE path'[s] = <<s, completed'[s] + 1>>
  <2>1. ~Block(r) /\ ~Build(r)
    BY <1>1 DEF Block, Build, OwnProgram, CallLabels
  <2>2. ASSUME EnterBarrier(r) PROVE path'[s] = <<s, completed'[s] + 1>>
    <3>1. CASE r = s
      BY <2>2, <3>1 DEF EnterBarrier, Step, TypeOK
    <3>2. CASE r # s
      BY <1>2, <2>2, <3>2 DEF EnterBarrier, Goto, TypeOK
    <3> QED BY <3>1, <3>2
  <2>3. ASSUME Receive(r) PROVE path'[s] = <<s, completed'[s] + 1>>
    BY <1>2, <2>3 DEF Receive, Goto, OwnProgram, TypeOK
  <2>4. ASSUME Run(r) PROVE path'[s] = <<s, completed'[s] + 1>>
    BY <1>1, <1>2, <2>4, CompletesStep DEF Run, First
  <2>5. ASSUME Unblock(r) PROVE path'[s] = <<s, completed'[s] + 1>>
    BY <1>1, <1>2, <2>5 DEF Unblock, Goto, TypeOK
  <2> QED
    BY <1>4, <2>1, <2>2, <2>3, <2>4, <2>5 DEF RankStep
<1>5. CASE OpenBarrier
  BY <1>1, <1>2, <1>5 DEF OpenBarrier, OwnProgram
<1>6. CASE UNCHANGED vars
  BY <1>2, <1>6 DEF vars
<1> QED
  BY <1>4, <1>5, <1>6 DEF Next

-----------------------------------------------------------------------------
(* What one step does to the channel from a rank's target: a rank gets     *)
(* its one path while it waits for it, and takes it.                       *)

LEMMA OnePathSent ==
  ASSUME TypeOK, OwnProgram, BarriersPassedTogether, OwnPath, orchestration # "Python",
         NEW r \in Ranks, NEW s \in Ranks, ~Compiling(r), OnePath(s, r),
         NEW x \in Ranks, Unblock(x)
  PROVE  OnePath(s, r)'
<1> DEFINE to == Unblocked(tile[x], x, Layout)
<1>1. Compiling(x) /\ x # r /\ pc[x] = "unblock" /\ tile[x] \in 1..5
  BY DEF Unblock, OwnProgram, TypeOK
<1>2. pc'[r] = pc[r] /\ completed'[r] = completed[r] /\ path' = path
  BY <1>1 DEF Unblock, Goto, TypeOK
<1>3. ASSUME NoMoreFor(s, r) PROVE NoMoreFor(s, r)'
  <2>1. CASE x = s
    BY <1>1, <1>3, <2>1 DEF NoMoreFor, Unblock, Goto, TypeOK
  <2>2. CASE x # s
    BY <1>3, <2>2 DEF NoMoreFor, Unblock, Goto, TypeOK
  <2> QED BY <2>1, <2>2
<1>4. CASE x # s \/ to # r
  <2>1. mail'[s][r] = mail[s][r]
    BY <1>4, SendsMessage
  <2> QED
    BY <1>2, <1>3, <2>1 DEF OnePath, Step
<1>5. CASE x = s /\ to = r
  <2>1. ~NoMoreFor(s, r)
    BY <1>1, <1>5 DEF NoMoreFor
  <2>2. pc[r] = "receive" /\ mail[s][r] = << >>
    BY <2>1 DEF OnePath
  <2>3. path[s] = <<s, Step(s)>>
    BY <1>1, <1>5 DEF OwnPath, Past
  <2>4. Step(s) = Step(r)
    <3>1. Passed(s) = Step(s) /\ Passed(r) = Step(r)
      BY <1>1, <1>5, <2>2 DEF Passed, Past, Step
    <3> QED
      BY <3>1 DEF BarriersPassedTogether
  <2>5. mail'[s][r] = << <<s, Step(r)>> >>
    <3>1. mail'[s][r] = Append(mail[s][r], path[s])
      BY <1>5, SendsMessage
    <3> QED
      BY <2>2, <2>3, <2>4, <3>1
  <2>6. s = Equivalent(r)
    BY <1>1, <1>5, UnblockedByItsEquivalent
  <2>7. NoMoreFor(s, r)'
    <3>1. ASSUME NEW t \in 1..5, tile[s] < t PROVE Unblocked(t, s, Layout) # r
      BY <1>1, <1>5, <3>1, UnblockedOnce, RanksAreNumbers
    <3>2. CASE tile[s] < 5
      BY <1>1, <1>5, <3>1, <3>2 DEF NoMoreFor, Unblock, TypeOK
    <3>3. CASE ~(tile[s] < 5)
      BY <1>5, <3>3 DEF NoMoreFor, Unblock, Goto, TypeOK
    <3> QED BY <3>2, <3>3
  <2> QED
    BY <1>2, <2>2, <2>5, <2>6, <2>7 DEF OnePath, Step
<1> QED
  BY <1>4, <1>5

LEMMA OnePathReceived ==
  ASSUME TypeOK, OwnProgram, NEW r \in Ranks, NEW s \in Ranks, s = TargetRank(r, Layout),
         OnePath(s, r), NEW x \in Ranks, Receive(x)
  PROVE  OnePath(s, r)'
<1>1. ASSUME NoMoreFor(s, r) PROVE NoMoreFor(s, r)'
  BY <1>1 DEF NoMoreFor, Receive, Goto, TypeOK
<1>2. CASE x = r
  <2>1. /\ mail[s][r] # << >>
        /\ mail'[s][r] = Tail(mail[s][r])
        /\ path'[r] = Head(mail[s][r])
        /\ pc'[r] = "run"
        /\ completed' = completed
    BY <1>2, ReceivesMessage DEF Receive, Goto, TypeOK
  <2>2. mail[s][r] = << <<s, Step(r)>> >> /\ s = Equivalent(r) /\ NoMoreFor(s, r)
    BY <2>1 DEF OnePath
  <2>3. mail'[s][r] = << >> /\ path'[r] = <<s, Step(r)>>
    BY <2>1, <2>2
  <2> QED
    BY <1>1, <2>1, <2>2, <2>3 DEF OnePath, Step
<1>3. CASE x # r
  <2>1. TargetRank(x, Layout) \in Ranks
    BY DEF Receive, ReceiveMessage
  <2>2. mail'[s][r] = mail[s][r]
    BY <1>3, <2>1, ReceivesMessage DEF Receive
  <2>3. pc'[r] = pc[r] /\ path'[r] = path[r] /\ completed' = completed
    BY <1>3 DEF Receive, Goto, TypeOK
  <2> QED
    BY <1>1, <2>2, <2>3 DEF OnePath, Step
<1> QED
  BY <1>2, <1>3

LEMMA OnePathStep ==
  TypeOK /\ OwnProgram /\ BarriersPassedTogether /\ OwnPath /\ OnePathPerCall /\ [Next]_vars
    => OnePathPerCall'
<1> SUFFICES ASSUME TypeOK, OwnProgram, BarriersPassedTogether, OwnPath, OnePathPerCall,
                    [Next]_vars, orchestration' # "Python",
                    NEW r \in Ranks, NEW s \in Ranks, ~Compiling(r), s = TargetRank(r, Layout)
             PROVE  OnePath(s, r)'
  BY DEF OnePathPerCall
<1>1. orchestration' = orchestration /\ orchestration # "Python"
  BY OrchestrationStep
<1>2. OnePath(s, r)
  BY <1>1 DEF OnePathPerCall
<1>3. ASSUME NEW x \in Ranks, EnterBarrier(x) PROVE OnePath(s, r)'
  <2>1. pc' = [pc EXCEPT ![x] = "barrier"] /\ path'[r] = path[r] /\ pc[x] = "call"
        /\ mail' = mail /\ tile' = tile /\ completed' = completed
    BY <1>3 DEF EnterBarrier, Goto, TypeOK
  <2> QED
    BY <1>2, <2>1 DEF OnePath, NoMoreFor, Step, TypeOK
<1>4. ASSUME NEW x \in Ranks, Receive(x) PROVE OnePath(s, r)'
  BY <1>2, <1>4, OnePathReceived
<1>5. ASSUME NEW x \in Ranks, Run(x) PROVE OnePath(s, r)'
  <2>1. /\ pc[x] = "run" /\ pc'[x] \in {"done", "call"}
        /\ \A q \in Ranks \ {x} : completed'[q] = completed[q] /\ pc'[q] = pc[q]
        /\ mail' = mail /\ path' = path /\ tile' = tile
    BY <1>1, <1>5, CompletesStep DEF Run, First
  <2>2. NoMoreFor(s, r) => NoMoreFor(s, r)'
    BY <2>1 DEF NoMoreFor
  <2>3. CASE x = r
    BY <1>2, <2>1, <2>2, <2>3 DEF OnePath
  <2>4. CASE x # r
    BY <1>2, <2>1, <2>2, <2>4 DEF OnePath, Step
  <2> QED BY <2>3, <2>4
<1>6. ASSUME NEW x \in Ranks, Unblock(x) PROVE OnePath(s, r)'
  BY <1>1, <1>2, <1>6, OnePathSent
<1>7. CASE OpenBarrier
  <2>1. pc[r] = "barrier" /\ mail'[s][r] = << >>
    BY <1>1, <1>2, <1>7 DEF OpenBarrier, OwnProgram, OnePath
  <2>2. CASE orchestration = "Build"
    BY <1>7, <2>1, <2>2 DEF OpenBarrier, AfterBarrier, OnePath, NoMoreFor
  <2>3. CASE orchestration # "Build"
    BY <1>7, <2>1, <2>3 DEF OpenBarrier, AfterBarrier, OnePath
  <2> QED BY <2>2, <2>3
<1>8. CASE UNCHANGED vars
  BY <1>2, <1>8 DEF vars, OnePath, NoMoreFor, Step
<1>9. ASSUME NEW x \in Ranks PROVE ~Block(x) /\ ~Build(x)
  BY <1>1 DEF Block, Build, OwnProgram, CallLabels, Past
<1> QED
  BY <1>3, <1>4, <1>5, <1>6, <1>7, <1>8, <1>9 DEF Next, RankStep

LEMMA RunnersStep ==
  TypeOK /\ OwnProgram /\ RunnersHaveTargets /\ [Next]_vars => RunnersHaveTargets'
<1> SUFFICES ASSUME TypeOK, OwnProgram, RunnersHaveTargets, [Next]_vars,
                    orchestration' # "Python", NEW r \in Ranks, ~Compiling(r), pc'[r] = "run"
             PROVE  TargetRank(r, Layout) \in Ranks
  BY DEF RunnersHaveTargets
<1>1. orchestration' = orchestration /\ orchestration # "Python"
  BY OrchestrationStep
<1>2. pc[r] = "run" => TargetRank(r, Layout) \in Ranks
  BY <1>1 DEF RunnersHaveTargets
<1>3. ASSUME NEW x \in Ranks, RankStep(x) PROVE pc[r] = "run" \/ Receive(r)
  <2>1. ASSUME Block(x) \/ Build(x) \/ EnterBarrier(x) PROVE pc[r] = "run"
    BY <1>1, <2>1, CompletesStep DEF Block, Build, EnterBarrier, Goto, First, TypeOK
  <2>2. ASSUME Receive(x) PROVE pc[r] = "run" \/ Receive(r)
    BY <2>2 DEF Receive, Goto, TypeOK
  <2>3. ASSUME Run(x) PROVE pc[r] = "run"
    BY <1>1, <2>3, CompletesStep DEF Run, First
  <2>4. ASSUME Unblock(x) PROVE pc[r] = "run"
    BY <1>1, <2>4 DEF Unblock, Goto, OwnProgram, TypeOK
  <2> QED
    BY <1>3, <2>1, <2>2, <2>3, <2>4 DEF RankStep
<1>4. CASE OpenBarrier
  BY <1>2, <1>4 DEF OpenBarrier, AfterBarrier
<1>5. CASE UNCHANGED vars
  BY <1>2, <1>5 DEF vars
<1> QED
  BY <1>2, <1>3, <1>4, <1>5 DEF Next, Receive, ReceiveMessage

-----------------------------------------------------------------------------
(* A rank is sent one ok a stencil, after its equivalent has built it. *)
LEMMA OkSent ==
  ASSUME TypeOK, OwnProgram, orchestration = "Python",
         NEW r \in Ranks, NEW e \in Ranks, ~Compiling(r), OksOf(e, r),
         NEW x \in Ranks, Unblock(x)
  PROVE  OksOf(e, r)'
<1> DEFINE to == Unblocked(tile[x], x, Layout)
           Held == completed[r] + (IF pc[r] = "build" THEN 1 ELSE 0)
           Sent == completed[e] + (IF HasSent(e, r) THEN 1 ELSE 0)
<1>1. Compiling(x) /\ x # r /\ pc[x] = "unblock" /\ tile[x] \in 1..5
  BY DEF Unblock, OwnProgram, TypeOK
<1>2. pc'[r] = pc[r] /\ completed'[r] = completed[r]
  BY <1>1, CompletesStep DEF Unblock, Goto, TypeOK
<1>3. completed[e] \in Nat /\ completed[r] \in Nat /\ Held \in Nat /\ Sent \in Nat
  BY DEF TypeOK
<1>4. Len(mail[e][r]) \in Nat /\ Len(mail[e][r]) + Held <= Sent
  BY <1>3 DEF OksOf, TypeOK
<1>5. completed'[e] \in Nat /\ Sent' \in Nat
  <2>1. completed' = completed \/ Complete(x)
    BY DEF Unblock
  <2>2. completed' \in [Ranks -> Nat]
    BY <2>1, CompletesStep DEF Unblock, TypeOK
  <2> QED BY <2>2
<1>6. CASE x # e
  <2>1. mail'[e][r] = mail[e][r]
    BY <1>6, SendsMessage
  <2>2. pc'[e] = pc[e] /\ tile'[e] = tile[e] /\ completed'[e] = completed[e]
    BY <1>6, CompletesStep DEF Unblock, Goto, TypeOK
  <2> QED
    BY <1>2, <2>1, <2>2 DEF OksOf, HasSent
<1>7. CASE x = e
  <2>1. Sent' >= completed[e] + (IF HasSent(e, r) \/ to = r THEN 1 ELSE 0)
    <3>1. CASE tile[e] < 5
      <4>1. tile'[e] = tile[e] + 1 /\ pc'[e] = "unblock" /\ completed'[e] = completed[e]
        BY <1>1, <1>7, <3>1 DEF Unblock, TypeOK
      <4>2. HasSent(e, r) \/ to = r => HasSent(e, r)'
        BY <1>1, <1>7, <4>1 DEF HasSent
      <4> QED
        BY <1>3, <4>1, <4>2
    <3>2. CASE ~(tile[e] < 5)
      <4>1. completed'[e] = completed[e] + 1
        BY <1>7, <3>2, CompletesStep DEF Unblock
      <4> QED
        BY <1>3, <4>1
    <3> QED BY <3>1, <3>2
  <2>2. CASE to # r
    <3>1. mail'[e][r] = mail[e][r]
      BY <1>7, <2>2, SendsMessage
    <3> QED
      BY <1>2, <1>3, <1>4, <1>5, <2>1, <2>2, <3>1 DEF OksOf
  <2>3. CASE to = r
    <3>1. mail'[e][r] = Append(mail[e][r], Finished)
      BY <1>7, <2>3, SendsMessage
    <3>2. Len(mail'[e][r]) = Len(mail[e][r]) + 1
      BY <3>1 DEF TypeOK
    <3>3. ~HasSent(e, r)
      BY <1>1, <1>7, <2>3, UnblockedOnce, RanksAreNumbers DEF HasSent
    <3>4. Sent' >= completed[e] + 1 /\ Len(mail[e][r]) + Held <= completed[e]
      BY <1>3, <1>4, <2>1, <2>3, <3>3
    <3>5. Len(mail'[e][r]) \in Nat /\ Len(mail'[e][r]) + Held <= Sent'
      <4> HIDE DEF Held, Sent
      <4> QED
        BY <1>3, <1>4, <1>5, <3>2, <3>4
    <3> QED
      BY <1>2, <1>3, <3>5 DEF OksOf
  <2> QED BY <2>2, <2>3
<1> QED
  BY <1>6, <1>7

LEMMA OksStep ==
  TypeOK /\ OwnProgram /\ OksCounted /\ [Next]_vars => OksCounted'
<1> SUFFICES ASSUME TypeOK, OwnProgram, OksCounted, [Next]_vars, orchestration' = "Python",
                    NEW r \in Ranks, NEW e \in Ranks, ~Compiling(r), e = Equivalent(r)
             PROVE  OksOf(e, r)'
  BY DEF OksCounted
<1>1. orchestration' = orchestration /\ orchestration = "Python"
  BY OrchestrationStep
<1>2. OksOf(e, r) /\ Compiling(e) /\ e # r
  BY <1>1, EquivalentCompiles DEF OksCounted
<1>3. /\ completed[r] \in Nat /\ completed[e] \in Nat
      /\ mail[e][r] \in Seq(Messages) /\ Len(mail[e][r]) \in Nat
  BY DEF TypeOK
<1>4. ASSUME NEW x \in Ranks, Block(x) PROVE OksOf(e, r)'
  <2>1. /\ Equivalent(x) \in Ranks /\ x # e /\ pc[x] = "block"
        /\ pc' = [pc EXCEPT ![x] = "build"] /\ tile' = tile /\ completed' = completed
    BY <1>2, <1>4 DEF Block, ReceiveMessage, Goto, OwnProgram
  <2>2. HasSent(e, r)' = HasSent(e, r)
    BY <2>1 DEF HasSent, TypeOK
  <2>3. CASE x = r
    <3>1. mail'[e][r] = Tail(mail[e][r]) /\ mail[e][r] # << >>
      BY <1>4, <2>1, <2>3, ReceivesMessage DEF Block
    <3>2. Len(mail'[e][r]) = Len(mail[e][r]) - 1
      BY <1>3, <3>1
    <3>3. pc'[r] = "build" /\ pc[r] = "block"
      BY <2>1, <2>3 DEF TypeOK
    <3> QED
      BY <1>2, <1>3, <2>1, <2>2, <3>2, <3>3 DEF OksOf
  <2>4. CASE x # r
    <3>1. mail'[e][r] = mail[e][r]
      BY <1>4, <2>1, <2>4, ReceivesMessage DEF Block
    <3>2. pc'[r] = pc[r]
      BY <2>1, <2>4 DEF TypeOK
    <3> QED
      BY <1>2, <2>1, <2>2, <3>1, <3>2 DEF OksOf
  <2> QED BY <2>3, <2>4
<1>5. ASSUME NEW x \in Ranks, Build(x) PROVE OksOf(e, r)'
  <2>1. pc[x] = "build" /\ mail' = mail /\ tile' = tile
    BY <1>5 DEF Build
  <2>2. CASE Compiling(x)
    <3>1. pc' = [pc EXCEPT ![x] = "unblock"] /\ completed' = completed /\ x # r
      BY <1>5, <2>2 DEF Build, Goto
    <3>2. pc'[r] = pc[r] /\ (HasSent(e, r) => HasSent(e, r)')
      BY <2>1, <3>1 DEF HasSent, TypeOK
    <3> QED
      BY <1>2, <1>3, <2>1, <3>1, <3>2 DEF OksOf
  <2>3. CASE ~Compiling(x)
    <3>1. /\ completed'[x] = completed[x] + 1 /\ pc'[x] \in {"done", "block"}
          /\ \A q \in Ranks \ {x} : completed'[q] = completed[q] /\ pc'[q] = pc[q]
      BY <1>1, <1>5, <2>3, CompletesStep DEF Build, First
    <3>2. completed'[e] = completed[e] /\ HasSent(e, r)' = HasSent(e, r)
      BY <1>2, <2>1, <2>3, <3>1 DEF HasSent
    <3>3. CASE x = r
      BY <1>2, <1>3, <2>1, <3>1, <3>2, <3>3 DEF OksOf
    <3>4. CASE x # r
      BY <1>2, <2>1, <3>1, <3>2, <3>4 DEF OksOf
    <3> QED BY <3>3, <3>4
  <2> QED BY <2>2, <2>3
<1>6. ASSUME NEW x \in Ranks, Unblock(x) PROVE OksOf(e, r)'
  BY <1>1, <1>2, <1>6, OkSent
<1>7. ~OpenBarrier /\ \A x \in Ranks : ~EnterBarrier(x) /\ ~Receive(x) /\ ~Run(x)
  BY <1>1 DEF OpenBarrier, EnterBarrier, Receive, Run, OwnProgram, ConstructionLabels
<1>8. CASE UNCHANGED vars
  BY <1>2, <1>8 DEF vars, OksOf, HasSent
<1> QED
  BY <1>4, <1>5, <1>6, <1>7, <1>8 DEF Next, RankStep

LEMMA BuildersStep ==
  TypeOK /\ OwnProgram /\ BuildersHaveEquivalents /\ [Next]_vars => BuildersHaveEquivalents'
<1> SUFFICES ASSUME TypeOK, OwnProgram, BuildersHaveEquivalents, [Next]_vars,
                    orchestration' = "Python", NEW r \in Ranks, ~Compiling(r), pc'[r] = "build"
             PROVE  Equivalent(r) \in Ranks
  BY DEF BuildersHaveEquivalents
<1>1. orchestration' = orchestration /\ orchestration = "Python"
  BY OrchestrationStep
<1>2. pc[r] = "build" => Equivalent(r) \in Ranks
  BY <1>1 DEF BuildersHaveEquivalents
<1>3. ~OpenBarrier /\ \A x \in Ranks : ~EnterBarrier(x) /\ ~Receive(x) /\ ~Run(x)
  BY <1>1 DEF OpenBarrier, EnterBarrier, Receive, Run, OwnProgram, ConstructionLabels
<1>4. ASSUME NEW x \in Ranks, Block(x) PROVE pc[r] = "build" \/ Block(r)
  BY <1>4 DEF Block, Goto, TypeOK
<1>5. ASSUME NEW x \in Ranks, Build(x) PROVE pc[r] = "build"
  <2>1. CASE Compiling(x)
    BY <1>5, <2>1 DEF Build, Goto, TypeOK
  <2>2. CASE ~Compiling(x)
    BY <1>1, <1>5, <2>2, CompletesStep DEF Build, First
  <2> QED BY <2>1, <2>2
<1>6. ASSUME NEW x \in Ranks, Unblock(x) PROVE pc[r] = "build"
  BY <1>1, <1>6, CompletesStep DEF Unblock, First, OwnProgram
<1>7. CASE UNCHANGED vars
  BY <1>2, <1>7 DEF vars
<1> QED
  BY <1>2, <1>3, <1>4, <1>5, <1>6, <1>7 DEF Next, RankStep, Block, ReceiveMessage

-----------------------------------------------------------------------------
(* The strengthened invariant is an invariant. *)
THEOREM Invariant == Spec => []IInv
<1>1. IInv /\ [Next]_vars => IInv'
  BY TypeStep, OwnProgramStep, BuiltStep, BarriersStep, OwnPathStep, OnePathStep, RunnersStep,
     OksStep, BuildersStep DEF IInv
<1> QED
  BY InitInvariant, <1>1, PTL DEF Spec

(* Every variable of the compilation stays in its type. *)
THEOREM TypeCorrect == Spec => []TypeOK
<1>1. IInv => TypeOK
  BY DEF IInv
<1> QED
  BY Invariant, <1>1, PTL

(* No rank leaves the barrier of a call of an orchestrated function while  *)
(* a compiling rank has not built its part of that call.                   *)
LEMMA PassedBarrierIsBuilt ==
  IInv => BarrierSeparates
<1> SUFFICES ASSUME IInv, orchestration # "Python", NEW r \in Ranks, NEW q \in Ranks,
                    pc[r] \in Past, Compiling(q)
             PROVE  <<q, Step(r)>> \in disk
  BY DEF BarrierSeparates, Past
<1>1. completed[r] \in Nat /\ completed[q] \in Nat
  BY DEF IInv, TypeOK
<1>2. Passed(r) = Step(r) /\ Passed(q) = Passed(r)
  BY DEF IInv, BarriersPassedTogether, Passed, Step
<1>3. CASE pc[q] \in Past
  <2>1. Step(q) = Step(r)
    BY <1>2, <1>3 DEF Passed, Step
  <2> QED
    BY <1>3, <2>1 DEF IInv, Built
<1>4. CASE pc[q] \notin Past
  <2>1. completed[q] = Step(r) /\ Step(r) \in 1..completed[q]
    BY <1>1, <1>2, <1>4 DEF Passed, Step
  <2> QED
    BY <2>1 DEF IInv, Built
<1> QED
  BY <1>3, <1>4

THEOREM BuiltBeforeTheBarrier == Spec => []BarrierSeparates
PROOF BY Invariant, PassedBarrierIsBuilt, PTL

(* A rank runs the SDFG that the rank at its place of the first tile built *)
(* for this very call, on any layout: messages of an earlier call are gone.*)
THEOREM RunsWhatWasBuiltForIt == Spec => []RunsItsOwnBuild
<1>1. IInv => RunsItsOwnBuild
  <2> SUFFICES ASSUME IInv, NEW r \in Ranks, pc[r] = "run"
               PROVE  path[r] \in disk /\ path[r] = <<Equivalent(r), Step(r)>>
    BY DEF RunsItsOwnBuild
  <2>1. orchestration # "Python"
    BY DEF IInv, OwnProgram, ConstructionLabels
  <2>2. CASE Compiling(r)
    BY <2>1, <2>2, EquivalentCompiles DEF IInv, OwnPath, Built, Past
  <2>3. CASE ~Compiling(r)
    <3>1. TargetRank(r, Layout) \in Ranks
      BY <2>1, <2>3 DEF IInv, RunnersHaveTargets
    <3>2. path[r] = <<Equivalent(r), Step(r)>> /\ Equivalent(r) \in Ranks
      BY <2>1, <2>3, <3>1 DEF IInv, OnePathPerCall, OnePath
    <3>3. Compiling(Equivalent(r))
      BY EquivalentCompiles
    <3> QED
      BY <2>1, <3>2, <3>3, PassedBarrierIsBuilt DEF BarrierSeparates
  <2> QED BY <2>2, <2>3
<1> QED
  BY Invariant, <1>1, PTL

(* A rank that waited for an ok before a stencil goes on only when the     *)
(* compiling equivalent has compiled that stencil: the oks say nothing of  *)
(* the stencil and may pile up, but are never ahead of the compilations.   *)
THEOREM WaitersAreNotMisled == Spec => []WaitersFindItCompiled
<1>1. IInv => WaitersFindItCompiled
  <2> SUFFICES ASSUME IInv, NEW r \in Ranks, ~Compiling(r), pc[r] = "build"
               PROVE  <<Equivalent(r), Step(r)>> \in disk
    BY DEF WaitersFindItCompiled
  <2> DEFINE e == Equivalent(r)
  <2>1. orchestration = "Python"
    BY DEF IInv, OwnProgram, CallLabels, Past
  <2>2. e \in Ranks /\ Compiling(e)
    BY <2>1, EquivalentCompiles DEF IInv, BuildersHaveEquivalents
  <2>3. OksOf(e, r)
    BY <2>1, <2>2 DEF IInv, OksCounted
  <2>4. Len(mail[e][r]) \in Nat /\ completed[r] \in Nat /\ completed[e] \in Nat
    BY <2>2 DEF IInv, TypeOK
  <2>5. Step(r) <= completed[e] + (IF HasSent(e, r) THEN 1 ELSE 0)
    BY <2>3, <2>4 DEF OksOf, Step
  <2>6. CASE Step(r) \in 1..completed[e]
    BY <2>2, <2>6 DEF IInv, Built
  <2>7. CASE Step(r) \notin 1..completed[e]
    <3>1. HasSent(e, r) /\ Step(r) = Step(e)
      BY <2>4, <2>5, <2>7 DEF Step
    <3> QED
      BY <2>2, <3>1 DEF IInv, Built, HasSent, Past
  <2> QED BY <2>6, <2>7
<1> QED
  BY Invariant, <1>1, PTL
=============================================================================
