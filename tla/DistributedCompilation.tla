------------------------ MODULE DistributedCompilation ------------------------
(***************************************************************************)
(* Ranks that compile for others.  Under the orchestration "Python" with   *)
(* minimal caching the constructor of FrozenStencil compiles, a rank that  *)
(* does not compile waiting for a message before each stencil.  Under      *)
(* "Build" and "BuildAndRun" a call of an orchestrated function does       *)
(* (_build_sdfg): the compiling ranks build the SDFG, all ranks meet in a  *)
(* barrier, then they exit or exchange the path of the build and run it.   *)
(* All ranks construct the same stencils, or make the same calls, in the   *)
(* same order: these are the steps.                                        *)
(***************************************************************************)
EXTENDS CompilingRanks, Sequences

CONSTANTS Layout,       \* the square layout of the cubed sphere
          Ranks,        \* the ranks modelled
          Modes,        \* the orchestrations
          Steps         \* how many stencils are constructed, or calls made

ASSUME StepsAssumption == Steps \in Nat \ {0}

ASSUME RanksAssumption ==
  /\ Layout \in (Nat \ {0}) \X (Nat \ {0})
  /\ Ranks \subseteq 0..(TotalRanks(Layout) - 1)

VARIABLES
  orchestration,\* that of this program
  pc,           \* what each rank does next
  completed,    \* steps each rank has completed
  tile,         \* the next tile a compiling rank unblocks
  arrived,      \* ranks waiting in the barrier
  mail,         \* messages sent and not received, in order
  path,         \* the build each rank runs
  disk          \* compiled code on disk: pairs <<rank, step>>

vars == <<orchestration, pc, completed, tile, arrived, mail, path, disk>>

Compiling(rank) == IsCompiling(rank, Layout)

Equivalent(rank) == CompilingEquivalent(rank, Layout, "BuildAndRun")

NoPath == << >>

(* The message of a FrozenStencil says nothing but that it was compiled. *)
Finished == <<"compilation finished">>

(* Where a step begins: every rank waits, the compiling one for itself. *)
FirstWaiting(rank) == IF orchestration = "Python" THEN "block" ELSE "call"

First(rank) ==
  IF orchestration # "Python" THEN "call"
  ELSE IF Compiling(rank) THEN "build" ELSE "block"

Init ==
  /\ orchestration \in Modes
  /\ pc = [r \in Ranks |-> First(r)]
  /\ completed = [r \in Ranks |-> 0]
  /\ tile = [r \in Ranks |-> 1]
  /\ arrived = {}
  /\ mail = [from \in Ranks |-> [to \in Ranks |-> << >>]]
  /\ path = [r \in Ranks |-> NoPath]
  /\ disk = {}

Step(rank) == completed[rank] + 1

Goto(rank, label) == pc' = [pc EXCEPT ![rank] = label]

(* On to the next step, if there is one. *)
Complete(rank) ==
  /\ completed' = [completed EXCEPT ![rank] = @ + 1]
  /\ Goto(rank, IF Step(rank) = Steps THEN "done" ELSE First(rank))

(* comm.recv(source): a rank that is not modelled sends nothing here. *)
ReceiveMessage(rank, source) ==
  /\ source \in Ranks
  /\ mail[source][rank] # << >>
  /\ mail' = [mail EXCEPT ![source][rank] = Tail(@)]

-----------------------------------------------------------------------------
(* The constructor of FrozenStencil: block_waiting_for_compilation, ... *)

Block(rank) ==
  /\ pc[rank] = "block"
  /\ ReceiveMessage(rank, Equivalent(rank))
  /\ Goto(rank, "build")
  /\ UNCHANGED <<orchestration, completed, tile, arrived, path, disk>>

(* The other ranks let go before the stencil is built. *)
BuildAfterUnblock(rank) ==
  /\ pc[rank] = "build"
  /\ IF Compiling(rank) THEN Goto(rank, "unblock") /\ UNCHANGED <<completed, disk>>
     ELSE Complete(rank) /\ disk' = disk \cup {<<rank, Step(rank)>>}
  /\ UNCHANGED <<orchestration, tile, arrived, mail, path>>

(***************************************************************************)
(* ... gtscript.stencil, ...  The import of pace.dsl has named the cache   *)
(* directory after the rank and RunMode Run alone points it elsewhere, so  *)
(* a rank that waited compiles the stencil too, in its own directory.      *)
(***************************************************************************)
Build(rank) ==
  /\ pc[rank] = "build"
  /\ disk' = disk \cup {<<rank, Step(rank)>>}
  /\ IF Compiling(rank) THEN Goto(rank, "unblock") /\ UNCHANGED completed
     ELSE Complete(rank)
  /\ UNCHANGED <<orchestration, tile, arrived, mail, path>>

-----------------------------------------------------------------------------
(* A call of an orchestrated function. *)

(* Build if compiling, then enter the barrier. *)
EnterBarrier(rank) ==
  /\ pc[rank] = "call"
  /\ IF Compiling(rank)
     THEN /\ disk' = disk \cup {<<rank, Step(rank)>>}
          /\ path' = [path EXCEPT ![rank] = <<rank, Step(rank)>>]
     ELSE UNCHANGED <<disk, path>>
  /\ arrived' = arrived \cup {rank}
  /\ Goto(rank, "barrier")
  /\ UNCHANGED <<orchestration, completed, tile, mail>>

AfterBarrier(rank) ==
  IF orchestration = "Build" THEN "exited"
  ELSE IF Compiling(rank) THEN "unblock" ELSE "receive"

(* The barrier of the ranks that do not compile. *)
OpenBarrierApart ==
  /\ {r \in Ranks : ~Compiling(r)} \subseteq arrived
  /\ arrived' = {}
  /\ pc' = [r \in Ranks |-> IF r \in arrived THEN AfterBarrier(r) ELSE pc[r]]
  /\ UNCHANGED <<orchestration, completed, tile, mail, path, disk>>

(* The barrier opens when the last rank arrives. *)
OpenBarrier ==
  /\ arrived = Ranks
  /\ arrived' = {}
  /\ pc' = [r \in Ranks |-> AfterBarrier(r)]
  /\ UNCHANGED <<orchestration, completed, tile, mail, path, disk>>

(* A build once loaded is kept. *)
ReceiveOnce(rank) ==
  LET source == TargetRank(rank, Layout) IN
  /\ pc[rank] = "receive"
  /\ ReceiveMessage(rank, source)
  /\ path' = [path EXCEPT ![rank] = IF @ = NoPath THEN Head(mail[source][rank]) ELSE @]
  /\ Goto(rank, "run")
  /\ UNCHANGED <<orchestration, completed, tile, arrived, disk>>

(* source_rank = config.target_rank; the SDFG at the path is loaded. *)
Receive(rank) ==
  LET source == TargetRank(rank, Layout) IN
  /\ pc[rank] = "receive"
  /\ ReceiveMessage(rank, source)
  /\ path' = [path EXCEPT ![rank] = Head(mail[source][rank])]
  /\ Goto(rank, "run")
  /\ UNCHANGED <<orchestration, completed, tile, arrived, disk>>

Run(rank) ==
  /\ pc[rank] = "run"
  /\ Complete(rank)
  /\ UNCHANGED <<orchestration, tile, arrived, mail, path, disk>>

-----------------------------------------------------------------------------
(***************************************************************************)
(* unblock_waiting_tiles: one send per tile, of a message small enough to  *)
(* need no receiver yet.  Sends to ranks not modelled are of no matter.    *)
(***************************************************************************)
Unblock(rank) ==
  LET to      == Unblocked(tile[rank], rank, Layout)
      message == IF orchestration = "Python" THEN Finished ELSE path[rank]
  IN
  /\ pc[rank] = "unblock"
  /\ mail' = IF to \in Ranks THEN [mail EXCEPT ![rank][to] = Append(@, message)] ELSE mail
  /\ tile' = [tile EXCEPT ![rank] = IF @ = 5 THEN 1 ELSE @ + 1]
  /\ IF tile[rank] < 5 THEN UNCHANGED <<pc, completed>>
     ELSE IF orchestration = "Python" THEN Complete(rank)
     ELSE Goto(rank, "run") /\ UNCHANGED completed
  /\ UNCHANGED <<orchestration, arrived, path, disk>>

RankStep(rank) ==
  \/ Block(rank)
  \/ Build(rank)
  \/ EnterBarrier(rank)
  \/ Receive(rank)
  \/ Run(rank)
  \/ Unblock(rank)

Next == (\E rank \in Ranks : RankStep(rank)) \/ OpenBarrier

Spec == Init /\ [][Next]_vars

(* Every process keeps running: none waits but for a message or the barrier. *)
FairSpec == Spec /\ WF_vars(OpenBarrier) /\ \A rank \in Ranks : WF_vars(RankStep(rank))

-----------------------------------------------------------------------------
(***************************************************************************)
(* A rank that waited for the ok of its compiling equivalent goes on only  *)
(* once the equivalent has compiled that very stencil: the messages say    *)
(* nothing of the stencil, they are counted.                               *)
(***************************************************************************)
WaitersFindItCompiled ==
  \A r \in Ranks : (~Compiling(r) /\ pc[r] = "build") =>
    <<Equivalent(r), Step(r)>> \in disk

(***************************************************************************)
(* What a rank runs was built for the same call, by the rank at the same   *)
(* place of the first tile, and is on disk.                                *)
(***************************************************************************)
RunsItsOwnBuild ==
  \A r \in Ranks : pc[r] = "run" =>
    path[r] \in disk /\ path[r] = <<Equivalent(r), Step(r)>>

(***************************************************************************)
(* No rank leaves the barrier of a call while another has yet to build its *)
(* part: whoever is past it finds every builder past its compilation.      *)
(***************************************************************************)
BarrierSeparates ==
  orchestration # "Python" =>
    \A r, q \in Ranks :
      (pc[r] \in {"unblock", "receive", "run", "exited"} /\ Compiling(q)) =>
        <<q, Step(r)>> \in disk

(***************************************************************************)
(* Every rank gets to the end: under "Python" all its stencils are         *)
(* constructed, under "Build" it exits, under "BuildAndRun" ("compile &    *)
(* save SDFG, then run") it runs every call.                               *)
(***************************************************************************)
EveryRankEnds == <>(\A r \in Ranks : pc[r] \in {"done", "exited"})
=============================================================================
