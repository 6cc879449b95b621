---------------------------- MODULE HaloExchange ----------------------------
(***************************************************************************)
(* What a halo exchange promises its callers, without messages, buffers or *)
(* tags.  A start fixes the values a rank offers; the matching wait returns *)
(* no sooner than every neighbour has reached its own start, and then the  *)
(* halo holds exactly what each neighbour offered there.                   *)
(***************************************************************************)
EXTENDS HaloProgram

CONSTANT Programs

VARIABLES program, pc, raised, halo

vars == <<program, pc, raised, halo>>

(* An exchange of object o is under way after k operations. *)
UnderWay(o, k) ==
  LastIndex(k, LAMBDA j : program[j].obj = o /\ program[j].kind \in {"start", "sync_start"})
    > LastIndex(k, LAMBDA j : program[j].obj = o /\ program[j].kind \in {"wait", "sync_wait"})

Finished(o, k) == \E j \in 1..k : program[j].obj = o /\ program[j].kind = "wait"

(* start before the previous wait, or on a spent updater; wait before start. *)
Misused(k) ==
  LET op == program[k]
  IN  \/ op.kind = "start" /\ \/ UnderWay(op.obj, k - 1)
                              \/ /\ op.obj \in OneShot
                                 /\ Finished(op.obj, k - 1)
      \/ op.kind = "wait" /\ ~UnderWay(op.obj, k - 1)

Fail(r) ==
  /\ ~raised[r] /\ pc[r] < Len(program)
  /\ Misused(pc[r] + 1)
  /\ raised' = [raised EXCEPT ![r] = TRUE]
  /\ UNCHANGED <<program, pc, halo>>

Complete(r) ==
  LET k == pc[r] + 1
      op == program[k]
      start == StartOf(program, k)
      field == program[start].field
  IN  /\ ~raised[r] /\ pc[r] < Len(program)
      /\ ~Misused(k)
      /\ pc' = [pc EXCEPT ![r] = k]
      /\ IF op.kind \in {"wait", "sync_wait"}
         THEN /\ \A n \in SourcesOf(op.kind, r) : pc[n] + 1 >= start
              /\ halo' = [halo EXCEPT ![r][field] =
                            [n \in Ranks |->
                               IF n \in SourcesOf(op.kind, r)
                               THEN [rank |-> n, ver |-> VersionAt(program, field, start)]
                               ELSE @[n]]]
         ELSE UNCHANGED halo
      /\ UNCHANGED <<program, raised>>

Init ==
  /\ program \in Programs
  /\ pc = [r \in Ranks |-> 0]
  /\ raised = [r \in Ranks |-> FALSE]
  /\ halo = [r \in Ranks |-> [f \in Fields |-> [n \in Ranks |-> Zeros]]]

Next == \E r \in Ranks : Fail(r) \/ Complete(r)

Spec == Init /\ [][Next]_vars
=============================================================================
