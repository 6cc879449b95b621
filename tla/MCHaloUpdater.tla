--------------------------- MODULE MCHaloUpdater ---------------------------
(***************************************************************************)
(* Instances of HaloUpdater: every short program that uses its objects as  *)
(* Python code can (no object used before it exists or after it is gone),  *)
(* including the ones that end in an exception.                            *)
(***************************************************************************)
EXTENDS HaloUpdater, TLC

CONSTANTS ProgramLength, rank1, rank2, reused, oneshot, request, qty

(* Two ranks that are each other's neighbour. *)
MCPairNeighbors == [r \in Ranks |-> Ranks \ {r}]

MCOp(kind, obj) == [kind |-> kind, obj |-> obj, field |-> qty]

Did(p, kind, obj) == \E k \in 1..Len(p) : p[k].kind = kind /\ p[k].obj = obj

Under(p, obj) ==   \* an exchange of obj is under way after program p
  LET last(kinds) == LastIndex(Len(p), LAMBDA k : p[k].obj = obj /\ p[k].kind \in kinds)
  IN  last({"start"}) > last({"wait"})

UsedUp(p, obj) == obj \in OneShot /\ Did(p, "wait", obj)

WillRaise(p, op) ==
  \/ op.kind = "start" /\ (Under(p, op.obj) \/ UsedUp(p, op.obj))
  \/ op.kind = "wait" /\ ~Under(p, op.obj)

Stopped(p) == p # <<>> /\ WillRaise(SubSeq(p, 1, Len(p) - 1), p[Len(p)])

Follows(p, op) ==
  /\ ~Stopped(p)
  /\ op.kind = "create" => ~Did(p, "create", op.obj)
  /\ op.kind \in {"start", "wait", "delete"} =>
       Did(p, "create", op.obj) /\ ~Did(p, "delete", op.obj)
  /\ op.kind = "delete" => ~Under(p, op.obj)
  /\ op.kind = "sync_start" => ~Did(p, "sync_start", op.obj)
  /\ op.kind = "sync_wait" => Did(p, "sync_start", op.obj) /\ ~Did(p, "sync_wait", op.obj)
  /\ op.kind = "write" => p # <<>> /\ p[Len(p)].kind # "write"

MCOps ==
  {MCOp(kind, obj) : kind \in UpdaterOps, obj \in Updaters} \cup
  {MCOp(kind, obj) : kind \in RequestOps, obj \in Requests} \cup {MCOp("write", "none")}

WellFormed[n \in Nat] ==
  IF n = 0 THEN {<<>>}
  ELSE LET shorter == WellFormed[n - 1]
       IN  {p \in shorter : Stopped(p)} \cup
           UNION {{Append(p, op) : op \in {o \in MCOps : Follows(p, o)}} : p \in shorter}

(***************************************************************************)
(* Longer programs, the ways pace overlaps exchanges: a persistent updater *)
(* used again, an interface exchange and a one-shot update inside its      *)
(* start and wait, buffers reused while other messages are pending.        *)
(***************************************************************************)
MCIdioms == {
  << MCOp("create", reused), MCOp("start", reused), MCOp("sync_start", request), MCOp("write", "none"),
     MCOp("sync_wait", request), MCOp("wait", reused) >>,
  << MCOp("create", reused), MCOp("sync_start", request), MCOp("start", reused), MCOp("write", "none"),
     MCOp("wait", reused), MCOp("sync_wait", request) >>,
  << MCOp("write", "none"), MCOp("create", reused), MCOp("start", reused), MCOp("write", "none"),
     MCOp("wait", reused), MCOp("start", reused), MCOp("write", "none"), MCOp("wait", reused) >>,
  << MCOp("create", oneshot), MCOp("start", oneshot), MCOp("wait", oneshot), MCOp("sync_start", request),
     MCOp("create", reused), MCOp("start", reused), MCOp("sync_wait", request), MCOp("wait", reused) >>,
  << MCOp("create", reused), MCOp("create", oneshot), MCOp("start", reused), MCOp("write", "none"),
     MCOp("start", oneshot), MCOp("wait", oneshot), MCOp("wait", reused), MCOp("start", oneshot) >>,
  << MCOp("create", reused), MCOp("delete", reused), MCOp("create", oneshot), MCOp("start", oneshot),
     MCOp("sync_start", request), MCOp("wait", oneshot), MCOp("sync_wait", request), MCOp("delete", oneshot) >> }

MCPrograms == WellFormed[ProgramLength] \cup MCIdioms

=============================================================================
