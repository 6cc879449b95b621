----------------------------- MODULE HaloValidity -----------------------------
(***************************************************************************)
(* One rank executes a program of StencilProgram while all the others      *)
(* execute the same one, and what is followed is how far around its        *)
(* domain each field is fresh: equal to what the rank that owns the cell   *)
(* holds there.  A stencil makes its output fresh where it sets it from    *)
(* fresh cells only.  A halo update makes the halo fresh if the fields it  *)
(* packed were fresh, and did not change before it was waited for.         *)
(***************************************************************************)
EXTENDS StencilProgram

CONSTANTS
  Configs,    \* the places, levels and options of a rank
  Programs,   \* its statements: Programs[c] is a sequence for each c \in Configs
  Interiors,  \* Interiors[f] is the rectangle of the cells of f the rank owns,
              \*   for the fields that are exchanged, given or handed over
  Updaters,   \* Updaters[x] holds the fields that x exchanges and how deep
  Given,      \* the fields that are fresh on the rank's own cells at the start
  Results     \* those the rank hands over at the end

VARIABLES
  config,     \* the configuration this behaviour runs
  pc,         \* the statement that is next
  valid,      \* valid[f] is a rectangle on which f is fresh, if there is one
  sent,       \* sent[x], for an updater under way: the fields its neighbours
              \*   will find as they are now
  raised      \* an updater was started twice or waited for while idle

vars == <<config, pc, valid, sent, raised>>

Program == Programs[config]
Statement == Program[pc]
Finished == pc > Len(Program)
InFlight == DOMAIN sent

Sides == {"w", "e", "s", "n"}

-----------------------------------------------------------------------------
Fresh(f) == IF f \in DOMAIN valid THEN valid[f] ELSE Nowhere

(* The rows a stencil leaves fresh on a side: those it sets, as far as     *)
(* all its reads are fresh.                                                *)
FreshRows(stmt, side) ==
  Max({None, Min({stmt.on[side]} \cup {Fresh(r[1])[side] - r[2][side] : r \in stmt.reads})})

FreshRegion(stmt) ==
  IF \A need \in stmt.needs : Covers(Fresh(need[1]), need[2])
  THEN [side \in Sides |-> FreshRows(stmt, side)]
  ELSE Nowhere

(* The rectangle both hold, and the interior with the halo around it. *)
Common(a, b) == [side \in Sides |-> IF a[side] < b[side] THEN a[side] ELSE b[side]]
WithHalo(f, width) == [side \in Sides |-> Interiors[f][side] + width]

OwnFresh(f) == Covers(Fresh(f), Interiors[f])

-----------------------------------------------------------------------------
Init ==
  /\ config \in Configs
  /\ pc = 1
  /\ valid = [f \in Given |-> Interiors[f]]
  /\ sent = << >>
  /\ raised = FALSE

Advance ==
  /\ ~ raised
  /\ ~ Finished
  /\ pc' = pc + 1
  /\ UNCHANGED config

(* What was packed before this is not what the neighbours should find. *)
Compute ==
  /\ Advance
  /\ Statement.kind = "compute"
  /\ LET stmt == Statement
         region == FreshRegion(stmt)
     IN  /\ valid' = [f \in DOMAIN valid \cup stmt.fields |->
                        IF f \in stmt.fields THEN region ELSE valid[f]]
         /\ sent' = [x \in InFlight |-> sent[x] \ stmt.fields]
  /\ UNCHANGED raised

Start ==
  /\ Advance
  /\ Statement.kind = "start"
  /\ LET x == Statement.updater
     IN  IF x \in InFlight
         THEN raised' = TRUE /\ UNCHANGED sent
         ELSE /\ sent' = [y \in InFlight \cup {x} |->
                            IF y = x THEN {f \in Updaters[x].fields : OwnFresh(f)} ELSE sent[y]]
              /\ UNCHANGED raised
  /\ UNCHANGED valid

Wait ==
  /\ Advance
  /\ Statement.kind = "wait"
  /\ LET x == Statement.updater
     IN  IF x \notin InFlight
         THEN raised' = TRUE /\ UNCHANGED <<sent, valid>>
         ELSE /\ sent' = [y \in InFlight \ {x} |-> sent[y]]
              /\ valid' = [f \in DOMAIN valid \cup Updaters[x].fields |->
                             IF f \notin Updaters[x].fields THEN valid[f]
                             ELSE IF f \in sent[x] THEN WithHalo(f, Updaters[x].width)
                             ELSE Common(Fresh(f), Interiors[f])]
              /\ UNCHANGED raised

(* The ranks on the two sides of a face agree on the wind across it. *)
SynchronizeInterface ==
  /\ Advance
  /\ Statement.kind = "interface"
  /\ valid' = [f \in DOMAIN valid \cup Statement.fields |->
                 IF f \notin Statement.fields THEN valid[f]
                 ELSE IF OwnFresh(f) THEN Interiors[f] ELSE Nowhere]
  /\ UNCHANGED <<sent, raised>>

Terminated == (Finished \/ raised) /\ UNCHANGED vars

Next == Compute \/ Start \/ Wait \/ SynchronizeInterface \/ Terminated

Spec == Init /\ [][Next]_vars

-----------------------------------------------------------------------------
(***************************************************************************)
(* Types: a field is fresh on a rectangle of its array, which has three    *)
(* rows of halo cells on a side and one more for a face; the exchanges     *)
(* under way are some of the updaters', each with some of its fields.      *)
(***************************************************************************)
Rectangles == [Sides -> None..4]
TypeOK ==
  /\ config \in Configs
  /\ pc \in 1..Len(Program) + 1
  /\ valid \in [DOMAIN valid -> Rectangles]
  /\ InFlight \subseteq DOMAIN Updaters
  /\ sent = [x \in InFlight |-> sent[x]]
  /\ \A x \in InFlight : sent[x] \subseteq Updaters[x].fields
  /\ raised \in BOOLEAN

(***************************************************************************)
(* No statement ever computes a rank's own values of the fields that are   *)
(* carried from step to step from halo cells nobody brought up to date:    *)
(* every stencil between here and there had enough halo, in every place of *)
(* a rank on its tile.                                                     *)
(***************************************************************************)
CarriedFieldsStayFresh == \A f \in Given : OwnFresh(f)

(***************************************************************************)
(* What an updater packed is fresh when it is packed and stays what the    *)
(* rank holds until the halos are filled: nothing writes a field while it  *)
(* is exchanged, however much runs between start and wait.                 *)
(***************************************************************************)
ExchangesAreCurrent == \A x \in InFlight : sent[x] = Updaters[x].fields

(***************************************************************************)
(* No updater is started again while its exchange is under way or waited   *)
(* for while idle, in any number of steps, and none is left under way at   *)
(* the end, when the buffers it holds would be lost.                       *)
(***************************************************************************)
ExchangesEnd == ~ raised /\ (Finished => InFlight = {})

(***************************************************************************)
(* All that the physics and the diagnostics read after the step is fresh.  *)
(***************************************************************************)
ResultsAreFresh == Finished => \A f \in Results : OwnFresh(f)
=============================================================================
