-------------------------------- MODULE Driver --------------------------------
(***************************************************************************)
(* The driver of a simulation (pace.driver): each rank loads its state,    *)
(* steps it forward, and after a step stores diagnostics, checks the state *)
(* and may write it to disk, as it does once more at the end, also after   *)
(* an exception.  A job may be killed at any moment and launched again,    *)
(* from a directory whose restart.yaml is there.  Ranks meet in the halo   *)
(* exchanges of a step and the gathers of the diagnostics only: nobody     *)
(* waits for another to have written a file.  The gathers are those of a   *)
(* NetCDF monitor, and the ranks those of a tile.                          *)
(*                                                                         *)
(* A state is known by the run that computed it and the steps that run had *)
(* made; so is the time in a restart.yaml.                                 *)
(***************************************************************************)
EXTENDS Integers

CONSTANTS
  Ranks,
  Root,                   \* rank 0, which gathers and writes restart.yaml
  Steps,                  \* n_timesteps of every run
  IntermediateRestart,    \* the steps after which the state is written
  SaveRestart,            \* whether it is written at the end too
  CheckedSteps,           \* the steps after which it is checked
  MaxRuns                 \* bound on the times the job is launched

ASSUME DriverAssumption ==
  /\ Root \in Ranks
  /\ Steps \in Nat \ {0}
  /\ IntermediateRestart \subseteq 0..Steps - 1
  /\ SaveRestart \in BOOLEAN
  /\ CheckedSteps \subseteq 0..Steps - 1
  /\ MaxRuns \in Nat \ {0}

VARIABLES
  run,        \* how often the job has been launched
  origin,     \* the directory this run started from, or Scratch
  mixed,      \* it then held what more than one run had written
  phase,      \* what each rank does next
  step,       \* the step of the loop each rank is in
  state,      \* steps of this run the state of each rank has made
  time,       \* those its Driver.time counts
  loaded,     \* what each rank began with; until it has loaded, what the
              \*   restart.yaml says
  cleaning,   \* ranks in cleanup
  failed,     \* ranks whose check raised
  files,      \* files[dir][r]: the dycore state of r in a restart directory
  yaml        \* yaml[dir]: the time in its restart.yaml

progress == <<phase, step, state, time, loaded, cleaning, failed>>
disk == <<files, yaml>>
vars == <<run, origin, mixed, progress, disk>>

-----------------------------------------------------------------------------
(* RESTART_0, RESTART_1 and so on in the loop, and RESTART at the end.     *)
Final == Steps
Directories == IntermediateRestart \cup {Final}

(* A file that is not there, or that was opened and not closed. *)
Unreadable == [run |-> 0, steps |-> 0]
Snapshots == [run : 1..MaxRuns, steps : 0..Steps] \cup {Unreadable}

(* A start from the analytic initial state instead of a directory. *)
Scratch == -1
Initial == [run |-> 0, steps |-> 0]

Phases == {"load", "step", "diagnose", "check", "save", "write", "yaml", "yaml_write",
           "cleanup", "done", "lost"}

Init ==
  /\ run = 1
  /\ origin = Scratch
  /\ mixed = FALSE
  /\ phase = [r \in Ranks |-> "load"]
  /\ step = [r \in Ranks |-> 0]
  /\ state = [r \in Ranks |-> 0]
  /\ time = [r \in Ranks |-> 0]
  /\ loaded = [r \in Ranks |-> Initial]
  /\ cleaning = {}
  /\ failed = {}
  /\ files = [d \in Directories |-> [r \in Ranks |-> Unreadable]]
  /\ yaml = [d \in Directories |-> Unreadable]

Goto(r, next) == phase' = [phase EXCEPT ![r] = next]

-----------------------------------------------------------------------------
(* The file of another directory than the configuration says. *)
RestartFileFinal(r) == files[Final][r]

RestartFile(r) == files[origin][r]

(* The constructor.  A file that cannot be opened raises, outside of the   *)
(* try of main: this rank does not come to cleanup.                        *)
LoadState(r) ==
  /\ phase[r] = "load"
  /\ IF origin = Scratch
     THEN Goto(r, "step") /\ UNCHANGED loaded
     ELSE IF RestartFile(r) = Unreadable
     THEN Goto(r, "lost") /\ UNCHANGED loaded
     ELSE /\ Goto(r, "step")
          /\ loaded' = [loaded EXCEPT ![r] = RestartFile(r)]
  /\ UNCHANGED <<run, origin, mixed, step, state, time, cleaning, failed, disk>>

(* The exchanges of a step are more than there are ranks between any two,  *)
(* so that no rank ends a step that another does not come to.              *)
Accompanied(r) ==
  \A q \in Ranks : step[q] >= step[r] /\ phase[q] \notin {"load", "lost"}

StepDynamics(r) ==
  /\ phase[r] = "step"
  /\ Accompanied(r)
  /\ state' = [state EXCEPT ![r] = @ + 1]
  /\ Goto(r, "diagnose")
  /\ UNCHANGED <<run, origin, mixed, step, time, loaded, cleaning, failed, disk>>

(* time += timestep; the root waits for what the others send to its gather. *)
SentWithNextStep(q, s) == step[q] > s
Sent(q, s) == step[q] > s \/ (step[q] = s /\ phase[q] \notin {"load", "lost", "step", "diagnose"})

StoreDiagnostics(r) ==
  /\ phase[r] = "diagnose"
  /\ r = Root => \A q \in Ranks \ {Root} : Sent(q, step[r])
  /\ time' = [time EXCEPT ![r] = @ + 1]
  /\ Goto(r, "check")
  /\ UNCHANGED <<run, origin, mixed, step, state, loaded, cleaning, failed, disk>>

(* On to the next step, or out of the loop. *)
NextStep(r) ==
  /\ step' = [step EXCEPT ![r] = @ + 1]
  /\ IF step[r] + 1 = Steps
     THEN Goto(r, "cleanup") /\ cleaning' = cleaning \cup {r}
     ELSE Goto(r, "step") /\ UNCHANGED cleaning

CheckState(r) ==
  /\ phase[r] = "check"
  /\ IF step[r] \in IntermediateRestart
     THEN Goto(r, "save") /\ UNCHANGED <<step, cleaning>>
     ELSE NextStep(r)
  /\ UNCHANGED <<run, origin, mixed, state, time, loaded, failed, disk>>

(* A RuntimeError on this rank alone: the loop is left, main cleans up. *)
CheckRaises(r) ==
  /\ phase[r] = "check"
  /\ step[r] \in CheckedSteps
  /\ failed' = failed \cup {r}
  /\ cleaning' = cleaning \cup {r}
  /\ Goto(r, "cleanup")
  /\ UNCHANGED <<run, origin, mixed, step, state, time, loaded, disk>>

(* store_grid gathers from all the ranks of the cube. *)
Cleanup(r) ==
  /\ phase[r] = "cleanup"
  /\ r = Root => \A q \in Ranks \ {Root} : q \in cleaning /\ phase[q] # "cleanup"
  /\ Goto(r, IF SaveRestart THEN "save" ELSE "done")
  /\ UNCHANGED <<run, origin, mixed, step, state, time, loaded, cleaning, failed, disk>>

-----------------------------------------------------------------------------
(* One directory for all that a run writes. *)
TargetInPlace(r) == Final

(* save_state, in the directory of the step or of the end.  The file of    *)
(* the physics state, written after this one, is never read.               *)
Target(r) == IF r \in cleaning THEN Final ELSE step[r]

OpenFile(r) ==
  /\ phase[r] = "save"
  /\ files' = [files EXCEPT ![Target(r)][r] = Unreadable]
  /\ Goto(r, "write")
  /\ UNCHANGED <<run, origin, mixed, step, state, time, loaded, cleaning, failed, yaml>>

AfterSave(r) ==
  IF r \in cleaning THEN Goto(r, "done") /\ UNCHANGED <<step, cleaning>> ELSE NextStep(r)

CloseFile(r) ==
  /\ phase[r] = "write"
  /\ files' = [files EXCEPT ![Target(r)][r] = [run |-> run, steps |-> state[r]]]
  /\ IF r = Root THEN Goto(r, "yaml") /\ UNCHANGED <<step, cleaning>> ELSE AfterSave(r)
  /\ UNCHANGED <<run, origin, mixed, state, time, loaded, failed, yaml>>

(* write_for_restart, by the root, as soon as its own file is written. *)
OpenYaml(r) ==
  /\ phase[r] = "yaml"
  /\ yaml' = [yaml EXCEPT ![Target(r)] = Unreadable]
  /\ Goto(r, "yaml_write")
  /\ UNCHANGED <<run, origin, mixed, step, state, time, loaded, cleaning, failed, files>>

CloseYaml(r) ==
  /\ phase[r] = "yaml_write"
  /\ yaml' = [yaml EXCEPT ![Target(r)] = [run |-> run, steps |-> time[r]]]
  /\ AfterSave(r)
  /\ UNCHANGED <<run, origin, mixed, state, time, loaded, failed, files>>

-----------------------------------------------------------------------------
(* The job has ended or is killed, and is launched with the restart.yaml   *)
(* of a directory, or with its first configuration again.                  *)
RunsIn(d) == {files[d][r].run : r \in Ranks} \ {Unreadable.run}

Launch(d) ==
  /\ run < MaxRuns
  /\ d # Scratch => yaml[d] # Unreadable
  /\ run' = run + 1
  /\ origin' = d
  /\ mixed' = (d # Scratch /\ \E k \in RunsIn(d) : k # yaml[d].run)
  /\ phase' = [r \in Ranks |-> "load"]
  /\ step' = [r \in Ranks |-> 0]
  /\ state' = [r \in Ranks |-> 0]
  /\ time' = [r \in Ranks |-> 0]
  /\ loaded' = [r \in Ranks |-> IF d = Scratch THEN Initial ELSE yaml[d]]
  /\ cleaning' = {}
  /\ failed' = {}
  /\ UNCHANGED disk

RankStep(r) ==
  \/ LoadState(r) \/ StepDynamics(r) \/ StoreDiagnostics(r)
  \/ CheckState(r) \/ CheckRaises(r) \/ Cleanup(r)
  \/ OpenFile(r) \/ CloseFile(r) \/ OpenYaml(r) \/ CloseYaml(r)

Next == (\E r \in Ranks : RankStep(r)) \/ (\E d \in Directories \cup {Scratch} : Launch(d))

Spec == Init /\ [][Next]_vars

(* A rank that can go on does; the job need not be launched again. *)
FairSpec == Spec /\ \A r \in Ranks : WF_vars(RankStep(r))
-----------------------------------------------------------------------------
TypeOK ==
  /\ run \in 1..MaxRuns
  /\ origin \in Directories \cup {Scratch}
  /\ mixed \in BOOLEAN
  /\ phase \in [Ranks -> Phases]
  /\ step \in [Ranks -> 0..Steps]
  /\ state \in [Ranks -> 0..Steps]
  /\ time \in [Ranks -> 0..Steps]
  /\ loaded \in [Ranks -> Snapshots]
  /\ cleaning \subseteq Ranks
  /\ failed \subseteq Ranks
  /\ files \in [Directories -> [Ranks -> Snapshots]]
  /\ yaml \in [Directories -> Snapshots]

(***************************************************************************)
(* What one run has written in a directory belongs together: all ranks'    *)
(* states and the restart.yaml are of the same step, although no rank      *)
(* waits for another to write, ranks leave the loop by exceptions of their *)
(* own, and the job is killed at any point.                                *)
(***************************************************************************)
Snapshot(d) == {files[d][r] : r \in Ranks} \cup {yaml[d]}
FilesOfOneRunAgree ==
  \A d \in Directories : \A x, y \in Snapshot(d) : x.run = y.run => x = y

(***************************************************************************)
(* The ranks of a run begin with one state, of the time the restart.yaml   *)
(* says, or some rank stops at a missing file.  They may begin with states *)
(* of different times only where a run has written over the files of       *)
(* another one and was killed.                                             *)
(***************************************************************************)
RunsBeginWithOneState == mixed \/ \A q, r \in Ranks : loaded[q] = loaded[r]

(***************************************************************************)
(* The ranks that a rank is waiting for, and those nobody should wait for: *)
(* one that found no file, or whose check raised before the last step.     *)
(***************************************************************************)
Awaited(r) ==
  CASE phase[r] = "step" -> {q \in Ranks : step[q] < step[r] \/ phase[q] \in {"load", "lost"}}
    [] r = Root /\ phase[r] = "diagnose" -> {q \in Ranks \ {Root} : ~Sent(q, step[r])}
    [] r = Root /\ phase[r] = "cleanup" ->
         {q \in Ranks \ {Root} : q \notin cleaning \/ phase[q] = "cleanup"}
    [] OTHER -> {}

Gone(q) == phase[q] = "lost" \/ (q \in failed /\ step[q] < Steps - 1)

(* A root that raised waits in its cleanup for ranks that wait for it.     *)
HeldUp(r) == \E q \in Awaited(r) : Gone(q) \/ \E p \in Awaited(q) : Gone(p)

(***************************************************************************)
(* Every rank of a run comes to its end, unless the job is launched again. *)
(* A rank that never does waits for one that has left the steps before     *)
(* their end, or for one that waits for such a rank: a raise holds up the  *)
(* exchanges of the next step, but not the files of the rank that raised   *)
(* (other than the root, whose cleanup gathers from all), and nobody where *)
(* it was the last step.                                                   *)
(***************************************************************************)
EveryRankEnds == []<>(\A r \in Ranks : phase[r] \in {"done", "lost"} \/ HeldUp(r))
=============================================================================
