----------------------------- MODULE DriverProofs -----------------------------
(***************************************************************************)
(* Proofs that what one run of the driver writes in a restart directory    *)
(* belongs together, and that a run begins with one state, for any number  *)
(* of ranks, steps and launches of the job.                                *)
(***************************************************************************)
EXTENDS Driver, TLAPS

(* Where a rank is in its program tells the steps it has counted. *)
Saving == {"save", "write", "yaml", "yaml_write"}

InLoop(r) ==
  /\ phase[r] \in {"load", "lost", "step", "diagnose", "check"} \cup Saving
  /\ step[r] < Steps
  /\ phase[r] \in {"load", "lost", "step"} => state[r] = step[r] /\ time[r] = step[r]
  /\ phase[r] = "diagnose" => state[r] = step[r] + 1 /\ time[r] = step[r]
  /\ phase[r] \in {"check"} \cup Saving => state[r] = step[r] + 1 /\ time[r] = step[r] + 1
  /\ phase[r] \in Saving => step[r] \in IntermediateRestart

InCleanup(r) ==
  /\ phase[r] \in {"cleanup", "done"} \cup Saving
  /\ time[r] = state[r]
  /\ r \in failed => step[r] < Steps /\ state[r] = step[r] + 1
  /\ r \notin failed => step[r] = Steps /\ state[r] = Steps

Counts ==
  /\ failed \subseteq cleaning
  /\ \A r \in Ranks : (r \notin cleaning => InLoop(r)) /\ (r \in cleaning => InCleanup(r))
  /\ \A r \in Ranks : phase[r] \in {"yaml", "yaml_write"} => r = Root

(* No rank is more than a step ahead of another. *)
Together == \A q, r \in Ranks : state[r] <= step[q] + 1

(* What this run has written, by rank r, in directory d. *)
OwnWrite(d, r, snapshot) ==
  /\ snapshot.run <= run
  /\ snapshot.run = run =>
       /\ d = Final => r \in cleaning /\ snapshot.steps = state[r]
       /\ d # Final => snapshot.steps = d + 1

OwnWrites ==
  /\ \A d \in Directories, r \in Ranks : OwnWrite(d, r, files[d][r])
  /\ \A d \in Directories : OwnWrite(d, Root, yaml[d])

(* What earlier runs have written, each in a directory, agrees. *)
EarlierRunsAgree ==
  \A d \in Directories : \A x, y \in Snapshot(d) : x.run = y.run /\ x.run # run => x = y

(* A rank that has not loaded yet finds what the restart.yaml promises. *)
Promised ==
  ~ mixed =>
    \A r \in Ranks : phase[r] = "load" /\ origin # Scratch =>
      files[origin][r] \in {Unreadable, loaded[r]}

IInv ==
  /\ TypeOK
  /\ Counts
  /\ Together
  /\ OwnWrites
  /\ EarlierRunsAgree
  /\ Promised
  /\ RunsBeginWithOneState

-----------------------------------------------------------------------------
(* A snapshot is known by its run and its steps, and no run is number 0. *)
LEMMA SnapshotFields ==
  /\ Unreadable \in Snapshots
  /\ \A x \in Snapshots : x.run \in 0..MaxRuns /\ x.steps \in 0..Steps
  /\ \A x \in Snapshots : x.run = 0 <=> x = Unreadable
  /\ \A x, y \in Snapshots : x.run = y.run /\ x.steps = y.steps => x = y
  /\ \A k \in 1..MaxRuns, n \in 0..Steps : [run |-> k, steps |-> n] \in Snapshots
PROOF BY DriverAssumption DEF Snapshots, Unreadable, DriverAssumption

(* Ranks in cleanup have made the same number of steps: one whose check    *)
(* raised keeps the others from going further than it went.                *)
LEMMA CleanedAlike ==
  ASSUME TypeOK, Counts, Together, NEW q \in Ranks, NEW r \in Ranks, q \in cleaning, r \in cleaning
  PROVE  state[q] = state[r]
<1>1. state[q] <= step[r] + 1 /\ state[r] <= step[q] + 1
  BY DEF Together
<1>2. InCleanup(q) /\ InCleanup(r)
  BY DEF Counts
<1>3. Steps \in Nat /\ step[q] \in 0..Steps /\ step[r] \in 0..Steps
      /\ state[q] \in 0..Steps /\ state[r] \in 0..Steps
  BY DriverAssumption DEF TypeOK, DriverAssumption
<1> QED
  BY <1>1, <1>2, <1>3 DEF InCleanup

(* So what the present run has written in a directory agrees. *)
LEMMA OwnWritesAgree ==
  ASSUME TypeOK, Counts, Together, OwnWrites, NEW d \in Directories,
         NEW x \in Snapshot(d), NEW y \in Snapshot(d), x.run = run, y.run = run
  PROVE  x = y
<1>1. Root \in Ranks
  BY DriverAssumption DEF DriverAssumption
<1>2. PICK q \in Ranks : x \in Snapshots /\ OwnWrite(d, q, x)
  BY <1>1 DEF Snapshot, OwnWrites, TypeOK
<1>3. PICK r \in Ranks : y \in Snapshots /\ OwnWrite(d, r, y)
  BY <1>1 DEF Snapshot, OwnWrites, TypeOK
<1>4. x.steps = y.steps
  <2>1. CASE d = Final
    BY <1>2, <1>3, <2>1, CleanedAlike DEF OwnWrite
  <2>2. CASE d # Final
    BY <1>2, <1>3, <2>2 DEF OwnWrite
  <2> QED BY <2>1, <2>2
<1> QED
  BY <1>2, <1>3, <1>4, SnapshotFields

(* What the invariant says of the disk. *)
LEMMA RunsAgree ==
  IInv => FilesOfOneRunAgree
PROOF BY OwnWritesAgree DEF IInv, EarlierRunsAgree, FilesOfOneRunAgree

-----------------------------------------------------------------------------
LEMMA InitInvariant ==
  Init => IInv
<1> SUFFICES ASSUME Init PROVE IInv
  OBVIOUS
<1>1. TypeOK
  <2>1. 1 \in 1..MaxRuns /\ 0 \in 0..Steps /\ "load" \in Phases
    BY DriverAssumption DEF DriverAssumption, Phases
  <2>2. Initial \in Snapshots /\ Unreadable \in Snapshots
    BY SnapshotFields DEF Initial, Unreadable
  <2>3. files \in [Directories -> [Ranks -> Snapshots]] /\ yaml \in [Directories -> Snapshots]
    BY <2>2 DEF Init
  <2> QED
    BY <2>1, <2>2, <2>3 DEF Init, TypeOK
<1>2. Counts /\ Together
  BY DriverAssumption DEF Init, Counts, Together, InLoop, DriverAssumption, Saving
<1>3. OwnWrites /\ EarlierRunsAgree
  BY DEF Init, OwnWrites, OwnWrite, EarlierRunsAgree, Snapshot, Unreadable
<1>4. Promised /\ RunsBeginWithOneState
  BY DEF Init, Promised, RunsBeginWithOneState
<1> QED
  BY <1>1, <1>2, <1>3, <1>4 DEF IInv

(* What ends a step keeps the types. *)
LEMMA NextStepTypes ==
  ASSUME TypeOK, Counts, NEW r \in Ranks, r \notin cleaning, NextStep(r)
  PROVE  step' \in [Ranks -> 0..Steps] /\ phase' \in [Ranks -> Phases] /\ cleaning' \subseteq Ranks
<1>1. step[r] \in 0..Steps /\ step[r] < Steps /\ step[r] + 1 \in 0..Steps
  BY DriverAssumption DEF TypeOK, Counts, InLoop, DriverAssumption
<1>2. step' \in [Ranks -> 0..Steps]
  BY <1>1 DEF TypeOK, NextStep
<1>3. phase' \in [Ranks -> Phases]
  BY DEF TypeOK, NextStep, Goto, Phases
<1>4. cleaning' \subseteq Ranks
  BY DEF TypeOK, NextStep
<1> QED
  BY <1>2, <1>3, <1>4

(* The step a file is named after, or the end, is one of the directories. *)
LEMMA TargetIsDirectory ==
  ASSUME TypeOK, Counts, NEW r \in Ranks, phase[r] \in Saving
  PROVE  Target(r) \in Directories /\ (r \notin cleaning => Target(r) # Final)
BY DriverAssumption DEF TypeOK, Counts, InLoop, Target, Directories, Final, DriverAssumption

(* The two counters, moved on where the program says they may be. *)
LEMMA CountedTypes ==
  ASSUME TypeOK, Counts, NEW r \in Ranks
  PROVE  /\ phase[r] = "step" => [state EXCEPT ![r] = @ + 1] \in [Ranks -> 0..Steps]
         /\ phase[r] = "diagnose" => [time EXCEPT ![r] = @ + 1] \in [Ranks -> 0..Steps]
         /\ \A p \in Phases : [phase EXCEPT ![r] = p] \in [Ranks -> Phases]
<1>1. ASSUME phase[r] = "step" PROVE state[r] + 1 \in 0..Steps
  BY <1>1, DriverAssumption DEF TypeOK, Counts, InLoop, InCleanup, Saving, DriverAssumption
<1>2. ASSUME phase[r] = "diagnose" PROVE time[r] + 1 \in 0..Steps
  BY <1>2, DriverAssumption DEF TypeOK, Counts, InLoop, InCleanup, Saving, DriverAssumption
<1> QED
  BY <1>1, <1>2 DEF TypeOK

(* Each value stays in its type; a step more than Steps is never counted. *)
LEMMA TypeStep ==
  ASSUME IInv, [Next]_vars PROVE TypeOK'
<1> USE DriverAssumption DEF DriverAssumption, IInv
<1>1. ASSUME NEW r \in Ranks, LoadState(r) PROVE TypeOK'
  <2>1. loaded' \in [Ranks -> Snapshots]
    <3>1. CASE origin = Scratch
      BY <1>1, <3>1 DEF LoadState, TypeOK
    <3>2. CASE origin # Scratch
      <4>1. RestartFile(r) \in Snapshots
        BY <3>2 DEF RestartFile, TypeOK
      <4> QED BY <1>1, <4>1 DEF LoadState, TypeOK
    <3> QED BY <3>1, <3>2
  <2>2. phase' \in [Ranks -> Phases]
    BY <1>1 DEF LoadState, Goto, TypeOK, Phases
  <2> QED
    BY <1>1, <2>1, <2>2 DEF LoadState, TypeOK, disk
<1>2. ASSUME NEW r \in Ranks, StepDynamics(r) PROVE TypeOK'
  BY <1>2, CountedTypes DEF StepDynamics, TypeOK, Goto, disk, Phases
<1>3. ASSUME NEW r \in Ranks, StoreDiagnostics(r) PROVE TypeOK'
  BY <1>3, CountedTypes DEF StoreDiagnostics, TypeOK, Goto, disk, Phases
<1>4. ASSUME NEW r \in Ranks, CheckState(r) PROVE TypeOK'
  <2>1. r \notin cleaning
    BY <1>4 DEF CheckState, Counts, InCleanup, Saving
  <2>2. step' \in [Ranks -> 0..Steps] /\ phase' \in [Ranks -> Phases] /\ cleaning' \subseteq Ranks
    BY <1>4, <2>1, NextStepTypes DEF CheckState, TypeOK, Goto, Phases
  <2> QED
    BY <1>4, <2>2 DEF CheckState, TypeOK, disk
<1>5. ASSUME NEW r \in Ranks, CheckRaises(r) PROVE TypeOK'
  BY <1>5 DEF CheckRaises, TypeOK, Goto, disk, Phases
<1>6. ASSUME NEW r \in Ranks, Cleanup(r) PROVE TypeOK'
  BY <1>6 DEF Cleanup, TypeOK, Goto, disk, Phases
<1>7. ASSUME NEW r \in Ranks, OpenFile(r) PROVE TypeOK'
  <2>1. Target(r) \in Directories /\ Unreadable \in Snapshots
    BY <1>7, TargetIsDirectory, SnapshotFields DEF OpenFile, Saving, Unreadable
  <2>2. files' \in [Directories -> [Ranks -> Snapshots]]
    BY <1>7, <2>1 DEF OpenFile, TypeOK
  <2>3. phase' \in [Ranks -> Phases]
    BY <1>7 DEF OpenFile, TypeOK, Goto, Phases
  <2> QED
    BY <1>7, <2>2, <2>3 DEF OpenFile, TypeOK
<1>8. ASSUME NEW r \in Ranks, CloseFile(r) PROVE TypeOK'
  <2>1. step' \in [Ranks -> 0..Steps] /\ phase' \in [Ranks -> Phases] /\ cleaning' \subseteq Ranks
    BY <1>8, NextStepTypes DEF CloseFile, AfterSave, TypeOK, Goto, Phases
  <2>2. [run |-> run, steps |-> state[r]] \in Snapshots /\ Target(r) \in Directories
    BY <1>8, SnapshotFields, TargetIsDirectory DEF CloseFile, TypeOK, Saving
  <2>3. files' \in [Directories -> [Ranks -> Snapshots]]
    BY <1>8, <2>2 DEF CloseFile, TypeOK
  <2> QED
    BY <1>8, <2>1, <2>3 DEF CloseFile, TypeOK
<1>9. ASSUME NEW r \in Ranks, OpenYaml(r) PROVE TypeOK'
  <2>1. Target(r) \in Directories /\ Unreadable \in Snapshots
    BY <1>9, TargetIsDirectory, SnapshotFields DEF OpenYaml, Saving, Unreadable
  <2>2. yaml' \in [Directories -> Snapshots]
    BY <1>9, <2>1 DEF OpenYaml, TypeOK
  <2>3. phase' \in [Ranks -> Phases]
    BY <1>9 DEF OpenYaml, TypeOK, Goto, Phases
  <2> QED
    BY <1>9, <2>2, <2>3 DEF OpenYaml, TypeOK
<1>10. ASSUME NEW r \in Ranks, CloseYaml(r) PROVE TypeOK'
  <2>1. step' \in [Ranks -> 0..Steps] /\ phase' \in [Ranks -> Phases] /\ cleaning' \subseteq Ranks
    BY <1>10, NextStepTypes DEF CloseYaml, AfterSave, TypeOK, Goto, Phases
  <2>2. [run |-> run, steps |-> time[r]] \in Snapshots /\ Target(r) \in Directories
    BY <1>10, SnapshotFields, TargetIsDirectory DEF CloseYaml, TypeOK, Saving
  <2>3. yaml' \in [Directories -> Snapshots]
    BY <1>10, <2>2 DEF CloseYaml, TypeOK
  <2> QED
    BY <1>10, <2>1, <2>3 DEF CloseYaml, TypeOK
<1>11. ASSUME NEW d \in Directories \cup {Scratch}, Launch(d) PROVE TypeOK'
  BY <1>11, SnapshotFields DEF Launch, TypeOK, disk, Phases, Initial, Directories, Scratch, Unreadable
<1>12. CASE UNCHANGED vars
  BY <1>12 DEF vars, progress, disk, TypeOK
<1> QED
  BY <1>1, <1>2, <1>3, <1>4, <1>5, <1>6, <1>7, <1>8, <1>9, <1>10, <1>11, <1>12
     DEF Next, RankStep

(* The counters go with the program, also on the ways out of the loop. *)
LEMMA CountsStep ==
  ASSUME IInv, [Next]_vars PROVE Counts'
<1> USE DriverAssumption DEF DriverAssumption, IInv
<1>1. ASSUME NEW r \in Ranks, LoadState(r) PROVE Counts'
  BY <1>1 DEF LoadState, TypeOK, Counts, InLoop, InCleanup, Saving, Goto, disk, RestartFile
<1>2. ASSUME NEW r \in Ranks, StepDynamics(r) PROVE Counts'
  BY <1>2 DEF StepDynamics, TypeOK, Counts, InLoop, InCleanup, Saving, Goto, disk
<1>3. ASSUME NEW r \in Ranks, StoreDiagnostics(r) PROVE Counts'
  BY <1>3 DEF StoreDiagnostics, TypeOK, Counts, InLoop, InCleanup, Saving, Goto, disk
<1>4. ASSUME NEW r \in Ranks, CheckState(r) PROVE Counts'
  BY <1>4 DEF CheckState, TypeOK, Counts, InLoop, InCleanup, Saving, Goto, disk, NextStep
<1>5. ASSUME NEW r \in Ranks, CheckRaises(r) PROVE Counts'
  BY <1>5 DEF CheckRaises, TypeOK, Counts, InLoop, InCleanup, Saving, Goto, disk
<1>6. ASSUME NEW r \in Ranks, Cleanup(r) PROVE Counts'
  BY <1>6 DEF Cleanup, TypeOK, Counts, InLoop, InCleanup, Saving, Goto, disk
<1>7. ASSUME NEW r \in Ranks, OpenFile(r) PROVE Counts'
  BY <1>7 DEF OpenFile, TypeOK, Counts, InLoop, InCleanup, Saving, Goto, disk
<1>8. ASSUME NEW r \in Ranks, CloseFile(r) PROVE Counts'
  BY <1>8 DEF CloseFile, TypeOK, Counts, InLoop, InCleanup, Saving, Goto, disk, AfterSave, NextStep
<1>9. ASSUME NEW r \in Ranks, OpenYaml(r) PROVE Counts'
  BY <1>9 DEF OpenYaml, TypeOK, Counts, InLoop, InCleanup, Saving, Goto, disk
<1>10. ASSUME NEW r \in Ranks, CloseYaml(r) PROVE Counts'
  BY <1>10 DEF CloseYaml, TypeOK, Counts, InLoop, InCleanup, Saving, Goto, disk, AfterSave, NextStep
<1>11. ASSUME NEW d \in Directories \cup {Scratch}, Launch(d) PROVE Counts'
  BY <1>11 DEF Launch, TypeOK, Counts, InLoop, InCleanup, Saving, Goto, disk
<1>12. CASE UNCHANGED vars
  BY <1>12 DEF vars, progress, disk, TypeOK, Counts, InLoop, InCleanup, Saving, Goto, disk
<1> QED
  BY <1>1, <1>2, <1>3, <1>4, <1>5, <1>6, <1>7, <1>8, <1>9, <1>10, <1>11, <1>12
     DEF Next, RankStep

(* A rank ends a step only where all the others have come to it. *)
LEMMA TogetherStep ==
  ASSUME IInv, [Next]_vars PROVE Together'
<1> USE DriverAssumption DEF DriverAssumption, IInv
<1>1. ASSUME NEW r \in Ranks, LoadState(r) PROVE Together'
  BY <1>1 DEF LoadState, TypeOK, Together, Goto, disk
<1>2. ASSUME NEW r \in Ranks, StepDynamics(r) PROVE Together'
  <2>1. state[r] = step[r] /\ \A q \in Ranks : step[q] >= step[r]
    BY <1>2 DEF StepDynamics, Accompanied, Counts, InLoop, InCleanup, Saving
  <2> QED
    BY <1>2, <2>1 DEF StepDynamics, TypeOK, Together
<1>3. ASSUME NEW r \in Ranks, StoreDiagnostics(r) PROVE Together'
  BY <1>3 DEF StoreDiagnostics, TypeOK, Together, Goto, disk
<1>4. ASSUME NEW r \in Ranks, CheckState(r) PROVE Together'
  BY <1>4 DEF CheckState, NextStep, TypeOK, Together, Goto, disk
<1>5. ASSUME NEW r \in Ranks, CheckRaises(r) PROVE Together'
  BY <1>5 DEF CheckRaises, TypeOK, Together, Goto, disk
<1>6. ASSUME NEW r \in Ranks, Cleanup(r) PROVE Together'
  BY <1>6 DEF Cleanup, TypeOK, Together, Goto, disk
<1>7. ASSUME NEW r \in Ranks, OpenFile(r) PROVE Together'
  BY <1>7 DEF OpenFile, TypeOK, Together, Goto, disk
<1>8. ASSUME NEW r \in Ranks, CloseFile(r) PROVE Together'
  BY <1>8 DEF CloseFile, AfterSave, NextStep, TypeOK, Together, Goto, disk
<1>9. ASSUME NEW r \in Ranks, OpenYaml(r) PROVE Together'
  BY <1>9 DEF OpenYaml, TypeOK, Together, Goto, disk
<1>10. ASSUME NEW r \in Ranks, CloseYaml(r) PROVE Together'
  BY <1>10 DEF CloseYaml, AfterSave, NextStep, TypeOK, Together, Goto, disk
<1>11. ASSUME NEW d \in Directories \cup {Scratch}, Launch(d) PROVE Together'
  BY <1>11 DEF Launch, TypeOK, Together, Goto, disk
<1>12. CASE UNCHANGED vars
  BY <1>12 DEF vars, progress, disk, TypeOK, Together, Goto, disk
<1> QED
  BY <1>1, <1>2, <1>3, <1>4, <1>5, <1>6, <1>7, <1>8, <1>9, <1>10, <1>11, <1>12
     DEF Next, RankStep

(* A rank writes the step it has made, in the directory of that step. *)
LEMMA OwnWritesStep ==
  ASSUME IInv, [Next]_vars PROVE OwnWrites'
<1> USE DriverAssumption DEF DriverAssumption, IInv
<1>1. ASSUME NEW r \in Ranks, LoadState(r) PROVE OwnWrites'
  BY <1>1 DEF LoadState, OwnWrites, OwnWrite, TypeOK, Goto, disk
<1>2. ASSUME NEW r \in Ranks, StepDynamics(r) PROVE OwnWrites'
  <2>1. r \notin cleaning
    BY <1>2 DEF StepDynamics, Counts, InCleanup, Saving
  <2> QED
    BY <1>2, <2>1 DEF StepDynamics, OwnWrites, OwnWrite, TypeOK, Goto, disk
<1>3. ASSUME NEW r \in Ranks, StoreDiagnostics(r) PROVE OwnWrites'
  BY <1>3 DEF StoreDiagnostics, OwnWrites, OwnWrite, TypeOK, Goto, disk
<1>4. ASSUME NEW r \in Ranks, CheckState(r) PROVE OwnWrites'
  BY <1>4 DEF CheckState, NextStep, OwnWrites, OwnWrite, TypeOK, Goto, disk
<1>5. ASSUME NEW r \in Ranks, CheckRaises(r) PROVE OwnWrites'
  BY <1>5 DEF CheckRaises, OwnWrites, OwnWrite, TypeOK, Goto, disk
<1>6. ASSUME NEW r \in Ranks, Cleanup(r) PROVE OwnWrites'
  BY <1>6 DEF Cleanup, OwnWrites, OwnWrite, TypeOK, Goto, disk
<1>7. ASSUME NEW r \in Ranks, OpenFile(r) PROVE OwnWrites'
  <2>1. Unreadable.run = 0 /\ run > 0
    BY DEF Unreadable, TypeOK
  <2> QED
    BY <1>7, <2>1 DEF OpenFile, OwnWrites, OwnWrite, TypeOK, Goto, disk
<1>8. ASSUME NEW r \in Ranks, CloseFile(r) PROVE OwnWrites'
  <2> DEFINE new == [run |-> run, steps |-> state[r]]
  <2>1. Target(r) \in Directories /\ cleaning \subseteq cleaning' /\ UNCHANGED <<run, state, yaml>>
    BY <1>8, TargetIsDirectory DEF CloseFile, AfterSave, NextStep, Saving
  <2>2. OwnWrite(Target(r), r, new)
    BY <1>8, TargetIsDirectory DEF CloseFile, OwnWrite, Target, Counts, InLoop, InCleanup, Saving, TypeOK
  <2>3. \A d \in Directories, q \in Ranks :
          files'[d][q] = IF d = Target(r) /\ q = r THEN new ELSE files[d][q]
    BY <1>8 DEF CloseFile, TypeOK
  <2>4. \A d \in Directories, q \in Ranks : OwnWrite(d, q, files'[d][q])
    BY <2>2, <2>3 DEF OwnWrites
  <2> QED
    BY <2>1, <2>4 DEF OwnWrites, OwnWrite
<1>9. ASSUME NEW r \in Ranks, OpenYaml(r) PROVE OwnWrites'
  <2>1. Unreadable.run = 0 /\ run > 0
    BY DEF Unreadable, TypeOK
  <2> QED
    BY <1>9, <2>1 DEF OpenYaml, OwnWrites, OwnWrite, TypeOK, Goto, disk
<1>10. ASSUME NEW r \in Ranks, CloseYaml(r) PROVE OwnWrites'
  <2> DEFINE new == [run |-> run, steps |-> time[r]]
  <2>1. Target(r) \in Directories /\ cleaning \subseteq cleaning' /\ UNCHANGED <<run, state, files>>
    BY <1>10, TargetIsDirectory DEF CloseYaml, AfterSave, NextStep, Saving
  <2>2. r = Root /\ OwnWrite(Target(r), r, new)
    BY <1>10, TargetIsDirectory DEF CloseYaml, OwnWrite, Target, Counts, InLoop, InCleanup, Saving, TypeOK
  <2>3. \A d \in Directories : yaml'[d] = IF d = Target(r) THEN new ELSE yaml[d]
    BY <1>10 DEF CloseYaml, TypeOK
  <2>4. \A d \in Directories : OwnWrite(d, Root, yaml'[d])
    BY <2>2, <2>3 DEF OwnWrites
  <2> QED
    BY <2>1, <2>4 DEF OwnWrites, OwnWrite
<1>11. ASSUME NEW d \in Directories \cup {Scratch}, Launch(d) PROVE OwnWrites'
  <2>1. Root \in Ranks /\ run' = run + 1 /\ run \in Nat /\ UNCHANGED <<files, yaml>>
    BY <1>11 DEF Launch, TypeOK, disk
  <2>2. \A e \in Directories, r \in Ranks :
          /\ files[e][r].run \in Nat /\ files[e][r].run <= run
          /\ yaml[e].run \in Nat /\ yaml[e].run <= run
    BY <2>1, SnapshotFields DEF TypeOK, OwnWrites, OwnWrite
  <2> QED
    BY <2>1, <2>2 DEF OwnWrites, OwnWrite
<1>12. CASE UNCHANGED vars
  BY <1>12 DEF vars, progress, disk, OwnWrites, OwnWrite, TypeOK, Goto, disk
<1> QED
  BY <1>1, <1>2, <1>3, <1>4, <1>5, <1>6, <1>7, <1>8, <1>9, <1>10, <1>11, <1>12
     DEF Next, RankStep

(* A snapshot that is written is the new one or was there before. *)
LEMMA EarlierKept ==
  ASSUME TypeOK, EarlierRunsAgree, run' = run, NEW d \in Directories, NEW new \in Snapshots,
         new.run = run \/ new = Unreadable,
         Snapshot(d)' \subseteq Snapshot(d) \cup {new}
  PROVE  \A x, y \in Snapshot(d)' : x.run = y.run /\ x.run # run' => x = y
<1> SUFFICES ASSUME NEW x \in Snapshot(d)', NEW y \in Snapshot(d)', x.run = y.run, x.run # run
             PROVE  x = y
  OBVIOUS
<1>1. Snapshot(d) \subseteq Snapshots
  BY DEF Snapshot, TypeOK
<1>2. x \in Snapshots /\ y \in Snapshots
  BY <1>1
<1>3. CASE x = new \/ y = new
  BY <1>2, <1>3, SnapshotFields
<1>4. CASE x # new /\ y # new
  BY <1>4 DEF EarlierRunsAgree
<1> QED
  BY <1>3, <1>4

(* What a run leaves behind agrees, and is only written over. *)
LEMMA EarlierRunsStep ==
  ASSUME IInv, [Next]_vars PROVE EarlierRunsAgree'
<1> USE DriverAssumption DEF DriverAssumption, IInv
<1>1. ASSUME NEW r \in Ranks, LoadState(r) PROVE EarlierRunsAgree'
  BY <1>1 DEF LoadState, EarlierRunsAgree, Snapshot, disk
<1>2. ASSUME NEW r \in Ranks, StepDynamics(r) PROVE EarlierRunsAgree'
  BY <1>2 DEF StepDynamics, EarlierRunsAgree, Snapshot, disk
<1>3. ASSUME NEW r \in Ranks, StoreDiagnostics(r) PROVE EarlierRunsAgree'
  BY <1>3 DEF StoreDiagnostics, EarlierRunsAgree, Snapshot, disk
<1>4. ASSUME NEW r \in Ranks, CheckState(r) PROVE EarlierRunsAgree'
  BY <1>4 DEF CheckState, EarlierRunsAgree, Snapshot, disk
<1>5. ASSUME NEW r \in Ranks, CheckRaises(r) PROVE EarlierRunsAgree'
  BY <1>5 DEF CheckRaises, EarlierRunsAgree, Snapshot, disk
<1>6. ASSUME NEW r \in Ranks, Cleanup(r) PROVE EarlierRunsAgree'
  BY <1>6 DEF Cleanup, EarlierRunsAgree, Snapshot, disk
<1>7. ASSUME NEW r \in Ranks, OpenFile(r) PROVE EarlierRunsAgree'
  <2> DEFINE new == Unreadable
  <2>1. new \in Snapshots /\ (new.run = run \/ new = Unreadable)
    BY <1>7, SnapshotFields DEF OpenFile, TypeOK
  <2>2. run' = run /\ UNCHANGED yaml
    BY <1>7 DEF OpenFile
  <2>3. \A d \in Directories, q \in Ranks :
          files'[d][q] = IF d = Target(r) /\ q = r THEN new ELSE files[d][q]
    BY <1>7 DEF OpenFile, TypeOK
  <2> HIDE DEF new
  <2>4. \A d \in Directories : Snapshot(d)' \subseteq Snapshot(d) \cup {new}
    BY <2>2, <2>3 DEF Snapshot
  <2> QED
    BY <2>1, <2>2, <2>4, EarlierKept DEF EarlierRunsAgree
<1>8. ASSUME NEW r \in Ranks, CloseFile(r) PROVE EarlierRunsAgree'
  <2> DEFINE new == [run |-> run, steps |-> state[r]]
  <2>1. new \in Snapshots /\ (new.run = run \/ new = Unreadable)
    BY <1>8, SnapshotFields DEF CloseFile, TypeOK
  <2>2. run' = run /\ UNCHANGED yaml
    BY <1>8 DEF CloseFile
  <2>3. \A d \in Directories, q \in Ranks :
          files'[d][q] = IF d = Target(r) /\ q = r THEN new ELSE files[d][q]
    BY <1>8 DEF CloseFile, TypeOK
  <2> HIDE DEF new
  <2>4. \A d \in Directories : Snapshot(d)' \subseteq Snapshot(d) \cup {new}
    BY <2>2, <2>3 DEF Snapshot
  <2> QED
    BY <2>1, <2>2, <2>4, EarlierKept DEF EarlierRunsAgree
<1>9. ASSUME NEW r \in Ranks, OpenYaml(r) PROVE EarlierRunsAgree'
  <2> DEFINE new == Unreadable
  <2>1. new \in Snapshots /\ (new.run = run \/ new = Unreadable)
    BY <1>9, SnapshotFields DEF OpenYaml, TypeOK
  <2>2. run' = run /\ UNCHANGED files
    BY <1>9 DEF OpenYaml
  <2>3. \A d \in Directories : yaml'[d] = IF d = Target(r) THEN new ELSE yaml[d]
    BY <1>9 DEF OpenYaml, TypeOK
  <2> HIDE DEF new
  <2>4. \A d \in Directories : Snapshot(d)' \subseteq Snapshot(d) \cup {new}
    BY <2>2, <2>3 DEF Snapshot
  <2> QED
    BY <2>1, <2>2, <2>4, EarlierKept DEF EarlierRunsAgree
<1>10. ASSUME NEW r \in Ranks, CloseYaml(r) PROVE EarlierRunsAgree'
  <2> DEFINE new == [run |-> run, steps |-> time[r]]
  <2>1. new \in Snapshots /\ (new.run = run \/ new = Unreadable)
    BY <1>10, SnapshotFields DEF CloseYaml, TypeOK
  <2>2. run' = run /\ UNCHANGED files
    BY <1>10 DEF CloseYaml
  <2>3. \A d \in Directories : yaml'[d] = IF d = Target(r) THEN new ELSE yaml[d]
    BY <1>10 DEF CloseYaml, TypeOK
  <2> HIDE DEF new
  <2>4. \A d \in Directories : Snapshot(d)' \subseteq Snapshot(d) \cup {new}
    BY <2>2, <2>3 DEF Snapshot
  <2> QED
    BY <2>1, <2>2, <2>4, EarlierKept DEF EarlierRunsAgree
<1>11. ASSUME NEW d \in Directories \cup {Scratch}, Launch(d) PROVE EarlierRunsAgree'
  <2>1. UNCHANGED <<files, yaml>>
    BY <1>11 DEF Launch, disk
  <2>2. \A e \in Directories : \A x, y \in Snapshot(e) : x.run = y.run => x = y
    BY RunsAgree DEF FilesOfOneRunAgree
  <2> QED
    BY <2>1, <2>2 DEF EarlierRunsAgree, Snapshot
<1>12. CASE UNCHANGED vars
  BY <1>12 DEF vars, progress, disk, EarlierRunsAgree, Snapshot, disk
<1> QED
  BY <1>1, <1>2, <1>3, <1>4, <1>5, <1>6, <1>7, <1>8, <1>9, <1>10, <1>11, <1>12
     DEF Next, RankStep

(* A launch finds what the restart.yaml promises, and a rank that loads leaves it. *)
LEMMA PromisedStep ==
  ASSUME IInv, [Next]_vars PROVE Promised'
<1> USE DriverAssumption DEF DriverAssumption, IInv
<1>1. ASSUME NEW r \in Ranks, LoadState(r) PROVE Promised'
  BY <1>1 DEF LoadState, RestartFile, Promised, TypeOK, Goto, disk
<1>2. ASSUME NEW r \in Ranks, StepDynamics(r) PROVE Promised'
  BY <1>2 DEF StepDynamics, Promised, TypeOK, Goto, disk
<1>3. ASSUME NEW r \in Ranks, StoreDiagnostics(r) PROVE Promised'
  BY <1>3 DEF StoreDiagnostics, Promised, TypeOK, Goto, disk
<1>4. ASSUME NEW r \in Ranks, CheckState(r) PROVE Promised'
  BY <1>4 DEF CheckState, NextStep, Promised, TypeOK, Goto, disk
<1>5. ASSUME NEW r \in Ranks, CheckRaises(r) PROVE Promised'
  BY <1>5 DEF CheckRaises, Promised, TypeOK, Goto, disk
<1>6. ASSUME NEW r \in Ranks, Cleanup(r) PROVE Promised'
  BY <1>6 DEF Cleanup, Promised, TypeOK, Goto, disk
<1>7. ASSUME NEW r \in Ranks, OpenFile(r) PROVE Promised'
  BY <1>7 DEF OpenFile, Promised, TypeOK, Goto, disk
<1>8. ASSUME NEW r \in Ranks, CloseFile(r) PROVE Promised'
  BY <1>8 DEF CloseFile, AfterSave, NextStep, Promised, TypeOK, Goto, disk
<1>9. ASSUME NEW r \in Ranks, OpenYaml(r) PROVE Promised'
  BY <1>9 DEF OpenYaml, Promised, TypeOK, Goto, disk
<1>10. ASSUME NEW r \in Ranks, CloseYaml(r) PROVE Promised'
  BY <1>10 DEF CloseYaml, AfterSave, NextStep, Promised, TypeOK, Goto, disk
<1>11. ASSUME NEW d \in Directories \cup {Scratch}, Launch(d) PROVE Promised'
  <2> SUFFICES ASSUME ~ mixed', d # Scratch, NEW r \in Ranks
               PROVE  files[d][r] \in {Unreadable, yaml[d]}
    BY <1>11 DEF Launch, Promised, disk
  <2>1. d \in Directories /\ \A k \in RunsIn(d) : k = yaml[d].run
    BY <1>11 DEF Launch
  <2>2. files[d][r] \in Snapshot(d) /\ yaml[d] \in Snapshot(d) /\ files[d][r] \in Snapshots
    BY <2>1 DEF Snapshot, TypeOK
  <2>3. CASE files[d][r].run = Unreadable.run
    BY <2>2, <2>3, SnapshotFields
  <2>4. CASE files[d][r].run # Unreadable.run
    <3>1. files[d][r].run = yaml[d].run
      BY <2>1, <2>4 DEF RunsIn
    <3> QED BY <2>1, <2>2, <3>1, RunsAgree DEF FilesOfOneRunAgree
  <2> QED
    BY <2>3, <2>4
<1>12. CASE UNCHANGED vars
  BY <1>12 DEF vars, progress, disk, Promised, TypeOK, Goto, disk
<1> QED
  BY <1>1, <1>2, <1>3, <1>4, <1>5, <1>6, <1>7, <1>8, <1>9, <1>10, <1>11, <1>12
     DEF Next, RankStep

(* A rank goes on only with the state that was promised. *)
LEMMA RunsBeginStep ==
  ASSUME IInv, [Next]_vars PROVE RunsBeginWithOneState'
<1> USE DriverAssumption DEF DriverAssumption, IInv
<1>1. ASSUME NEW r \in Ranks, LoadState(r) PROVE RunsBeginWithOneState'
  <2>1. CASE origin = Scratch \/ RestartFile(r) = Unreadable \/ mixed
    BY <1>1, <2>1 DEF LoadState, RunsBeginWithOneState
  <2>2. CASE origin # Scratch /\ RestartFile(r) # Unreadable /\ ~ mixed
    <3>1. loaded' = [loaded EXCEPT ![r] = RestartFile(r)] /\ phase[r] = "load" /\ mixed' = mixed
      BY <1>1, <2>2 DEF LoadState
    <3>2. RestartFile(r) = loaded[r]
      BY <2>2, <3>1 DEF Promised, RestartFile
    <3> QED BY <2>2, <3>1, <3>2 DEF RunsBeginWithOneState, TypeOK
  <2> QED
    BY <2>1, <2>2
<1>2. ASSUME NEW r \in Ranks, StepDynamics(r) PROVE RunsBeginWithOneState'
  BY <1>2 DEF StepDynamics, RunsBeginWithOneState, TypeOK, disk
<1>3. ASSUME NEW r \in Ranks, StoreDiagnostics(r) PROVE RunsBeginWithOneState'
  BY <1>3 DEF StoreDiagnostics, RunsBeginWithOneState, TypeOK, disk
<1>4. ASSUME NEW r \in Ranks, CheckState(r) PROVE RunsBeginWithOneState'
  BY <1>4 DEF CheckState, RunsBeginWithOneState, TypeOK, disk
<1>5. ASSUME NEW r \in Ranks, CheckRaises(r) PROVE RunsBeginWithOneState'
  BY <1>5 DEF CheckRaises, RunsBeginWithOneState, TypeOK, disk
<1>6. ASSUME NEW r \in Ranks, Cleanup(r) PROVE RunsBeginWithOneState'
  BY <1>6 DEF Cleanup, RunsBeginWithOneState, TypeOK, disk
<1>7. ASSUME NEW r \in Ranks, OpenFile(r) PROVE RunsBeginWithOneState'
  BY <1>7 DEF OpenFile, RunsBeginWithOneState, TypeOK, disk
<1>8. ASSUME NEW r \in Ranks, CloseFile(r) PROVE RunsBeginWithOneState'
  BY <1>8 DEF CloseFile, RunsBeginWithOneState, TypeOK, disk
<1>9. ASSUME NEW r \in Ranks, OpenYaml(r) PROVE RunsBeginWithOneState'
  BY <1>9 DEF OpenYaml, RunsBeginWithOneState, TypeOK, disk
<1>10. ASSUME NEW r \in Ranks, CloseYaml(r) PROVE RunsBeginWithOneState'
  BY <1>10 DEF CloseYaml, RunsBeginWithOneState, TypeOK, disk
<1>11. ASSUME NEW d \in Directories \cup {Scratch}, Launch(d) PROVE RunsBeginWithOneState'
  BY <1>11 DEF Launch, RunsBeginWithOneState, TypeOK, disk
<1>12. CASE UNCHANGED vars
  BY <1>12 DEF vars, progress, disk, RunsBeginWithOneState, TypeOK, disk
<1> QED
  BY <1>1, <1>2, <1>3, <1>4, <1>5, <1>6, <1>7, <1>8, <1>9, <1>10, <1>11, <1>12
     DEF Next, RankStep

-----------------------------------------------------------------------------
(* The strengthened invariant is an invariant. *)
THEOREM Invariant == Spec => []IInv
<1>1. IInv /\ [Next]_vars => IInv'
  BY TypeStep, CountsStep, TogetherStep, OwnWritesStep, EarlierRunsStep, PromisedStep,
     RunsBeginStep DEF IInv
<1> QED
  BY InitInvariant, <1>1, PTL DEF Spec

(* Every variable of the driver stays in its type: no rank makes more      *)
(* steps than the configuration says.                                      *)
THEOREM TypeCorrect == Spec => []TypeOK
<1>1. IInv => TypeOK
  BY DEF IInv
<1> QED
  BY Invariant, <1>1, PTL

(* What one run has written in a restart directory is of one step, for     *)
(* every rank and in the restart.yaml, wherever the run was killed.        *)
THEOREM RunsWriteOneState == Spec => []FilesOfOneRunAgree
BY Invariant, RunsAgree, PTL

(* The ranks of a run begin with one state, unless the directory held what *)
(* two runs had written.                                                   *)
THEOREM RunsBeginTogether == Spec => []RunsBeginWithOneState
<1>1. IInv => RunsBeginWithOneState
  BY DEF IInv
<1> QED
  BY Invariant, <1>1, PTL
=============================================================================
