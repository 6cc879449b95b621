----------------------------- MODULE Diagnostics -----------------------------
(***************************************************************************)
(* pace.driver.diagnostics: MonitorDiagnostics hands the states and the    *)
(* grid of each rank to the monitor of the configured output_format.  The  *)
(* format is the same on all ranks; the other monitor is never made.       *)
(***************************************************************************)
EXTENDS Integers, Sequences

CONSTANTS Ranks,          \* of a tile for NetCDF, of the cube for zarr
          Names,          \* names, in the order of the configuration
          SortedNames,    \* the same with "time", in the order of zarr
          MaxStores,      \* bound on the stores of a run with NetCDF
          Stores,         \* the stores of a run with zarr
          Constants,      \* the fields of the grid
          TimeChunkSize   \* time_chunk_size

ASSUME DiagnosticsAssumption ==
  /\ 0 \in Ranks
  /\ Names \in Seq(STRING) /\ Names # << >>
  /\ SortedNames \in Seq(STRING)
  /\ \E k \in DOMAIN SortedNames : SortedNames[k] = "time"
  /\ \A j, k \in DOMAIN SortedNames : SortedNames[j] = SortedNames[k] => j = k
  /\ MaxStores \in Nat /\ Stores \in Nat \ {0} /\ Constants \in Nat
  /\ TimeChunkSize \in Nat \ {0}

VARIABLES
  format,                                               \* output_format
  last, n_pc, stored, name, network, gathered, chunked, n_time, files,
  z_pc, var, z_time, created, view, syncs, length, disk, arrived

netcdf == <<last, n_pc, stored, name, network, gathered, chunked, n_time, files>>
zarr == <<z_pc, var, z_time, created, view, syncs, length, disk, arrived>>
vars == <<format, netcdf, zarr>>

N == INSTANCE NetCDFMonitor WITH pc <- n_pc, i_time <- n_time
Z == INSTANCE ZarrMonitor WITH Names <- SortedNames, pc <- z_pc, i_time <- z_time

Init ==
  /\ format \in {"netcdf", "zarr"}
  /\ N!Init /\ Z!Init
  /\ format = "zarr" => last = 0

NetCDF(step) == format = "netcdf" /\ step /\ UNCHANGED <<format, zarr>>
Zarr(step) == format = "zarr" /\ step /\ UNCHANGED <<format, netcdf>>

Next == NetCDF(N!Next) \/ Zarr(Z!Next)

Spec == Init /\ [][Next]_vars

(* A rank that is not waiting for another goes on. *)
FairSpec ==
  /\ Spec
  /\ WF_vars(NetCDF(N!RootGather \/ N!AppendState))
  /\ WF_vars(Zarr(Z!RootStep))
  /\ WF_vars(Zarr(Z!LeaveBarrier))
  /\ \A rank \in Ranks : WF_vars(NetCDF(N!RankStep(rank))) /\ WF_vars(Zarr(Z!RankStep(rank)))

-----------------------------------------------------------------------------
(***************************************************************************)
(* However far the ranks of a tile run ahead of its root, what the root    *)
(* gathers for a variable are all ranks' parts of it at the root's time.   *)
(***************************************************************************)
GathersAreSnapshots == format = "netcdf" => N!GathersAreSnapshots

(***************************************************************************)
(* Each NetCDF file holds the times its chunk index stands for, all of     *)
(* them but for the last file, and none is written twice.                  *)
(***************************************************************************)
FilesHoldTheirTimes == format = "netcdf" => N!FilesHoldTheirTimes

(***************************************************************************)
(* After cleanup every time that was stored is in a NetCDF file.           *)
(***************************************************************************)
NothingLost == format = "netcdf" => N!NothingLost

(***************************************************************************)
(* A rank that writes into the zarr store finds the array long enough,     *)
(* though the root alone extends it and does not wait for the others.      *)
(***************************************************************************)
WritesInBounds == format = "zarr" => Z!WritesInBounds

(***************************************************************************)
(* A time in the zarr store whose barrier a rank has passed is complete in *)
(* the variables named before "time", for all ranks.                       *)
(***************************************************************************)
TimesAreComplete == format = "zarr" => Z!TimesAreComplete

(***************************************************************************)
(* At the end the zarr store has all times and the grid, of every rank.    *)
(***************************************************************************)
StoreIsComplete == format = "zarr" => Z!StoreIsComplete

(***************************************************************************)
(* Every rank completes its stores, its constants and its cleanup.         *)
(***************************************************************************)
EveryRankEnds == <>(IF format = "netcdf" THEN N!Ended ELSE Z!Ended)
=============================================================================
