# A TLA+ development of Pace

Pace is an atmospheric model: finite-volume dynamics and physics on the six tiles
of a cubed sphere, written in Python, run by one MPI process for each rectangular
piece of a tile. Its numerics are compared with the Fortran model by the
repository's own tests. This development is about what those tests reach badly:
the geometry by which ranks find each other and the data they send across the
edges of the cube; the non-blocking halo exchanges between them, and whether each
stencil of a time step finds the halo it needs; restarts and jobs killed half way;
the protocols (collectives, broadcasts, barriers, messages) of input, output and
compilation; and the books of water that the moist processes keep by hand.

Paths below are relative to `src/`; `util/` stands for `util/pace/util/`, `core/`
for `fv3core/pace/fv3core/`, `physics/` for `physics/pace/physics/`, `stencils/`
for `stencils/pace/stencils/` and `driver/` for `driver/pace/driver/`.

## 1. The system

Every rank runs the same program on its own data. Ranks share nothing in memory;
they interact through MPI messages, collectives, and files.

| Component | Code | State it keeps | Operations | What is hard | What makes it correct |
|---|---|---|---|---|---|
| Partitioning | `util/partitioner.py` 31-760, `util/boundary.py` | none (cached functions of rank and layout) | `boundary`, `tile_index`, `subtile_index` | wrap, parity and rotation at tile edges and cube corners, written case by case; negative intermediate ranks | the boundary of a rank is the rank beside it on a cube; boundaries come in pairs |
| Halo data | `util/_boundary_utils.py`, `util/rotate.py`, `util/halo_data_transformer.py`, `util/cuda_kernels.py` | indices cached for the GPU | slices, rotation, pack, unpack | shared interface points; a vector changes component and sign; the same rotation written four times | each halo point gets the value of the place on the sphere it stands for |
| Corner fills | `stencils/corners.py` and private copies in `core/stencils` | none | sixteen stencils and array functions | several hundred offsets listed by hand | the halo continues the tile that lies behind the corner |
| Subtiles | `util/partitioner.py` 813-1035 | none | `subtile_slice`, `subtile_extent`, `global_extent` | shared interface points; sizes searched in floating point | the slices partition the tile; neighbours agree on their common edge |
| Halo exchange | `util/halo_updater.py`, `util/halo_data_transformer.py`, `util/buffer.py`, `util/communicator.py` 252-600 | updaters and requests, buffers, a process-wide buffer cache, tags, pending messages | create, `start`, `wait`, `__del__`; `start_synchronize_vector_interfaces` and its `wait` | zero-copy messages while other exchanges take buffers from the same cache; reuse; equal tags; errors in the protocol of calls | halos hold what the neighbour packed; no buffer is shared, overwritten or, but for one case of section 6, lost; nobody waits for ever |
| Dynamics and physics step | `core/stencils/`, `physics/stencils/physics.py`, `stencils/` | which halo rows of which field are up to date; exchanges under way | the stencils and exchanges of a time step | exchanges started in one iteration and finished in the next; halos that shrink by a row or three with every stencil, by place and level | no result depends on a stale halo; nothing writes a field under exchange |
| Moist column | `core/stencils/{fillz,neg_adj3,saturation_adjustment,fv_subgridz}.py`, `physics/stencils/microphysics.py`, `physics/functions/microphysics_funcs.py`, `stencils/update_atmos_state.py` | six species of water by level, sums and fluxes kept beside them | some fifty exchanges between species, sedimentation, four repairs of negative amounts | sums updated by hand after every exchange; repairs that depend on one another across packages | water is not made but by repairs, and no more than was missing; the sums are right |
| Driver and restart | `driver/{driver,state,run,diagnostics,initialization}.py` | model state, time, restart directories | step, diagnostics, checks, restart files, cleanup, load | a crash or exception on one rank between writes of others | what a run writes belongs together; a run begins with one state |
| Diagnostics: NetCDF | `util/monitor/netcdf_monitor.py` | the chunk in memory, its times, the files | `store`, `store_constant`, `cleanup` | clients run ahead of the root; the last partial chunk | each file holds its own times, nothing is lost |
| Diagnostics: Zarr | `util/monitor/zarr_monitor.py` | one array a variable, shared on disk; each rank's `i_time` and array object | `store`, `store_constant` | only the root extends the arrays, all ranks write; one broadcast an append, one barrier a store | writes are in bounds, a time past its barrier is complete |
| Scatter and gather | `util/communicator.py` 111-281 | a buffer for the call | `scatter`, `gather`, `*_state` | collectives around code that may raise on the root alone; overlapping interface points | each rank gets its subtile, the tile gets each point from its owner |
| Caching communicator | `util/caching_comm.py`, `driver/comm.py` | lists of received data, cursors, sub-communicators | all calls of `Comm`, dump, load | the order of completion is recorded, the order of posting is replayed | the replay hands every receive what it received |
| Distributed compilation | `util/decomposition.py`, `dsl/pace/dsl/stencil.py` 341-370, `dsl/pace/dsl/stencil_config.py`, `dsl/pace/dsl/dace/{build,orchestration,dace_config}.py` | code on disk, messages, a barrier | construct a stencil, call an orchestrated function | messages that say nothing of what was compiled are counted; two functions compute who compiles for whom | a rank runs what was built for the same call and place; no rank waits for ever |
| Test communicators | `util/local_comm.py`, `util/null_comm.py` | shared lists of data | calls of `Comm` in rank order | legal only in one order of ranks | wrong order is reported |
| Timers, safety checker, checkpointer | `util/_timing.py`, `driver/safety_checks.py`, `util/checkpointer/` | clocks, checks, thresholds | start, stop, register, check | exceptions leave clocks running | clocks are balanced |
| Grid, allocation, DaCe passes, namelists, legacy restart | the rest | arrays | numerics and I/O | floating point | outside of this development |

How they interact. The partitioner gives each `Communicator` the boundaries of its
rank; halo updaters turn these into one buffer and one message for each neighbour.
The dynamics create the updaters once and start and wait for them many times in a
step, overlapping up to four exchanges, and fill the corners of the cube, where
there is nothing to exchange, by themselves. The driver runs dynamics and physics
step by step, hands the state to a monitor, which uses `gather_state` (NetCDF) or
the file system (Zarr), and writes restart files. Stencil construction and
orchestrated calls use `MPI.COMM_WORLD` directly, beside the communicator. A
caching communicator can stand in for MPI under all of this.

`PROJECT.json` lists every component with its status, and under `hazards` what
can go wrong in this code, at its line, with the property that would notice.

## 2. Modules

| Module | What it is | Corresponds to |
|---|---|---|
| `Partitioner` | operators on ranks and layouts | `TilePartitioner.boundary`, `CubedSpherePartitioner.boundary` and helpers, one operator a method |
| `CubeGeometry` | the reference: six oriented squares in space that form a cube | nothing in the code: it knows no ranks, parities or rotations |
| `HaloData` | the slices of a boundary, rotations, and the order of values in a buffer | `get_boundary_slice`, `rotate_scalar_data`, `rotate_vector_data`, pack and unpack of both transformers, the CUDA kernels, the messages of the interface exchange |
| `CornerFills` | the tables of the corner fills | `stencils/corners.py`, `fill_4corners` and its like in `c_sw.py`, `d2a2c_vect.py`, `del2cubed.py`, `delnflux.py` |
| `CompilingRanks` | extends `Partitioner`: who compiles, who is waited for, who is unblocked | `determine_compiling_ranks`, `get_target_rank`, `unblock_waiting_tiles`, `determine_compiling_equivalent` |
| `MCPartitioner` | a walker crossing boundaries on every layout; composes the five above | |
| `PartitionerProofs` | extends `MCSubtiles` and `MCScatterGather`: what the division of a dimension gives; the inductive invariant of scatter and gather and its proof; the walk on every layout | |
| `HaloDataProofs` | extends `PartitionerProofs`: what the halos hold on every layout, by corner fills and by exchanges | |
| `Subtiles`, `MCSubtiles` | the division of one dimension; `MCSubtiles` adds it to the walk, to compare edges across the cube | `_subtile_extents_from_tile_metadata`, `_rank_slice_from_tile_metadata_cached`, `extent_from_metadata` |
| `HaloProgram` | the operations a program asks of a communicator; boundaries as assumptions | the calls in `dyn_core.py` and the tests |
| `HaloExchange` | abstract specification of an exchange: no messages, buffers or tags | the documented contract of `start` and `wait` |
| `HaloUpdater` | the detailed specification | `HaloUpdater`, `HaloUpdateRequest`, `VectorInterfaceHaloUpdater`, `Buffer`, the transformer's life cycle, MPI |
| `MCHaloUpdater` | programs and neighbourhoods for TLC | |
| `HaloUpdaterProofs` | buffers, which messages meet, and that `HaloUpdater` implements `HaloExchange`: an inductive invariant for each, one on the other | |
| `StencilProgram` | statements: a stencil with the rows it sets and reads, start and wait of an updater | `FrozenStencil`'s origins and domains, GT4Py offsets and regions |
| `HaloValidity` | executes such a program and follows which rows of each field are fresh | |
| `TransportSteps`, `CGridSteps`, `DGridSteps`, `PhysicsSteps` | the stencils as statements | finite-volume transport and damping; `c_sw` to `p_grad_c`; `d_sw`, `update_dz_d`, `riem_solver3`, `nh_p_grad`, `ray_fast`; `fv_subgridz`, the physics, `fv_update_phys` |
| `DynamicalCore`, `MCDynamicalCore` | the whole step as one program, by place, level and options | `AcousticDynamics.__call__`, `TracerAdvection`, `LagrangianToEulerian`, `DynamicalCore.step_dynamics`, `Driver._critical_path_step_all` |
| `WaterColumn` | a cell and a column of water in whole units | the six species of the state |
| `SaturationAdjustment`, `Microphysics` | what each process may make of a cell | `SatAdjust3d`; `microphysics_funcs.py` and the stencils of `microphysics.py` |
| `MoistFixers` | the repairs of negative amounts | `fix_tracer`, `fix_neg_water`, `fix_water_vapor_down`, `fillq`, `fill_gfs_delp`, `fix_negative_ice` and its like |
| `MoistColumn`, `MCMoistColumn` | a column through a physics step | the order of those calls in `fv_dynamics.py`, `microphysics.py`, `update_atmos_state.py` |
| `MoistColumnProofs` | columns of any height: the program step by step, what each process and each repair conserves, the inductive invariants | |
| `Driver`, `MCDriver` | runs of a job, killed and launched again | `Driver.step_all`, `_critical_path_step_all`, `cleanup`, `RestartConfig`, `run.main` |
| `DriverProofs` | the inductive invariant and its proof | |
| `Diagnostics`, `MCDiagnostics` | composes the two monitors by the configured format | `MonitorDiagnostics` |
| `NetCDFMonitor` | one tile's ranks | `NetCDFMonitor.store`, `_ChunkedNetCDFWriter`, `cleanup` |
| `ZarrMonitor` | all ranks of a store | `ZarrMonitor.store`, `_ZarrVariableWriter.append`, `_ZarrTimeWriter.append` |
| `DiagnosticsProofs` | the inductive invariants of both monitors and their proofs | |
| `ScatterGather`, `MCScatterGather` | extends `Subtiles`: one scatter, work, one gather | `Communicator.scatter`, `Communicator.gather` |
| `CachingComm`, `MCCachingComm` | recording and replay of an open program | `CachingCommWriter`, `CachingCommReader`, `CachingCommData`, the two requests |
| `CachingCommProofs` | the inductive invariant and its proof | |
| `DistributedCompilation`, `MCDistributedCompilation` | extends `CompilingRanks` | `FrozenStencil.__init__`, `block_waiting_for_compilation`, `_build_sdfg` |
| `DistributedCompilationProofs` | the inductive invariant and its proof | |

Operators and actions keep the code's names where they can. Next to a definition
may stand a second one of the same shape that would be a plausible mistake in
that code (`TurnedUnflipped` beside `Turned`, `FirstStepEveryTime` beside
`FirstStep`). No specification uses those; put in place of the right one they
make the property they are listed with in `PROJECT.json` fail, which shows that
the property depends on that code.

### Boundaries, data and corners

`MCPartitioner` compares the code with a cube in space. A rank's boundary must be
the rank whose subtile touches it there. A halo point is then a place on the
sphere: what lies past an edge of the tile is folded over it, onto the next face;
so is the direction of a vector's component. `HaloData` packs on the sender and
unpacks on the receiver by their own boundaries; a value is the name of the point
it was read from, with a sign, so the check compares places and directions, for
one and three rows of halo, fields on cells and nodes in one message, vectors on
the centers, C- and D-grid, and both orders of dimensions in memory. The GPU's
index lists and kernels must give the same buffers and halos.

Beyond a corner of the cube there is no tile. The stencils that sweep along rows
continue across the corner into the tile that lies there when one follows the row,
and those along columns into the tile across the other edge. `TurnsBehind` derives
from the partitioner's boundaries alone how that tile is turned, and
`CornersContinueTheCube` compares every copy of every table with it: each place
written once, from a place that no copy of the same fill writes, with the sign a
component of a vector gets.

### The halo exchange

`program` is the sequence of operations all ranks run. A rank's `pc` counts those
finished. The longer operations are several actions, because other ranks and MPI
act in between: creation takes one buffer at a time (`Compile`, then `Create`);
`start` posts its receives (`StartRecv`), then packs and posts its sends
(`StartSend`); the interface exchange pops, packs and posts buffer by buffer
(`SyncIsend`, `SyncIrecv`, `SyncStarted`), and its wait gives buffers back one by
one (`SyncSendDone`, `SyncRecvDone`, `SyncWaited`). Operations that raise stop
the rank (`StartRaises`, `WaitRaises`).

A message holds the identity of its buffer, not its content: `Deliver` reads the
send buffer and writes the receive buffer at the moment MPI moves the data, so a
buffer reused too early shows up as wrong data. `CopyOut` is MPI completing a
send early. Matching follows MPI: on a channel of source, destination and tag the
k-th send matches the k-th receive, and matched messages complete in any order.

Abstracted: array contents become the version of a field (the operation that
wrote it last); the shape key of the cache is left out (all buffers fit all
uses, which makes confusion easier); the cache is a set, the last-in-first-out
order of the lists being of no account once shapes are equal.

### The schedule of a step

What matters to a halo is how many rows of it are right. `valid[f]` is the
rectangle, in rows beyond the rank's own cells on each side, on which field `f`
equals what the owner of each cell holds. A stencil sets its outputs on a
region and leaves them fresh as far as all it reads are; an exchange makes the
halo fresh if what was packed was, and has not been written since. One rank is
followed: all others run the same program, so that what a neighbour packs is fresh
exactly where this rank's is. The place of a rank matters because stencils read
less, and one-sidedly, along the edges of a tile.

Every field starts not fresh except what a step is given (`Given`). So the
properties also say that a step reads nothing left over from the step before: the
saved `DycoreState` is enough for a restart.

Assumptions: ranks are six cells wide or more (the edge stencils reach four
cells in); square arrangements of ranks; the non-hydrostatic configuration with more
than four levels, `grid_type` below 3, `use_logp` off, the vorticity damping on
(`updatedzd.py:222`, so that no `DelnFlux` returns at once, `delnflux.py:975`), and an
order of divergence damping (`nord`) of one or more, with the sponge of order zero on the top
levels that the code's defaults give: without a level of order zero above one of higher order
`divergence_damping.py` ends in an error (see section 6). Where the tendencies of the winds are interpolated along an
edge the model reads the rows on both sides of it, more than the code may. The updater of the
cell-centered winds is one for dynamics and physics, as in the code. Tracers take
three substeps. The blocks of halo cells across a corner of the cube are left out: their
contents are the subject of `CornersContinueTheCube`.

### The moist column

An amount of water is a whole number of units of mass, which may be below zero.
A process maps a cell to the cells it may become: a rate is any amount up to the
bound the code puts on it, nothing included, so temperatures, fall speeds and
cloud fractions are left out; `DeepCold` says in which levels the code's threshold of
temperature may be passed, `Kmp` from which level on the saturation is adjusted. Two rates have no
bound in the code: the conversion of cloud water to rain with subgrid variability, and the sublimation
of graupel where the vapour is below zero. `Overdraw` says, by level, how many units such a rate
may take beyond what there is. With the cell go the sums the stencil keeps
(`book`), and for the column the mass flux that will move momentum (`m1`) and
what has reached the ground (`fallen`).

### The driver

A state is known by the run that computed it and the steps it had made. Files are
opened, then closed; a job may be killed between, and launched from any directory
with a `restart.yaml`, or from the start. Ranks meet in the exchanges of a step
only: there are more of them in a step than there are ranks from one side of the
cube to the other, so that no rank ends a step that another never comes to
(`Accompanied`). The ranks are those of one tile, the gathers those of NetCDF.

## 3. What is checked

All runs finish; the figures are distinct states.

| Run | Instance | Question and result |
|---|---|---|
| `partitioner` | every rank of cubed spheres of 1 to 4 and 6 ranks a side; periodic tiles of 3x3, 3x4, 4x3; halos of 1 and 3 rows of four by four points; every dimension of up to 20 points at ratios 1/2, 1, 2 (396) | Boundaries agree with the geometry and pair up; halo data and corner fills continue the cube; a rank loads the code of a rank in a like place; slices partition the tile and neighbours' edges agree |
| `subtile_ratio` | 5 ranks, up to 18 points | **Violated**: the closest valid size is not always used, see section 6 |
| `halo_pair` | two ranks, one reusable and one one-shot updater, one interface exchange; every program of 4 operations that Python can express and six longer ones (157,821) | Buffer safety, which buffers are lost, message matching, the refinement of `HaloExchange` (halo contents, uniform errors), absence of deadlock |
| `dynamics` | sixteen places of a rank on a tile, three kinds of level, three sets of options that take every branch with `nord` above zero; one physics step (79,284) | No result depends on a stale halo, nothing is written while it is exchanged, exchanges start and end in turn |
| `moist_column` | three levels, the saturation adjusted in the lower two, a rate that may overdraw the middle one by a unit; all columns of up to two units of water and one missing; two microphysics steps (672,177) | Who makes water and how much; sums and momentum flux are right; what is left or driven below zero |
| `driver` | three ranks, two steps, an intermediate and a final restart, checks that may raise, three launches (942,726) | What one run writes agrees, runs begin with one state; ranks end, also in runs whose check raises, or wait for one that raised in mid-run |
| `diagnostics` | three ranks; NetCDF: two variables, 0 to 5 stores, chunks of 2; Zarr: variables before and after `time`, 4 stores, two constants (2,852) | Gathers are snapshots, files hold their times, nothing is lost; writes in bounds, times and store complete; every rank ends |
| `scatter_gather` | ten dimensions, cut evenly, unevenly or not at all among 1 to 4 ranks (844) | Data arrive where they belong; a rank ends, or waits for one that raised because the tile is cut unevenly |
| `caching` | every program of up to 5 calls on up to 3 communicators (342,370) | Orderly programs are replayed exactly |
| `caching_replay` | programs of up to 3 calls | **Violated**: not every program replays, see section 6 |
| `compilation` | six ranks, three stencils or calls, three orchestrations (66,387) | Waiting ranks find what they wait for, barriers separate, every rank ends |
| `wide_layout` | four ranks of a 4 by 4 layout | **Violated**: a rank waits for ever, see section 6 |

Why the bounds are enough to be interesting.

- `partitioner`: with three ranks a side there is every kind of rank (corner, edge,
  interior, and pairs of each across a tile's edge); layouts of one and two put a rank on
  several edges at once; six shows that nothing changes beyond, as the proofs do for
  every size. Four points a rank are more than the three rows of halo. Twenty points among six ranks include all branches of the search (no
  solution, first, downward, upward, truncation).
- `halo_pair`: four operations suffice for every misuse of one updater and for two
  exchanges in the air; the longer programs are the overlaps the dynamics use, with
  buffers going back and forth between exchanges. Neighbourhoods of more ranks and other
  programs are covered by the theorems of section 4, but for deadlock: there the argument is that
  no operation waits for anything but messages posted without waiting.
- `dynamics`: a stencil's reach along an edge depends on which of the four edges a rank
  has, hence the sixteen places; the orders of damping differ on the two top
  kinds of level. Two acoustic steps and two remapping steps make a first, a later and
  a last one of each.
- `moist_column`: three levels are a top, an interior and a bottom, which is all the
  repairs tell apart, except for a debt handed through several interior levels.
  Two units let one species pay while another owes; with one unit missing every repair is
  needed, also where no level has enough. The middle level may be overdrawn by one unit at a time and may be in the
  deepest cold, so that levels with and without these dangers exchange rain and ice, and twice two calls of the
  conversion give it the chance to overdraw again. The theorems of section 4 hold for any height, any amounts and any `Overdraw`.
- `driver`: a second run from the first one's files, and a third from a directory two
  have written to; two steps put the check and the restart once inside the loop and
  once at its end.
- `diagnostics`: two stores are needed for a client to be a store ahead; the NetCDF
  bound passes two chunk boundaries and ends on and off one.
- `compilation`: three calls of an orchestrated function reach a state in which one
  rank is still in the first while another has finished the second's build.

Deadlock is checked where the end of a program is an explicit stuttering step
(`halo_pair`, `dynamics`) and where there is no end (`moist_column`). The other runs stop
when their work is done and switch it off; those with processes that can wait for one
another have a liveness property (`EveryRankEnds`) in its place. Where the code lets an exception on one
rank strand others (`driver`, `scatter_gather`), that property is about those runs too: it says who may be left waiting, and
for whom.

### Fairness

Each rank is weakly fair by itself: a process that can continue does, nothing in
the code suspends it. MPI is weakly fair for matched pairs as a whole (its
progress guarantee), and no fairness is assumed of `CopyOut`: MPI may never
buffer a send. Barriers and collectives are fair once all have arrived. In the
driver no fairness is assumed of `Launch`: a job need not be killed, nor started
again. No strong fairness is used.

## 4. What is proved

### The halo exchange: buffers

`HaloUpdaterProofs` is about every communicator (any finite set of ranks, with
neighbours and interface edges that pair up, as those of the partitioners do, see below), every program, every number of buffers. Assumptions:
`BoundariesAssumption`, `ObjectsAssumption` (in `HaloProgram`),
`ProgramsAssumption` (in `HaloUpdater`).

| Theorem | Says |
|---|---|
| `TypeCorrect` | `Spec => []TypeOK` |
| `OnlyUnusedOneShotsLoseBuffers` | `Spec => []OnlyUnusedBuffersAreLost`: no buffer is free and held, or held twice; what is neither is counted, two buffers per neighbour for each one-shot updater deleted without a wait |
| `NoPendingBufferReused` | `Spec => []PendingBuffersHeld`: a buffer MPI still uses is neither free nor used twice |
| `PackedDataIsSent` | `Spec => SendBuffersFrozen`: no step writes the buffer of a pending send |
| `Invariant` | `Spec => []IInv`, from which the others follow; the loss of buffers needs `PInv` of the next section as well |

None of these is inductive by itself. That a buffer is not given back while a
message uses it depends on which operation posted the message and on that
operation not having been waited for; and whether it has is known only from the
object's `status` and `inflight`. So

    IInv == TypeOK /\ LifeCycle /\ LiveUpdatersHold /\ BuffersPartitioned
            /\ SendsOwned /\ RecvsOwned

where `LifeCycle` ties `inflight` to `status`; `LiveUpdatersHold` says an updater
that was created and not finalized has all its buffers; `SendsOwned` and
`RecvsOwned` say each pending message belongs to an operation of its rank's
program which is under way, and uses the buffer in that object's slot for the
other rank. The argument for a step: `wait` runs only when no message of its
operation is pending, so finalizing touches no pending message's slot
(`WaitedSends`, `WaitedRecvs`); other operations of the rank keep what it
remembers of the exchange (`PostedStep`); every step either takes a buffer nobody
held, gives back or drops slots no message uses, or leaves buffers alone (`BufferStep`),
which keeps each buffer in one place (`PartitionStep`). Packing writes the slots of the
object that starts, which by ownership and partition are not those of a pending
message (`FrozenStep`).

That nothing else is lost is a count (`LossCounted`). Steps that take, give back or leave alone lose nothing
(`LostSame`). Deleting a one-shot updater loses what it holds: nothing if its wait has finalized it, else
all its slots (`LossRankStep`), and whether it has been waited for is what `OneShotsAreSpent` of `PInv` says.

### The halo exchange: messages and data

`HaloUpdaterProofs` goes on from there, under the same assumptions.

| Theorem | Says |
|---|---|
| `OnlyOneOperationMeets` | `Spec => []MatchedMessagesAgree`: a send and a receive that MPI matches are of the same operation |
| `ExchangeKeepsItsPromise` | `Spec => ImplementsPromise`: every step of the detailed exchange is a step of `HaloExchange`, or changes nothing it speaks of |
| `MatchingInvariant`, `PromiseInvariant` | `Spec => []MInv`, `Spec => []PInv` |

MPI matches by order on a channel, not by operation, so that the first theorem is about
what both ends of a channel have ever posted. The tag of an updater is the number of updaters
made before it, the same on every rank (`TagsFollowTheProgram`). The ends of a channel
take turns over the same operations: the messages a rank has posted there are those of the operations
of that object it has come to, and none is skipped (`SendPosted`, `RecvPosted`). `EndsAgree` is the
heart of `MInv`: for each operation the send is over if and only if the receive is, because a
message, copied out of its buffer or not, leaves both ends at once. What is pending on the two ends then is of the same operations from the oldest on,
and the k-th of one meets the k-th of the other.

For the refinement, `PInv` adds what the messages hold: a rank's fields are as its last write left them
(`DataIsTheLastWrite`), the start it remembers is the last (`StartsRemembered`), what a pending
message or a receive buffer holds is what the sender's fields were at the operation of that number
(`SentAsOffered`, `ArrivedAsOffered`), and a halo is what the last wait for it promised
(`GhostsAsPromised`). A wait that finds its receives over so finds in its buffers what
`HaloExchange` says it brings, and finds every source at the same start or past it. A rank
raises exactly where `HaloExchange` calls the operation misused.

### The driver

`DriverProofs` is about any set of ranks, any number of steps and launches, any choice
of intermediate restarts and checks (`DriverAssumption`).

| Theorem | Says |
|---|---|
| `RunsWriteOneState` | `Spec => []FilesOfOneRunAgree`: what one run left in a directory is of one time, wherever it was killed |
| `RunsBeginTogether` | `Spec => []RunsBeginWithOneState`: where a directory holds one run's files, all ranks begin with one state |
| `TypeCorrect` | `Spec => []TypeOK` |
| `Invariant` | `Spec => []IInv` |

    IInv == TypeOK /\ Counts /\ Together /\ OwnWrites /\ EarlierRunsAgree
            /\ Promised /\ RunsBeginWithOneState

Nobody waits for another to write, so that files agree must come from the steps:
`Counts` ties the steps a rank has made and the time it has counted to where it is in its
program; `Together` says no rank is more than a step ahead of another, which the
exchanges enforce; `OwnWrites` says what this run has written in a directory has the
step that directory is for, and in the final one the step at which the rank left the
loop. Ranks that left the loop made the same number of steps (`CleanedAlike`): one
that raised keeps the others from passing it. What earlier runs wrote is not touched but by
replacing it (`EarlierRunsAgree`), and a rank that has not loaded finds what the
`restart.yaml` promised or no file (`Promised`).

### Compilation

`DistributedCompilationProofs` is about any layout, any ranks of it, any number of
stencils or calls and each orchestration (`StepsAssumption`, `RanksAssumption`).

| Theorem | Says |
|---|---|
| `BuiltBeforeTheBarrier` | `Spec => []BarrierSeparates`: who is past the barrier of a call finds every builder's part of it on disk |
| `RunsWhatWasBuiltForIt` | `Spec => []RunsItsOwnBuild`: what a rank runs was built for this call, by the rank at its place |
| `WaitersAreNotMisled` | `Spec => []WaitersFindItCompiled`: an ok lets a rank go on only to a stencil its equivalent has compiled |
| `TypeCorrect` | `Spec => []TypeOK` |
| `Invariant` | `Spec => []IInv` |

    IInv == TypeOK /\ OwnProgram /\ Built /\ BarriersPassedTogether /\ OwnPath
            /\ OnePathPerCall /\ RunnersHaveTargets /\ OksCounted /\ BuildersHaveEquivalents

Neither kind of message says which stencil or call it is about. For the calls the
barrier decides: all ranks have passed the same number of them
(`BarriersPassedTogether`), so that a compiling rank sends the path of the call all are
in, and `OnePathPerCall` says a channel from a rank's target holds nothing but that
path, and only while the rank waits. That the path comes from the right place follows
from arithmetic: a rank is unblocked by its remainder only (`UnblockedByItsEquivalent`),
and by each message of a step once (`UnblockedOnce`). So on the wide layouts of section 6 a
rank may wait for ever but never runs another's build. Under `Python`
there is no barrier and oks may pile up; `OksCounted` counts those received and those
on their way against the stencils the equivalent has compiled.

### The monitors

`DiagnosticsProofs` is about any ranks, lists of variables, chunks and lengths of a run
(`DiagnosticsAssumption`: among them that the variables of a store have distinct names, as keys
of a dictionary do, and that `time` is one).

| Theorem | Says |
|---|---|
| `RootGathersItsOwnTime` | `Spec => []GathersAreSnapshots`: what the root puts together is of one time on all ranks |
| `ChunksAreWholeAndInPlace` | `Spec => []FilesHoldTheirTimes`: each file holds whole arrays, each at the place of its time |
| `EveryTimeIsWritten` | `Spec => []NothingLost`: when the root is done, every time stored is in a file |
| `NoWriteBeyondTheArray` | `Spec => []WritesInBounds`: no rank writes where the zarr array does not reach yet |
| `PassedTimesAreComplete` | `Spec => []TimesAreComplete`: a time all ranks have passed is written by all |
| `NothingIsMissing` | `Spec => []StoreIsComplete` |
| `NetCDFInvariant`, `ZarrInvariant` | `Spec => [](format = "netcdf" => NInv)`, `Spec => [](format = "zarr" => ZInv)` |

Under NetCDF nothing but order ties a gathered array to its time: a client may be stores ahead.
`NetworkInOrder` counts: the arrays a client has sent for a variable, less those the root has taken, are in
the channel, in the order of their times. From the number of a store follow the length of the chunk in memory
and of each file by quotient and remainder (`MemoryHoldsTheChunk`, `FilesWritten`), so that also the last,
shorter chunk lies where it should. Under zarr every variable has a broadcast and a barrier:
`PassedTogether` says no rank is a barrier ahead of another, `LengthsOK` gives the length of every
array in terms of where the root is, and `DiskOK` says what is on disk is exactly what each rank's place in
its own program implies.

### The caching communicator

`CachingCommProofs` is about programs of any length on any number of communicators
(`BoundsAssumption` names the bounds of the run; the proof uses neither).

| Theorem | Says |
|---|---|
| `OrderlyProgramsAreReplayed` | `Spec => []OrderlyProgramsReplay`: a program that waits in the order it posts, and gathers nothing, sees on replay what it saw |
| `RecordInvariant` | `Spec => []CInv` |

The record of a communicator is a list without names, so that a reader sees the right value only if it is at
the right position. `ListsOK` says the n-th entry is what the n-th call that records returned, and `ReadInOrder`
that a reader's cursor is the number of calls it replayed that read. For broadcasts, reductions and splits
these are the same calls; a receive reads when it is made and records when it is waited for, and in an orderly
program the n-th receive made is the n-th completed (`ReceivesAreRecordedInOrder`). Both programs of section 6
that are not replayed break that step.

### The partitioner

`PartitionerProofs` is about square layouts of the sphere of every size, and layouts of the periodic tile with
three or more ranks a side (`LayoutsAssumption`; the code refuses others), and dimensions
of any extent and ratio (`DimsAssumption`). `WalkSpec` is the walker's specification, in `MCPartitioner`.
`HaloDataProofs` holds `CornersFollowTheCube` and `HalosFollowTheCube`, about the same layouts.

| Theorem | Says |
|---|---|
| `BoundariesFollowTheCube` | `WalkSpec => []NeighboursAreAdjacent`: what the partitioner finds across an edge or a corner is the one subtile that touches it there on a cube in space, none exactly at the cube's corners |
| `EveryBoundaryIsAnswered` | `WalkSpec => []BoundariesPairUp`: boundaries lead to different ranks, and one back, undoing the rotation |
| `EveryPeriodicBoundaryIsUndone` | `WalkSpec => []PeriodicTilePairsUp` |
| `CodeAlwaysFitsThePlace` | `WalkSpec => []CodeFitsThePlace`: a rank loads code compiled for a subtile on the same edges of its tile |
| `CornersFollowTheCube` | `WalkSpec => []CornersContinueTheCube`: every copy of every corner fill is from the place the boundaries lead to, with the sign of that turn |
| `HalosFollowTheCube` | `WalkSpec => []HalosContinueTheCube`: a halo point receives the value of the point of the cube it stands for, a component of a vector the one along its own direction, by the CPU's code and the kernels' alike; interface values computed twice come once, from the points across |
| `EveryPointHasOneOwner` | `WalkSpec => []SlicesPartition` |
| `EdgesHaveOneExtent` | `WalkSpec => []NeighboursHaveEqualEdges` |
| `CubedSphereIsACommunicator`, `PeriodicTileIsACommunicator` | the boundaries of both partitioners are as `BoundariesAssumption` of `HaloProgram` has them |
| `WalkerTypeCorrect` | `WalkSpec => []WalkerOK`: the walk stays on the ranks of its layout, the invariant the others need |

The code computes with flat numbers of ranks, which wrap, turn negative and are reduced only at the end. The
proof first gives each method in terms of tile, row and column (`EdgesLead`, `CornersLead`, `SphereBoundaryLeads`):
a number is a place in one way only (`ThePlaceOf`, `EveryRankIsAPlace`), the rank looked up in the rotated
array is the mirrored one (`TurnedLeads`), and reducing a number reduces its tile (`RankReduced`). What remains
is about places. `Answer` names the boundary that leads back, and `BoundariesAnswer` shows so for each of the
eight types at each kind of place. For adjacency every point of a subtile
has its coordinates in space; which subtiles hold a point on the rim of a tile
follows tile by tile (`AroundTile0` to `AroundTile5`), and of those that share two points with a rank's
edge, or one with its corner, only the one the partitioner names remains. Along a row, what is cut is symmetric, so that
an edge met from the other end has the same extent (`ExtentsMirror`).

For the corners, `AroundTheCorner` follows the boundaries over the two edges that meet there, both ways round, on
even and on odd tiles: the walker meets the rank across the other edge, turned once or three times
(`TurnsOf`). `CopyInto` says which copy such a turn asks for, at any corner and for any kind of place, `Filled` that a
table has one into each place and no other, and one lemma for each table of the code shows that it is filled so.

For the halos the proof has two halves. One is about a buffer and no sphere: arrays laid out one after the other in
either order are found where they were put (`TwoParts`, `ThreeParts`, `UnpackedIs`, `OptUnpackedIs`), and what
a boundary sends, turned, is what the boundary that faces it expects, counted from the middle of the subtile so that a
quarter turn only swaps two numbers and a sign (`Faces`, `Received`, `HaloIsTurned`). The other is about the sphere and
no buffer: `AnswersFace` shows that the boundary leading back faces the one it answers, `BoundariesContinue` into
which coordinates of the next tile those past the edge turn, and `OverTheWest` to `OverTheSouth`, tile by tile, that
they are the same point of space and that the axes agree with the turn (`ArrivesInPlace`). Rows of one and three points
and the run's four by four points a rank are kept: the layout is what the theorem generalises.

`CubedSphereIsACommunicator` and `PeriodicTileIsACommunicator` close the gap between the parts: what is proved of the halo exchange for
communicators whose boundaries pair up holds for those the code builds.

### Subtiles, scatter and gather

The first part of `PartitionerProofs` is about any dimension: any number of ranks and points, on centers or
interfaces, any ratio (`DimensionsAssumption`: a point for each rank; with fewer the sizes may be zero).

| Theorem | Says |
|---|---|
| `EveryRankGetsItsPart` | `Spec => []ScatterDelivers`: what a rank receives is the part of the tile its subtile covers |
| `EveryPointComesFromItsOwner` | `Spec => []GatherKeepsTheOwners`: each point of the gathered tile is from the rank that owns it, whatever the others wrote to points they share with it |
| `ScatterGatherInvariant` | `Spec => []SInv` |

The code finds a slice by a loop over the ranks before it. `LoopComputes` gives that loop in closed form: it considers
the least number of passes after which the two would differ. The search for
sizes is not followed: whatever it returns divides the tile without remainder, or is an error, and from that
alone follows that the pieces fill the dimension (`ExtentsFill`). `SlicesCutTheTile` then says of every
dimension: the slices without overlap are disjoint, stay in the tile and
miss no point. In the gather the ranks are placed one after the other, so that a shared interface is
written twice; `TileOK` says of each rank already placed that what it owns is there, which a later rank's
slice does not touch.

### The moist column

`MoistColumnProofs` is about columns of any number of levels from three on, where the code's own
repairs need a level between top and bottom (`ColumnAssumption`), with any whole number of units of any species
in any level, below zero or not, any number of microphysics steps, any levels cold enough for deposition to
overdraw the vapour, and rates that may overdraw each level by any amount of its own (`MoistAssumption`).

| Theorem | Says |
|---|---|
| `WaterIsMadeByFixers` | `Spec => OnlyFixersMakeWater`: water is made by three repairs only, never more than was missing; every other stencil keeps the column's, the falling and the fallen water together |
| `BooksAreRight` | `Spec => BooksBalance`: where sums of liquid and solid water are kept exchange by exchange, they end as those of the cell; where all clouds evaporate at once, as those of the cell before, of which nothing else has changed |
| `FluxIsTheWaterFallen` | `Spec => []MomentumFluxIsTheWaterFallen` |
| `NothingIsBelowZero` | `Spec => []NothingBelowZero`: rain, ice and snow are never below zero, cloud water never by more than one `Overdraw`, graupel not before the first `subgrid_z_proc`, and the vapour is as its repairs promise |
| `TypesHold` | `Spec => []TypeOK` |

A repair sweeps a column level by level, and the model defines it by a recursive function. That such a
function exists at all, hence has the value its definition says, is `RecursionUp` and `RecursionDown`: both
consider the least number of levels for which it would not. `Telescopes` does the rest for
most of them: two columns that differ by what each level hands to the next have equal totals but for what enters at
the top and leaves at the bottom. For each repair a lemma then says what it does to the total and to the signs
(`FixTracerIs`, `FillQIs`, `FixWaterVaporDownIs`, `FixWaterVaporIs`, `FillGfsDelpIs`).

The actions take their step from a sequence, so the proofs first name the step at each position and the one that follows
(`ProgramIs`, `StepFollows`, `TurnsAre`), and `StepsSorted` sorts the steps into those of a cell, a species, the
mixing of two levels, the start, the fall of water and the rest. The first two theorems are about single steps
and need the types only. The other two need an invariant each:

- `FluxIsBooked`: the flux is what the levels above have lost only at times. While rain falls, that of rain is
  kept apart and added afterwards; while snow and graupel fall, theirs is. So the program has four phases (`Complete`,
  `RainToAdd`, `SolidToAdd`, `BothToAdd`), and in each another sum of the three fluxes is the right one.
- `Promises`: from the microphysics' own repair on no rain, ice or snow is below zero, and cloud water
  is overdrawn by what one rate may take too much, never twice: the conversion takes none where there is
  none, nor does any other process (`Sound`). Graupel may be overdrawn by a `subgrid_z_proc`, the last stencil of a microphysics
  step, so up to the first of them it is not (`Firm`).
  That a process keeps these signs is shown for each of them, branch by branch (`KeepsSound`). Two of the
  three repairs of the vapour may leave a debt at the bottom, where the levels they borrow from have nothing to
  lend, and what they promise holds just where the microphysics or the next step of the physics begins. The third sets to
  zero what is still missing.

### What is only model-checked

Liveness (`EveryRankEnds`) is beyond the proof system, and so is absence of deadlock.
The recursive searches of `Subtiles` are not followed for every input either; the proofs need only that
what they return divides the tile.

The four properties of the schedule (`ResultsAreFresh`, `ExchangesAreCurrent`, `ExchangesEnd`,
`CarriedFieldsStayFresh`) are about one program, which the run executes for every place of a rank: a
proof would execute it again, statement by statement.

## 5. Order of work and what is left

Written in this order, the most important behaviour first: `Partitioner` and
`CubeGeometry`; `HaloProgram`, `HaloExchange`, `HaloUpdater` with the refinement and
the proofs; `Subtiles`, `ScatterGather`; `CachingComm`; `CompilingRanks`,
`DistributedCompilation`; the monitors and `Diagnostics`; the schedule of the dynamics and the
physics; the driver with its proofs; the moist column; the corner fills; the halo
data; the proofs about compilation; the proofs about messages and the promise of an exchange, the
monitors, caching, scatter and gather; the proofs about the partitioner; those about the moist column
and the halo data.

Left: the chunks of a
zarr array shared by ranks of unequal subtiles; `LocalComm` (legal orders of calls); the
timer; hydrostatic and doubly periodic configurations of the dynamics.

## 6. Disagreements between the code and what is said of it

- `subtile_ratio`: the search of `_valid_edge_tile_sizes` (`util/partitioner.py`
  909-923) is cut off after one step more than there are valid sizes, though it
  also spends steps on invalid ones and starts over at 1. Seven points among five
  ranks raise `ValueError` though 2, 1, 1, 1, 2 fit; seventeen points do not get
  the closest ratio. The docstring: "In all cases, the closest valid value will
  be used".
- `caching_replay`: `Gather` on a rank other than the root records `None`, which
  the reader hands to its next receive; and receives are recorded in the order of
  their waits, replayed in the order of their posts. `ReaderCommConfig` promises
  "identical communication ... played back in the same order". The dynamics wait
  in the order they post and `OrderlyProgramsReplay` shows that such programs
  are safe, as long as they gather nothing.
- `wide_layout`: under `BuildAndRun` a rank that does not compile waits for its
  place on a 3 by 3 layout, while the builders send to the same place of the
  actual layout. Beyond 3 by 3 ranks a tile these differ and ranks wait for ever.

Seen while modelling, without a run of its own:

- Buffers. `HaloUpdater.__del__` ("Clean up all buffers on garbage collection",
  `util/halo_updater.py` 78) finalizes nothing when `force_finalize_on_wait` was called (86), and the
  transformers do not finalize themselves, though their docstring says that "the class will
  hold onto the buffers up until deletion, where they will be returned to an internal buffer pool"
  (`util/halo_data_transformer.py` 171). The buffers of a one-shot updater that is deleted
  without having been waited for are lost; `OnlyUnusedBuffersAreLost` counts them.
- Halo data. A scalar on one interface dimension cannot cross a rotated edge: what is
  sent and what is expected differ in size, and nothing refuses it. The GPU's indices are
  cached under a key without the order of the dimensions (`util/halo_data_transformer.py`
  587): fields stored `x, y` and `y, x` with equal strides would share one list.
  `rotate_vector_data` uses the dimensions of the x component for both.
- Corner fills. At the north-east corner `fill_corners_2d_bgrid` in the y direction is a
  mirror rather than a turn, and is called by nobody; `fill_se_corner_2d_agrid` uses
  `isc` for `jsc`, which are equal; the vector forms of the array fills are not used
  by grid generation. `_init_agrid` fills longitude along rows and latitude along columns
  (`util/grid/generation.py` 1631-1642), so that the two in a corner cell are of no one
  point. The divergence damping gives `(vc, uc)` as `(x, y)` of a D-grid, rightly: they hold the
  gradient of the divergence there.
- Divergence damping. `_do_zero_order` is false when no level has an order above zero
  (`nord: 0`) and when the first level has one (`divergence_damping.py` 307-323). `da_min_c`
  is set only where it is true (568) and read in any case (621, 629): the first step ends with an
  `UnboundLocalError`. The model is of the other configurations.
- Moist column. In `fix_negative_ice` graupel borrows from rain but the cloud water
  pays (`neg_adj3.py` 40); the bottom level pays a debt only if it is above zero, which
  it never is (`neg_adj3.py` 203); `fillq` stops where the column has no more. The limit
  `de_ice` never acts, because `prepare_microphysics` zeroes `qi_dt` first. Where it is colder
  than `T_MIN`, deposition can take more vapour than there is
  (`microphysics_funcs.py` 545), which the saturation adjustment prevents in the same place.
  With subgrid variability nothing keeps the sink of the autoconversion below the cloud water there is
  (`microphysics_funcs.py` 478; without it a `min` does, 442): cloud water may be overdrawn, and is then filled up
  by condensation where the air is not saturated (590), or stays below zero. Nothing limits what sublimates of the graupel where
  the vapour is below zero (814), and liquid water below zero turns the limit on deposition to graupel (809) into a loss.
  `NothingBelowZero` says how far each can go. Where all clouds evaporate at once, the sums of liquid and solid
  water stay as they were (581-586); the stencil does not read them again.
- Driver. The restart files of the physics are written and never read. A later run
  overwrites `RESTART` in place: killed in between, it leaves states of two times which
  a third loads without a word. The guard of `RunsBeginWithOneState` names that case.
- Exceptions on one rank. `check_state` raises on the rank whose state is out of bounds (`driver.py` 595), and
  the root in `scatter` before it enters the collective (`communicator.py` 149): the others wait for ever in the next
  exchange, or in `Scatter`, until the job is killed. `EveryRankEnds` of `driver` and `scatter_gather` allow just this.
- Others. `global_extent` returns the shape of the tile only if all subtiles are alike,
  which the documented C128 on a 3 by 3 layout is not; a rank that waited for its
  compiling equivalent compiles the stencil all the same, into its own cache directory;
  `CachingCommWriter.Barrier` does nothing, while the performance collector calls it.

## 7. Not modelled

- Numbers. Fields of floating point values, grid generation but for its corner fills,
  initial conditions, temperatures, fall speeds, cloud fraction: the repository's tests
  compare them with Fortran data.
- In the moist column: `fix_neg_cloud` (cloud fraction), the last pass of
  `fv_subgridz`. Water is counted with one mass of air per level: `fill_gfs_delp` weights the specific humidity
  with the `delp` of the dynamics (`update_atmos_state.py` 313), the tendencies with a difference of `prsi` (76), so
  that what the model says of its debts is said of these weighted amounts.
- In the schedule: the hydrostatic solver and the options named in section 2; the stencils of
  `fxadv.py` 183-404, which solve for the contravariant winds in the corner blocks of the cube.
- The check of `_boundary_utils.py` 85-92 that a boundary slice lies within the array, which
  it does for every halo the quantities are made with.
- The gather of an unevenly cut quantity that was not scattered before: what it leaves depends on what MPI does
  with messages shorter than was agreed. `GatherKeepsTheOwners` is about scattered quantities, which come to a gather only
  where the tile is cut evenly.
- DaCe's and GT4Py's code generation, the order in which CUDA streams run.
- Legacy restart input, namelists, conversions, nudging, logging and timers: no
  interacting state. `LocalComm` and `NullComm` are for tests.
- `NetCDFMonitor.store_constant`, the layout of zarr chunks, configuration of the driver and its
  other initial states.
- Python without `__debug__`, where `HaloUpdater.wait` omits its guard; deletion of
  updaters by the garbage collector while an exchange is under way; a second wait on one
  request.
