---------------------------- MODULE DynamicalCore ----------------------------
(***************************************************************************)
(* The program of one rank for a physics time step: the dynamics           *)
(* (fv_dynamics), in it the acoustic steps (dyn_core), the tracer          *)
(* advection, the vertical remapping and the winds on the cell centers,    *)
(* and after it the physics, as one sequence of the statements of          *)
(* StencilProgram.                                                         *)
(* c holds the place of the rank, the level and the options:               *)
(*   edges        the sides of the rank that lie on an edge of its tile    *)
(*   level        "top", "third" or "rest"                                 *)
(*   nord, dddmp, del2cubed, old_omega, breed_vortex, rf_fast, sat_adjust, *)
(*   nf_omega, c2l_ord, k_split, n_split    of the namelist, nord above    *)
(*                zero (see DGridSteps)                                    *)
(*   physics      what follows the dynamics                                *)
(***************************************************************************)
EXTENDS CGridSteps, DGridSteps, PhysicsSteps

-----------------------------------------------------------------------------
(* The halo updaters, the fields each exchanges and how deep. *)
Exchanges(fields, width) == [fields |-> fields, width |-> width]
HaloUpdaters ==
  [ q_con__cappa    |-> Exchanges({"q_con", "cappa"}, 3),
    delp__pt        |-> Exchanges({"delp", "pt"}, 3),
    u__v            |-> Exchanges({"u", "v"}, 3),
    w               |-> Exchanges({"w"}, 3),
    gz              |-> Exchanges({"gz"}, 3),
    delp__pt__q_con |-> Exchanges({"delp", "pt", "q_con"}, 3),
    zh              |-> Exchanges({"zh"}, 3),
    divgd           |-> Exchanges({"divgd"}, 3),
    heat_source     |-> Exchanges({"heat_source"}, 3),
    pkc             |-> Exchanges({"pkc"}, 2),
    uc__vc          |-> Exchanges({"uc", "vc"}, 3),
    tracers         |-> Exchanges({"tracers"}, 3),
    omga            |-> Exchanges({"omga"}, 3),
    c2l_u__v        |-> Exchanges({"u", "v"}, 3),
    u_dt            |-> Exchanges({"u_dt"}, 1),
    v_dt            |-> Exchanges({"v_dt"}, 1) ]

(* The cells of a field that are the rank's own. *)
Interior(field) ==
  CASE field \in {"u", "vc"} -> YFaces(0)
    [] field \in {"v", "uc"} -> XFaces(0)
    [] field = "divgd"       -> Corners(0)
    [] OTHER                 -> Cells(0)

(* What the state a step begins with holds, and all it has to hand over. *)
Prognostic == {"u", "v", "w", "delp", "pt", "delz", "tracers"}
Tendencies == {"u_dt", "v_dt", "t_dt"}

-----------------------------------------------------------------------------
(* dyn_core *)
ZeroData(n_map) ==
  << Sets({"mfx", "mfy", "cx", "cy"}, Cells(3), {}) >>
  \o When(n_map = 1, << Sets({"heat_source", "diss_est"}, Cells(0), {}) >>)

GzFromSurfaceHeightAndThickness == Sets({"gz"}, Cells(0), At({"delz"}))
InterfacePressureFromThickness == Sets({"pem"}, Cells(1), At({"delp"}))
ComputeGeopotential == Sets({"gz"}, Cells(2), At({"zh"}))
Copies(from, to) == Sets({to}, Cells(3), At({from}))

ApplyDiffusiveHeating ==
  Sets({"pt"}, Cells(0), At({"delp", "delz", "cappa", "heat_source", "pt"}))

(* What the first acoustic step takes from the state, and later ones from  *)
(* the one before.                                                         *)
FirstStepEveryTime(it) == << GzFromSurfaceHeightAndThickness, Starts("gz"), Waits("delp__pt") >>
FirstStep(it) ==
  When(it = 0, << GzFromSurfaceHeightAndThickness, Starts("gz"), Waits("delp__pt") >>)

(* The half of an acoustic step on the C-grid. *)
CGridHalf(c, n_map, it) ==
  << Starts("w") >>
  \o FirstStep(it)
  \o When(it = c.n_split - 1 /\ n_map = c.k_split /\ c.old_omega, << InterfacePressureFromThickness >>)
  \o << Waits("u__v"), Waits("w") >>
  \o CSw(c)
  \o When(c.nord > 0, << Starts("divgd") >>)
  \o (IF it = 0 THEN << Waits("gz"), Copies("gz", "zh") >> ELSE << Copies("zh", "gz") >>)
  \o UpdateDzC \o RiemSolverC \o PGradC
  \o << Starts("uc__vc") >>
  \o When(c.nord > 0, << Waits("divgd") >>)
  \o << Waits("uc__vc") >>

(* The winds are done, and go to the neighbours for the next step. *)
FinishWindsEarly(c, last) ==
  << IF last THEN Interface({"u", "v"}) ELSE Starts("u__v") >>
  \o When(c.rf_fast, RayleighDamping)
FinishWinds(c, last) ==
  When(c.rf_fast, RayleighDamping)
  \o << IF last THEN Interface({"u", "v"}) ELSE Starts("u__v") >>

(* The half on the D-grid.  The edge pressures are for the remapping. *)
DGridHalf(c, it) ==
  LET last == it = c.n_split - 1
      remap_step == c.breed_vortex \/ last
  IN  DSw(c)
      \o Updates("delp__pt__q_con")
      \o UpdateDzD(c) \o RiemSolver3(remap_step)
      \o << Starts("zh"), Starts("pkc") >>
      \o When(remap_step, << EdgePe >>)
      \o << Pk3Halo, Waits("zh"), ComputeGeopotential, Waits("pkc") >>
      \o PressureGradient(c)
      \o FinishWinds(c, last)

AcousticStep(c, n_map, it) == CGridHalf(c, n_map, it) \o DGridHalf(c, it)

AcousticDynamics(c, n_map) ==
  << Starts("q_con__cappa"), Starts("delp__pt"), Starts("u__v"), Waits("q_con__cappa") >>
  \o ZeroData(n_map)
  \o Loop(0, c.n_split - 1, [it \in 0..c.n_split - 1 |-> AcousticStep(c, n_map, it)])
  \o When(c.del2cubed,
       Updates("heat_source")
       \o HyperdiffusionDamping("heat_source", IF c.nord < 2 THEN c.nord + 1 ELSE 3)
       \o << ApplyDiffusiveHeating >>)

-----------------------------------------------------------------------------
(* tracer_2d_1l.  The Courant number of the sphere is taken to be two, so  *)
(* that the tracers are advected in three substeps.                        *)
TracerSubsteps == 3

FluxCompute ==
  << Sets({"xfx_t"}, Rows(0, 1, 3, 3), At({"cx"})), Sets({"yfx_t"}, Rows(3, 3, 0, 1), At({"cy"})) >>

DivideFluxesBySubsteps ==
  [i \in 1..6 |-> LET flux == <<"cx", "xfx_t", "mfx", "cy", "yfx_t", "mfy">>[i]
                  IN  Sets({flux}, Rows(3, 4, 3, 4), At({flux}))]

ApplyMassFlux == Sets({"dp2"}, Cells(0), At({"dp1"}) \cup X({"mfx"}, 0, 1) \cup Y({"mfy"}, 0, 1))
ApplyTracerFlux ==
  Sets({"tracers"}, Cells(0),
       At({"tracers", "dp1", "dp2"}) \cup X({"tfx"}, 0, 1) \cup Y({"tfy"}, 0, 1))
SwapDp == Sets({"dp1", "dp2"}, Cells(0), At({"dp1", "dp2"}))

TracerFluxes ==
  [crx |-> "cx", cry |-> "cy", xaf |-> "xfx_t", yaf |-> "yfx_t", x_unit |-> "mfx", y_unit |-> "mfy"]

TracerSubstep(it) ==
  << ApplyMassFlux >>
  \o FiniteVolumeTransport("tracers", TracerFluxes, "tfx", "tfy")
  \o << ApplyTracerFlux >>
  \o When(it < TracerSubsteps, Updates("tracers") \o << SwapDp >>)

TracerAdvection ==
  FluxCompute \o DivideFluxesBySubsteps \o Updates("tracers")
  \o Loop(1, TracerSubsteps, [it \in 1..TracerSubsteps |-> TracerSubstep(it)])

-----------------------------------------------------------------------------
(* remapping, a column at a time, where the columns of a wind lie between  *)
(* two columns of pressures.                                               *)
InitPe == Sets({"pe1", "pe2"}, YFaces(0), At({"pe"}))

MoistCvPtPressure ==
  Sets({"q_con", "cappa", "pt", "delz", "ps", "pn2", "pe2", "dp2", "delp"}, Cells(0),
       At({"tracers", "q_con", "pt", "cappa", "delp", "delz", "pe", "pe2", "peln"}))

Pn2PkDelp == Sets({"delp", "pn2", "pk"}, Cells(0), At({"dp2", "pe2"}))
MapSingle(q, from, to, on) == Sets({q}, on, At({q, from, to}))
UndoDelzAdjust == Sets({"delz", "peln"}, Cells(0), At({"delp", "delz", "peln", "pn2"}))
MoistPkz == Sets({"pkz"}, Cells(0), At({"tracers", "q_con", "pt", "cappa", "delp", "delz"}))
PressuresMapU == Sets({"pe0", "pe3"}, YFaces(0), Y({"pe"}, 1, 0) \cup At({"pe1"}))
PressuresMapV == Sets({"pe0", "pe3"}, XFaces(0), X({"pe"}, 1, 0))
UpdateUa == Sets({"pe3"}, YFaces(0), At({"pe2"}))
CopyFromBelow == Sets({"pe"}, Cells(0), At({"pe", "pe3"}))

SaturationAdjustment ==
  Sets({"tracers", "q_con", "pt", "pkz", "cappa", "dp1"}, Cells(0),
       At({"dp1", "tracers", "peln", "delp", "delz", "q_con", "pt", "pkz", "cappa"}))

(* The temperature, or the potential temperature for a step to come. *)
LastPt == Sets({"pt"}, Cells(0), At({"pt", "pkz", "tracers"}))

LagrangianToEulerian(c) ==
  << InitPe, MoistCvPtPressure, Pn2PkDelp,
     MapSingle("pt", "peln", "pn2", Cells(0)),
     MapSingle("tracers", "pe1", "pe2", Cells(0)),
     Sets({"w"}, Cells(0), At({"w", "pe1", "pe2", "wsd"})),
     MapSingle("delz", "pe1", "pe2", Cells(0)),
     UndoDelzAdjust, MoistPkz,
     PressuresMapU, MapSingle("u", "pe0", "pe3", YFaces(0)),
     PressuresMapV, MapSingle("v", "pe0", "pe3", XFaces(0)),
     UpdateUa, CopyFromBelow >>
  \o When(c.sat_adjust, << SaturationAdjustment >>)
  \o << LastPt >>

-----------------------------------------------------------------------------
(* fv_dynamics *)
FvSetup ==
  << Sets({"q_con", "pkz", "cappa", "dp1"}, Cells(0), At({"tracers", "pt", "delp", "delz"})) >>
PtToPotentialDensityPt == << Sets({"pt"}, Cells(0), At({"pkz", "dp1", "q_con", "pt"})) >>

OmegaFromW == Sets({"omga"}, Cells(0), At({"delp", "delz", "w"}))

Omega(c) ==
  << OmegaFromW >>
  \o When(c.nf_omega > 0, Updates("omga") \o HyperdiffusionDamping("omga", c.nf_omega))

AdjustNegativeTracerMixingRatio == Sets({"tracers", "pt"}, Cells(0), At({"tracers", "pt", "delp"}))

CubedToLatLonUnexchanged(c) ==
  << Sets({"ua", "va"}, Cells(0), Y({"u"}, 1, 2) \cup X({"v"}, 1, 2)) >>
CubedToLatLon(c) ==
  IF c.c2l_ord = 4
  THEN Updates("c2l_u__v")
       \o << Sets({"ua", "va"}, Cells(0), Y({"u"}, 1, 2) \cup X({"v"}, 1, 2)) >>
  ELSE << Sets({"ua", "va"}, Cells(1), Y({"u"}, 0, 1) \cup X({"v"}, 0, 1)) >>

RemappingStep(c, n_map) ==
  << Copies("delp", "dp1") >>
  \o AcousticDynamics(c, n_map)
  \o TracerAdvection
  \o LagrangianToEulerian(c)
  \o When(n_map = c.k_split, Omega(c))

Dynamics(c) ==
  FvSetup \o PtToPotentialDensityPt
  \o Loop(1, c.k_split, [n_map \in 1..c.k_split |-> RemappingStep(c, n_map)])
  \o << AdjustNegativeTracerMixingRatio >>
  \o CubedToLatLon(c)

(* A step of the driver. *)
TimeStep(c) == Dynamics(c) \o StepPhysics(c, CubedToLatLon(c))
=============================================================================
