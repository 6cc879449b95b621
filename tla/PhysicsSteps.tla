----------------------------- MODULE PhysicsSteps -----------------------------
(***************************************************************************)
(* What follows the dynamics in a physics time step: the dry convective    *)
(* adjustment (fv_subgridz), the physics with its microphysics, a column   *)
(* at a time, and the update of the state with the tendencies              *)
(* (update_atmos_state, fv_update_phys, update_dwind_phys), which brings   *)
(* those of the winds from the centers of the cells to their faces.        *)
(* The fields of the physics state are followed by group: phys what is     *)
(* copied from the dynamics, phys_dt the tendencies of the microphysics,   *)
(* phys_updated what comes out, mp the fields of the microphysics itself.  *)
(* c.physics is "full", "adjust" for the adjustment without the physics,   *)
(* "dry" for neither, or "none" where the step of the physics is disabled. *)
(***************************************************************************)
EXTENDS StencilProgram

Winds == {"u_dt", "v_dt"}
Adjusted == {"tracers", "pt", "ua", "va", "w"}

DryConvectiveAdjustment ==
  << Sets({"sg"}, Cells(0), At({"tracers", "pt", "ua", "va", "w", "delz"})) >>
  \o [m \in 1..3 |-> Sets({"sg"}, Cells(0), At({"sg", "delp", "peln", "pkz"}))]
  \o << Sets(Adjusted \cup Winds, Cells(0), At({"sg"} \cup Adjusted)) >>

CopyDycoreToPhysics ==
  << Sets({"phys"}, Corners(0), At(Adjusted \cup {"delp", "delz", "omga"})) >>

DycoreToPhysics(c) ==
  When(c.physics \in {"full", "adjust"}, DryConvectiveAdjustment)
  \o When(c.physics = "full", CopyDycoreToPhysics)

-----------------------------------------------------------------------------
(* The physics; two substeps of the microphysics stand for any number. *)
AtmosPhysDriverStatein == Sets({"phys", "phii", "prsi"}, Cells(0), At({"phys"}))
GetPrsFv3 == Sets({"delprsi", "del_gz"}, Cells(3), At({"phys", "phii", "prsi"}))
GetPhiFv3 == Sets({"del_gz", "phii", "phil"}, Cells(3), At({"phys", "del_gz"}))
PrepareMicrophysics == Sets({"wmp", "phys_dt"}, Cells(0), At({"phys", "phii"}))

FieldsInit == Sets({"mp", "phys_dt"}, Cells(0), At({"phys", "delprsi", "phys_dt"}))
WarmRain == Sets({"mp", "wmp"}, Cells(0), At({"mp", "wmp"}))
Sedimentation == Sets({"mp", "wmp"}, Cells(0), At({"mp", "wmp"}))
ICloud == Sets({"mp"}, Cells(0), At({"mp"}))
FieldsUpdate == Sets({"mp", "phys_dt"}, Cells(0), At({"mp", "phys_dt"}))

Microphysics ==
  << FieldsInit >>
  \o Loop(1, 2, [n \in 1..2 |-> << WarmRain, Sedimentation, WarmRain, ICloud >>])
  \o << FieldsUpdate >>

UpdatePhysicsStateWithTendencies == Sets({"phys_updated"}, Cells(0), At({"phys", "phys_dt"}))

Physics ==
  << AtmosPhysDriverStatein, GetPrsFv3, GetPhiFv3, PrepareMicrophysics >>
  \o Microphysics
  \o << UpdatePhysicsStateWithTendencies >>

-----------------------------------------------------------------------------
(* The wind tendencies, from the centers of the cells to the faces, and on *)
(* an edge of the tile interpolated along it, towards the middle of the    *)
(* edge: from the next row or the one before, here from both.              *)
UpdateDwindPrep ==
  << Sets({"ue"}, Cells(1), Y(Winds, 1, 0)), Sets({"ve"}, Cells(1), X(Winds, 1, 0)) >>

SetWindsZero == Sets(Winds, Cells(1), {})

UpdateDwindYEdge == Sets({"ve"}, XFaces(0), Y({"ve"}, 1, 1))
UpdateDwindXEdge == Sets({"ue"}, YFaces(0), X({"ue"}, 1, 1))

UpdateUwindVwind ==
  << Sets({"u"}, YFaces(0), At({"u", "ue"})), Sets({"v"}, XFaces(0), At({"v", "ve"})) >>

AGrid2DGridPhysics(c) ==
  UpdateDwindPrep \o << SetWindsZero >>
  \o When(c.edges \cap {"w", "e"} # {}, << UpdateDwindYEdge >>)
  \o When(c.edges \cap {"s", "n"} # {}, << UpdateDwindXEdge >>)
  \o UpdateUwindVwind

-----------------------------------------------------------------------------
MoistCv ==
  << Sets({"pt"}, Cells(0), At({"tracers", "pt", "t_dt"})), Sets({"t_dt"}, Cells(0), {}) >>

UpdatePressureAndSurfaceWinds ==
  Sets({"pe", "peln", "pk", "ps", "u_srf", "v_srf"}, Cells(0), At({"pe", "delp", "ua", "va"}))

(* latLon: the winds on the centers of the cells, as the dynamics ends. *)
ApplyPhysicsToDycore(c, latLon) ==
  MoistCv
  \o << Starts("u_dt"), Starts("v_dt"), UpdatePressureAndSurfaceWinds,
        Waits("u_dt"), Waits("v_dt") >>
  \o AGrid2DGridPhysics(c)
  \o latLon

FillGfsDelp(q) == Sets({q}, Cells(3), At({q, "delp"}))

PrepareTendenciesAndUpdateTracers ==
  Sets(Winds \cup {"t_dt", "delp", "tracers"}, Cells(0),
       At(Winds \cup {"t_dt", "delp", "tracers", "phys", "phys_updated", "prsi"}))

UpdateAtmosphereState(c, latLon) ==
  (IF c.physics = "full"
   THEN << FillGfsDelp("phys_updated"), PrepareTendenciesAndUpdateTracers >>
   ELSE << FillGfsDelp("tracers") >>)
  \o When(c.physics \in {"full", "adjust"}, ApplyPhysicsToDycore(c, latLon))

StepPhysics(c, latLon) ==
  When(c.physics # "none",
       DycoreToPhysics(c)
       \o When(c.physics = "full", Physics)
       \o UpdateAtmosphereState(c, latLon))
=============================================================================
