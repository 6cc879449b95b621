------------------------------ MODULE DGridSteps ------------------------------
(***************************************************************************)
(* The time step on the D-grid: d_sw, whose parts are the preparation of   *)
(* the fluxes (fxadv), the transport of mass, heat, condensate, vertical   *)
(* wind and vorticity, and the divergence damping; then updatedzd, the     *)
(* solver of the columns, the pressures around the domain, and the         *)
(* pressure gradient.                                                      *)
(* c.nord is the order of divergence damping of the namelist, c.level the  *)
(* level of the column: the top two, the third and the rest.  The order is *)
(* above zero: where it is zero on every level the code takes its          *)
(* high-order path with a da_min_c it never set, and ends there.           *)
(***************************************************************************)
EXTENDS TransportSteps

-----------------------------------------------------------------------------
(* The orders of damping of a level: the levels at the top, the sponge,    *)
(* are damped with order 0.                                                *)
Nmax(c) == IF c.nord < 2 THEN c.nord ELSE 2
NordOf(c) ==
  [ divergence |-> IF c.level = "rest" THEN c.nord ELSE 0,
    w          |-> IF c.level = "rest" THEN Nmax(c) ELSE 0,
    v          |-> IF c.level = "top" THEN 0 ELSE Nmax(c),
    t          |-> Nmax(c) ]

-----------------------------------------------------------------------------
(***************************************************************************)
(* fxadv: the contravariant winds, that on an edge of the tile are made    *)
(* from the wind across it, and next to it from one another.  The main     *)
(* stencil leaves the rows next to a southern or northern edge as they     *)
(* were, for the last of the edge stencils.                                *)
(***************************************************************************)
MainUC(c) == Rows(1, 2, AtEdge(c, "s", -1, 3), AtEdge(c, "n", -1, 3))
MainVC == Rows(3, 3, 1, 2)

MainUcVcContra(c) ==
  << Sets({"uc_contra"}, MainUC(c), At({"uc"}) \cup Around({"vc"}, 1, 0, 0, 1)),
     Sets({"vc_contra"}, MainVC, At({"vc"}) \cup Around({"uc"}, 0, 1, 1, 0)) >>

UcContraYEdge(c) == Sets({"uc_contra"}, MainUC(c), At({"uc", "uc_contra"}))

VcContraYEdge(c) ==
  SetsGiven({"vc_contra"}, MainVC, At({"vc", "vc_contra"}),
            {<<"uc_contra", Rows(AtEdge(c, "w", 1, Anywhere), AtEdge(c, "e", 2, Anywhere),
                                 AtEdge(c, "s", -1, 1), AtEdge(c, "n", -1, 1))>>})

VcContraXEdge == Sets({"vc_contra"}, MainVC, At({"vc", "vc_contra"}))

(* The rows the main stencil set further out are there again. *)
UcContraXEdge(c) ==
  SetsGiven({"uc_contra"}, Rows(0, 1, 3, 3), At({"uc"}) \cup Around({"vc"}, 1, 0, 0, 1),
            {<<"uc_contra", MainUC(c)>>,
             <<"vc_contra", Rows(1, 1, AtEdge(c, "s", 1, Anywhere), AtEdge(c, "n", 2, Anywhere))>>})

FxAdvFluxes ==
  << Sets({"crx", "xfx"}, Rows(0, 1, 3, 3), At({"uc_contra"})),
     Sets({"cry", "yfx"}, Rows(3, 3, 0, 1), At({"vc_contra"})) >>

FluxPrep(c) ==
  MainUcVcContra(c)
  \o When(c.edges \cap {"w", "e"} # {}, <<UcContraYEdge(c), VcContraYEdge(c)>>)
  \o When(c.edges \cap {"s", "n"} # {}, <<VcContraXEdge, UcContraXEdge(c)>>)
  \o FxAdvFluxes

-----------------------------------------------------------------------------
(***************************************************************************)
(* divergence_damping.  A level of order 0 takes the divergence of the     *)
(* winds; the others filter, nord times and on one ring less each time,    *)
(* the divergence that the halo update brought.                            *)
(***************************************************************************)
ZeroOrderDamping ==
  << Sets({"u_contra_dyc"}, Rows(1, 1, 0, 1), At({"u", "vc"}) \cup Y({"va"}, 1, 0)),
     Sets({"v_contra_dxc"}, Rows(0, 1, 1, 1), At({"v", "uc"}) \cup X({"ua"}, 1, 0)),
     Sets({"vt"}, Corners(0), X({"u_contra_dyc"}, 1, 0) \cup Y({"v_contra_dxc"}, 1, 0)),
     Sets({"vort_b", "ke"}, Corners(0), At({"vt", "ke"})) >>

VcFromDivg(nt) == Sets({"vc"}, Rows(nt + 1, nt + 1, nt, nt + 1), X({"divgd"}, 0, 1))
UcFromDivg(nt) == Sets({"uc"}, Rows(nt, nt + 1, nt + 1, nt + 1), Y({"divgd"}, 0, 1))
RedoDivgD(nt)  == Sets({"divgd"}, Corners(nt), Y({"uc"}, 1, 0) \cup X({"vc"}, 1, 0))

SmagorinskyDiffusion(c) ==
  IF c.dddmp
  THEN A2BOrd4(c, "vorticity", "vort_b", FALSE)
       \o << Sets({"vort_b"}, Corners(0), At({"vt", "vort_b"})) >>
  ELSE << Sets({"vort_b"}, Corners(3), {}) >>

HighOrderDamping(c) ==
  << Sets({"vt"}, Corners(0), At({"divgd"})) >>
  \o CountDown(c.nord - 1,
       [nt \in 0..c.nord - 1 |-> << VcFromDivg(nt), UcFromDivg(nt), RedoDivgD(nt) >>])
  \o SmagorinskyDiffusion(c)
  \o << Sets({"vort_b", "ke"}, Corners(0), At({"vort_b", "ke", "vt", "divgd"})) >>

DivergenceDamping(c) ==
  IF NordOf(c).divergence = 0 THEN ZeroOrderDamping ELSE HighOrderDamping(c)

-----------------------------------------------------------------------------
(* d_sw *)
AreaFluxes ==
  [crx |-> "crx", cry |-> "cry", xaf |-> "xfx", yaf |-> "yfx", x_unit |-> "xfx", y_unit |-> "yfx"]
MassFluxes == [AreaFluxes EXCEPT !.x_unit = "tmp_fx", !.y_unit = "tmp_fy"]

(* flux_capacitor, a field at a time *)
Accumulates(total, flux) == Sets({total}, Cells(3), At({total, flux}))

HeatDiss ==
  Sets({"heat_s", "diss_est", "dw"}, Cells(0),
       At({"w", "diss_est"}) \cup X({"tmp_fx2"}, 0, 1) \cup Y({"tmp_fy2"}, 0, 1))

ApplyFluxes(q) ==
  Sets({q}, Cells(0), At({q, "delp"}) \cup X({"tmp_gx"}, 0, 1) \cup Y({"tmp_gy"}, 0, 1))

ApplyPtDelpFluxes ==
  Sets({"pt", "delp"}, Cells(0),
       At({"pt", "delp"}) \cup X({"tmp_gx", "tmp_fx"}, 0, 1) \cup Y({"tmp_gy", "tmp_fy"}, 0, 1))

AdjustWAndQcon == Sets({"w", "q_con"}, Cells(0), At({"w", "q_con", "delp", "dw"}))

ComputeKineticEnergy(c) ==
  Sets({"ke"}, Corners(0),
       X({"u"}, 3, 2) \cup Y({"v"}, 3, 2) \cup Y({"uc"}, 1, 0) \cup X({"vc"}, 1, 0)
       \cup (IF c.edges \cap {"w", "e"} = {} THEN {}
             ELSE Y({"uc_contra"}, 1, 0)
                  \cup X({"vc_contra"}, AtEdge(c, "w", 2, Anywhere), AtEdge(c, "e", 1, Anywhere)))
       \cup (IF c.edges \cap {"s", "n"} = {} THEN {}
             ELSE X({"vc_contra"}, 1, 0)
                  \cup Y({"uc_contra"}, AtEdge(c, "s", 2, Anywhere), AtEdge(c, "n", 1, Anywhere))))

ComputeVorticity == Sets({"vorticity"}, Cells(3), Y({"u"}, 0, 1) \cup X({"v"}, 0, 1))
RelVorticityToAbs == Sets({"abs_vorticity"}, Cells(3), At({"vorticity"}))

UAndVFromKe ==
  << Sets({"u"}, YFaces(0), X({"ke"}, 0, 1) \cup At({"u", "tmp_fy"})),
     Sets({"v"}, XFaces(0), Y({"ke"}, 0, 1) \cup At({"v", "tmp_fx"})) >>

VortDifferencing ==
  << Sets({"vort_x_delta"}, YFaces(0), X({"vort_b"}, 0, 1)),
     Sets({"vort_y_delta"}, XFaces(0), Y({"vort_b"}, 0, 1)) >>

HeatSourceFromVorticityDamping ==
  Sets({"heat_source", "diss_est"}, Cells(0),
       Y({"u", "tmp_vt", "vort_x_delta"}, 0, 1) \cup X({"v", "tmp_ut", "vort_y_delta"}, 0, 1)
       \cup At({"delp", "heat_s", "heat_source", "diss_est"}))

UpdateUAndV ==
  << Sets({"u"}, YFaces(0), At({"u", "tmp_vt"})), Sets({"v"}, XFaces(0), At({"v", "tmp_ut"})) >>

DSw(c) ==
  LET nord == NordOf(c)
  IN  FluxPrep(c)
      \o FiniteVolumeTransport("delp", AreaFluxes, "tmp_fx", "tmp_fy")
      \o DelnFlux("delp", "tmp_fx", "tmp_fy", NoMass, nord.v, Nmax(c))
      \o << Accumulates("cx", "crx"), Accumulates("cy", "cry"),
            Accumulates("mfx", "tmp_fx"), Accumulates("mfy", "tmp_fy") >>
      \o DelnFluxNoSG("w", "tmp_fx2", "tmp_fy2", nord.w, Nmax(c))
      \o << HeatDiss >>
      \o FiniteVolumeTransport("w", MassFluxes, "tmp_gx", "tmp_gy")
      \o << ApplyFluxes("w") >>
      \o FiniteVolumeTransport("q_con", MassFluxes, "tmp_gx", "tmp_gy")
      \o DelnFlux("q_con", "tmp_gx", "tmp_gy", "delp", nord.t, Nmax(c))
      \o << ApplyFluxes("q_con") >>
      \o FiniteVolumeTransport("pt", MassFluxes, "tmp_gx", "tmp_gy")
      \o DelnFlux("pt", "tmp_gx", "tmp_gy", "delp", nord.v, Nmax(c))
      \o << ApplyPtDelpFluxes, AdjustWAndQcon, ComputeKineticEnergy(c), ComputeVorticity >>
      \o DivergenceDamping(c)
      \o << RelVorticityToAbs >>
      \o FiniteVolumeTransport("abs_vorticity", AreaFluxes, "tmp_fx", "tmp_fy")
      \o UAndVFromKe
      \o DelnFluxNoSG("vorticity", "tmp_ut", "tmp_vt", nord.v, Nmax(c))
      \o VortDifferencing
      \o << HeatSourceFromVorticityDamping >>
      \o UpdateUAndV

-----------------------------------------------------------------------------
(* The height of the layer interfaces, advected by the D-grid fluxes. *)
InterfaceFluxes ==
  [crx |-> "crx_i", cry |-> "cry_i", xaf |-> "xfx_i", yaf |-> "yfx_i",
   x_unit |-> "xfx_i", y_unit |-> "yfx_i"]

ToLayerInterface(flux, atInterface) == Sets({atInterface}, Cells(3), At({flux}))

ApplyHeightFluxes ==
  Sets({"zh", "wsd"}, Cells(0),
       At({"zh"}) \cup X({"tz_fx", "tz_fx2", "xfx_i"}, 0, 1) \cup Y({"tz_fy", "tz_fy2", "yfx_i"}, 0, 1))

UpdateDzD(c) ==
  << ToLayerInterface("crx", "crx_i"), ToLayerInterface("xfx", "xfx_i"),
     ToLayerInterface("cry", "cry_i"), ToLayerInterface("yfx", "yfx_i") >>
  \o FiniteVolumeTransport("zh", InterfaceFluxes, "tz_fx", "tz_fy")
  \o DelnFluxNoSG("zh", "tz_fx2", "tz_fy2", NordOf(c).v, Nmax(c))
  \o << ApplyHeightFluxes >>

(* The implicit solver of the columns, which works in pe and puts the      *)
(* pressure it found there back, or the new one in the last of the steps   *)
(* before the remapping.                                                   *)
RiemPrecompute ==
  << Sets({"rd_pe_init"}, Cells(0), At({"pe"})),
     Sets({"rd_dm", "rd_pem", "rd_pm", "rd_gm", "rd_peln", "pk3", "delz"}, Cells(0),
          At({"delp", "cappa", "zh", "q_con"})) >>

Sim1Solve ==
  Sets({"pe", "w", "delz"}, Cells(0),
       At({"rd_gm", "cappa", "rd_dm", "rd_pm", "rd_pem", "w", "delz", "pt", "wsd"}))

RiemFinalize(last) ==
  << Sets({"pkc"}, Cells(0), At({"pe", "rd_pem"})), Sets({"zh"}, Cells(0), At({"delz"})) >>
  \o IF last
     THEN << Sets({"pe", "peln", "pk"}, Cells(0), At({"rd_pem", "rd_peln", "pk3"})) >>
     ELSE << Sets({"pe"}, Cells(0), At({"rd_pe_init"})) >>

RiemSolver3(last) == RiemPrecompute \o << Sim1Solve >> \o RiemFinalize(last)

-----------------------------------------------------------------------------
(* The pressures in the ring of one cell and of two around the domain,     *)
(* where the solver did not set them.                                      *)
EdgePe == SetsGiven({"pe"}, Cells(1), At({"delp"}), {<<"pe", Cells(0)>>})
Pk3Halo == SetsGiven({"pk3"}, Cells(2), At({"delp"}), {<<"pk3", Cells(0)>>})

(* nh_p_grad: the pressures and the height go to the corners of the cells  *)
(* and their differences along the faces accelerate the winds.             *)
CalcWk == Sets({"pkc", "pk3", "wk"}, Corners(0), At({"pkc", "pk3"}))
CalcU == Sets({"u"}, YFaces(0), At({"u"}) \cup X({"wk", "wk1", "gz", "pk3", "pkc"}, 0, 1))
CalcV == Sets({"v"}, XFaces(0), At({"v"}) \cup Y({"wk", "wk1", "gz", "pk3", "pkc"}, 0, 1))

PressureGradient(c) ==
  A2BOrd4(c, "pkc", "wk1", TRUE) \o A2BOrd4(c, "pk3", "wk1", TRUE)
  \o A2BOrd4(c, "gz", "wk1", TRUE) \o A2BOrd4(c, "delp", "wk1", FALSE)
  \o << CalcWk, CalcU, CalcV >>

RayleighDamping ==
  << Sets({"u"}, YFaces(0), At({"u"})), Sets({"v"}, XFaces(0), At({"v"})),
     Sets({"w"}, Cells(0), At({"w"})) >>
=============================================================================
