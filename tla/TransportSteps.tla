---------------------------- MODULE TransportSteps ----------------------------
(***************************************************************************)
(* The building blocks of a step on the D-grid: the transport of a field   *)
(* (fvtp2d), the diffusive fluxes that damp it (delnflux), the             *)
(* interpolation to the corners of the cells (a2b_ord4) and the            *)
(* hyperdiffusion (del2cubed).  Their intermediate fields are set anew at  *)
(* every call, so that all the instances of a class share them here.       *)
(***************************************************************************)
EXTENDS StencilProgram

-----------------------------------------------------------------------------
(***************************************************************************)
(* fvtp2d.  The field is advected in y, its result in x, and the other way *)
(* around.  A one-dimensional flux reads three cells before the face and   *)
(* two after it.                                                           *)
(***************************************************************************)
FluxDomain ==
  [ y_inner |-> Rows(3, 4, 0, 1), q_i |-> Rows(3, 3, 0, 3),
    x_inner |-> Rows(0, 1, 3, 4), q_j |-> Rows(0, 3, 3, 3),
    outer |-> Corners(0), fx |-> XFaces(0), fy |-> YFaces(0) ]

XPiecewiseParabolic(q, courant, mean, on) == Sets({mean}, on, X({q}, 3, 2) \cup At({courant}))
YPiecewiseParabolic(q, courant, mean, on) == Sets({mean}, on, Y({q}, 3, 2) \cup At({courant}))

QI(q, yaf) ==
  Sets({"q_advected_y"}, FluxDomain.q_i, At({q}) \cup Y({yaf, "q_y_advected_mean"}, 0, 1))
QJ(q, xaf) ==
  Sets({"q_advected_x"}, FluxDomain.q_j, At({q}) \cup X({xaf, "q_x_advected_mean"}, 0, 1))

(* by: the Courant numbers, the fluxes of area and those that give the units *)
FinalFluxes(by, fx, fy) ==
  << Sets({fx}, FluxDomain.fx, At({"q_yx_advected_mean", "q_x_advected_mean", by.x_unit})),
     Sets({fy}, FluxDomain.fy, At({"q_xy_advected_mean", "q_y_advected_mean", by.y_unit})) >>

FiniteVolumeTransport(q, by, fx, fy) ==
  << YPiecewiseParabolic(q, by.cry, "q_y_advected_mean", FluxDomain.y_inner),
     QI(q, by.yaf),
     XPiecewiseParabolic("q_advected_y", by.crx, "q_yx_advected_mean", FluxDomain.outer),
     XPiecewiseParabolic(q, by.crx, "q_x_advected_mean", FluxDomain.x_inner),
     QJ(q, by.xaf),
     YPiecewiseParabolic("q_advected_x", by.cry, "q_xy_advected_mean", FluxDomain.outer) >>
  \o FinalFluxes(by, fx, fy)

-----------------------------------------------------------------------------
(***************************************************************************)
(* delnflux.  nord is the order of damping of the level, nmax the highest  *)
(* of the column: del-2 fluxes, then nmax rounds, each on one ring less,   *)
(* that leave a level of order 0 as it is.                                 *)
(***************************************************************************)
D2Domain(nord, nmax) == IF nord = 0 THEN Cells(1) ELSE Cells(nmax + 1)
FluxCalcDomain(nord, nmax) == IF nord = 0 THEN 0 ELSE nmax

FxCalc(fx2, h) == Sets({fx2}, XFaces(h), X({"d2"}, 1, 0))
FyCalc(fy2, h) == Sets({fy2}, YFaces(h), Y({"d2"}, 1, 0))

D2HighOrderNarrow(fx2, fy2, nt) ==
  Sets({"d2"}, Cells(nt), X({fx2}, 0, 1) \cup Y({fy2}, 0, 1))
D2HighOrder(fx2, fy2, nt) ==
  Sets({"d2"}, Cells(nt + 1), X({fx2}, 0, 1) \cup Y({fy2}, 0, 1))

DelnFluxNoSG(q, fx2, fy2, nord, nmax) ==
  << Sets({"d2"}, D2Domain(nord, nmax), At({q})),
     FxCalc(fx2, FluxCalcDomain(nord, nmax)),
     FyCalc(fy2, FluxCalcDomain(nord, nmax)) >>
  \o When(nord > 0,
       CountDown(nmax - 1,
         [nt \in 0..nmax - 1 |-> << D2HighOrder(fx2, fy2, nt), FxCalc(fx2, nt), FyCalc(fy2, nt) >>]))

AddDiffusive(fx, fy) ==
  << Sets({fx}, XFaces(0), At({fx, "deln_fx2"})), Sets({fy}, YFaces(0), At({fy, "deln_fy2"})) >>

DiffusiveDamp(fx, fy, mass) ==
  << Sets({fx}, XFaces(0), At({fx, "deln_fx2"}) \cup X({mass}, 1, 0)),
     Sets({fy}, YFaces(0), At({fy, "deln_fy2"}) \cup Y({mass}, 1, 0)) >>

NoMass == "no mass"

DelnFlux(q, fx, fy, mass, nord, nmax) ==
  DelnFluxNoSG(q, "deln_fx2", "deln_fy2", nord, nmax)
  \o IF mass = NoMass THEN AddDiffusive(fx, fy) ELSE DiffusiveDamp(fx, fy, mass)

-----------------------------------------------------------------------------
(***************************************************************************)
(* a2b_ord4, from the centers to the corners of the cells.  The corners on *)
(* an edge of the tile are interpolated from the four cells around, and    *)
(* the volume means next to an edge and on it read towards the inside.     *)
(***************************************************************************)
A2BDomain == [qx |-> Rows(0, 1, 2, 2), qy |-> Rows(2, 2, 0, 1), out |-> Corners(0)]

QoutEdges(qin) == Sets({"qout_edges"}, A2BDomain.out, Around({qin}, 1, 0, 1, 0))
VolumeMeanX(qin) == Sets({"a2b_qx"}, A2BDomain.qx, X({qin}, 2, 1))
VolumeMeanY(qin) == Sets({"a2b_qy"}, A2BDomain.qy, Y({qin}, 2, 1))

A2BInterpolation(c, qout) ==
  LET inY == Y({"a2b_qx"}, AtEdge(c, "s", 0, 2), AtEdge(c, "n", 0, 1))
      inX == X({"a2b_qy"}, AtEdge(c, "w", 0, 2), AtEdge(c, "e", 0, 1))
  IN  Sets({qout}, A2BDomain.out,
           inY \cup inX \cup (IF c.edges = {} THEN {} ELSE At({"qout_edges"})))

A2BOrd4(c, qin, qout, replace) ==
  When(c.edges # {}, <<QoutEdges(qin)>>)
  \o << VolumeMeanX(qin), VolumeMeanY(qin), A2BInterpolation(c, qout) >>
  \o When(replace, <<Sets({qin}, A2BDomain.out, At({qout}))>>)

-----------------------------------------------------------------------------
(* del2cubed: as many rounds as asked for and three at most, each on one   *)
(* ring less than the one before.                                          *)
HyperdiffusionRound(q, nt) ==
  << Sets({"hd_q"}, Cells(3), At({q})),
     Sets({"hd_fx"}, XFaces(nt), X({"hd_q"}, 1, 0)),
     Sets({"hd_fy"}, YFaces(nt), Y({"hd_q"}, 1, 0)),
     Sets({q}, Cells(3), At({"hd_q"})),
     Sets({q}, Cells(nt), At({q}) \cup X({"hd_fx"}, 0, 1) \cup Y({"hd_fy"}, 0, 1)) >>

HyperdiffusionDamping(q, nmax) ==
  LET ntimes == IF nmax < 3 THEN nmax ELSE 3
  IN  CountDown(ntimes - 1, [nt \in 0..ntimes - 1 |-> HyperdiffusionRound(q, nt)])
=============================================================================
