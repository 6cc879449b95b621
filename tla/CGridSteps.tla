------------------------------ MODULE CGridSteps ------------------------------
(***************************************************************************)
(* The half time step on the C-grid: c_sw with the winds it interpolates   *)
(* (d2a2c_vect), updatedzc, riem_solver_c and p_grad_c.  A record whose    *)
(* name ends in Domain holds the domains a class compiles its stencils on. *)
(* c.edges holds the sides of the rank that lie on an edge of the tile.    *)
(***************************************************************************)
EXTENDS StencilProgram

-----------------------------------------------------------------------------
(* d2a2c_vect.  The interpolation of a wind to the centers of the cells    *)
(* takes four points, and two next to an edge of the tile, where it covers *)
(* the whole halo along the edge.                                          *)
VectorsDomain(c) ==
  [ utmp |-> Rows(3, 3, AtEdge(c, "s", 3, 1), AtEdge(c, "n", 3, 1)),
    vtmp |-> Rows(AtEdge(c, "w", 3, 1), AtEdge(c, "e", 3, 1), 3, 3),
    contravariant |-> Cells(2),
    ut_main |-> Rows(1, 2, 1, 1),
    vt_main |-> Rows(1, 1, 1, 2) ]

LagrangeY(c) ==
  Sets({"utmp"}, VectorsDomain(c).utmp, Y({"u"}, AtEdge(c, "s", 0, 1), AtEdge(c, "n", 1, 2)))

LagrangeX(c) ==
  Sets({"vtmp"}, VectorsDomain(c).vtmp, X({"v"}, AtEdge(c, "w", 0, 1), AtEdge(c, "e", 1, 2)))

(* The four cells on the two sides of an edge give the wind on the edge. *)
EastWestEdges(c) ==
  SetsGiven({"uc", "ut"}, VectorsDomain(c).ut_main, X({"utmp"}, 2, 1) \cup At({"v"}),
            IF c.edges \cap {"w", "e"} = {} THEN {}
            ELSE {<<"ua", Rows(AtEdge(c, "w", 2, Anywhere), AtEdge(c, "e", 2, Anywhere), 1, 1)>>})

NorthSouthEdges(c) ==
  SetsGiven({"vc", "vt"}, VectorsDomain(c).vt_main, Y({"vtmp"}, 2, 1) \cup At({"u"}),
            IF c.edges \cap {"s", "n"} = {} THEN {}
            ELSE {<<"va", Rows(1, 1, AtEdge(c, "s", 2, Anywhere), AtEdge(c, "n", 2, Anywhere))>>})

D2A2CVect(c) ==
  << Sets({"utmp", "vtmp"}, Nowhere, {}),
     LagrangeY(c),
     LagrangeX(c),
     Sets({"ua", "va"}, VectorsDomain(c).contravariant, At({"utmp", "vtmp"})),
     EastWestEdges(c),
     NorthSouthEdges(c) >>

-----------------------------------------------------------------------------
(* c_sw *)
CSwDomain ==
  [ zero |-> Cells(3), divergence_corner |-> Corners(0),
    geoadjust_ut |-> XFaces(1), geoadjust_vt |-> YFaces(1),
    fluxes_x |-> XFaces(1), transport |-> Cells(1), circulation |-> Corners(0),
    update_x_velocity |-> XFaces(0), update_y_velocity |-> YFaces(0) ]

DivergenceCorner ==
  Sets({"divgd"}, CSwDomain.divergence_corner,
       X({"u"}, 1, 0) \cup Y({"v"}, 1, 0) \cup Around({"ua", "va"}, 1, 0, 1, 0))

GeoadjustUt == Sets({"ut"}, CSwDomain.geoadjust_ut, At({"ut"}))
GeoadjustVt == Sets({"vt"}, CSwDomain.geoadjust_vt, At({"vt"}))

FluxesX ==
  Sets({"c_fx", "c_fx1", "c_fx2"}, CSwDomain.fluxes_x,
       X({"delp", "pt", "w"}, 1, 0) \cup At({"ut"}))

TransportDelp ==
  Sets({"delpc", "ptc", "omga"}, CSwDomain.transport,
       Y({"delp", "pt", "w"}, 1, 1) \cup X({"c_fx", "c_fx1", "c_fx2"}, 0, 1) \cup Y({"vt"}, 0, 1))

KineticEnergy ==
  Sets({"c_ke", "c_vort"}, CSwDomain.transport,
       At({"ua", "va"}) \cup X({"uc", "v"}, 0, 1) \cup Y({"vc", "u"}, 0, 1))

Circulation ==
  Sets({"c_vort"}, CSwDomain.circulation, Y({"uc"}, 1, 0) \cup X({"vc"}, 1, 0))

AbsoluteVorticity == Sets({"c_vort"}, CSwDomain.circulation, At({"c_vort"}))

UpdateYVelocity ==
  Sets({"vc"}, CSwDomain.update_y_velocity,
       X({"c_vort"}, 0, 1) \cup Y({"c_ke"}, 1, 0) \cup At({"u", "vc"}))

UpdateXVelocity ==
  Sets({"uc"}, CSwDomain.update_x_velocity,
       Y({"c_vort"}, 0, 1) \cup X({"c_ke"}, 1, 0) \cup At({"v", "uc"}))

CSw(c) ==
  << Sets({"delpc", "ptc"}, CSwDomain.zero, {}) >>
  \o D2A2CVect(c)
  \o When(c.nord > 0, <<DivergenceCorner>>)
  \o << GeoadjustUt, GeoadjustVt, FluxesX, TransportDelp, KineticEnergy,
        Circulation, AbsoluteVorticity, UpdateYVelocity, UpdateXVelocity >>

-----------------------------------------------------------------------------
(* The height of the layer interfaces, advected by the C-grid winds. *)
UpdateDzC ==
  << Sets({"gz_x", "gz_y"}, Cells(3), At({"gz"})),
     Sets({"gz", "ws3"}, Cells(1),
          At({"gz"}) \cup X({"ut"}, 0, 1) \cup Y({"vt"}, 0, 1)
          \cup X({"gz_x"}, 1, 1) \cup Y({"gz_y"}, 1, 1)) >>

(* The semi-implicit solver of each column, in a ring of one cell too. *)
RiemSolverC ==
  << Sets({"rc_w", "rc_dm", "rc_pem", "rc_dz", "rc_gm", "rc_pm"}, Cells(1),
          At({"omga", "delpc", "gz", "cappa", "q_con"})),
     Sets({"rc_pe", "rc_w", "rc_dz"}, Cells(1),
          At({"rc_gm", "cappa", "rc_dm", "rc_pm", "rc_pem", "rc_w", "rc_dz", "ptc", "ws3"})),
     Sets({"pkc", "gz"}, Cells(1), At({"rc_pe", "rc_pem", "rc_dz"})) >>

(* Compiled on one row and one column more than the cells. *)
PGradC ==
  << Sets({"uc"}, Corners(0), X({"delpc", "gz", "pkc"}, 1, 0) \cup At({"uc"})),
     Sets({"vc"}, Corners(0), Y({"delpc", "gz", "pkc"}, 1, 0) \cup At({"vc"})) >>
=============================================================================
