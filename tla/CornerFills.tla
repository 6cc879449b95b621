---------------------------- MODULE CornerFills ----------------------------
(***************************************************************************)
(* The stencils that fill the corner halos of a tile                       *)
(* (stencils/corners.py and its private copies in the dynamical core).     *)
(* Three tiles meet at a corner of the cube, so there are no points        *)
(* beyond it and no halo exchange fills it: before sweeping along its rows *)
(* ("row") or columns ("column") a rank copies into the corner the points  *)
(* that continue them on the tile across.                                  *)
(*                                                                         *)
(* A table gives for each corner the copies <<di, dj, oi, oj>>: the point  *)
(* at (di, dj) from the tile's corner point (i_start or i_end, j_start or  *)
(* j_end) is set from the point (oi, oj) further.  The stencils list them  *)
(* by hand as regions and offsets.                                         *)
(***************************************************************************)
EXTENDS Integers

Halo == 1..3     \* n_halo

CornersOfTile == {"SW", "SE", "NW", "NE"}

(* A copy written with the indices of both points. *)
Copy(to, from) == <<to[1], to[2], from[1] - to[1], from[2] - to[2]>>

-----------------------------------------------------------------------------
(* Stencils that copy cells within a field. *)

CopyCornersX == [
  SW |-> {<<-3,-3, 0,5>>, <<-2,-3, -1,4>>, <<-1,-3, -2,3>>, <<-3,-2, 1,4>>, <<-2,-2, 0,3>>,
         <<-1,-2, -1,2>>, <<-3,-1, 2,3>>, <<-2,-1, 1,2>>, <<-1,-1, 0,1>>},
  SE |-> {<<3,-3, 0,5>>, <<3,-2, -1,4>>, <<3,-1, -2,3>>, <<2,-3, 1,4>>, <<2,-2, 0,3>>,
         <<2,-1, -1,2>>, <<1,-3, 2,3>>, <<1,-2, 1,2>>, <<1,-1, 0,1>>},
  NW |-> {<<-3,1, 2,-3>>, <<-2,1, 1,-2>>, <<-1,1, 0,-1>>, <<-3,2, 1,-4>>, <<-2,2, 0,-3>>,
         <<-1,2, -1,-2>>, <<-3,3, 0,-5>>, <<-2,3, -1,-4>>, <<-1,3, -2,-3>>},
  NE |-> {<<1,3, 2,-3>>, <<1,2, 1,-2>>, <<1,1, 0,-1>>, <<2,3, 1,-4>>, <<2,2, 0,-3>>,
         <<2,1, -1,-2>>, <<3,3, 0,-5>>, <<3,2, -1,-4>>, <<3,1, -2,-3>>}]

CopyCornersY == [
  SW |-> {<<-3,-3, 5,0>>, <<-2,-3, 4,1>>, <<-1,-3, 3,2>>, <<-3,-2, 4,-1>>, <<-2,-2, 3,0>>,
         <<-1,-2, 2,1>>, <<-3,-1, 3,-2>>, <<-2,-1, 2,-1>>, <<-1,-1, 1,0>>},
  SE |-> {<<1,-3, -3,2>>, <<2,-3, -4,1>>, <<3,-3, -5,0>>, <<1,-2, -2,1>>, <<2,-2, -3,0>>,
         <<3,-2, -4,-1>>, <<1,-1, -1,0>>, <<2,-1, -2,-1>>, <<3,-1, -3,-2>>},
  NW |-> {<<-3,3, 5,0>>, <<-3,2, 4,1>>, <<-3,1, 3,2>>, <<-2,3, 4,-1>>, <<-2,2, 3,0>>,
         <<-2,1, 2,1>>, <<-1,3, 3,-2>>, <<-1,2, 2,-1>>, <<-1,1, 1,0>>},
  NE |-> {<<3,1, -3,2>>, <<3,2, -4,1>>, <<3,3, -5,0>>, <<2,1, -2,1>>, <<2,2, -3,0>>,
         <<2,3, -4,-1>>, <<1,1, -1,0>>, <<1,2, -2,-1>>, <<1,3, -3,-2>>}]

(* The x-differenceable field is filled in place, a copy of it for y. *)
CopyCornersXY == [x |-> CopyCornersX, y |-> CopyCornersY]

(* delnflux: levels whose order of damping is zero are left alone. *)
CopyCornersXNord(nord) ==
  [c \in CornersOfTile |-> IF nord > 0 THEN CopyCornersX[c] ELSE {}]

CopyCornersYNord(nord) ==
  [c \in CornersOfTile |-> IF nord > 0 THEN CopyCornersY[c] ELSE {}]

FillCorners2CellsMultX == [
  SW |-> {<<-1,-1, 0,1>>, <<-2,-1, 1,2>>},
  SE |-> {<<1,-1, 0,1>>, <<2,-1, -1,2>>},
  NW |-> {<<-1,1, 0,-1>>, <<-2,1, 1,-2>>},
  NE |-> {<<1,1, 0,-1>>, <<2,1, -1,-2>>}]

FillCorners3CellsMultX ==
  LET third == [SW |-> <<-3,-1, 2,3>>, SE |-> <<3,-1, -2,3>>,
                NW |-> <<-3,1, 2,-3>>, NE |-> <<3,1, -2,-3>>]
  IN  [c \in CornersOfTile |-> FillCorners2CellsMultX[c] \cup {third[c]}]

FillCorners2CellsMultY == [
  SW |-> {<<-1,-1, 1,0>>, <<-1,-2, 2,1>>},
  SE |-> {<<1,-1, -1,0>>, <<1,-2, -2,1>>},
  NW |-> {<<-1,1, 1,0>>, <<-1,2, 2,-1>>},
  NE |-> {<<1,1, -1,0>>, <<1,2, -2,-1>>}]

FillCorners3CellsMultY ==
  LET third == [SW |-> <<-1,-3, 3,2>>, SE |-> <<1,-3, -3,2>>,
                NW |-> <<-1,3, 3,-2>>, NE |-> <<1,3, -3,-2>>]
  IN  [c \in CornersOfTile |-> FillCorners2CellsMultY[c] \cup {third[c]}]

-----------------------------------------------------------------------------
(* Stencils that copy the nodes between the cells. *)

FillCornersBGridX == [
  SW |-> {<<-1,-1, 0,2>>, <<-1,-2, -1,3>>, <<-1,-3, -2,4>>, <<-2,-1, 1,3>>, <<-2,-2, 0,4>>,
         <<-2,-3, -1,5>>, <<-3,-1, 2,4>>, <<-3,-2, 1,5>>, <<-3,-3, 0,6>>},
  SE |-> {<<2,-1, 0,2>>, <<3,-1, -1,3>>, <<4,-1, -2,4>>, <<2,-2, 1,3>>, <<3,-2, 0,4>>,
         <<4,-2, -1,5>>, <<2,-3, 2,4>>, <<3,-3, 1,5>>, <<4,-3, 0,6>>},
  NW |-> {<<-1,2, 0,-2>>, <<-1,3, -1,-3>>, <<-1,4, -2,-4>>, <<-2,2, 1,-3>>, <<-2,3, 0,-4>>,
         <<-2,4, -1,-5>>, <<-3,2, 2,-4>>, <<-3,3, 1,-5>>, <<-3,4, 0,-6>>},
  NE |-> {<<2,2, 0,-2>>, <<3,2, -1,-3>>, <<4,2, -2,-4>>, <<2,3, 1,-3>>, <<3,3, 0,-4>>,
         <<4,3, -1,-5>>, <<2,4, 2,-4>>, <<3,4, 1,-5>>, <<4,4, 0,-6>>}]

FillCornersBGridY == [
  SW |-> {<<-1,-1, 2,0>>, <<-1,-2, 3,1>>, <<-1,-3, 4,2>>, <<-2,-1, 3,-1>>, <<-2,-2, 4,0>>,
         <<-2,-3, 5,1>>, <<-3,-1, 4,-2>>, <<-3,-2, 5,-1>>, <<-3,-3, 6,0>>},
  SE |-> {<<2,-1, -2,0>>, <<2,-2, -3,1>>, <<2,-3, -4,2>>, <<3,-1, -3,-1>>, <<3,-2, -4,0>>,
         <<3,-3, -5,1>>, <<4,-1, -4,-2>>, <<4,-2, -5,-1>>, <<4,-3, -6,0>>},
  NW |-> {<<-1,2, 2,0>>, <<-2,2, 3,1>>, <<-3,2, 4,2>>, <<-1,3, 3,-1>>, <<-2,3, 4,0>>,
         <<-3,3, 5,1>>, <<-1,4, 4,-2>>, <<-2,4, 5,-1>>, <<-3,4, 6,0>>},
  NE |-> {<<2,2, -2,0>>, <<3,2, -3,1>>, <<4,2, -4,2>>, <<2,3, -3,-1>>, <<3,3, -4,0>>,
         <<4,3, -5,1>>, <<2,4, -4,-2>>, <<3,4, -5,-1>>, <<4,4, -6,0>>}]

-----------------------------------------------------------------------------
(***************************************************************************)
(* Stencils that copy between the components of a vector.  On a D-grid x   *)
(* sits on the south and north sides of the cells and y on the west and    *)
(* east ones: the tables of x read y and those of y read x.                *)
(***************************************************************************)
FillCornersDGridX == [
  SW |-> {<<-1,-1, 0,1>>, <<-1,-2, -1,2>>, <<-1,-3, -2,3>>, <<-2,-1, 1,2>>, <<-2,-2, 0,3>>,
         <<-2,-3, -1,4>>, <<-3,-1, 2,3>>, <<-3,-2, 1,4>>, <<-3,-3, 0,5>>},
  SE |-> {<<1,-1, 1,1>>, <<1,-2, 2,2>>, <<1,-3, 3,3>>, <<2,-1, 0,2>>, <<2,-2, 1,3>>,
         <<2,-3, 2,4>>, <<3,-1, -1,3>>, <<3,-2, 0,4>>, <<3,-3, 1,5>>},
  NW |-> {<<-1,2, 0,-2>>, <<-1,3, -1,-3>>, <<-1,4, -2,-4>>, <<-2,2, 1,-3>>, <<-2,3, 0,-4>>,
         <<-2,4, -1,-5>>, <<-3,2, 2,-4>>, <<-3,3, 1,-5>>, <<-3,4, 0,-6>>},
  NE |-> {<<1,2, 1,-2>>, <<1,3, 2,-3>>, <<1,4, 3,-4>>, <<2,2, 0,-3>>, <<2,3, 1,-4>>,
         <<2,4, 2,-5>>, <<3,2, -1,-4>>, <<3,3, 0,-5>>, <<3,4, 1,-6>>}]

FillCornersDGridY == [
  SW |-> {<<-1,-1, 1,0>>, <<-1,-2, 2,1>>, <<-1,-3, 3,2>>, <<-2,-1, 2,-1>>, <<-2,-2, 3,0>>,
         <<-2,-3, 4,1>>, <<-3,-1, 3,-2>>, <<-3,-2, 4,-1>>, <<-3,-3, 5,0>>},
  SE |-> {<<2,-1, -2,0>>, <<2,-2, -3,1>>, <<2,-3, -4,2>>, <<3,-1, -3,-1>>, <<3,-2, -4,0>>,
         <<3,-3, -5,1>>, <<4,-1, -4,-2>>, <<4,-2, -5,-1>>, <<4,-3, -6,0>>},
  NW |-> {<<-1,1, 1,1>>, <<-1,2, 2,0>>, <<-1,3, 3,-1>>, <<-2,1, 2,2>>, <<-2,2, 3,1>>,
         <<-2,3, 4,0>>, <<-3,1, 3,3>>, <<-3,2, 4,2>>, <<-3,3, 5,1>>},
  NE |-> {<<2,1, -2,1>>, <<2,2, -3,0>>, <<2,3, -4,-1>>, <<3,1, -3,2>>, <<3,2, -4,1>>,
         <<3,3, -5,0>>, <<4,1, -4,3>>, <<4,2, -5,2>>, <<4,3, -6,1>>}]

(* The factor of a copied component, of fill_corners_dgrid_defn's mysign = -1 *)
(* and of the multipliers d2a2c_vect passes.                                  *)
MySign == [SW |-> -1, SE |-> 1, NW |-> 1, NE |-> -1]

-----------------------------------------------------------------------------
(* The array versions of the grid generation, for i, j in the halo. *)

FillCorners2dBGridX ==      \* its y direction is never asked for
  [SW |-> {Copy(<<-i, -j>>, <<-j, i>>)                 : i, j \in Halo},
   SE |-> {Copy(<<1 + i, -j>>, <<1 + j, i>>)           : i, j \in Halo},
   NW |-> {Copy(<<-i, 1 + j>>, <<-j, 1 - i>>)          : i, j \in Halo},
   NE |-> {Copy(<<1 + i, 1 + j>>, <<1 + j, 1 - i>>)    : i, j \in Halo}]

(* The source row counted from the cell beyond the corner. *)
FillCorners2dAGridXOffByOne ==
  [SW |-> {Copy(<<-i, -j>>, <<-j, i>>)     : i, j \in Halo},
   SE |-> {Copy(<<i, -j>>, <<j, i - 1>>)   : i, j \in Halo},
   NW |-> {Copy(<<-i, j>>, <<-j, 1 - i>>)  : i, j \in Halo},
   NE |-> {Copy(<<i, j>>, <<j, 1 - i>>)    : i, j \in Halo}]

FillCorners2dAGridX ==
  [SW |-> {Copy(<<-i, -j>>, <<-j, i - 1>>) : i, j \in Halo},
   SE |-> {Copy(<<i, -j>>, <<j, i - 1>>)   : i, j \in Halo},
   NW |-> {Copy(<<-i, j>>, <<-j, 1 - i>>)  : i, j \in Halo},
   NE |-> {Copy(<<i, j>>, <<j, 1 - i>>)    : i, j \in Halo}]

FillCorners2dAGridY ==
  [SW |-> {Copy(<<-j, -i>>, <<i - 1, -j>>) : i, j \in Halo},
   SE |-> {Copy(<<j, -i>>, <<1 - i, -j>>)  : i, j \in Halo},
   NW |-> {Copy(<<-j, i>>, <<i - 1, j>>)   : i, j \in Halo},
   NE |-> {Copy(<<j, i>>, <<1 - i, j>>)    : i, j \in Halo}]

(* fill_corners_agrid exchanges the components at the same places. *)
FillCornersAGrid == [x |-> FillCorners2dAGridX, y |-> FillCorners2dAGridY]

FillCornersDGrid ==
  [x |-> [SW |-> {Copy(<<-i, -j>>, <<-j, i - 1>>)        : i, j \in Halo},
          SE |-> {Copy(<<i, -j>>, <<1 + j, i - 1>>)      : i, j \in Halo},
          NW |-> {Copy(<<-i, 1 + j>>, <<-j, 1 - i>>)     : i, j \in Halo},
          NE |-> {Copy(<<i, 1 + j>>, <<1 + j, 1 - i>>)   : i, j \in Halo}],
   y |-> [SW |-> {Copy(<<-i, -j>>, <<j - 1, -i>>)        : i, j \in Halo},
          SE |-> {Copy(<<1 + i, -j>>, <<1 - j, -i>>)     : i, j \in Halo},
          NW |-> {Copy(<<-i, j>>, <<j - 1, 1 + i>>)      : i, j \in Halo},
          NE |-> {Copy(<<1 + i, j>>, <<1 - j, 1 + i>>)   : i, j \in Halo}]]

(* On a C-grid x sits where y does on a D-grid, and the signs are opposite. *)
FillCornersCGrid == [x |-> FillCornersDGrid.y, y |-> FillCornersDGrid.x]

CGridSign == [SW |-> 1, SE |-> -1, NW |-> -1, NE |-> 1]

-----------------------------------------------------------------------------
(***************************************************************************)
(* del2cubed.corner_fill: the three cells around the corner of the cube    *)
(* all become the mean of the same three: target and offsets of the cells  *)
(* that are averaged.                                                      *)
(***************************************************************************)
CornerFill ==
  [SW |-> {<<<<0,0>>,  {<<0,0>>, <<-1,0>>, <<0,-1>>}>>,
           <<<<-1,0>>, {<<1,0>>, <<0,0>>, <<1,-1>>}>>,
           <<<<0,-1>>, {<<0,1>>, <<-1,1>>, <<0,0>>}>>},
   SE |-> {<<<<0,0>>,  {<<0,0>>, <<1,0>>, <<0,-1>>}>>,
           <<<<1,0>>,  {<<-1,0>>, <<0,0>>, <<-1,-1>>}>>,
           <<<<0,-1>>, {<<0,1>>, <<1,1>>, <<0,0>>}>>},
   NW |-> {<<<<0,0>>,  {<<0,0>>, <<-1,0>>, <<0,1>>}>>,
           <<<<-1,0>>, {<<1,0>>, <<0,0>>, <<1,1>>}>>,
           <<<<0,1>>,  {<<0,-1>>, <<-1,-1>>, <<0,0>>}>>},
   NE |-> {<<<<0,0>>,  {<<0,0>>, <<1,0>>, <<0,1>>}>>,
           <<<<1,0>>,  {<<-1,0>>, <<0,0>>, <<-1,1>>}>>,
           <<<<0,1>>,  {<<0,-1>>, <<1,-1>>, <<0,0>>}>>}]

-----------------------------------------------------------------------------
(***************************************************************************)
(* The uses.  A point's place is the parity of its doubled distance from   *)
(* the tile's corner: 1 at the centre of a cell, 0 on its sides.  A fill   *)
(* writes places of one kind from places of another, a number of rows and  *)
(* columns deep; "sign" is that of a component of a vector.                *)
(***************************************************************************)
Cell   == <<1, 1>>
Node   == <<0, 0>>
XSides == <<1, 0>>     \* the south and north sides of the cells
YSides == <<0, 1>>     \* the west and east sides

Scalar == [c \in CornersOfTile |-> 1]

Fill(component, to, from, along, table, deep, sign) ==
  [component |-> component, to |-> to, from |-> from, along |-> along,
   table |-> table, deep |-> deep, sign |-> sign]

CopyFills ==
  {Fill("none", Cell, Cell, "row", t, <<3, 3>>, Scalar) :
     t \in {CopyCornersX, CopyCornersXY.x, CopyCornersXNord(1), FillCorners2dAGridX}} \cup
  {Fill("none", Cell, Cell, "column", t, <<3, 3>>, Scalar) :
     t \in {CopyCornersY, CopyCornersXY.y, CopyCornersYNord(1), FillCorners2dAGridY}} \cup
  {Fill("none", Node, Node, "row", t, <<3, 3>>, Scalar) :
     t \in {FillCornersBGridX, FillCorners2dBGridX}} \cup
  {Fill("none", Node, Node, "column", FillCornersBGridY, <<3, 3>>, Scalar)}

(* c_sw's delp, pt, w and updatedzc's gz, and d2a2c_vect's ua and va. *)
FillCornersDelpPtW ==
  {Fill("none", Cell, Cell, "row", FillCorners2CellsMultX, <<2, 1>>, Scalar),
   Fill("none", Cell, Cell, "column", FillCorners2CellsMultY, <<1, 2>>, Scalar)}

FillCornersUtmpUa ==
  {Fill("x", Cell, Cell, "row", FillCorners3CellsMultX, <<3, 1>>, MySign),
   Fill("x", Cell, Cell, "row", FillCorners2CellsMultX, <<2, 1>>, MySign)}

FillCornersVtmpVa ==
  {Fill("y", Cell, Cell, "column", FillCorners3CellsMultY, <<1, 3>>, MySign),
   Fill("y", Cell, Cell, "column", FillCorners2CellsMultY, <<1, 2>>, MySign)}

VectorFills ==
  {Fill("x", Cell, Cell, "row", FillCornersAGrid.x, <<3, 3>>, MySign),
   Fill("y", Cell, Cell, "column", FillCornersAGrid.y, <<3, 3>>, MySign),
   Fill("x", YSides, XSides, "column", FillCornersCGrid.x, <<3, 3>>, CGridSign),
   Fill("y", XSides, YSides, "row", FillCornersCGrid.y, <<3, 3>>, CGridSign)} \cup
  {Fill("x", XSides, YSides, "row", t, <<3, 3>>, MySign) :
     t \in {FillCornersDGridX, FillCornersDGrid.x}} \cup
  {Fill("y", YSides, XSides, "column", t, <<3, 3>>, MySign) :
     t \in {FillCornersDGridY, FillCornersDGrid.y}}

Fills == CopyFills \cup FillCornersDelpPtW \cup FillCornersUtmpUa
           \cup FillCornersVtmpVa \cup VectorFills
=============================================================================
