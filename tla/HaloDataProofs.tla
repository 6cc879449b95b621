---------------------------- MODULE HaloDataProofs ----------------------------
(***************************************************************************)
(* What the halos of a rank hold, on square layouts of every size: at the  *)
(* cube's corners what the stencils fill in by hand, elsewhere what the    *)
(* exchanges bring.  Where the boundaries lead is in PartitionerProofs.    *)
(***************************************************************************)
EXTENDS PartitionerProofs

-----------------------------------------------------------------------------
(* The corners of the cube: what every hand-written fill copies there, and *)
(* that these are the points a walker finds behind the corner.             *)

(* How far along an axis the k-th place out of the tile is from the corner, *)
(* where the axis leads out of the tile there (up) or into it.              *)
Out(k, parity, up) == IF up THEN k - parity ELSE -k

IsEast(c)  == WestEast(c) = "E"
IsNorth(c) == SouthNorth(c) = "N"

EndX(c) == IF IsEast(c) THEN 1 ELSE 0
EndY(c) == IF IsNorth(c) THEN 1 ELSE 0

(* The copy into the place i columns and j rows out, when the tile behind   *)
(* the corner is turned once or three times.                                *)
CopyInto(c, to, turns, i, j) ==
  LET di == Out(i, to[1], IsEast(c)) + EndX(c)
      dj == Out(j, to[2], IsNorth(c)) + EndY(c)
      si == Out(j, to[2], IsNorth(c) = (turns = 1)) + EndX(c)
      sj == Out(i, to[1], IsEast(c) = (turns = 3)) + EndY(c)
  IN  <<di, dj, si - di, sj - dj>>

(* A table with one copy into each place of the corner. *)
Filled(S, c, to, deep, turns) ==
  /\ \A i \in 1..deep[1], j \in 1..deep[2] : CopyInto(c, to, turns, i, j) \in S
  /\ \A e \in S : \E i \in 1..deep[1], j \in 1..deep[2] : e = CopyInto(c, to, turns, i, j)

(* Where a quarter turn puts cells, nodes or the sides of cells. *)
Swapped(to) == <<to[2], to[1]>>

Sites == {Cell, Node, XSides, YSides}

(* The turns of the tile behind each corner, along a row and a column. *)
RowTurns(c) == IF c \in {"SW", "NE"} THEN 1 ELSE 3
ColumnTurns(c) == IF c \in {"SW", "NE"} THEN 3 ELSE 1

(* What a copy is at each corner. *)
LEMMA CopyCornersXIs ==
  \A c \in CornersOfTile : Filled(CopyCornersX[c], c, Cell, <<3, 3>>, RowTurns(c))
  BY SMTT(60) DEF Filled, CopyCornersX, Cell, CornersOfTile, CopyInto, Out, IsEast, IsNorth, EndX, EndY,
       WestEast, SouthNorth, RowTurns, ColumnTurns

LEMMA CopyCornersYIs ==
  \A c \in CornersOfTile : Filled(CopyCornersY[c], c, Cell, <<3, 3>>, ColumnTurns(c))
  BY SMTT(60) DEF Filled, CopyCornersY, Cell, CornersOfTile, CopyInto, Out, IsEast, IsNorth, EndX, EndY,
       WestEast, SouthNorth, RowTurns, ColumnTurns

LEMMA FillCorners2CellsMultXIs ==
  \A c \in CornersOfTile : Filled(FillCorners2CellsMultX[c], c, Cell, <<2, 1>>, RowTurns(c))
  BY SMTT(60) DEF Filled, FillCorners2CellsMultX, Cell, CornersOfTile, CopyInto, Out, IsEast, IsNorth,
       EndX, EndY, WestEast, SouthNorth, RowTurns, ColumnTurns

LEMMA FillCorners2CellsMultYIs ==
  \A c \in CornersOfTile : Filled(FillCorners2CellsMultY[c], c, Cell, <<1, 2>>, ColumnTurns(c))
  BY SMTT(60) DEF Filled, FillCorners2CellsMultY, Cell, CornersOfTile, CopyInto, Out, IsEast, IsNorth,
       EndX, EndY, WestEast, SouthNorth, RowTurns, ColumnTurns

LEMMA FillCornersBGridXIs ==
  \A c \in CornersOfTile : Filled(FillCornersBGridX[c], c, Node, <<3, 3>>, RowTurns(c))
  BY SMTT(60) DEF Filled, FillCornersBGridX, Node, CornersOfTile, CopyInto, Out, IsEast, IsNorth, EndX,
       EndY, WestEast, SouthNorth, RowTurns, ColumnTurns

LEMMA FillCornersBGridYIs ==
  ASSUME NEW c \in CornersOfTile
  PROVE  Filled(FillCornersBGridY[c], c, Node, <<3, 3>>, ColumnTurns(c))
<1> DEFINE S == FillCornersBGridY[c]
           Into(i, j) == CopyInto(c, Node, ColumnTurns(c), i, j)
<1>1. CASE c = "SW"
  <2>1. \A i, j \in 1..3 : Into(i, j) \in S
    BY <1>1 DEF FillCornersBGridY, Node, CopyInto, Out, IsEast, IsNorth, EndX, EndY, WestEast, SouthNorth,
         RowTurns, ColumnTurns
  <2>2. \A e \in S : \E i, j \in 1..3 : e = Into(i, j)
    BY <1>1 DEF FillCornersBGridY, Node, CopyInto, Out, IsEast, IsNorth, EndX, EndY, WestEast, SouthNorth,
         RowTurns, ColumnTurns
  <2> QED BY <2>1, <2>2 DEF Filled
<1>2. CASE c = "SE"
  <2>1. \A i, j \in 1..3 : Into(i, j) \in S
    BY <1>2 DEF FillCornersBGridY, Node, CopyInto, Out, IsEast, IsNorth, EndX, EndY, WestEast, SouthNorth,
         RowTurns, ColumnTurns
  <2>2. \A e \in S : \E i, j \in 1..3 : e = Into(i, j)
    BY <1>2 DEF FillCornersBGridY, Node, CopyInto, Out, IsEast, IsNorth, EndX, EndY, WestEast, SouthNorth,
         RowTurns, ColumnTurns
  <2> QED BY <2>1, <2>2 DEF Filled
<1>3. CASE c = "NW"
  <2>1. \A i, j \in 1..3 : Into(i, j) \in S
    BY <1>3 DEF FillCornersBGridY, Node, CopyInto, Out, IsEast, IsNorth, EndX, EndY, WestEast, SouthNorth,
         RowTurns, ColumnTurns
  <2>2. \A e \in S : \E i, j \in 1..3 : e = Into(i, j)
    BY <1>3 DEF FillCornersBGridY, Node, CopyInto, Out, IsEast, IsNorth, EndX, EndY, WestEast, SouthNorth,
         RowTurns, ColumnTurns
  <2> QED BY <2>1, <2>2 DEF Filled
<1>4. CASE c = "NE"
  <2>1. \A i, j \in 1..3 : Into(i, j) \in S
    BY <1>4 DEF FillCornersBGridY, Node, CopyInto, Out, IsEast, IsNorth, EndX, EndY, WestEast, SouthNorth,
         RowTurns, ColumnTurns
  <2>2. \A e \in S : \E i, j \in 1..3 : e = Into(i, j)
    BY <1>4 DEF FillCornersBGridY, Node, CopyInto, Out, IsEast, IsNorth, EndX, EndY, WestEast, SouthNorth,
         RowTurns, ColumnTurns
  <2> QED BY <2>1, <2>2 DEF Filled
<1> QED BY <1>1, <1>2, <1>3, <1>4 DEF CornersOfTile

LEMMA FillCornersDGridXIs ==
  \A c \in CornersOfTile : Filled(FillCornersDGridX[c], c, XSides, <<3, 3>>, RowTurns(c))
  BY SMTT(60) DEF Filled, FillCornersDGridX, XSides, CornersOfTile, CopyInto, Out, IsEast, IsNorth, EndX,
       EndY, WestEast, SouthNorth, RowTurns, ColumnTurns

LEMMA FillCornersDGridYIs ==
  \A c \in CornersOfTile : Filled(FillCornersDGridY[c], c, YSides, <<3, 3>>, ColumnTurns(c))
  BY SMTT(60) DEF Filled, FillCornersDGridY, YSides, CornersOfTile, CopyInto, Out, IsEast, IsNorth, EndX,
       EndY, WestEast, SouthNorth, RowTurns, ColumnTurns

LEMMA FillCorners3CellsMultXIs ==
  \A c \in CornersOfTile : Filled(FillCorners3CellsMultX[c], c, Cell, <<3, 1>>, RowTurns(c))
  BY SMTT(60) DEF Filled, FillCorners3CellsMultX, FillCorners2CellsMultX, Cell, CornersOfTile, CopyInto,
       Out, IsEast, IsNorth, EndX, EndY, WestEast, SouthNorth, RowTurns, ColumnTurns

LEMMA FillCorners3CellsMultYIs ==
  \A c \in CornersOfTile : Filled(FillCorners3CellsMultY[c], c, Cell, <<1, 3>>, ColumnTurns(c))
  BY SMTT(60) DEF Filled, FillCorners3CellsMultY, FillCorners2CellsMultY, Cell, CornersOfTile, CopyInto,
       Out, IsEast, IsNorth, EndX, EndY, WestEast, SouthNorth, RowTurns, ColumnTurns

LEMMA FillCorners2dBGridXIs ==
  ASSUME NEW c \in CornersOfTile
  PROVE  Filled(FillCorners2dBGridX[c], c, Node, <<3, 3>>, RowTurns(c))
<1> DEFINE S == FillCorners2dBGridX[c]
           Into(i, j) == CopyInto(c, Node, RowTurns(c), i, j)
<1>1. CASE c = "SW"
  <2>1. S = {Copy(<<-i, -j>>, <<-j, i>>) : i, j \in Halo}
    BY <1>1 DEF FillCorners2dBGridX
  <2>2. \A i, j \in 1..3 : Copy(<<-i, -j>>, <<-j, i>>) = Into(i, j)
    BY <1>1 DEF Copy, Node, CopyInto, Out, IsEast, IsNorth, EndX, EndY, WestEast, SouthNorth, RowTurns,
         ColumnTurns
  <2> HIDE DEF S, Into
  <2>3. \A i, j \in 1..3 : Into(i, j) \in S
    BY <2>1, <2>2 DEF Halo
  <2>4. \A e \in S : \E i, j \in 1..3 : e = Into(i, j)
    BY <2>1, <2>2 DEF Halo
  <2> QED BY <2>3, <2>4 DEF Filled, S, Into
<1>2. CASE c = "SE"
  <2>1. S = {Copy(<<1 + i, -j>>, <<1 + j, i>>) : i, j \in Halo}
    BY <1>2 DEF FillCorners2dBGridX
  <2>2. \A i, j \in 1..3 : Copy(<<1 + i, -j>>, <<1 + j, i>>) = Into(i, j)
    BY <1>2 DEF Copy, Node, CopyInto, Out, IsEast, IsNorth, EndX, EndY, WestEast, SouthNorth, RowTurns,
         ColumnTurns
  <2> HIDE DEF S, Into
  <2>3. \A i, j \in 1..3 : Into(i, j) \in S
    BY <2>1, <2>2 DEF Halo
  <2>4. \A e \in S : \E i, j \in 1..3 : e = Into(i, j)
    BY <2>1, <2>2 DEF Halo
  <2> QED BY <2>3, <2>4 DEF Filled, S, Into
<1>3. CASE c = "NW"
  <2>1. S = {Copy(<<-i, 1 + j>>, <<-j, 1 - i>>) : i, j \in Halo}
    BY <1>3 DEF FillCorners2dBGridX
  <2>2. \A i, j \in 1..3 : Copy(<<-i, 1 + j>>, <<-j, 1 - i>>) = Into(i, j)
    BY <1>3 DEF Copy, Node, CopyInto, Out, IsEast, IsNorth, EndX, EndY, WestEast, SouthNorth, RowTurns,
         ColumnTurns
  <2> HIDE DEF S, Into
  <2>3. \A i, j \in 1..3 : Into(i, j) \in S
    BY <2>1, <2>2 DEF Halo
  <2>4. \A e \in S : \E i, j \in 1..3 : e = Into(i, j)
    BY <2>1, <2>2 DEF Halo
  <2> QED BY <2>3, <2>4 DEF Filled, S, Into
<1>4. CASE c = "NE"
  <2>1. S = {Copy(<<1 + i, 1 + j>>, <<1 + j, 1 - i>>) : i, j \in Halo}
    BY <1>4 DEF FillCorners2dBGridX
  <2>2. \A i, j \in 1..3 : Copy(<<1 + i, 1 + j>>, <<1 + j, 1 - i>>) = Into(i, j)
    BY <1>4 DEF Copy, Node, CopyInto, Out, IsEast, IsNorth, EndX, EndY, WestEast, SouthNorth, RowTurns,
         ColumnTurns
  <2> HIDE DEF S, Into
  <2>3. \A i, j \in 1..3 : Into(i, j) \in S
    BY <2>1, <2>2 DEF Halo
  <2>4. \A e \in S : \E i, j \in 1..3 : e = Into(i, j)
    BY <2>1, <2>2 DEF Halo
  <2> QED BY <2>3, <2>4 DEF Filled, S, Into
<1> QED BY <1>1, <1>2, <1>3, <1>4 DEF CornersOfTile

LEMMA FillCorners2dAGridXIs ==
  \A c \in CornersOfTile : Filled(FillCorners2dAGridX[c], c, Cell, <<3, 3>>, RowTurns(c))
  BY SMTT(60) DEF Filled, FillCorners2dAGridX, Copy, Halo, Cell, CornersOfTile, CopyInto, Out, IsEast,
       IsNorth, EndX, EndY, WestEast, SouthNorth, RowTurns, ColumnTurns

LEMMA FillCorners2dAGridYIs ==
  \A c \in CornersOfTile : Filled(FillCorners2dAGridY[c], c, Cell, <<3, 3>>, ColumnTurns(c))
  BY SMTT(60) DEF Filled, FillCorners2dAGridY, Copy, Halo, Cell, CornersOfTile, CopyInto, Out, IsEast,
       IsNorth, EndX, EndY, WestEast, SouthNorth, RowTurns, ColumnTurns

LEMMA FillCornersDGridxIs ==
  ASSUME NEW c \in CornersOfTile
  PROVE  Filled(FillCornersDGrid.x[c], c, XSides, <<3, 3>>, RowTurns(c))
<1> DEFINE S == FillCornersDGrid.x[c]
           Into(i, j) == CopyInto(c, XSides, RowTurns(c), i, j)
           sw == {Copy(<<-i, -j>>, <<-j, i - 1>>)      : i, j \in Halo}
           se == {Copy(<<i, -j>>, <<1 + j, i - 1>>)    : i, j \in Halo}
           nw == {Copy(<<-i, 1 + j>>, <<-j, 1 - i>>)   : i, j \in Halo}
           ne == {Copy(<<i, 1 + j>>, <<1 + j, 1 - i>>) : i, j \in Halo}
<1>0. FillCornersDGrid.x = [SW |-> sw, SE |-> se, NW |-> nw, NE |-> ne]
  BY DEF FillCornersDGrid
<1> HIDE DEF sw, se, nw, ne
<1>1. CASE c = "SW"
  <2>1. S = {Copy(<<-i, -j>>, <<-j, i - 1>>) : i, j \in Halo}
    BY <1>1, <1>0 DEF sw
  <2>2. \A i, j \in 1..3 : Copy(<<-i, -j>>, <<-j, i - 1>>) = Into(i, j)
    BY <1>1 DEF Copy, XSides, CopyInto, Out, IsEast, IsNorth, EndX, EndY, WestEast, SouthNorth, RowTurns,
         ColumnTurns
  <2> HIDE DEF S, Into
  <2>3. \A i, j \in 1..3 : Into(i, j) \in S
    BY <2>1, <2>2 DEF Halo
  <2>4. \A e \in S : \E i, j \in 1..3 : e = Into(i, j)
    BY <2>1, <2>2 DEF Halo
  <2> QED BY <2>3, <2>4 DEF Filled, S, Into
<1>2. CASE c = "SE"
  <2>1. S = {Copy(<<i, -j>>, <<1 + j, i - 1>>) : i, j \in Halo}
    BY <1>2, <1>0 DEF se
  <2>2. \A i, j \in 1..3 : Copy(<<i, -j>>, <<1 + j, i - 1>>) = Into(i, j)
    BY <1>2 DEF Copy, XSides, CopyInto, Out, IsEast, IsNorth, EndX, EndY, WestEast, SouthNorth, RowTurns,
         ColumnTurns
  <2> HIDE DEF S, Into
  <2>3. \A i, j \in 1..3 : Into(i, j) \in S
    BY <2>1, <2>2 DEF Halo
  <2>4. \A e \in S : \E i, j \in 1..3 : e = Into(i, j)
    BY <2>1, <2>2 DEF Halo
  <2> QED BY <2>3, <2>4 DEF Filled, S, Into
<1>3. CASE c = "NW"
  <2>1. S = {Copy(<<-i, 1 + j>>, <<-j, 1 - i>>) : i, j \in Halo}
    BY <1>3, <1>0 DEF nw
  <2>2. \A i, j \in 1..3 : Copy(<<-i, 1 + j>>, <<-j, 1 - i>>) = Into(i, j)
    BY <1>3 DEF Copy, XSides, CopyInto, Out, IsEast, IsNorth, EndX, EndY, WestEast, SouthNorth, RowTurns,
         ColumnTurns
  <2> HIDE DEF S, Into
  <2>3. \A i, j \in 1..3 : Into(i, j) \in S
    BY <2>1, <2>2 DEF Halo
  <2>4. \A e \in S : \E i, j \in 1..3 : e = Into(i, j)
    BY <2>1, <2>2 DEF Halo
  <2> QED BY <2>3, <2>4 DEF Filled, S, Into
<1>4. CASE c = "NE"
  <2>1. S = {Copy(<<i, 1 + j>>, <<1 + j, 1 - i>>) : i, j \in Halo}
    BY <1>4, <1>0 DEF ne
  <2>2. \A i, j \in 1..3 : Copy(<<i, 1 + j>>, <<1 + j, 1 - i>>) = Into(i, j)
    BY <1>4 DEF Copy, XSides, CopyInto, Out, IsEast, IsNorth, EndX, EndY, WestEast, SouthNorth, RowTurns,
         ColumnTurns
  <2> HIDE DEF S, Into
  <2>3. \A i, j \in 1..3 : Into(i, j) \in S
    BY <2>1, <2>2 DEF Halo
  <2>4. \A e \in S : \E i, j \in 1..3 : e = Into(i, j)
    BY <2>1, <2>2 DEF Halo
  <2> QED BY <2>3, <2>4 DEF Filled, S, Into
<1> QED BY <1>1, <1>2, <1>3, <1>4 DEF CornersOfTile

LEMMA FillCornersDGridyIs ==
  \A c \in CornersOfTile : Filled(FillCornersDGrid.y[c], c, YSides, <<3, 3>>, ColumnTurns(c))
  BY SMTT(60) DEF Filled, FillCornersDGrid, Copy, Halo, YSides, CornersOfTile, CopyInto, Out, IsEast,
       IsNorth, EndX, EndY, WestEast, SouthNorth, RowTurns, ColumnTurns

(* How many columns and rows of a corner the fills write. *)
Depths == {<<3, 3>>, <<2, 1>>, <<3, 1>>, <<1, 2>>, <<1, 3>>}

(* What CornersContinueTheCube asks of the copies of one fill. *)
Continues(S, c, to, deep, turns) ==
  /\ Cardinality(S) = deep[1] * deep[2]
  /\ {FromCorner(c, e, to) : e \in S} = Beyond(c, to, deep)
  /\ \A e \in S : FromCorner(c, <<e[1] + e[3], e[2] + e[4]>>, Swapped(to))
                    = TurnedClockwise(FromCorner(c, e, to), turns)

(* Where a copy goes and where it is from, in half cells from the corner. *)
LEMMA CopyLeads ==
  ASSUME NEW c \in CornersOfTile, NEW to \in Sites, NEW turns \in {1, 3}, NEW i \in Nat, NEW j \in Nat
  PROVE  LET e == CopyInto(c, to, turns, i, j)
         IN  /\ FromCorner(c, e, to) = <<(2 * i - to[1]) * (IF WestEast(c) = "E" THEN 1 ELSE -1),
                                         (2 * j - to[2]) * (IF SouthNorth(c) = "N" THEN 1 ELSE -1)>>
             /\ FromCorner(c, <<e[1] + e[3], e[2] + e[4]>>, Swapped(to))
                  = TurnedClockwise(FromCorner(c, e, to), turns)
<1> DEFINE p == to[1]
           q == to[2]
           east == WestEast(c) = "E"
           north == SouthNorth(c) = "N"
           ex == IF east THEN 1 ELSE 0
           ey == IF north THEN 1 ELSE 0
           di == (IF east THEN i - p ELSE -i) + ex
           dj == (IF north THEN j - q ELSE -j) + ey
           si == (IF north = (turns = 1) THEN j - q ELSE -j) + ex
           sj == (IF east = (turns = 3) THEN i - p ELSE -i) + ey
           e == CopyInto(c, to, turns, i, j)
           x == (2 * i - p) * (IF east THEN 1 ELSE -1)
           y == (2 * j - q) * (IF north THEN 1 ELSE -1)
<1>1. p \in Int /\ q \in Int /\ east \in BOOLEAN /\ north \in BOOLEAN /\ Swapped(to)[1] = q /\ Swapped(to)[2] = p
  BY DEF Sites, Cell, Node, XSides, YSides, Swapped
<1>2. e = <<di, dj, si - di, sj - dj>>
  BY DEF CopyInto, Out, IsEast, IsNorth, EndX, EndY
<1> HIDE DEF p, q, east, north
<1>3. /\ di \in Int /\ dj \in Int /\ si \in Int /\ sj \in Int
      /\ 2 * di + p - 2 * ex = x /\ 2 * dj + q - 2 * ey = y
      /\ turns = 1 => 2 * si + q - 2 * ex = y /\ 2 * sj + p - 2 * ey = -x
      /\ turns = 3 => 2 * si + q - 2 * ex = -y /\ 2 * sj + p - 2 * ey = x
  BY <1>1
<1>4. \A site : \A u, v \in Int :
         FromCorner(c, <<u, v>>, site) = <<2 * u + site[1] - (2 * ex), 2 * v + site[2] - (2 * ey)>>
  BY DEF FromCorner, east, north
<1>5. FromCorner(c, e, to) = <<2 * di + p - 2 * ex, 2 * dj + q - 2 * ey>>
  BY <1>2 DEF FromCorner, east, north, p, q
<1> HIDE DEF di, dj, si, sj, ex, ey, e, x, y
<1>6. e[1] + e[3] = si /\ e[2] + e[4] = sj
  BY <1>2, <1>3
<1>7. FromCorner(c, e, to) = <<x, y>>
  BY <1>3, <1>5
<1>8. FromCorner(c, <<si, sj>>, Swapped(to)) = <<2 * si + q - 2 * ex, 2 * sj + p - 2 * ey>>
  BY <1>1, <1>3, <1>4
<1>9. FromCorner(c, <<si, sj>>, Swapped(to)) = TurnedClockwise(<<x, y>>, turns)
  <2>1. CASE turns = 1
    BY <1>3, <1>8, <2>1 DEF TurnedClockwise
  <2>2. CASE turns = 3
    BY <1>3, <1>8, <2>2 DEF TurnedClockwise
  <2> QED BY <2>1, <2>2
<1> QED BY <1>6, <1>7, <1>9 DEF e, x, y, p, q, east, north

(* A table that is filled so continues the cube. *)
LEMMA FilledContinues ==
  ASSUME NEW c \in CornersOfTile, NEW to \in Sites, NEW deep \in Depths, NEW turns \in {1, 3},
         NEW S, Filled(S, c, to, deep, turns)
  PROVE  Continues(S, c, to, deep, turns)
<1> DEFINE I == 1..deep[1]
           J == 1..deep[2]
           Into(i, j) == CopyInto(c, to, turns, i, j)
           Goes(i, j) == <<(2 * i - to[1]) * (IF WestEast(c) = "E" THEN 1 ELSE -1),
                           (2 * j - to[2]) * (IF SouthNorth(c) = "N" THEN 1 ELSE -1)>>
<1>1. deep[1] \in Nat /\ deep[2] \in Nat
  BY DEF Depths
<1>2. /\ \A i \in I, j \in J : Into(i, j) \in S
      /\ \A e \in S : \E i \in I, j \in J : e = Into(i, j)
  BY DEF Filled
<1>3. ASSUME NEW i \in I, NEW j \in J
      PROVE  /\ FromCorner(c, Into(i, j), to) = Goes(i, j)
             /\ FromCorner(c, <<Into(i, j)[1] + Into(i, j)[3], Into(i, j)[2] + Into(i, j)[4]>>, Swapped(to))
                  = TurnedClockwise(FromCorner(c, Into(i, j), to), turns)
  <2>1. i \in Nat /\ j \in Nat
    BY <1>1
  <2> QED BY <2>1, CopyLeads
<1>4. Beyond(c, to, deep) = {Goes(i, j) : i \in I, j \in J}
  BY DEF Beyond
<1>5. \A i \in I, j \in J, k \in I, h \in J : Goes(i, j) = Goes(k, h) => i = k /\ j = h
  <2>1. to[1] \in Int /\ to[2] \in Int
    BY DEF Sites, Cell, Node, XSides, YSides
  <2> QED BY <1>1, <2>1
<1> HIDE DEF Into, Goes
<1>6. {FromCorner(c, e, to) : e \in S} = Beyond(c, to, deep)
  <2>1. \A i \in I, j \in J : FromCorner(c, Into(i, j), to) = Goes(i, j)
    BY <1>3
  <2> HIDE DEF I, J
  <2>2. ASSUME NEW e \in S PROVE FromCorner(c, e, to) \in Beyond(c, to, deep)
    BY <1>2, <1>4, <2>1
  <2>3. ASSUME NEW g \in Beyond(c, to, deep) PROVE \E e \in S : g = FromCorner(c, e, to)
    BY <1>2, <1>4, <2>1
  <2> QED BY <2>2, <2>3
<1>7. Cardinality(S) = deep[1] * deep[2]
  <2> DEFINE f == [x \in I \X J |-> Into(x[1], x[2])]
  <2>1. IsFiniteSet(I \X J) /\ Cardinality(I \X J) = deep[1] * deep[2]
    <3>1. IsFiniteSet(I) /\ IsFiniteSet(J) /\ Cardinality(I) = deep[1] /\ Cardinality(J) = deep[2]
      <4>1. \A b \in Nat : IsFiniteSet(1..b) /\ Cardinality(1..b) = b
        <5> TAKE b \in Nat
        <5>1. /\ IsFiniteSet(1..b)
              /\ Cardinality(1..b) = IF 1 > b THEN 0 ELSE b - 1 + 1
          BY FS_Interval
        <5> QED BY <5>1
      <4> QED BY <1>1, <4>1
    <3> HIDE DEF I, J
    <3> QED BY <3>1, FS_Product
  <2>2. f \in [I \X J -> S]
    BY <1>2
  <2>3. \A x, y \in I \X J : f[x] = f[y] => x = y
    <3>1. \A i \in I, j \in J : FromCorner(c, Into(i, j), to) = Goes(i, j)
      BY <1>3
    <3>2. ASSUME NEW x \in I \X J, NEW y \in I \X J, f[x] = f[y] PROVE x = y
      <4> DEFINE i == x[1]  j == x[2]  k == y[1]  h == y[2]
      <4>1. i \in I /\ j \in J /\ k \in I /\ h \in J /\ x = <<i, j>> /\ y = <<k, h>>
        OBVIOUS
      <4>2. Into(i, j) = Into(k, h)
        BY <3>2
      <4> HIDE DEF i, j, k, h
      <4>3. Goes(i, j) = Goes(k, h)
        BY <3>1, <4>1, <4>2
      <4> QED BY <1>5, <4>1, <4>3
    <3> QED BY <3>2
  <2>4. \A e \in S : \E x \in I \X J : f[x] = e
    <3> TAKE e \in S
    <3>1. PICK i \in I, j \in J : e = Into(i, j)
      BY <1>2
    <3>2. <<i, j>> \in I \X J /\ f[<<i, j>>] = e
      BY <3>1
    <3> QED BY <3>2
  <2> DEFINE X == I \X J
  <2>5. /\ f \in [X -> S] /\ IsFiniteSet(X) /\ Cardinality(X) = deep[1] * deep[2]
        /\ \A x, y \in X : f[x] = f[y] => x = y
        /\ \A e \in S : \E x \in X : f[x] = e
    BY <2>1, <2>2, <2>3, <2>4
  <2> HIDE DEF f, I, J, X
  <2>6. Cardinality(S) = Cardinality(X)
    BY <2>5, AsMany
  <2> QED BY <2>5, <2>6
<1> QED BY <1>2, <1>3, <1>6, <1>7 DEF Continues

TurnsOf(c, along) == IF along = "row" THEN RowTurns(c) ELSE ColumnTurns(c)

(* A component of a vector changes its sign where the turn reverses it. *)
Signed(sign, component, along, c) ==
  sign[c] = IF component = "none" THEN 1
            ELSE IF (component = "x") = (TurnsOf(c, along) = 1) THEN -1 ELSE 1

(* What a fill is, if its table is as its name says. *)
FillOK(f, c) ==
  /\ f.to \in Sites /\ f.from = Swapped(f.to) /\ f.deep \in Depths
  /\ Filled(f.table[c], c, f.to, f.deep, TurnsOf(c, f.along))
  /\ Signed(f.sign, f.component, f.along, c)

LEMMA FillIs ==
  ASSUME NEW component, NEW to \in Sites, NEW from, from = Swapped(to), NEW along, NEW table,
         NEW deep \in Depths, NEW sign, NEW c,
         Filled(table[c], c, to, deep, TurnsOf(c, along)),
         Signed(sign, component, along, c)
  PROVE  FillOK(Fill(component, to, from, along, table, deep, sign), c)
  BY DEF FillOK, Fill

(* Every fill the code has, at every corner. *)
LEMMA FillsAreOK ==
  ASSUME NEW c \in CornersOfTile, NEW f \in Fills
  PROVE  FillOK(f, c)
<1> DEFINE InRows(table, to, deep)    == Filled(table[c], c, to, deep, TurnsOf(c, "row"))
           InColumns(table, to, deep) == Filled(table[c], c, to, deep, TurnsOf(c, "column"))
<1>1. /\ \A S, to, deep : Filled(S, c, to, deep, RowTurns(c)) <=> Filled(S, c, to, deep, TurnsOf(c, "row"))
      /\ \A S, to, deep : Filled(S, c, to, deep, ColumnTurns(c)) <=> Filled(S, c, to, deep, TurnsOf(c,
           "column"))
  BY DEF TurnsOf
<1>2. /\ \A to : Swapped(to) = <<to[2], to[1]>>
      /\ Cell \in Sites /\ Node \in Sites /\ XSides \in Sites /\ YSides \in Sites
      /\ Swapped(Cell) = Cell /\ Swapped(Node) = Node /\ Swapped(XSides) = YSides /\ Swapped(YSides) = XSides
      /\ <<3, 3>> \in Depths /\ <<2, 1>> \in Depths /\ <<3, 1>> \in Depths /\ <<1, 2>> \in Depths /\ <<1,
           3>> \in Depths
  BY DEF Sites, Swapped, Cell, Node, XSides, YSides, Depths
<1>3. /\ Signed(Scalar, "none", "row", c) /\ Signed(Scalar, "none", "column", c)
      /\ Signed(MySign, "x", "row", c) /\ Signed(MySign, "y", "column", c)
      /\ Signed(CGridSign, "x", "column", c) /\ Signed(CGridSign, "y", "row", c)
  <2>1. CASE c = "SW"
    BY <2>1 DEF Signed, Scalar, MySign, CGridSign, TurnsOf, RowTurns, ColumnTurns, CornersOfTile
  <2>2. CASE c = "SE"
    BY <2>2 DEF Signed, Scalar, MySign, CGridSign, TurnsOf, RowTurns, ColumnTurns, CornersOfTile
  <2>3. CASE c = "NW"
    BY <2>3 DEF Signed, Scalar, MySign, CGridSign, TurnsOf, RowTurns, ColumnTurns, CornersOfTile
  <2>4. CASE c = "NE"
    BY <2>4 DEF Signed, Scalar, MySign, CGridSign, TurnsOf, RowTurns, ColumnTurns, CornersOfTile
  <2> QED BY <2>1, <2>2, <2>3, <2>4 DEF CornersOfTile
<1>4. /\ CopyCornersXY.x[c] = CopyCornersX[c] /\ CopyCornersXNord(1)[c] = CopyCornersX[c]
      /\ CopyCornersXY.y[c] = CopyCornersY[c] /\ CopyCornersYNord(1)[c] = CopyCornersY[c]
      /\ FillCornersAGrid.x[c] = FillCorners2dAGridX[c] /\ FillCornersAGrid.y[c] = FillCorners2dAGridY[c]
      /\ FillCornersCGrid.x[c] = FillCornersDGrid.y[c] /\ FillCornersCGrid.y[c] = FillCornersDGrid.x[c]
  BY DEF CopyCornersXY, CopyCornersXNord, CopyCornersYNord, FillCornersAGrid, FillCornersCGrid
<1>5. CASE f \in CopyFills
  <2>1. ASSUME NEW table, InRows(table, Cell, <<3, 3>>)
        PROVE  FillOK(Fill("none", Cell, Cell, "row", table, <<3, 3>>, Scalar), c)
    BY <1>2, <1>3, <2>1, FillIs
  <2>2. ASSUME NEW table, InColumns(table, Cell, <<3, 3>>)
        PROVE  FillOK(Fill("none", Cell, Cell, "column", table, <<3, 3>>, Scalar), c)
    BY <1>2, <1>3, <2>2, FillIs
  <2>3. ASSUME NEW table, InRows(table, Node, <<3, 3>>)
        PROVE  FillOK(Fill("none", Node, Node, "row", table, <<3, 3>>, Scalar), c)
    BY <1>2, <1>3, <2>3, FillIs
  <2>4. ASSUME NEW table, InColumns(table, Node, <<3, 3>>)
        PROVE  FillOK(Fill("none", Node, Node, "column", table, <<3, 3>>, Scalar), c)
    BY <1>2, <1>3, <2>4, FillIs
  <2>5. /\ InRows(CopyCornersX, Cell, <<3, 3>>) /\ InRows(CopyCornersXY.x, Cell, <<3, 3>>)
        /\ InRows(CopyCornersXNord(1), Cell, <<3, 3>>) /\ InRows(FillCorners2dAGridX, Cell, <<3, 3>>)
    BY <1>1, <1>4, CopyCornersXIs, FillCorners2dAGridXIs
  <2>6. /\ InColumns(CopyCornersY, Cell, <<3, 3>>) /\ InColumns(CopyCornersXY.y, Cell, <<3, 3>>)
        /\ InColumns(CopyCornersYNord(1), Cell, <<3, 3>>) /\ InColumns(FillCorners2dAGridY, Cell, <<3, 3>>)
    BY <1>1, <1>4, CopyCornersYIs, FillCorners2dAGridYIs
  <2>7. /\ InRows(FillCornersBGridX, Node, <<3, 3>>) /\ InRows(FillCorners2dBGridX, Node, <<3, 3>>)
        /\ InColumns(FillCornersBGridY, Node, <<3, 3>>)
    BY <1>1, FillCornersBGridXIs, FillCorners2dBGridXIs, FillCornersBGridYIs
  <2> HIDE DEF InRows, InColumns
  <2> QED BY <1>5, <2>1, <2>2, <2>3, <2>4, <2>5, <2>6, <2>7 DEF CopyFills
<1>6. CASE f \in FillCornersDelpPtW
  <2>1. /\ InRows(FillCorners2CellsMultX, Cell, <<2, 1>>)
        /\ InColumns(FillCorners2CellsMultY, Cell, <<1, 2>>)
    BY <1>1, FillCorners2CellsMultXIs, FillCorners2CellsMultYIs
  <2>2. FillOK(Fill("none", Cell, Cell, "row", FillCorners2CellsMultX, <<2, 1>>, Scalar), c)
    BY <1>2, <1>3, <2>1, FillIs
  <2>3. FillOK(Fill("none", Cell, Cell, "column", FillCorners2CellsMultY, <<1, 2>>, Scalar), c)
    BY <1>2, <1>3, <2>1, FillIs
  <2> QED BY <1>6, <2>2, <2>3 DEF FillCornersDelpPtW
<1>7. CASE f \in FillCornersUtmpUa
  <2>1. InRows(FillCorners3CellsMultX, Cell, <<3, 1>>) /\ InRows(FillCorners2CellsMultX, Cell, <<2, 1>>)
    BY <1>1, FillCorners2CellsMultXIs, FillCorners3CellsMultXIs
  <2>2. FillOK(Fill("x", Cell, Cell, "row", FillCorners3CellsMultX, <<3, 1>>, MySign), c)
    BY <1>2, <1>3, <2>1, FillIs
  <2>3. FillOK(Fill("x", Cell, Cell, "row", FillCorners2CellsMultX, <<2, 1>>, MySign), c)
    BY <1>2, <1>3, <2>1, FillIs
  <2> QED BY <1>7, <2>2, <2>3 DEF FillCornersUtmpUa
<1>8. CASE f \in FillCornersVtmpVa
  <2>1. InColumns(FillCorners3CellsMultY, Cell, <<1, 3>>) /\ InColumns(FillCorners2CellsMultY, Cell, <<1, 2>>)
    BY <1>1, FillCorners2CellsMultYIs, FillCorners3CellsMultYIs
  <2>2. FillOK(Fill("y", Cell, Cell, "column", FillCorners3CellsMultY, <<1, 3>>, MySign), c)
    BY <1>2, <1>3, <2>1, FillIs
  <2>3. FillOK(Fill("y", Cell, Cell, "column", FillCorners2CellsMultY, <<1, 2>>, MySign), c)
    BY <1>2, <1>3, <2>1, FillIs
  <2> QED BY <1>8, <2>2, <2>3 DEF FillCornersVtmpVa
<1>9. CASE f \in VectorFills
  <2>1. /\ InRows(FillCornersAGrid.x, Cell, <<3, 3>>) /\ InColumns(FillCornersAGrid.y, Cell, <<3, 3>>)
        /\ InColumns(FillCornersCGrid.x, YSides, <<3, 3>>) /\ InRows(FillCornersCGrid.y, XSides, <<3, 3>>)
        /\ InRows(FillCornersDGridX, XSides, <<3, 3>>) /\ InRows(FillCornersDGrid.x, XSides, <<3, 3>>)
        /\ InColumns(FillCornersDGridY, YSides, <<3, 3>>) /\ InColumns(FillCornersDGrid.y, YSides, <<3, 3>>)
    BY <1>1, <1>4, FillCorners2dAGridXIs, FillCorners2dAGridYIs, FillCornersDGridXIs, FillCornersDGridYIs,
       FillCornersDGridxIs, FillCornersDGridyIs
  <2>2. FillOK(Fill("x", Cell, Cell, "row", FillCornersAGrid.x, <<3, 3>>, MySign), c)
    BY <1>2, <1>3, <2>1, FillIs
  <2>3. FillOK(Fill("y", Cell, Cell, "column", FillCornersAGrid.y, <<3, 3>>, MySign), c)
    BY <1>2, <1>3, <2>1, FillIs
  <2>4. FillOK(Fill("x", YSides, XSides, "column", FillCornersCGrid.x, <<3, 3>>, CGridSign), c)
    BY <1>2, <1>3, <2>1, FillIs
  <2>5. FillOK(Fill("y", XSides, YSides, "row", FillCornersCGrid.y, <<3, 3>>, CGridSign), c)
    BY <1>2, <1>3, <2>1, FillIs
  <2>6. ASSUME NEW table, InRows(table, XSides, <<3, 3>>)
        PROVE  FillOK(Fill("x", XSides, YSides, "row", table, <<3, 3>>, MySign), c)
    BY <1>2, <1>3, <2>6, FillIs
  <2>7. ASSUME NEW table, InColumns(table, YSides, <<3, 3>>)
        PROVE  FillOK(Fill("y", YSides, XSides, "column", table, <<3, 3>>, MySign), c)
    BY <1>2, <1>3, <2>7, FillIs
  <2> HIDE DEF InRows, InColumns
  <2> QED BY <1>9, <2>1, <2>2, <2>3, <2>4, <2>5, <2>6, <2>7 DEF VectorFills
<1> QED BY <1>5, <1>6, <1>7, <1>8, <1>9 DEF Fills

(* The cell in the corner, the one beside it and the one above or below it, *)
(* each with the offsets of the three.                                      *)
Means(x, y) ==
  {<<<<0, 0>>, {<<0, 0>>, <<x, 0>>, <<0, y>>}>>,
   <<<<x, 0>>, {<<-x, 0>>, <<0, 0>>, <<-x, y>>}>>,
   <<<<0, y>>, {<<0, -y>>, <<x, -y>>, <<0, 0>>}>>}

LEMMA CornerFillIs ==
  ASSUME NEW c \in CornersOfTile
  PROVE  CornerFill[c] = Means(IF WestEast(c) = "E" THEN 1 ELSE -1, IF SouthNorth(c) = "N" THEN 1 ELSE -1)
<1>1. CASE c = "SW"
  BY <1>1, SMTT(60) DEF CornerFill, Means, WestEast, SouthNorth
<1>2. CASE c = "SE"
  BY <1>2, SMTT(60) DEF CornerFill, Means, WestEast, SouthNorth
<1>3. CASE c = "NW"
  BY <1>3, SMTT(60) DEF CornerFill, Means, WestEast, SouthNorth
<1>4. CASE c = "NE"
  BY <1>4, SMTT(60) DEF CornerFill, Means, WestEast, SouthNorth
<1> QED BY <1>1, <1>2, <1>3, <1>4 DEF CornersOfTile

LEMMA MeansContinue ==
  ASSUME NEW x \in {-1, 1}, NEW y \in {-1, 1}, NEW m \in Means(x, y)
  PROVE  {<<m[1][1] + o[1], m[1][2] + o[2]>> : o \in m[2]} = {t[1] : t \in Means(x, y)}
<1> DEFINE Cells == {<<0, 0>>, <<x, 0>>, <<0, y>>}
           Shifted(u, v, offsets) == {<<u + o[1], v + o[2]>> : o \in offsets}
<1>1. {t[1] : t \in Means(x, y)} = Cells
  BY DEF Means
<1>2. \A u, v, a, b, d : Shifted(u, v, {a, b, d}) = {<<u + a[1], v + a[2]>>, <<u + b[1], v + b[2]>>,
     <<u + d[1], v + d[2]>>}
  OBVIOUS
<1>3. x \in Int /\ y \in Int /\ x + (-x) = 0 /\ y + (-y) = 0
  OBVIOUS
<1>4. Shifted(0, 0, {<<0, 0>>, <<x, 0>>, <<0, y>>}) = Cells
  BY <1>3
<1>5. Shifted(x, 0, {<<-x, 0>>, <<0, 0>>, <<-x, y>>}) = Cells
  <2>1. Shifted(x, 0, {<<-x, 0>>, <<0, 0>>, <<-x, y>>}) = {<<x + (-x), 0 + 0>>, <<x + 0, 0 + 0>>,
       <<x + (-x), 0 + y>>}
    BY <1>2
  <2> HIDE DEF Shifted
  <2> QED BY <1>3, <2>1
<1>6. Shifted(0, y, {<<0, -y>>, <<x, -y>>, <<0, 0>>}) = Cells
  <2>1. Shifted(0, y, {<<0, -y>>, <<x, -y>>, <<0, 0>>}) = {<<0 + 0, y + (-y)>>, <<0 + x, y + (-y)>>,
       <<0 + 0, y + 0>>}
    BY <1>2
  <2> HIDE DEF Shifted
  <2> QED BY <1>3, <2>1
<1>7. {<<m[1][1] + o[1], m[1][2] + o[2]>> : o \in m[2]} = Shifted(m[1][1], m[1][2], m[2])
  OBVIOUS
<1>8. \/ m[1][1] = 0 /\ m[1][2] = 0 /\ m[2] = {<<0, 0>>, <<x, 0>>, <<0, y>>}
      \/ m[1][1] = x /\ m[1][2] = 0 /\ m[2] = {<<-x, 0>>, <<0, 0>>, <<-x, y>>}
      \/ m[1][1] = 0 /\ m[1][2] = y /\ m[2] = {<<0, -y>>, <<x, -y>>, <<0, 0>>}
  BY DEF Means
<1> HIDE DEF Shifted, Cells
<1> QED BY <1>1, <1>4, <1>5, <1>6, <1>7, <1>8

(* Over one edge and, from there, over the one that lies where the other was, *)
(* a walker meets the subtile across that other, k turns round.               *)
Circled(e1, e2, n, t, j, i, k) ==
  LET beside == ToThe(e1, n, t, j, i)
      direct == ToThe(e2, n, t, j, i)
      u      == WhereTo(e1, n, t, j, i)
      head   == Heading(e2, beside.rotations)
      behind == ToThe(head, n, u[1], u[2], u[3])
  IN  /\ head \in Edges
      /\ WhereTo(head, n, u[1], u[2], u[3]) = WhereTo(e2, n, t, j, i)
      /\ (direct.rotations - beside.rotations - behind.rotations) % 4 = k

(* What is met on the way, and straight. *)
Legs(e1, e2, h, n, t, j, i, k, t1, j1, i1, r1, t2, j2, i2, r2, t3, r3) ==
  /\ ToThe(e1, n, t, j, i) = Met(t1, j1, i1, r1)
  /\ ToThe(e2, n, t, j, i) = Met(t2, j2, i2, r2)
  /\ ToThe(h, n, t1 % 6, j1, i1) = Met(t3, j2, i2, r3)
  /\ Heading(e2, r1) = h /\ h \in Edges /\ t3 % 6 = t2 % 6
  /\ {r1, r2, r3, k} \subseteq 0..3 /\ (r1 + r3 + k - r2) % 4 = 0

LEMMA CircledWhen ==
  ASSUME NEW e1, NEW e2, NEW h, NEW n, NEW t, NEW j, NEW i, NEW k, NEW t1, NEW j1, NEW i1, NEW r1,
         NEW t2, NEW j2, NEW i2, NEW r2, NEW t3, NEW r3,
         Legs(e1, e2, h, n, t, j, i, k, t1, j1, i1, r1, t2, j2, i2, r2, t3, r3)
  PROVE  Circled(e1, e2, n, t, j, i, k)
<1> DEFINE M1 == Met(t1, j1, i1, r1)
           M2 == Met(t2, j2, i2, r2)
           M3 == Met(t3, j2, i2, r3)
<1>1. /\ M1.t = t1 /\ M1.j = j1 /\ M1.i = i1 /\ M1.rotations = r1
      /\ M2.t = t2 /\ M2.j = j2 /\ M2.i = i2 /\ M2.rotations = r2
      /\ M3.t = t3 /\ M3.j = j2 /\ M3.i = i2 /\ M3.rotations = r3
  BY DEF Met
<1> HIDE DEF M1, M2, M3
<1>2. /\ ToThe(e1, n, t, j, i) = M1 /\ ToThe(e2, n, t, j, i) = M2
      /\ ToThe(h, n, t1 % 6, j1, i1) = M3
      /\ Heading(e2, r1) = h /\ h \in Edges /\ t3 % 6 = t2 % 6
      /\ r1 \in 0..3 /\ r2 \in 0..3 /\ r3 \in 0..3 /\ k \in 0..3 /\ (r1 + r3 + k - r2) % 4 = 0
  BY DEF Legs, M1, M2, M3
<1>3. WhereTo(e1, n, t, j, i) = <<t1 % 6, j1, i1>> /\ WhereTo(e2, n, t, j, i) = <<t2 % 6, j2, i2>>
  BY <1>1, <1>2 DEF WhereTo
<1>4. WhereTo(h, n, t1 % 6, j1, i1) = <<t3 % 6, j2, i2>>
  BY <1>1, <1>2 DEF WhereTo
<1>5. (r2 - r1 - r3) % 4 = k
  BY <1>2
<1> DEFINE u == WhereTo(e1, n, t, j, i)
<1>6. u[1] = t1 % 6 /\ u[2] = j1 /\ u[3] = i1
  BY <1>3
<1>7. /\ ToThe(e1, n, t, j, i).rotations = r1 /\ ToThe(e2, n, t, j, i).rotations = r2
      /\ ToThe(h, n, u[1], u[2], u[3]).rotations = r3
      /\ WhereTo(h, n, u[1], u[2], u[3]) = WhereTo(e2, n, t, j, i)
      /\ Heading(e2, ToThe(e1, n, t, j, i).rotations) = h /\ h \in Edges
  BY <1>1, <1>2, <1>3, <1>4, <1>6
<1> HIDE DEF u
<1> QED BY <1>5, <1>7 DEF Circled, u

(* The directions a walker may take. *)
LEMMA HeadingIs ==
  /\ Heading("N", 0) = "N" /\ Heading("N", 1) = "W" /\ Heading("N", 3) = "E"
  /\ Heading("W", 0) = "W" /\ Heading("W", 1) = "S" /\ Heading("W", 3) = "N"
  /\ Heading("S", 0) = "S" /\ Heading("S", 1) = "E" /\ Heading("S", 3) = "W"
  /\ Heading("E", 0) = "E" /\ Heading("E", 1) = "N" /\ Heading("E", 3) = "S"
<1> DEFINE compass == <<"N", "W", "S", "E">>
           At(e) == CHOOSE q \in 1..4 : compass[q] = e
<1>1. \A e, turns : Heading(e, turns) = compass[1 + ((At(e) - 1 + turns) % 4)]
  BY DEF Heading
<1>2. compass[1] = "N" /\ compass[2] = "W" /\ compass[3] = "S" /\ compass[4] = "E"
  OBVIOUS
<1>3. At("N") = 1 /\ At("W") = 2 /\ At("S") = 3 /\ At("E") = 4
  <2>1. \A e \in {"N", "W", "S", "E"} : At(e) \in 1..4 /\ compass[At(e)] = e
    OBVIOUS
  <2> HIDE DEF At, compass
  <2> QED BY <1>2, <2>1
<1> HIDE DEF At, compass
<1> QED BY <1>1, <1>2, <1>3

(* Around every corner of the cube, starting over either of its edges. *)
LEMMA AroundTheCorner ==
  ASSUME NEW n \in Nat \ {0}, NEW t \in 0..5, NEW j \in 0..(n - 1), NEW i \in 0..(n - 1),
         NEW c \in CornersOfTile, AtCubeCorner(c, n, j, i)
  PROVE  /\ Circled(SouthNorth(c), WestEast(c), n, t, j, i, TurnsOf(c, "row"))
         /\ Circled(WestEast(c), SouthNorth(c), n, t, j, i, TurnsOf(c, "column"))
<1>1. /\ \A u \in Int : IsEven(u) \in BOOLEAN
      /\ (IsEven((t - 2) % 6) <=> IsEven(t)) /\ (IsEven((t + 2) % 6) <=> IsEven(t))
      /\ (IsEven((t - 1) % 6) <=> ~IsEven(t)) /\ (IsEven((t + 1) % 6) <=> ~IsEven(t))
  BY DEF IsEven
<1>2. /\ (((t - 1) % 6) - 1) % 6 = (t - 2) % 6 /\ (((t + 1) % 6) + 1) % 6 = (t + 2) % 6
      /\ (((t - 2) % 6) + 1) % 6 = (t - 1) % 6 /\ (((t + 2) % 6) - 1) % 6 = (t + 1) % 6
      /\ (((t - 1) % 6) + 2) % 6 = (t + 1) % 6 /\ (((t + 1) % 6) - 2) % 6 = (t - 1) % 6
      /\ (((t - 2) % 6) - 2) % 6 = (t + 2) % 6 /\ (((t + 2) % 6) + 2) % 6 = (t - 2) % 6
  OBVIOUS
<1>3. /\ ~(0 > 0) /\ ~(n - 1 < n - 1) /\ n - 1 - 0 = n - 1 /\ n - 1 - (n - 1) = 0 /\ n - 1 \in Int
  OBVIOUS
<1>4. CASE c = "SW"
  <2>0. j = 0 /\ i = 0 /\ SouthNorth(c) = "S" /\ WestEast(c) = "W"
    BY <1>4 DEF AtCubeCorner, SouthNorth, WestEast
  <2>1. TurnsOf(c, "row") = 1
    BY <1>4 DEF TurnsOf, RowTurns, ColumnTurns
  <2>2. ASSUME IsEven(t)
        PROVE  Circled("S", "W", n, t, j, i, 1)
    <3>1. ToThe("S", n, t, j, i) = Met(t - 1, n - 1, 0, 0)
      BY <1>3, <2>0, <2>2 DEF ToThe, ToTheSouth
    <3>2. ToThe("W", n, t, j, i) = Met(t - 2, n - 1, n - 1, 1)
      BY <1>3, <2>0, <2>2 DEF ToThe, ToTheWest
    <3>3. ToThe("W", n, (t - 1) % 6, n - 1, 0) = Met(((t - 1) % 6) - 1, n - 1, n - 1, 0)
      BY <1>1, <1>3, <2>2 DEF ToThe, ToTheWest
    <3>4. (((t - 1) % 6) - 1) % 6 = (t - 2) % 6
      BY <1>2
    <3>5. Heading("W", 0) = "W" /\ "W" \in Edges /\ {0, 1, 0, 1} \subseteq 0..3 /\ (0 + 0 + 1 - 1) % 4 = 0
      BY HeadingIs DEF Edges
    <3>6. Legs("S", "W", "W", n, t, j, i, 1, t - 1, n - 1, 0, 0,
               t - 2, n - 1, n - 1, 1, ((t - 1) % 6) - 1, 0)
      BY <3>1, <3>2, <3>3, <3>4, <3>5, Zenon DEF Legs
    <3> QED BY <3>6, CircledWhen, Zenon
  <2>3. ASSUME ~IsEven(t)
        PROVE  Circled("S", "W", n, t, j, i, 1)
    <3>1. ToThe("S", n, t, j, i) = Met(t - 2, n - 1, n - 1, 3)
      BY <1>3, <2>0, <2>3 DEF ToThe, ToTheSouth
    <3>2. ToThe("W", n, t, j, i) = Met(t - 1, 0, n - 1, 0)
      BY <1>3, <2>0, <2>3 DEF ToThe, ToTheWest
    <3>3. ToThe("N", n, (t - 2) % 6, n - 1, n - 1) = Met(((t - 2) % 6) + 1, 0, n - 1, 0)
      BY <1>1, <1>3, <2>3 DEF ToThe, ToTheNorth
    <3>4. (((t - 2) % 6) + 1) % 6 = (t - 1) % 6
      BY <1>2
    <3>5. Heading("W", 3) = "N" /\ "N" \in Edges /\ {3, 0, 0, 1} \subseteq 0..3 /\ (3 + 0 + 1 - 0) % 4 = 0
      BY HeadingIs DEF Edges
    <3>6. Legs("S", "W", "N", n, t, j, i, 1, t - 2, n - 1, n - 1, 3,
               t - 1, 0, n - 1, 0, ((t - 2) % 6) + 1, 0)
      BY <3>1, <3>2, <3>3, <3>4, <3>5, Zenon DEF Legs
    <3> QED BY <3>6, CircledWhen, Zenon
  <2>4. Circled("S", "W", n, t, j, i, 1)
    BY <2>2, <2>3
  <2>5. Circled("S", "W", n, t, j, i, TurnsOf(c, "row"))
    BY <2>1, <2>4
  <2>6. TurnsOf(c, "column") = 3
    BY <1>4 DEF TurnsOf, RowTurns, ColumnTurns
  <2>7. ASSUME IsEven(t)
        PROVE  Circled("W", "S", n, t, j, i, 3)
    <3>1. ToThe("W", n, t, j, i) = Met(t - 2, n - 1, n - 1, 1)
      BY <1>3, <2>0, <2>7 DEF ToThe, ToTheWest
    <3>2. ToThe("S", n, t, j, i) = Met(t - 1, n - 1, 0, 0)
      BY <1>3, <2>0, <2>7 DEF ToThe, ToTheSouth
    <3>3. ToThe("E", n, (t - 2) % 6, n - 1, n - 1) = Met(((t - 2) % 6) + 1, n - 1, 0, 0)
      BY <1>1, <1>3, <2>7 DEF ToThe, ToTheEast
    <3>4. (((t - 2) % 6) + 1) % 6 = (t - 1) % 6
      BY <1>2
    <3>5. Heading("S", 1) = "E" /\ "E" \in Edges /\ {1, 0, 0, 3} \subseteq 0..3 /\ (1 + 0 + 3 - 0) % 4 = 0
      BY HeadingIs DEF Edges
    <3>6. Legs("W", "S", "E", n, t, j, i, 3, t - 2, n - 1, n - 1, 1,
               t - 1, n - 1, 0, 0, ((t - 2) % 6) + 1, 0)
      BY <3>1, <3>2, <3>3, <3>4, <3>5, Zenon DEF Legs
    <3> QED BY <3>6, CircledWhen, Zenon
  <2>8. ASSUME ~IsEven(t)
        PROVE  Circled("W", "S", n, t, j, i, 3)
    <3>1. ToThe("W", n, t, j, i) = Met(t - 1, 0, n - 1, 0)
      BY <1>3, <2>0, <2>8 DEF ToThe, ToTheWest
    <3>2. ToThe("S", n, t, j, i) = Met(t - 2, n - 1, n - 1, 3)
      BY <1>3, <2>0, <2>8 DEF ToThe, ToTheSouth
    <3>3. ToThe("S", n, (t - 1) % 6, 0, n - 1) = Met(((t - 1) % 6) - 1, n - 1, n - 1, 0)
      BY <1>1, <1>3, <2>8 DEF ToThe, ToTheSouth
    <3>4. (((t - 1) % 6) - 1) % 6 = (t - 2) % 6
      BY <1>2
    <3>5. Heading("S", 0) = "S" /\ "S" \in Edges /\ {0, 3, 0, 3} \subseteq 0..3 /\ (0 + 0 + 3 - 3) % 4 = 0
      BY HeadingIs DEF Edges
    <3>6. Legs("W", "S", "S", n, t, j, i, 3, t - 1, 0, n - 1, 0,
               t - 2, n - 1, n - 1, 3, ((t - 1) % 6) - 1, 0)
      BY <3>1, <3>2, <3>3, <3>4, <3>5, Zenon DEF Legs
    <3> QED BY <3>6, CircledWhen, Zenon
  <2>9. Circled("W", "S", n, t, j, i, 3)
    BY <2>7, <2>8
  <2>10. Circled("W", "S", n, t, j, i, TurnsOf(c, "column"))
    BY <2>6, <2>9
  <2> QED BY <2>0, <2>5, <2>10
<1>5. CASE c = "SE"
  <2>0. j = 0 /\ i = n - 1 /\ SouthNorth(c) = "S" /\ WestEast(c) = "E"
    BY <1>5 DEF AtCubeCorner, SouthNorth, WestEast
  <2>1. TurnsOf(c, "row") = 3
    BY <1>5 DEF TurnsOf, RowTurns, ColumnTurns
  <2>2. ASSUME IsEven(t)
        PROVE  Circled("S", "E", n, t, j, i, 3)
    <3>1. ToThe("S", n, t, j, i) = Met(t - 1, n - 1, n - 1, 0)
      BY <1>3, <2>0, <2>2 DEF ToThe, ToTheSouth
    <3>2. ToThe("E", n, t, j, i) = Met(t + 1, 0, 0, 0)
      BY <1>3, <2>0, <2>2 DEF ToThe, ToTheEast
    <3>3. ToThe("E", n, (t - 1) % 6, n - 1, n - 1) = Met(((t - 1) % 6) + 2, 0, 0, 1)
      BY <1>1, <1>3, <2>2 DEF ToThe, ToTheEast
    <3>4. (((t - 1) % 6) + 2) % 6 = (t + 1) % 6
      BY <1>2
    <3>5. Heading("E", 0) = "E" /\ "E" \in Edges /\ {0, 0, 1, 3} \subseteq 0..3 /\ (0 + 1 + 3 - 0) % 4 = 0
      BY HeadingIs DEF Edges
    <3>6. Legs("S", "E", "E", n, t, j, i, 3, t - 1, n - 1, n - 1, 0,
               t + 1, 0, 0, 0, ((t - 1) % 6) + 2, 1)
      BY <3>1, <3>2, <3>3, <3>4, <3>5, Zenon DEF Legs
    <3> QED BY <3>6, CircledWhen, Zenon
  <2>3. ASSUME ~IsEven(t)
        PROVE  Circled("S", "E", n, t, j, i, 3)
    <3>1. ToThe("S", n, t, j, i) = Met(t - 2, 0, n - 1, 3)
      BY <1>3, <2>0, <2>3 DEF ToThe, ToTheSouth
    <3>2. ToThe("E", n, t, j, i) = Met(t + 2, 0, n - 1, 1)
      BY <1>3, <2>0, <2>3 DEF ToThe, ToTheEast
    <3>3. ToThe("S", n, (t - 2) % 6, 0, n - 1) = Met(((t - 2) % 6) - 2, 0, n - 1, 3)
      BY <1>1, <1>3, <2>3 DEF ToThe, ToTheSouth
    <3>4. (((t - 2) % 6) - 2) % 6 = (t + 2) % 6
      BY <1>2
    <3>5. Heading("E", 3) = "S" /\ "S" \in Edges /\ {3, 1, 3, 3} \subseteq 0..3 /\ (3 + 3 + 3 - 1) % 4 = 0
      BY HeadingIs DEF Edges
    <3>6. Legs("S", "E", "S", n, t, j, i, 3, t - 2, 0, n - 1, 3,
               t + 2, 0, n - 1, 1, ((t - 2) % 6) - 2, 3)
      BY <3>1, <3>2, <3>3, <3>4, <3>5, Zenon DEF Legs
    <3> QED BY <3>6, CircledWhen, Zenon
  <2>4. Circled("S", "E", n, t, j, i, 3)
    BY <2>2, <2>3
  <2>5. Circled("S", "E", n, t, j, i, TurnsOf(c, "row"))
    BY <2>1, <2>4
  <2>6. TurnsOf(c, "column") = 1
    BY <1>5 DEF TurnsOf, RowTurns, ColumnTurns
  <2>7. ASSUME IsEven(t)
        PROVE  Circled("E", "S", n, t, j, i, 1)
    <3>1. ToThe("E", n, t, j, i) = Met(t + 1, 0, 0, 0)
      BY <1>3, <2>0, <2>7 DEF ToThe, ToTheEast
    <3>2. ToThe("S", n, t, j, i) = Met(t - 1, n - 1, n - 1, 0)
      BY <1>3, <2>0, <2>7 DEF ToThe, ToTheSouth
    <3>3. ToThe("S", n, (t + 1) % 6, 0, 0) = Met(((t + 1) % 6) - 2, n - 1, n - 1, 3)
      BY <1>1, <1>3, <2>7 DEF ToThe, ToTheSouth
    <3>4. (((t + 1) % 6) - 2) % 6 = (t - 1) % 6
      BY <1>2
    <3>5. Heading("S", 0) = "S" /\ "S" \in Edges /\ {0, 0, 3, 1} \subseteq 0..3 /\ (0 + 3 + 1 - 0) % 4 = 0
      BY HeadingIs DEF Edges
    <3>6. Legs("E", "S", "S", n, t, j, i, 1, t + 1, 0, 0, 0,
               t - 1, n - 1, n - 1, 0, ((t + 1) % 6) - 2, 3)
      BY <3>1, <3>2, <3>3, <3>4, <3>5, Zenon DEF Legs
    <3> QED BY <3>6, CircledWhen, Zenon
  <2>8. ASSUME ~IsEven(t)
        PROVE  Circled("E", "S", n, t, j, i, 1)
    <3>1. ToThe("E", n, t, j, i) = Met(t + 2, 0, n - 1, 1)
      BY <1>3, <2>0, <2>8 DEF ToThe, ToTheEast
    <3>2. ToThe("S", n, t, j, i) = Met(t - 2, 0, n - 1, 3)
      BY <1>3, <2>0, <2>8 DEF ToThe, ToTheSouth
    <3>3. ToThe("E", n, (t + 2) % 6, 0, n - 1) = Met(((t + 2) % 6) + 2, 0, n - 1, 1)
      BY <1>1, <1>3, <2>8 DEF ToThe, ToTheEast
    <3>4. (((t + 2) % 6) + 2) % 6 = (t - 2) % 6
      BY <1>2
    <3>5. Heading("S", 1) = "E" /\ "E" \in Edges /\ {1, 3, 1, 1} \subseteq 0..3 /\ (1 + 1 + 1 - 3) % 4 = 0
      BY HeadingIs DEF Edges
    <3>6. Legs("E", "S", "E", n, t, j, i, 1, t + 2, 0, n - 1, 1,
               t - 2, 0, n - 1, 3, ((t + 2) % 6) + 2, 1)
      BY <3>1, <3>2, <3>3, <3>4, <3>5, Zenon DEF Legs
    <3> QED BY <3>6, CircledWhen, Zenon
  <2>9. Circled("E", "S", n, t, j, i, 1)
    BY <2>7, <2>8
  <2>10. Circled("E", "S", n, t, j, i, TurnsOf(c, "column"))
    BY <2>6, <2>9
  <2> QED BY <2>0, <2>5, <2>10
<1>6. CASE c = "NW"
  <2>0. j = n - 1 /\ i = 0 /\ SouthNorth(c) = "N" /\ WestEast(c) = "W"
    BY <1>6 DEF AtCubeCorner, SouthNorth, WestEast
  <2>1. TurnsOf(c, "row") = 3
    BY <1>6 DEF TurnsOf, RowTurns, ColumnTurns
  <2>2. ASSUME IsEven(t)
        PROVE  Circled("N", "W", n, t, j, i, 3)
    <3>1. ToThe("N", n, t, j, i) = Met(t + 2, n - 1, 0, 3)
      BY <1>3, <2>0, <2>2 DEF ToThe, ToTheNorth
    <3>2. ToThe("W", n, t, j, i) = Met(t - 2, n - 1, 0, 1)
      BY <1>3, <2>0, <2>2 DEF ToThe, ToTheWest
    <3>3. ToThe("N", n, (t + 2) % 6, n - 1, 0) = Met(((t + 2) % 6) + 2, n - 1, 0, 3)
      BY <1>1, <1>3, <2>2 DEF ToThe, ToTheNorth
    <3>4. (((t + 2) % 6) + 2) % 6 = (t - 2) % 6
      BY <1>2
    <3>5. Heading("W", 3) = "N" /\ "N" \in Edges /\ {3, 1, 3, 3} \subseteq 0..3 /\ (3 + 3 + 3 - 1) % 4 = 0
      BY HeadingIs DEF Edges
    <3>6. Legs("N", "W", "N", n, t, j, i, 3, t + 2, n - 1, 0, 3,
               t - 2, n - 1, 0, 1, ((t + 2) % 6) + 2, 3)
      BY <3>1, <3>2, <3>3, <3>4, <3>5, Zenon DEF Legs
    <3> QED BY <3>6, CircledWhen, Zenon
  <2>3. ASSUME ~IsEven(t)
        PROVE  Circled("N", "W", n, t, j, i, 3)
    <3>1. ToThe("N", n, t, j, i) = Met(t + 1, 0, 0, 0)
      BY <1>3, <2>0, <2>3 DEF ToThe, ToTheNorth
    <3>2. ToThe("W", n, t, j, i) = Met(t - 1, n - 1, n - 1, 0)
      BY <1>3, <2>0, <2>3 DEF ToThe, ToTheWest
    <3>3. ToThe("W", n, (t + 1) % 6, 0, 0) = Met(((t + 1) % 6) - 2, n - 1, n - 1, 1)
      BY <1>1, <1>3, <2>3 DEF ToThe, ToTheWest
    <3>4. (((t + 1) % 6) - 2) % 6 = (t - 1) % 6
      BY <1>2
    <3>5. Heading("W", 0) = "W" /\ "W" \in Edges /\ {0, 0, 1, 3} \subseteq 0..3 /\ (0 + 1 + 3 - 0) % 4 = 0
      BY HeadingIs DEF Edges
    <3>6. Legs("N", "W", "W", n, t, j, i, 3, t + 1, 0, 0, 0,
               t - 1, n - 1, n - 1, 0, ((t + 1) % 6) - 2, 1)
      BY <3>1, <3>2, <3>3, <3>4, <3>5, Zenon DEF Legs
    <3> QED BY <3>6, CircledWhen, Zenon
  <2>4. Circled("N", "W", n, t, j, i, 3)
    BY <2>2, <2>3
  <2>5. Circled("N", "W", n, t, j, i, TurnsOf(c, "row"))
    BY <2>1, <2>4
  <2>6. TurnsOf(c, "column") = 1
    BY <1>6 DEF TurnsOf, RowTurns, ColumnTurns
  <2>7. ASSUME IsEven(t)
        PROVE  Circled("W", "N", n, t, j, i, 1)
    <3>1. ToThe("W", n, t, j, i) = Met(t - 2, n - 1, 0, 1)
      BY <1>3, <2>0, <2>7 DEF ToThe, ToTheWest
    <3>2. ToThe("N", n, t, j, i) = Met(t + 2, n - 1, 0, 3)
      BY <1>3, <2>0, <2>7 DEF ToThe, ToTheNorth
    <3>3. ToThe("W", n, (t - 2) % 6, n - 1, 0) = Met(((t - 2) % 6) - 2, n - 1, 0, 1)
      BY <1>1, <1>3, <2>7 DEF ToThe, ToTheWest
    <3>4. (((t - 2) % 6) - 2) % 6 = (t + 2) % 6
      BY <1>2
    <3>5. Heading("N", 1) = "W" /\ "W" \in Edges /\ {1, 3, 1, 1} \subseteq 0..3 /\ (1 + 1 + 1 - 3) % 4 = 0
      BY HeadingIs DEF Edges
    <3>6. Legs("W", "N", "W", n, t, j, i, 1, t - 2, n - 1, 0, 1,
               t + 2, n - 1, 0, 3, ((t - 2) % 6) - 2, 1)
      BY <3>1, <3>2, <3>3, <3>4, <3>5, Zenon DEF Legs
    <3> QED BY <3>6, CircledWhen, Zenon
  <2>8. ASSUME ~IsEven(t)
        PROVE  Circled("W", "N", n, t, j, i, 1)
    <3>1. ToThe("W", n, t, j, i) = Met(t - 1, n - 1, n - 1, 0)
      BY <1>3, <2>0, <2>8 DEF ToThe, ToTheWest
    <3>2. ToThe("N", n, t, j, i) = Met(t + 1, 0, 0, 0)
      BY <1>3, <2>0, <2>8 DEF ToThe, ToTheNorth
    <3>3. ToThe("N", n, (t - 1) % 6, n - 1, n - 1) = Met(((t - 1) % 6) + 2, 0, 0, 3)
      BY <1>1, <1>3, <2>8 DEF ToThe, ToTheNorth
    <3>4. (((t - 1) % 6) + 2) % 6 = (t + 1) % 6
      BY <1>2
    <3>5. Heading("N", 0) = "N" /\ "N" \in Edges /\ {0, 0, 3, 1} \subseteq 0..3 /\ (0 + 3 + 1 - 0) % 4 = 0
      BY HeadingIs DEF Edges
    <3>6. Legs("W", "N", "N", n, t, j, i, 1, t - 1, n - 1, n - 1, 0,
               t + 1, 0, 0, 0, ((t - 1) % 6) + 2, 3)
      BY <3>1, <3>2, <3>3, <3>4, <3>5, Zenon DEF Legs
    <3> QED BY <3>6, CircledWhen, Zenon
  <2>9. Circled("W", "N", n, t, j, i, 1)
    BY <2>7, <2>8
  <2>10. Circled("W", "N", n, t, j, i, TurnsOf(c, "column"))
    BY <2>6, <2>9
  <2> QED BY <2>0, <2>5, <2>10
<1>7. CASE c = "NE"
  <2>0. j = n - 1 /\ i = n - 1 /\ SouthNorth(c) = "N" /\ WestEast(c) = "E"
    BY <1>7 DEF AtCubeCorner, SouthNorth, WestEast
  <2>1. TurnsOf(c, "row") = 1
    BY <1>7 DEF TurnsOf, RowTurns, ColumnTurns
  <2>2. ASSUME IsEven(t)
        PROVE  Circled("N", "E", n, t, j, i, 1)
    <3>1. ToThe("N", n, t, j, i) = Met(t + 2, 0, 0, 3)
      BY <1>3, <2>0, <2>2 DEF ToThe, ToTheNorth
    <3>2. ToThe("E", n, t, j, i) = Met(t + 1, n - 1, 0, 0)
      BY <1>3, <2>0, <2>2 DEF ToThe, ToTheEast
    <3>3. ToThe("S", n, (t + 2) % 6, 0, 0) = Met(((t + 2) % 6) - 1, n - 1, 0, 0)
      BY <1>1, <1>3, <2>2 DEF ToThe, ToTheSouth
    <3>4. (((t + 2) % 6) - 1) % 6 = (t + 1) % 6
      BY <1>2
    <3>5. Heading("E", 3) = "S" /\ "S" \in Edges /\ {3, 0, 0, 1} \subseteq 0..3 /\ (3 + 0 + 1 - 0) % 4 = 0
      BY HeadingIs DEF Edges
    <3>6. Legs("N", "E", "S", n, t, j, i, 1, t + 2, 0, 0, 3,
               t + 1, n - 1, 0, 0, ((t + 2) % 6) - 1, 0)
      BY <3>1, <3>2, <3>3, <3>4, <3>5, Zenon DEF Legs
    <3> QED BY <3>6, CircledWhen, Zenon
  <2>3. ASSUME ~IsEven(t)
        PROVE  Circled("N", "E", n, t, j, i, 1)
    <3>1. ToThe("N", n, t, j, i) = Met(t + 1, 0, n - 1, 0)
      BY <1>3, <2>0, <2>3 DEF ToThe, ToTheNorth
    <3>2. ToThe("E", n, t, j, i) = Met(t + 2, 0, 0, 1)
      BY <1>3, <2>0, <2>3 DEF ToThe, ToTheEast
    <3>3. ToThe("E", n, (t + 1) % 6, 0, n - 1) = Met(((t + 1) % 6) + 1, 0, 0, 0)
      BY <1>1, <1>3, <2>3 DEF ToThe, ToTheEast
    <3>4. (((t + 1) % 6) + 1) % 6 = (t + 2) % 6
      BY <1>2
    <3>5. Heading("E", 0) = "E" /\ "E" \in Edges /\ {0, 1, 0, 1} \subseteq 0..3 /\ (0 + 0 + 1 - 1) % 4 = 0
      BY HeadingIs DEF Edges
    <3>6. Legs("N", "E", "E", n, t, j, i, 1, t + 1, 0, n - 1, 0,
               t + 2, 0, 0, 1, ((t + 1) % 6) + 1, 0)
      BY <3>1, <3>2, <3>3, <3>4, <3>5, Zenon DEF Legs
    <3> QED BY <3>6, CircledWhen, Zenon
  <2>4. Circled("N", "E", n, t, j, i, 1)
    BY <2>2, <2>3
  <2>5. Circled("N", "E", n, t, j, i, TurnsOf(c, "row"))
    BY <2>1, <2>4
  <2>6. TurnsOf(c, "column") = 3
    BY <1>7 DEF TurnsOf, RowTurns, ColumnTurns
  <2>7. ASSUME IsEven(t)
        PROVE  Circled("E", "N", n, t, j, i, 3)
    <3>1. ToThe("E", n, t, j, i) = Met(t + 1, n - 1, 0, 0)
      BY <1>3, <2>0, <2>7 DEF ToThe, ToTheEast
    <3>2. ToThe("N", n, t, j, i) = Met(t + 2, 0, 0, 3)
      BY <1>3, <2>0, <2>7 DEF ToThe, ToTheNorth
    <3>3. ToThe("N", n, (t + 1) % 6, n - 1, 0) = Met(((t + 1) % 6) + 1, 0, 0, 0)
      BY <1>1, <1>3, <2>7 DEF ToThe, ToTheNorth
    <3>4. (((t + 1) % 6) + 1) % 6 = (t + 2) % 6
      BY <1>2
    <3>5. Heading("N", 0) = "N" /\ "N" \in Edges /\ {0, 3, 0, 3} \subseteq 0..3 /\ (0 + 0 + 3 - 3) % 4 = 0
      BY HeadingIs DEF Edges
    <3>6. Legs("E", "N", "N", n, t, j, i, 3, t + 1, n - 1, 0, 0,
               t + 2, 0, 0, 3, ((t + 1) % 6) + 1, 0)
      BY <3>1, <3>2, <3>3, <3>4, <3>5, Zenon DEF Legs
    <3> QED BY <3>6, CircledWhen, Zenon
  <2>8. ASSUME ~IsEven(t)
        PROVE  Circled("E", "N", n, t, j, i, 3)
    <3>1. ToThe("E", n, t, j, i) = Met(t + 2, 0, 0, 1)
      BY <1>3, <2>0, <2>8 DEF ToThe, ToTheEast
    <3>2. ToThe("N", n, t, j, i) = Met(t + 1, 0, n - 1, 0)
      BY <1>3, <2>0, <2>8 DEF ToThe, ToTheNorth
    <3>3. ToThe("W", n, (t + 2) % 6, 0, 0) = Met(((t + 2) % 6) - 1, 0, n - 1, 0)
      BY <1>1, <1>3, <2>8 DEF ToThe, ToTheWest
    <3>4. (((t + 2) % 6) - 1) % 6 = (t + 1) % 6
      BY <1>2
    <3>5. Heading("N", 1) = "W" /\ "W" \in Edges /\ {1, 0, 0, 3} \subseteq 0..3 /\ (1 + 0 + 3 - 0) % 4 = 0
      BY HeadingIs DEF Edges
    <3>6. Legs("E", "N", "W", n, t, j, i, 3, t + 2, 0, 0, 1,
               t + 1, 0, n - 1, 0, ((t + 2) % 6) - 1, 0)
      BY <3>1, <3>2, <3>3, <3>4, <3>5, Zenon DEF Legs
    <3> QED BY <3>6, CircledWhen, Zenon
  <2>9. Circled("E", "N", n, t, j, i, 3)
    BY <2>7, <2>8
  <2>10. Circled("E", "N", n, t, j, i, TurnsOf(c, "column"))
    BY <2>6, <2>9
  <2> QED BY <2>0, <2>5, <2>10
<1> QED BY <1>4, <1>5, <1>6, <1>7 DEF CornersOfTile

(* The turns the boundaries of the partitioner give. *)
LEMMA TurnsAre ==
  ASSUME WalkerOK, NEW c \in TouchedCorners(rank)
  PROVE  /\ TurnsBehind(c, "row") = TurnsOf(c, "row")
         /\ TurnsBehind(c, "column") = TurnsOf(c, "column")
<1> DEFINE n == size
           l == Layout
<1>1. IsSquare(l, n)
  BY LayoutOfWalker
<1>2. PICK w \in Places(n) : rank = RankOf(l, w)
  BY <1>1, RankOfSomePlace DEF WalkerOK
<1> DEFINE t == w[1]
           j == w[2]
           i == w[3]
<1>3. n \in Nat \ {0} /\ t \in 0..5 /\ j \in 0..(n - 1) /\ i \in 0..(n - 1) /\ w = <<t, j, i>>
  BY <1>1, SquareIs DEF Places
<1>4. c \in CornersOfTile /\ c \in Types
  BY DEF TouchedCorners, CornersOfTile, Types, Corners
<1>5. AtCubeCorner(c, n, j, i)
  <2>1. BoundaryAt(c, l, w) = NoBoundary
    BY <1>2 DEF TouchedCorners, BoundaryAt
  <2>2. ~RealAt(c, n, w)
    BY <1>1, <1>4, <2>1, BoundaryAtIs
  <2> QED BY <2>2 DEF RealAt
<1> HIDE DEF l
<1>6. ASSUME NEW e1 \in Edges, NEW e2 \in Edges, NEW k \in {1, 3},
             Circled(e1, e2, n, t, j, i, k)
      PROVE  TurnsOver(e1, e2) = k
  <2> DEFINE u      == NextAt(e1, n, w)
             beside == BoundaryAt(e1, l, w)
             direct == BoundaryAt(e2, l, w)
             head   == Heading(e2, beside.rotations)
             behind == BoundaryAt(head, l, u)
  <2>1. \A e \in Edges, v \in Places(n) :
          /\ NextAt(e, n, v) \in Places(n)
          /\ BoundaryAt(e, l, v).to = RankOf(l, NextAt(e, n, v))
          /\ BoundaryAt(e, l, v).rotations = ToThe(e, n, v[1], v[2], v[3]).rotations
    <3> TAKE e \in Edges, v \in Places(n)
    <3>1. e \in Types /\ RealAt(e, n, v)
      BY DEF RealAt, AtCubeCorner, Types, Edges
    <3> QED BY <1>1, <3>1, BoundaryAtIs DEF Boundary
  <2>2. u \in Places(n) /\ beside.to = RankOf(l, u)
        /\ beside.rotations = ToThe(e1, n, t, j, i).rotations
        /\ direct.rotations = ToThe(e2, n, t, j, i).rotations
    BY <2>1
  <2>3. /\ head \in Edges
        /\ NextAt(head, n, u) = NextAt(e2, n, w)
        /\ (direct.rotations - beside.rotations - ToThe(head, n, u[1], u[2], u[3]).rotations) % 4 = k
    BY <1>6, <2>2 DEF Circled, NextAt
  <2>4. /\ behind.to = direct.to
        /\ behind.rotations = ToThe(head, n, u[1], u[2], u[3]).rotations
    BY <2>1, <2>2, <2>3
  <2>5. TurnsBetween(direct, beside, behind) = k
    BY <2>3, <2>4 DEF TurnsBetween
  <2>6. behind = Behind(beside, e2)
    BY <2>2 DEF Behind, BoundaryAt, l
  <2>7. TurnsOver(e1, e2) = TurnsBetween(direct, beside, Behind(beside, e2))
    BY <1>2 DEF TurnsOver, BoundaryAt, l
  <2> QED BY <2>5, <2>6, <2>7
<1> HIDE DEF n, t, j, i
<1>7. /\ Circled(SouthNorth(c), WestEast(c), n, t, j, i, TurnsOf(c, "row"))
      /\ Circled(WestEast(c), SouthNorth(c), n, t, j, i, TurnsOf(c, "column"))
  BY <1>3, <1>4, <1>5, AroundTheCorner
<1>8. /\ SouthNorth(c) \in Edges /\ WestEast(c) \in Edges
      /\ TurnsOf(c, "row") \in {1, 3} /\ TurnsOf(c, "column") \in {1, 3}
  BY DEF SouthNorth, WestEast, TurnsOf, RowTurns, ColumnTurns, Edges
<1>9. /\ TurnsOver(SouthNorth(c), WestEast(c)) = TurnsOf(c, "row")
      /\ TurnsOver(WestEast(c), SouthNorth(c)) = TurnsOf(c, "column")
  BY <1>6, <1>7, <1>8
<1> QED BY <1>9 DEF TurnsBehind

LEMMA AlongRowsOrColumns ==
  ASSUME NEW c, NEW f, f \in Fills
  PROVE  f.along \in {"row", "column"}
  BY DEF Fills, CopyFills, FillCornersDelpPtW, FillCornersUtmpUa, FillCornersVtmpVa, VectorFills, Fill

LEMMA CornersFit ==
  ASSUME WalkerOK
  PROVE  CornersContinueTheCube
<1>1. TouchedCorners(rank) \subseteq CornersOfTile
  BY DEF TouchedCorners
<1>2. ASSUME NEW c \in TouchedCorners(rank), NEW f \in Fills
      PROVE  \E turns \in {1, 3} :
               /\ turns = TurnsBehind(c, f.along)
               /\ Cardinality(f.table[c]) = f.deep[1] * f.deep[2]
               /\ {FromCorner(c, e, f.to) : e \in f.table[c]} = Beyond(c, f.to, f.deep)
               /\ \A e \in f.table[c] :
                    FromCorner(c, <<e[1] + e[3], e[2] + e[4]>>, f.from)
                      = TurnedClockwise(FromCorner(c, e, f.to), turns)
               /\ f.sign[c] = IF f.component = "none" THEN 1
                              ELSE IF (f.component = "x") = (turns = 1) THEN -1 ELSE 1
  <2>1. FillOK(f, c)
    BY <1>1, FillsAreOK
  <2>2. TurnsBehind(c, f.along) = TurnsOf(c, f.along)
    BY TurnsAre, AlongRowsOrColumns
  <2>3. TurnsOf(c, f.along) \in {1, 3}
    BY DEF TurnsOf, RowTurns, ColumnTurns
  <2>4. Continues(f.table[c], c, f.to, f.deep, TurnsOf(c, f.along))
    BY <1>1, <2>1, <2>3, FilledContinues DEF FillOK
  <2>5. f.from = Swapped(f.to) /\ Signed(f.sign, f.component, f.along, c)
    BY <2>1 DEF FillOK
  <2> WITNESS TurnsOf(c, f.along) \in {1, 3}
  <2> QED BY <2>2, <2>4, <2>5 DEF Continues, Signed
<1>3. ASSUME NEW c \in TouchedCorners(rank), NEW x \in CornerFill[c]
      PROVE  {<<x[1][1] + o[1], x[1][2] + o[2]>> : o \in x[2]} = {y[1] : y \in CornerFill[c]}
  <2> DEFINE ew == IF WestEast(c) = "E" THEN 1 ELSE -1
             sn == IF SouthNorth(c) = "N" THEN 1 ELSE -1
  <2>1. CornerFill[c] = Means(ew, sn)
    BY <1>1, CornerFillIs
  <2>2. ew \in {-1, 1} /\ sn \in {-1, 1}
    OBVIOUS
  <2> HIDE DEF ew, sn
  <2> QED BY <2>1, <2>2, MeansContinue
<1> QED BY <1>2, <1>3 DEF CornersContinueTheCube

(***************************************************************************)
(* On square layouts of every size, at every corner of the cube a rank     *)
(* touches, each of the hand-written corner fills writes each place of its *)
(* corner once, from the place that the partitioner's boundaries lead to   *)
(* along that row or column, with the sign of that turn; the means of the  *)
(* three cells at a corner are of the same three cells.                    *)
(***************************************************************************)
THEOREM CornersFollowTheCube == WalkSpec => []CornersContinueTheCube
  BY WalkerTypeCorrect, CornersFit, PTL

-----------------------------------------------------------------------------
(***************************************************************************)
(* What a halo exchange does to the data, on a layout of any size: the     *)
(* buffer of a message holds the sender's points one quantity after the    *)
(* other and is unpacked where they were packed; a boundary and the one    *)
(* that answers it face each other, so that the turned values arrive at    *)
(* the halo points that stand for them; and these points are, folded over  *)
(* the edges of the cube, the same points in space.                        *)
(*                                                                         *)
(* First the buffer: arrays laid out one after the other, in either order. *)
(***************************************************************************)

(* The points of an array, in the order of one of its dimensions. *)
LEMMA CellsInOrder ==
  ASSUME NEW a \in Nat, NEW b \in Nat
  PROVE  /\ \A i \in 0..(a - 1), j \in 0..(b - 1) :
              /\ i * b + j \in 0..((a * b) - 1)
              /\ (i * b + j) \div b = i /\ (i * b + j) % b = j
         /\ \A k \in 1..(a * b) : (k - 1) \div b \in 0..(a - 1) /\ (k - 1) % b \in 0..(b - 1)
<1>1. ASSUME NEW i \in 0..(a - 1), NEW j \in 0..(b - 1)
      PROVE  /\ i * b + j \in 0..((a * b) - 1)
             /\ (i * b + j) \div b = i /\ (i * b + j) % b = j
  <2>1. b \in Nat \ {0} /\ i \in Int /\ a \in Int /\ j \in Nat /\ j < b
    OBVIOUS
  <2>2. (i * b + j) \div b = i /\ (i * b + j) % b = j
    BY <2>1, DivModUnique
  <2>3. (i * b) + b <= a * b
    BY <2>1, ProductGrows
  <2>4. i * b \in Nat /\ a * b \in Nat
    OBVIOUS
  <2> QED BY <2>1, <2>2, <2>3, <2>4
<1>2. ASSUME NEW k \in 1..(a * b)
      PROVE  (k - 1) \div b \in 0..(a - 1) /\ (k - 1) % b \in 0..(b - 1)
  <2> DEFINE q == (k - 1) \div b
             r == (k - 1) % b
  <2>1. b # 0
    OBVIOUS
  <2>2. q \in Int /\ r \in Nat /\ r < b /\ k - 1 = (q * b) + r
    BY <2>1, DivMod
  <2>3. a * b \in Int /\ 1 <= k /\ k <= a * b
    OBVIOUS
  <2> HIDE DEF q, r
  <2>4. ~(q < 0)
    <3>1. \A u \in Nat : u * b \in Nat
      OBVIOUS
    <3>2. q < 0 => (-q - 1) \in Nat /\ q * b = -((-q - 1) * b) - b
      BY <2>2
    <3> QED BY <2>2, <2>3, <3>1, <3>2
  <2>5. ~(q >= a)
    <3>1. \A u \in Nat : u * b \in Nat
      OBVIOUS
    <3>2. q >= a => (q - a) \in Nat /\ q * b = (q - a) * b + a * b
      BY <2>2
    <3> QED BY <2>2, <2>3, <3>1, <3>2
  <2> QED BY <2>2, <2>4, <2>5 DEF q, r
<1> QED BY <1>1, <1>2

(* An array has a width and a height. *)
IsArray(view) == view.nx \in Nat /\ view.ny \in Nat

(* Where a value of an array is in the buffer. *)
PlaceOf(view, order, i, j) == 1 + (IF order = "xy" THEN i * view.ny + j ELSE j * view.nx + i)

(* A flattened array, value by value. *)
LEMMA FlattenAt ==
  ASSUME NEW view, IsArray(view), NEW order
  PROVE  /\ Len(Flatten(view, order)) = view.nx * view.ny
         /\ Flatten(view, order) \in Seq({view.at[p] : p \in Indices(view)})
         /\ DOMAIN Flatten(view, order) = 1..(view.nx * view.ny)
         /\ \A i \in 0..(view.nx - 1), j \in 0..(view.ny - 1) :
              /\ PlaceOf(view, order, i, j) \in 1..(view.nx * view.ny)
              /\ Flatten(view, order)[PlaceOf(view, order, i, j)] = view.at[<<i, j>>]
<1> DEFINE a == view.nx
           b == view.ny
           at == view.at
           V == {at[p] : p \in Indices(view)}
           flat == [k \in 1..(a * b) |-> IF order = "xy" THEN at[<<(k - 1) \div b, (k - 1) % b>>]
                                         ELSE at[<<(k - 1) % a, (k - 1) \div a>>]]
<1>1. a \in Nat /\ b \in Nat /\ a * b \in Nat /\ a * b = b * a
  BY DEF IsArray
<1>2. Flatten(view, order) = flat
  BY DEF Flatten
<1>3. Indices(view) = (0..(a - 1)) \X (0..(b - 1))
  BY DEF Indices
<1> HIDE DEF a, b, at
<1>4. \A k \in 1..(a * b) : (k - 1) \div b \in 0..(a - 1) /\ (k - 1) % b \in 0..(b - 1)
  BY <1>1, CellsInOrder
<1>5. \A k \in 1..(a * b) : (k - 1) \div a \in 0..(b - 1) /\ (k - 1) % a \in 0..(a - 1)
  BY <1>1, CellsInOrder
<1>6. \A k \in 1..(a * b) : flat[k] \in V
  BY <1>3, <1>4, <1>5
<1>7. flat \in [1..(a * b) -> V]
  BY <1>6
<1> HIDE DEF V
<1> HIDE DEF flat
<1>8. flat \in Seq(V) /\ Len(flat) = a * b
  <2>1. flat \in Seq(V)
    BY <1>1, <1>7, SeqDef
  <2>2. DOMAIN flat = 1..(a * b)
    BY <1>7
  <2> QED BY <1>1, <2>1, <2>2, LenProperties
<1> USE DEF flat
<1>9. ASSUME NEW i \in 0..(a - 1), NEW j \in 0..(b - 1)
      PROVE  LET k == 1 + (IF order = "xy" THEN i * b + j ELSE j * a + i)
             IN  k \in 1..(a * b) /\ flat[k] = at[<<i, j>>]
  <2>1. i * b + j \in 0..((a * b) - 1) /\ (i * b + j) \div b = i /\ (i * b + j) % b = j
    BY <1>1, CellsInOrder
  <2>2. j * a + i \in 0..((a * b) - 1) /\ (j * a + i) \div a = j /\ (j * a + i) % a = i
    BY <1>1, CellsInOrder
  <2>3. CASE order = "xy"
    <3> DEFINE k == 1 + (i * b + j)
    <3>1. k \in 1..(a * b) /\ k - 1 = i * b + j
      BY <1>1, <2>1
    <3> HIDE DEF k
    <3>2. flat[k] = at[<<i, j>>]
      BY <2>1, <2>3, <3>1
    <3> QED BY <2>3, <3>1, <3>2 DEF k
  <2>4. CASE order # "xy"
    <3> DEFINE k == 1 + (j * a + i)
    <3>1. k \in 1..(a * b) /\ k - 1 = j * a + i
      BY <1>1, <2>2
    <3> HIDE DEF k
    <3>2. flat[k] = at[<<i, j>>]
      BY <2>2, <2>4, <3>1
    <3> QED BY <2>4, <3>1, <3>2 DEF k
  <2> QED BY <2>3, <2>4
<1> QED BY <1>2, <1>7, <1>8, <1>9 DEF a, b, at, V, PlaceOf

(* Changing the sign before or after. *)
LEMMA MinusInOrder ==
  ASSUME NEW view, IsArray(view), view = Array(view.nx, view.ny, view.at), NEW order
  PROVE  /\ IsArray(MinusView(view)) /\ MinusView(view).nx = view.nx /\ MinusView(view).ny = view.ny
         /\ \A p \in Indices(view) : MinusView(view).at[p] = Minus(view.at[p])
         /\ MinusSeq(Flatten(view, order)) = Flatten(MinusView(view), order)
<1> DEFINE a == view.nx
           b == view.ny
           at == view.at
           minus == [p \in Indices(view) |-> Minus(view.at[p])]
<1>1. a \in Nat /\ b \in Nat /\ a * b \in Nat /\ a * b = b * a
  BY DEF IsArray
<1>2. MinusView(view) = Array(a, b, minus)
  BY DEF MinusView, Array
<1>3. MinusView(view).nx = a /\ MinusView(view).ny = b /\ MinusView(view).at = minus
  BY <1>2 DEF Array
<1>4. Indices(view) = (0..(a - 1)) \X (0..(b - 1))
  BY DEF Indices
<1>5. MinusSeq(Flatten(view, order))
        = [k \in 1..(a * b) |-> Minus(IF order = "xy" THEN at[<<(k - 1) \div b, (k - 1) % b>>]
                                      ELSE at[<<(k - 1) % a, (k - 1) \div a>>])]
  BY DEF MinusSeq, Flatten
<1>6. Flatten(MinusView(view), order)
        = [k \in 1..(a * b) |-> IF order = "xy" THEN minus[<<(k - 1) \div b, (k - 1) % b>>]
                                ELSE minus[<<(k - 1) % a, (k - 1) \div a>>]]
  BY <1>3 DEF Flatten
<1>7. \A i \in 0..(a - 1), j \in 0..(b - 1) : minus[<<i, j>>] = Minus(at[<<i, j>>])
  BY <1>4
<1> HIDE DEF a, b, at, minus
<1>8. \A k \in 1..(a * b) : (k - 1) \div b \in 0..(a - 1) /\ (k - 1) % b \in 0..(b - 1)
  BY <1>1, CellsInOrder
<1>9. \A k \in 1..(a * b) : (k - 1) \div a \in 0..(b - 1) /\ (k - 1) % a \in 0..(a - 1)
  BY <1>1, CellsInOrder
<1>10. MinusSeq(Flatten(view, order)) = Flatten(MinusView(view), order)
  BY <1>5, <1>6, <1>7, <1>8, <1>9
<1> QED BY <1>1, <1>3, <1>10 DEF IsArray, minus, a, b

(* One buffer after another. *)
LEMMA Concatenated ==
  ASSUME NEW S, NEW T, NEW s \in Seq(S), NEW t \in Seq(T)
  PROVE  /\ s \o t \in Seq(S \cup T) /\ Len(s) \in Nat /\ Len(t) \in Nat
         /\ Len(s \o t) = Len(s) + Len(t)
         /\ \A k \in 1..Len(s) : (s \o t)[k] = s[k]
         /\ \A k \in 1..Len(t) : (s \o t)[Len(s) + k] = t[k]
<1>1. s \in Seq(S \cup T) /\ t \in Seq(S \cup T)
  BY SeqMonotonic
<1>2. /\ s \o t \in Seq(S \cup T)
      /\ Len(s \o t) = Len(s) + Len(t)
      /\ \A i \in 1..(Len(s) + Len(t)) : (s \o t)[i] = IF i <= Len(s) THEN s[i] ELSE t[i - Len(s)]
  BY <1>1, ConcatProperties
<1>3. Len(s) \in Nat /\ Len(t) \in Nat
  BY LenProperties
<1>4. ASSUME NEW k \in 1..Len(t) PROVE (s \o t)[Len(s) + k] = t[k]
  <2>1. /\ Len(s) + k \in 1..(Len(s) + Len(t)) /\ ~(Len(s) + k <= Len(s)) /\ Len(s) + k - Len(s) = k
    BY <1>3
  <2> QED BY <1>2, <2>1
<1> QED BY <1>2, <1>3, <1>4

(* The buffer of three quantities. *)
LEMMA ThreePieces ==
  ASSUME NEW s, s = <<s[1], s[2], s[3]>>
  PROVE  FlattenSeq(s) = (s[1] \o s[2]) \o s[3]
<1> DEFINE G == [i \in 1..3 |-> CASE i = 1 -> s[1] [] i = 2 -> s[1] \o s[2]
                                  [] i = 3 -> (s[1] \o s[2]) \o s[3]]
           F == CHOOSE flatten : flatten = [i \in 1..3 |-> IF i = 1 THEN s[i] ELSE flatten[i-1] \o s[i]]
<1>1. Len(s) = 3
  OBVIOUS
<1>2. G = [i \in 1..3 |-> IF i = 1 THEN s[i] ELSE G[i-1] \o s[i]]
  OBVIOUS
<1>3. FlattenSeq(s) = F[3]
  BY <1>1 DEF FlattenSeq
<1> HIDE DEF G
<1>4. \E flatten : flatten = [i \in 1..3 |-> IF i = 1 THEN s[i] ELSE flatten[i-1] \o s[i]]
  BY <1>2
<1>5. F = [i \in 1..3 |-> IF i = 1 THEN s[i] ELSE F[i-1] \o s[i]]
  BY <1>4, Zenon
<1> HIDE DEF F
<1>6. F[3] = F[2] \o s[3] /\ F[2] = F[1] \o s[2] /\ F[1] = s[1]
  <2>1. \A i \in 1..3 : F[i] = IF i = 1 THEN s[i] ELSE F[i-1] \o s[i]
    BY <1>5, Zenon
  <2>2. 3 \in 1..3 /\ 2 \in 1..3 /\ 1 \in 1..3 /\ 3 - 1 = 2 /\ 2 - 1 = 1
    OBVIOUS
  <2> QED BY <2>1, <2>2
<1> QED BY <1>3, <1>6

(* Where the parts of the first three quantities begin. *)
LEMMA OffsetIs ==
  ASSUME NEW fields, NEW n, NEW type, NEW points,
         \A q \in 1..2 : SlicesSize(HaloSlices(fields[q], n, type, points)) \in Int
  PROVE  /\ Offset(fields, 1, n, type, points) = 0
         /\ Offset(fields, 2, n, type, points) = SlicesSize(HaloSlices(fields[1], n, type, points))
         /\ Offset(fields, 3, n, type, points) = SlicesSize(HaloSlices(fields[1], n, type, points))
                                                  + SlicesSize(HaloSlices(fields[2], n, type, points))
<1> DEFINE Z(k) == SlicesSize(HaloSlices(fields[k], n, type, points))
           Sums(S, g) == g = [s \in SUBSET S |-> IF s = {} THEN 0
                                ELSE Z(CHOOSE x \in s : TRUE) + g[s \ {CHOOSE x \in s : TRUE}]]
           F(S) == CHOOSE g : Sums(S, g)
<1>1. ASSUME NEW q \in 1..3
      PROVE  Offset(fields, q, n, type, points) = F(1..(q - 1))[1..(q - 1)]
  BY DEF Offset, MapThenSumSet, MapThenFoldSet
<1>2. Z(1) \in Int /\ Z(2) \in Int
  OBVIOUS
<1> HIDE DEF Z
<1> DEFINE Up(s) == (IF 1 \in s THEN Z(1) ELSE 0) + (IF 2 \in s THEN Z(2) ELSE 0)
<1>3. ASSUME NEW S, S \subseteq {1, 2} PROVE Sums(S, F(S))
  <2> DEFINE G == [s \in SUBSET S |-> Up(s)]
  <2>1. ASSUME NEW s \in SUBSET S
        PROVE  G[s] = IF s = {} THEN 0 ELSE Z(CHOOSE x \in s : TRUE) + G[s \ {CHOOSE x \in s : TRUE}]
    <3> DEFINE x == CHOOSE y \in s : TRUE
    <3>1. CASE s = {}
      BY <3>1
    <3>2. CASE s # {}
      <4>1. x \in s
        BY <3>2
      <4>2. x \in {1, 2} /\ s \subseteq {1, 2}
        BY <1>3, <4>1
      <4>3. G[s] = Up(s) /\ G[s \ {x}] = Up(s \ {x})
        OBVIOUS
      <4> HIDE DEF x, G
      <4>4. G[s] = Z(x) + G[s \ {x}]
        BY <1>2, <4>1, <4>2, <4>3
      <4> QED BY <3>2, <4>4 DEF x
    <3> QED BY <3>1, <3>2
  <2>2. Sums(S, G)
    BY <2>1
  <2> HIDE DEF G, Sums
  <2> QED BY <2>2
<1>4. ASSUME NEW S, S \subseteq {1, 2} PROVE F(S)[S] = Up(S)
  <2> DEFINE g == F(S)
  <2>1. Sums(S, g)
    BY <1>3, <1>4
  <2> HIDE DEF g
  <2>2. \A s \in SUBSET S : g[s] = IF s = {} THEN 0 ELSE Z(CHOOSE x \in s : TRUE) + g[s \ {CHOOSE x \in s : TRUE}]
    BY <2>1
  <2>3. g[{}] = 0
    BY <2>2
  <2>4. ASSUME NEW k \in S, {k} \in SUBSET S PROVE g[{k}] = Z(k)
    <3>1. (CHOOSE x \in {k} : TRUE) = k /\ {k} \ {k} = {} /\ {k} # {}
      OBVIOUS
    <3>2. g[{k}] = Z(CHOOSE x \in {k} : TRUE) + g[{k} \ {CHOOSE x \in {k} : TRUE}]
      BY <2>2, <2>4, <3>1, Zenon
    <3>3. g[{k}] = Z(k) + 0
      BY <2>3, <3>1, <3>2, Zenon
    <3>4. Z(k) \in Int
      BY <1>2, <1>4
    <3> QED BY <3>3, <3>4
  <2>5. CASE S = {}
    BY <2>3, <2>5 DEF g
  <2>6. CASE S = {1}
    <3>1. g[{1}] = Z(1)
      BY <2>4, <2>6
    <3> QED BY <1>2, <2>6, <3>1 DEF g
  <2>7. CASE S = {2}
    <3>1. g[{2}] = Z(2)
      BY <2>4, <2>7
    <3> QED BY <1>2, <2>7, <3>1 DEF g
  <2>8. CASE S = {1, 2}
    <3> DEFINE x == CHOOSE y \in {1, 2} : TRUE
    <3>1. x \in {1, 2}
      OBVIOUS
    <3>2. g[{1, 2}] = Z(x) + g[{1, 2} \ {x}]
      BY <2>2, <2>8
    <3> HIDE DEF x
    <3>3. g[{1}] = Z(1) /\ g[{2}] = Z(2) /\ {1, 2} \ {1} = {2} /\ {1, 2} \ {2} = {1}
      BY <2>4, <2>8
    <3>4. g[{1, 2}] = Z(1) + Z(2)
      <4>1. CASE x = 1
        BY <1>2, <3>2, <3>3, <4>1
      <4>2. CASE x = 2
        <5>1. g[{1, 2}] = Z(2) + Z(1)
          BY <3>2, <3>3, <4>2, Zenon
        <5> QED BY <1>2, <5>1
      <4> QED BY <3>1, <4>1, <4>2
    <3> QED BY <2>8, <3>4 DEF g
  <2> QED BY <1>4, <2>5, <2>6, <2>7, <2>8
<1>5. 1..(1 - 1) = {} /\ 1..(2 - 1) = {1} /\ 1..(3 - 1) = {1, 2}
  OBVIOUS
<1> HIDE DEF F
<1>6. F(1..(1 - 1))[1..(1 - 1)] = 0 /\ F(1..(2 - 1))[1..(2 - 1)] = Z(1) /\ F(1..(3 - 1))[1..(3 - 1)] = Z(1) + Z(2)
  BY <1>2, <1>4, <1>5
<1> QED BY <1>1, <1>6 DEF Z

(* The part of a buffer for the q-th quantity holds an array. *)
IsPart(buffer, fields, q, n, type, points, view) ==
  LET offset == Offset(fields, q, n, type, points)
  IN  \A i \in 0..(view.nx - 1), j \in 0..(view.ny - 1) :
        buffer[offset + PlaceOf(view, fields[q].order, i, j)] = view.at[<<i, j>>]

(* The buffer of two arrays, and of three. *)
LEMMA TwoParts ==
  ASSUME NEW fields, NEW n, NEW type, NEW points, NEW v1, IsArray(v1), NEW v2, IsArray(v2), NEW order,
         fields[1].order = order, fields[2].order = order,
         \A q \in 1..2 : SlicesSize(HaloSlices(fields[q], n, type, points)) \in Int,
         SlicesSize(HaloSlices(fields[1], n, type, points)) = v1.nx * v1.ny
  PROVE  LET buffer == Flatten(v1, order) \o Flatten(v2, order)
         IN  /\ IsPart(buffer, fields, 1, n, type, points, v1)
             /\ IsPart(buffer, fields, 2, n, type, points, v2)
<1> DEFINE a == Flatten(v1, order)
           b == Flatten(v2, order)
           A == {v1.at[p] : p \in Indices(v1)}
           B == {v2.at[p] : p \in Indices(v2)}
           z == v1.nx * v1.ny
<1>1. /\ Len(a) = z /\ a \in Seq(A)
      /\ \A i \in 0..(v1.nx - 1), j \in 0..(v1.ny - 1) :
           PlaceOf(v1, order, i, j) \in 1..Len(a) /\ a[PlaceOf(v1, order, i, j)] = v1.at[<<i, j>>]
  BY FlattenAt
<1>2. /\ b \in Seq(B)
      /\ \A i \in 0..(v2.nx - 1), j \in 0..(v2.ny - 1) :
           PlaceOf(v2, order, i, j) \in 1..Len(b) /\ b[PlaceOf(v2, order, i, j)] = v2.at[<<i, j>>]
  BY FlattenAt
<1>3. /\ Offset(fields, 1, n, type, points) = 0
      /\ Offset(fields, 2, n, type, points) = z
  BY OffsetIs
<1> HIDE DEF a, b, A, B, z
<1>4. /\ \A k \in 1..Len(a) : (a \o b)[k] = a[k]
      /\ \A k \in 1..Len(b) : (a \o b)[Len(a) + k] = b[k]
  <2>1. a \in Seq(A) /\ b \in Seq(B)
    BY <1>1, <1>2
  <2> QED BY <2>1, Concatenated
<1>5. \A k \in 1..Len(a) : 0 + k = k
  <2>1. \A k : k \in Int => 0 + k = k
    OBVIOUS
  <2>2. Len(a) \in Nat
    <3>1. a \in Seq(A)
      BY <1>1
    <3> QED BY <3>1, LenProperties
  <2> QED BY <2>1, <2>2
<1> DEFINE c == a \o b
<1> HIDE DEF c
<1>6. IsPart(c, fields, 1, n, type, points, v1)
  <2>1. ASSUME NEW i \in 0..(v1.nx - 1), NEW j \in 0..(v1.ny - 1)
        PROVE  c[0 + PlaceOf(v1, order, i, j)] = v1.at[<<i, j>>]
    <3>1. PlaceOf(v1, order, i, j) \in 1..Len(a) /\ a[PlaceOf(v1, order, i, j)] = v1.at[<<i, j>>]
      BY <1>1
    <3>2. c[PlaceOf(v1, order, i, j)] = a[PlaceOf(v1, order, i, j)]
      BY <3>1, <1>4 DEF c
    <3> QED BY <3>1, <3>2, <1>5
  <2> QED BY <2>1, <1>3 DEF IsPart
<1>7. IsPart(c, fields, 2, n, type, points, v2)
  <2>1. ASSUME NEW i \in 0..(v2.nx - 1), NEW j \in 0..(v2.ny - 1)
        PROVE  c[z + PlaceOf(v2, order, i, j)] = v2.at[<<i, j>>]
    <3>1. PlaceOf(v2, order, i, j) \in 1..Len(b) /\ b[PlaceOf(v2, order, i, j)] = v2.at[<<i, j>>]
      BY <1>2
    <3>2. c[Len(a) + PlaceOf(v2, order, i, j)] = b[PlaceOf(v2, order, i, j)]
      BY <3>1, <1>4 DEF c
    <3> QED BY <3>1, <3>2, <1>1
  <2> QED BY <2>1, <1>3 DEF IsPart
<1> QED BY <1>6, <1>7 DEF a, b, c

LEMMA ThreeParts ==
  ASSUME NEW fields, NEW n, NEW type, NEW points, NEW order,
         NEW v1, NEW v2, NEW v3, IsArray(v1), IsArray(v2), IsArray(v3),
         \A q \in 1..3 : fields[q].order = order,
         SlicesSize(HaloSlices(fields[1], n, type, points)) = v1.nx * v1.ny,
         SlicesSize(HaloSlices(fields[2], n, type, points)) = v2.nx * v2.ny
  PROVE  LET buffer == FlattenSeq(<<Flatten(v1, order), Flatten(v2, order), Flatten(v3, order)>>)
         IN  /\ IsPart(buffer, fields, 1, n, type, points, v1)
             /\ IsPart(buffer, fields, 2, n, type, points, v2)
             /\ IsPart(buffer, fields, 3, n, type, points, v3)
<1> DEFINE s1 == Flatten(v1, order)
           A1 == {v1.at[p] : p \in Indices(v1)}
           z1 == v1.nx * v1.ny
           s2 == Flatten(v2, order)
           A2 == {v2.at[p] : p \in Indices(v2)}
           z2 == v2.nx * v2.ny
           s3 == Flatten(v3, order)
           A3 == {v3.at[p] : p \in Indices(v3)}
           z3 == v3.nx * v3.ny
<1>1. /\ Len(s1) = z1 /\ z1 \in Nat /\ s1 \in Seq(A1)
      /\ \A i \in 0..(v1.nx - 1), j \in 0..(v1.ny - 1) :
           /\ PlaceOf(v1, order, i, j) \in 1..z1
           /\ s1[PlaceOf(v1, order, i, j)] = v1.at[<<i, j>>]
  <2>1. z1 \in Nat
    BY DEF IsArray
  <2> QED BY <2>1, FlattenAt
<1>2. /\ Len(s2) = z2 /\ z2 \in Nat /\ s2 \in Seq(A2)
      /\ \A i \in 0..(v2.nx - 1), j \in 0..(v2.ny - 1) :
           /\ PlaceOf(v2, order, i, j) \in 1..z2
           /\ s2[PlaceOf(v2, order, i, j)] = v2.at[<<i, j>>]
  <2>1. z2 \in Nat
    BY DEF IsArray
  <2> QED BY <2>1, FlattenAt
<1>3. /\ Len(s3) = z3 /\ z3 \in Nat /\ s3 \in Seq(A3)
      /\ \A i \in 0..(v3.nx - 1), j \in 0..(v3.ny - 1) :
           /\ PlaceOf(v3, order, i, j) \in 1..z3
           /\ s3[PlaceOf(v3, order, i, j)] = v3.at[<<i, j>>]
  <2>1. z3 \in Nat
    BY DEF IsArray
  <2> QED BY <2>1, FlattenAt
<1>4. FlattenSeq(<<s1, s2, s3>>) = (s1 \o s2) \o s3
  <2> DEFINE s == <<s1, s2, s3>>
  <2>1. s = <<s[1], s[2], s[3]>> /\ s[1] = s1 /\ s[2] = s2 /\ s[3] = s3
    OBVIOUS
  <2> HIDE DEF s, s1, s2, s3
  <2>2. FlattenSeq(s) = (s[1] \o s[2]) \o s[3]
    BY <2>1, ThreePieces
  <2>3. FlattenSeq(s) = (s1 \o s2) \o s3
    BY <2>1, <2>2
  <2> QED BY <2>3 DEF s
<1>10. /\ Offset(fields, 1, n, type, points) = 0
       /\ Offset(fields, 2, n, type, points) = z1
       /\ Offset(fields, 3, n, type, points) = z1 + z2
  <2>1. /\ SlicesSize(HaloSlices(fields[1], n, type, points)) = z1
        /\ SlicesSize(HaloSlices(fields[2], n, type, points)) = z2
    OBVIOUS
  <2>2. z1 \in Nat /\ z2 \in Nat
    BY <1>1, <1>2
  <2> HIDE DEF z1, z2
  <2>3. \A q \in 1..2 : SlicesSize(HaloSlices(fields[q], n, type, points)) \in Int
    BY <2>1, <2>2
  <2> QED BY <2>1, <2>3, OffsetIs
<1>5. /\ Len(s1) = z1 /\ Len(s2) = z2 /\ Len(s3) = z3 /\ z1 \in Nat /\ z2 \in Nat /\ z3 \in Nat
      /\ s1 \in Seq(A1) /\ s2 \in Seq(A2) /\ s3 \in Seq(A3)
  BY <1>1, <1>2, <1>3, Zenon
<1> HIDE DEF s1, s2, s3, A1, A2, A3, z1, z2, z3
<1> DEFINE a == s1 \o s2
           b == a \o s3
<1>6. /\ a \in Seq(A1 \cup A2) /\ Len(a) = z1 + z2
      /\ \A k \in 1..z1 : a[k] = s1[k]
      /\ \A k \in 1..z2 : a[z1 + k] = s2[k]
  <2>1. /\ s1 \o s2 \in Seq(A1 \cup A2)
        /\ Len(s1 \o s2) = Len(s1) + Len(s2)
        /\ \A k \in 1..Len(s1) : (s1 \o s2)[k] = s1[k]
        /\ \A k \in 1..Len(s2) : (s1 \o s2)[Len(s1) + k] = s2[k]
    <3>1. s1 \in Seq(A1) /\ s2 \in Seq(A2)
      BY <1>5
    <3> QED BY <3>1, Concatenated
  <2> QED BY <1>5, <2>1, Zenon
<1> HIDE DEF a
<1>7. /\ \A k \in 1..(z1 + z2) : b[k] = a[k]
      /\ \A k \in 1..z3 : b[(z1 + z2) + k] = s3[k]
  <2>1. /\ \A k \in 1..Len(a) : (a \o s3)[k] = a[k]
        /\ \A k \in 1..Len(s3) : (a \o s3)[Len(a) + k] = s3[k]
    <3>1. a \in Seq(A1 \cup A2) /\ s3 \in Seq(A3)
      BY <1>5, <1>6
    <3> QED BY <3>1, Concatenated
  <2> QED BY <1>5, <1>6, <2>1, Zenon
<1>8. FlattenSeq(<<s1, s2, s3>>) = b
  BY <1>4 DEF a
<1> HIDE DEF b
<1>9. /\ \A k \in 1..z1 : b[0 + k] = s1[k]
      /\ \A k \in 1..z2 : b[z1 + k] = s2[k]
      /\ \A k \in 1..z3 : b[(z1 + z2) + k] = s3[k]
  <2>1. \A k \in 1..z1 : 0 + k = k /\ k \in 1..(z1 + z2)
    BY <1>5
  <2>2. \A k \in 1..z2 : z1 + k \in 1..(z1 + z2)
    BY <1>5
  <2> QED BY <2>1, <2>2, <1>6, <1>7
<1>21. IsPart(b, fields, 1, n, type, points, v1)
  <2>1. ASSUME NEW i \in 0..(v1.nx - 1), NEW j \in 0..(v1.ny - 1)
        PROVE  b[0 + PlaceOf(v1, order, i, j)] = v1.at[<<i, j>>]
    <3>1. PlaceOf(v1, order, i, j) \in 1..z1 /\ s1[PlaceOf(v1, order, i, j)] = v1.at[<<i, j>>]
      BY <1>1
    <3> QED BY <1>9, <3>1
  <2>2. fields[1].order = order
    OBVIOUS
  <2> QED BY <1>10, <2>1, <2>2 DEF IsPart
<1>22. IsPart(b, fields, 2, n, type, points, v2)
  <2>1. ASSUME NEW i \in 0..(v2.nx - 1), NEW j \in 0..(v2.ny - 1)
        PROVE  b[z1 + PlaceOf(v2, order, i, j)] = v2.at[<<i, j>>]
    <3>1. PlaceOf(v2, order, i, j) \in 1..z2 /\ s2[PlaceOf(v2, order, i, j)] = v2.at[<<i, j>>]
      BY <1>2
    <3> QED BY <1>9, <3>1
  <2>2. fields[2].order = order
    OBVIOUS
  <2> QED BY <1>10, <2>1, <2>2 DEF IsPart
<1>23. IsPart(b, fields, 3, n, type, points, v3)
  <2>1. ASSUME NEW i \in 0..(v3.nx - 1), NEW j \in 0..(v3.ny - 1)
        PROVE  b[(z1 + z2) + PlaceOf(v3, order, i, j)] = v3.at[<<i, j>>]
    <3>1. PlaceOf(v3, order, i, j) \in 1..z3 /\ s3[PlaceOf(v3, order, i, j)] = v3.at[<<i, j>>]
      BY <1>3
    <3> QED BY <1>9, <3>1
  <2>2. fields[3].order = order
    OBVIOUS
  <2> QED BY <1>10, <2>1, <2>2 DEF IsPart
<1> QED BY <1>8, <1>21, <1>22, <1>23 DEF s1, s2, s3

(* What is unpacked is the array that is in the buffer. *)
LEMMA UnpackedIs ==
  ASSUME NEW buffer, NEW fields, NEW q, NEW n, NEW type, NEW points, NEW view,
         IsPart(buffer, fields, q, n, type, points, view),
         NEW region, region = HaloSlices(fields[q], n, type, points),
         Offset(fields, q, n, type, points) \in Int,
         region.x.start \in Int, region.x.stop \in Int, region.y.start \in Int, region.y.stop \in Int,
         view.nx = Extent(region.x), view.ny = Extent(region.y)
  PROVE  /\ DOMAIN Unpacked(buffer, fields, q, n, type, points) = PointsIn(region)
         /\ \A p \in PointsIn(region) :
              /\ p[1] - region.x.start \in 0..(view.nx - 1)
              /\ p[2] - region.y.start \in 0..(view.ny - 1)
              /\ Unpacked(buffer, fields, q, n, type, points)[p]
                   = view.at[<<p[1] - region.x.start, p[2] - region.y.start>>]
<1> DEFINE halo == Unpacked(buffer, fields, q, n, type, points)
           offset == Offset(fields, q, n, type, points)
           o == fields[q].order
<1>1. DOMAIN halo = PointsIn(region)
  BY DEF Unpacked
<1>2. ASSUME NEW p \in PointsIn(region)
      PROVE  /\ p[1] - region.x.start \in 0..(view.nx - 1)
             /\ p[2] - region.y.start \in 0..(view.ny - 1)
             /\ halo[p] = view.at[<<p[1] - region.x.start, p[2] - region.y.start>>]
  <2> DEFINE i == p[1] - region.x.start
             j == p[2] - region.y.start
  <2>1. i \in 0..(view.nx - 1) /\ j \in 0..(view.ny - 1)
    BY DEF PointsIn, Extent
  <2>2. halo[p] = buffer[offset + 1 + (IF o = "xy" THEN i * Extent(region.y) + j ELSE j * Extent(region.x) + i)]
    BY DEF Unpacked
  <2> DEFINE z == IF o = "xy" THEN i * view.ny + j ELSE j * view.nx + i
             A == buffer[offset + 1 + z]
             B == view.at[<<i, j>>]
  <2>3. halo[p] = buffer[offset + 1 + z]
    BY <2>2
  <2>4. buffer[offset + PlaceOf(view, o, i, j)] = view.at[<<i, j>>]
    BY <2>1 DEF IsPart
  <2>5. PlaceOf(view, o, i, j) = 1 + z
    BY DEF PlaceOf
  <2>6. offset + (1 + z) = offset + 1 + z
    <3>1. z \in Int /\ offset \in Int
      BY <2>1 DEF Extent
    <3> HIDE DEF z, offset
    <3> QED BY <3>1
  <2> QED BY <2>1, <2>3, <2>4, <2>5, <2>6
<1> QED BY <1>1, <1>2

(* The kernel unpacks the same: the q-th index is that of the point. *)
LEMMA OptUnpackedIs ==
  ASSUME NEW buffer, NEW fields, NEW q, NEW n, NEW type, NEW points,
         NEW region, region = HaloSlices(fields[q], n, type, points),
         region.x.start \in Int, region.x.stop \in Int, region.y.start \in Int, region.y.stop \in Int,
         Extent(region.x) \in Nat, Extent(region.y) \in Nat,
         Offset(fields, q, n, type, points) \in Int
  PROVE  OptUnpacked(buffer, fields, q, n, type, points) = Unpacked(buffer, fields, q, n, type, points)
<1> DEFINE offset == Offset(fields, q, n, type, points)
           o == fields[q].order
           a == Extent(region.x)
           b == Extent(region.y)
           x0 == region.x.start
           y0 == region.y.start
           indices == BuildFlattenIndices("s", fields[q], region, FALSE, 0)
           Z(p) == IF o = "xy" THEN (p[1] - x0) * b + (p[2] - y0) ELSE (p[2] - y0) * a + (p[1] - x0)
           K(p) == CHOOSE k \in DOMAIN indices : <<indices[k].i, indices[k].j>> = p
<1>1. /\ OptUnpacked(buffer, fields, q, n, type, points) = [p \in PointsIn(region) |-> buffer[offset + K(p)]]
      /\ Unpacked(buffer, fields, q, n, type, points) = [p \in PointsIn(region) |-> buffer[offset + 1 + Z(p)]]
  BY DEF OptUnpacked, Unpacked
<1> DEFINE view == View("s", region)
<1>2. /\ view.nx = a /\ view.ny = b
      /\ \A i \in 0..(a - 1), j \in 0..(b - 1) : view.at[<<i, j>>].i = x0 + i /\ view.at[<<i, j>>].j = y0 + j
  BY DEF View, Array
<1> DEFINE I == [k \in 1..(a * b) |-> IF o = "xy" THEN (k - 1) \div b ELSE (k - 1) % a]
           J == [k \in 1..(a * b) |-> IF o = "xy" THEN (k - 1) % b ELSE (k - 1) \div a]
           W(i, j) == IF o = "xy" THEN i * b + j ELSE j * a + i
<1>3. indices = [k \in 1..(a * b) |-> view.at[<<I[k], J[k]>>]]
  <2>1. indices = [k \in 1..(a * b) |-> IF o = "xy" THEN view.at[<<(k - 1) \div b, (k - 1) % b>>]
                                     ELSE view.at[<<(k - 1) % a, (k - 1) \div a>>]]
    BY <1>2 DEF BuildFlattenIndices, Flatten
  <2> HIDE DEF view, indices, a, b, o
  <2> QED BY <2>1
<1>4. a \in Nat /\ b \in Nat /\ x0 \in Int /\ y0 \in Int /\ offset \in Int /\ a * b = b * a /\ a * b \in Nat
  OBVIOUS
<1>5. PointsIn(region) = (x0..(x0 + a - 1)) \X (y0..(y0 + b - 1))
  BY DEF PointsIn, Extent
<1> HIDE DEF offset, o, a, b, x0, y0, indices, view
<1>6. ASSUME NEW k \in 1..(a * b)
      PROVE  I[k] \in 0..(a - 1) /\ J[k] \in 0..(b - 1) /\ k - 1 = W(I[k], J[k]) /\ k \in Int
  <2>1. (k - 1) \div b \in 0..(a - 1) /\ (k - 1) % b \in 0..(b - 1)
    BY <1>4, CellsInOrder
  <2>2. (k - 1) \div a \in 0..(b - 1) /\ (k - 1) % a \in 0..(a - 1)
    BY <1>4, CellsInOrder
  <2>3. a \in Nat \ {0} /\ b \in Nat \ {0} /\ k - 1 \in Int /\ k \in Int
    BY <1>4, <2>1, <2>2
  <2>4. k - 1 = (((k - 1) \div a) * a) + ((k - 1) % a) /\ k - 1 = (((k - 1) \div b) * b) + ((k - 1) % b)
    BY <2>3, DivMod
  <2>5. I[k] = (IF o = "xy" THEN (k - 1) \div b ELSE (k - 1) % a) /\ J[k] = (IF o = "xy" THEN (k - 1) % b ELSE (k - 1) \div a)
    OBVIOUS
  <2> HIDE DEF I, J
  <2>6. CASE o = "xy"
    BY <2>1, <2>3, <2>4, <2>5, <2>6
  <2>7. CASE o # "xy"
    BY <2>2, <2>3, <2>4, <2>5, <2>7
  <2> QED BY <2>6, <2>7
<1>7. ASSUME NEW i \in 0..(a - 1), NEW j \in 0..(b - 1)
      PROVE  1 + W(i, j) \in 1..(a * b) /\ W(i, j) \in Int /\ I[1 + W(i, j)] = i /\ J[1 + W(i, j)] = j
  <2>1. i * b + j \in 0..((a * b) - 1) /\ (i * b + j) \div b = i /\ (i * b + j) % b = j
    BY <1>4, CellsInOrder
  <2>2. j * a + i \in 0..((a * b) - 1) /\ (j * a + i) \div a = j /\ (j * a + i) % a = i
    BY <1>4, CellsInOrder
  <2> DEFINE w == W(i, j)
  <2>3. w \in 0..((a * b) - 1) /\ w = (IF o = "xy" THEN i * b + j ELSE j * a + i)
    BY <2>1, <2>2
  <2> HIDE DEF w
  <2>4. 1 + w \in 1..(a * b) /\ w \in Int /\ (1 + w) - 1 = w
    BY <1>4, <2>3
  <2>5. I[1 + w] = (IF o = "xy" THEN w \div b ELSE w % a) /\ J[1 + w] = (IF o = "xy" THEN w % b ELSE w \div a)
    BY <2>4
  <2>6. CASE o = "xy"
    BY <2>1, <2>3, <2>4, <2>5, <2>6 DEF w
  <2>7. CASE o # "xy"
    BY <2>2, <2>3, <2>4, <2>5, <2>7 DEF w
  <2> QED BY <2>6, <2>7
<1>8. \A k \in 1..(a * b) : indices[k].i = x0 + I[k] /\ indices[k].j = y0 + J[k]
  <2> TAKE k \in 1..(a * b)
  <2>1. indices[k] = view.at[<<I[k], J[k]>>]
    BY <1>3
  <2>2. I[k] \in 0..(a - 1) /\ J[k] \in 0..(b - 1)
    BY <1>6
  <2> HIDE DEF I, J
  <2>3. view.at[<<I[k], J[k]>>].i = x0 + I[k] /\ view.at[<<I[k], J[k]>>].j = y0 + J[k]
    BY <1>2, <2>2
  <2> QED BY <2>1, <2>3
<1>d. DOMAIN indices = 1..(a * b)
  BY <1>3
<1> HIDE DEF I, J
<1>9. ASSUME NEW p \in PointsIn(region) PROVE K(p) = 1 + Z(p) /\ Z(p) \in Int
  <2> DEFINE i == p[1] - x0
             j == p[2] - y0
             z == W(i, j)
  <2>1. i \in 0..(a - 1) /\ j \in 0..(b - 1) /\ p = <<x0 + i, y0 + j>>
    BY <1>4, <1>5
  <2>2. Z(p) = z
    OBVIOUS
  <2> HIDE DEF i, j, W
  <2>3. z \in Int /\ 1 + z \in 1..(a * b) /\ I[1 + z] = i /\ J[1 + z] = j
    BY <2>1, <1>7
  <2>4. 1 + z \in DOMAIN indices /\ <<indices[1 + z].i, indices[1 + z].j>> = p
    BY <1>8, <1>d, <2>1, <2>3
  <2>5. ASSUME NEW k \in DOMAIN indices, <<indices[k].i, indices[k].j>> = p PROVE k = 1 + z
    <3>1. k \in 1..(a * b) /\ indices[k].i = x0 + I[k] /\ indices[k].j = y0 + J[k]
      BY <1>8, <1>d
    <3>2. I[k] \in 0..(a - 1) /\ J[k] \in 0..(b - 1) /\ k - 1 = W(I[k], J[k]) /\ k \in Int
      BY <1>6, <3>1
    <3>3. x0 + I[k] = x0 + i /\ y0 + J[k] = y0 + j
      BY <2>1, <2>5, <3>1
    <3>4. I[k] = i /\ J[k] = j
      BY <1>4, <2>1, <3>2, <3>3
    <3>5. k - 1 = z
      BY <3>2, <3>4
    <3> QED BY <2>3, <3>2, <3>5
  <2> HIDE DEF z, Z
  <2>6. K(p) = 1 + z
    BY <2>4, <2>5, Zenon
  <2> HIDE DEF K
  <2> QED BY <2>2, <2>3, <2>6
<1>10. \A p \in PointsIn(region) : offset + K(p) = offset + 1 + Z(p)
  <2> TAKE p \in PointsIn(region)
  <2> HIDE DEF K, Z
  <2> QED BY <1>4, <1>9
<1> HIDE DEF K, Z
<1> QED BY <1>1, <1>10

-----------------------------------------------------------------------------
(* Then the slices of a boundary, and what turning the view of them gives. *)

(* On which side of the domain a boundary is. *)
DirX(type) == IF type \in {"W", "NW", "SW"} THEN -1 ELSE IF type \in {"E", "NE", "SE"} THEN 1 ELSE 0
DirY(type) == IF type \in {"S", "SW", "SE"} THEN -1 ELSE IF type \in {"N", "NW", "NE"} THEN 1 ELSE 0

(* Where the points of a boundary begin along a dimension, inside the *)
(* domain and in its halo, and how many there are.                    *)
InnerStart(dir, overlap, points) ==
  IF dir = 0 THEN 0 ELSE IF dir = -1 THEN overlap ELSE Width - points

HaloStart(dir, overlap, points) ==
  IF dir = 0 THEN 0 ELSE IF dir = -1 THEN -points ELSE Width + overlap

(* A quantity whose dimensions are centered or on interfaces. *)
IsField(f) == f.x \in 0..1 /\ f.y \in 0..1

CountOf(dir, overlap, points) == IF dir = 0 THEN Width + overlap ELSE points

(* What GetBoundarySlice gives for the domain's own points, *)
InnerSlices(fld, n, type, points) == GetBoundarySlice(fld, n, type, points, TRUE)

InnerSlicesOf(region, fld, type, points) ==
  /\ region = [x |-> region.x, y |-> region.y]
  /\ region.x = [start |-> region.x.start, stop |-> region.x.stop]
  /\ region.y = [start |-> region.y.start, stop |-> region.y.stop]
  /\ region.x.start \in Int /\ region.x.stop \in Int /\ region.y.start \in Int /\ region.y.stop \in Int
  /\ region.x.start = InnerStart(DirX(type), fld.x, points)
  /\ region.y.start = InnerStart(DirY(type), fld.y, points)
  /\ Extent(region.x) = CountOf(DirX(type), fld.x, points)
  /\ Extent(region.y) = CountOf(DirY(type), fld.y, points)
  /\ Extent(region.x) \in Nat /\ Extent(region.y) \in Nat

LEMMA InnerSlicesAre ==
  ASSUME NEW fld, IsField(fld), NEW type \in Types, NEW points \in {1, 3}
  PROVE  InnerSlicesOf(InnerSlices(fld, Width, type, points), fld, type, points)
<1> SUFFICES ASSUME NEW region, region = InnerSlices(fld, Width, type, points)
             PROVE  InnerSlicesOf(region, fld, type, points)
  OBVIOUS
<1> DEFINE R(axis, o) ==
      LET whole == 4 + o
          at == BoundaryAtStartOfDim(type, axis)
      IN  CASE at = "none"               -> [start |-> 0, stop |-> whole]
          [] at = "start" /\ TRUE  -> [start |-> o, stop |-> o + points]
          [] at = "start" /\ ~TRUE -> [start |-> -points, stop |-> 0]
          [] at = "end" /\ TRUE    -> [start |-> whole - o - points,
                                           stop  |-> whole - o]
          [] at = "end" /\ ~TRUE   -> [start |-> whole, stop |-> whole + points]
<1>1. region = [axis \in Horizontal |-> R(axis, fld[axis])]
  BY DEF InnerSlices, GetBoundarySlice, Width
<1>2. Horizontal = {"x", "y"}
  BY DEF Horizontal
<1> HIDE DEF R
<1>3. region = [x |-> R("x", fld.x), y |-> R("y", fld.y)]
  BY <1>1, <1>2
<1>4. /\ BoundaryAtStartOfDim(type, "x") = IF DirX(type) = 0 THEN "none" ELSE IF DirX(type) = -1 THEN "start" ELSE "end"
      /\ BoundaryAtStartOfDim(type, "y") = IF DirY(type) = 0 THEN "none" ELSE IF DirY(type) = -1 THEN "start" ELSE "end"
  BY DEF BoundaryAtStartOfDim, DirX, DirY, Types, Edges, Corners
<1>5. DirX(type) \in {-1, 0, 1} /\ DirY(type) \in {-1, 0, 1}
  BY DEF DirX, DirY
<1>6. ASSUME NEW axis, NEW o \in 0..1, NEW d \in {-1, 0, 1},
             BoundaryAtStartOfDim(type, axis) = IF d = 0 THEN "none" ELSE IF d = -1 THEN "start" ELSE "end"
      PROVE  /\ R(axis, o) = [start |-> R(axis, o).start, stop |-> R(axis, o).stop]
             /\ R(axis, o).start \in Int /\ R(axis, o).stop \in Int
             /\ R(axis, o).start = InnerStart(d, o, points)
             /\ R(axis, o).stop - R(axis, o).start = CountOf(d, o, points)
             /\ R(axis, o).stop - R(axis, o).start \in Nat
  <2>1. CASE d = 0
    BY <1>6, <2>1 DEF R, InnerStart, CountOf, Width
  <2>2. CASE d = -1
    BY <1>6, <2>2 DEF R, InnerStart, CountOf, Width
  <2>3. CASE d = 1
    BY <1>6, <2>3 DEF R, InnerStart, CountOf, Width
  <2> QED BY <2>1, <2>2, <2>3
<1>7. region.x = R("x", fld.x) /\ region.y = R("y", fld.y) /\ region = [x |-> region.x, y |-> region.y]
  <2>1. \A a, b, r : r = [x |-> a, y |-> b] => r.x = a /\ r.y = b /\ r = [x |-> r.x, y |-> r.y]
    OBVIOUS
  <2> DEFINE a == R("x", fld.x)
             b == R("y", fld.y)
  <2>2. region = [x |-> a, y |-> b]
    BY <1>3
  <2> HIDE DEF a, b
  <2>3. region.x = a /\ region.y = b /\ region = [x |-> region.x, y |-> region.y]
    BY <2>1, <2>2
  <2> QED BY <2>3 DEF a, b
<1> HIDE DEF R
<1>8. fld.x \in 0..1 /\ fld.y \in 0..1
  BY DEF IsField
<1> DEFINE rx == R("x", fld.x)
           ry == R("y", fld.y)
<1>9. /\ rx = [start |-> rx.start, stop |-> rx.stop]
      /\ rx.start \in Int /\ rx.stop \in Int
      /\ rx.start = InnerStart(DirX(type), fld.x, points)
      /\ rx.stop - rx.start = CountOf(DirX(type), fld.x, points)
      /\ rx.stop - rx.start \in Nat
  BY <1>4, <1>5, <1>6, <1>8
<1>10. /\ ry = [start |-> ry.start, stop |-> ry.stop]
      /\ ry.start \in Int /\ ry.stop \in Int
      /\ ry.start = InnerStart(DirY(type), fld.y, points)
      /\ ry.stop - ry.start = CountOf(DirY(type), fld.y, points)
      /\ ry.stop - ry.start \in Nat
  BY <1>4, <1>5, <1>6, <1>8
<1> HIDE DEF rx, ry
<1>11. region.x = rx /\ region.y = ry /\ region = [x |-> region.x, y |-> region.y]
  BY <1>7 DEF rx, ry
<1> QED BY <1>9, <1>10, <1>11, Zenon DEF Extent, InnerSlicesOf
(* and for the halo. *)
HaloSlicesOf(region, fld, type, points) ==
  /\ region = [x |-> region.x, y |-> region.y]
  /\ region.x = [start |-> region.x.start, stop |-> region.x.stop]
  /\ region.y = [start |-> region.y.start, stop |-> region.y.stop]
  /\ region.x.start \in Int /\ region.x.stop \in Int /\ region.y.start \in Int /\ region.y.stop \in Int
  /\ region.x.start = HaloStart(DirX(type), fld.x, points)
  /\ region.y.start = HaloStart(DirY(type), fld.y, points)
  /\ Extent(region.x) = CountOf(DirX(type), fld.x, points)
  /\ Extent(region.y) = CountOf(DirY(type), fld.y, points)
  /\ Extent(region.x) \in Nat /\ Extent(region.y) \in Nat

LEMMA HaloSlicesAre ==
  ASSUME NEW fld, IsField(fld), NEW type \in Types, NEW points \in {1, 3}
  PROVE  HaloSlicesOf(HaloSlices(fld, Width, type, points), fld, type, points)
<1> SUFFICES ASSUME NEW region, region = HaloSlices(fld, Width, type, points)
             PROVE  HaloSlicesOf(region, fld, type, points)
  OBVIOUS
<1> DEFINE R(axis, o) ==
      LET whole == 4 + o
          at == BoundaryAtStartOfDim(type, axis)
      IN  CASE at = "none"               -> [start |-> 0, stop |-> whole]
          [] at = "start" /\ FALSE  -> [start |-> o, stop |-> o + points]
          [] at = "start" /\ ~FALSE -> [start |-> -points, stop |-> 0]
          [] at = "end" /\ FALSE    -> [start |-> whole - o - points,
                                           stop  |-> whole - o]
          [] at = "end" /\ ~FALSE   -> [start |-> whole, stop |-> whole + points]
<1>1. region = [axis \in Horizontal |-> R(axis, fld[axis])]
  BY DEF HaloSlices, GetBoundarySlice, Width
<1>2. Horizontal = {"x", "y"}
  BY DEF Horizontal
<1> HIDE DEF R
<1>3. region = [x |-> R("x", fld.x), y |-> R("y", fld.y)]
  BY <1>1, <1>2
<1>4. /\ BoundaryAtStartOfDim(type, "x") = IF DirX(type) = 0 THEN "none" ELSE IF DirX(type) = -1 THEN "start" ELSE "end"
      /\ BoundaryAtStartOfDim(type, "y") = IF DirY(type) = 0 THEN "none" ELSE IF DirY(type) = -1 THEN "start" ELSE "end"
  BY DEF BoundaryAtStartOfDim, DirX, DirY, Types, Edges, Corners
<1>5. DirX(type) \in {-1, 0, 1} /\ DirY(type) \in {-1, 0, 1}
  BY DEF DirX, DirY
<1>6. ASSUME NEW axis, NEW o \in 0..1, NEW d \in {-1, 0, 1},
             BoundaryAtStartOfDim(type, axis) = IF d = 0 THEN "none" ELSE IF d = -1 THEN "start" ELSE "end"
      PROVE  /\ R(axis, o) = [start |-> R(axis, o).start, stop |-> R(axis, o).stop]
             /\ R(axis, o).start \in Int /\ R(axis, o).stop \in Int
             /\ R(axis, o).start = HaloStart(d, o, points)
             /\ R(axis, o).stop - R(axis, o).start = CountOf(d, o, points)
             /\ R(axis, o).stop - R(axis, o).start \in Nat
  <2>1. CASE d = 0
    BY <1>6, <2>1 DEF R, HaloStart, CountOf, Width
  <2>2. CASE d = -1
    BY <1>6, <2>2 DEF R, HaloStart, CountOf, Width
  <2>3. CASE d = 1
    BY <1>6, <2>3 DEF R, HaloStart, CountOf, Width
  <2> QED BY <2>1, <2>2, <2>3
<1>7. region.x = R("x", fld.x) /\ region.y = R("y", fld.y) /\ region = [x |-> region.x, y |-> region.y]
  <2>1. \A a, b, r : r = [x |-> a, y |-> b] => r.x = a /\ r.y = b /\ r = [x |-> r.x, y |-> r.y]
    OBVIOUS
  <2> DEFINE a == R("x", fld.x)
             b == R("y", fld.y)
  <2>2. region = [x |-> a, y |-> b]
    BY <1>3
  <2> HIDE DEF a, b
  <2>3. region.x = a /\ region.y = b /\ region = [x |-> region.x, y |-> region.y]
    BY <2>1, <2>2
  <2> QED BY <2>3 DEF a, b
<1> HIDE DEF R
<1>8. fld.x \in 0..1 /\ fld.y \in 0..1
  BY DEF IsField
<1> DEFINE rx == R("x", fld.x)
           ry == R("y", fld.y)
<1>9. /\ rx = [start |-> rx.start, stop |-> rx.stop]
      /\ rx.start \in Int /\ rx.stop \in Int
      /\ rx.start = HaloStart(DirX(type), fld.x, points)
      /\ rx.stop - rx.start = CountOf(DirX(type), fld.x, points)
      /\ rx.stop - rx.start \in Nat
  BY <1>4, <1>5, <1>6, <1>8
<1>10. /\ ry = [start |-> ry.start, stop |-> ry.stop]
      /\ ry.start \in Int /\ ry.stop \in Int
      /\ ry.start = HaloStart(DirY(type), fld.y, points)
      /\ ry.stop - ry.start = CountOf(DirY(type), fld.y, points)
      /\ ry.stop - ry.start \in Nat
  BY <1>4, <1>5, <1>6, <1>8
<1> HIDE DEF rx, ry
<1>11. region.x = rx /\ region.y = ry /\ region = [x |-> region.x, y |-> region.y]
  BY <1>7 DEF rx, ry
<1> QED BY <1>9, <1>10, <1>11, Zenon DEF Extent, HaloSlicesOf

(* A pair of coordinates from the middle of a square, turned. *)
TurnX(k, a, b) == IF k = 0 THEN a ELSE IF k = 1 THEN -b ELSE b
TurnY(k, a, b) == IF k = 0 THEN b ELSE IF k = 1 THEN a ELSE -a

(* Twice the place of a point of a field along a subtile, from the middle *)
(* of the subtile that lies so many subtiles away.                         *)
Off(p, overlap, dir) == 2 * p + 1 - overlap - 4 - 8 * dir

(* Two ranks see each other across the boundaries w and u. *)
Faces(w, u, k) ==
  /\ w \in Types /\ u \in Types /\ k \in {0, 1, 3}
  /\ DirX(u) = TurnX(k, -DirX(w), -DirY(w))
  /\ DirY(u) = TurnY(k, -DirX(w), -DirY(w))

(* A field whose dimensions are those of the other, turned. *)
Turns(k, f, g) == g.x = (IF k = 0 THEN f.x ELSE f.y) /\ g.y = (IF k = 0 THEN f.y ELSE f.x)

Proper(view) == IsArray(view) /\ view = Array(view.nx, view.ny, view.at)

(* The points that a boundary sends, *)
SentArray(view, of, g, u, points) ==
  /\ Proper(view)
  /\ view.nx = CountOf(DirX(u), g.x, points)
  /\ view.ny = CountOf(DirY(u), g.y, points)
  /\ \A a \in 0..(view.nx - 1), b \in 0..(view.ny - 1) :
       view.at[<<a, b>>] = [of |-> of, sign |-> 1, i |-> InnerStart(DirX(u), g.x, points) + a,
                            j |-> InnerStart(DirY(u), g.y, points) + b]

LEMMA SentIs ==
  ASSUME NEW of, NEW g, IsField(g), NEW u \in Types, NEW points \in {1, 3}
  PROVE  SentArray(Sent(of, g, Width, u, points), of, g, u, points)
<1> DEFINE region == InnerSlices(g, Width, u, points)
           nx == CountOf(DirX(u), g.x, points)
           ny == CountOf(DirY(u), g.y, points)
           xs == InnerStart(DirX(u), g.x, points)
           ys == InnerStart(DirY(u), g.y, points)
           view == Sent(of, g, Width, u, points)
           at == [p \in (0..(nx - 1)) \X (0..(ny - 1)) |->
                    [of |-> of, sign |-> 1, i |-> xs + p[1], j |-> ys + p[2]]]
<1>2. /\ region.x.start = xs /\ region.y.start = ys
      /\ Extent(region.x) = nx /\ Extent(region.y) = ny
      /\ nx \in Nat /\ ny \in Nat
  <2>1. InnerSlicesOf(region, g, u, points)
    BY InnerSlicesAre
  <2> HIDE DEF region
  <2> QED BY <2>1 DEF InnerSlicesOf
<1>3. view = View(of, region)
  BY Zenon DEF Sent, InnerSlices
<1> HIDE DEF view, region, nx, ny, xs, ys
<1>4. View(of, region) = Array(Extent(region.x), Extent(region.y), [p \in (0..(Extent(region.x) - 1)) \X (0..(Extent(region.y) - 1)) |->
        [of |-> of, sign |-> 1, i |-> region.x.start + p[1], j |-> region.y.start + p[2]]])
  BY DEF View
<1>5. view = Array(nx, ny, at)
  BY <1>2, <1>3, <1>4
<1>6. view.at = at /\ view.nx = nx /\ view.ny = ny
  <2> HIDE DEF at
  <2> QED BY <1>5 DEF Array
<1>7. \A a \in 0..(nx - 1), b \in 0..(ny - 1) : at[<<a, b>>] = [of |-> of, sign |-> 1, i |-> xs + a, j |-> ys + b]
  OBVIOUS
<1> HIDE DEF at
<1>8. Proper(view)
  BY <1>2, <1>5, <1>6, Zenon DEF Proper, IsArray
<1>9. \A a \in 0..(view.nx - 1), b \in 0..(view.ny - 1) :
        view.at[<<a, b>>] = [of |-> of, sign |-> 1, i |-> xs + a, j |-> ys + b]
  BY <1>6, <1>7, Zenon
<1>10. SentArray(view, of, g, u, points)
  BY <1>6, <1>8, <1>9, Zenon DEF SentArray, nx, ny, xs, ys
<1> QED BY <1>10 DEF view

(* and their rotation. *)
RotatedArray(R, view, k) ==
  /\ Proper(R)
  /\ k = 0 => R = view
  /\ k \in {1, 3} => R.nx = view.ny /\ R.ny = view.nx
  /\ k = 1 => \A a \in 0..(view.ny - 1), b \in 0..(view.nx - 1) : R.at[<<a, b>>] = view.at[<<view.nx - 1 - b, a>>]
  /\ k = 3 => \A a \in 0..(view.ny - 1), b \in 0..(view.nx - 1) : R.at[<<a, b>>] = view.at[<<b, view.ny - 1 - a>>]

LEMMA RotatedIs ==
  ASSUME NEW view, Proper(view), NEW rotations, NEW k \in {0, 1, 3}, rotations % 4 = k
  PROVE  RotatedArray(RotateScalarData(view, rotations), view, k)
<1> DEFINE R == RotateScalarData(view, rotations)
           nx == view.nx
           ny == view.ny
           swap == (0..(ny - 1)) \X (0..(nx - 1))
           f1 == [p \in swap |-> view.at[<<nx - 1 - p[2], p[1]>>]]
           f3 == [p \in swap |-> view.at[<<p[2], ny - 1 - p[1]>>]]
<1>1. nx \in Nat /\ ny \in Nat
  BY DEF Proper, IsArray
<1>2. k = 0 => RotatedArray(R, view, k)
  <2> SUFFICES ASSUME k = 0 PROVE RotatedArray(R, view, k)
    OBVIOUS
  <2>1. R = view
    <3>1. rotations % 4 = 0
      OBVIOUS
    <3> QED BY <3>1 DEF RotateScalarData
  <2> HIDE DEF R
  <2> QED BY <2>1 DEF RotatedArray
<1>3. k = 1 => RotatedArray(R, view, k)
  <2> SUFFICES ASSUME k = 1 PROVE RotatedArray(R, view, k)
    OBVIOUS
  <2>1. R = Array(ny, nx, f1)
    <3>1. rotations % 4 = 1
      OBVIOUS
    <3> QED BY <3>1 DEF RotateScalarData
  <2>2. \A a \in 0..(ny - 1), b \in 0..(nx - 1) : f1[<<a, b>>] = view.at[<<nx - 1 - b, a>>]
    OBVIOUS
  <2> HIDE DEF R, f1
  <2>3. R.nx = ny /\ R.ny = nx /\ R.at = f1
    BY <2>1 DEF Array
  <2>4. Proper(R)
    BY <1>1, <2>1, <2>3, Zenon DEF Proper, IsArray
  <2>5. \A a \in 0..(ny - 1), b \in 0..(nx - 1) : R.at[<<a, b>>] = view.at[<<nx - 1 - b, a>>]
    BY <2>2, <2>3, Zenon
  <2>6. k # 0 /\ k # 3
    OBVIOUS
  <2> QED BY <2>3, <2>4, <2>5, <2>6, Zenon DEF RotatedArray
<1>4. k = 3 => RotatedArray(R, view, k)
  <2> SUFFICES ASSUME k = 3 PROVE RotatedArray(R, view, k)
    OBVIOUS
  <2>1. R = Array(ny, nx, f3)
    <3>1. rotations % 4 = 3
      OBVIOUS
    <3> QED BY <3>1 DEF RotateScalarData
  <2>2. \A a \in 0..(ny - 1), b \in 0..(nx - 1) : f3[<<a, b>>] = view.at[<<b, ny - 1 - a>>]
    OBVIOUS
  <2> HIDE DEF R, f3
  <2>3. R.nx = ny /\ R.ny = nx /\ R.at = f3
    BY <2>1 DEF Array
  <2>4. Proper(R)
    BY <1>1, <2>1, <2>3, Zenon DEF Proper, IsArray
  <2>5. \A a \in 0..(ny - 1), b \in 0..(nx - 1) : R.at[<<a, b>>] = view.at[<<b, ny - 1 - a>>]
    BY <2>2, <2>3, Zenon
  <2>6. k # 0 /\ k # 1
    OBVIOUS
  <2> QED BY <2>3, <2>4, <2>5, <2>6, Zenon DEF RotatedArray
<1> HIDE DEF R
<1>5. k = 0 \/ k = 1 \/ k = 3
  OBVIOUS
<1>6. RotatedArray(R, view, k)
  BY <1>2, <1>3, <1>4, <1>5, Zenon
<1> QED BY <1>6 DEF R

(* The value a halo point receives comes from the place it stands for, *)
(* when the receiver's axes are turned into the sender's.              *)
Received(value, of, sign, f, g, w, k, p) ==
  /\ value = [of |-> of, sign |-> sign, i |-> value.i, j |-> value.j]
  /\ value.i \in Int /\ value.j \in Int
  /\ 2 * value.i + 1 - g.x = 4 + TurnX(k, Off(p[1], f.x, DirX(w)), Off(p[2], f.y, DirY(w)))
  /\ 2 * value.j + 1 - g.y = 4 + TurnY(k, Off(p[1], f.x, DirX(w)), Off(p[2], f.y, DirY(w)))

(* An array of the values that the points of a halo are to receive. *)
HaloArray(R, of, sign, f, g, w, k, region) ==
  /\ Proper(R)
  /\ R.nx = Extent(region.x) /\ R.ny = Extent(region.y)
  /\ \A a \in 0..(R.nx - 1), b \in 0..(R.ny - 1) :
       Received(R.at[<<a, b>>], of, sign, f, g, w, k, <<region.x.start + a, region.y.start + b>>)

(* Along an axis: the way across a boundary, and the way back. *)
ThereAndHere(d, o, points, a) ==
  /\ CountOf(-d, o, points) = CountOf(d, o, points) /\ CountOf(d, o, points) \in Int
  /\ InnerStart(d, o, points) \in Int /\ InnerStart(-d, o, points) \in Int /\ HaloStart(d, o, points) \in Int
  /\ 2 * (InnerStart(-d, o, points) + a) + 1 - o = 4 + Off(HaloStart(d, o, points) + a, o, d)
  /\ 2 * (InnerStart(d, o, points) + (CountOf(d, o, points) - 1 - a)) + 1 - o
       = 4 + (-Off(HaloStart(d, o, points) + a, o, d))

(* Along either axis the points sent are as many as the halo has, each *)
(* as far from the boundary as the halo point it fills.                *)
LEMMA AlongAnAxis ==
  ASSUME NEW d \in {-1, 0, 1}, NEW o \in 0..1, NEW points \in {1, 3}, NEW a \in Int
  PROVE  ThereAndHere(d, o, points, a)
<1> USE DEF ThereAndHere
<1> DEFINE e == -d
<1>0. (d = -1 => e = 1) /\ (d = 0 => e = 0) /\ (d = 1 => e = -1)
  OBVIOUS
<1> HIDE DEF e
<1>1. CASE d = -1
  BY <1>0, <1>1 DEF CountOf, InnerStart, HaloStart, Off, Width, e
<1>2. CASE d = 0
  <2>1. /\ CountOf(e, o, points) = 4 + o /\ CountOf(d, o, points) = 4 + o
        /\ InnerStart(d, o, points) = 0 /\ InnerStart(e, o, points) = 0 /\ HaloStart(d, o, points) = 0
    BY <1>0, <1>2 DEF CountOf, InnerStart, HaloStart, Width
  <2>2. Off(0 + a, o, d) = 2 * a + 1 - o - 4
    BY <1>2 DEF Off
  <2>3. /\ CountOf(e, o, points) = CountOf(d, o, points) /\ CountOf(d, o, points) \in Int
         /\ InnerStart(d, o, points) \in Int /\ InnerStart(e, o, points) \in Int /\ HaloStart(d, o, points) \in Int
         /\ 2 * (InnerStart(e, o, points) + a) + 1 - o = 4 + Off(HaloStart(d, o, points) + a, o, d)
         /\ 2 * (InnerStart(d, o, points) + (CountOf(d, o, points) - 1 - a)) + 1 - o
              = 4 + (-Off(HaloStart(d, o, points) + a, o, d))
    BY <2>1, <2>2
  <2> QED BY <2>3 DEF e
<1>3. CASE d = 1
  BY <1>0, <1>3 DEF CountOf, InnerStart, HaloStart, Off, Width, e
<1> QED BY <1>1, <1>2, <1>3

(* A boundary's points, turned, are such an array for the boundary that *)
(* faces it;                                                            *)
LEMMA HaloIsTurned ==
  ASSUME NEW of, NEW f, IsField(f), NEW g, IsField(g), NEW k, NEW w, NEW u, Faces(w, u, k), Turns(k, f, g),
         NEW points \in {1, 3}, NEW rotations, rotations % 4 = k
  PROVE  HaloArray(RotateScalarData(Sent(of, g, Width, u, points), rotations), of, 1, f, g, w, k,
                   HaloSlices(f, Width, w, points))
<1> DEFINE view == Sent(of, g, Width, u, points)
           R == RotateScalarData(view, rotations)
           region == HaloSlices(f, Width, w, points)
           xs == InnerStart(DirX(u), g.x, points)
           ys == InnerStart(DirY(u), g.y, points)
           rx == region.x.start
           ry == region.y.start
           dx == DirX(w)
           dy == DirY(w)
<1>1. w \in Types /\ u \in Types /\ k \in {0, 1, 3}
  BY DEF Faces
<1>2. SentArray(view, of, g, u, points)
  BY <1>1, SentIs
<1>3. /\ Proper(view)
      /\ view.nx = CountOf(DirX(u), g.x, points)
      /\ view.ny = CountOf(DirY(u), g.y, points)
      /\ view.nx \in Nat /\ view.ny \in Nat
      /\ \A a \in 0..(view.nx - 1), b \in 0..(view.ny - 1) :
           view.at[<<a, b>>] = [of |-> of, sign |-> 1, i |-> xs + a, j |-> ys + b]
  <2> HIDE DEF view
  <2> QED BY <1>2, Zenon DEF SentArray, Proper, IsArray
<1>4. HaloSlicesOf(region, f, w, points)
  BY <1>1, HaloSlicesAre
<1>5. /\ rx = HaloStart(dx, f.x, points)
      /\ ry = HaloStart(dy, f.y, points)
      /\ Extent(region.x) = CountOf(dx, f.x, points)
      /\ Extent(region.y) = CountOf(dy, f.y, points)
  <2> HIDE DEF region
  <2> QED BY <1>4 DEF HaloSlicesOf
<1>6. RotatedArray(R, view, k)
  <2> HIDE DEF view
  <2> QED BY <1>1, <1>3, RotatedIs
<1> HIDE DEF view, R, region
<1>7. dx \in {-1, 0, 1} /\ dy \in {-1, 0, 1} /\ DirX(u) = TurnX(k, -dx, -dy) /\ DirY(u) = TurnY(k, -dx, -dy)
  BY DEF DirX, DirY, Faces
<1>8. /\ f.x \in 0..1 /\ f.y \in 0..1
      /\ g.x = (IF k = 0 THEN f.x ELSE f.y) /\ g.y = (IF k = 0 THEN f.y ELSE f.x)
  BY DEF IsField, Turns
<1> DEFINE ux == DirX(u)
           uy == DirY(u)
<1> HIDE DEF xs, ys, rx, ry, dx, dy, ux, uy
<1>9. /\ xs = InnerStart(ux, g.x, points) /\ ys = InnerStart(uy, g.y, points)
      /\ view.nx = CountOf(ux, g.x, points) /\ view.ny = CountOf(uy, g.y, points)
      /\ ux = TurnX(k, -dx, -dy) /\ uy = TurnY(k, -dx, -dy)
  BY <1>3, <1>7 DEF xs, ys, ux, uy, dx, dy
<1> DEFINE A(a) == Off(rx + a, f.x, dx)
           B(b) == Off(ry + b, f.y, dy)
           Got(c, d) == [of |-> of, sign |-> 1, i |-> xs + c, j |-> ys + d]
<1>10. ASSUME NEW a \in Int
       PROVE  /\ 2 * (InnerStart(-dx, f.x, points) + a) + 1 - f.x = 4 + A(a)
              /\ 2 * (InnerStart(dx, f.x, points) + (CountOf(dx, f.x, points) - 1 - a)) + 1 - f.x = 4 + (-A(a))
              /\ CountOf(-dx, f.x, points) = CountOf(dx, f.x, points) /\ CountOf(dx, f.x, points) \in Int
              /\ InnerStart(dx, f.x, points) \in Int /\ InnerStart(-dx, f.x, points) \in Int
  <2>1. dx \in {-1, 0, 1} /\ f.x \in 0..1 /\ A(a) = Off(HaloStart(dx, f.x, points) + a, f.x, dx)
    BY <1>5, <1>7, <1>8
  <2>2. ThereAndHere(dx, f.x, points, a)
    BY <2>1, AlongAnAxis
  <2> HIDE DEF A
  <2> QED BY <2>1, <2>2, Zenon DEF ThereAndHere
<1>11. ASSUME NEW a \in Int
       PROVE  /\ 2 * (InnerStart(-dy, f.y, points) + a) + 1 - f.y = 4 + B(a)
              /\ 2 * (InnerStart(dy, f.y, points) + (CountOf(dy, f.y, points) - 1 - a)) + 1 - f.y = 4 + (-B(a))
              /\ CountOf(-dy, f.y, points) = CountOf(dy, f.y, points) /\ CountOf(dy, f.y, points) \in Int
              /\ InnerStart(dy, f.y, points) \in Int /\ InnerStart(-dy, f.y, points) \in Int
  <2>1. dy \in {-1, 0, 1} /\ f.y \in 0..1 /\ B(a) = Off(HaloStart(dy, f.y, points) + a, f.y, dy)
    BY <1>5, <1>7, <1>8
  <2>2. ThereAndHere(dy, f.y, points, a)
    BY <2>1, AlongAnAxis
  <2> HIDE DEF B
  <2> QED BY <2>1, <2>2, Zenon DEF ThereAndHere
<1> DEFINE Goal(a, b, c, d) ==
             /\ 2 * (xs + c) + 1 - g.x = 4 + TurnX(k, A(a), B(b))
             /\ 2 * (ys + d) + 1 - g.y = 4 + TurnY(k, A(a), B(b))
             /\ xs + c \in Int /\ ys + d \in Int
<1> HIDE DEF A, B
<1>12. ASSUME NEW a, NEW b, NEW c, NEW d, Goal(a, b, c, d), NEW v, v = Got(c, d)
       PROVE  Received(v, of, 1, f, g, w, k, <<rx + a, ry + b>>)
  <2>1. v.i = xs + c /\ v.j = ys + d /\ <<rx + a, ry + b>>[1] = rx + a /\ <<rx + a, ry + b>>[2] = ry + b
    BY <1>12
  <2>2. v = [of |-> of, sign |-> 1, i |-> v.i, j |-> v.j]
    BY <1>12, <2>1, Zenon
  <2> QED BY <1>12, <2>1, <2>2, Zenon DEF Received, A, B, dx, dy
<1>13. /\ R.nx = Extent(region.x) /\ R.ny = Extent(region.y) /\ Proper(R)
       /\ \A a \in 0..(R.nx - 1), b \in 0..(R.ny - 1) : \E c, d : Goal(a, b, c, d) /\ R.at[<<a, b>>] = Got(c, d)
  <2>0. 0 \in Int
    OBVIOUS
  <2>1. CASE k = 0
    <3>1. ux = -dx /\ uy = -dy /\ g.x = f.x /\ g.y = f.y
      BY <1>8, <1>9, <2>1 DEF TurnX, TurnY
    <3>2. R = view /\ Proper(R)
      BY <1>6, <2>1 DEF RotatedArray
    <3>3. R.nx = Extent(region.x) /\ R.ny = Extent(region.y)
      BY <2>0, <1>5, <1>9, <1>10, <1>11, <3>1, <3>2
    <3>4. ASSUME NEW a \in 0..(R.nx - 1), NEW b \in 0..(R.ny - 1)
          PROVE  Goal(a, b, a, b) /\ R.at[<<a, b>>] = Got(a, b)
      <4>1. R.at[<<a, b>>] = Got(a, b)
        BY <1>3, <3>2
      <4>2. Goal(a, b, a, b)
        <5>1. a \in Int /\ b \in Int
          BY <3>3, <3>2, <1>3
        <5>2. 2 * (InnerStart(-dx, f.x, points) + a) + 1 - f.x = 4 + A(a) /\ InnerStart(-dx, f.x, points) \in Int
          BY <5>1, <1>10
        <5>3. 2 * (InnerStart(-dy, f.y, points) + b) + 1 - f.y = 4 + B(b) /\ InnerStart(-dy, f.y, points) \in Int
          BY <5>1, <1>11
        <5> QED BY <1>9, <5>1, <5>2, <5>3, <2>1, <3>1 DEF TurnX, TurnY
      <4> QED BY <4>1, <4>2
    <3> HIDE DEF Goal
    <3>5. \A a \in 0..(R.nx - 1), b \in 0..(R.ny - 1) : \E c, d : Goal(a, b, c, d) /\ R.at[<<a, b>>] = Got(c, d)
      BY <3>4, Zenon
    <3> QED BY <3>2, <3>3, <3>5, Zenon
  <2>2. CASE k = 1
    <3>1. ux = dy /\ uy = -dx /\ g.x = f.y /\ g.y = f.x
      BY <1>7, <1>8, <1>9, <2>2 DEF TurnX, TurnY
    <3>2. R.nx = view.ny /\ R.ny = view.nx /\ Proper(R) /\ view.nx \in Int /\ view.ny \in Int
          /\ \A a \in 0..(view.ny - 1), b \in 0..(view.nx - 1) : R.at[<<a, b>>] = view.at[<<view.nx - 1 - b, a>>]
      BY <1>3, <1>6, <2>2 DEF RotatedArray
    <3>3. R.nx = Extent(region.x) /\ R.ny = Extent(region.y)
      BY <2>0, <1>5, <1>9, <1>10, <1>11, <3>1, <3>2
    <3>4. ASSUME NEW a \in 0..(R.nx - 1), NEW b \in 0..(R.ny - 1)
          PROVE  Goal(a, b, view.nx - 1 - b, a) /\ R.at[<<a, b>>] = Got(view.nx - 1 - b, a)
      <4>1. R.at[<<a, b>>] = Got(view.nx - 1 - b, a)
        <5>1. view.nx - 1 - b \in 0..(view.nx - 1) /\ a \in 0..(view.ny - 1)
          BY <3>2
        <5>2. view.at[<<view.nx - 1 - b, a>>] = Got(view.nx - 1 - b, a)
          BY <1>3, <5>1, Zenon
        <5> QED BY <3>2, <5>2
      <4>2. Goal(a, b, view.nx - 1 - b, a)
        <5>1. a \in Int /\ b \in Int
          BY <3>2
        <5>2. 2 * (InnerStart(-dx, f.x, points) + a) + 1 - f.x = 4 + A(a) /\ InnerStart(-dx, f.x, points) \in Int
          BY <5>1, <1>10
        <5>3. /\ 2 * (InnerStart(dy, f.y, points) + (CountOf(dy, f.y, points) - 1 - b)) + 1 - f.y = 4 + (-B(b))
              /\ InnerStart(dy, f.y, points) \in Int
          BY <5>1, <1>11
        <5> QED BY <1>9, <5>1, <5>2, <5>3, <2>2, <3>1, <3>2 DEF TurnX, TurnY
      <4> QED BY <4>1, <4>2
    <3> HIDE DEF Goal
    <3> QED BY <3>2, <3>3, <3>4, Zenon
  <2>3. CASE k = 3
    <3>1. ux = -dy /\ uy = dx /\ g.x = f.y /\ g.y = f.x
      BY <1>7, <1>8, <1>9, <2>3 DEF TurnX, TurnY
    <3>2. R.nx = view.ny /\ R.ny = view.nx /\ Proper(R) /\ view.nx \in Int /\ view.ny \in Int
          /\ \A a \in 0..(view.ny - 1), b \in 0..(view.nx - 1) : R.at[<<a, b>>] = view.at[<<b, view.ny - 1 - a>>]
      BY <1>3, <1>6, <2>3 DEF RotatedArray
    <3>3. R.nx = Extent(region.x) /\ R.ny = Extent(region.y)
      BY <2>0, <1>5, <1>9, <1>10, <1>11, <3>1, <3>2
    <3>4. ASSUME NEW a \in 0..(R.nx - 1), NEW b \in 0..(R.ny - 1)
          PROVE  Goal(a, b, b, view.ny - 1 - a) /\ R.at[<<a, b>>] = Got(b, view.ny - 1 - a)
      <4>1. R.at[<<a, b>>] = Got(b, view.ny - 1 - a)
        <5>1. view.ny - 1 - a \in 0..(view.ny - 1) /\ b \in 0..(view.nx - 1)
          BY <3>2
        <5>2. view.at[<<b, view.ny - 1 - a>>] = Got(b, view.ny - 1 - a)
          BY <1>3, <5>1, Zenon
        <5> QED BY <3>2, <5>2
      <4>2. Goal(a, b, b, view.ny - 1 - a)
        <5>1. a \in Int /\ b \in Int
          BY <3>2
        <5>2. /\ 2 * (InnerStart(dx, f.x, points) + (CountOf(dx, f.x, points) - 1 - a)) + 1 - f.x = 4 + (-A(a))
              /\ InnerStart(dx, f.x, points) \in Int
          BY <5>1, <1>10
        <5>3. 2 * (InnerStart(-dy, f.y, points) + b) + 1 - f.y = 4 + B(b) /\ InnerStart(-dy, f.y, points) \in Int
          BY <5>1, <1>11
        <5> QED BY <1>9, <5>1, <5>2, <5>3, <2>3, <3>1, <3>2 DEF TurnX, TurnY
      <4> QED BY <4>1, <4>2
    <3> HIDE DEF Goal
    <3> QED BY <3>2, <3>3, <3>4, Zenon
  <2> QED BY <1>1, <2>1, <2>2, <2>3
<1> HIDE DEF Goal, Got
<1>14. \A a \in 0..(R.nx - 1), b \in 0..(R.ny - 1) : Received(R.at[<<a, b>>], of, 1, f, g, w, k, <<rx + a, ry + b>>)
  BY <1>12, <1>13, Zenon
<1>15. HaloArray(R, of, 1, f, g, w, k, region)
  BY <1>13, <1>14, Zenon DEF HaloArray, rx, ry
<1> QED BY <1>15 DEF R, view, region

-----------------------------------------------------------------------------
(* What the receiver finds in its halo, in the code for either processor.  *)

(* and with their signs changed as well, of opposite sign. *)
LEMMA MinusIsTurned ==
  ASSUME NEW R, NEW of, NEW f, NEW g, NEW w, NEW k, NEW region, HaloArray(R, of, 1, f, g, w, k, region)
  PROVE  HaloArray(MinusView(R), of, -1, f, g, w, k, region)
<1> DEFINE M == MinusView(R)
<1>1. /\ IsArray(R) /\ R = Array(R.nx, R.ny, R.at)
      /\ R.nx = Extent(region.x) /\ R.ny = Extent(region.y)
      /\ \A a \in 0..(R.nx - 1), b \in 0..(R.ny - 1) :
           Received(R.at[<<a, b>>], of, 1, f, g, w, k, <<region.x.start + a, region.y.start + b>>)
  BY Zenon DEF HaloArray, Proper
<1>2. /\ IsArray(M) /\ M.nx = R.nx /\ M.ny = R.ny
      /\ \A p \in Indices(R) : M.at[p] = Minus(R.at[p])
  BY <1>1, MinusInOrder
<1>3. M = Array(M.nx, M.ny, M.at)
  <2>1. M = Array(R.nx, R.ny, [p \in Indices(R) |-> Minus(R.at[p])])
    <3>1. R = [nx |-> R.nx, ny |-> R.ny, at |-> R.at]
      BY <1>1 DEF Array
    <3>2. M = [R EXCEPT !.at = [p \in Indices(R) |-> Minus(R.at[p])]]
      BY DEF MinusView
    <3> DEFINE F == [p \in Indices(R) |-> Minus(R.at[p])]
    <3> HIDE DEF F, M
    <3>3. M = [R EXCEPT !.at = F]
      BY <3>2 DEF F
    <3>4. M = [nx |-> R.nx, ny |-> R.ny, at |-> F]
      BY <3>1, <3>3
    <3> QED BY <3>4 DEF Array, F
  <2> DEFINE F == [p \in Indices(R) |-> Minus(R.at[p])]
  <2> HIDE DEF F, M
  <2>2. M = Array(R.nx, R.ny, F)
    BY <2>1 DEF F
  <2> QED BY <2>2 DEF Array
<1> HIDE DEF M
<1>4. ASSUME NEW a \in 0..(M.nx - 1), NEW b \in 0..(M.ny - 1)
      PROVE  Received(M.at[<<a, b>>], of, -1, f, g, w, k, <<region.x.start + a, region.y.start + b>>)
  <2> DEFINE v == R.at[<<a, b>>]
             m == M.at[<<a, b>>]
  <2>1. <<a, b>> \in Indices(R) /\ a \in 0..(R.nx - 1) /\ b \in 0..(R.ny - 1)
    BY <1>2 DEF Indices
  <2>2. m = Minus(v)
    BY <1>2, <2>1
  <2>3. Received(v, of, 1, f, g, w, k, <<region.x.start + a, region.y.start + b>>)
    BY <1>1, <2>1
  <2> HIDE DEF v, m
  <2>4. v = [of |-> of, sign |-> 1, i |-> v.i, j |-> v.j]
    BY <2>3, Zenon DEF Received
  <2>5. m = [of |-> of, sign |-> -1, i |-> v.i, j |-> v.j]
    BY <2>2, <2>4 DEF Minus
  <2>6. m.i = v.i /\ m.j = v.j
    BY <2>5
  <2>7. m = [of |-> of, sign |-> -1, i |-> m.i, j |-> m.j]
    BY <2>5, <2>6, Zenon
  <2>8. Received(m, of, -1, f, g, w, k, <<region.x.start + a, region.y.start + b>>)
    BY <2>3, <2>6, <2>7, Zenon DEF Received
  <2> QED BY <2>8 DEF m
<1>5. HaloArray(M, of, -1, f, g, w, k, region)
  BY <1>1, <1>2, <1>3, <1>4, Zenon DEF HaloArray, Proper
<1> QED BY <1>5 DEF M

(* What a rank finds in its halo. *)
Found(buffer, fields, q, w, points, of, sign, g, k) ==
  LET halo == Unpacked(buffer, fields, q, Width, w, points)
  IN  /\ halo = OptUnpacked(buffer, fields, q, Width, w, points)
      /\ DOMAIN halo = PointsIn(HaloSlices(fields[q], Width, w, points))
      /\ \A p \in DOMAIN halo : Received(halo[p], of, sign, fields[q], g, w, k, p)

(* Such an array in its part of the buffer is found in the halo. *)
LEMMA HaloFound ==
  ASSUME NEW buffer, NEW fields, NEW q, NEW w \in Types, NEW points \in {1, 3}, NEW of, NEW sign, NEW g, NEW k,
         NEW R, IsField(fields[q]), Offset(fields, q, Width, w, points) \in Int,
         IsPart(buffer, fields, q, Width, w, points, R),
         HaloArray(R, of, sign, fields[q], g, w, k, HaloSlices(fields[q], Width, w, points))
  PROVE  Found(buffer, fields, q, w, points, of, sign, g, k)
<1> DEFINE region == HaloSlices(fields[q], Width, w, points)
           halo == Unpacked(buffer, fields, q, Width, w, points)
<1>1. HaloSlicesOf(region, fields[q], w, points)
  BY HaloSlicesAre
<1>2. region.x.start \in Int /\ region.x.stop \in Int /\ region.y.start \in Int /\ region.y.stop \in Int
      /\ Extent(region.x) \in Nat /\ Extent(region.y) \in Nat
  <2> HIDE DEF region
  <2> QED BY <1>1 DEF HaloSlicesOf
<1>3. halo = OptUnpacked(buffer, fields, q, Width, w, points)
  BY <1>2, OptUnpackedIs
<1>4. R.nx = Extent(region.x) /\ R.ny = Extent(region.y)
      /\ \A a \in 0..(R.nx - 1), b \in 0..(R.ny - 1) :
           Received(R.at[<<a, b>>], of, sign, fields[q], g, w, k, <<region.x.start + a, region.y.start + b>>)
  BY Zenon DEF HaloArray
<1>5. /\ DOMAIN halo = PointsIn(region)
      /\ \A p \in PointsIn(region) :
           /\ p[1] - region.x.start \in 0..(R.nx - 1)
           /\ p[2] - region.y.start \in 0..(R.ny - 1)
           /\ halo[p] = R.at[<<p[1] - region.x.start, p[2] - region.y.start>>]
  BY <1>2, <1>4, UnpackedIs
<1>6. PointsIn(region) = (region.x.start..(region.x.stop - 1)) \X (region.y.start..(region.y.stop - 1))
  BY DEF PointsIn
<1> HIDE DEF region, halo
<1>7. ASSUME NEW p \in PointsIn(region) PROVE Received(halo[p], of, sign, fields[q], g, w, k, p)
  <2> DEFINE a == p[1] - region.x.start
             b == p[2] - region.y.start
  <2>1. a \in 0..(R.nx - 1) /\ b \in 0..(R.ny - 1) /\ halo[p] = R.at[<<a, b>>]
    BY <1>5
  <2>2. p = <<region.x.start + a, region.y.start + b>>
    BY <1>2, <1>6
  <2> HIDE DEF a, b
  <2> QED BY <1>4, <2>1, <2>2, Zenon
<1> QED BY <1>3, <1>5, <1>7, Zenon DEF Found, halo, region

(* So are three scalars in one message, *)
LEMMA ScalarHalosFound ==
  ASSUME NEW w, NEW u, NEW k, Faces(w, u, k), NEW points \in {1, 3}, NEW order, NEW rotations, (-rotations) % 4 = k
  PROVE  LET fields == Scalars(order)
             buffer == PackScalar(fields, Width, u, points, rotations)
         IN  /\ buffer = OptPackScalar(fields, Width, u, points, rotations)
             /\ \A q \in 1..3 : Found(buffer, fields, q, w, points, "s", 1, fields[q], k)
<1> DEFINE fields == Scalars(order)
           buffer == PackScalar(fields, Width, u, points, rotations)
           Turned1(q) == RotateScalarData(Sent("s", fields[q], Width, u, points), -rotations)
           S(q) == HaloSlices(fields[q], Width, w, points)
           z(q) == SlicesSize(S(q))
<1>1. w \in Types /\ u \in Types /\ k \in {0, 1, 3}
  BY DEF Faces
<1>2. \A q \in 1..3 : fields[q].order = order /\ IsField(fields[q]) /\ fields[q].x = fields[q].y
  BY DEF Scalars, Field, IsField
<1>3. DOMAIN fields = 1..3
  BY DEF Scalars
<1>4. buffer = OptPackScalar(fields, Width, u, points, rotations)
  <2> HIDE DEF fields
  <2> QED BY Zenon DEF PackScalar, OptPackScalar, SendIndices, BuildFlattenIndices, Sent
<1>5. buffer = FlattenSeq([q \in 1..3 |-> Flatten(Turned1(q), order)])
  <2>1. buffer = FlattenSeq([q \in DOMAIN fields |-> Flatten(Turned1(q), fields[q].order)])
    BY DEF PackScalar
  <2> HIDE DEF fields, buffer, Turned1
  <2>2. [q \in DOMAIN fields |-> Flatten(Turned1(q), fields[q].order)] = [q \in 1..3 |-> Flatten(Turned1(q), order)]
    BY <1>2, <1>3
  <2> QED BY <2>1, <2>2, Zenon
<1>6. ASSUME NEW q \in 1..3
      PROVE  /\ HaloArray(Turned1(q), "s", 1, fields[q], fields[q], w, k, S(q))
             /\ IsArray(Turned1(q))
             /\ z(q) = Turned1(q).nx * Turned1(q).ny /\ z(q) \in Int
  <2>1. IsField(fields[q]) /\ Turns(k, fields[q], fields[q])
    BY <1>2 DEF Turns
  <2>2. HaloArray(Turned1(q), "s", 1, fields[q], fields[q], w, k, S(q))
    <3> HIDE DEF fields
    <3> QED BY <2>1, HaloIsTurned
  <2> HIDE DEF fields, S, Turned1
  <2>3. IsArray(Turned1(q)) /\ Turned1(q).nx = Extent(S(q).x) /\ Turned1(q).ny = Extent(S(q).y)
    BY <2>2, Zenon DEF HaloArray, Proper
  <2> QED BY <2>2, <2>3 DEF SlicesSize, IsArray
<1>7. /\ Offset(fields, 1, Width, w, points) \in Int
      /\ Offset(fields, 2, Width, w, points) \in Int
      /\ Offset(fields, 3, Width, w, points) \in Int
  <2>1. \A q \in 1..2 : SlicesSize(HaloSlices(fields[q], Width, w, points)) \in Int
    <3> TAKE q \in 1..2
    <3>1. q \in 1..3
      OBVIOUS
    <3> QED BY <1>6, <3>1
  <2>2. /\ Offset(fields, 1, Width, w, points) = 0
        /\ Offset(fields, 2, Width, w, points) = z(1)
        /\ Offset(fields, 3, Width, w, points) = z(1) + z(2)
    <3> HIDE DEF fields
    <3> QED BY <2>1, OffsetIs
  <2>3. z(1) \in Int /\ z(2) \in Int
    BY <2>1
  <2> HIDE DEF z, fields
  <2> QED BY <2>2, <2>3
<1> DEFINE r1 == Turned1(1)
           r2 == Turned1(2)
           r3 == Turned1(3)
<1>8. [q \in 1..3 |-> Flatten(Turned1(q), order)] = <<Flatten(r1, order), Flatten(r2, order), Flatten(r3, order)>>
  <2> HIDE DEF Turned1
  <2> QED OBVIOUS
<1>9. /\ IsPart(buffer, fields, 1, Width, w, points, r1)
      /\ IsPart(buffer, fields, 2, Width, w, points, r2)
      /\ IsPart(buffer, fields, 3, Width, w, points, r3)
  <2>1. /\ IsArray(r1) /\ IsArray(r2) /\ IsArray(r3) 
        /\ SlicesSize(HaloSlices(fields[1], Width, w, points)) = r1.nx * r1.ny
        /\ SlicesSize(HaloSlices(fields[2], Width, w, points)) = r2.nx * r2.ny
    <3>1. 1 \in 1..3 /\ 2 \in 1..3 /\ 3 \in 1..3
      OBVIOUS
    <3> QED BY <1>6, <3>1, Zenon
  <2>2. \A q \in 1..3 : fields[q].order = order
    BY <1>2
  <2> HIDE DEF fields, r1, r2, r3, buffer
  <2>3. /\ IsPart(FlattenSeq(<<Flatten(r1, order), Flatten(r2, order), Flatten(r3, order)>>), fields, 1, Width, w, points, r1)
        /\ IsPart(FlattenSeq(<<Flatten(r1, order), Flatten(r2, order), Flatten(r3, order)>>), fields, 2, Width, w, points, r2)
        /\ IsPart(FlattenSeq(<<Flatten(r1, order), Flatten(r2, order), Flatten(r3, order)>>), fields, 3, Width, w, points, r3)
    BY <2>1, <2>2, ThreeParts
  <2>4. buffer = FlattenSeq(<<Flatten(r1, order), Flatten(r2, order), Flatten(r3, order)>>)
    BY <1>5, <1>8, Zenon
  <2> QED BY <2>3, <2>4, Zenon
<1>10. ASSUME NEW q \in 1..3
       PROVE  Found(buffer, fields, q, w, points, "s", 1, fields[q], k)
  <2>1. IsPart(buffer, fields, q, Width, w, points, Turned1(q)) /\ Offset(fields, q, Width, w, points) \in Int
    <3>1. q = 1 \/ q = 2 \/ q = 3
      OBVIOUS
    <3> HIDE DEF fields, buffer
    <3> QED BY <1>7, <1>9, <3>1, Zenon
  <2>2. HaloArray(Turned1(q), "s", 1, fields[q], fields[q], w, k, S(q)) /\ IsField(fields[q])
    BY <1>2, <1>6
  <2> HIDE DEF fields, buffer, Turned1
  <2> QED BY <1>1, <2>1, <2>2, HaloFound
<1> QED BY <1>4, <1>10

(* The component of the sender that arrives as the receiver's, and its sign. *)
ArrivesAsX(k) == IF k = 0 THEN "x" ELSE "y"
ArrivesAsY(k) == IF k = 0 THEN "y" ELSE "x"
SignOfX(k) == IF k = 3 THEN -1 ELSE 1
SignOfY(k) == IF k = 1 THEN -1 ELSE 1

(* The fields of a vector mirror each other. *)
LEMMA VectorIs ==
  ASSUME NEW order, NEW v \in Vectors(order)
  PROVE  /\ IsField(v.x) /\ IsField(v.y) /\ v.x.order = order /\ v.y.order = order
         /\ v.x.x = v.y.y /\ v.x.y = v.y.x
         /\ v["x"] = v.x /\ v["y"] = v.y
BY DEF Vectors, Field, IsField

(* Two rotated components, one after the other. *)
LEMMA TwoFound ==
  ASSUME NEW w \in Types, NEW points \in {1, 3}, NEW order, NEW fields, NEW k,
         IsField(fields[1]), IsField(fields[2]), fields[1].order = order, fields[2].order = order,
         NEW r1, NEW of1, NEW sign1, NEW g1, NEW r2, NEW of2, NEW sign2, NEW g2,
         HaloArray(r1, of1, sign1, fields[1], g1, w, k, HaloSlices(fields[1], Width, w, points)),
         HaloArray(r2, of2, sign2, fields[2], g2, w, k, HaloSlices(fields[2], Width, w, points)),
         NEW buffer, buffer = Flatten(r1, order) \o Flatten(r2, order)
  PROVE  /\ Found(buffer, fields, 1, w, points, of1, sign1, g1, k)
         /\ Found(buffer, fields, 2, w, points, of2, sign2, g2, k)
<1> DEFINE s1 == HaloSlices(fields[1], Width, w, points)
           s2 == HaloSlices(fields[2], Width, w, points)
<1>1. /\ IsArray(r1) /\ r1.nx = Extent(s1.x) /\ r1.ny = Extent(s1.y)
      /\ IsArray(r2) /\ r2.nx = Extent(s2.x) /\ r2.ny = Extent(s2.y)
  BY Zenon DEF HaloArray, Proper
<1> HIDE DEF s1, s2
<1>2. /\ SlicesSize(s1) = r1.nx * r1.ny /\ SlicesSize(s1) \in Int /\ SlicesSize(s2) \in Int
  BY <1>1 DEF SlicesSize, IsArray
<1>3. \A q \in 1..2 : SlicesSize(HaloSlices(fields[q], Width, w, points)) \in Int
  <2> TAKE q \in 1..2
  <2>1. q = 1 \/ q = 2
    OBVIOUS
  <2> QED BY <1>2, <2>1 DEF s1, s2
<1>4. /\ Offset(fields, 1, Width, w, points) = 0
      /\ Offset(fields, 2, Width, w, points) = SlicesSize(s1)
  BY <1>3, OffsetIs DEF s1
<1>5. Offset(fields, 1, Width, w, points) \in Int /\ Offset(fields, 2, Width, w, points) \in Int
  BY <1>2, <1>4
<1>6. /\ IsPart(buffer, fields, 1, Width, w, points, r1)
      /\ IsPart(buffer, fields, 2, Width, w, points, r2)
  <2>1. SlicesSize(HaloSlices(fields[1], Width, w, points)) = r1.nx * r1.ny
    BY <1>2 DEF s1
  <2>2. /\ IsPart(Flatten(r1, order) \o Flatten(r2, order), fields, 1, Width, w, points, r1)
        /\ IsPart(Flatten(r1, order) \o Flatten(r2, order), fields, 2, Width, w, points, r2)
    BY <1>1, <1>3, <2>1, TwoParts
  <2> QED BY <2>2, Zenon
<1>7. Found(buffer, fields, 1, w, points, of1, sign1, g1, k)
  BY <1>5, <1>6, HaloFound
<1>8. Found(buffer, fields, 2, w, points, of2, sign2, g2, k)
  BY <1>5, <1>6, HaloFound
<1> QED BY <1>7, <1>8

(* and the two components of a vector. *)
LEMMA VectorHalosFound ==
  ASSUME NEW w, NEW u, NEW k, Faces(w, u, k), NEW points \in {1, 3}, NEW order, NEW v \in Vectors(order),
         NEW rotations, (-rotations) % 4 = k
  PROVE  LET fields == <<v.x, v.y>>
             buffer == PackVector(v.x, v.y, Width, u, points, rotations)
         IN  /\ buffer = OptPackVector(v.x, v.y, Width, u, points, rotations)
             /\ Found(buffer, fields, 1, w, points, ArrivesAsX(k), SignOfX(k), v[ArrivesAsX(k)], k)
             /\ Found(buffer, fields, 2, w, points, ArrivesAsY(k), SignOfY(k), v[ArrivesAsY(k)], k)
<1> DEFINE fields == <<v.x, v.y>>
           buffer == PackVector(v.x, v.y, Width, u, points, rotations)
           sx == Sent("x", v.x, Width, u, points)
           sy == Sent("y", v.y, Width, u, points)
           X == RotateScalarData(sx, -rotations)
           Y == RotateScalarData(sy, -rotations)
           fx == v.x
           fy == v.y
           H(f) == HaloSlices(f, Width, w, points)
<1>1. w \in Types /\ u \in Types /\ k \in {0, 1, 3}
  BY DEF Faces
<1>2. /\ IsField(fx) /\ IsField(fy) /\ fx.order = order /\ fy.order = order
      /\ fx.x = fy.y /\ fx.y = fy.x /\ v["x"] = fx /\ v["y"] = fy
  BY VectorIs
<1>3. buffer = LET views == RotateVectorData(sx, sy, -rotations) IN Flatten(views[1], order) \o Flatten(views[2], order)
  <2> HIDE DEF fx, fy, sx, sy
  <2> QED BY <1>2, Zenon DEF PackVector, fx, fy, sx, sy
<1>4. OptPackVector(v.x, v.y, Width, u, points, rotations) = PackVectorKernel(Flatten(X, order), Flatten(Y, order), k)
  <2> HIDE DEF fx, fy
  <2> QED BY <1>2, Zenon DEF OptPackVector, SendIndices, BuildFlattenIndices, Sent, fx, fy
<1>5. /\ k = 0 => RotateVectorData(sx, sy, -rotations) = <<X, Y>>
      /\ k = 1 => RotateVectorData(sx, sy, -rotations) = <<Y, MinusView(X)>>
      /\ k = 3 => RotateVectorData(sx, sy, -rotations) = <<MinusView(Y), X>>
  <2> DEFINE rot == -rotations
  <2>1. rot % 4 = k
    OBVIOUS
  <2> HIDE DEF rot, sx, sy
  <2>2. /\ k = 0 => RotateVectorData(sx, sy, rot) = <<RotateScalarData(sx, rot), RotateScalarData(sy, rot)>>
        /\ k = 1 => RotateVectorData(sx, sy, rot) = <<RotateScalarData(sy, rot), MinusView(RotateScalarData(sx, rot))>>
        /\ k = 3 => RotateVectorData(sx, sy, rot) = <<MinusView(RotateScalarData(sy, rot)), RotateScalarData(sx, rot)>>
    BY <2>1 DEF RotateVectorData
  <2> QED BY <2>2 DEF rot
<1>6. /\ k = 0 => HaloArray(X, "x", 1, fx, fx, w, k, H(fx)) /\ HaloArray(Y, "y", 1, fy, fy, w, k, H(fy))
      /\ k # 0 => HaloArray(X, "x", 1, fy, fx, w, k, H(fy)) /\ HaloArray(Y, "y", 1, fx, fy, w, k, H(fx))
  <2>1. /\ k = 0 => Turns(k, fx, fx) /\ Turns(k, fy, fy)
        /\ k # 0 => Turns(k, fy, fx) /\ Turns(k, fx, fy)
    BY <1>2 DEF Turns
  <2> DEFINE rot == -rotations
  <2>2. rot % 4 = k
    OBVIOUS
  <2> HIDE DEF fx, fy
  <2> QED BY <1>2, <2>1, <2>2, HaloIsTurned DEF fx, fy
<1>7. \A a, b : /\ PackVectorKernel(a, b, 0) = a \o b
                /\ PackVectorKernel(a, b, 1) = b \o MinusSeq(a)
                /\ PackVectorKernel(a, b, 3) = MinusSeq(b) \o a
  BY DEF PackVectorKernel
<1>8. /\ fields[1] = fx /\ fields[2] = fy
  OBVIOUS
<1>9. /\ IsArray(X) /\ X = Array(X.nx, X.ny, X.at)
      /\ IsArray(Y) /\ Y = Array(Y.nx, Y.ny, Y.at)
  <2> HIDE DEF X, Y, fx, fy, H
  <2> QED BY <1>6, Zenon DEF HaloArray, Proper
<1> HIDE DEF fields, buffer, sx, sy, X, Y, fx, fy
<1>10. MinusSeq(Flatten(X, order)) = Flatten(MinusView(X), order) /\ MinusSeq(Flatten(Y, order)) = Flatten(MinusView(Y), order)
  BY <1>9, MinusInOrder
<1> DEFINE Goal == /\ buffer = OptPackVector(v.x, v.y, Width, u, points, rotations)
                   /\ Found(buffer, fields, 1, w, points, ArrivesAsX(k), SignOfX(k), v[ArrivesAsX(k)], k)
                   /\ Found(buffer, fields, 2, w, points, ArrivesAsY(k), SignOfY(k), v[ArrivesAsY(k)], k)
<1>11. ASSUME NEW r1, NEW r2, NEW of1, NEW of2, NEW sign1, NEW sign2, NEW g1, NEW g2,
              HaloArray(r1, of1, sign1, fx, g1, w, k, H(fx)), HaloArray(r2, of2, sign2, fy, g2, w, k, H(fy)),
              RotateVectorData(sx, sy, -rotations) = <<r1, r2>>
       PROVE  /\ buffer = Flatten(r1, order) \o Flatten(r2, order)
              /\ Found(buffer, fields, 1, w, points, of1, sign1, g1, k)
              /\ Found(buffer, fields, 2, w, points, of2, sign2, g2, k)
  <2>1. buffer = Flatten(r1, order) \o Flatten(r2, order)
    <3>1. <<r1, r2>>[1] = r1 /\ <<r1, r2>>[2] = r2
      OBVIOUS
    <3> QED BY <1>3, <1>11, <3>1, Zenon
  <2>2. /\ IsField(fields[1]) /\ IsField(fields[2]) /\ fields[1].order = order /\ fields[2].order = order
        /\ HaloArray(r1, of1, sign1, fields[1], g1, w, k, HaloSlices(fields[1], Width, w, points))
        /\ HaloArray(r2, of2, sign2, fields[2], g2, w, k, HaloSlices(fields[2], Width, w, points))
    BY <1>2, <1>8, <1>11, Zenon
  <2>3. Found(buffer, fields, 1, w, points, of1, sign1, g1, k) /\ Found(buffer, fields, 2, w, points, of2, sign2, g2, k)
    BY <1>1, <2>1, <2>2, TwoFound
  <2> QED BY <2>1, <2>3
<1>12. CASE k = 0
  <2>1. /\ ArrivesAsX(k) = "x" /\ ArrivesAsY(k) = "y" /\ SignOfX(k) = 1 /\ SignOfY(k) = 1
    BY <1>12 DEF ArrivesAsX, ArrivesAsY, SignOfX, SignOfY
  <2>2. /\ buffer = Flatten(X, order) \o Flatten(Y, order)
        /\ Found(buffer, fields, 1, w, points, "x", 1, fx, k)
        /\ Found(buffer, fields, 2, w, points, "y", 1, fy, k)
    BY <1>5, <1>6, <1>11, <1>12
  <2>3. Goal
    BY <1>2, <1>4, <1>7, <1>12, <2>1, <2>2, Zenon
  <2> QED BY <2>3 DEF fields, buffer
<1>13. CASE k = 1
  <2>1. /\ ArrivesAsX(k) = "y" /\ ArrivesAsY(k) = "x" /\ SignOfX(k) = 1 /\ SignOfY(k) = -1
    BY <1>13 DEF ArrivesAsX, ArrivesAsY, SignOfX, SignOfY
  <2>2. k # 0
    BY <1>13
  <2>3. HaloArray(MinusView(X), "x", -1, fy, fx, w, k, H(fy))
    BY <1>6, <2>2, MinusIsTurned
  <2>4. /\ buffer = Flatten(Y, order) \o Flatten(MinusView(X), order)
        /\ Found(buffer, fields, 1, w, points, "y", 1, fy, k)
        /\ Found(buffer, fields, 2, w, points, "x", -1, fx, k)
    BY <1>5, <1>6, <1>11, <1>13, <2>2, <2>3
  <2>5. Goal
    BY <1>2, <1>4, <1>7, <1>10, <1>13, <2>1, <2>4, Zenon
  <2> QED BY <2>5 DEF fields, buffer
<1>14. CASE k = 3
  <2>1. /\ ArrivesAsX(k) = "y" /\ ArrivesAsY(k) = "x" /\ SignOfX(k) = -1 /\ SignOfY(k) = 1
    BY <1>14 DEF ArrivesAsX, ArrivesAsY, SignOfX, SignOfY
  <2>2. k # 0
    BY <1>14
  <2>3. HaloArray(MinusView(Y), "y", -1, fx, fy, w, k, H(fx))
    BY <1>6, <2>2, MinusIsTurned
  <2>4. /\ buffer = Flatten(MinusView(Y), order) \o Flatten(X, order)
        /\ Found(buffer, fields, 1, w, points, "y", -1, fy, k)
        /\ Found(buffer, fields, 2, w, points, "x", 1, fx, k)
    BY <1>5, <1>6, <1>11, <1>14, <2>2, <2>3
  <2>5. Goal
    BY <1>2, <1>4, <1>7, <1>10, <1>14, <2>1, <2>4, Zenon
  <2> QED BY <2>5 DEF fields, buffer
<1> QED BY <1>1, <1>12, <1>13, <1>14

-----------------------------------------------------------------------------
(* Then the sphere: where the points past a tile's edges lie on the next.  *)

(* The eight directions. *)
LEMMA DirsAre ==
  /\ DirX("W") = -1 /\ DirX("E") = 1 /\ DirX("N") = 0 /\ DirX("S") = 0
  /\ DirX("NW") = -1 /\ DirX("SW") = -1 /\ DirX("NE") = 1 /\ DirX("SE") = 1
  /\ DirY("W") = 0 /\ DirY("E") = 0 /\ DirY("N") = 1 /\ DirY("S") = -1
  /\ DirY("NW") = 1 /\ DirY("SW") = -1 /\ DirY("NE") = 1 /\ DirY("SE") = -1
  BY DEF DirX, DirY

(* The boundary back faces the boundary, the other's axes turned. *)
LEMMA AnswersFace ==
  ASSUME NEW n \in Nat \ {0}, NEW t \in 0..5, NEW j \in 0..(n - 1), NEW i \in 0..(n - 1),
         NEW type \in Types, ~AtCubeCorner(type, n, j, i)
  PROVE  Faces(type, Answer(type, n, t, j, i), ToThe(type, n, t, j, i).rotations)
<1> DEFINE u == Answer(type, n, t, j, i)
           k == ToThe(type, n, t, j, i).rotations
<1>1. /\ Faces("W", "E", 0) /\ Faces("E", "W", 0) /\ Faces("N", "S", 0) /\ Faces("S", "N", 0)
      /\ Faces("NW", "SE", 0) /\ Faces("SE", "NW", 0) /\ Faces("NE", "SW", 0) /\ Faces("SW", "NE", 0)
  BY DirsAre DEF Faces, TurnX, TurnY, Types, Edges, Corners
<1>2. /\ Faces("W", "N", 1) /\ Faces("E", "S", 1) /\ Faces("NW", "NE", 1) /\ Faces("NE", "SE", 1)
      /\ Faces("SW", "NW", 1) /\ Faces("SE", "SW", 1)
  BY DirsAre DEF Faces, TurnX, TurnY, Types, Edges, Corners
<1>3. /\ Faces("N", "W", 3) /\ Faces("S", "E", 3) /\ Faces("NW", "SW", 3) /\ Faces("NE", "NW", 3)
      /\ Faces("SW", "SE", 3) /\ Faces("SE", "NE", 3)
  BY DirsAre DEF Faces, TurnX, TurnY, Types, Edges, Corners
<1>4. \A v, h, g, turns : Met(v, h, g, turns).rotations = turns
  BY DEF Met
<1>5. n \in Nat \ {0} /\ j \in Nat /\ j <= n - 1 /\ i \in Nat /\ i <= n - 1 /\ IsEven(t) \in BOOLEAN
  BY DEF IsEven
<1> DEFINE even == IsEven(t)
<1> HIDE DEF even
<1>6. even = IsEven(t) /\ even \in BOOLEAN
  BY <1>5 DEF even
<1>w. CASE type = "W"
  BY <1>1, <1>2, <1>3, <1>4, <1>5, <1>w DEF ToThe, ToTheWest, Answer
<1>e. CASE type = "E"
  BY <1>1, <1>2, <1>3, <1>4, <1>5, <1>e DEF ToThe, ToTheEast, Answer
<1>n. CASE type = "N"
  BY <1>1, <1>2, <1>3, <1>4, <1>5, <1>n DEF ToThe, ToTheNorth, Answer
<1>s. CASE type = "S"
  BY <1>1, <1>2, <1>3, <1>4, <1>5, <1>s DEF ToThe, ToTheSouth, Answer
<1>nw. CASE type = "NW"
  BY <1>1, <1>2, <1>3, <1>4, <1>5, <1>nw DEF ToThe, ToTheNorthWest, Answer, AtCubeCorner
<1>ne. CASE type = "NE"
  BY <1>1, <1>2, <1>3, <1>4, <1>5, <1>ne DEF ToThe, ToTheNorthEast, Answer, AtCubeCorner
<1>sw. CASE type = "SW"
  BY <1>1, <1>2, <1>3, <1>4, <1>5, <1>sw DEF ToThe, ToTheSouthWest, Answer, AtCubeCorner
<1>se. CASE type = "SE"
  BY <1>1, <1>2, <1>3, <1>4, <1>5, <1>se DEF ToThe, ToTheSouthEast, Answer, AtCubeCorner
<1> QED BY <1>w, <1>e, <1>n, <1>s, <1>nw, <1>ne, <1>sw, <1>se DEF Types, Edges, Corners

-----------------------------------------------------------------------------
(* A point past a tile's edge, by the tile and the coordinates it has there, *)
(* k turns round.                                                            *)
ContinuedOn(even, far, near, next, second, k, t, X, Y, L, u, X2, Y2) ==
  \/ X \in 0..L /\ Y \in 0..L /\ k = 0 /\ u = t /\ X2 = X /\ Y2 = Y
  \/ X \in -L..-1 /\ Y \in 0..L
     /\ IF even THEN k = 1 /\ u = far /\ X2 = L - Y /\ Y2 = L + X
        ELSE k = 0 /\ u = near /\ X2 = X + L /\ Y2 = Y
  \/ X \in (L + 1)..(2 * L) /\ Y \in 0..L
     /\ IF even THEN k = 0 /\ u = next /\ X2 = X - L /\ Y2 = Y
        ELSE k = 1 /\ u = second /\ X2 = L - Y /\ Y2 = X - L
  \/ Y \in (L + 1)..(2 * L) /\ X \in 0..L
     /\ IF even THEN k = 3 /\ u = second /\ X2 = Y - L /\ Y2 = L - X
        ELSE k = 0 /\ u = next /\ X2 = X /\ Y2 = Y - L
  \/ Y \in -L..-1 /\ X \in 0..L
     /\ IF even THEN k = 0 /\ u = near /\ X2 = X /\ Y2 = Y + L
        ELSE k = 3 /\ u = far /\ X2 = L + Y /\ Y2 = L - X

Continued(k, t, X, Y, L, u, X2, Y2) ==
  ContinuedOn(IsEven(t), (t - 2) % 6, (t - 1) % 6, (t + 1) % 6, (t + 2) % 6, k, t, X, Y, L, u, X2, Y2)

(* Where, in half points from a subtile, the points of a boundary lie. *)
Lies(c, dir) ==
  c \in (IF dir = 0 THEN 0..8 ELSE IF dir = -1 THEN -6..-1 ELSE 9..14)

(* The coordinates in the sender's tile that the receiver's turn into. *)
LEMMA BoundariesContinue ==
  ASSUME NEW n \in Nat \ {0}, NEW t \in 0..5, NEW j \in 0..(n - 1), NEW i \in 0..(n - 1),
         NEW type \in Types, ~AtCubeCorner(type, n, j, i),
         NEW c \in Int, NEW d \in Int, Lies(c, DirX(type)), Lies(d, DirY(type)),
         NEW m, m = ToThe(type, n, t, j, i), NEW A, NEW B,
         A = c - 4 - 8 * DirX(type), B = d - 4 - 8 * DirY(type)
  PROVE  Continued(m.rotations, t, 8 * i + c, 8 * j + d, 8 * n, m.t % 6,
                   8 * m.i + 4 + TurnX(m.rotations, A, B), 8 * m.j + 4 + TurnY(m.rotations, A, B))
<1> DEFINE X == 8 * i + c
           Y == 8 * j + d
           L == 8 * n
           far == (t - 2) % 6   near == (t - 1) % 6
           next == (t + 1) % 6  second == (t + 2) % 6
           even == IsEven(t)
           Goal == Continued(m.rotations, t, X, Y, L, m.t % 6,
                   8 * m.i + 4 + TurnX(m.rotations, A, B), 8 * m.j + 4 + TurnY(m.rotations, A, B))
<1>1. \A v, h, g, turns : /\ Met(v, h, g, turns).rotations = turns /\ Met(v, h, g, turns).t = v
                          /\ Met(v, h, g, turns).j = h /\ Met(v, h, g, turns).i = g
  BY DEF Met
<1>2. n \in Nat \ {0} /\ j \in Nat /\ j <= n - 1 /\ i \in Nat /\ i <= n - 1 /\ even \in BOOLEAN
  BY DEF IsEven
<1>3. t % 6 = t
  OBVIOUS
<1>4. SUFFICES Goal
  OBVIOUS
<1>5. \A v, h, g, k : m = Met(v, h, g, k)
        => (Goal <=> ContinuedOn(even, far, near, next, second, k, t, X, Y, L, v % 6,
                                 8 * g + 4 + TurnX(k, A, B), 8 * h + 4 + TurnY(k, A, B)))
  BY <1>1 DEF Continued
<1>6. /\ (DirX(type) = 0 => c \in 0..8) /\ (DirX(type) = -1 => c \in -6..-1) /\ (DirX(type) = 1 => c \in 9..14)
      /\ (DirY(type) = 0 => d \in 0..8) /\ (DirY(type) = -1 => d \in -6..-1) /\ (DirY(type) = 1 => d \in 9..14)
  BY DEF Lies
<1>x. X = 8 * i + c /\ Y = 8 * j + d /\ L = 8 * n
  OBVIOUS
<1>m. m = ToThe(type, n, t, j, i) /\ IsEven(t) = even
  OBVIOUS
<1>f. /\ (t - 2) % 6 = far /\ (t - 1) % 6 = near /\ (t + 1) % 6 = next /\ (t + 2) % 6 = second
      /\ TurnX(0, A, B) = A /\ TurnY(0, A, B) = B /\ TurnX(1, A, B) = -B /\ TurnY(1, A, B) = A
      /\ TurnX(3, A, B) = B /\ TurnY(3, A, B) = -A
  BY DEF TurnX, TurnY
<1> HIDE DEF far, near, next, second, even, Goal, X, Y, L
<1>w. CASE type = "W"
  <2>1. A = c + 4 /\ B = d - 4 /\ c \in -6..-1 /\ d \in 0..8
    BY <1>6, <1>w, DirsAre
  <2>2. CASE i > 0
    <3>1. m = Met(t, j, i - 1, 0)
      BY <1>2, <1>m, <1>w, <2>2 DEF ToThe, ToTheWest
    <3>2. ContinuedOn(even, far, near, next, second, 0, t, X, Y, L, t % 6,
                      8 * (i - 1) + 4 + TurnX(0, A, B), 8 * (j) + 4 + TurnY(0, A, B))
      BY <1>2, <1>3, <1>f, <1>x, <2>1, <2>2 DEF ContinuedOn
    <3> QED BY <1>5, <3>1, <3>2, Zenon
  <2>3. CASE i = 0 /\ even
    <3>1. m = Met(t - 2, n - 1, n - 1 - j, 1)
      BY <1>2, <1>m, <1>w, <2>3 DEF ToThe, ToTheWest
    <3>2. ContinuedOn(even, far, near, next, second, 1, t, X, Y, L, (t - 2) % 6,
                      8 * (n - 1 - j) + 4 + TurnX(1, A, B), 8 * (n - 1) + 4 + TurnY(1, A, B))
      BY <1>2, <1>3, <1>f, <1>x, <2>1, <2>3 DEF ContinuedOn
    <3> QED BY <1>5, <3>1, <3>2, Zenon
  <2>4. CASE i = 0 /\ ~even
    <3>1. m = Met(t - 1, j, n - 1, 0)
      BY <1>2, <1>m, <1>w, <2>4 DEF ToThe, ToTheWest
    <3>2. ContinuedOn(even, far, near, next, second, 0, t, X, Y, L, (t - 1) % 6,
                      8 * (n - 1) + 4 + TurnX(0, A, B), 8 * (j) + 4 + TurnY(0, A, B))
      BY <1>2, <1>3, <1>f, <1>x, <2>1, <2>4 DEF ContinuedOn
    <3> QED BY <1>5, <3>1, <3>2, Zenon
  <2> QED BY <1>2, <1>w, <2>2, <2>3, <2>4
<1>e. CASE type = "E"
  <2>1. A = c - 12 /\ B = d - 4 /\ c \in 9..14 /\ d \in 0..8
    BY <1>6, <1>e, DirsAre
  <2>2. CASE i < n - 1
    <3>1. m = Met(t, j, i + 1, 0)
      BY <1>2, <1>m, <1>e, <2>2 DEF ToThe, ToTheEast
    <3>2. ContinuedOn(even, far, near, next, second, 0, t, X, Y, L, t % 6,
                      8 * (i + 1) + 4 + TurnX(0, A, B), 8 * (j) + 4 + TurnY(0, A, B))
      BY <1>2, <1>3, <1>f, <1>x, <2>1, <2>2 DEF ContinuedOn
    <3> QED BY <1>5, <3>1, <3>2, Zenon
  <2>3. CASE i = n - 1 /\ even
    <3>1. m = Met(t + 1, j, 0, 0)
      BY <1>2, <1>m, <1>e, <2>3 DEF ToThe, ToTheEast
    <3>2. ContinuedOn(even, far, near, next, second, 0, t, X, Y, L, (t + 1) % 6,
                      8 * (0) + 4 + TurnX(0, A, B), 8 * (j) + 4 + TurnY(0, A, B))
      BY <1>2, <1>3, <1>f, <1>x, <2>1, <2>3 DEF ContinuedOn
    <3> QED BY <1>5, <3>1, <3>2, Zenon
  <2>4. CASE i = n - 1 /\ ~even
    <3>1. m = Met(t + 2, 0, n - 1 - j, 1)
      BY <1>2, <1>m, <1>e, <2>4 DEF ToThe, ToTheEast
    <3>2. ContinuedOn(even, far, near, next, second, 1, t, X, Y, L, (t + 2) % 6,
                      8 * (n - 1 - j) + 4 + TurnX(1, A, B), 8 * (0) + 4 + TurnY(1, A, B))
      BY <1>2, <1>3, <1>f, <1>x, <2>1, <2>4 DEF ContinuedOn
    <3> QED BY <1>5, <3>1, <3>2, Zenon
  <2> QED BY <1>2, <1>e, <2>2, <2>3, <2>4
<1>n. CASE type = "N"
  <2>1. A = c - 4 /\ B = d - 12 /\ c \in 0..8 /\ d \in 9..14
    BY <1>6, <1>n, DirsAre
  <2>2. CASE j < n - 1
    <3>1. m = Met(t, j + 1, i, 0)
      BY <1>2, <1>m, <1>n, <2>2 DEF ToThe, ToTheNorth
    <3>2. ContinuedOn(even, far, near, next, second, 0, t, X, Y, L, t % 6,
                      8 * (i) + 4 + TurnX(0, A, B), 8 * (j + 1) + 4 + TurnY(0, A, B))
      BY <1>2, <1>3, <1>f, <1>x, <2>1, <2>2 DEF ContinuedOn
    <3> QED BY <1>5, <3>1, <3>2, Zenon
  <2>3. CASE j = n - 1 /\ even
    <3>1. m = Met(t + 2, n - 1 - i, 0, 3)
      BY <1>2, <1>m, <1>n, <2>3 DEF ToThe, ToTheNorth
    <3>2. ContinuedOn(even, far, near, next, second, 3, t, X, Y, L, (t + 2) % 6,
                      8 * (0) + 4 + TurnX(3, A, B), 8 * (n - 1 - i) + 4 + TurnY(3, A, B))
      BY <1>2, <1>3, <1>f, <1>x, <2>1, <2>3 DEF ContinuedOn
    <3> QED BY <1>5, <3>1, <3>2, Zenon
  <2>4. CASE j = n - 1 /\ ~even
    <3>1. m = Met(t + 1, 0, i, 0)
      BY <1>2, <1>m, <1>n, <2>4 DEF ToThe, ToTheNorth
    <3>2. ContinuedOn(even, far, near, next, second, 0, t, X, Y, L, (t + 1) % 6,
                      8 * (i) + 4 + TurnX(0, A, B), 8 * (0) + 4 + TurnY(0, A, B))
      BY <1>2, <1>3, <1>f, <1>x, <2>1, <2>4 DEF ContinuedOn
    <3> QED BY <1>5, <3>1, <3>2, Zenon
  <2> QED BY <1>2, <1>n, <2>2, <2>3, <2>4
<1>s. CASE type = "S"
  <2>1. A = c - 4 /\ B = d + 4 /\ c \in 0..8 /\ d \in -6..-1
    BY <1>6, <1>s, DirsAre
  <2>2. CASE j > 0
    <3>1. m = Met(t, j - 1, i, 0)
      BY <1>2, <1>m, <1>s, <2>2 DEF ToThe, ToTheSouth
    <3>2. ContinuedOn(even, far, near, next, second, 0, t, X, Y, L, t % 6,
                      8 * (i) + 4 + TurnX(0, A, B), 8 * (j - 1) + 4 + TurnY(0, A, B))
      BY <1>2, <1>3, <1>f, <1>x, <2>1, <2>2 DEF ContinuedOn
    <3> QED BY <1>5, <3>1, <3>2, Zenon
  <2>3. CASE j = 0 /\ even
    <3>1. m = Met(t - 1, n - 1, i, 0)
      BY <1>2, <1>m, <1>s, <2>3 DEF ToThe, ToTheSouth
    <3>2. ContinuedOn(even, far, near, next, second, 0, t, X, Y, L, (t - 1) % 6,
                      8 * (i) + 4 + TurnX(0, A, B), 8 * (n - 1) + 4 + TurnY(0, A, B))
      BY <1>2, <1>3, <1>f, <1>x, <2>1, <2>3 DEF ContinuedOn
    <3> QED BY <1>5, <3>1, <3>2, Zenon
  <2>4. CASE j = 0 /\ ~even
    <3>1. m = Met(t - 2, n - 1 - i, n - 1, 3)
      BY <1>2, <1>m, <1>s, <2>4 DEF ToThe, ToTheSouth
    <3>2. ContinuedOn(even, far, near, next, second, 3, t, X, Y, L, (t - 2) % 6,
                      8 * (n - 1) + 4 + TurnX(3, A, B), 8 * (n - 1 - i) + 4 + TurnY(3, A, B))
      BY <1>2, <1>3, <1>f, <1>x, <2>1, <2>4 DEF ContinuedOn
    <3> QED BY <1>5, <3>1, <3>2, Zenon
  <2> QED BY <1>2, <1>s, <2>2, <2>3, <2>4
<1>nw. CASE type = "NW"
  <2>1. A = c + 4 /\ B = d - 12 /\ c \in -6..-1 /\ d \in 9..14
    BY <1>6, <1>nw, DirsAre
  <2>2. CASE i = 0 /\ j < n - 1 /\ even
    <3>1. m = Met(t - 2, n - 1, n - 2 - j, 1)
      BY <1>2, <1>m, <1>nw, <2>2 DEF ToThe, ToTheNorthWest
    <3>2. ContinuedOn(even, far, near, next, second, 1, t, X, Y, L, (t - 2) % 6,
                      8 * (n - 2 - j) + 4 + TurnX(1, A, B), 8 * (n - 1) + 4 + TurnY(1, A, B))
      BY <1>2, <1>3, <1>f, <1>x, <2>1, <2>2 DEF ContinuedOn
    <3> QED BY <1>5, <3>1, <3>2, Zenon
  <2>3. CASE i = 0 /\ j < n - 1 /\ ~even
    <3>1. m = Met(t - 1, j + 1, n - 1, 0)
      BY <1>2, <1>m, <1>nw, <2>3 DEF ToThe, ToTheNorthWest
    <3>2. ContinuedOn(even, far, near, next, second, 0, t, X, Y, L, (t - 1) % 6,
                      8 * (n - 1) + 4 + TurnX(0, A, B), 8 * (j + 1) + 4 + TurnY(0, A, B))
      BY <1>2, <1>3, <1>f, <1>x, <2>1, <2>3 DEF ContinuedOn
    <3> QED BY <1>5, <3>1, <3>2, Zenon
  <2>4. CASE i > 0 /\ j < n - 1
    <3>1. m = Met(t, j + 1, i - 1, 0)
      BY <1>2, <1>m, <1>nw, <2>4 DEF ToThe, ToTheNorthWest
    <3>2. ContinuedOn(even, far, near, next, second, 0, t, X, Y, L, t % 6,
                      8 * (i - 1) + 4 + TurnX(0, A, B), 8 * (j + 1) + 4 + TurnY(0, A, B))
      BY <1>2, <1>3, <1>f, <1>x, <2>1, <2>4 DEF ContinuedOn
    <3> QED BY <1>5, <3>1, <3>2, Zenon
  <2>5. CASE i > 0 /\ j = n - 1 /\ even
    <3>1. m = Met(t + 2, n - i, 0, 3)
      BY <1>2, <1>m, <1>nw, <2>5 DEF ToThe, ToTheNorthWest
    <3>2. ContinuedOn(even, far, near, next, second, 3, t, X, Y, L, (t + 2) % 6,
                      8 * (0) + 4 + TurnX(3, A, B), 8 * (n - i) + 4 + TurnY(3, A, B))
      BY <1>2, <1>3, <1>f, <1>x, <2>1, <2>5 DEF ContinuedOn
    <3> QED BY <1>5, <3>1, <3>2, Zenon
  <2>6. CASE i > 0 /\ j = n - 1 /\ ~even
    <3>1. m = Met(t + 1, 0, i - 1, 0)
      BY <1>2, <1>m, <1>nw, <2>6 DEF ToThe, ToTheNorthWest
    <3>2. ContinuedOn(even, far, near, next, second, 0, t, X, Y, L, (t + 1) % 6,
                      8 * (i - 1) + 4 + TurnX(0, A, B), 8 * (0) + 4 + TurnY(0, A, B))
      BY <1>2, <1>3, <1>f, <1>x, <2>1, <2>6 DEF ContinuedOn
    <3> QED BY <1>5, <3>1, <3>2, Zenon
  <2> QED BY <1>2, <1>nw, <2>2, <2>3, <2>4, <2>5, <2>6 DEF AtCubeCorner
<1>ne. CASE type = "NE"
  <2>1. A = c - 12 /\ B = d - 12 /\ c \in 9..14 /\ d \in 9..14
    BY <1>6, <1>ne, DirsAre
  <2>2. CASE j = n - 1 /\ i < n - 1 /\ even
    <3>1. m = Met(t + 2, n - 2 - i, 0, 3)
      BY <1>2, <1>m, <1>ne, <2>2 DEF ToThe, ToTheNorthEast
    <3>2. ContinuedOn(even, far, near, next, second, 3, t, X, Y, L, (t + 2) % 6,
                      8 * (0) + 4 + TurnX(3, A, B), 8 * (n - 2 - i) + 4 + TurnY(3, A, B))
      BY <1>2, <1>3, <1>f, <1>x, <2>1, <2>2 DEF ContinuedOn
    <3> QED BY <1>5, <3>1, <3>2, Zenon
  <2>3. CASE j = n - 1 /\ i < n - 1 /\ ~even
    <3>1. m = Met(t + 1, 0, i + 1, 0)
      BY <1>2, <1>m, <1>ne, <2>3 DEF ToThe, ToTheNorthEast
    <3>2. ContinuedOn(even, far, near, next, second, 0, t, X, Y, L, (t + 1) % 6,
                      8 * (i + 1) + 4 + TurnX(0, A, B), 8 * (0) + 4 + TurnY(0, A, B))
      BY <1>2, <1>3, <1>f, <1>x, <2>1, <2>3 DEF ContinuedOn
    <3> QED BY <1>5, <3>1, <3>2, Zenon
  <2>4. CASE j < n - 1 /\ i < n - 1
    <3>1. m = Met(t, j + 1, i + 1, 0)
      BY <1>2, <1>m, <1>ne, <2>4 DEF ToThe, ToTheNorthEast
    <3>2. ContinuedOn(even, far, near, next, second, 0, t, X, Y, L, t % 6,
                      8 * (i + 1) + 4 + TurnX(0, A, B), 8 * (j + 1) + 4 + TurnY(0, A, B))
      BY <1>2, <1>3, <1>f, <1>x, <2>1, <2>4 DEF ContinuedOn
    <3> QED BY <1>5, <3>1, <3>2, Zenon
  <2>5. CASE j < n - 1 /\ i = n - 1 /\ even
    <3>1. m = Met(t + 1, j + 1, 0, 0)
      BY <1>2, <1>m, <1>ne, <2>5 DEF ToThe, ToTheNorthEast
    <3>2. ContinuedOn(even, far, near, next, second, 0, t, X, Y, L, (t + 1) % 6,
                      8 * (0) + 4 + TurnX(0, A, B), 8 * (j + 1) + 4 + TurnY(0, A, B))
      BY <1>2, <1>3, <1>f, <1>x, <2>1, <2>5 DEF ContinuedOn
    <3> QED BY <1>5, <3>1, <3>2, Zenon
  <2>6. CASE j < n - 1 /\ i = n - 1 /\ ~even
    <3>1. m = Met(t + 2, 0, n - 2 - j, 1)
      BY <1>2, <1>m, <1>ne, <2>6 DEF ToThe, ToTheNorthEast
    <3>2. ContinuedOn(even, far, near, next, second, 1, t, X, Y, L, (t + 2) % 6,
                      8 * (n - 2 - j) + 4 + TurnX(1, A, B), 8 * (0) + 4 + TurnY(1, A, B))
      BY <1>2, <1>3, <1>f, <1>x, <2>1, <2>6 DEF ContinuedOn
    <3> QED BY <1>5, <3>1, <3>2, Zenon
  <2> QED BY <1>2, <1>ne, <2>2, <2>3, <2>4, <2>5, <2>6 DEF AtCubeCorner
<1>sw. CASE type = "SW"
  <2>1. A = c + 4 /\ B = d + 4 /\ c \in -6..-1 /\ d \in -6..-1
    BY <1>6, <1>sw, DirsAre
  <2>2. CASE j = 0 /\ i > 0 /\ even
    <3>1. m = Met(t - 1, n - 1, i - 1, 0)
      BY <1>2, <1>m, <1>sw, <2>2 DEF ToThe, ToTheSouthWest
    <3>2. ContinuedOn(even, far, near, next, second, 0, t, X, Y, L, (t - 1) % 6,
                      8 * (i - 1) + 4 + TurnX(0, A, B), 8 * (n - 1) + 4 + TurnY(0, A, B))
      BY <1>2, <1>3, <1>f, <1>x, <2>1, <2>2 DEF ContinuedOn
    <3> QED BY <1>5, <3>1, <3>2, Zenon
  <2>3. CASE j = 0 /\ i > 0 /\ ~even
    <3>1. m = Met(t - 2, n - i, n - 1, 3)
      BY <1>2, <1>m, <1>sw, <2>3 DEF ToThe, ToTheSouthWest
    <3>2. ContinuedOn(even, far, near, next, second, 3, t, X, Y, L, (t - 2) % 6,
                      8 * (n - 1) + 4 + TurnX(3, A, B), 8 * (n - i) + 4 + TurnY(3, A, B))
      BY <1>2, <1>3, <1>f, <1>x, <2>1, <2>3 DEF ContinuedOn
    <3> QED BY <1>5, <3>1, <3>2, Zenon
  <2>4. CASE j > 0 /\ i > 0
    <3>1. m = Met(t, j - 1, i - 1, 0)
      BY <1>2, <1>m, <1>sw, <2>4 DEF ToThe, ToTheSouthWest
    <3>2. ContinuedOn(even, far, near, next, second, 0, t, X, Y, L, t % 6,
                      8 * (i - 1) + 4 + TurnX(0, A, B), 8 * (j - 1) + 4 + TurnY(0, A, B))
      BY <1>2, <1>3, <1>f, <1>x, <2>1, <2>4 DEF ContinuedOn
    <3> QED BY <1>5, <3>1, <3>2, Zenon
  <2>5. CASE j > 0 /\ i = 0 /\ even
    <3>1. m = Met(t - 2, n - 1, n - j, 1)
      BY <1>2, <1>m, <1>sw, <2>5 DEF ToThe, ToTheSouthWest
    <3>2. ContinuedOn(even, far, near, next, second, 1, t, X, Y, L, (t - 2) % 6,
                      8 * (n - j) + 4 + TurnX(1, A, B), 8 * (n - 1) + 4 + TurnY(1, A, B))
      BY <1>2, <1>3, <1>f, <1>x, <2>1, <2>5 DEF ContinuedOn
    <3> QED BY <1>5, <3>1, <3>2, Zenon
  <2>6. CASE j > 0 /\ i = 0 /\ ~even
    <3>1. m = Met(t - 1, j - 1, n - 1, 0)
      BY <1>2, <1>m, <1>sw, <2>6 DEF ToThe, ToTheSouthWest
    <3>2. ContinuedOn(even, far, near, next, second, 0, t, X, Y, L, (t - 1) % 6,
                      8 * (n - 1) + 4 + TurnX(0, A, B), 8 * (j - 1) + 4 + TurnY(0, A, B))
      BY <1>2, <1>3, <1>f, <1>x, <2>1, <2>6 DEF ContinuedOn
    <3> QED BY <1>5, <3>1, <3>2, Zenon
  <2> QED BY <1>2, <1>sw, <2>2, <2>3, <2>4, <2>5, <2>6 DEF AtCubeCorner
<1>se. CASE type = "SE"
  <2>1. A = c - 12 /\ B = d + 4 /\ c \in 9..14 /\ d \in -6..-1
    BY <1>6, <1>se, DirsAre
  <2>2. CASE j = 0 /\ i < n - 1 /\ even
    <3>1. m = Met(t - 1, n - 1, i + 1, 0)
      BY <1>2, <1>m, <1>se, <2>2 DEF ToThe, ToTheSouthEast
    <3>2. ContinuedOn(even, far, near, next, second, 0, t, X, Y, L, (t - 1) % 6,
                      8 * (i + 1) + 4 + TurnX(0, A, B), 8 * (n - 1) + 4 + TurnY(0, A, B))
      BY <1>2, <1>3, <1>f, <1>x, <2>1, <2>2 DEF ContinuedOn
    <3> QED BY <1>5, <3>1, <3>2, Zenon
  <2>3. CASE j = 0 /\ i < n - 1 /\ ~even
    <3>1. m = Met(t - 2, n - 2 - i, n - 1, 3)
      BY <1>2, <1>m, <1>se, <2>3 DEF ToThe, ToTheSouthEast
    <3>2. ContinuedOn(even, far, near, next, second, 3, t, X, Y, L, (t - 2) % 6,
                      8 * (n - 1) + 4 + TurnX(3, A, B), 8 * (n - 2 - i) + 4 + TurnY(3, A, B))
      BY <1>2, <1>3, <1>f, <1>x, <2>1, <2>3 DEF ContinuedOn
    <3> QED BY <1>5, <3>1, <3>2, Zenon
  <2>4. CASE j > 0 /\ i < n - 1
    <3>1. m = Met(t, j - 1, i + 1, 0)
      BY <1>2, <1>m, <1>se, <2>4 DEF ToThe, ToTheSouthEast
    <3>2. ContinuedOn(even, far, near, next, second, 0, t, X, Y, L, t % 6,
                      8 * (i + 1) + 4 + TurnX(0, A, B), 8 * (j - 1) + 4 + TurnY(0, A, B))
      BY <1>2, <1>3, <1>f, <1>x, <2>1, <2>4 DEF ContinuedOn
    <3> QED BY <1>5, <3>1, <3>2, Zenon
  <2>5. CASE j > 0 /\ i = n - 1 /\ even
    <3>1. m = Met(t + 1, j - 1, 0, 0)
      BY <1>2, <1>m, <1>se, <2>5 DEF ToThe, ToTheSouthEast
    <3>2. ContinuedOn(even, far, near, next, second, 0, t, X, Y, L, (t + 1) % 6,
                      8 * (0) + 4 + TurnX(0, A, B), 8 * (j - 1) + 4 + TurnY(0, A, B))
      BY <1>2, <1>3, <1>f, <1>x, <2>1, <2>5 DEF ContinuedOn
    <3> QED BY <1>5, <3>1, <3>2, Zenon
  <2>6. CASE j > 0 /\ i = n - 1 /\ ~even
    <3>1. m = Met(t + 2, 0, n - j, 1)
      BY <1>2, <1>m, <1>se, <2>6 DEF ToThe, ToTheSouthEast
    <3>2. ContinuedOn(even, far, near, next, second, 1, t, X, Y, L, (t + 2) % 6,
                      8 * (n - j) + 4 + TurnX(1, A, B), 8 * (0) + 4 + TurnY(1, A, B))
      BY <1>2, <1>3, <1>f, <1>x, <2>1, <2>6 DEF ContinuedOn
    <3> QED BY <1>5, <3>1, <3>2, Zenon
  <2> QED BY <1>2, <1>se, <2>2, <2>3, <2>4, <2>5, <2>6 DEF AtCubeCorner
<1> QED BY <1>w, <1>e, <1>n, <1>s, <1>nw, <1>ne, <1>sw, <1>se DEF Types, Edges, Corners

(* The coordinates of a tile's grid point, raised so far from the tile. *)
Raised(t, i, j, e, n) ==
  CASE t = 0 -> <<n + e, i, j>>          [] t = 1 -> <<n - i, n + e, j>>
    [] t = 2 -> <<n - i, n - j, n + e>>  [] t = 3 -> <<-e, n - j, n - i>>
    [] t = 4 -> <<j, -e, n - i>>         [] t = 5 -> <<j, i, -e>>

(* The axes of a tile, and the way out of it. *)
Outward(t) ==
  CASE t = 0 -> <<1, 0, 0>>  [] t = 1 -> <<0, 1, 0>>  [] t = 2 -> <<0, 0, 1>>
    [] t = 3 -> <<-1, 0, 0>> [] t = 4 -> <<0, -1, 0>> [] t = 5 -> <<0, 0, -1>>
XAxis(t) ==
  CASE t = 0 -> <<0, 1, 0>>  [] t = 1 -> <<-1, 0, 0>> [] t = 2 -> <<-1, 0, 0>>
    [] t = 3 -> <<0, 0, -1>> [] t = 4 -> <<0, 0, -1>> [] t = 5 -> <<0, 1, 0>>
YAxis(t) ==
  CASE t = 0 -> <<0, 0, 1>>  [] t = 1 -> <<0, 0, 1>>  [] t = 2 -> <<0, -1, 0>>
    [] t = 3 -> <<0, -1, 0>> [] t = 4 -> <<1, 0, 0>>  [] t = 5 -> <<1, 0, 0>>

(* They are CubeGeometry's. *)
LEMMA AxesAre ==
  ASSUME NEW t \in 0..5
  PROVE  Frame[t].x = XAxis(t) /\ Frame[t].y = YAxis(t) /\ Normal(t) = Outward(t)
<1>1. Frame[t].x = XAxis(t) /\ Frame[t].y = YAxis(t)
  BY DEF Frame, Tiles, XAxis, YAxis
<1>2. Normal(t) = Cross(XAxis(t), YAxis(t))
  BY <1>1 DEF Normal
<1>4. CASE t = 0
  <2>1. Cross(<<0, 1, 0>>, <<0, 0, 1>>) = <<1, 0, 0>>
    BY DEF Cross
  <2>2. XAxis(t) = <<0, 1, 0>> /\ YAxis(t) = <<0, 0, 1>> /\ Outward(t) = <<1, 0, 0>>
    BY <1>4 DEF XAxis, YAxis, Outward
  <2> QED BY <1>1, <1>2, <2>1, <2>2
<1>5. CASE t = 1
  <2>1. Cross(<<-1, 0, 0>>, <<0, 0, 1>>) = <<0, 1, 0>>
    BY DEF Cross
  <2>2. XAxis(t) = <<-1, 0, 0>> /\ YAxis(t) = <<0, 0, 1>> /\ Outward(t) = <<0, 1, 0>>
    BY <1>5 DEF XAxis, YAxis, Outward
  <2> QED BY <1>1, <1>2, <2>1, <2>2
<1>6. CASE t = 2
  <2>1. Cross(<<-1, 0, 0>>, <<0, -1, 0>>) = <<0, 0, 1>>
    BY DEF Cross
  <2>2. XAxis(t) = <<-1, 0, 0>> /\ YAxis(t) = <<0, -1, 0>> /\ Outward(t) = <<0, 0, 1>>
    BY <1>6 DEF XAxis, YAxis, Outward
  <2> QED BY <1>1, <1>2, <2>1, <2>2
<1>7. CASE t = 3
  <2>1. Cross(<<0, 0, -1>>, <<0, -1, 0>>) = <<-1, 0, 0>>
    BY DEF Cross
  <2>2. XAxis(t) = <<0, 0, -1>> /\ YAxis(t) = <<0, -1, 0>> /\ Outward(t) = <<-1, 0, 0>>
    BY <1>7 DEF XAxis, YAxis, Outward
  <2> QED BY <1>1, <1>2, <2>1, <2>2
<1>8. CASE t = 4
  <2>1. Cross(<<0, 0, -1>>, <<1, 0, 0>>) = <<0, -1, 0>>
    BY DEF Cross
  <2>2. XAxis(t) = <<0, 0, -1>> /\ YAxis(t) = <<1, 0, 0>> /\ Outward(t) = <<0, -1, 0>>
    BY <1>8 DEF XAxis, YAxis, Outward
  <2> QED BY <1>1, <1>2, <2>1, <2>2
<1>9. CASE t = 5
  <2>1. Cross(<<0, 1, 0>>, <<1, 0, 0>>) = <<0, 0, -1>>
    BY DEF Cross
  <2>2. XAxis(t) = <<0, 1, 0>> /\ YAxis(t) = <<1, 0, 0>> /\ Outward(t) = <<0, 0, -1>>
    BY <1>9 DEF XAxis, YAxis, Outward
  <2> QED BY <1>1, <1>2, <2>1, <2>2
<1>10. Normal(t) = Outward(t)
  BY <1>4, <1>5, <1>6, <1>7, <1>8, <1>9
<1> QED BY <1>1, <1>10

(* Sums and multiples of vectors, coordinate by coordinate. *)
LEMMA VectorsAre ==
  /\ \A a, b, c, d, e, f \in Int : Plus(<<a, b, c>>, <<d, e, f>>) = <<a + d, b + e, c + f>>
  /\ \A a, d, e, f \in Int : Times(a, <<d, e, f>>) = <<a * d, a * e, a * f>>
<1>1. \A f : f = [k \in 1..3 |-> f[k]] => f = <<f[1], f[2], f[3]>>
  OBVIOUS
<1>2. ASSUME NEW a \in Int, NEW b \in Int, NEW c \in Int, NEW d \in Int, NEW e \in Int, NEW f \in Int
      PROVE  Plus(<<a, b, c>>, <<d, e, f>>) = <<a + d, b + e, c + f>>
  BY DEF Plus
<1>3. ASSUME NEW a \in Int, NEW d \in Int, NEW e \in Int, NEW f \in Int
      PROVE  Times(a, <<d, e, f>>) = <<a * d, a * e, a * f>>
  BY DEF Times
<1> QED BY <1>2, <1>3

(* A grid point of a tile and some of its normal. *)
LEMMA RaisedIs ==
  ASSUME NEW n \in Int, NEW t \in 0..5, NEW i \in Int, NEW j \in Int, NEW e \in Int
  PROVE  Plus(Point(t, i, j, n), Times(e, Normal(t))) = Raised(t, i, j, e, n)
<1>1. Point(t, i, j, n) = InSpace(t, i, j, n) /\ Normal(t) = Outward(t)
  BY PointIs, AxesAre
<1>2. SUFFICES Plus(InSpace(t, i, j, n), Times(e, Outward(t))) = Raised(t, i, j, e, n)
  BY <1>1
<1>3. /\ Times(e, <<1, 0, 0>>) = <<e, 0, 0>> /\ Times(e, <<0, 1, 0>>) = <<0, e, 0>>
      /\ Times(e, <<0, 0, 1>>) = <<0, 0, e>> /\ Times(e, <<-1, 0, 0>>) = <<-e, 0, 0>>
      /\ Times(e, <<0, -1, 0>>) = <<0, -e, 0>> /\ Times(e, <<0, 0, -1>>) = <<0, 0, -e>>
  BY VectorsAre
<1>4. CASE t = 0
  <2>1. Plus(<<n, i, j>>, <<e, 0, 0>>) = <<n + e, i, j>>
    <3>1. n \in Int /\ i \in Int /\ j \in Int /\ e \in Int /\ 0 \in Int
      OBVIOUS
    <3>2. (n) + (e) = n + e /\ (i) + (0) = i /\ (j) + (0) = j
      OBVIOUS
    <3>3. Plus(<<n, i, j>>, <<e, 0, 0>>) = <<(n) + (e), (i) + (0), (j) + (0)>>
      BY <3>1, VectorsAre
    <3> QED BY <3>2, <3>3, Zenon
  <2>2. InSpace(t, i, j, n) = <<n, i, j>> /\ Outward(t) = <<1, 0, 0>> /\ Raised(t, i, j, e, n) = <<n + e, i, j>>
    BY <1>4 DEF InSpace, Outward, Raised
  <2> QED BY <1>3, <2>1, <2>2
<1>5. CASE t = 1
  <2>1. Plus(<<n - i, n, j>>, <<0, e, 0>>) = <<n - i, n + e, j>>
    <3>1. n - i \in Int /\ n \in Int /\ j \in Int /\ 0 \in Int /\ e \in Int
      OBVIOUS
    <3>2. (n - i) + (0) = n - i /\ (n) + (e) = n + e /\ (j) + (0) = j
      OBVIOUS
    <3>3. Plus(<<n - i, n, j>>, <<0, e, 0>>) = <<(n - i) + (0), (n) + (e), (j) + (0)>>
      BY <3>1, VectorsAre
    <3> QED BY <3>2, <3>3, Zenon
  <2>2. InSpace(t, i, j, n) = <<n - i, n, j>> /\ Outward(t) = <<0, 1, 0>> /\ Raised(t, i, j, e, n) = <<n - i, n + e, j>>
    BY <1>5 DEF InSpace, Outward, Raised
  <2> QED BY <1>3, <2>1, <2>2
<1>6. CASE t = 2
  <2>1. Plus(<<n - i, n - j, n>>, <<0, 0, e>>) = <<n - i, n - j, n + e>>
    <3>1. n - i \in Int /\ n - j \in Int /\ n \in Int /\ 0 \in Int /\ e \in Int
      OBVIOUS
    <3>2. (n - i) + (0) = n - i /\ (n - j) + (0) = n - j /\ (n) + (e) = n + e
      OBVIOUS
    <3>3. Plus(<<n - i, n - j, n>>, <<0, 0, e>>) = <<(n - i) + (0), (n - j) + (0), (n) + (e)>>
      BY <3>1, VectorsAre
    <3> QED BY <3>2, <3>3, Zenon
  <2>2. InSpace(t, i, j, n) = <<n - i, n - j, n>> /\ Outward(t) = <<0, 0, 1>> /\ Raised(t, i, j, e, n) = <<n - i, n - j, n + e>>
    BY <1>6 DEF InSpace, Outward, Raised
  <2> QED BY <1>3, <2>1, <2>2
<1>7. CASE t = 3
  <2>1. Plus(<<0, n - j, n - i>>, <<-e, 0, 0>>) = <<-e, n - j, n - i>>
    <3>1. 0 \in Int /\ n - j \in Int /\ n - i \in Int /\ -e \in Int
      OBVIOUS
    <3>2. (0) + (-e) = -e /\ (n - j) + (0) = n - j /\ (n - i) + (0) = n - i
      OBVIOUS
    <3>3. Plus(<<0, n - j, n - i>>, <<-e, 0, 0>>) = <<(0) + (-e), (n - j) + (0), (n - i) + (0)>>
      BY <3>1, VectorsAre
    <3> QED BY <3>2, <3>3, Zenon
  <2>2. InSpace(t, i, j, n) = <<0, n - j, n - i>> /\ Outward(t) = <<-1, 0, 0>> /\ Raised(t, i, j, e, n) = <<-e, n - j, n - i>>
    BY <1>7 DEF InSpace, Outward, Raised
  <2> QED BY <1>3, <2>1, <2>2
<1>8. CASE t = 4
  <2>1. Plus(<<j, 0, n - i>>, <<0, -e, 0>>) = <<j, -e, n - i>>
    <3>1. j \in Int /\ 0 \in Int /\ n - i \in Int /\ -e \in Int
      OBVIOUS
    <3>2. (j) + (0) = j /\ (0) + (-e) = -e /\ (n - i) + (0) = n - i
      OBVIOUS
    <3>3. Plus(<<j, 0, n - i>>, <<0, -e, 0>>) = <<(j) + (0), (0) + (-e), (n - i) + (0)>>
      BY <3>1, VectorsAre
    <3> QED BY <3>2, <3>3, Zenon
  <2>2. InSpace(t, i, j, n) = <<j, 0, n - i>> /\ Outward(t) = <<0, -1, 0>> /\ Raised(t, i, j, e, n) = <<j, -e, n - i>>
    BY <1>8 DEF InSpace, Outward, Raised
  <2> QED BY <1>3, <2>1, <2>2
<1>9. CASE t = 5
  <2>1. Plus(<<j, i, 0>>, <<0, 0, -e>>) = <<j, i, -e>>
    <3>1. j \in Int /\ i \in Int /\ 0 \in Int /\ -e \in Int
      OBVIOUS
    <3>2. (j) + (0) = j /\ (i) + (0) = i /\ (0) + (-e) = -e
      OBVIOUS
    <3>3. Plus(<<j, i, 0>>, <<0, 0, -e>>) = <<(j) + (0), (i) + (0), (0) + (-e)>>
      BY <3>1, VectorsAre
    <3> QED BY <3>2, <3>3, Zenon
  <2>2. InSpace(t, i, j, n) = <<j, i, 0>> /\ Outward(t) = <<0, 0, -1>> /\ Raised(t, i, j, e, n) = <<j, i, -e>>
    BY <1>9 DEF InSpace, Outward, Raised
  <2> QED BY <1>3, <2>1, <2>2
<1> QED BY <1>4, <1>5, <1>6, <1>7, <1>8, <1>9

(* A point of a tile's plane, folded over the tile's edges: the way up is *)
(* minus the way past the edge.                                           *)
Under(c, L)  == IF c < 0 THEN 0 ELSE IF c > L THEN L ELSE c
Past(c, L)   == IF c < 0 THEN -c ELSE IF c > L THEN c - L ELSE 0
(* What lies past the edge of a tile, folded over it: the point of the *)
(* cube and the direction of an axis there.                            *)
FoldedTo(t, X, Y, L) == Raised(t, Under(X, L), Under(Y, L), -(Past(X, L) + Past(Y, L)), L)

Heads(t, c, L, axis) == IF c < 0 THEN Outward(t) ELSE IF c > L THEN Times(-1, Outward(t)) ELSE axis

(* Two ways to the same point, with axes that correspond. *)
Together(k, t, X, Y, L, u, X2, Y2) ==
  /\ FoldedTo(t, X, Y, L) = FoldedTo(u, X2, Y2, L)
  /\ Heads(t, X, L, XAxis(t)) = Times(SignOfX(k), IF k = 0 THEN Heads(u, X2, L, XAxis(u)) ELSE Heads(u, Y2, L, YAxis(u)))
  /\ Heads(t, Y, L, YAxis(t)) = Times(SignOfY(k), IF k = 0 THEN Heads(u, Y2, L, YAxis(u)) ELSE Heads(u, X2, L, XAxis(u)))

(* Two tiles whose normals are turned into one another at their edge. *)
LEMMA TurnedOver ==
  /\ Times(1, <<1, 0, 0>>) = <<1, 0, 0>> /\ Times(1, <<0, 1, 0>>) = <<0, 1, 0>>
  /\ Times(1, <<0, 0, 1>>) = <<0, 0, 1>> /\ Times(1, <<-1, 0, 0>>) = <<-1, 0, 0>>
  /\ Times(1, <<0, -1, 0>>) = <<0, -1, 0>> /\ Times(1, <<0, 0, -1>>) = <<0, 0, -1>>
  /\ Times(-1, <<1, 0, 0>>) = <<-1, 0, 0>> /\ Times(-1, <<0, 1, 0>>) = <<0, -1, 0>>
  /\ Times(-1, <<0, 0, 1>>) = <<0, 0, -1>> /\ Times(-1, <<-1, 0, 0>>) = <<1, 0, 0>>
  /\ Times(-1, <<0, -1, 0>>) = <<0, 1, 0>> /\ Times(-1, <<0, 0, -1>>) = <<0, 0, 1>>
  BY VectorsAre

(* The same point, up or down from one tile and in the other, and the same axes. *)
SameAxes(k, a, b, u) ==
  /\ a = Times(SignOfX(k), IF k = 0 THEN XAxis(u) ELSE YAxis(u))
  /\ b = Times(SignOfY(k), IF k = 0 THEN YAxis(u) ELSE XAxis(u))

(* Over the edge of every tile. *)
LEMMA OverTheWest ==
  ASSUME NEW L \in Nat, NEW X \in Int, NEW Y \in Int, X \in -L..-1, Y \in 0..L, NEW t \in 0..5
  PROVE  LET k == IF IsEven(t) THEN 1 ELSE 0
             u == IF IsEven(t) THEN (t - 2) % 6 ELSE (t - 1) % 6
             X2 == IF IsEven(t) THEN L - Y ELSE X + L
             Y2 == IF IsEven(t) THEN L + X ELSE Y
         IN  Raised(t, 0, Y, X, L) = Raised(u, X2, Y2, 0, L) /\ SameAxes(k, Outward(t), YAxis(t), u)
<1>1. CASE t = 0
  <2>1. IsEven(t) /\ (t - 2) % 6 = 4
    <3>1. (t - 2) % 6 = 4
      BY <1>1, TilesByNumber
    <3>2. IsEven(t)
      BY <1>1 DEF IsEven
    <3> QED BY <3>1, <3>2
  <2>2. Raised(0, 0, Y, X, L) = Raised(4, L - Y, L + X, 0, L)
    BY DEF Raised
  <2>3. SameAxes(1, Outward(0), YAxis(0), 4)
    BY TurnedOver DEF SameAxes, SignOfX, SignOfY, XAxis, YAxis, Outward
  <2> QED BY <1>1, <2>1, <2>2, <2>3
<1>2. CASE t = 1
  <2>1. ~IsEven(t) /\ (t - 1) % 6 = 0
    <3>1. (t - 1) % 6 = 0
      BY <1>2, TilesByNumber
    <3>2. ~IsEven(t)
      BY <1>2 DEF IsEven
    <3> QED BY <3>1, <3>2
  <2>2. Raised(1, 0, Y, X, L) = Raised(0, X + L, Y, 0, L)
    BY DEF Raised
  <2>3. SameAxes(0, Outward(1), YAxis(1), 0)
    BY TurnedOver DEF SameAxes, SignOfX, SignOfY, XAxis, YAxis, Outward
  <2> QED BY <1>2, <2>1, <2>2, <2>3
<1>3. CASE t = 2
  <2>1. IsEven(t) /\ (t - 2) % 6 = 0
    <3>1. (t - 2) % 6 = 0
      BY <1>3, TilesByNumber
    <3>2. IsEven(t)
      BY <1>3 DEF IsEven
    <3> QED BY <3>1, <3>2
  <2>2. Raised(2, 0, Y, X, L) = Raised(0, L - Y, L + X, 0, L)
    BY DEF Raised
  <2>3. SameAxes(1, Outward(2), YAxis(2), 0)
    BY TurnedOver DEF SameAxes, SignOfX, SignOfY, XAxis, YAxis, Outward
  <2> QED BY <1>3, <2>1, <2>2, <2>3
<1>4. CASE t = 3
  <2>1. ~IsEven(t) /\ (t - 1) % 6 = 2
    <3>1. (t - 1) % 6 = 2
      BY <1>4, TilesByNumber
    <3>2. ~IsEven(t)
      BY <1>4 DEF IsEven
    <3> QED BY <3>1, <3>2
  <2>2. Raised(3, 0, Y, X, L) = Raised(2, X + L, Y, 0, L)
    BY DEF Raised
  <2>3. SameAxes(0, Outward(3), YAxis(3), 2)
    BY TurnedOver DEF SameAxes, SignOfX, SignOfY, XAxis, YAxis, Outward
  <2> QED BY <1>4, <2>1, <2>2, <2>3
<1>5. CASE t = 4
  <2>1. IsEven(t) /\ (t - 2) % 6 = 2
    <3>1. (t - 2) % 6 = 2
      BY <1>5, TilesByNumber
    <3>2. IsEven(t)
      BY <1>5 DEF IsEven
    <3> QED BY <3>1, <3>2
  <2>2. Raised(4, 0, Y, X, L) = Raised(2, L - Y, L + X, 0, L)
    BY DEF Raised
  <2>3. SameAxes(1, Outward(4), YAxis(4), 2)
    BY TurnedOver DEF SameAxes, SignOfX, SignOfY, XAxis, YAxis, Outward
  <2> QED BY <1>5, <2>1, <2>2, <2>3
<1>6. CASE t = 5
  <2>1. ~IsEven(t) /\ (t - 1) % 6 = 4
    <3>1. (t - 1) % 6 = 4
      BY <1>6, TilesByNumber
    <3>2. ~IsEven(t)
      BY <1>6 DEF IsEven
    <3> QED BY <3>1, <3>2
  <2>2. Raised(5, 0, Y, X, L) = Raised(4, X + L, Y, 0, L)
    BY DEF Raised
  <2>3. SameAxes(0, Outward(5), YAxis(5), 4)
    BY TurnedOver DEF SameAxes, SignOfX, SignOfY, XAxis, YAxis, Outward
  <2> QED BY <1>6, <2>1, <2>2, <2>3
<1> QED BY <1>1, <1>2, <1>3, <1>4, <1>5, <1>6

(* Over the edge of every tile. *)
LEMMA OverTheEast ==
  ASSUME NEW L \in Nat, NEW X \in Int, NEW Y \in Int, X \in L..(2 * L), Y \in 0..L, NEW t \in 0..5
  PROVE  LET k == IF IsEven(t) THEN 0 ELSE 1
             u == IF IsEven(t) THEN (t + 1) % 6 ELSE (t + 2) % 6
             X2 == IF IsEven(t) THEN X - L ELSE L - Y
             Y2 == IF IsEven(t) THEN Y ELSE X - L
         IN  Raised(t, L, Y, L - X, L) = Raised(u, X2, Y2, 0, L) /\ SameAxes(k, Times(-1, Outward(t)), YAxis(t), u)
<1>1. CASE t = 0
  <2>1. IsEven(t) /\ (t + 1) % 6 = 1
    <3>1. (t + 1) % 6 = 1
      BY <1>1, TilesByNumber
    <3>2. IsEven(t)
      BY <1>1 DEF IsEven
    <3> QED BY <3>1, <3>2
  <2>2. Raised(0, L, Y, L - X, L) = Raised(1, X - L, Y, 0, L)
    BY DEF Raised
  <2>3. SameAxes(0, Times(-1, Outward(0)), YAxis(0), 1)
    BY TurnedOver DEF SameAxes, SignOfX, SignOfY, XAxis, YAxis, Outward
  <2> QED BY <1>1, <2>1, <2>2, <2>3
<1>2. CASE t = 1
  <2>1. ~IsEven(t) /\ (t + 2) % 6 = 3
    <3>1. (t + 2) % 6 = 3
      BY <1>2, TilesByNumber
    <3>2. ~IsEven(t)
      BY <1>2 DEF IsEven
    <3> QED BY <3>1, <3>2
  <2>2. Raised(1, L, Y, L - X, L) = Raised(3, L - Y, X - L, 0, L)
    BY DEF Raised
  <2>3. SameAxes(1, Times(-1, Outward(1)), YAxis(1), 3)
    BY TurnedOver DEF SameAxes, SignOfX, SignOfY, XAxis, YAxis, Outward
  <2> QED BY <1>2, <2>1, <2>2, <2>3
<1>3. CASE t = 2
  <2>1. IsEven(t) /\ (t + 1) % 6 = 3
    <3>1. (t + 1) % 6 = 3
      BY <1>3, TilesByNumber
    <3>2. IsEven(t)
      BY <1>3 DEF IsEven
    <3> QED BY <3>1, <3>2
  <2>2. Raised(2, L, Y, L - X, L) = Raised(3, X - L, Y, 0, L)
    BY DEF Raised
  <2>3. SameAxes(0, Times(-1, Outward(2)), YAxis(2), 3)
    BY TurnedOver DEF SameAxes, SignOfX, SignOfY, XAxis, YAxis, Outward
  <2> QED BY <1>3, <2>1, <2>2, <2>3
<1>4. CASE t = 3
  <2>1. ~IsEven(t) /\ (t + 2) % 6 = 5
    <3>1. (t + 2) % 6 = 5
      BY <1>4, TilesByNumber
    <3>2. ~IsEven(t)
      BY <1>4 DEF IsEven
    <3> QED BY <3>1, <3>2
  <2>2. Raised(3, L, Y, L - X, L) = Raised(5, L - Y, X - L, 0, L)
    BY DEF Raised
  <2>3. SameAxes(1, Times(-1, Outward(3)), YAxis(3), 5)
    BY TurnedOver DEF SameAxes, SignOfX, SignOfY, XAxis, YAxis, Outward
  <2> QED BY <1>4, <2>1, <2>2, <2>3
<1>5. CASE t = 4
  <2>1. IsEven(t) /\ (t + 1) % 6 = 5
    <3>1. (t + 1) % 6 = 5
      BY <1>5, TilesByNumber
    <3>2. IsEven(t)
      BY <1>5 DEF IsEven
    <3> QED BY <3>1, <3>2
  <2>2. Raised(4, L, Y, L - X, L) = Raised(5, X - L, Y, 0, L)
    BY DEF Raised
  <2>3. SameAxes(0, Times(-1, Outward(4)), YAxis(4), 5)
    BY TurnedOver DEF SameAxes, SignOfX, SignOfY, XAxis, YAxis, Outward
  <2> QED BY <1>5, <2>1, <2>2, <2>3
<1>6. CASE t = 5
  <2>1. ~IsEven(t) /\ (t + 2) % 6 = 1
    <3>1. (t + 2) % 6 = 1
      BY <1>6, TilesByNumber
    <3>2. ~IsEven(t)
      BY <1>6 DEF IsEven
    <3> QED BY <3>1, <3>2
  <2>2. Raised(5, L, Y, L - X, L) = Raised(1, L - Y, X - L, 0, L)
    BY DEF Raised
  <2>3. SameAxes(1, Times(-1, Outward(5)), YAxis(5), 1)
    BY TurnedOver DEF SameAxes, SignOfX, SignOfY, XAxis, YAxis, Outward
  <2> QED BY <1>6, <2>1, <2>2, <2>3
<1> QED BY <1>1, <1>2, <1>3, <1>4, <1>5, <1>6

(* Over the edge of every tile. *)
LEMMA OverTheNorth ==
  ASSUME NEW L \in Nat, NEW X \in Int, NEW Y \in Int, Y \in L..(2 * L), X \in 0..L, NEW t \in 0..5
  PROVE  LET k == IF IsEven(t) THEN 3 ELSE 0
             u == IF IsEven(t) THEN (t + 2) % 6 ELSE (t + 1) % 6
             X2 == IF IsEven(t) THEN Y - L ELSE X
             Y2 == IF IsEven(t) THEN L - X ELSE Y - L
         IN  Raised(t, X, L, L - Y, L) = Raised(u, X2, Y2, 0, L) /\ SameAxes(k, XAxis(t), Times(-1, Outward(t)), u)
<1>1. CASE t = 0
  <2>1. IsEven(t) /\ (t + 2) % 6 = 2
    <3>1. (t + 2) % 6 = 2
      BY <1>1, TilesByNumber
    <3>2. IsEven(t)
      BY <1>1 DEF IsEven
    <3> QED BY <3>1, <3>2
  <2>2. Raised(0, X, L, L - Y, L) = Raised(2, Y - L, L - X, 0, L)
    BY DEF Raised
  <2>3. SameAxes(3, XAxis(0), Times(-1, Outward(0)), 2)
    BY TurnedOver DEF SameAxes, SignOfX, SignOfY, XAxis, YAxis, Outward
  <2> QED BY <1>1, <2>1, <2>2, <2>3
<1>2. CASE t = 1
  <2>1. ~IsEven(t) /\ (t + 1) % 6 = 2
    <3>1. (t + 1) % 6 = 2
      BY <1>2, TilesByNumber
    <3>2. ~IsEven(t)
      BY <1>2 DEF IsEven
    <3> QED BY <3>1, <3>2
  <2>2. Raised(1, X, L, L - Y, L) = Raised(2, X, Y - L, 0, L)
    BY DEF Raised
  <2>3. SameAxes(0, XAxis(1), Times(-1, Outward(1)), 2)
    BY TurnedOver DEF SameAxes, SignOfX, SignOfY, XAxis, YAxis, Outward
  <2> QED BY <1>2, <2>1, <2>2, <2>3
<1>3. CASE t = 2
  <2>1. IsEven(t) /\ (t + 2) % 6 = 4
    <3>1. (t + 2) % 6 = 4
      BY <1>3, TilesByNumber
    <3>2. IsEven(t)
      BY <1>3 DEF IsEven
    <3> QED BY <3>1, <3>2
  <2>2. Raised(2, X, L, L - Y, L) = Raised(4, Y - L, L - X, 0, L)
    BY DEF Raised
  <2>3. SameAxes(3, XAxis(2), Times(-1, Outward(2)), 4)
    BY TurnedOver DEF SameAxes, SignOfX, SignOfY, XAxis, YAxis, Outward
  <2> QED BY <1>3, <2>1, <2>2, <2>3
<1>4. CASE t = 3
  <2>1. ~IsEven(t) /\ (t + 1) % 6 = 4
    <3>1. (t + 1) % 6 = 4
      BY <1>4, TilesByNumber
    <3>2. ~IsEven(t)
      BY <1>4 DEF IsEven
    <3> QED BY <3>1, <3>2
  <2>2. Raised(3, X, L, L - Y, L) = Raised(4, X, Y - L, 0, L)
    BY DEF Raised
  <2>3. SameAxes(0, XAxis(3), Times(-1, Outward(3)), 4)
    BY TurnedOver DEF SameAxes, SignOfX, SignOfY, XAxis, YAxis, Outward
  <2> QED BY <1>4, <2>1, <2>2, <2>3
<1>5. CASE t = 4
  <2>1. IsEven(t) /\ (t + 2) % 6 = 0
    <3>1. (t + 2) % 6 = 0
      BY <1>5, TilesByNumber
    <3>2. IsEven(t)
      BY <1>5 DEF IsEven
    <3> QED BY <3>1, <3>2
  <2>2. Raised(4, X, L, L - Y, L) = Raised(0, Y - L, L - X, 0, L)
    BY DEF Raised
  <2>3. SameAxes(3, XAxis(4), Times(-1, Outward(4)), 0)
    BY TurnedOver DEF SameAxes, SignOfX, SignOfY, XAxis, YAxis, Outward
  <2> QED BY <1>5, <2>1, <2>2, <2>3
<1>6. CASE t = 5
  <2>1. ~IsEven(t) /\ (t + 1) % 6 = 0
    <3>1. (t + 1) % 6 = 0
      BY <1>6, TilesByNumber
    <3>2. ~IsEven(t)
      BY <1>6 DEF IsEven
    <3> QED BY <3>1, <3>2
  <2>2. Raised(5, X, L, L - Y, L) = Raised(0, X, Y - L, 0, L)
    BY DEF Raised
  <2>3. SameAxes(0, XAxis(5), Times(-1, Outward(5)), 0)
    BY TurnedOver DEF SameAxes, SignOfX, SignOfY, XAxis, YAxis, Outward
  <2> QED BY <1>6, <2>1, <2>2, <2>3
<1> QED BY <1>1, <1>2, <1>3, <1>4, <1>5, <1>6

(* Over the edge of every tile. *)
LEMMA OverTheSouth ==
  ASSUME NEW L \in Nat, NEW X \in Int, NEW Y \in Int, Y \in -L..-1, X \in 0..L, NEW t \in 0..5
  PROVE  LET k == IF IsEven(t) THEN 0 ELSE 3
             u == IF IsEven(t) THEN (t - 1) % 6 ELSE (t - 2) % 6
             X2 == IF IsEven(t) THEN X ELSE L + Y
             Y2 == IF IsEven(t) THEN Y + L ELSE L - X
         IN  Raised(t, X, 0, Y, L) = Raised(u, X2, Y2, 0, L) /\ SameAxes(k, XAxis(t), Outward(t), u)
<1>1. CASE t = 0
  <2>1. IsEven(t) /\ (t - 1) % 6 = 5
    <3>1. (t - 1) % 6 = 5
      BY <1>1, TilesByNumber
    <3>2. IsEven(t)
      BY <1>1 DEF IsEven
    <3> QED BY <3>1, <3>2
  <2>2. Raised(0, X, 0, Y, L) = Raised(5, X, Y + L, 0, L)
    BY DEF Raised
  <2>3. SameAxes(0, XAxis(0), Outward(0), 5)
    BY TurnedOver DEF SameAxes, SignOfX, SignOfY, XAxis, YAxis, Outward
  <2> QED BY <1>1, <2>1, <2>2, <2>3
<1>2. CASE t = 1
  <2>1. ~IsEven(t) /\ (t - 2) % 6 = 5
    <3>1. (t - 2) % 6 = 5
      BY <1>2, TilesByNumber
    <3>2. ~IsEven(t)
      BY <1>2 DEF IsEven
    <3> QED BY <3>1, <3>2
  <2>2. Raised(1, X, 0, Y, L) = Raised(5, L + Y, L - X, 0, L)
    BY DEF Raised
  <2>3. SameAxes(3, XAxis(1), Outward(1), 5)
    BY TurnedOver DEF SameAxes, SignOfX, SignOfY, XAxis, YAxis, Outward
  <2> QED BY <1>2, <2>1, <2>2, <2>3
<1>3. CASE t = 2
  <2>1. IsEven(t) /\ (t - 1) % 6 = 1
    <3>1. (t - 1) % 6 = 1
      BY <1>3, TilesByNumber
    <3>2. IsEven(t)
      BY <1>3 DEF IsEven
    <3> QED BY <3>1, <3>2
  <2>2. Raised(2, X, 0, Y, L) = Raised(1, X, Y + L, 0, L)
    BY DEF Raised
  <2>3. SameAxes(0, XAxis(2), Outward(2), 1)
    BY TurnedOver DEF SameAxes, SignOfX, SignOfY, XAxis, YAxis, Outward
  <2> QED BY <1>3, <2>1, <2>2, <2>3
<1>4. CASE t = 3
  <2>1. ~IsEven(t) /\ (t - 2) % 6 = 1
    <3>1. (t - 2) % 6 = 1
      BY <1>4, TilesByNumber
    <3>2. ~IsEven(t)
      BY <1>4 DEF IsEven
    <3> QED BY <3>1, <3>2
  <2>2. Raised(3, X, 0, Y, L) = Raised(1, L + Y, L - X, 0, L)
    BY DEF Raised
  <2>3. SameAxes(3, XAxis(3), Outward(3), 1)
    BY TurnedOver DEF SameAxes, SignOfX, SignOfY, XAxis, YAxis, Outward
  <2> QED BY <1>4, <2>1, <2>2, <2>3
<1>5. CASE t = 4
  <2>1. IsEven(t) /\ (t - 1) % 6 = 3
    <3>1. (t - 1) % 6 = 3
      BY <1>5, TilesByNumber
    <3>2. IsEven(t)
      BY <1>5 DEF IsEven
    <3> QED BY <3>1, <3>2
  <2>2. Raised(4, X, 0, Y, L) = Raised(3, X, Y + L, 0, L)
    BY DEF Raised
  <2>3. SameAxes(0, XAxis(4), Outward(4), 3)
    BY TurnedOver DEF SameAxes, SignOfX, SignOfY, XAxis, YAxis, Outward
  <2> QED BY <1>5, <2>1, <2>2, <2>3
<1>6. CASE t = 5
  <2>1. ~IsEven(t) /\ (t - 2) % 6 = 3
    <3>1. (t - 2) % 6 = 3
      BY <1>6, TilesByNumber
    <3>2. ~IsEven(t)
      BY <1>6 DEF IsEven
    <3> QED BY <3>1, <3>2
  <2>2. Raised(5, X, 0, Y, L) = Raised(3, L + Y, L - X, 0, L)
    BY DEF Raised
  <2>3. SameAxes(3, XAxis(5), Outward(5), 3)
    BY TurnedOver DEF SameAxes, SignOfX, SignOfY, XAxis, YAxis, Outward
  <2> QED BY <1>6, <2>1, <2>2, <2>3
<1> QED BY <1>1, <1>2, <1>3, <1>4, <1>5, <1>6

(* And on the tile itself, its own axes. *)
LEMMA OnTheTile ==
  ASSUME NEW t \in 0..5
  PROVE  SameAxes(0, XAxis(t), YAxis(t), t)
  BY TurnedOver DEF SameAxes, SignOfX, SignOfY, XAxis, YAxis

(* What lies past an edge is where the neighbour's tile continues, and so *)
(* are the directions.                                                    *)
LEMMA ContinuedIsTogether ==
  ASSUME NEW L \in Nat, NEW t \in 0..5, NEW X \in Int, NEW Y \in Int,
         NEW k, NEW u, NEW X2, NEW Y2, Continued(k, t, X, Y, L, u, X2, Y2)
  PROVE  u \in 0..5 /\ k \in {0, 1, 3} /\ Together(k, t, X, Y, L, u, X2, Y2)
<1>1. ASSUME NEW A \in 0..L, NEW B \in 0..L, NEW v
      PROVE  /\ FoldedTo(v, A, B, L) = Raised(v, A, B, 0, L)
             /\ Heads(v, A, L, XAxis(v)) = XAxis(v) /\ Heads(v, B, L, YAxis(v)) = YAxis(v)
  <2>0. A \in Int /\ B \in Int /\ ~(A < 0) /\ ~(A > L) /\ ~(B < 0) /\ ~(B > L)
    OBVIOUS
  <2>1. Under(A, L) = A /\ Under(B, L) = B /\ Past(A, L) = 0 /\ Past(B, L) = 0
    BY <2>0, Zenon DEF Under, Past
  <2>3. -(0 + 0) = 0
    <3>1. \A y, z \in Int : y + z = 0 => -(y + z) = y + z
      OBVIOUS
    <3>2. 0 \in Int /\ 0 + 0 = 0
      OBVIOUS
    <3> QED BY <3>1, <3>2, Zenon
  <2>2. \A axis : Heads(v, A, L, axis) = axis /\ Heads(v, B, L, axis) = axis
    BY DEF Heads
  <2> QED BY <2>1, <2>2, <2>3, Zenon DEF FoldedTo
<1>2. ASSUME NEW a, NEW b, NEW e, X2 \in 0..L, Y2 \in 0..L,
             FoldedTo(t, X, Y, L) = Raised(u, X2, Y2, 0, L),
             Heads(t, X, L, XAxis(t)) = a, Heads(t, Y, L, YAxis(t)) = b, SameAxes(k, a, b, u)
      PROVE  Together(k, t, X, Y, L, u, X2, Y2)
  <2>1. /\ FoldedTo(u, X2, Y2, L) = Raised(u, X2, Y2, 0, L)
        /\ Heads(u, X2, L, XAxis(u)) = XAxis(u) /\ Heads(u, Y2, L, YAxis(u)) = YAxis(u)
    BY <1>1, <1>2
  <2>2. CASE k = 0
    BY <1>2, <2>1, <2>2, Zenon DEF Together, SameAxes
  <2>3. CASE k # 0
    BY <1>2, <2>1, <2>3, Zenon DEF Together, SameAxes
  <2> QED BY <2>2, <2>3
<1>3. /\ (t - 2) % 6 \in 0..5 /\ (t - 1) % 6 \in 0..5 /\ (t + 1) % 6 \in 0..5 /\ (t + 2) % 6 \in 0..5
  BY TilesAround
<1> DEFINE far == (t - 2) % 6   near == (t - 1) % 6
           next == (t + 1) % 6  second == (t + 2) % 6
           even == IsEven(t)
<1>4. ContinuedOn(even, far, near, next, second, k, t, X, Y, L, u, X2, Y2)
  BY DEF Continued
<1>5. CASE X \in 0..L /\ Y \in 0..L
  <2> HIDE DEF far, near, next, second, even
  <2>1. k = 0 /\ u = t /\ X2 = X /\ Y2 = Y
    BY <1>4, <1>5 DEF ContinuedOn
  <2>2. SameAxes(k, XAxis(t), YAxis(t), u)
    BY <2>1, OnTheTile
  <2>3. Together(k, t, X, Y, L, u, X2, Y2)
    BY <1>1, <1>2, <1>5, <2>1, <2>2
  <2> QED BY <2>1, <2>3
<1>6. CASE X \in -L..-1 /\ Y \in 0..L
  <2>1. Under(X, L) = 0 /\ Under(Y, L) = Y /\ Past(X, L) = -X /\ Past(Y, L) = 0 /\ -(-X + 0) = X
    BY <1>6 DEF Under, Past
  <2>2. FoldedTo(t, X, Y, L) = Raised(t, 0, Y, X, L)
    BY <2>1, Zenon DEF FoldedTo
  <2>3. Heads(t, X, L, XAxis(t)) = Outward(t) /\ Heads(t, Y, L, YAxis(t)) = YAxis(t)
    BY <1>6 DEF Heads
  <2>4. X2 \in 0..L /\ Y2 \in 0..L /\ u \in 0..5 /\ k \in {0, 1, 3}
    <3>1. far \in 0..5 /\ near \in 0..5 /\ next \in 0..5 /\ second \in 0..5
      BY <1>3
    <3> HIDE DEF far, near, next, second, even
    <3> QED BY <1>4, <1>6, <3>1 DEF ContinuedOn
  <2>5. Raised(t, 0, Y, X, L) = Raised(u, X2, Y2, 0, L) /\ SameAxes(k, Outward(t), YAxis(t), u)
    <3>1. CASE IsEven(t)
      <4>1. k = 1 /\ u = far /\ X2 = L - Y /\ Y2 = L + X
        <5>1. even
          BY <3>1
        <5> HIDE DEF far, near, next, second, even
        <5> QED BY <1>4, <1>6, <5>1 DEF ContinuedOn
      <4> QED BY <1>6, <3>1, <4>1, OverTheWest, Zenon
    <3>2. CASE ~IsEven(t)
      <4>1. k = 0 /\ u = near /\ X2 = X + L /\ Y2 = Y
        <5>1. ~even
          BY <3>2
        <5> HIDE DEF far, near, next, second, even
        <5> QED BY <1>4, <1>6, <5>1 DEF ContinuedOn
      <4> QED BY <1>6, <3>2, <4>1, OverTheWest, Zenon
    <3> QED BY <3>1, <3>2
  <2>6. Together(k, t, X, Y, L, u, X2, Y2)
    BY <1>2, <2>2, <2>3, <2>4, <2>5
  <2> QED BY <2>4, <2>6
<1>7. CASE X \in (L + 1)..(2 * L) /\ Y \in 0..L
  <2>1. Under(X, L) = L /\ Under(Y, L) = Y /\ Past(X, L) = X - L /\ Past(Y, L) = 0 /\ -((X - L) + 0) = L - X
    BY <1>7 DEF Under, Past
  <2>2. FoldedTo(t, X, Y, L) = Raised(t, L, Y, L - X, L)
    BY <2>1, Zenon DEF FoldedTo
  <2>3. Heads(t, X, L, XAxis(t)) = Times(-1, Outward(t)) /\ Heads(t, Y, L, YAxis(t)) = YAxis(t)
    BY <1>7 DEF Heads
  <2>4. X2 \in 0..L /\ Y2 \in 0..L /\ u \in 0..5 /\ k \in {0, 1, 3}
    <3>1. far \in 0..5 /\ near \in 0..5 /\ next \in 0..5 /\ second \in 0..5
      BY <1>3
    <3> HIDE DEF far, near, next, second, even
    <3> QED BY <1>4, <1>7, <3>1 DEF ContinuedOn
  <2>w. X \in L..(2 * L)
    BY <1>7
  <2>5. Raised(t, L, Y, L - X, L) = Raised(u, X2, Y2, 0, L) /\ SameAxes(k, Times(-1, Outward(t)), YAxis(t), u)
    <3>1. CASE IsEven(t)
      <4>1. k = 0 /\ u = next /\ X2 = X - L /\ Y2 = Y
        <5>1. even
          BY <3>1
        <5> HIDE DEF far, near, next, second, even
        <5> QED BY <1>4, <1>7, <5>1 DEF ContinuedOn
      <4> QED BY <1>7, <2>w, <3>1, <4>1, OverTheEast, Zenon
    <3>2. CASE ~IsEven(t)
      <4>1. k = 1 /\ u = second /\ X2 = L - Y /\ Y2 = X - L
        <5>1. ~even
          BY <3>2
        <5> HIDE DEF far, near, next, second, even
        <5> QED BY <1>4, <1>7, <5>1 DEF ContinuedOn
      <4> QED BY <1>7, <2>w, <3>2, <4>1, OverTheEast, Zenon
    <3> QED BY <3>1, <3>2
  <2>6. Together(k, t, X, Y, L, u, X2, Y2)
    BY <1>2, <2>2, <2>3, <2>4, <2>5
  <2> QED BY <2>4, <2>6
<1>8. CASE Y \in (L + 1)..(2 * L) /\ X \in 0..L
  <2>1. Under(X, L) = X /\ Under(Y, L) = L /\ Past(X, L) = 0 /\ Past(Y, L) = Y - L /\ -(0 + (Y - L)) = L - Y
    BY <1>8 DEF Under, Past
  <2>2. FoldedTo(t, X, Y, L) = Raised(t, X, L, L - Y, L)
    BY <2>1, Zenon DEF FoldedTo
  <2>3. Heads(t, X, L, XAxis(t)) = XAxis(t) /\ Heads(t, Y, L, YAxis(t)) = Times(-1, Outward(t))
    BY <1>8 DEF Heads
  <2>4. X2 \in 0..L /\ Y2 \in 0..L /\ u \in 0..5 /\ k \in {0, 1, 3}
    <3>1. far \in 0..5 /\ near \in 0..5 /\ next \in 0..5 /\ second \in 0..5
      BY <1>3
    <3> HIDE DEF far, near, next, second, even
    <3> QED BY <1>4, <1>8, <3>1 DEF ContinuedOn
  <2>w. Y \in L..(2 * L)
    BY <1>8
  <2>5. Raised(t, X, L, L - Y, L) = Raised(u, X2, Y2, 0, L) /\ SameAxes(k, XAxis(t), Times(-1, Outward(t)), u)
    <3>1. CASE IsEven(t)
      <4>1. k = 3 /\ u = second /\ X2 = Y - L /\ Y2 = L - X
        <5>1. even
          BY <3>1
        <5> HIDE DEF far, near, next, second, even
        <5> QED BY <1>4, <1>8, <5>1 DEF ContinuedOn
      <4> QED BY <1>8, <2>w, <3>1, <4>1, OverTheNorth, Zenon
    <3>2. CASE ~IsEven(t)
      <4>1. k = 0 /\ u = next /\ X2 = X /\ Y2 = Y - L
        <5>1. ~even
          BY <3>2
        <5> HIDE DEF far, near, next, second, even
        <5> QED BY <1>4, <1>8, <5>1 DEF ContinuedOn
      <4> QED BY <1>8, <2>w, <3>2, <4>1, OverTheNorth, Zenon
    <3> QED BY <3>1, <3>2
  <2>6. Together(k, t, X, Y, L, u, X2, Y2)
    BY <1>2, <2>2, <2>3, <2>4, <2>5
  <2> QED BY <2>4, <2>6
<1>9. CASE Y \in -L..-1 /\ X \in 0..L
  <2>1. Under(X, L) = X /\ Under(Y, L) = 0 /\ Past(X, L) = 0 /\ Past(Y, L) = -Y /\ -(0 + -Y) = Y
    BY <1>9 DEF Under, Past
  <2>2. FoldedTo(t, X, Y, L) = Raised(t, X, 0, Y, L)
    BY <2>1, Zenon DEF FoldedTo
  <2>3. Heads(t, X, L, XAxis(t)) = XAxis(t) /\ Heads(t, Y, L, YAxis(t)) = Outward(t)
    BY <1>9 DEF Heads
  <2>4. X2 \in 0..L /\ Y2 \in 0..L /\ u \in 0..5 /\ k \in {0, 1, 3}
    <3>1. far \in 0..5 /\ near \in 0..5 /\ next \in 0..5 /\ second \in 0..5
      BY <1>3
    <3> HIDE DEF far, near, next, second, even
    <3> QED BY <1>4, <1>9, <3>1 DEF ContinuedOn
  <2>5. Raised(t, X, 0, Y, L) = Raised(u, X2, Y2, 0, L) /\ SameAxes(k, XAxis(t), Outward(t), u)
    <3>1. CASE IsEven(t)
      <4>1. k = 0 /\ u = near /\ X2 = X /\ Y2 = Y + L
        <5>1. even
          BY <3>1
        <5> HIDE DEF far, near, next, second, even
        <5> QED BY <1>4, <1>9, <5>1 DEF ContinuedOn
      <4> QED BY <1>9, <3>1, <4>1, OverTheSouth, Zenon
    <3>2. CASE ~IsEven(t)
      <4>1. k = 3 /\ u = far /\ X2 = L + Y /\ Y2 = L - X
        <5>1. ~even
          BY <3>2
        <5> HIDE DEF far, near, next, second, even
        <5> QED BY <1>4, <1>9, <5>1 DEF ContinuedOn
      <4> QED BY <1>9, <3>2, <4>1, OverTheSouth, Zenon
    <3> QED BY <3>1, <3>2
  <2>6. Together(k, t, X, Y, L, u, X2, Y2)
    BY <1>2, <2>2, <2>3, <2>4, <2>5
  <2> QED BY <2>4, <2>6
<1>10. \/ X \in 0..L /\ Y \in 0..L
       \/ X \in -L..-1 /\ Y \in 0..L
       \/ X \in (L + 1)..(2 * L) /\ Y \in 0..L
       \/ Y \in (L + 1)..(2 * L) /\ X \in 0..L
       \/ Y \in -L..-1 /\ X \in 0..L
  <2> HIDE DEF far, near, next, second, even
  <2> QED BY <1>4 DEF ContinuedOn
<1> QED BY <1>5, <1>6, <1>7, <1>8, <1>9, <1>10

-----------------------------------------------------------------------------
(* The points and the vectors of the halos, in space.                      *)

(* Where MCPartitioner's Located and Directed put a point of a field. *)
IsPoint(p) == p[1] \in Int /\ p[2] \in Int

LEMMA LocatedIs ==
  ASSUME WalkerOK, NEW w \in Places(size), NEW f, IsField(f), NEW p, IsPoint(p),
         NEW X, X = 8 * w[3] + (2 * p[1] + 1 - f.x), NEW Y, Y = 8 * w[2] + (2 * p[2] + 1 - f.y),
         NEW L, L = 8 * size
  PROVE  /\ Located(RankOf(Layout, w), f, p) = FoldedTo(w[1], X, Y, L)
         /\ Directed(RankOf(Layout, w), f, "x", p) = Heads(w[1], X, L, XAxis(w[1]))
         /\ Directed(RankOf(Layout, w), f, "y", p) = Heads(w[1], Y, L, YAxis(w[1]))
<1> DEFINE t == w[1]
           j == w[2]
           i == w[3]
           r == RankOf(Layout, w)
           c == OnTile(r, f, p)
<1>1. /\ t \in 0..5 /\ j \in 0..(size - 1) /\ i \in 0..(size - 1) /\ w = <<t, j, i>>
      /\ IsSquare(Layout, size) /\ size \in Nat \ {0}
  BY LayoutOfWalker, SquareIs DEF Places
<1>2. TileIndex(r, Layout) = t /\ SubtileIndex(r, Layout)[1] = j /\ SubtileIndex(r, Layout)[2] = i
  <2>1. r = RankAt(Layout, t, j, i) /\ t \in Int
    BY <1>1 DEF RankOf
  <2> HIDE DEF r, t, j, i
  <2>2. IsAt(Layout, RankAt(Layout, t, j, i), t, j, i)
    BY <1>1, <2>1, PlaceOnSphere
  <2> QED BY <2>1, <2>2 DEF IsAt
<1>3. p[1] \in Int /\ p[2] \in Int /\ f.x \in 0..1 /\ f.y \in 0..1
  BY DEF IsPoint, IsField
<1> HIDE DEF t, j, i, r
<1>4. X = 8 * i + (2 * p[1] + 1 - f.x) /\ Y = 8 * j + (2 * p[2] + 1 - f.y)
  BY DEF i, j
<1>5. c = [x |-> 2 * (i * 4 + p[1]) + 1 - f.x, y |-> 2 * (j * 4 + p[2]) + 1 - f.y]
  BY <1>2 DEF OnTile, Width
<1> HIDE DEF c
<1>6. c.x = X /\ c.y = Y /\ X \in Int /\ Y \in Int /\ L \in Int
  BY <1>1, <1>3, <1>4, <1>5
<1>7. TileLength = L
  BY <1>1 DEF TileLength, Width
<1>8. \A a : Clip(a) = Under(a, L) /\ Excess(a) = Past(a, L)
  BY <1>7, Zenon DEF Clip, Excess, Before, After, Under, Past
<1>9. Located(r, f, p) = FoldedTo(t, X, Y, L)
  <2>1. Located(r, f, p) = Plus(Point(t, Clip(c.x), Clip(c.y), TileLength), Times(-(Excess(c.x) + Excess(c.y)), Normal(t)))
    BY <1>2, Zenon DEF Located, c
  <2>2. Located(r, f, p) = Plus(Point(t, Under(X, L), Under(Y, L), L), Times(-(Past(X, L) + Past(Y, L)), Normal(t)))
    BY <1>6, <1>7, <1>8, <2>1
  <2>3. Under(X, L) \in Int /\ Under(Y, L) \in Int /\ Past(X, L) \in Int /\ Past(Y, L) \in Int
    BY <1>6 DEF Under, Past
  <2> DEFINE a == Under(X, L)
             b == Under(Y, L)
             e == -(Past(X, L) + Past(Y, L))
  <2>4. a \in Int /\ b \in Int /\ e \in Int
    BY <2>3
  <2> HIDE DEF a, b, e
  <2>5. Plus(Point(t, a, b, L), Times(e, Normal(t))) = Raised(t, a, b, e, L)
    BY <1>1, <1>6, <2>4, RaisedIs
  <2> QED BY <2>2, <2>5, Zenon DEF a, b, e, FoldedTo
<1>10. Frame[t].x = XAxis(t) /\ Frame[t].y = YAxis(t) /\ Normal(t) = Outward(t)
  BY <1>1, AxesAre
<1>11. c["x"] = X /\ c["y"] = Y /\ "y" # "x"
  BY <1>6
<1>12. Directed(r, f, "x", p) = Heads(t, X, L, XAxis(t))
  <2>1. Directed(r, f, "x", p) = IF Before(X) THEN Normal(t) ELSE IF After(X) THEN Times(-1, Normal(t)) ELSE Frame[t].x
    BY <1>2, <1>11 DEF Directed, c
  <2> QED BY <1>7, <1>10, <2>1 DEF Heads, Before, After
<1>13. Directed(r, f, "y", p) = Heads(t, Y, L, YAxis(t))
  <2>1. Directed(r, f, "y", p) = IF Before(Y) THEN Normal(t) ELSE IF After(Y) THEN Times(-1, Normal(t)) ELSE Frame[t].y
    BY <1>2, <1>11 DEF Directed, c
  <2> QED BY <1>7, <1>10, <2>1 DEF Heads, Before, After
<1> QED BY <1>9, <1>12, <1>13 DEF t, r

(* A value that arrives as it should stands for the place it came from. *)
LEMMA ArrivesInPlace ==
  ASSUME WalkerOK, NEW w \in Places(size), NEW type \in Types, RealAt(type, size, w),
         NEW k, k = ToThe(type, size, w[1], w[2], w[3]).rotations,
         NEW f, IsField(f), NEW g, IsField(g), NEW p, IsPoint(p),
         Lies(2 * p[1] + 1 - f.x, DirX(type)), Lies(2 * p[2] + 1 - f.y, DirY(type)),
         NEW value, NEW of, NEW sign, Received(value, of, sign, f, g, type, k, p),
         NEW r, r = RankOf(Layout, w), NEW s, s = RankOf(Layout, NextAt(type, size, w))
  PROVE  /\ SamePlace(r, f, p, s, g, value)
         /\ of = ArrivesAsX(k) /\ sign = SignOfX(k) => SameDirection(r, f, "x", p, s, g, value)
         /\ of = ArrivesAsY(k) /\ sign = SignOfY(k) => SameDirection(r, f, "y", p, s, g, value)
<1> DEFINE t == w[1]
           j == w[2]
           i == w[3]
           m == ToThe(type, size, t, j, i)
           v == NextAt(type, size, w)
           c == 2 * p[1] + 1 - f.x
           d == 2 * p[2] + 1 - f.y
           A == c - 4 - 8 * DirX(type)
           B == d - 4 - 8 * DirY(type)
           X == 8 * i + c
           Y == 8 * j + d
           L == 8 * size
           at == <<value.i, value.j>>
           X2 == 8 * v[3] + (2 * at[1] + 1 - g.x)
           Y2 == 8 * v[2] + (2 * at[2] + 1 - g.y)
<1>1. /\ t \in 0..5 /\ j \in 0..(size - 1) /\ i \in 0..(size - 1)
      /\ IsSquare(Layout, size) /\ size \in Nat \ {0} /\ ~AtCubeCorner(type, size, j, i)
  BY LayoutOfWalker, SquareIs DEF Places, RealAt
<1>2. v \in Places(size) /\ v[1] = m.t % 6 /\ v[2] = m.j /\ v[3] = m.i
  <2>1. v \in Places(size)
    BY <1>1, BoundaryAtIs
  <2>2. v = <<m.t % 6, m.j, m.i>>
    BY DEF NextAt, WhereTo
  <2> HIDE DEF v, m
  <2> QED BY <2>1, <2>2
<1>3. c \in Int /\ d \in Int
  BY DEF IsPoint, IsField
<1>4. Continued(m.rotations, t, X, Y, L, m.t % 6,
                8 * m.i + 4 + TurnX(m.rotations, A, B), 8 * m.j + 4 + TurnY(m.rotations, A, B))
  <2> HIDE DEF t, j, i, c, d, m
  <2>1. Lies(c, DirX(type)) /\ Lies(d, DirY(type)) /\ m = ToThe(type, size, t, j, i)
    BY DEF c, d, m
  <2> QED BY <1>1, <1>3, <2>1, BoundariesContinue, Zenon
<1>5. /\ value.of = of /\ value.sign = sign /\ value.i \in Int /\ value.j \in Int
      /\ 2 * value.i + 1 - g.x = 4 + TurnX(k, A, B) /\ 2 * value.j + 1 - g.y = 4 + TurnY(k, A, B)
  <2>1. \A e1, e2, e3, e4 : value = [of |-> e1, sign |-> e2, i |-> e3, j |-> e4] => value.of = e1 /\ value.sign = e2
    OBVIOUS
  <2>2. value.of = of /\ value.sign = sign
    BY <2>1 DEF Received
  <2>3. Off(p[1], f.x, DirX(type)) = A /\ Off(p[2], f.y, DirY(type)) = B
    <3>1. DirX(type) \in Int /\ DirY(type) \in Int
      BY DEF DirX, DirY
    <3> QED BY <3>1 DEF Off, IsPoint, IsField
  <2> HIDE DEF A, B
  <2> QED BY <2>2, <2>3, Zenon DEF Received
<1>6. k = m.rotations
  OBVIOUS
<1> HIDE DEF A, B, m, v
<1>7. X2 = 8 * m.i + 4 + TurnX(k, A, B) /\ Y2 = 8 * m.j + 4 + TurnY(k, A, B)
  <2> DEFINE a == TurnX(k, A, B)
             b == TurnY(k, A, B)
  <2>1. at[1] = value.i /\ at[2] = value.j /\ m.i \in Int /\ m.j \in Int
    BY <1>2 DEF Places
  <2>2. g.x \in Int /\ g.y \in Int
    BY DEF IsField
  <2>3. a \in Int /\ b \in Int
    <3>1. A \in Int /\ B \in Int
      <4>1. DirX(type) \in Int /\ DirY(type) \in Int
        BY DEF DirX, DirY
      <4> HIDE DEF c, d
      <4> QED BY <1>3, <4>1 DEF A, B
    <3> QED BY <3>1 DEF TurnX, TurnY
  <2>4. value.i \in Int /\ value.j \in Int /\ 2 * value.i + 1 - g.x = 4 + a /\ 2 * value.j + 1 - g.y = 4 + b
    BY <1>5
  <2> HIDE DEF a, b, at
  <2>5. 8 * m.i + (2 * value.i + 1 - g.x) = 8 * m.i + 4 + a /\ 8 * m.j + (2 * value.j + 1 - g.y) = 8 * m.j + 4 + b
    <3>1. \A q, e, h \in Int : h = 4 + e => 8 * q + h = 8 * q + 4 + e
      OBVIOUS
    <3>2. 2 * value.i + 1 - g.x \in Int /\ 2 * value.j + 1 - g.y \in Int
      BY <2>2, <2>4
    <3> DEFINE h1 == 2 * value.i + 1 - g.x
               h2 == 2 * value.j + 1 - g.y
               q1 == m.i
               q2 == m.j
    <3>3. h1 \in Int /\ h2 \in Int /\ q1 \in Int /\ q2 \in Int /\ h1 = 4 + a /\ h2 = 4 + b
      BY <2>1, <2>4, <3>2
    <3> HIDE DEF h1, h2, q1, q2
    <3>4. 8 * q1 + h1 = 8 * q1 + 4 + a /\ 8 * q2 + h2 = 8 * q2 + 4 + b
      BY <2>3, <3>1, <3>3
    <3> QED BY <3>4 DEF h1, h2, q1, q2
  <2> QED BY <1>2, <2>1, <2>5, Zenon DEF a, b
<1>8. X \in Int /\ Y \in Int /\ L \in Nat
  <2> HIDE DEF c, d, i, j
  <2> QED BY <1>1, <1>3
<1>9. Continued(k, t, X, Y, L, v[1], X2, Y2)
  BY <1>2, <1>4, <1>6, <1>7, Zenon
<1>10. k \in {0, 1, 3} /\ Together(k, t, X, Y, L, v[1], X2, Y2)
  <2> HIDE DEF X, Y, L, X2, Y2, t
  <2> QED BY <1>1, <1>8, <1>9, ContinuedIsTogether, Zenon
<1>11. /\ Located(r, f, p) = FoldedTo(t, X, Y, L)
       /\ Directed(r, f, "x", p) = Heads(t, X, L, XAxis(t))
       /\ Directed(r, f, "y", p) = Heads(t, Y, L, YAxis(t))
  <2>1. X = 8 * w[3] + (2 * p[1] + 1 - f.x) /\ Y = 8 * w[2] + (2 * p[2] + 1 - f.y) /\ L = 8 * size
    OBVIOUS
  <2> HIDE DEF X, Y, L
  <2> QED BY <2>1, LocatedIs
<1>12. /\ Located(s, g, at) = FoldedTo(v[1], X2, Y2, L)
       /\ Directed(s, g, "x", at) = Heads(v[1], X2, L, XAxis(v[1]))
       /\ Directed(s, g, "y", at) = Heads(v[1], Y2, L, YAxis(v[1]))
  <2>1. IsPoint(at) /\ s = RankOf(Layout, v)
    BY <1>5 DEF IsPoint, v
  <2>2. X2 = 8 * v[3] + (2 * at[1] + 1 - g.x) /\ Y2 = 8 * v[2] + (2 * at[2] + 1 - g.y) /\ L = 8 * size
    OBVIOUS
  <2> HIDE DEF at, X2, Y2, L
  <2> QED BY <1>2, <2>1, <2>2, LocatedIs
<1> HIDE DEF at, X, Y, L, X2, Y2, t
<1>13. SamePlace(r, f, p, s, g, value)
  BY <1>10, <1>11, <1>12, Zenon DEF SamePlace, Together, at
<1>14. of = ArrivesAsX(k) /\ sign = SignOfX(k) => SameDirection(r, f, "x", p, s, g, value)
  <2> SUFFICES ASSUME of = ArrivesAsX(k), sign = SignOfX(k) PROVE SameDirection(r, f, "x", p, s, g, value)
    OBVIOUS
  <2>1. Directed(s, g, of, at) = IF k = 0 THEN Heads(v[1], X2, L, XAxis(v[1])) ELSE Heads(v[1], Y2, L, YAxis(v[1]))
    BY <1>12 DEF ArrivesAsX
  <2>2. Directed(r, f, "x", p) = Times(sign, Directed(s, g, of, at))
    BY <1>10, <1>11, <2>1 DEF Together
  <2> QED BY <1>5, <2>2, Zenon DEF SameDirection, at
<1>15. of = ArrivesAsY(k) /\ sign = SignOfY(k) => SameDirection(r, f, "y", p, s, g, value)
  <2> SUFFICES ASSUME of = ArrivesAsY(k), sign = SignOfY(k) PROVE SameDirection(r, f, "y", p, s, g, value)
    OBVIOUS
  <2>1. Directed(s, g, of, at) = IF k = 0 THEN Heads(v[1], Y2, L, YAxis(v[1])) ELSE Heads(v[1], X2, L, XAxis(v[1]))
    BY <1>12 DEF ArrivesAsY
  <2>2. Directed(r, f, "y", p) = Times(sign, Directed(s, g, of, at))
    BY <1>10, <1>11, <2>1 DEF Together
  <2> QED BY <1>5, <2>2, Zenon DEF SameDirection, at
<1> QED BY <1>13, <1>14, <1>15

(* The points of a boundary's halo lie on that side. *)
LEMMA HaloLies ==
  ASSUME NEW f, IsField(f), NEW type \in Types, NEW points \in {1, 3},
         NEW p \in PointsIn(HaloSlices(f, Width, type, points))
  PROVE  IsPoint(p) /\ Lies(2 * p[1] + 1 - f.x, DirX(type)) /\ Lies(2 * p[2] + 1 - f.y, DirY(type))
<1> DEFINE region == HaloSlices(f, Width, type, points)
<1>1. HaloSlicesOf(region, f, type, points)
  BY HaloSlicesAre
<1> HIDE DEF region
<1>2. p[1] \in region.x.start..(region.x.stop - 1) /\ p[2] \in region.y.start..(region.y.stop - 1)
  BY DEF PointsIn, region
<1>3. /\ region.x.start \in Int /\ region.x.stop \in Int /\ region.y.start \in Int /\ region.y.stop \in Int
      /\ region.x.start = HaloStart(DirX(type), f.x, points)
      /\ region.y.start = HaloStart(DirY(type), f.y, points)
      /\ region.x.stop - region.x.start = CountOf(DirX(type), f.x, points)
      /\ region.y.stop - region.y.start = CountOf(DirY(type), f.y, points)
  BY <1>1 DEF HaloSlicesOf, Extent
<1>4. DirX(type) \in {-1, 0, 1} /\ DirY(type) \in {-1, 0, 1} /\ f.x \in 0..1 /\ f.y \in 0..1
  BY DEF DirX, DirY, IsField
<1>5. ASSUME NEW dir \in {-1, 0, 1}, NEW o \in 0..1, NEW a \in Int, NEW start \in Int, NEW stop \in Int, NEW b \in start..(stop - 1),
             start = HaloStart(dir, o, points), stop - start = CountOf(dir, o, points)
      PROVE  b \in Int /\ Lies(2 * b + 1 - o, dir)
  <2>1. CASE dir = 0
    BY <1>5, <2>1 DEF HaloStart, CountOf, Lies, Width
  <2>2. CASE dir = -1
    BY <1>5, <2>2 DEF HaloStart, CountOf, Lies, Width
  <2>3. CASE dir = 1
    BY <1>5, <2>3 DEF HaloStart, CountOf, Lies, Width
  <2> QED BY <2>1, <2>2, <2>3
<1>6. p[1] \in Int /\ Lies(2 * p[1] + 1 - f.x, DirX(type))
  BY <1>2, <1>3, <1>4, <1>5
<1>7. p[2] \in Int /\ Lies(2 * p[2] + 1 - f.y, DirY(type))
  BY <1>2, <1>3, <1>4, <1>5
<1> QED BY <1>6, <1>7 DEF IsPoint

(* The one boundary back faces this one, its turns undone. *)
LEMMA OneBoundaryBack ==
  ASSUME WalkerOK, NEW w \in Places(size), rank = RankOf(Layout, w),
         NEW type \in Types, RealAt(type, size, w),
         NEW back, back \in BoundariesTo(RankOf(Layout, NextAt(type, size, w)), rank)
  PROVE  /\ Faces(type, back[1], ToThe(type, size, w[1], w[2], w[3]).rotations)
         /\ (-back[2].rotations) % 4 = ToThe(type, size, w[1], w[2], w[3]).rotations
         /\ back[1] = Answer(type, size, w[1], w[2], w[3])
         /\ back[2].rotations \in {0, 1, 3}
<1> DEFINE n == size
           l == Layout
           t == w[1]
           j == w[2]
           i == w[3]
           m == ToThe(type, n, t, j, i)
           y == Answer(type, n, t, j, i)
           u == NextAt(type, n, w)
           b == ToThe(y, n, u[1], u[2], u[3])
<1>1. /\ IsSquare(l, n) /\ n \in Nat \ {0} /\ t \in 0..5 /\ j \in 0..(n - 1) /\ i \in 0..(n - 1)
      /\ w = <<t, j, i>> /\ ~AtCubeCorner(type, n, j, i)
  BY LayoutOfWalker, SquareIs DEF Places, RealAt
<1>2. AnsweredBy(y, n, t, j, i, m) /\ Faces(type, y, m.rotations)
  <2> HIDE DEF t, j, i
  <2> QED BY <1>1, BoundariesAnswer, AnswersFace
<1>3. y \in Types
  BY <1>2 DEF Faces
<1>4. u = <<m.t % 6, m.j, m.i>>
  BY DEF NextAt, WhereTo
<1>5. u \in Places(n) /\ m.rotations \in {0, 1, 3}
  BY <1>1, BoundaryAtIs
<1> HIDE DEF y, u, m
<1>6. /\ RealAt(y, n, u)
      /\ b.t % 6 = t /\ b.j = j /\ b.i = i /\ (m.rotations + b.rotations) % 4 = 0
  BY <1>2, <1>4 DEF AnsweredBy, RealAt
<1>7. BoundaryAt(y, l, u) = Boundary(RankOf(l, NextAt(y, n, u)), b.rotations) /\ b.rotations \in {0, 1, 3}
  BY <1>1, <1>3, <1>5, <1>6, BoundaryAtIs
<1>8. NextAt(y, n, u) = w
  BY <1>1, <1>6 DEF NextAt, WhereTo
<1> HIDE DEF b
<1>9. BoundaryAt(y, l, u).to = RankOf(l, w) /\ BoundaryAt(y, l, u).rotations = b.rotations
  BY <1>7, <1>8 DEF Boundary
<1>10. PICK other \in Types : back = <<other, BoundaryAt(other, l, u)>>
  BY DEF BoundariesTo, RealBoundaries, SphereBoundaries, Types, BoundaryAt, u
<1>11. BoundaryAt(other, l, u) # NoBoundary /\ BoundaryAt(other, l, u).to = rank
  BY <1>10 DEF BoundariesTo, RealBoundaries
<1>12. RealAt(other, n, u)
  BY <1>1, <1>5, <1>10, <1>11, BoundaryAtIs
<1>13. other = y
  <2>1. BoundaryAt(other, l, u).to = BoundaryAt(y, l, u).to
    BY <1>9, <1>11
  <2> QED BY <1>1, <1>3, <1>5, <1>6, <1>10, <1>12, <2>1, BoundariesLeadApart
<1>14. back[1] = y /\ back[2].rotations = b.rotations
  BY <1>9, <1>10, <1>13
<1>15. (-b.rotations) % 4 = m.rotations
  BY <1>5, <1>6, <1>7
<1> QED BY <1>2, <1>7, <1>14, <1>15 DEF m, y

(* What is found in the halo arrives in place, and vectors along their axes. *)
LEMMA ScalarsContinue ==
  ASSUME WalkerOK, NEW w \in Places(size), rank = RankOf(Layout, w),
         NEW type \in Types, RealAt(type, size, w), NEW s, s = RankOf(Layout, NextAt(type, size, w)),
         NEW back, back \in BoundariesTo(s, rank), NEW points \in {1, 3}, NEW order
  PROVE  ScalarHalosContinue(type, s, back, points, order)
<1> DEFINE k == ToThe(type, size, w[1], w[2], w[3]).rotations
           fields == Scalars(order)
           y == back[1]
           turns == back[2].rotations
           buffer == PackScalar(fields, Width, y, points, turns)
<1>1. Faces(type, y, k) /\ (-turns) % 4 = k
  BY OneBoundaryBack
<1> HIDE DEF k
<1>2. /\ buffer = OptPackScalar(fields, Width, y, points, turns)
      /\ \A q \in 1..3 : Found(buffer, fields, q, type, points, "s", 1, fields[q], k)
  <2> HIDE DEF y, turns
  <2> QED BY <1>1, ScalarHalosFound
<1>3. DOMAIN fields = 1..3 /\ \A q \in 1..3 : IsField(fields[q])
  BY DEF Scalars, Field, IsField
<1> HIDE DEF fields, buffer
<1>4. ASSUME NEW q \in DOMAIN fields
      PROVE  LET halo == Unpacked(buffer, fields, q, Width, type, points)
             IN  /\ halo = OptUnpacked(buffer, fields, q, Width, type, points)
                 /\ \A p \in DOMAIN halo : SamePlace(rank, fields[q], p, s, fields[q], halo[p])
  <2> DEFINE halo == Unpacked(buffer, fields, q, Width, type, points)
             f == fields[q]
  <2>1. Found(buffer, fields, q, type, points, "s", 1, f, k) /\ IsField(f)
    BY <1>2, <1>3
  <2>2. /\ halo = OptUnpacked(buffer, fields, q, Width, type, points)
        /\ DOMAIN halo = PointsIn(HaloSlices(f, Width, type, points))
        /\ \A p \in DOMAIN halo : Received(halo[p], "s", 1, f, f, type, k, p)
    BY <2>1, Zenon DEF Found
  <2> HIDE DEF halo, f
  <2>3. ASSUME NEW p \in DOMAIN halo PROVE SamePlace(rank, f, p, s, f, halo[p])
    <3>1. Received(halo[p], "s", 1, f, f, type, k, p)
      BY <2>2
    <3>2. IsPoint(p) /\ Lies(2 * p[1] + 1 - f.x, DirX(type)) /\ Lies(2 * p[2] + 1 - f.y, DirY(type))
      BY <2>1, <2>2, HaloLies
    <3>3. k = ToThe(type, size, w[1], w[2], w[3]).rotations
      BY DEF k
    <3> QED BY <2>1, <3>1, <3>2, <3>3, ArrivesInPlace
  <2> QED BY <2>2, <2>3, Zenon DEF halo, f
<1> QED BY <1>2, <1>4, Zenon DEF ScalarHalosContinue, fields, buffer

LEMMA VectorsContinue ==
  ASSUME WalkerOK, NEW w \in Places(size), rank = RankOf(Layout, w),
         NEW type \in Types, RealAt(type, size, w), NEW s, s = RankOf(Layout, NextAt(type, size, w)),
         NEW back, back \in BoundariesTo(s, rank), NEW points \in {1, 3}, NEW order
  PROVE  VectorHalosContinue(type, s, back, points, order)
<1> SUFFICES ASSUME NEW v \in Vectors(order)
             PROVE  LET buffer == PackVector(v.x, v.y, Width, back[1], points, back[2].rotations)
                    IN  /\ buffer = OptPackVector(v.x, v.y, Width, back[1], points, back[2].rotations)
                        /\ \A q \in 1..2 :
                             LET component == <<"x", "y">>[q]
                                 halo      == Unpacked(buffer, <<v.x, v.y>>, q, Width, type, points)
                             IN  /\ halo = OptUnpacked(buffer, <<v.x, v.y>>, q, Width, type, points)
                                 /\ \A p \in DOMAIN halo :
                                      LET value == halo[p]
                                          from  == v[value.of]
                                      IN  /\ SamePlace(rank, v[component], p, s, from, value)
                                          /\ SameDirection(rank, v[component], component, p, s, from, value)
  BY Zenon DEF VectorHalosContinue
<1> DEFINE k == ToThe(type, size, w[1], w[2], w[3]).rotations
           fields == <<v.x, v.y>>
           y == back[1]
           turns == back[2].rotations
           buffer == PackVector(v.x, v.y, Width, y, points, turns)
<1>1. Faces(type, y, k) /\ (-turns) % 4 = k
  BY OneBoundaryBack
<1>0. k = ToThe(type, size, w[1], w[2], w[3]).rotations
  OBVIOUS
<1> HIDE DEF k
<1>2. /\ buffer = OptPackVector(v.x, v.y, Width, y, points, turns)
      /\ Found(buffer, fields, 1, type, points, ArrivesAsX(k), SignOfX(k), v[ArrivesAsX(k)], k)
      /\ Found(buffer, fields, 2, type, points, ArrivesAsY(k), SignOfY(k), v[ArrivesAsY(k)], k)
  <2> HIDE DEF y, turns
  <2> QED BY <1>1, VectorHalosFound
<1>3. /\ IsField(v.x) /\ IsField(v.y) /\ v["x"] = v.x /\ v["y"] = v.y
      /\ fields[1] = v.x /\ fields[2] = v.y
      /\ IsField(v[ArrivesAsX(k)]) /\ IsField(v[ArrivesAsY(k)])
  BY VectorIs DEF ArrivesAsX, ArrivesAsY
<1> HIDE DEF fields, buffer
<1>4. ASSUME NEW q, NEW component, NEW f, f = fields[q], f = v[component], IsField(f),
             NEW of, NEW sign, NEW g, g = v[of], IsField(g),
             Found(buffer, fields, q, type, points, of, sign, g, k),
             \/ component = "x" /\ of = ArrivesAsX(k) /\ sign = SignOfX(k)
             \/ component = "y" /\ of = ArrivesAsY(k) /\ sign = SignOfY(k)
      PROVE  LET halo == Unpacked(buffer, fields, q, Width, type, points)
             IN  /\ halo = OptUnpacked(buffer, fields, q, Width, type, points)
                 /\ \A p \in DOMAIN halo :
                      LET value == halo[p]
                          from  == v[value.of]
                      IN  /\ SamePlace(rank, v[component], p, s, from, value)
                          /\ SameDirection(rank, v[component], component, p, s, from, value)
  <2> DEFINE halo == Unpacked(buffer, fields, q, Width, type, points)
  <2>2. /\ halo = OptUnpacked(buffer, fields, q, Width, type, points)
        /\ DOMAIN halo = PointsIn(HaloSlices(f, Width, type, points))
        /\ \A p \in DOMAIN halo : Received(halo[p], of, sign, f, g, type, k, p)
    BY <1>4, Zenon DEF Found
  <2> HIDE DEF halo
  <2>3. ASSUME NEW p \in DOMAIN halo
        PROVE  /\ SamePlace(rank, f, p, s, v[halo[p].of], halo[p])
               /\ SameDirection(rank, f, component, p, s, v[halo[p].of], halo[p])
    <3>1. Received(halo[p], of, sign, f, g, type, k, p)
      BY <2>2
    <3>2. IsPoint(p) /\ Lies(2 * p[1] + 1 - f.x, DirX(type)) /\ Lies(2 * p[2] + 1 - f.y, DirY(type))
      BY <1>4, <2>2, HaloLies
    <3>3. halo[p].of = of
      <4>1. \A value, e1, e2, e3, e4 : value = [of |-> e1, sign |-> e2, i |-> e3, j |-> e4] => value.of = e1
        OBVIOUS
      <4> QED BY <3>1, <4>1 DEF Received
    <3>4. /\ SamePlace(rank, f, p, s, g, halo[p])
          /\ of = ArrivesAsX(k) /\ sign = SignOfX(k) => SameDirection(rank, f, "x", p, s, g, halo[p])
          /\ of = ArrivesAsY(k) /\ sign = SignOfY(k) => SameDirection(rank, f, "y", p, s, g, halo[p])
      BY <1>0, <1>4, <3>1, <3>2, ArrivesInPlace
    <3> QED BY <1>4, <3>3, <3>4
  <2> QED BY <1>4, <2>2, <2>3, Zenon DEF halo
<1>5. <<"x", "y">>[1] = "x" /\ <<"x", "y">>[2] = "y"
  OBVIOUS
<1> DEFINE Holding(q) ==
             LET component == <<"x", "y">>[q]
                 halo      == Unpacked(buffer, fields, q, Width, type, points)
             IN  /\ halo = OptUnpacked(buffer, fields, q, Width, type, points)
                 /\ \A p \in DOMAIN halo :
                      LET value == halo[p]
                          from  == v[value.of]
                      IN  /\ SamePlace(rank, v[component], p, s, from, value)
                          /\ SameDirection(rank, v[component], component, p, s, from, value)
<1>6. Holding(1)
  <2>1. fields[1] = v["x"] /\ IsField(v["x"]) /\ "x" = <<"x", "y">>[1]
    BY <1>3, <1>5
  <2> QED BY <1>2, <1>3, <1>4, <2>1, Zenon
<1>7. Holding(2)
  <2>1. fields[2] = v["y"] /\ IsField(v["y"]) /\ "y" = <<"x", "y">>[2]
    BY <1>3, <1>5
  <2> QED BY <1>2, <1>3, <1>4, <2>1, Zenon
<1> HIDE DEF Holding
<1>8. \A q \in 1..2 : Holding(q)
  BY <1>6, <1>7
<1> QED BY <1>2, <1>8, Zenon DEF Holding, fields, buffer

-----------------------------------------------------------------------------
(* The interface values that both ranks of a shared edge compute.          *)

(* The points of a subtile's north or east side, and the same points across. *)
SameRim(side, k, t, X, Y, L, u, X2, Y2) ==
  /\ X \in 0..L /\ Y \in 0..L /\ X2 \in 0..L /\ Y2 \in 0..L /\ k \in {0, 1, 3}
  /\ Raised(t, X, Y, 0, L) = Raised(u, X2, Y2, 0, L)
  /\ side = "N" => XAxis(t) = Times(SignOfX(k), IF k = 0 THEN XAxis(u) ELSE YAxis(u))
  /\ side = "E" => YAxis(t) = Times(SignOfY(k), IF k = 0 THEN YAxis(u) ELSE XAxis(u))

(* Across the north and the east side. *)
LEMMA NorthRim ==
  ASSUME NEW n \in Nat \ {0}, NEW t \in 0..5, NEW j \in 0..(n - 1), NEW i \in 0..(n - 1), NEW c \in 0..8,
         NEW m, m = ToThe("N", n, t, j, i), NEW A, NEW B, A = c - 4, B = -4
  PROVE  SameRim("N", m.rotations, t, 8 * i + c, 8 * j + 8, 8 * n, m.t % 6,
                 8 * m.i + 4 + TurnX(m.rotations, A, B), 8 * m.j + 4 + TurnY(m.rotations, A, B))
<1> DEFINE X == 8 * i + c
           Y == 8 * j + 8
           L == 8 * n
           Goal == SameRim("N", m.rotations, t, X, Y, L, m.t % 6,
                   8 * m.i + 4 + TurnX(m.rotations, A, B), 8 * m.j + 4 + TurnY(m.rotations, A, B))
<1>1. \A v, h, g, turns : /\ Met(v, h, g, turns).rotations = turns /\ Met(v, h, g, turns).t = v
                          /\ Met(v, h, g, turns).j = h /\ Met(v, h, g, turns).i = g
  BY DEF Met
<1>2. /\ n \in Nat \ {0} /\ j \in Nat /\ j <= n - 1 /\ i \in Nat /\ i <= n - 1 /\ t % 6 = t
      /\ X \in 0..L /\ Y \in 0..L /\ L \in Nat /\ X \in Int /\ Y \in Int
  OBVIOUS
<1>3. SUFFICES Goal
  OBVIOUS
<1>4. ASSUME NEW v, NEW h, NEW g, NEW k, m = Met(v, h, g, k), NEW X2, NEW Y2,
             8 * g + 4 + TurnX(k, A, B) = X2, 8 * h + 4 + TurnY(k, A, B) = Y2,
             SameRim("N", k, t, X, Y, L, v % 6, X2, Y2)
      PROVE  Goal
  BY <1>1, <1>4
<1>5. /\ TurnX(0, A, B) = c - 4 /\ TurnY(0, A, B) = -4 /\ TurnX(3, A, B) = -4 /\ TurnY(3, A, B) = 4 - c
  BY DEF TurnX, TurnY
<1> HIDE DEF Goal
<1>6. CASE j < n - 1
  <2>1. m = Met(t, j + 1, i, 0)
    BY <1>6 DEF ToThe, ToTheNorth
  <2>2. 8 * i + 4 + TurnX(0, A, B) = X /\ 8 * (j + 1) + 4 + TurnY(0, A, B) = Y
    BY <1>2, <1>5
  <2>3. SameRim("N", 0, t, X, Y, L, t % 6, X, Y)
    <3> HIDE DEF X, Y, L
    <3>1. SameAxes(0, XAxis(t), YAxis(t), t)
      BY OnTheTile
    <3> QED BY <1>2, <3>1 DEF SameRim, SameAxes
  <2> QED BY <1>4, <2>1, <2>2, <2>3, Zenon
<1>7. CASE j = n - 1 /\ IsEven(t)
  <2>1. m = Met(t + 2, n - 1 - i, 0, 3)
    BY <1>7 DEF ToThe, ToTheNorth
  <2>2. 8 * 0 + 4 + TurnX(3, A, B) = Y - L /\ 8 * (n - 1 - i) + 4 + TurnY(3, A, B) = L - X
    BY <1>2, <1>5, <1>7
  <2>3. SameRim("N", 3, t, X, Y, L, (t + 2) % 6, Y - L, L - X)
    <3>1. Y \in L..(2 * L) /\ Y = L
      BY <1>2, <1>7
    <3> HIDE DEF X, Y, L
    <3>2. Raised(t, X, L, L - Y, L) = Raised((t + 2) % 6, Y - L, L - X, 0, L)
          /\ SameAxes(3, XAxis(t), Times(-1, Outward(t)), (t + 2) % 6)
      BY <1>2, <1>7, <3>1, OverTheNorth, Zenon
    <3>3. L - Y = 0 /\ Y - L \in 0..L /\ L - X \in 0..L
      BY <1>2, <3>1
    <3> QED BY <1>2, <3>1, <3>2, <3>3 DEF SameRim, SameAxes
  <2> QED BY <1>4, <2>1, <2>2, <2>3, Zenon
<1>8. CASE j = n - 1 /\ ~IsEven(t)
  <2>1. m = Met(t + 1, 0, i, 0)
    BY <1>8 DEF ToThe, ToTheNorth
  <2>2. 8 * i + 4 + TurnX(0, A, B) = X /\ 8 * 0 + 4 + TurnY(0, A, B) = Y - L
    BY <1>2, <1>5, <1>8
  <2>3. SameRim("N", 0, t, X, Y, L, (t + 1) % 6, X, Y - L)
    <3>1. Y \in L..(2 * L) /\ Y = L
      BY <1>2, <1>8
    <3> HIDE DEF X, Y, L
    <3>2. Raised(t, X, L, L - Y, L) = Raised((t + 1) % 6, X, Y - L, 0, L)
          /\ SameAxes(0, XAxis(t), Times(-1, Outward(t)), (t + 1) % 6)
      BY <1>2, <1>8, <3>1, OverTheNorth, Zenon
    <3>3. L - Y = 0 /\ Y - L \in 0..L
      BY <1>2, <3>1
    <3> QED BY <1>2, <3>1, <3>2, <3>3 DEF SameRim, SameAxes
  <2> QED BY <1>4, <2>1, <2>2, <2>3, Zenon
<1> QED BY <1>2, <1>6, <1>7, <1>8

LEMMA EastRim ==
  ASSUME NEW n \in Nat \ {0}, NEW t \in 0..5, NEW j \in 0..(n - 1), NEW i \in 0..(n - 1), NEW d \in 0..8,
         NEW m, m = ToThe("E", n, t, j, i), NEW A, NEW B, A = -4, B = d - 4
  PROVE  SameRim("E", m.rotations, t, 8 * i + 8, 8 * j + d, 8 * n, m.t % 6,
                 8 * m.i + 4 + TurnX(m.rotations, A, B), 8 * m.j + 4 + TurnY(m.rotations, A, B))
<1> DEFINE X == 8 * i + 8
           Y == 8 * j + d
           L == 8 * n
           Goal == SameRim("E", m.rotations, t, X, Y, L, m.t % 6,
                   8 * m.i + 4 + TurnX(m.rotations, A, B), 8 * m.j + 4 + TurnY(m.rotations, A, B))
<1>1. \A v, h, g, turns : /\ Met(v, h, g, turns).rotations = turns /\ Met(v, h, g, turns).t = v
                          /\ Met(v, h, g, turns).j = h /\ Met(v, h, g, turns).i = g
  BY DEF Met
<1>2. /\ n \in Nat \ {0} /\ j \in Nat /\ j <= n - 1 /\ i \in Nat /\ i <= n - 1 /\ t % 6 = t
      /\ X \in 0..L /\ Y \in 0..L /\ L \in Nat /\ X \in Int /\ Y \in Int
  OBVIOUS
<1>3. SUFFICES Goal
  OBVIOUS
<1>4. ASSUME NEW v, NEW h, NEW g, NEW k, m = Met(v, h, g, k), NEW X2, NEW Y2,
             8 * g + 4 + TurnX(k, A, B) = X2, 8 * h + 4 + TurnY(k, A, B) = Y2,
             SameRim("E", k, t, X, Y, L, v % 6, X2, Y2)
      PROVE  Goal
  BY <1>1, <1>4
<1>5. /\ TurnX(0, A, B) = -4 /\ TurnY(0, A, B) = d - 4 /\ TurnX(1, A, B) = 4 - d /\ TurnY(1, A, B) = -4
  BY DEF TurnX, TurnY
<1> HIDE DEF Goal
<1>6. CASE i < n - 1
  <2>1. m = Met(t, j, i + 1, 0)
    BY <1>6 DEF ToThe, ToTheEast
  <2>2. 8 * (i + 1) + 4 + TurnX(0, A, B) = X /\ 8 * j + 4 + TurnY(0, A, B) = Y
    BY <1>2, <1>5
  <2>3. SameRim("E", 0, t, X, Y, L, t % 6, X, Y)
    <3> HIDE DEF X, Y, L
    <3>1. SameAxes(0, XAxis(t), YAxis(t), t)
      BY OnTheTile
    <3> QED BY <1>2, <3>1 DEF SameRim, SameAxes
  <2> QED BY <1>4, <2>1, <2>2, <2>3, Zenon
<1>7. CASE i = n - 1 /\ IsEven(t)
  <2>1. m = Met(t + 1, j, 0, 0)
    BY <1>7 DEF ToThe, ToTheEast
  <2>2. 8 * 0 + 4 + TurnX(0, A, B) = X - L /\ 8 * j + 4 + TurnY(0, A, B) = Y
    BY <1>2, <1>5, <1>7
  <2>3. SameRim("E", 0, t, X, Y, L, (t + 1) % 6, X - L, Y)
    <3>1. X \in L..(2 * L) /\ X = L
      BY <1>2, <1>7
    <3> HIDE DEF X, Y, L
    <3>2. Raised(t, L, Y, L - X, L) = Raised((t + 1) % 6, X - L, Y, 0, L)
          /\ SameAxes(0, Times(-1, Outward(t)), YAxis(t), (t + 1) % 6)
      BY <1>2, <1>7, <3>1, OverTheEast, Zenon
    <3>3. L - X = 0 /\ X - L \in 0..L
      BY <1>2, <3>1
    <3> QED BY <1>2, <3>1, <3>2, <3>3 DEF SameRim, SameAxes
  <2> QED BY <1>4, <2>1, <2>2, <2>3, Zenon
<1>8. CASE i = n - 1 /\ ~IsEven(t)
  <2>1. m = Met(t + 2, 0, n - 1 - j, 1)
    BY <1>8 DEF ToThe, ToTheEast
  <2>2. 8 * (n - 1 - j) + 4 + TurnX(1, A, B) = L - Y /\ 8 * 0 + 4 + TurnY(1, A, B) = X - L
    BY <1>2, <1>5, <1>8
  <2>3. SameRim("E", 1, t, X, Y, L, (t + 2) % 6, L - Y, X - L)
    <3>1. X \in L..(2 * L) /\ X = L
      BY <1>2, <1>8
    <3> HIDE DEF X, Y, L
    <3>2. Raised(t, L, Y, L - X, L) = Raised((t + 2) % 6, L - Y, X - L, 0, L)
          /\ SameAxes(1, Times(-1, Outward(t)), YAxis(t), (t + 2) % 6)
      BY <1>2, <1>8, <3>1, OverTheEast, Zenon
    <3>3. L - X = 0 /\ X - L \in 0..L /\ L - Y \in 0..L
      BY <1>2, <3>1
    <3> QED BY <1>2, <3>1, <3>2, <3>3 DEF SameRim, SameAxes
  <2> QED BY <1>4, <2>1, <2>2, <2>3, Zenon
<1> QED BY <1>2, <1>6, <1>7, <1>8

(* Nothing is folded on the square itself, its edges included. *)
LEMMA OnTheSquare ==
  ASSUME NEW L, NEW A, NEW B, A \in 0..L, B \in 0..L, L \in Nat, NEW v
  PROVE  /\ FoldedTo(v, A, B, L) = Raised(v, A, B, 0, L)
         /\ Heads(v, A, L, XAxis(v)) = XAxis(v) /\ Heads(v, B, L, YAxis(v)) = YAxis(v)
<1>0. A \in Int /\ B \in Int /\ ~(A < 0) /\ ~(A > L) /\ ~(B < 0) /\ ~(B > L)
  OBVIOUS
<1>1. Under(A, L) = A /\ Under(B, L) = B /\ Past(A, L) = 0 /\ Past(B, L) = 0
  BY <1>0, Zenon DEF Under, Past
<1>3. -(0 + 0) = 0
  <2>1. \A y, z \in Int : y + z = 0 => -(y + z) = y + z
    OBVIOUS
  <2>2. 0 \in Int /\ 0 + 0 = 0
    OBVIOUS
  <2> QED BY <2>1, <2>2, Zenon
<1>2. \A axis : Heads(v, A, L, axis) = axis /\ Heads(v, B, L, axis) = axis
  BY <1>0, Zenon DEF Heads
<1> QED BY <1>1, <1>2, <1>3, Zenon DEF FoldedTo

(* A value that arrives on a subtile's side is of the same point. *)
LEMMA RimInPlace ==
  ASSUME WalkerOK, NEW w \in Places(size), NEW side \in {"N", "E"},
         NEW k, k = ToThe(side, size, w[1], w[2], w[3]).rotations,
         NEW f, IsField(f), NEW g, IsField(g), NEW p, IsPoint(p), NEW c, NEW d,
         c = 2 * p[1] + 1 - f.x, d = 2 * p[2] + 1 - f.y, c \in 0..8, d \in 0..8,
         side = "N" => d = 8, side = "E" => c = 8,
         NEW value, NEW of, NEW sign, Received(value, of, sign, f, g, side, k, p),
         NEW r, r = RankOf(Layout, w), NEW s, s = RankOf(Layout, NextAt(side, size, w)),
         NEW component,
         \/ side = "N" /\ component = "x" /\ of = ArrivesAsX(k) /\ sign = SignOfX(k)
         \/ side = "E" /\ component = "y" /\ of = ArrivesAsY(k) /\ sign = SignOfY(k)
  PROVE  /\ SamePlace(r, f, p, s, g, value)
         /\ SameDirection(r, f, component, p, s, g, value)
<1> DEFINE t == w[1]
           j == w[2]
           i == w[3]
           m == ToThe(side, size, t, j, i)
           v == NextAt(side, size, w)
           A == Off(p[1], f.x, DirX(side))
           B == Off(p[2], f.y, DirY(side))
           X == 8 * i + c
           Y == 8 * j + d
           L == 8 * size
           at == <<value.i, value.j>>
           X2 == 8 * v[3] + (2 * at[1] + 1 - g.x)
           Y2 == 8 * v[2] + (2 * at[2] + 1 - g.y)
<1>1. /\ t \in 0..5 /\ j \in 0..(size - 1) /\ i \in 0..(size - 1)
      /\ IsSquare(Layout, size) /\ size \in Nat \ {0} /\ side \in Types /\ RealAt(side, size, w)
  BY LayoutOfWalker, SquareIs DEF Places, RealAt, AtCubeCorner, Types, Edges
<1>2. v \in Places(size) /\ v[1] = m.t % 6 /\ v[2] = m.j /\ v[3] = m.i
  <2>1. v \in Places(size)
    BY <1>1, BoundaryAtIs
  <2>2. v = <<m.t % 6, m.j, m.i>>
    BY DEF NextAt, WhereTo
  <2> HIDE DEF v, m
  <2> QED BY <2>1, <2>2
<1>3. c \in Int /\ d \in Int
  OBVIOUS
<1>5. /\ value.of = of /\ value.sign = sign /\ value.i \in Int /\ value.j \in Int
      /\ 2 * value.i + 1 - g.x = 4 + TurnX(k, A, B) /\ 2 * value.j + 1 - g.y = 4 + TurnY(k, A, B)
  <2>1. \A e1, e2, e3, e4 : value = [of |-> e1, sign |-> e2, i |-> e3, j |-> e4] => value.of = e1 /\ value.sign = e2
    OBVIOUS
  <2>2. value.of = of /\ value.sign = sign
    BY <2>1 DEF Received
  <2> QED BY <2>2, Zenon DEF Received
<1>6. k = m.rotations
  OBVIOUS
<1>4. (side = "N" => A = c - 4 /\ B = -4) /\ (side = "E" => A = -4 /\ B = d - 4)
  <2>1. DirX("N") = 0 /\ DirY("N") = 1 /\ DirX("E") = 1 /\ DirY("E") = 0
    BY DirsAre
  <2>4. p[1] \in Int /\ p[2] \in Int /\ f.x \in Int /\ f.y \in Int
    BY DEF IsPoint, IsField
  <2>5. \A q, e \in Int : Off(q, e, 0) = (2 * q + 1 - e) - 4 /\ Off(q, e, 1) = (2 * q + 1 - e) - 12
    BY DEF Off
  <2>2. ASSUME side = "N" PROVE A = c - 4 /\ B = -4
    <3>1. A = Off(p[1], f.x, 0) /\ B = Off(p[2], f.y, 1) /\ d = 8
      BY <2>1, <2>2
    <3>2. A = c - 4 /\ B = d - 12
      BY <2>4, <2>5, <3>1, Zenon
    <3> QED BY <3>1, <3>2
  <2>3. ASSUME side = "E" PROVE A = -4 /\ B = d - 4
    BY <2>1, <2>3 DEF Off, IsPoint, IsField
  <2> QED BY <2>2, <2>3
<1>m. m = ToThe(side, size, t, j, i)
  OBVIOUS
<1> HIDE DEF A, B, m, v
<1>7. X2 = 8 * m.i + 4 + TurnX(k, A, B) /\ Y2 = 8 * m.j + 4 + TurnY(k, A, B)
  <2> DEFINE a == TurnX(k, A, B)
             b == TurnY(k, A, B)
  <2>1. at[1] = value.i /\ at[2] = value.j /\ m.i \in Int /\ m.j \in Int
    BY <1>2 DEF Places
  <2>2. g.x \in Int /\ g.y \in Int
    BY DEF IsField
  <2>3. a \in Int /\ b \in Int
    <3>1. A \in Int /\ B \in Int
      BY <1>3, <1>4
    <3> QED BY <3>1 DEF TurnX, TurnY
  <2>4. value.i \in Int /\ value.j \in Int /\ 2 * value.i + 1 - g.x = 4 + a /\ 2 * value.j + 1 - g.y = 4 + b
    BY <1>5
  <2> HIDE DEF a, b, at
  <2>5. 8 * m.i + (2 * value.i + 1 - g.x) = 8 * m.i + 4 + a /\ 8 * m.j + (2 * value.j + 1 - g.y) = 8 * m.j + 4 + b
    <3>1. \A q, e, h \in Int : h = 4 + e => 8 * q + h = 8 * q + 4 + e
      OBVIOUS
    <3>2. 2 * value.i + 1 - g.x \in Int /\ 2 * value.j + 1 - g.y \in Int
      BY <2>2, <2>4
    <3> DEFINE h1 == 2 * value.i + 1 - g.x
               h2 == 2 * value.j + 1 - g.y
               q1 == m.i
               q2 == m.j
    <3>3. h1 \in Int /\ h2 \in Int /\ q1 \in Int /\ q2 \in Int /\ h1 = 4 + a /\ h2 = 4 + b
      BY <2>1, <2>4, <3>2
    <3> HIDE DEF h1, h2, q1, q2
    <3>4. 8 * q1 + h1 = 8 * q1 + 4 + a /\ 8 * q2 + h2 = 8 * q2 + 4 + b
      BY <2>3, <3>1, <3>3
    <3> QED BY <3>4 DEF h1, h2, q1, q2
  <2> QED BY <1>2, <2>1, <2>5, Zenon DEF a, b
<1>8. X \in Int /\ Y \in Int /\ L \in Nat
  <2> HIDE DEF i, j
  <2> QED BY <1>1, <1>3
<1>9. SameRim(side, k, t, X, Y, L, v[1], X2, Y2)
  <2> HIDE DEF t, j, i
  <2>1. CASE side = "N"
    <3>1. SameRim("N", m.rotations, t, 8 * i + c, 8 * j + 8, 8 * size, m.t % 6,
                 8 * m.i + 4 + TurnX(m.rotations, A, B), 8 * m.j + 4 + TurnY(m.rotations, A, B))
      BY <1>1, <1>4, <1>m, <2>1, NorthRim
    <3>2. d = 8
      BY <2>1
    <3> HIDE DEF X2, Y2
    <3> QED BY <1>2, <1>6, <1>7, <2>1, <3>1, <3>2, Zenon
  <2>2. CASE side = "E"
    <3>1. SameRim("E", m.rotations, t, 8 * i + 8, 8 * j + d, 8 * size, m.t % 6,
                 8 * m.i + 4 + TurnX(m.rotations, A, B), 8 * m.j + 4 + TurnY(m.rotations, A, B))
      BY <1>1, <1>4, <1>m, <2>2, EastRim
    <3>2. c = 8
      BY <2>2
    <3> HIDE DEF X2, Y2
    <3> QED BY <1>2, <1>6, <1>7, <2>2, <3>1, <3>2, Zenon
  <2> QED BY <2>1, <2>2
<1>11. /\ Located(r, f, p) = FoldedTo(t, X, Y, L)
       /\ Directed(r, f, "x", p) = Heads(t, X, L, XAxis(t))
       /\ Directed(r, f, "y", p) = Heads(t, Y, L, YAxis(t))
  <2>1. X = 8 * w[3] + (2 * p[1] + 1 - f.x) /\ Y = 8 * w[2] + (2 * p[2] + 1 - f.y) /\ L = 8 * size
    OBVIOUS
  <2> HIDE DEF X, Y, L
  <2> QED BY <2>1, LocatedIs
<1>12. /\ Located(s, g, at) = FoldedTo(v[1], X2, Y2, L)
       /\ Directed(s, g, "x", at) = Heads(v[1], X2, L, XAxis(v[1]))
       /\ Directed(s, g, "y", at) = Heads(v[1], Y2, L, YAxis(v[1]))
  <2>1. IsPoint(at) /\ s = RankOf(Layout, v)
    BY <1>5 DEF IsPoint, v
  <2>2. X2 = 8 * v[3] + (2 * at[1] + 1 - g.x) /\ Y2 = 8 * v[2] + (2 * at[2] + 1 - g.y) /\ L = 8 * size
    OBVIOUS
  <2> HIDE DEF at, X2, Y2, L
  <2> QED BY <1>2, <2>1, <2>2, LocatedIs
<1> HIDE DEF at, X, Y, L, X2, Y2, t
<1>13. /\ FoldedTo(t, X, Y, L) = Raised(t, X, Y, 0, L)
       /\ Heads(t, X, L, XAxis(t)) = XAxis(t) /\ Heads(t, Y, L, YAxis(t)) = YAxis(t)
       /\ FoldedTo(v[1], X2, Y2, L) = Raised(v[1], X2, Y2, 0, L)
       /\ Heads(v[1], X2, L, XAxis(v[1])) = XAxis(v[1]) /\ Heads(v[1], Y2, L, YAxis(v[1])) = YAxis(v[1])
  <2>1. X \in 0..L /\ Y \in 0..L /\ X2 \in 0..L /\ Y2 \in 0..L
    BY <1>9 DEF SameRim
  <2>2. /\ FoldedTo(t, X, Y, L) = Raised(t, X, Y, 0, L)
        /\ Heads(t, X, L, XAxis(t)) = XAxis(t) /\ Heads(t, Y, L, YAxis(t)) = YAxis(t)
    BY <1>8, <2>1, OnTheSquare, Zenon
  <2> DEFINE u == v[1]
  <2>3. /\ FoldedTo(u, X2, Y2, L) = Raised(u, X2, Y2, 0, L)
        /\ Heads(u, X2, L, XAxis(u)) = XAxis(u) /\ Heads(u, Y2, L, YAxis(u)) = YAxis(u)
    BY <1>8, <2>1, OnTheSquare, Zenon
  <2> QED BY <2>2, <2>3, Zenon
<1>14. SamePlace(r, f, p, s, g, value)
  BY <1>9, <1>11, <1>12, <1>13, Zenon DEF SamePlace, SameRim, at
<1>15. Directed(r, f, component, p) = Times(sign, Directed(s, g, of, at))
  <2>1. CASE side = "N"
    <3>1. component = "x" /\ of = ArrivesAsX(k) /\ sign = SignOfX(k)
      BY <2>1
    <3>2. Directed(s, g, of, at) = IF k = 0 THEN XAxis(v[1]) ELSE YAxis(v[1])
      BY <1>12, <1>13, <3>1 DEF ArrivesAsX
    <3> QED BY <1>9, <1>11, <1>13, <2>1, <3>1, <3>2 DEF SameRim
  <2>2. CASE side = "E"
    <3>1. component = "y" /\ of = ArrivesAsY(k) /\ sign = SignOfY(k)
      BY <2>2
    <3>2. Directed(s, g, of, at) = IF k = 0 THEN YAxis(v[1]) ELSE XAxis(v[1])
      BY <1>12, <1>13, <3>1 DEF ArrivesAsY
    <3> QED BY <1>9, <1>11, <1>13, <2>2, <3>1, <3>2 DEF SameRim
  <2> QED BY <2>1, <2>2
<1> QED BY <1>5, <1>14, <1>15, Zenon DEF SameDirection, at

(* The values of a line: turned, they run the other way and change sign. *)
OfLine(value, x, k, e) ==
  /\ x = "S" /\ k = 0 => value = [of |-> "x", sign |-> 1, i |-> e - 1, j |-> 0]
  /\ x = "W" /\ k = 0 => value = [of |-> "y", sign |-> 1, i |-> 0, j |-> e - 1]
  /\ x = "S" /\ k = 1 => value = [of |-> "x", sign |-> -1, i |-> 4 - e, j |-> 0]
  /\ x = "W" /\ k = 3 => value = [of |-> "y", sign |-> -1, i |-> 0, j |-> 4 - e]

(* The line of values a side sends, turned for the rank that receives it. *)
LEMMA LineSent ==
  ASSUME NEW x \in {"S", "W"}, NEW turns \in {0, 1, 3}, NEW k, k = (-turns) % 4, NEW e \in 1..Width
  PROVE  OfLine(IsendVectorSharedBoundary(x, Width, turns)[e], x, k, e)
<1> DEFINE along == IF x = "S" THEN "x" ELSE "y"
           line == [h \in 1..Width |-> [of |-> along, sign |-> 1,
                                        i |-> IF x = "S" THEN h - 1 ELSE 0,
                                        j |-> IF x = "S" THEN 0 ELSE h - 1]]
           turned == RotateLine(line, along, -turns)
           value == IsendVectorSharedBoundary(x, Width, turns)[e]
<1>1. IsendVectorSharedBoundary(x, Width, turns)
        = IF turns \in (IF x = "S" THEN {2, 3} ELSE {1, 2}) THEN MinusSeq(turned) ELSE turned
  BY Zenon DEF IsendVectorSharedBoundary
<1>2. Width = 4 /\ e \in 1..4 /\ 5 - e \in 1..4 /\ e \in Int
  BY DEF Width
<1>3. turned = IF k = 2 \/ (along = "x" /\ k = 1) \/ (along = "y" /\ k = 3) THEN Reverse(line) ELSE line
  BY Zenon DEF RotateLine
<1>4. \A h \in 1..4 : line[h] = [of |-> along, sign |-> 1,
                                 i |-> IF x = "S" THEN h - 1 ELSE 0,
                                 j |-> IF x = "S" THEN 0 ELSE h - 1]
  BY <1>2, Zenon
<1>5. Len(line) = 4 /\ DOMAIN line = 1..4
  BY <1>2
<1> HIDE DEF line
<1>6. Reverse(line) = [h \in 1..4 |-> line[4 - h + 1]]
  BY <1>5, Zenon DEF Reverse
<1>7. DOMAIN Reverse(line) = 1..4 /\ Reverse(line)[e] = line[5 - e]
  <2>1. 4 - e + 1 = 5 - e
    BY <1>2
  <2>2. Reverse(line)[e] = line[4 - e + 1]
    BY <1>2, <1>6, Zenon
  <2> QED BY <1>6, <2>1, <2>2, Zenon
<1>8. k \in {0, 1, 3} /\ (k = 0 => turns = 0) /\ (k = 1 => turns = 3) /\ (k = 3 => turns = 1)
  OBVIOUS
<1> HIDE DEF turned
<1>9. ASSUME k = 0 PROVE value = line[e]
  BY <1>1, <1>3, <1>8, <1>9
<1>10. ASSUME (x = "S" /\ k = 1) \/ (x = "W" /\ k = 3) PROVE value = Minus(line[5 - e])
  <2>1. turned = Reverse(line) /\ value = MinusSeq(turned)[e]
    BY <1>1, <1>3, <1>8, <1>10
  <2>2. MinusSeq(Reverse(line)) = [h \in 1..4 |-> Minus(Reverse(line)[h])]
    BY <1>7, Zenon DEF MinusSeq
  <2>3. MinusSeq(Reverse(line))[e] = Minus(Reverse(line)[e])
    BY <1>2, <2>2, Zenon
  <2> QED BY <1>7, <2>1, <2>3, Zenon
<1>11. \A of, i, j : Minus([of |-> of, sign |-> 1, i |-> i, j |-> j]) = [of |-> of, sign |-> -1, i |-> i, j |-> j]
  BY DEF Minus
<1> HIDE DEF value
<1>12. (5 - e) - 1 = 4 - e
  BY <1>2
<1>13. ASSUME x = "S", k = 0 PROVE value = [of |-> "x", sign |-> 1, i |-> e - 1, j |-> 0]
  BY <1>2, <1>4, <1>9, <1>13, Zenon
<1>14. ASSUME x = "W", k = 0 PROVE value = [of |-> "y", sign |-> 1, i |-> 0, j |-> e - 1]
  <2>1. x # "S"
    BY <1>14
  <2> QED BY <1>2, <1>4, <1>9, <1>14, <2>1, Zenon
<1>15. ASSUME x = "S", k = 1 PROVE value = [of |-> "x", sign |-> -1, i |-> 4 - e, j |-> 0]
  <2>1. line[5 - e] = [of |-> "x", sign |-> 1, i |-> (5 - e) - 1, j |-> 0]
    BY <1>2, <1>4, <1>15, Zenon
  <2>2. line[5 - e] = [of |-> "x", sign |-> 1, i |-> 4 - e, j |-> 0]
    BY <1>12, <2>1, Zenon
  <2>3. value = Minus(line[5 - e])
    BY <1>10, <1>15, Zenon
  <2>4. Minus([of |-> "x", sign |-> 1, i |-> 4 - e, j |-> 0]) = [of |-> "x", sign |-> -1, i |-> 4 - e, j |-> 0]
    BY <1>11, Zenon
  <2> QED BY <2>2, <2>3, <2>4, Zenon
<1>16. ASSUME x = "W", k = 3 PROVE value = [of |-> "y", sign |-> -1, i |-> 0, j |-> 4 - e]
  <2>0. x # "S"
    BY <1>16
  <2>1. line[5 - e] = [of |-> "y", sign |-> 1, i |-> 0, j |-> (5 - e) - 1]
    BY <1>2, <1>4, <1>16, <2>0, Zenon
  <2>2. line[5 - e] = [of |-> "y", sign |-> 1, i |-> 0, j |-> 4 - e]
    BY <1>12, <2>1, Zenon
  <2>3. value = Minus(line[5 - e])
    BY <1>10, <1>16, Zenon
  <2>4. Minus([of |-> "y", sign |-> 1, i |-> 0, j |-> 4 - e]) = [of |-> "y", sign |-> -1, i |-> 0, j |-> 4 - e]
    BY <1>11, Zenon
  <2> QED BY <2>2, <2>3, <2>4, Zenon
<1> QED BY <1>13, <1>14, <1>15, <1>16, Zenon DEF OfLine, value

(* It is received where it belongs. *)
LEMMA LineReceived ==
  ASSUME NEW side \in {"N", "E"}, NEW x \in {"S", "W"}, NEW k, Faces(side, x, k),
         NEW turns \in {0, 1, 3}, k = (-turns) % 4, NEW e \in 1..Width,
         NEW f, NEW g, NEW of, NEW sign, NEW p,
         \/ side = "N" /\ f = Field(0, 1, "xy") /\ of = ArrivesAsX(k) /\ sign = SignOfX(k) /\ p = <<e - 1, 4>>
         \/ side = "E" /\ f = Field(1, 0, "xy") /\ of = ArrivesAsY(k) /\ sign = SignOfY(k) /\ p = <<4, e - 1>>,
         g = IF of = "x" THEN Field(0, 1, "xy") ELSE Field(1, 0, "xy")
  PROVE  Received(IsendVectorSharedBoundary(x, Width, turns)[e], of, sign, f, g, side, k, p)
<1> DEFINE value == IsendVectorSharedBoundary(x, Width, turns)[e]
<1>1. /\ x = "S" /\ k = 0 => value = [of |-> "x", sign |-> 1, i |-> e - 1, j |-> 0]
      /\ x = "W" /\ k = 0 => value = [of |-> "y", sign |-> 1, i |-> 0, j |-> e - 1]
      /\ x = "S" /\ k = 1 => value = [of |-> "x", sign |-> -1, i |-> 4 - e, j |-> 0]
      /\ x = "W" /\ k = 3 => value = [of |-> "y", sign |-> -1, i |-> 0, j |-> 4 - e]
  <2>1. OfLine(value, x, k, e)
    BY LineSent
  <2> HIDE DEF value
  <2> QED BY <2>1, Zenon DEF OfLine
<1> HIDE DEF value
<1>2. e \in Int
  BY DEF Width
<1>3. DirX("N") = 0 /\ DirY("N") = 1 /\ DirX("E") = 1 /\ DirY("E") = 0
      /\ DirX("S") = 0 /\ DirY("S") = -1 /\ DirX("W") = -1 /\ DirY("W") = 0
  BY DirsAre
<1>4. \/ side = "N" /\ x = "S" /\ k = 0
      \/ side = "N" /\ x = "W" /\ k = 3
      \/ side = "E" /\ x = "W" /\ k = 0
      \/ side = "E" /\ x = "S" /\ k = 1
  BY <1>3 DEF Faces, TurnX, TurnY
<1>6. \A q, o \in Int : Off(q, o, 0) = (2 * q + 1 - o) - 4 /\ Off(q, o, 1) = (2 * q + 1 - o) - 12
  BY DEF Off
<1>7. CASE side = "N" /\ x = "S" /\ k = 0
  <2>1. of = "x" /\ sign = 1 /\ f = Field(0, 1, "xy") /\ g = Field(0, 1, "xy") /\ p = <<e - 1, 4>>
    BY <1>7 DEF ArrivesAsX, SignOfX
  <2>2. f.x = 0 /\ f.y = 1 /\ g.x = 0 /\ g.y = 1 /\ p[1] = e - 1 /\ p[2] = 4
    BY <2>1 DEF Field
  <2>3. DirX(side) = 0 /\ DirY(side) = 1
    BY <1>3, <1>7
  <2>4. value = [of |-> of, sign |-> sign, i |-> e - 1, j |-> 0]
    BY <1>1, <1>7, <2>1
  <2>5. value.i = e - 1 /\ value.j = 0
    BY <2>4
  <2>6. value = [of |-> of, sign |-> sign, i |-> value.i, j |-> value.j]
    BY <2>4, <2>5, Zenon
  <2> DEFINE a == Off(p[1], f.x, DirX(side))
             b == Off(p[2], f.y, DirY(side))
  <2>7. a = 2 * e - 5 /\ b = -4
    <3>1. a = Off(e - 1, 0, 0) /\ b = Off(4, 1, 1)
      BY <2>2, <2>3, Zenon
    <3> HIDE DEF a, b
    <3> QED BY <1>2, <1>6, <3>1
  <2> HIDE DEF a, b
  <2>8. 2 * value.i + 1 - g.x = 4 + TurnX(k, a, b) /\ 2 * value.j + 1 - g.y = 4 + TurnY(k, a, b)
    BY <1>2, <1>7, <2>2, <2>5, <2>7 DEF TurnX, TurnY
  <2>9. value.i \in Int /\ value.j \in Int
    BY <1>2, <2>5
  <2> QED BY <2>6, <2>8, <2>9, Zenon DEF Received, a, b, value
<1>8. CASE side = "N" /\ x = "W" /\ k = 3
  <2>1. of = "y" /\ sign = -1 /\ f = Field(0, 1, "xy") /\ g = Field(1, 0, "xy") /\ p = <<e - 1, 4>>
    BY <1>8 DEF ArrivesAsX, SignOfX
  <2>2. f.x = 0 /\ f.y = 1 /\ g.x = 1 /\ g.y = 0 /\ p[1] = e - 1 /\ p[2] = 4
    BY <2>1 DEF Field
  <2>3. DirX(side) = 0 /\ DirY(side) = 1
    BY <1>3, <1>8
  <2>4. value = [of |-> of, sign |-> sign, i |-> 0, j |-> 4 - e]
    BY <1>1, <1>8, <2>1
  <2>5. value.i = 0 /\ value.j = 4 - e
    BY <2>4
  <2>6. value = [of |-> of, sign |-> sign, i |-> value.i, j |-> value.j]
    BY <2>4, <2>5, Zenon
  <2> DEFINE a == Off(p[1], f.x, DirX(side))
             b == Off(p[2], f.y, DirY(side))
  <2>7. a = 2 * e - 5 /\ b = -4
    <3>1. a = Off(e - 1, 0, 0) /\ b = Off(4, 1, 1)
      BY <2>2, <2>3, Zenon
    <3> HIDE DEF a, b
    <3> QED BY <1>2, <1>6, <3>1
  <2> HIDE DEF a, b
  <2>8. 2 * value.i + 1 - g.x = 4 + TurnX(k, a, b) /\ 2 * value.j + 1 - g.y = 4 + TurnY(k, a, b)
    BY <1>2, <1>8, <2>2, <2>5, <2>7 DEF TurnX, TurnY
  <2>9. value.i \in Int /\ value.j \in Int
    BY <1>2, <2>5
  <2> QED BY <2>6, <2>8, <2>9, Zenon DEF Received, a, b, value
<1>9. CASE side = "E" /\ x = "W" /\ k = 0
  <2>1. of = "y" /\ sign = 1 /\ f = Field(1, 0, "xy") /\ g = Field(1, 0, "xy") /\ p = <<4, e - 1>>
    BY <1>9 DEF ArrivesAsY, SignOfY
  <2>2. f.x = 1 /\ f.y = 0 /\ g.x = 1 /\ g.y = 0 /\ p[1] = 4 /\ p[2] = e - 1
    BY <2>1 DEF Field
  <2>3. DirX(side) = 1 /\ DirY(side) = 0
    BY <1>3, <1>9
  <2>4. value = [of |-> of, sign |-> sign, i |-> 0, j |-> e - 1]
    BY <1>1, <1>9, <2>1
  <2>5. value.i = 0 /\ value.j = e - 1
    BY <2>4
  <2>6. value = [of |-> of, sign |-> sign, i |-> value.i, j |-> value.j]
    BY <2>4, <2>5, Zenon
  <2> DEFINE a == Off(p[1], f.x, DirX(side))
             b == Off(p[2], f.y, DirY(side))
  <2>7. a = -4 /\ b = 2 * e - 5
    <3>1. a = Off(4, 1, 1) /\ b = Off(e - 1, 0, 0)
      BY <2>2, <2>3, Zenon
    <3> HIDE DEF a, b
    <3> QED BY <1>2, <1>6, <3>1
  <2> HIDE DEF a, b
  <2>8. 2 * value.i + 1 - g.x = 4 + TurnX(k, a, b) /\ 2 * value.j + 1 - g.y = 4 + TurnY(k, a, b)
    BY <1>2, <1>9, <2>2, <2>5, <2>7 DEF TurnX, TurnY
  <2>9. value.i \in Int /\ value.j \in Int
    BY <1>2, <2>5
  <2> QED BY <2>6, <2>8, <2>9, Zenon DEF Received, a, b, value
<1>10. CASE side = "E" /\ x = "S" /\ k = 1
  <2>1. of = "x" /\ sign = -1 /\ f = Field(1, 0, "xy") /\ g = Field(0, 1, "xy") /\ p = <<4, e - 1>>
    BY <1>10 DEF ArrivesAsY, SignOfY
  <2>2. f.x = 1 /\ f.y = 0 /\ g.x = 0 /\ g.y = 1 /\ p[1] = 4 /\ p[2] = e - 1
    BY <2>1 DEF Field
  <2>3. DirX(side) = 1 /\ DirY(side) = 0
    BY <1>3, <1>10
  <2>4. value = [of |-> of, sign |-> sign, i |-> 4 - e, j |-> 0]
    BY <1>1, <1>10, <2>1
  <2>5. value.i = 4 - e /\ value.j = 0
    BY <2>4
  <2>6. value = [of |-> of, sign |-> sign, i |-> value.i, j |-> value.j]
    BY <2>4, <2>5, Zenon
  <2> DEFINE a == Off(p[1], f.x, DirX(side))
             b == Off(p[2], f.y, DirY(side))
  <2>7. a = -4 /\ b = 2 * e - 5
    <3>1. a = Off(4, 1, 1) /\ b = Off(e - 1, 0, 0)
      BY <2>2, <2>3, Zenon
    <3> HIDE DEF a, b
    <3> QED BY <1>2, <1>6, <3>1
  <2> HIDE DEF a, b
  <2>8. 2 * value.i + 1 - g.x = 4 + TurnX(k, a, b) /\ 2 * value.j + 1 - g.y = 4 + TurnY(k, a, b)
    BY <1>2, <1>10, <2>2, <2>5, <2>7 DEF TurnX, TurnY
  <2>9. value.i \in Int /\ value.j \in Int
    BY <1>2, <2>5
  <2> QED BY <2>6, <2>8, <2>9, Zenon DEF Received, a, b, value
<1> QED BY <1>4, <1>7, <1>8, <1>9, <1>10, Zenon DEF value

(* The rank a side leads to sends one line back, of the very same points. *)
LEMMA EdgesAgree ==
  ASSUME WalkerOK
  PROVE  SharedEdgesAgree
<1> DEFINE n == size
           l == Layout
           fields == [x |-> Field(0, 1, "xy"), y |-> Field(1, 0, "xy")]
<1>1. IsSquare(l, n)
  BY LayoutOfWalker
<1>2. \A r \in 0..(TotalRanks(l) - 1) : \E w \in Places(n) : r = RankOf(l, w)
  BY <1>1, RankOfSomePlace
<1>3. PICK w \in Places(n) : rank = RankOf(l, w)
  BY <1>2 DEF WalkerOK
<1>4. ASSUME NEW side \in {"N", "E"}
      PROVE  LET s    == SphereBoundary(side, rank, Layout).to
                 lines == {x \in {"S", "W"} : SphereBoundary(x, s, Layout).to = rank}
             IN  /\ Cardinality(lines) = 1
                 /\ \A x \in lines, k \in 1..Width :
                      LET value == IsendVectorSharedBoundary(x, Width,
                                     SphereBoundary(x, s, Layout).rotations)[k]
                          at    == IrecvVectorSharedBoundary(side, Width, k)
                          p     == <<at.i, at.j>>
                      IN  /\ SamePlace(rank, fields[at.of], p, s, fields[value.of], value)
                          /\ SameDirection(rank, fields[at.of], at.of, p, s,
                                           fields[value.of], value)
  <2> DEFINE s    == SphereBoundary(side, rank, Layout).to
             lines == {x \in {"S", "W"} : SphereBoundary(x, s, Layout).to = rank}
             u    == NextAt(side, n, w)
             k    == ToThe(side, n, w[1], w[2], w[3]).rotations
  <2>1. side \in Types /\ RealAt(side, n, w)
    BY DEF Types, Edges, RealAt, AtCubeCorner
  <2>2. u \in Places(n) /\ s = RankOf(l, u)
    <3>1. BoundaryAt(side, l, w) = SphereBoundary(side, rank, Layout)
      BY <1>3 DEF BoundaryAt
    <3>2. u \in Places(n) /\ BoundaryAt(side, l, w) = Boundary(RankOf(l, u), k)
      BY <1>1, <2>1, BoundaryAtIs
    <3> QED BY <3>1, <3>2 DEF Boundary
  <2> HIDE DEF s, u
  <2>3. ASSUME NEW x \in {"S", "W"}
        PROVE  /\ x \in Types /\ RealAt(x, n, u) /\ BoundaryAt(x, l, u) = SphereBoundary(x, s, Layout)
               /\ BoundaryAt(x, l, u) # NoBoundary
    <3>1. x \in Types /\ RealAt(x, n, u)
      BY DEF Types, Edges, RealAt, AtCubeCorner
    <3> QED BY <1>1, <2>2, <3>1, BoundaryAtIs DEF BoundaryAt
  <2>4. PICK y \in {"S", "W"} : BoundaryAt(y, l, u).to = RankOf(l, w)
    BY <1>1, <2>1, BoundariesLeadBack DEF u
  <2>5. lines = {y}
    <3>1. y \in lines
      BY <1>3, <2>3, <2>4
    <3>2. ASSUME NEW x \in lines PROVE x = y
      <4>1. x \in {"S", "W"} /\ SphereBoundary(x, s, Layout).to = rank
        OBVIOUS
      <4>2. RealAt(x, n, u) /\ RealAt(y, n, u) /\ x \in Types /\ y \in Types
            /\ BoundaryAt(x, l, u).to = BoundaryAt(y, l, u).to
        BY <1>3, <2>3, <2>4, <4>1
      <4> HIDE DEF lines
      <4> QED BY <1>1, <2>2, <4>2, BoundariesLeadApart
    <3> QED BY <3>1, <3>2
  <2>6. Cardinality(lines) = 1
    BY <2>5, FS_Singleton
  <2> DEFINE turns == BoundaryAt(y, l, u).rotations
  <2>7. Faces(side, y, k) /\ (-turns) % 4 = k /\ turns \in {0, 1, 3}
    <3> DEFINE back == <<y, BoundaryAt(y, l, u)>>
    <3>1. back \in BoundariesTo(s, rank)
      <4>1. back \in SphereBoundaries(s)
        BY <2>3 DEF SphereBoundaries, Types
      <4> QED BY <1>3, <2>3, <2>4, <4>1 DEF BoundariesTo, RealBoundaries
    <3>2. s = RankOf(Layout, NextAt(side, size, w))
      BY <2>2 DEF u
    <3>3. back[1] = y /\ back[2].rotations = turns
      OBVIOUS
    <3>4. /\ Faces(side, back[1], k) /\ (-back[2].rotations) % 4 = k
          /\ back[2].rotations \in {0, 1, 3}
      <4> HIDE DEF back
      <4> QED BY <1>3, <2>1, <3>1, <3>2, OneBoundaryBack
    <3> HIDE DEF back
    <3> QED BY <3>3, <3>4
  <2>8. SphereBoundary(y, s, Layout).rotations = turns
    BY <2>3
  <2>9. k = ToThe(side, size, w[1], w[2], w[3]).rotations
    OBVIOUS
  <2>10. s = RankOf(Layout, NextAt(side, size, w))
    BY <2>2 DEF u
  <2> HIDE DEF turns, k
  <2>11. ASSUME NEW e \in 1..Width
         PROVE  LET value == IsendVectorSharedBoundary(y, Width, turns)[e]
                    at    == IrecvVectorSharedBoundary(side, Width, e)
                    p     == <<at.i, at.j>>
                IN  /\ SamePlace(rank, fields[at.of], p, s, fields[value.of], value)
                    /\ SameDirection(rank, fields[at.of], at.of, p, s, fields[value.of], value)
    <3> DEFINE value == IsendVectorSharedBoundary(y, Width, turns)[e]
               at    == IrecvVectorSharedBoundary(side, Width, e)
               p     == <<at.i, at.j>>
               of    == IF side = "N" THEN ArrivesAsX(k) ELSE ArrivesAsY(k)
               sign  == IF side = "N" THEN SignOfX(k) ELSE SignOfY(k)
               g     == IF of = "x" THEN Field(0, 1, "xy") ELSE Field(1, 0, "xy")
               component == IF side = "N" THEN "x" ELSE "y"
               f     == IF side = "N" THEN Field(0, 1, "xy") ELSE Field(1, 0, "xy")
    <3>1. at.of = component /\ p = IF side = "N" THEN <<e - 1, 4>> ELSE <<4, e - 1>>
      BY DEF IrecvVectorSharedBoundary, Width
    <3>2. f = fields[at.of] /\ g = fields[of]
      <4>1. of \in {"x", "y"}
        BY DEF ArrivesAsX, ArrivesAsY
      <4> QED BY <3>1, <4>1
    <3>3. IsField(f) /\ IsField(g)
      BY DEF IsField, Field
    <3>4. \/ side = "N" /\ f = Field(0, 1, "xy") /\ of = ArrivesAsX(k) /\ sign = SignOfX(k) /\ p = <<e - 1, 4>>
          \/ side = "E" /\ f = Field(1, 0, "xy") /\ of = ArrivesAsY(k) /\ sign = SignOfY(k) /\ p = <<4, e - 1>>
      BY <3>1, Zenon
    <3>5. g = IF of = "x" THEN Field(0, 1, "xy") ELSE Field(1, 0, "xy")
      OBVIOUS
    <3>6. \/ side = "N" /\ component = "x" /\ of = ArrivesAsX(k) /\ sign = SignOfX(k)
          \/ side = "E" /\ component = "y" /\ of = ArrivesAsY(k) /\ sign = SignOfY(k)
      BY Zenon
    <3> HIDE DEF f, g, of, sign, component, value, p, at
    <3>7. Received(value, of, sign, f, g, side, k, p)
      BY <2>7, <3>4, <3>5, LineReceived, Zenon DEF value
    <3>8. value.of = of
      <4>1. \A e1, e2, e3, e4 : value = [of |-> e1, sign |-> e2, i |-> e3, j |-> e4] => value.of = e1
        OBVIOUS
      <4> QED BY <3>7, <4>1 DEF Received
    <3> DEFINE c == 2 * p[1] + 1 - f.x
               d == 2 * p[2] + 1 - f.y
    <3>9. IsPoint(p) /\ c \in 0..8 /\ d \in 0..8 /\ (side = "N" => d = 8) /\ (side = "E" => c = 8)
      <4>1. e \in 1..4
        BY DEF Width
      <4>2. CASE side = "N"
        <5>1. p[1] = e - 1 /\ p[2] = 4 /\ f.x = 0 /\ f.y = 1
          BY <3>4, <4>2 DEF Field
        <5> QED BY <4>1, <4>2, <5>1 DEF IsPoint
      <4>3. CASE side = "E"
        <5>1. p[1] = 4 /\ p[2] = e - 1 /\ f.x = 1 /\ f.y = 0
          BY <3>4, <4>3 DEF Field
        <5> QED BY <4>1, <4>3, <5>1 DEF IsPoint
      <4> QED BY <4>2, <4>3
    <3>10. c = 2 * p[1] + 1 - f.x /\ d = 2 * p[2] + 1 - f.y
      OBVIOUS
    <3> HIDE DEF c, d, fields
    <3>11. SamePlace(rank, f, p, s, g, value) /\ SameDirection(rank, f, component, p, s, g, value)
      BY <1>3, <2>9, <2>10, <3>3, <3>6, <3>7, <3>9, <3>10, RimInPlace
    <3> QED BY <3>1, <3>2, <3>8, <3>11, Zenon DEF value, p, at
  <2> DEFINE AgreesAt(x, e) ==
               LET value == IsendVectorSharedBoundary(x, Width, SphereBoundary(x, s, Layout).rotations)[e]
                   at    == IrecvVectorSharedBoundary(side, Width, e)
                   p     == <<at.i, at.j>>
               IN  /\ SamePlace(rank, fields[at.of], p, s, fields[value.of], value)
                   /\ SameDirection(rank, fields[at.of], at.of, p, s, fields[value.of], value)
  <2>12. \A e \in 1..Width : AgreesAt(y, e)
    BY <2>8, <2>11, Zenon
  <2> HIDE DEF AgreesAt
  <2>13. \A x \in lines, e \in 1..Width : AgreesAt(x, e)
    BY <2>5, <2>12
  <2> QED BY <2>6, <2>13, Zenon DEF AgreesAt, lines, s, fields
<1> QED BY <1>4, Zenon DEF SharedEdgesAgree

-----------------------------------------------------------------------------
(* The lists of indices a rank caches for the kernels.                     *)

(* What the cache holds of the indices sent, and of those received. *)
InnerListed(f, type, rotations, points) ==
  <<IndicesKey(f, InnerSlices(f, Width, type, points), rotations),
    BuildFlattenIndices("s", f, InnerSlices(f, Width, type, points), TRUE, rotations)>>
OuterListed(f, type, rotations, points) ==
  <<IndicesKey(f, HaloSlices(f, Width, type, points), rotations),
    BuildFlattenIndices("s", f, HaloSlices(f, Width, type, points), FALSE, rotations)>>

(* Equal keys, equal lists. *)
LEMMA KeysAreOwn ==
  ASSUME NEW f, IsField(f), NEW g, IsField(g), NEW type \in Types, NEW other \in Types,
         NEW points \in {1, 3}, NEW a, NEW b
  PROVE  /\ InnerListed(f, type, a, points)[1] = InnerListed(g, other, b, points)[1]
              => InnerListed(f, type, a, points) = InnerListed(g, other, b, points)
         /\ OuterListed(f, type, a, points)[1] = OuterListed(g, other, b, points)[1]
              => OuterListed(f, type, a, points) = OuterListed(g, other, b, points)
         /\ InnerListed(f, type, a, points)[1] # OuterListed(g, other, b, points)[1]
<1> DEFINE InnerOf(order, region, turns) ==
             Flatten(RotateScalarData(View("s", region), -turns), order)
           OuterOf(order, region) == Flatten(View("s", region), order)
           inner(h, w) == InnerSlices(h, Width, w, points)
           outer(h, w) == HaloSlices(h, Width, w, points)
<1>1. \A h, region, turns : BuildFlattenIndices("s", h, region, TRUE, turns) = InnerOf(h.order, region, turns)
  BY Zenon DEF BuildFlattenIndices
<1>2. \A h, region, turns : BuildFlattenIndices("s", h, region, FALSE, turns) = OuterOf(h.order, region)
  BY Zenon DEF BuildFlattenIndices
<1> HIDE DEF InnerOf, OuterOf, inner, outer
<1>3. \A h, w, turns : /\ InnerListed(h, w, turns, points) = <<IndicesKey(h, inner(h, w), turns), InnerOf(h.order, inner(h, w), turns)>>
                       /\ OuterListed(h, w, turns, points) = <<IndicesKey(h, outer(h, w), turns), OuterOf(h.order, outer(h, w))>>
  BY <1>1, <1>2, Zenon DEF InnerListed, OuterListed, inner, outer
<1>4. \A h, s, turns : /\ IndicesKey(h, s, turns).slices = s
                        /\ IndicesKey(h, s, turns).rotations = turns /\ IndicesKey(h, s, turns).order = h.order
  BY DEF IndicesKey
<1>5. \A h, w, turns : /\ InnerListed(h, w, turns, points)[1] = IndicesKey(h, inner(h, w), turns)
                       /\ OuterListed(h, w, turns, points)[1] = IndicesKey(h, outer(h, w), turns)
  BY <1>3
<1>6. ASSUME InnerListed(f, type, a, points)[1] = InnerListed(g, other, b, points)[1]
      PROVE  InnerListed(f, type, a, points) = InnerListed(g, other, b, points)
  <2> DEFINE key == IndicesKey(f, inner(f, type), a)
             key2 == IndicesKey(g, inner(g, other), b)
  <2>2. key = key2
    BY <1>5, <1>6
  <2>3. /\ key.slices = inner(f, type) /\ key.rotations = a /\ key.order = f.order
        /\ key2.slices = inner(g, other) /\ key2.rotations = b /\ key2.order = g.order
    BY <1>4
  <2> HIDE DEF key, key2
  <2>1. inner(f, type) = inner(g, other) /\ a = b /\ f.order = g.order
    BY <2>2, <2>3, Zenon
  <2>4. key = IndicesKey(f, inner(f, type), a) /\ key2 = IndicesKey(g, inner(g, other), b)
    BY Zenon DEF key, key2
  <2> QED BY <1>3, <2>1, <2>2, <2>4, Zenon
<1>7. ASSUME OuterListed(f, type, a, points)[1] = OuterListed(g, other, b, points)[1]
      PROVE  OuterListed(f, type, a, points) = OuterListed(g, other, b, points)
  <2> DEFINE key == IndicesKey(f, outer(f, type), a)
             key2 == IndicesKey(g, outer(g, other), b)
  <2>2. key = key2
    BY <1>5, <1>7
  <2>3. /\ key.slices = outer(f, type) /\ key.rotations = a /\ key.order = f.order
        /\ key2.slices = outer(g, other) /\ key2.rotations = b /\ key2.order = g.order
    BY <1>4
  <2> HIDE DEF key, key2
  <2>1. outer(f, type) = outer(g, other) /\ a = b /\ f.order = g.order
    BY <2>2, <2>3, Zenon
  <2>4. key = IndicesKey(f, outer(f, type), a) /\ key2 = IndicesKey(g, outer(g, other), b)
    BY Zenon DEF key, key2
  <2> QED BY <1>3, <2>1, <2>2, <2>4, Zenon
<1>8. inner(f, type) # outer(g, other)
  <2>1. InnerSlicesOf(inner(f, type), f, type, points) /\ HaloSlicesOf(outer(g, other), g, other, points)
    BY InnerSlicesAre, HaloSlicesAre DEF inner, outer
  <2>2. /\ inner(f, type).x.start \in 0..3 /\ inner(f, type).y.start \in 0..3
    BY <2>1 DEF InnerSlicesOf, InnerStart, IsField, Width
  <2>3. outer(g, other).x.start \notin 0..3 \/ outer(g, other).y.start \notin 0..3
    <3>1. DirX(other) \in {-1, 1} \/ DirY(other) \in {-1, 1}
      BY DEF DirX, DirY, Types, Edges, Corners
    <3>2. /\ outer(g, other).x.start = HaloStart(DirX(other), g.x, points)
          /\ outer(g, other).y.start = HaloStart(DirY(other), g.y, points)
      BY <2>1 DEF HaloSlicesOf
    <3>3. \A d \in {-1, 1}, o \in 0..1 : HaloStart(d, o, points) \notin 0..3
      BY DEF HaloStart, Width
    <3> QED BY <3>1, <3>2, <3>3 DEF IsField
  <2> QED BY <2>2, <2>3
<1>9. InnerListed(f, type, a, points)[1] # OuterListed(g, other, b, points)[1]
  <2> DEFINE key == IndicesKey(f, inner(f, type), a)
             key2 == IndicesKey(g, outer(g, other), b)
  <2>1. key.slices = inner(f, type) /\ key2.slices = outer(g, other)
    BY <1>4
  <2>2. InnerListed(f, type, a, points)[1] = key /\ OuterListed(g, other, b, points)[1] = key2
    BY <1>5
  <2> HIDE DEF key, key2
  <2> QED BY <1>8, <2>1, <2>2, Zenon
<1> QED BY <1>6, <1>7, <1>9, Zenon

(* The cached lists of a rank, all told. *)
LEMMA CacheIs ==
  ASSUME WalkerOK, NEW points \in {1, 3}
  PROVE  /\ IsFiniteSet(CachedIndices(points))
         /\ \A e \in CachedIndices(points) : \E f, type, turns :
              /\ IsField(f) /\ type \in Types
              /\ e = InnerListed(f, type, turns, points) \/ e = OuterListed(f, type, turns, points)
<1> DEFINE Sides == {Field(i, j, "xy") : i, j \in 0..1}
           TurnsAt(type) == SphereBoundary(type, rank, Layout).rotations
           D == (Types \X ((0..1) \X (0..1))) \X (0..1)
           Listed(q) == IF q[2] = 0
                        THEN InnerListed(Field(q[1][2][1], q[1][2][2], "xy"), q[1][1], TurnsAt(q[1][1]), points)
                        ELSE OuterListed(Field(q[1][2][1], q[1][2][2], "xy"), q[1][1], TurnsAt(q[1][1]), points)
           G == [q \in D |-> Listed(q)]
           T == {Listed(q) : q \in D}
<1>1. ASSUME NEW e \in CachedIndices(points)
      PROVE  \E type \in Types, f \in Sides :
               e = InnerListed(f, type, TurnsAt(type), points) \/ e = OuterListed(f, type, TurnsAt(type), points)
  <2> DEFINE Cached(x, f, interior) ==
               LET region == GetBoundarySlice(f, Width, x[1], points, interior)
               IN  <<IndicesKey(f, region, x[2].rotations),
                     BuildFlattenIndices("s", f, region, interior, x[2].rotations)>>
             Region == RealBoundaries(rank)
  <2>1. CachedIndices(points)
          = UNION {{Cached(x, f, interior) : f \in Sides, interior \in BOOLEAN} : x \in Region}
    BY DEF CachedIndices
  <2>2. \A x, f : /\ Cached(x, f, TRUE) = InnerListed(f, x[1], x[2].rotations, points)
                  /\ Cached(x, f, FALSE) = OuterListed(f, x[1], x[2].rotations, points)
    BY Zenon DEF InnerListed, OuterListed, InnerSlices, HaloSlices
  <2> HIDE DEF Cached, Region, Sides
  <2>3. PICK x \in Region, f \in Sides, interior \in BOOLEAN : e = Cached(x, f, interior)
    BY <2>1
  <2>4. e = Cached(x, f, TRUE) \/ e = Cached(x, f, FALSE)
    BY <2>3, Zenon
  <2>5. PICK type \in Types : x = <<type, SphereBoundary(type, rank, Layout)>>
    BY DEF Region, RealBoundaries, SphereBoundaries, Types
  <2>6. x[1] = type /\ x[2].rotations = TurnsAt(type)
    BY <2>5
  <2>7. e = InnerListed(f, type, TurnsAt(type), points) \/ e = OuterListed(f, type, TurnsAt(type), points)
    BY <2>2, <2>4, <2>6, Zenon
  <2> QED BY <2>7, Zenon
<1>2. IsFiniteSet(D)
  <2>1. IsFiniteSet(0..1)
    <3>1. 0 \in Int /\ 1 \in Int
      OBVIOUS
    <3> QED BY <3>1, FS_Interval, Zenon
  <2>2. IsFiniteSet(Edges) /\ IsFiniteSet(Corners)
    <3>1. Edges = (({"W"} \cup {"E"}) \cup {"N"}) \cup {"S"} /\ Corners = (({"NW"} \cup {"NE"}) \cup {"SW"}) \cup {"SE"}
      BY DEF Edges, Corners
    <3>2. \A e : IsFiniteSet({e})
      BY FS_Singleton
    <3> QED BY <3>1, <3>2, FS_Union
  <2>3. IsFiniteSet(Types)
    BY <2>2, FS_Union DEF Types
  <2> QED BY <2>1, <2>3, FS_Product
<1>3. ASSUME NEW f \in Sides, NEW type \in Types
      PROVE  /\ InnerListed(f, type, TurnsAt(type), points) \in T
             /\ OuterListed(f, type, TurnsAt(type), points) \in T
  <2>1. PICK i \in 0..1, j \in 0..1 : f = Field(i, j, "xy")
    OBVIOUS
  <2> DEFINE q == <<<<type, <<i, j>>>>, 0>>
             h == <<<<type, <<i, j>>>>, 1>>
  <2>2. q \in D /\ h \in D
    OBVIOUS
  <2>3. /\ q[2] = 0 /\ q[1][1] = type /\ q[1][2][1] = i /\ q[1][2][2] = j
        /\ h[2] # 0 /\ h[1][1] = type /\ h[1][2][1] = i /\ h[1][2][2] = j
    OBVIOUS
  <2> HIDE DEF q, h, D, TurnsAt
  <2>5. Field(q[1][2][1], q[1][2][2], "xy") = f /\ Field(h[1][2][1], h[1][2][2], "xy") = f
    BY <2>1, <2>3
  <2>4. Listed(q) = InnerListed(f, type, TurnsAt(type), points)
    BY <2>3, <2>5
  <2>6. Listed(h) = OuterListed(f, type, TurnsAt(type), points)
    BY <2>3, <2>5
  <2> HIDE DEF Listed
  <2> QED BY <2>2, <2>4, <2>6
<1> HIDE DEF D, Listed, Sides, TurnsAt
<1>4. IsFiniteSet(T)
  <2>1. G \in Surjection(D, T)
    <3>1. G \in [D -> T]
      OBVIOUS
    <3>2. \A e \in T : \E q \in D : G[q] = e
      OBVIOUS
    <3> HIDE DEF G, T
    <3> QED BY <3>1, <3>2 DEF Surjection
  <2> HIDE DEF G, T
  <2> QED BY <1>2, <2>1, FS_Surjection
<1> HIDE DEF T
<1>5. CachedIndices(points) \subseteq T
  BY <1>1, <1>3
<1>6. \A f \in Sides : IsField(f)
  BY DEF Sides, Field, IsField
<1> QED BY <1>1, <1>4, <1>5, <1>6, FS_Subset

(* No two different lists share a key. *)
LEMMA CacheIsKeyed ==
  ASSUME WalkerOK, NEW points \in {1, 3}
  PROVE  Cardinality(CachedIndices(points)) = Cardinality({x[1] : x \in CachedIndices(points)})
<1> DEFINE C == CachedIndices(points)
           K == {x[1] : x \in C}
           key == [x \in C |-> x[1]]
<1>1. IsFiniteSet(C)
  BY CacheIs
<1>2. ASSUME NEW x \in C, NEW y \in C, x[1] = y[1] PROVE x = y
  <2>1. PICK f, type, a : /\ IsField(f) /\ type \in Types
                          /\ x = InnerListed(f, type, a, points) \/ x = OuterListed(f, type, a, points)
    BY CacheIs, Zenon
  <2>2. PICK g, other, b : /\ IsField(g) /\ other \in Types
                           /\ y = InnerListed(g, other, b, points) \/ y = OuterListed(g, other, b, points)
    BY CacheIs, Zenon
  <2> HIDE DEF C
  <2>3. /\ InnerListed(f, type, a, points)[1] = InnerListed(g, other, b, points)[1]
              => InnerListed(f, type, a, points) = InnerListed(g, other, b, points)
        /\ OuterListed(f, type, a, points)[1] = OuterListed(g, other, b, points)[1]
              => OuterListed(f, type, a, points) = OuterListed(g, other, b, points)
        /\ InnerListed(f, type, a, points)[1] # OuterListed(g, other, b, points)[1]
        /\ InnerListed(g, other, b, points)[1] # OuterListed(f, type, a, points)[1]
    BY <2>1, <2>2, KeysAreOwn
  <2> DEFINE p1 == InnerListed(f, type, a, points)
             p2 == OuterListed(f, type, a, points)
             q1 == InnerListed(g, other, b, points)
             q2 == OuterListed(g, other, b, points)
  <2>4. /\ (p1[1] = q1[1] => p1 = q1) /\ (p2[1] = q2[1] => p2 = q2) /\ p1[1] # q2[1] /\ q1[1] # p2[1]
        /\ x = p1 \/ x = p2
        /\ y = q1 \/ y = q2
    BY <2>1, <2>2, <2>3, Zenon
  <2> HIDE DEF p1, p2, q1, q2
  <2> QED BY <1>2, <2>4
<1> HIDE DEF C
<1>3. key \in [C -> K] /\ (\A x, y \in C : key[x] = key[y] => x = y) /\ (\A b \in K : \E x \in C : key[x] = b)
  BY <1>2
<1> HIDE DEF K, key
<1>4. Cardinality(K) = Cardinality(C)
  BY <1>1, <1>3, AsMany
<1> QED BY <1>4 DEF C, K

(* Every halo exchange of the walker's rank. *)
LEMMA HalosFit ==
  ASSUME WalkerOK
  PROVE  HalosContinueTheCube
<1> DEFINE n == size
           l == Layout
<1>1. IsSquare(l, n)
  BY LayoutOfWalker
<1>2. \A r \in 0..(TotalRanks(l) - 1) : \E w \in Places(n) : r = RankOf(l, w)
  BY <1>1, RankOfSomePlace
<1>3. PICK w \in Places(n) : rank = RankOf(l, w)
  BY <1>2 DEF WalkerOK
<1>4. ASSUME NEW x \in RealBoundaries(rank), NEW back \in BoundariesTo(x[2].to, rank),
             NEW points \in {1, 3}, NEW order \in Orders
      PROVE  /\ ScalarHalosContinue(x[1], x[2].to, back, points, order)
             /\ VectorHalosContinue(x[1], x[2].to, back, points, order)
  <2>1. PICK type \in Types : x = <<type, BoundaryAt(type, l, w)>>
    BY <1>3 DEF RealBoundaries, SphereBoundaries, Types, BoundaryAt
  <2>2. x[1] = type /\ x[2] = BoundaryAt(type, l, w) /\ x[2] # NoBoundary
    BY <2>1 DEF RealBoundaries
  <2>3. RealAt(type, n, w)
    BY <1>1, <2>2, BoundaryAtIs
  <2>4. x[2].to = RankOf(l, NextAt(type, n, w))
    BY <1>1, <2>2, <2>3, BoundaryAtIs DEF Boundary
  <2> DEFINE s == x[2].to
  <2>5. s = RankOf(Layout, NextAt(type, size, w)) /\ back \in BoundariesTo(s, rank)
    BY <2>4
  <2> HIDE DEF s
  <2>6. ScalarHalosContinue(type, s, back, points, order) /\ VectorHalosContinue(type, s, back, points, order)
    BY <1>3, <2>3, <2>5, ScalarsContinue, VectorsContinue
  <2> QED BY <2>2, <2>6, Zenon DEF s
<1> QED BY <1>4, CacheIsKeyed, EdgesAgree, Zenon DEF HalosContinueTheCube

(***************************************************************************)
(* On square layouts of every size, each point that a rank's halo receives *)
(* across an edge or a corner - scalars centered or on interfaces, the     *)
(* components of vectors, in one message, in either order of dimensions -  *)
(* is the value of the very point of the cube that it stands for, a        *)
(* component the one along its own direction; the kernels' copies are the  *)
(* same; two lists of indices under one key are equal; and the interface   *)
(* values of a shared side come, once, from the points across.             *)
(***************************************************************************)
THEOREM HalosFollowTheCube == WalkSpec => []HalosContinueTheCube
  BY WalkerTypeCorrect, HalosFit, PTL
=============================================================================
