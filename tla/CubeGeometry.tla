---------------------------- MODULE CubeGeometry ----------------------------
(***************************************************************************)
(* The reference the rank arithmetic of Partitioner is checked against:    *)
(* six oriented squares that make up the surface of a cube in space.  A    *)
(* tile is its lower left corner (in units of the cube's side) and its x   *)
(* and y axes; a subtile is the unit square at (i, j); two subtiles are    *)
(* neighbours when they share points.  Nothing here knows about ranks of   *)
(* neighbouring tiles, parities or rotations.                              *)
(***************************************************************************)
EXTENDS Integers, FiniteSets

Tiles == 0..5

Frame ==
  [t \in Tiles |->
    CASE t = 0 -> [o |-> <<1,0,0>>, x |-> <<0,1,0>>,  y |-> <<0,0,1>>]
      [] t = 1 -> [o |-> <<1,1,0>>, x |-> <<-1,0,0>>, y |-> <<0,0,1>>]
      [] t = 2 -> [o |-> <<1,1,1>>, x |-> <<-1,0,0>>, y |-> <<0,-1,0>>]
      [] t = 3 -> [o |-> <<0,1,1>>, x |-> <<0,0,-1>>, y |-> <<0,-1,0>>]
      [] t = 4 -> [o |-> <<0,0,1>>, x |-> <<0,0,-1>>, y |-> <<1,0,0>>]
      [] t = 5 -> [o |-> <<0,0,0>>, x |-> <<0,1,0>>,  y |-> <<1,0,0>>]]

Plus(u, v)  == [k \in 1..3 |-> u[k] + v[k]]
Times(a, u) == [k \in 1..3 |-> a * u[k]]
Dot(u, v)   == u[1]*v[1] + u[2]*v[2] + u[3]*v[3]
Cross(u, v) == <<u[2]*v[3] - u[3]*v[2], u[3]*v[1] - u[1]*v[3], u[1]*v[2] - u[2]*v[1]>>

Normal(t) == Cross(Frame[t].x, Frame[t].y)

(* Grid point (i, j) of a tile of n by n subtiles. *)
Point(t, i, j, n) ==
  Plus(Times(n, Frame[t].o), Plus(Times(i, Frame[t].x), Times(j, Frame[t].y)))

(***************************************************************************)
(* The six frames are the faces of one cube: distinct outward normals,     *)
(* every corner of every tile a corner of the unit cube, three at a corner.*)
(***************************************************************************)
ASSUME FramesFormACube ==
  LET cornersOf(t) == {Point(t, i, j, 1) : i, j \in 0..1}
      cube         == {Times(1, <<a, b, c>>) : a, b, c \in 0..1}
  IN  /\ Cardinality({Normal(t) : t \in Tiles}) = 6
      /\ \A t \in Tiles : cornersOf(t) \subseteq cube
      /\ \A p \in cube : Cardinality({t \in Tiles : p \in cornersOf(t)}) = 3
      /\ \A t \in Tiles : Dot(Frame[t].o, Normal(t)) = (IF \E k \in 1..3 : Normal(t)[k] = 1 THEN 1 ELSE 0)

(* A subtile is named by its tile and position; its side is a pair of points. *)
Subtiles(n) == Tiles \X (0..(n - 1)) \X (0..(n - 1))      \* <<tile, j, i>>

PointsOf(s, n) == {Point(s[1], s[3] + a, s[2] + b, n) : a, b \in 0..1}

PointAt(s, corner, n) ==
  CASE corner = "SW" -> Point(s[1], s[3], s[2], n)
    [] corner = "SE" -> Point(s[1], s[3] + 1, s[2], n)
    [] corner = "NW" -> Point(s[1], s[3], s[2] + 1, n)
    [] corner = "NE" -> Point(s[1], s[3] + 1, s[2] + 1, n)

Side(s, edge, n) ==
  CASE edge = "W" -> {PointAt(s, "SW", n), PointAt(s, "NW", n)}
    [] edge = "E" -> {PointAt(s, "SE", n), PointAt(s, "NE", n)}
    [] edge = "N" -> {PointAt(s, "NW", n), PointAt(s, "NE", n)}
    [] edge = "S" -> {PointAt(s, "SW", n), PointAt(s, "SE", n)}

(* The subtiles across an edge (one) and across a corner (one or none). *)
AcrossEdge(s, edge, n) ==
  {q \in Subtiles(n) \ {s} : Side(s, edge, n) \subseteq PointsOf(q, n)}

AcrossCorner(s, corner, n) ==
  {q \in Subtiles(n) \ {s} :
     PointsOf(q, n) \cap PointsOf(s, n) = {PointAt(s, corner, n)}}
=============================================================================
