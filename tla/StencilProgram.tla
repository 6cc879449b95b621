---------------------------- MODULE StencilProgram ----------------------------
(***************************************************************************)
(* The statements of the dynamical core, as far as the halos are           *)
(* concerned: which fields a stencil writes, on which cells, from which    *)
(* neighbouring cells of which fields; and where a halo update starts and  *)
(* ends.  Values, levels and the blocks of halo cells across a corner of   *)
(* the cube, which the corner-filling stencils rewrite, are left out.      *)
(***************************************************************************)
EXTENDS Integers, SequencesExt

(***************************************************************************)
(* The cells of a rectangle around a rank's compute domain, as the number  *)
(* of rows and columns it has beyond the domain to the west, east, south   *)
(* and north; negative where it ends inside the domain.  A field on the    *)
(* faces or the corners of the cells has a row or a column more.           *)
(***************************************************************************)
Rows(w, e, s, n) == [w |-> w, e |-> e, s |-> s, n |-> n]

Cells(h)   == Rows(h, h, h, h)
XFaces(h)  == Rows(h, h + 1, h, h)
YFaces(h)  == Rows(h, h, h, h + 1)
Corners(h) == Rows(h, h + 1, h, h + 1)

(* No cell at all; and a side that does not matter. *)
None == -9
Nowhere == Cells(None)
Anywhere == -99

Covers(a, b) == \A side \in DOMAIN b : a[side] >= b[side]

(* A read of fields up to w cells to the west, e to the east, and so on. *)
Around(fields, w, e, s, n) == {<<f, Rows(w, e, s, n)>> : f \in fields}
At(fields) == Around(fields, 0, 0, 0, 0)
X(fields, w, e) == Around(fields, w, e, 0, 0)
Y(fields, s, n) == Around(fields, 0, 0, s, n)

(***************************************************************************)
(* A stencil sets fields on a region.  Where it reads fixed strips along   *)
(* an edge of the tile, rather than neighbours of the cell it sets, what   *)
(* it needs of a field is a region instead of a distance.                  *)
(***************************************************************************)
SetsGiven(fields, on, reads, needs) ==
  [kind |-> "compute", fields |-> fields, on |-> on, reads |-> reads, needs |-> needs]
Sets(fields, on, reads) == SetsGiven(fields, on, reads, {})

Starts(x)    == [kind |-> "start", updater |-> x]
Waits(x)     == [kind |-> "wait", updater |-> x]
Updates(x)   == <<Starts(x), Waits(x)>>
Interface(fields) == [kind |-> "interface", fields |-> fields]

(* c.edges: the sides of the rank that lie on an edge of its tile *)
AtEdge(c, side, there, elsewhere) == IF side \in c.edges THEN there ELSE elsewhere

(* The steps of a loop one after the other: for n in range, and downwards. *)
Loop(first, last, Steps) ==
  LET upTo[n \in first - 1..last] == IF n < first THEN << >> ELSE upTo[n - 1] \o Steps[n]
  IN  upTo[last]

CountDown(first, Steps) ==
  LET down[n \in -1..first] == IF n < 0 THEN << >> ELSE Steps[n] \o down[n - 1]
  IN  down[first]

(* A statement that is there under a condition. *)
When(condition, steps) == IF condition THEN steps ELSE << >>
=============================================================================
