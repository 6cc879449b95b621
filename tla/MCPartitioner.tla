--------------------------- MODULE MCPartitioner ---------------------------
(***************************************************************************)
(* A walker on the cubed sphere: it stands on a rank's subtile and crosses *)
(* one of its edges to the next.  Its walks visit every rank of every      *)
(* layout, where the boundaries are compared with the geometry, and the    *)
(* code a rank loads with its place.                                       *)
(***************************************************************************)
EXTENDS CompilingRanks, CubeGeometry, CornerFills, HaloData

CONSTANTS Sizes,        \* the square layouts of the cubed sphere, by side
          TileLayouts   \* the layouts of the doubly periodic tile

(* A TileCommunicator needs three ranks a side. *)
ASSUME LayoutsAssumption ==
  /\ Sizes \subseteq Nat \ {0}
  /\ TileLayouts \subseteq (Nat \ 0..2) \X (Nat \ 0..2)

VARIABLES size, rank

MCTileLayouts == {<<3, 3>>, <<3, 4>>, <<4, 3>>}

walk == <<size, rank>>

Layout == <<size, size>>

WalkInit == size \in Sizes /\ rank = 0

CrossBoundary ==
  /\ \E e \in Edges : rank' = SphereBoundary(e, rank, Layout).to
  /\ UNCHANGED size

WalkNext == CrossBoundary

WalkSpec == WalkInit /\ [][WalkNext]_walk

-----------------------------------------------------------------------------
Place(r) == <<TileIndex(r, Layout)>> \o SubtileIndex(r, Layout)

Here == Place(rank)

SphereBoundaries(r) ==
  {<<type, SphereBoundary(type, r, Layout)>> : type \in Edges \cup Corners}

(***************************************************************************)
(* The rank across each edge is the one whose subtile shares that edge on  *)
(* the cube, and the rank across each corner the one that shares only that *)
(* point; there is none exactly at the cube's corners.                     *)
(***************************************************************************)
NeighboursAreAdjacent ==
  /\ \A e \in Edges :
       AcrossEdge(Here, e, size) = {Place(SphereBoundary(e, rank, Layout).to)}
  /\ \A c \in Corners :
       LET b == SphereBoundary(c, rank, Layout)
       IN  AcrossCorner(Here, c, size)
             = IF b = NoBoundary THEN {} ELSE {Place(b.to)}

(***************************************************************************)
(* No two boundaries of a rank lead to the same rank, nor to itself, and   *)
(* each is answered by exactly one boundary back, with the opposite        *)
(* rotation.  The halo updater sends one buffer per target rank and each   *)
(* buffer is unpacked by the descriptors of the receiver's own boundary.   *)
(***************************************************************************)
BoundariesPairUp ==
  \A x \in SphereBoundaries(rank) :
    x[2] # NoBoundary =>
      /\ x[2].to # rank
      /\ \A y \in SphereBoundaries(rank) : y[2].to = x[2].to /\ y[2] # NoBoundary => y = x
      /\ LET back == {y \in SphereBoundaries(x[2].to) :
                        y[2] # NoBoundary /\ y[2].to = rank}
         IN  /\ Cardinality(back) = 1
             /\ \A y \in back : (x[2].rotations + y[2].rotations) % 4 = 0

(***************************************************************************)
(* Wrapped around a doubly periodic tile of three or more ranks a side, no *)
(* two boundaries of a rank lead to the same rank (the restriction of      *)
(* TileCommunicator), and every boundary is undone by the opposite one.    *)
(***************************************************************************)
Opposite == [W |-> "E", E |-> "W", N |-> "S", S |-> "N",
             NW |-> "SE", SE |-> "NW", NE |-> "SW", SW |-> "NE"]

PeriodicTilePairsUp ==
  \A layout \in TileLayouts :
    \A r \in {q \in {rank} : q < TileRanks(layout)}, type \in Edges \cup Corners :
      LET to == TileBoundary(type, r, layout).to
      IN  /\ to \in 0..(TileRanks(layout) - 1)
          /\ TileBoundary(Opposite[type], to, layout).to = r
          /\ \A other \in (Edges \cup Corners) \ {type} :
               TileBoundary(other, r, layout).to # to
-----------------------------------------------------------------------------
(* Where the points of a rank and of its halo are on the cube, in space. *)
Width      == 4                  \* points along a subtile
TileLength == 2 * Width * size   \* in half points, along a tile

OnTile(r, field, p) ==
  LET at == SubtileIndex(r, Layout)
  IN  [x |-> 2 * (at[2] * Width + p[1]) + 1 - field.x,
       y |-> 2 * (at[1] * Width + p[2]) + 1 - field.y]

Before(c) == c < 0
After(c)  == c > TileLength
Excess(c) == IF Before(c) THEN -c ELSE IF After(c) THEN c - TileLength ELSE 0
Clip(c)   == IF Before(c) THEN 0 ELSE IF After(c) THEN TileLength ELSE c

(* What lies past a tile's edge is folded over it, down the next face. *)
Located(r, field, p) ==
  LET t == TileIndex(r, Layout)
      c == OnTile(r, field, p)
  IN  Plus(Point(t, Clip(c.x), Clip(c.y), TileLength),
           Times(-(Excess(c.x) + Excess(c.y)), Normal(t)))

(* And so is the positive direction of a component of a vector there. *)
Directed(r, field, component, p) ==
  LET t == TileIndex(r, Layout)
      c == OnTile(r, field, p)[component]
  IN  IF Before(c) THEN Normal(t)
      ELSE IF After(c) THEN Times(-1, Normal(t))
      ELSE IF component = "x" THEN Frame[t].x ELSE Frame[t].y

Orders        == {"xy", "yx"}
Scalars(o)    == <<Field(0, 0, o), Field(1, 1, o), Field(0, 0, o)>>
Vectors(o)    == {[x |-> Field(0, 0, o), y |-> Field(0, 0, o)],
                  [x |-> Field(0, 1, o), y |-> Field(1, 0, o)],
                  [x |-> Field(1, 0, o), y |-> Field(0, 1, o)]}

SamePlace(r, field, p, s, from, value) ==
  Located(r, field, p) = Located(s, from, <<value.i, value.j>>)

SameDirection(r, field, component, p, s, from, value) ==
  Directed(r, field, component, p)
    = Times(value.sign, Directed(s, from, value.of, <<value.i, value.j>>))

(* The boundaries of rank r, and that of rank s that leads to r: a type     *)
(* with what lies there.                                                    *)
RealBoundaries(r)   == {x \in SphereBoundaries(r) : x[2] # NoBoundary}
BoundariesTo(s, r)  == {x \in RealBoundaries(s) : x[2].to = r}

(* What rank s sends by its boundary back is received by this rank's type. *)
ScalarHalosContinue(type, s, back, points, order) ==
  LET fields == Scalars(order)
      buffer == PackScalar(fields, Width, back[1], points, back[2].rotations)
  IN  /\ buffer = OptPackScalar(fields, Width, back[1], points, back[2].rotations)
      /\ \A q \in DOMAIN fields :
           LET halo == Unpacked(buffer, fields, q, Width, type, points)
           IN  /\ halo = OptUnpacked(buffer, fields, q, Width, type, points)
               /\ \A p \in DOMAIN halo : SamePlace(rank, fields[q], p, s, fields[q], halo[p])

VectorHalosContinue(type, s, back, points, order) ==
  \A v \in Vectors(order) :
    LET buffer == PackVector(v.x, v.y, Width, back[1], points, back[2].rotations)
    IN  /\ buffer = OptPackVector(v.x, v.y, Width, back[1], points, back[2].rotations)
        /\ \A q \in 1..2 :
             LET component == <<"x", "y">>[q]
                 halo      == Unpacked(buffer, <<v.x, v.y>>, q, Width, type, points)
             IN  /\ halo = OptUnpacked(buffer, <<v.x, v.y>>, q, Width, type, points)
                 /\ \A p \in DOMAIN halo :
                      LET value == halo[p]
                          from  == v[value.of]
                      IN  /\ SamePlace(rank, v[component], p, s, from, value)
                          /\ SameDirection(rank, v[component], component, p, s, from, value)

(* The two interface lines a rank sends, and the one received on a side. *)
SharedEdgesAgree ==
  LET fields == [x |-> Field(0, 1, "xy"), y |-> Field(1, 0, "xy")]
  IN  \A side \in {"N", "E"} :
        LET s    == SphereBoundary(side, rank, Layout).to
            sent == {x \in {"S", "W"} : SphereBoundary(x, s, Layout).to = rank}
        IN  /\ Cardinality(sent) = 1
            /\ \A x \in sent, k \in 1..Width :
                 LET value == IsendVectorSharedBoundary(x, Width,
                                SphereBoundary(x, s, Layout).rotations)[k]
                     at    == IrecvVectorSharedBoundary(side, Width, k)
                     p     == <<at.i, at.j>>
                 IN  /\ SamePlace(rank, fields[at.of], p, s, fields[value.of], value)
                     /\ SameDirection(rank, fields[at.of], at.of, p, s,
                                      fields[value.of], value)

(* The indices of each boundary and field, sent and received, by their key. *)
CachedIndices(points) ==
  UNION {{LET slices == GetBoundarySlice(f, Width, x[1], points, interior)
          IN  <<IndicesKey(f, slices, x[2].rotations),
                BuildFlattenIndices("s", f, slices, interior, x[2].rotations)>> :
            f \in {Field(i, j, "xy") : i, j \in 0..1}, interior \in BOOLEAN} :
         x \in RealBoundaries(rank)}

(***************************************************************************)
(* A halo exchange continues the cube: each halo point of a rank receives, *)
(* wherever the sender's axes point and in whichever order its dimensions  *)
(* are stored, the value of the very point of the sphere it stands for,    *)
(* and a vector component the one along its own direction; the indices     *)
(* cached for the GPU's kernels copy what the CPU copies, and no two       *)
(* different lists share a key.  The interface edges that two ranks        *)
(* compute twice are sent by one of them, once, to the same points.        *)
(***************************************************************************)
HalosContinueTheCube ==
  /\ \A x \in RealBoundaries(rank) : \A back \in BoundariesTo(x[2].to, rank) :
       \A points \in {1, 3}, order \in Orders :
         /\ ScalarHalosContinue(x[1], x[2].to, back, points, order)
         /\ VectorHalosContinue(x[1], x[2].to, back, points, order)
  /\ \A points \in {1, 3} :
       Cardinality(CachedIndices(points)) = Cardinality({x[1] : x \in CachedIndices(points)})
  /\ SharedEdgesAgree

-----------------------------------------------------------------------------
(* The corners of the cube seen from the ranks that touch them. *)
SouthNorth(c) == IF c \in {"SW", "SE"} THEN "S" ELSE "N"
WestEast(c)   == IF c \in {"SW", "NW"} THEN "W" ELSE "E"

TouchedCorners(r) ==
  {c \in CornersOfTile : SphereBoundary(c, r, Layout) = NoBoundary}

(* Twice the position of a place, from the corner of the cube. *)
FromCorner(c, p, place) ==
  <<2 * p[1] + place[1] - (IF WestEast(c) = "E" THEN 2 ELSE 0),
    2 * p[2] + place[2] - (IF SouthNorth(c) = "N" THEN 2 ELSE 0)>>

Beyond(c, place, deep) ==
  {<<(2 * i - place[1]) * (IF WestEast(c) = "E" THEN 1 ELSE -1),
     (2 * j - place[2]) * (IF SouthNorth(c) = "N" THEN 1 ELSE -1)>> :
     i \in 1..deep[1], j \in 1..deep[2]}

TurnedClockwise(p, turns) ==
  CASE turns = 0 -> p               [] turns = 1 -> <<p[2], -p[1]>>
    [] turns = 2 -> <<-p[1], -p[2]>> [] turns = 3 -> <<-p[2], p[1]>>

Heading(edge, turns) ==          \* an edge's direction, turned anticlockwise
  LET compass == <<"N", "W", "S", "E">>
      at      == CHOOSE q \in 1..4 : compass[q] = edge
  IN  compass[1 + ((at - 1 + turns) % 4)]

(***************************************************************************)
(* The tile behind a corner, met by following a row (column) of the halo   *)
(* through the tile to the south or north (west or east), is the one       *)
(* across the other edge: the turns between its two pictures.              *)
(***************************************************************************)
Behind(beside, edge) ==
  SphereBoundary(Heading(edge, beside.rotations), beside.to, Layout)

TurnsBetween(direct, beside, behind) ==
  IF behind.to # direct.to THEN 0
  ELSE (direct.rotations - beside.rotations - behind.rotations) % 4

TurnsOver(edge1, edge2) ==
  LET beside == SphereBoundary(edge1, rank, Layout)
  IN  TurnsBetween(SphereBoundary(edge2, rank, Layout), beside, Behind(beside, edge2))

TurnsBehind(c, along) ==
  IF along = "row" THEN TurnsOver(SouthNorth(c), WestEast(c))
  ELSE TurnsOver(WestEast(c), SouthNorth(c))

(***************************************************************************)
(* Every hand-written corner fill continues the cube: it writes each place *)
(* of its corner once, from the very place that a walker along the row (or *)
(* column) would find there according to the partitioner's boundaries, a   *)
(* place outside the corner (so that filling in place is safe), with the   *)
(* sign the turn gives a component of a vector.                            *)
(***************************************************************************)
CornersContinueTheCube ==
  \A c \in TouchedCorners(rank) :
    /\ \A f \in Fills :
         \E turns \in {1, 3} :
           /\ turns = TurnsBehind(c, f.along)
           /\ Cardinality(f.table[c]) = f.deep[1] * f.deep[2]
           /\ {FromCorner(c, e, f.to) : e \in f.table[c]} = Beyond(c, f.to, f.deep)
           /\ \A e \in f.table[c] :
                FromCorner(c, <<e[1] + e[3], e[2] + e[4]>>, f.from)
                  = TurnedClockwise(FromCorner(c, e, f.to), turns)
           /\ f.sign[c] = IF f.component = "none" THEN 1
                          ELSE IF (f.component = "x") = (turns = 1) THEN -1 ELSE 1
    /\ \A x \in CornerFill[c] :
         {<<x[1][1] + o[1], x[1][2] + o[2]>> : o \in x[2]} = {y[1] : y \in CornerFill[c]}

-----------------------------------------------------------------------------
(* Who compiles for whom.  Code is built on a layout of at most 3 by 3. *)
Built == IF size > 3 THEN <<3, 3>> ELSE Layout

TileEdges(r, l) ==
  {e \in Edges : CASE e = "W" -> OnTileLeft(r, l)   [] e = "E" -> OnTileRight(r, l)
                   [] e = "N" -> OnTileTop(r, l)    [] e = "S" -> OnTileBottom(r, l)}

(***************************************************************************)
(* In RunMode Run a rank loads code that was compiled by a compiling rank, *)
(* and for a subtile on the same edges of its tile: stencils are compiled  *)
(* for the regions a subtile has.                                          *)
(***************************************************************************)
CodeFitsThePlace ==
  LET from == CompilingEquivalent(rank, Layout, "Run")
  IN  IsCompiling(from, Built) /\ TileEdges(from, Built) = TileEdges(rank, Layout)

=============================================================================
