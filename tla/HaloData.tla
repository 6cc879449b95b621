----------------------------- MODULE HaloData -----------------------------
(***************************************************************************)
(* What a halo exchange does to the data: the points a boundary sends and  *)
(* receives, their rotation into the receiver's orientation, and their     *)
(* order in the one buffer that all quantities of a message share          *)
(* (boundary.py, _boundary_utils.py, rotate.py, halo_data_transformer.py). *)
(*                                                                         *)
(* A field is its overlap in x and y (1 for an interface dimension) and    *)
(* the order of its dimensions in memory.  A value is named by the point   *)
(* it was read from: [of, sign, i, j], of the x or the y component.        *)
(* Indices count from the first point of the domain.                       *)
(***************************************************************************)
EXTENDS Integers, SequencesExt

Horizontal == {"x", "y"}

Field(x, y, order) == [x |-> x, y |-> y, order |-> order]

(* Is the boundary at the start or the end of the dimension? *)
BoundaryAtStartOfDim(type, dim) ==
  CASE dim = "x" /\ type \in {"W", "NW", "SW"} -> "start"
    [] dim = "x" /\ type \in {"E", "NE", "SE"} -> "end"
    [] dim = "y" /\ type \in {"S", "SW", "SE"} -> "start"
    [] dim = "y" /\ type \in {"N", "NW", "NE"} -> "end"
    [] OTHER -> "none"

(* The shared point of an interface dimension sent along. *)
GetBoundarySliceWithShared(field, n, type, points, interior) ==
  [dim \in Horizontal |->
    LET extent == n + field[dim]
        at     == BoundaryAtStartOfDim(type, dim)
    IN  CASE at = "none"               -> [start |-> 0, stop |-> extent]
          [] at = "start" /\ interior  -> [start |-> 0, stop |-> points]
          [] at = "start" /\ ~interior -> [start |-> -points, stop |-> 0]
          [] at = "end" /\ interior    -> [start |-> extent - points, stop |-> extent]
          [] at = "end" /\ ~interior   -> [start |-> extent, stop |-> extent + points]]

(* The points of a boundary inside the domain of n points, or in its halo. *)
GetBoundarySlice(field, n, type, points, interior) ==
  [dim \in Horizontal |->
    LET extent  == n + field[dim]
        overlap == field[dim]
        at      == BoundaryAtStartOfDim(type, dim)
    IN  CASE at = "none"               -> [start |-> 0, stop |-> extent]
          [] at = "start" /\ interior  -> [start |-> overlap, stop |-> overlap + points]
          [] at = "start" /\ ~interior -> [start |-> -points, stop |-> 0]
          [] at = "end" /\ interior    -> [start |-> extent - overlap - points,
                                           stop  |-> extent - overlap]
          [] at = "end" /\ ~interior   -> [start |-> extent, stop |-> extent + points]]

Extent(slice)      == slice.stop - slice.start
SlicesSize(slices) == Extent(slices.x) * Extent(slices.y)

-----------------------------------------------------------------------------
(* A view is an array of values over nx by ny points from zero. *)

Array(nx, ny, at) == [nx |-> nx, ny |-> ny, at |-> at]

Indices(view) == (0..(view.nx - 1)) \X (0..(view.ny - 1))

View(of, slices) ==
  LET nx == Extent(slices.x)
      ny == Extent(slices.y)
  IN  Array(nx, ny, [p \in (0..(nx - 1)) \X (0..(ny - 1)) |->
        [of |-> of, sign |-> 1, i |-> slices.x.start + p[1], j |-> slices.y.start + p[2]]])

(* np.rot90 over (y, x), over (x, y), and both dimensions reversed. *)
RotateScalarData(view, rotations) ==
  LET nx    == view.nx
      ny    == view.ny
      swap  == (0..(ny - 1)) \X (0..(nx - 1))
      turns == rotations % 4
  IN  CASE turns = 0 -> view
        [] turns = 1 -> Array(ny, nx, [p \in swap |-> view.at[<<nx - 1 - p[2], p[1]>>]])
        [] turns = 2 -> [view EXCEPT !.at = [p \in Indices(view) |->
                                               view.at[<<nx - 1 - p[1], ny - 1 - p[2]>>]]]
        [] turns = 3 -> Array(ny, nx, [p \in swap |-> view.at[<<p[2], ny - 1 - p[1]>>]])

Minus(value)      == [value EXCEPT !.sign = -@]
MinusView(view)   == [view EXCEPT !.at = [p \in Indices(view) |-> Minus(view.at[p])]]
MinusSeq(buffer)  == [k \in DOMAIN buffer |-> Minus(buffer[k])]

RotateVectorData(x, y, rotations) ==
  LET xdata == RotateScalarData(x, rotations)
      ydata == RotateScalarData(y, rotations)
      turns == rotations % 4
  IN  CASE turns = 0 -> <<xdata, ydata>>
        [] turns = 1 -> <<ydata, MinusView(xdata)>>
        [] turns = 2 -> <<MinusView(xdata), MinusView(ydata)>>
        [] turns = 3 -> <<MinusView(ydata), xdata>>

Flatten(view, order) ==
  [k \in 1..(view.nx * view.ny) |->
     IF order = "xy" THEN view.at[<<(k - 1) \div view.ny, (k - 1) % view.ny>>]
     ELSE view.at[<<(k - 1) % view.nx, (k - 1) \div view.nx>>]]

-----------------------------------------------------------------------------
(* HaloDataTransformerCPU: the quantities of a message one after the other, *)
(* rotated backwards as many times as the boundary rotates them.            *)

Sent(of, field, n, type, points) == View(of, GetBoundarySlice(field, n, type, points, TRUE))

PackScalar(fields, n, type, points, rotations) ==
  FlattenSeq([q \in DOMAIN fields |->
    Flatten(RotateScalarData(Sent("s", fields[q], n, type, points), -rotations),
            fields[q].order)])

(* One vector, of fields x and y. *)
PackVector(x, y, n, type, points, rotations) ==
  LET views == RotateVectorData(Sent("x", x, n, type, points),
                                Sent("y", y, n, type, points), -rotations)
  IN  Flatten(views[1], x.order) \o Flatten(views[2], x.order)

HaloSlices(field, n, type, points) == GetBoundarySlice(field, n, type, points, FALSE)

PointsIn(slices) ==
  (slices.x.start..(slices.x.stop - 1)) \X (slices.y.start..(slices.y.stop - 1))

(* Where the q-th quantity's part of the buffer begins. *)
Offset(fields, q, n, type, points) ==
  MapThenSumSet(LAMBDA k : SlicesSize(HaloSlices(fields[k], n, type, points)), 1..(q - 1))

(* That part, reshaped to the quantity's slices. *)
Unpacked(buffer, fields, q, n, type, points) ==
  LET slices == HaloSlices(fields[q], n, type, points)
      offset == Offset(fields, q, n, type, points)
  IN  [p \in PointsIn(slices) |->
        LET i == p[1] - slices.x.start
            j == p[2] - slices.y.start
        IN  buffer[offset + 1 + (IF fields[q].order = "xy" THEN i * Extent(slices.y) + j
                                 ELSE j * Extent(slices.x) + i)]]

-----------------------------------------------------------------------------
(***************************************************************************)
(* HaloDataTransformerGPU: the points to copy are listed once, already     *)
(* rotated, kept under a key, and copied by one thread each; the kernel    *)
(* gives the components of a vector their places and signs.                *)
(***************************************************************************)
BuildFlattenIndices(of, field, slices, rotate, rotations) ==
  Flatten(IF rotate THEN RotateScalarData(View(of, slices), -rotations)
          ELSE View(of, slices), field.order)

IndicesKey(field, slices, rotations) ==
  [slices |-> slices, rotations |-> rotations, order |-> field.order]

SendIndices(of, field, n, type, points, rotations) ==
  BuildFlattenIndices(of, field, GetBoundarySlice(field, n, type, points, TRUE), TRUE, rotations)

OptPackScalar(fields, n, type, points, rotations) ==
  FlattenSeq([q \in DOMAIN fields |->
                SendIndices("s", fields[q], n, type, points, rotations)])

OptUnpacked(buffer, fields, q, n, type, points) ==
  LET slices  == HaloSlices(fields[q], n, type, points)
      indices == BuildFlattenIndices("s", fields[q], slices, FALSE, 0)
      offset  == Offset(fields, q, n, type, points)
  IN  [p \in PointsIn(slices) |->
        buffer[offset + CHOOSE k \in DOMAIN indices : <<indices[k].i, indices[k].j>> = p]]

PackVectorKernel(x, y, rotate) ==
  CASE rotate = 0 -> x \o y
    [] rotate = 1 -> y \o MinusSeq(x)
    [] rotate = 2 -> MinusSeq(x) \o MinusSeq(y)
    [] rotate = 3 -> MinusSeq(y) \o x

OptPackVector(x, y, n, type, points, rotations) ==
  PackVectorKernel(SendIndices("x", x, n, type, points, rotations),
                   SendIndices("y", y, n, type, points, rotations), (-rotations) % 4)

-----------------------------------------------------------------------------
(***************************************************************************)
(* start_synchronize_vector_interfaces: the values on the south and west   *)
(* sides are sent to overwrite the same points of the ranks across.        *)
(***************************************************************************)
RotateLine(line, dim, rotations) ==
  LET turns == rotations % 4
  IN  IF turns = 2 \/ (dim = "x" /\ turns = 1) \/ (dim = "y" /\ turns = 3)
      THEN Reverse(line) ELSE line

IsendVectorSharedBoundary(side, n, rotations) ==
  LET dim  == IF side = "S" THEN "x" ELSE "y"
      line == [k \in 1..n |-> [of |-> dim, sign |-> 1,
                               i |-> IF side = "S" THEN k - 1 ELSE 0,
                               j |-> IF side = "S" THEN 0 ELSE k - 1]]
      turned == RotateLine(line, dim, -rotations)
  IN  IF rotations \in (IF side = "S" THEN {2, 3} ELSE {1, 2})
      THEN MinusSeq(turned) ELSE turned

(* The k-th value received is of this point of the receiver. *)
IrecvVectorSharedBoundary(side, n, k) ==
  IF side = "N" THEN [of |-> "x", i |-> k - 1, j |-> n]
  ELSE [of |-> "y", i |-> n, j |-> k - 1]
=============================================================================
