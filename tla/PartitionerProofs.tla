--------------------------- MODULE PartitionerProofs ---------------------------
(***************************************************************************)
(* Any dimension of a tile, cut among any number of ranks: its extents     *)
(* fill it, and the slices of the ranks cut it into pieces; and what       *)
(* scatter and gather make of a tile, along every dimension.               *)
(* The boundaries of the ranks of every layout: where the partitioner says *)
(* that they lead, that this is where they lie on a periodic tile and on   *)
(* the cube, and that the ranks there have cut their dimensions alike.     *)
(* What the halos across these boundaries hold is in HaloDataProofs.       *)
(***************************************************************************)
EXTENDS MCSubtiles, MCScatterGather, NaturalsInduction, WellFoundedInduction,
        SequenceTheorems, FiniteSetTheorems, TLAPS

-----------------------------------------------------------------------------
(* The least of some naturals. *)
LEMMA LeastExists ==
  ASSUME NEW S, \A i \in S : i \in Nat, S # {}
  PROVE  \E i \in S : \A j \in S : i <= j
<1>1. S \subseteq Nat /\ S # {}
  OBVIOUS
<1>2. PICK i \in S : \A j \in S : ~ (<<j, i>> \in OpToRel(<, Nat))
  BY <1>1, WFMin, NatLessThanWellFounded
<1>3. \A j \in S : ~ (j < i)
  BY <1>1, <1>2 DEF OpToRel
<1> QED BY <1>1, <1>3

-----------------------------------------------------------------------------
(* A function that is one-to-one and onto maps to as many. *)
LEMMA AsMany ==
  ASSUME NEW A, NEW B, NEW f \in [A -> B], IsFiniteSet(A),
         \A x, y \in A : f[x] = f[y] => x = y,
         \A b \in B : \E x \in A : f[x] = b
  PROVE  Cardinality(B) = Cardinality(A)
<1>1. f \in Bijection(A, B)
  BY DEF Bijection, Injection, Surjection, IsInjective
<1> QED BY <1>1, FS_Bijection DEF ExistsBijection

-----------------------------------------------------------------------------
(* The extents.                                                            *)

(* Edges and interiors fill the dimension. *)
FillTheTile(d, e) ==
  /\ e.edge \in Nat \ {0} /\ e.interior \in Nat \ {0}
  /\ d.count = 1 => e.edge = Points(d)
  /\ d.count >= 2 => 2 * e.edge + (d.count - 2) * e.interior = Points(d)
  /\ d.count < 3 => e.edge = e.interior

LEMMA Divides ==
  ASSUME NEW a \in Nat, NEW b \in Nat \ {0}, a % b = 0
  PROVE  b * (a \div b) = a /\ a \div b \in Nat
  OBVIOUS

LEMMA ExtentsFill ==
  ASSUME NEW d, IsDimension(d), Points(d) >= d.count, SubtileExtents(d) # ValueError
  PROVE  FillTheTile(d, SubtileExtents(d))
<1> DEFINE points == Points(d)
           count  == d.count
           e      == SubtileExtents(d)
<1>1. count \in Nat \ {0} /\ points \in Int /\ points >= count
  BY DEF IsDimension, Points
<1>2. CASE count = 1
  <2>1. e = [edge |-> points \div 1, interior |-> points \div 1]
    BY <1>2 DEF SubtileExtents
  <2> QED BY <1>1, <1>2, <2>1 DEF FillTheTile
<1>3. CASE count = 2
  <2>1. points % 2 # 1 /\ e = [edge |-> points \div 2, interior |-> points \div 2]
    BY <1>3 DEF SubtileExtents
  <2>2. points \in Nat /\ points >= 2
    BY <1>1, <1>3
  <2> HIDE DEF points, e
  <2>3. 2 * (points \div 2) = points /\ points \div 2 \in Nat \ {0}
    BY <2>1, <2>2
  <2> QED BY <1>3, <2>1, <2>3 DEF FillTheTile, points, e
<1>4. CASE count >= 3
  <2> DEFINE start == StartSize(count, points, d.ratio)
             sizes == EdgeSizes(count, points)
             good  == {i \in 0..((points - count + 2) \div 2) :
                         /\ Tried(start, i) \in sizes
                         /\ Accepts(count, points, Tried(start, i))}
             least == CHOOSE i \in good : \A j \in good : i <= j
             edge  == Tried(start, least)
  <2> HIDE DEF points, count, e, start, sizes, good, least, edge
  <2>1. e = SearchedExtents(count, points, d.ratio)
    <3>1. ~ (d.count % 2 = 0 /\ Points(d) % 2 = 1)
      BY Zenon DEF SubtileExtents
    <3>2. d.count >= 3 /\ ~ (d.count < 3)
      BY <1>1, <1>4 DEF count
    <3>3. SubtileExtents(d) = SearchedExtents(d.count, Points(d), d.ratio)
      BY <3>1, <3>2, Zenon DEF SubtileExtents
    <3> QED BY <3>3 DEF e, count, points
  <2> USE DEF points, count, e, start, sizes, good, least, edge
  <2>2. SearchedExtents(count, points, d.ratio) =
          IF good = {} THEN ValueError
          ELSE [edge |-> edge, interior |-> (points - 2 * edge) \div (count - 2)]
    BY DEF SearchedExtents
  <2>3. \A i \in good : i \in Nat
    BY <1>1
  <2>4. \A i \in good : Tried(start, i) \in sizes /\ Accepts(count, points, Tried(start, i))
    OBVIOUS
  <2> HIDE DEF good, start
  <2>5. good # {} /\ e = [edge |-> edge, interior |-> (points - 2 * edge) \div (count - 2)]
    BY <2>1, <2>2
  <2>6. least \in good
    BY <2>3, <2>5, LeastExists
  <2>7. edge \in sizes /\ Accepts(count, points, edge)
    BY <2>4, <2>6
  <2> HIDE DEF least, edge
  <2>8. edge \in 1..((points - count + 2) \div 2) /\ (points - 2 * edge) % (count - 2) = 0
    BY <2>7 DEF EdgeSizes, Accepts
  <2> HIDE DEF points, count, e
  <2>9. edge \in Nat \ {0} /\ points - 2 * edge >= count - 2 /\ count - 2 \in Nat \ {0}
    BY <1>1, <1>4, <2>8
  <2> DEFINE a == points - 2 * edge
             b == count - 2
             q == a \div b
  <2>10. a \in Nat /\ b \in Nat \ {0} /\ a % b = 0 /\ a >= b
    BY <1>1, <2>8, <2>9
  <2> HIDE DEF a, b
  <2>11. b * q = a /\ q \in Nat
    BY <2>10, Divides
  <2> HIDE DEF q
  <2>12. q # 0
    BY <2>10, <2>11
  <2>13. e = [edge |-> edge, interior |-> q]
    BY <2>5 DEF a, b, q
  <2>14. 2 * edge + b * q = points
    BY <1>1, <2>9, <2>11 DEF a
  <2>15. e.edge = edge /\ e.interior = q
    BY <2>13
  <2>16. 2 * e.edge + b * e.interior = points
    BY <2>14, <2>15
  <2>17. e.edge \in Nat \ {0} /\ e.interior \in Nat \ {0}
    BY <2>9, <2>11, <2>12, <2>15
  <2>18. count # 1 /\ ~ (count < 3)
    BY <1>1, <1>4
  <2> QED BY <2>16, <2>17, <2>18 DEF FillTheTile, points, count, e, b
<1> QED BY <1>1, <1>2, <1>3, <1>4

-----------------------------------------------------------------------------
(* The slices.                                                             *)

(* Where the loop over the ranks has come to. *)
StartsAt(count, e, i) ==
  IF i = 0 THEN 0
  ELSE IF i < count \/ count = 1 THEN e.edge + (i - 1) * e.interior
       ELSE 2 * e.edge + (i - 2) * e.interior

LEMMA StartsAtStep ==
  ASSUME NEW count \in Nat \ {0}, NEW e, e.edge \in Int, e.interior \in Int, NEW i \in Nat
  PROVE  /\ StartsAt(count, e, 0) = 0
         /\ StartsAt(count, e, i + 1) = StartsAt(count, e, i) + Size(count, e, i)
  BY DEF StartsAt, Size

(* The loop. *)
LEMMA LoopComputes ==
  ASSUME NEW count \in Nat \ {0}, NEW e, e.edge \in Int, e.interior \in Int, NEW f,
         f = [i \in Nat |-> IF i = 0 THEN 0 ELSE f[i - 1] + Size(count, e, i - 1)],
         NEW n \in Nat
  PROVE  f[n] = StartsAt(count, e, n)
<1> DEFINE Bad == {i \in Nat : f[i] # StartsAt(count, e, i)}
<1>1. SUFFICES ASSUME Bad # {} PROVE FALSE
  OBVIOUS
<1>2. \A i \in Bad : i \in Nat
  OBVIOUS
<1>3. PICK i \in Bad : \A j \in Bad : i <= j
  <2> HIDE DEF Bad
  <2> QED BY <1>1, <1>2, LeastExists
<1>4. i \in Nat /\ f[i] # StartsAt(count, e, i)
  OBVIOUS
<1>5. CASE i = 0
  BY <1>4, <1>5 DEF StartsAt
<1>6. CASE i # 0
  <2> DEFINE j == i - 1
  <2>1. j \in Nat /\ j + 1 = i /\ j < i
    BY <1>4, <1>6
  <2>2. f[i] = f[j] + Size(count, e, j)
    BY <1>4, <1>6
  <2> HIDE DEF j
  <2>3. j \notin Bad
    <3>1. ~ (i <= j)
      BY <1>4, <2>1
    <3> HIDE DEF Bad
    <3> QED BY <1>3, <3>1
  <2>4. f[j] = StartsAt(count, e, j)
    BY <2>1, <2>3
  <2>5. StartsAt(count, e, j + 1) = StartsAt(count, e, j) + Size(count, e, j)
    BY <2>1, StartsAtStep
  <2> QED BY <1>4, <2>1, <2>2, <2>4, <2>5
<1> QED BY <1>5, <1>6

LEMMA SliceStartIs ==
  ASSUME NEW d, IsDimension(d), NEW n \in Nat,
         SubtileExtents(d).edge \in Int, SubtileExtents(d).interior \in Int
  PROVE  SliceStart(d, n) = StartsAt(d.count, SubtileExtents(d), n)
<1> DEFINE e == SubtileExtents(d)
           count == d.count
           F(f) == f = [i \in Nat |-> IF i = 0 THEN 0 ELSE f[i - 1] + Size(count, e, i - 1)]
           start == CHOOSE f : F(f)
           g == [i \in Nat |-> StartsAt(count, e, i)]
<1>1. count \in Nat \ {0}
  BY DEF IsDimension
<1>2. SliceStart(d, n) = start[n]
  BY DEF SliceStart
<1> HIDE DEF e, count
<1>3. F(g)
  <2>1. ASSUME NEW i \in Nat
        PROVE  g[i] = IF i = 0 THEN 0 ELSE g[i - 1] + Size(count, e, i - 1)
    <3> DEFINE j == i - 1
    <3>1. CASE i = 0
      BY <3>1 DEF StartsAt
    <3>2. CASE i # 0
      <4>1. j \in Nat /\ j + 1 = i /\ g[j] = StartsAt(count, e, j) /\ g[i] = StartsAt(count, e, i)
        BY <3>2
      <4> HIDE DEF j, g
      <4>2. StartsAt(count, e, j + 1) = StartsAt(count, e, j) + Size(count, e, j)
        BY <1>1, <4>1, StartsAtStep DEF e
      <4> QED BY <3>2, <4>1, <4>2 DEF j
    <3> QED BY <3>1, <3>2
  <2> QED BY <2>1
<1>4. F(start)
  <2> HIDE DEF F
  <2> QED BY <1>3
<1> HIDE DEF start
<1>5. start[n] = StartsAt(count, e, n)
  <2>1. e.edge \in Int /\ e.interior \in Int
    BY DEF e
  <2> QED BY <1>1, <1>4, <2>1, LoopComputes
<1> QED BY <1>2, <1>5 DEF e, count

LEMMA TimesGrows ==
  ASSUME NEW a \in Int, NEW b \in Int, NEW c \in Nat, a <= b
  PROVE  a * c <= b * c
<1>1. (b - a) \in Nat /\ (b - a) * c \in Nat
  OBVIOUS
<1>2. b * c = a * c + (b - a) * c
  OBVIOUS
<1>3. a * c \in Int /\ b * c \in Int
  OBVIOUS
<1> QED BY <1>1, <1>2, <1>3

LEMMA StartsGrow ==
  ASSUME NEW d, IsDimension(d), NEW e, FillTheTile(d, e)
  PROVE  /\ \A i \in Nat : StartsAt(d.count, e, i) \in Nat
         /\ \A i \in Nat : Size(d.count, e, i) \in Nat \ {0}
         /\ \A i, j \in 0..d.count :
              i <= j => StartsAt(d.count, e, i) <= StartsAt(d.count, e, j)
         /\ StartsAt(d.count, e, d.count) = Points(d)
<1> DEFINE count == d.count
           edge == e.edge
           interior == e.interior
<1>1. /\ count \in Nat \ {0} /\ edge \in Nat \ {0} /\ interior \in Nat \ {0}
      /\ count = 1 => edge = Points(d)
      /\ count >= 2 => 2 * edge + (count - 2) * interior = Points(d)
  BY DEF IsDimension, FillTheTile
<1>2. \A i \in Nat : Size(count, e, i) \in Nat \ {0}
  BY <1>1 DEF Size
<1>3. \A i \in Nat :
        StartsAt(count, e, i) =
          IF i = 0 THEN 0
          ELSE IF i < count \/ count = 1 THEN edge + (i - 1) * interior
               ELSE 2 * edge + (i - 2) * interior
  BY DEF StartsAt
<1> HIDE DEF count, edge, interior
<1>4. ASSUME NEW i \in Nat PROVE StartsAt(count, e, i) \in Nat
  <2>1. i >= 1 => (i - 1) * interior \in Nat
    <3>1. i >= 1 => (i - 1) \in Nat
      OBVIOUS
    <3> QED BY <1>1, <3>1
  <2>2. i >= 2 => (i - 2) * interior \in Nat
    <3>1. i >= 2 => (i - 2) \in Nat
      OBVIOUS
    <3> QED BY <1>1, <3>1
  <2> QED BY <1>1, <1>3, <2>1, <2>2
<1>5. ASSUME NEW i \in 0..count, NEW j \in 0..count, i <= j
      PROVE  StartsAt(count, e, i) <= StartsAt(count, e, j)
  <2>1. i \in Nat /\ j \in Nat /\ i <= count /\ j <= count
    BY <1>1
  <2>2. CASE i = 0
    BY <1>3, <1>4, <2>1, <2>2
  <2>3. CASE i = j
    BY <1>4, <2>1, <2>3
  <2>4. CASE i # 0 /\ i < j /\ j < count
    <3> DEFINE a == (i - 1) * interior
               b == (j - 1) * interior
    <3>1. a <= b
      BY <1>1, <2>1, <2>4, TimesGrows
    <3>2. a \in Int /\ b \in Int
      BY <1>1, <2>1
    <3>3. StartsAt(count, e, i) = edge + a
      BY <1>1, <1>3, <2>1, <2>4
    <3>4. StartsAt(count, e, j) = edge + b
      BY <1>1, <1>3, <2>1, <2>4
    <3> HIDE DEF a, b
    <3> QED BY <1>1, <3>1, <3>2, <3>3, <3>4
  <2>5. CASE i # 0 /\ i < j /\ j = count
    <3> DEFINE a == (i - 1) * interior
               b == (j - 2) * interior
    <3>1. a <= b
      BY <1>1, <2>1, <2>5, TimesGrows
    <3>2. a \in Int /\ b \in Int
      BY <1>1, <2>1
    <3>3. StartsAt(count, e, i) = edge + a
      BY <1>3, <2>1, <2>5
    <3>4. StartsAt(count, e, j) = 2 * edge + b
      BY <1>3, <2>1, <2>5
    <3> HIDE DEF a, b
    <3> QED BY <1>1, <3>1, <3>2, <3>3, <3>4
  <2>6. \/ i = 0 \/ i = j
        \/ i # 0 /\ i < j /\ j < count
        \/ i # 0 /\ i < j /\ j = count
    BY <1>1, <1>5, <2>1
  <2> QED BY <2>2, <2>3, <2>4, <2>5, <2>6
<1>6. StartsAt(count, e, count) = Points(d)
  BY <1>1, <1>3
<1> QED BY <1>2, <1>4, <1>5, <1>6 DEF count

(* Each slice begins where the one before ends. *)
LEMMA SliceIs ==
  ASSUME NEW d, IsDimension(d), Points(d) >= d.count, SubtileExtents(d) # ValueError,
         NEW r \in 0..(d.count - 1), NEW overlap
  PROVE  /\ SubtileSlice(d, r, overlap).start = StartsAt(d.count, SubtileExtents(d), r)
         /\ SubtileSlice(d, r, overlap).stop =
              StartsAt(d.count, SubtileExtents(d), r + 1)
                + IF d.interface /\ (overlap \/ r = d.count - 1) THEN 1 ELSE 0
<1> DEFINE e == SubtileExtents(d)
<1>1. e.edge \in Int /\ e.interior \in Int
  BY ExtentsFill DEF FillTheTile
<1>2. r \in Nat /\ d.count \in Nat \ {0}
  BY DEF IsDimension
<1> HIDE DEF e
<1>3. SliceStart(d, r) = StartsAt(d.count, e, r)
  BY <1>1, <1>2, SliceStartIs DEF e
<1>4. SliceEnd(d, r) = StartsAt(d.count, e, r + 1)
  <2>1. StartsAt(d.count, e, r + 1) = StartsAt(d.count, e, r) + Size(d.count, e, r)
    BY <1>1, <1>2, StartsAtStep
  <2> QED BY <1>3, <2>1 DEF SliceEnd, e
<1> QED BY <1>3, <1>4 DEF SubtileSlice, e

(* The slices without overlap cut the dimension into pieces. *)
LEMMA SlicesCutTheTile ==
  ASSUME NEW d, IsDimension(d), Points(d) >= d.count, SubtileExtents(d) # ValueError
  PROVE  LET Owned(r) == SlicePoints(SubtileSlice(d, r, FALSE))
         IN  /\ \A r, s \in 0..(d.count - 1) : r # s => Owned(r) \cap Owned(s) = {}
             /\ \A r \in 0..(d.count - 1) : Owned(r) \subseteq 0..(d.extent - 1)
             /\ \A p \in 0..(d.extent - 1) : \E r \in 0..(d.count - 1) : p \in Owned(r)
<1> DEFINE e == SubtileExtents(d)
           At(i) == StartsAt(d.count, e, i)
           Owned(r) == SlicePoints(SubtileSlice(d, r, FALSE))
           count == d.count
           n == Points(d)
<1>1. count \in Nat \ {0} /\ d.extent \in Nat /\ n \in Int /\ n = IF d.interface THEN d.extent - 1 ELSE d.extent
  BY DEF IsDimension, Points
<1>2. /\ \A i \in Nat : At(i) \in Nat
      /\ \A i, j \in 0..count : i <= j => At(i) <= At(j)
      /\ At(count) = n
      /\ At(0) = 0
  BY ExtentsFill, StartsGrow DEF StartsAt
<1>3. \A r \in 0..(count - 1) :
        Owned(r) = At(r)..(At(r + 1) + (IF d.interface /\ r = count - 1 THEN 1 ELSE 0) - 1)
  <2>1. ASSUME NEW r \in 0..(count - 1)
        PROVE  Owned(r) = At(r)..(At(r + 1) + (IF d.interface /\ r = count - 1 THEN 1 ELSE 0) - 1)
    <3> DEFINE slice == SubtileSlice(d, r, FALSE)
    <3>1. /\ slice.start = At(r)
          /\ slice.stop = At(r + 1) + IF d.interface /\ (FALSE \/ r = count - 1) THEN 1 ELSE 0
      BY SliceIs
    <3>2. Owned(r) = slice.start..(slice.stop - 1)
      BY DEF SlicePoints
    <3>3. r + 1 \in Nat
      BY <1>1
    <3> HIDE DEF At, count, e, Owned, slice
    <3>4. At(r + 1) \in Int
      BY <1>2, <3>3
    <3> QED BY <3>1, <3>2, <3>4
  <2> QED BY <2>1
<1> HIDE DEF count, n, At, Owned, e
<1>4. ASSUME NEW r \in 0..(count - 1), NEW s \in 0..(count - 1), r < s
      PROVE  Owned(r) \cap Owned(s) = {}
  <2>1. r \in Nat /\ s \in Nat /\ r + 1 \in 0..count /\ s \in 0..count /\ r + 1 <= s /\ r # count - 1
      /\ s + 1 \in Nat
    BY <1>1, <1>4
  <2>2. At(r + 1) <= At(s) /\ At(r) \in Nat /\ At(r + 1) \in Nat /\ At(s) \in Nat
      /\ At(s + 1) \in Nat
    BY <1>2, <2>1
  <2>3. \A p \in Owned(r) : p \in Int /\ p < At(r + 1)
    BY <1>3, <2>1, <2>2
  <2>4. \A p \in Owned(s) : p \in Int /\ p >= At(s)
    BY <1>3, <2>1, <2>2
  <2> QED BY <2>2, <2>3, <2>4
<1>5. \A r, s \in 0..(count - 1) : r # s => Owned(r) \cap Owned(s) = {}
  <2>1. \A r, s \in 0..(count - 1) : r # s => r < s \/ s < r
    BY <1>1
  <2> QED BY <1>4, <2>1
<1>6. ASSUME NEW r \in 0..(count - 1) PROVE Owned(r) \subseteq 0..(d.extent - 1)
  <2>1. r \in Nat /\ r + 1 \in 0..count /\ count \in 0..count /\ r + 1 \in Nat /\ r + 1 <= count
    BY <1>1
  <2>2. At(r + 1) <= n /\ At(r) \in Nat /\ At(r + 1) \in Nat
    BY <1>2, <2>1
  <2>3. \A p \in Owned(r) : p \in Nat /\ p < At(r + 1) + (IF d.interface /\ r = count - 1 THEN 1 ELSE 0)
    BY <1>3, <2>1, <2>2
  <2>4. r = count - 1 => At(r + 1) = n
    BY <1>1, <1>2, <2>1
  <2>5. \A p \in Owned(r) : p \in Nat /\ p < d.extent
    BY <1>1, <2>1, <2>2, <2>3, <2>4
  <2> QED BY <1>1, <2>5
<1>7. ASSUME NEW p \in 0..(d.extent - 1) PROVE \E r \in 0..(count - 1) : p \in Owned(r)
  <2>1. p \in Nat /\ p <= n
    BY <1>1
  <2>2. CASE p < n
    <3> DEFINE S == {i \in 0..count : p < At(i)}
    <3>1. count \in S /\ \A i \in S : i \in Nat
      BY <1>1, <1>2, <2>2
    <3>2. PICK i \in S : \A j \in S : i <= j
      <4> HIDE DEF S
      <4> QED BY <3>1, LeastExists
    <3>3. i \in 0..count /\ p < At(i) /\ i # 0
      BY <1>2, <2>1
    <3> DEFINE r == i - 1
    <3>4. r \in 0..(count - 1) /\ r + 1 = i /\ r \in 0..count /\ r \in Nat /\ ~ (i <= r)
      BY <1>1, <3>3
    <3>5. ~ (p < At(r))
      BY <3>2, <3>4
    <3> HIDE DEF r, S
    <3>6. At(r) \in Nat /\ At(r + 1) \in Nat
      BY <1>2, <3>4
    <3>7. p \in Owned(r)
      BY <1>3, <2>1, <3>3, <3>4, <3>5, <3>6
    <3> QED BY <3>4, <3>7
  <2>3. CASE p = n
    <3> DEFINE r == count - 1
    <3>1. /\ r \in 0..(count - 1) /\ r + 1 = count /\ r \in Nat /\ d.interface
          /\ r \in 0..count /\ count \in 0..count /\ r <= count
      BY <1>1, <2>1, <2>3
    <3>2. At(r) <= n /\ At(r) \in Nat
      BY <1>2, <3>1
    <3>3. Owned(r) = At(r)..(At(r + 1) + 1 - 1)
      BY <1>3, <3>1
    <3> HIDE DEF r
    <3>4. p \in Owned(r)
      BY <1>2, <2>1, <2>3, <3>1, <3>2, <3>3
    <3> QED BY <3>1, <3>4
  <2> QED BY <1>1, <2>1, <2>2, <2>3
<1> QED BY <1>5, <1>6, <1>7 DEF Owned, count

-----------------------------------------------------------------------------
(* Scatter and gather.                                                     *)

RootLabels   == {"bcast", "pack", "work", "gather", "place", "done", "raised"}
ClientLabels == {"metadata", "receive", "work", "gather", "done", "raised"}

Values == [by : Int, at : Int]

(* A subtile as the root packs it, and as its rank has written it. *)
IsLong(r) == Length(r) = Length(ROOT_RANK)

Written(r, array) ==
  /\ array \in Seq(Values) /\ Len(array) = Length(r)
  /\ \A k \in 1..Length(r) : array[k] = Value(r, Overlap(r).start + k - 1)

Delivered(r, array) ==
  /\ array \in Seq(Values) /\ Len(array) = Length(ROOT_RANK)
  /\ IsLong(r) => \A k \in 1..Length(r) : array[k] = Value(Nobody, Overlap(r).start + k - 1)

Share(r) == SlicePoints(SubtileSlice(dim, r, FALSE))

PartitionOK ==
  /\ dim \in Dimensions
  /\ cut = SubtileExtents(dim)
  /\ slices = [r \in Ranks |-> SubtileSlice(dim, r, TRUE)]

PcOK ==
  /\ pc \in [Ranks -> RootLabels \cup ClientLabels]
  /\ pc[ROOT_RANK] \in RootLabels
  /\ \A r \in Clients : pc[r] \in ClientLabels
  /\ cut = ValueError => \A r \in Ranks : pc[r] \in {"bcast", "metadata", "raised"}

PackedOK ==
  /\ sendbuf \in Seq(Seq(Values)) /\ Len(sendbuf) <= dim.count
  /\ \A r \in Ranks : r < Len(sendbuf) =>
       Fits(Length(r), Length(ROOT_RANK)) /\ Delivered(r, sendbuf[r + 1])
  /\ scattered \/ pc[ROOT_RANK] \in {"work", "gather", "place", "done"} => Len(sendbuf) = dim.count

FieldsOK ==
  /\ field = [r \in Ranks |-> field[r]] /\ sent = [r \in Ranks |-> sent[r]]
  /\ \A r \in Ranks :
       /\ pc[r] = "work" => IsLong(r) /\ Delivered(r, field[r])
       /\ pc[r] \in {"gather", "place", "done"} => IsLong(r) /\ Written(r, field[r])
  /\ \A r \in Clients : sent[r] # Nothing => pc[r] = "done" /\ sent[r] = field[r]

TileOK ==
  /\ pc[ROOT_RANK] \notin {"place", "done"} => placed = 0
  /\ pc[ROOT_RANK] \in {"place", "done"} =>
       /\ \A r \in Ranks : pc[r] \in {"place", "done"} /\ sent[r] = field[r]
       /\ placed \in 0..dim.count
       /\ tile \in Seq(Values) /\ Len(tile) = dim.extent
       /\ \A r \in Ranks : r < placed => \A p \in Share(r) : tile[p + 1] = Value(r, p)
  /\ pc[ROOT_RANK] = "done" => placed = dim.count

SInv == PartitionOK /\ PcOK /\ PackedOK /\ FieldsOK /\ TileOK

LEMMA ValueAt == \A by, at : Value(by, at).at = at
BY DEF Value

LEMMA RanksThere ==
  ASSUME PartitionOK
  PROVE  /\ IsDimension(dim) /\ Points(dim) >= dim.count /\ dim.count \in Nat \ {0}
         /\ dim.extent \in Nat /\ dim.interface \in BOOLEAN
         /\ ROOT_RANK = 0 /\ ROOT_RANK \in Ranks /\ ROOT_RANK \notin Clients
         /\ \A r \in Ranks : r \in Nat /\ r < dim.count /\ (r = ROOT_RANK \/ r \in Clients)
         /\ \A r \in Nat : r < dim.count => r \in Ranks
<1>1. IsDimension(dim) /\ Points(dim) >= dim.count
  BY DimensionsAssumption DEF PartitionOK
<1>2. dim.count \in Nat \ {0} /\ dim.extent \in Nat /\ dim.interface \in BOOLEAN
  BY <1>1 DEF IsDimension
<1> QED BY <1>1, <1>2 DEF Ranks, Clients, ROOT_RANK

(* Where the subtile of a rank lies, and what of it the rank owns. *)
LEMMA SubtilesLie ==
  ASSUME PartitionOK, cut # ValueError
  PROVE  /\ \A r \in Ranks :
              /\ Overlap(r).start \in Nat /\ Length(r) \in Nat \ {0}
              /\ Overlap(r).stop = Overlap(r).start + Length(r)
              /\ \A p \in Share(r) : /\ p \in Nat /\ p < dim.extent
                                     /\ Overlap(r).start <= p /\ p < Overlap(r).stop
         /\ \A r, s \in Ranks : r < s => \A p \in Share(r) : p < Overlap(s).start
         /\ (\A r \in Ranks : IsLong(r)) => GlobalExtent(dim, Length(ROOT_RANK)) = dim.extent
<1> DEFINE count == dim.count
           At(i) == StartsAt(count, cut, i)
           extra == IF dim.interface THEN 1 ELSE 0
           last(r) == IF dim.interface /\ r = count - 1 THEN 1 ELSE 0
<1>1. /\ IsDimension(dim) /\ Points(dim) >= count /\ count \in Nat \ {0} /\ dim.extent \in Nat
      /\ SubtileExtents(dim) = cut /\ FillTheTile(dim, cut) /\ Ranks = 0..(count - 1)
      /\ SubtileExtents(dim) # ValueError
      /\ Points(dim) = IF dim.interface THEN dim.extent - 1 ELSE dim.extent
  BY RanksThere, ExtentsFill DEF PartitionOK, Ranks, Points
<1>2. /\ \A i \in Nat : At(i) \in Nat
      /\ \A i, j \in 0..count : i <= j => At(i) <= At(j)
      /\ At(count) = Points(dim)
      /\ \A i \in Nat : Size(count, cut, i) \in Nat \ {0}
  BY <1>1, StartsGrow
<1>3. \A i \in Nat : At(i + 1) = At(i) + Size(count, cut, i)
  <2>1. cut.edge \in Int /\ cut.interior \in Int
    BY <1>1 DEF FillTheTile
  <2>2. ASSUME NEW i \in Nat PROVE At(i + 1) = At(i) + Size(count, cut, i)
    BY <1>1, <2>1, StartsAtStep
  <2> QED BY <2>2
<1>4. \A r \in Ranks : Overlap(r).start = At(r) /\ Overlap(r).stop = At(r + 1) + extra
  <2>1. ASSUME NEW r \in Ranks
        PROVE  Overlap(r).start = At(r) /\ Overlap(r).stop = At(r + 1) + extra
    <3> DEFINE slice == SubtileSlice(dim, r, TRUE)
    <3>1. Overlap(r) = slice
      BY DEF Overlap, PartitionOK
    <3>2. /\ slice.start = At(r)
          /\ slice.stop = At(r + 1) + IF dim.interface /\ (TRUE \/ r = count - 1) THEN 1 ELSE 0
      BY <1>1, SliceIs
    <3> QED BY <3>1, <3>2
  <2> QED BY <2>1
<1>5. \A r \in Ranks : Share(r) = At(r)..(At(r + 1) + last(r) - 1)
  <2>1. ASSUME NEW r \in Ranks PROVE Share(r) = At(r)..(At(r + 1) + last(r) - 1)
    <3> DEFINE slice == SubtileSlice(dim, r, FALSE)
    <3>1. Share(r) = slice.start..(slice.stop - 1)
      BY DEF Share, SlicePoints
    <3>2. /\ slice.start = At(r)
          /\ slice.stop = At(r + 1) + IF dim.interface /\ (FALSE \/ r = count - 1) THEN 1 ELSE 0
      BY <1>1, SliceIs
    <3>3. r + 1 \in Nat
      BY <1>1
    <3> HIDE DEF slice, At, count
    <3>4. At(r + 1) \in Int
      BY <1>2, <3>3
    <3> QED BY <3>1, <3>2, <3>4
  <2> QED BY <2>1
<1>6. extra \in {0, 1} /\ \A r \in Ranks : last(r) \in {0, 1} /\ last(r) <= extra
  OBVIOUS
<1>7. /\ \A r \in Ranks : last(r) = 1 => r = count - 1
      /\ Points(dim) + extra = dim.extent
  BY <1>1
<1> HIDE DEF count, At, extra, last
<1>8. \A r \in Ranks : Length(r) = Size(count, cut, r) + extra
  <2>1. ASSUME NEW r \in Ranks PROVE Length(r) = Size(count, cut, r) + extra
    <3>1. r \in Nat /\ r + 1 \in Nat
      BY <1>1
    <3>2. At(r) \in Nat /\ At(r + 1) = At(r) + Size(count, cut, r) /\ Size(count, cut, r) \in Nat
      BY <1>2, <1>3, <3>1
    <3> QED BY <1>4, <1>6, <3>2 DEF Length
  <2> QED BY <2>1
<1>9. ASSUME NEW r \in Ranks
      PROVE  /\ Overlap(r).start \in Nat /\ Length(r) \in Nat \ {0}
             /\ Overlap(r).stop = Overlap(r).start + Length(r)
             /\ \A p \in Share(r) : /\ p \in Nat /\ p < dim.extent
                                    /\ Overlap(r).start <= p /\ p < Overlap(r).stop
  <2>1. r \in Nat /\ r + 1 \in Nat /\ r + 1 \in 0..count /\ count \in 0..count /\ r + 1 <= count
    BY <1>1
  <2>2. /\ At(r) \in Nat /\ At(r + 1) \in Nat /\ At(r + 1) = At(r) + Size(count, cut, r)
        /\ Size(count, cut, r) \in Nat \ {0} /\ At(r + 1) <= Points(dim)
    BY <1>2, <1>3, <2>1
  <2>3. Overlap(r).start \in Nat /\ Length(r) \in Nat \ {0}
    BY <1>4, <1>6, <1>8, <2>2
  <2>4. Overlap(r).stop = Overlap(r).start + Length(r)
    BY <1>4, <1>6, <1>8, <2>2
  <2>5. \A p \in Share(r) : p \in Nat /\ At(r) <= p /\ p < At(r + 1) + last(r)
    BY <1>5, <1>6, <2>2
  <2>6. last(r) \in Int /\ last(r) <= extra /\ extra \in Int /\ dim.extent \in Int
        /\ Points(dim) \in Int
    BY <1>1, <1>6, <1>7
  <2>7. \A p \in Share(r) : p < dim.extent /\ Overlap(r).start <= p /\ p < Overlap(r).stop
    BY <1>4, <1>7, <2>2, <2>5, <2>6
  <2> QED BY <2>3, <2>4, <2>5, <2>7
<1>10. ASSUME NEW r \in Ranks, NEW s \in Ranks, r < s, NEW p \in Share(r)
       PROVE  p < Overlap(s).start
  <2>1. /\ r \in Nat /\ r + 1 \in Nat /\ s \in Nat /\ r + 1 \in 0..count /\ s \in 0..count
        /\ r + 1 <= s /\ r # count - 1
    BY <1>1, <1>10
  <2>2. At(r) \in Nat /\ At(r + 1) \in Nat /\ At(s) \in Nat /\ At(r + 1) <= At(s)
    BY <1>2, <2>1
  <2>3. last(r) = 0
    BY <1>6, <1>7, <2>1
  <2> QED BY <1>4, <1>5, <2>2, <2>3
<1>11. ASSUME \A r \in Ranks : IsLong(r)
       PROVE  GlobalExtent(dim, Length(ROOT_RANK)) = dim.extent
  <2>1. /\ 0 \in Ranks /\ ROOT_RANK = 0 /\ cut.edge \in Nat /\ cut.interior \in Nat
        /\ count = 1 => cut.edge = Points(dim)
        /\ count >= 2 => 2 * cut.edge + (count - 2) * cut.interior = Points(dim)
        /\ count < 3 => cut.edge = cut.interior
    BY <1>1 DEF FillTheTile, ROOT_RANK, count
  <2>2. Size(count, cut, 0) = cut.edge
    BY DEF Size
  <2>3. cut.edge = cut.interior
    <3>1. CASE count < 3
      BY <2>1, <3>1
    <3>2. CASE count >= 3
      <4>1. 1 \in Ranks /\ Size(count, cut, 1) = cut.interior
        BY <1>1, <3>2 DEF Size
      <4>2. Length(1) = Length(0)
        BY <1>11, <2>1, <4>1 DEF IsLong
      <4> QED BY <1>6, <1>8, <2>1, <2>2, <4>1, <4>2
    <3> QED BY <1>1, <3>1, <3>2
  <2>4. count * cut.edge = Points(dim)
    <3>1. CASE count = 1
      BY <2>1, <3>1
    <3>2. CASE count >= 2
      BY <1>1, <2>1, <2>3, <3>2
    <3> QED BY <1>1, <3>1, <3>2
  <2>5. Length(ROOT_RANK) = cut.edge + extra
    BY <1>8, <2>1, <2>2
  <2>6. CASE dim.interface
    <3>1. extra = 1 /\ GlobalExtent(dim, Length(ROOT_RANK)) = (Length(ROOT_RANK) - 1) * count + 1
      BY <2>6 DEF GlobalExtent, extra, count
    <3>2. Length(ROOT_RANK) - 1 = cut.edge
      BY <2>1, <2>5, <3>1
    <3>3. cut.edge * count = count * cut.edge
      BY <1>1, <2>1
    <3> QED BY <1>7, <2>4, <3>1, <3>2, <3>3
  <2>7. CASE ~ dim.interface
    <3>1. extra = 0 /\ GlobalExtent(dim, Length(ROOT_RANK)) = Length(ROOT_RANK) * count
      BY <2>7 DEF GlobalExtent, extra, count
    <3>2. Length(ROOT_RANK) = cut.edge
      BY <2>1, <2>5, <3>1
    <3>3. cut.edge * count = count * cut.edge
      BY <1>1, <2>1
    <3>4. Points(dim) \in Int
      BY <1>1
    <3> QED BY <1>7, <2>4, <3>1, <3>2, <3>3, <3>4
  <2> QED BY <2>6, <2>7
<1> QED BY <1>9, <1>10, <1>11

(* A row that fits, packed for a rank. *)
LEMMA RowIsDelivered ==
  ASSUME PartitionOK, cut # ValueError, NEW r \in Ranks, Fits(Length(r), Length(ROOT_RANK))
  PROVE  PackedRow(r) \in Seq(Values) /\ Delivered(r, PackedRow(r))
<1> DEFINE n == Length(ROOT_RANK)
           start == Overlap(r).start
<1>1. n \in Nat \ {0} /\ Length(r) \in Nat \ {0} /\ start \in Nat
      /\ Length(r) = Overlap(r).stop - Overlap(r).start
  BY RanksThere, SubtilesLie DEF Length
<1>2. \A i \in 1..Length(r) : ViewOf(Overlap(r))[i] = Value(Nobody, start + i - 1)
  BY <1>1 DEF ViewOf
<1>3. PackedRow(r) = [k \in 1..n |-> ViewOf(Overlap(r))[IF Length(r) = 1 THEN 1 ELSE k]]
  BY DEF PackedRow
<1> HIDE DEF n, start
<1>4. \A k \in 1..n : (IF Length(r) = 1 THEN 1 ELSE k) \in 1..Length(r)
  BY <1>1 DEF Fits, n
<1>5. \A k \in 1..n : PackedRow(r)[k] = Value(Nobody, start + (IF Length(r) = 1 THEN 1 ELSE k) - 1)
  BY <1>2, <1>3, <1>4
<1>6. \A k \in 1..n : PackedRow(r)[k] \in Values
  <2>1. \A x \in Int : Value(Nobody, x) \in Values
    BY DEF Value, Values, Nobody
  <2>2. \A k \in 1..n : start + (IF Length(r) = 1 THEN 1 ELSE k) - 1 \in Int
    BY <1>1
  <2> QED BY <1>5, <2>1, <2>2
<1>7. PackedRow(r) \in Seq(Values) /\ Len(PackedRow(r)) = n
  BY <1>1, <1>3, <1>6
<1>8. IsLong(r) => \A k \in 1..Length(r) : PackedRow(r)[k] = Value(Nobody, start + k - 1)
  <2> SUFFICES ASSUME IsLong(r), NEW k \in 1..Length(r)
               PROVE  PackedRow(r)[k] = Value(Nobody, start + k - 1)
    OBVIOUS
  <2>1. Length(r) = n /\ k \in 1..n
    BY DEF IsLong, n
  <2>2. (IF Length(r) = 1 THEN 1 ELSE k) = k
    BY <1>1
  <2> QED BY <1>5, <2>1, <2>2
<1> QED BY <1>7, <1>8 DEF Delivered, n, start

LEMMA ScatterStarts ==
  ASSUME Init
  PROVE  SInv
<1>1. PartitionOK
  BY DEF Init, PartitionOK, Ranks
<1>2. ROOT_RANK \in Ranks /\ dim.count \in Nat /\ \A r \in Ranks : r = ROOT_RANK \/ r \in Clients
  BY <1>1, RanksThere
<1>3. \A r \in Ranks : pc[r] = IF r = ROOT_RANK THEN "bcast" ELSE "metadata"
  BY DEF Init, Ranks
<1>4. PcOK
  BY <1>2, <1>3 DEF Init, PcOK, Ranks, RootLabels, ClientLabels, Clients
<1>5. PackedOK
  <2>1. sendbuf = << >> /\ scattered = FALSE /\ pc[ROOT_RANK] = "bcast"
    BY <1>2, <1>3 DEF Init
  <2>2. Len(sendbuf) = 0 /\ sendbuf \in Seq(Seq(Values))
    BY <2>1
  <2>3. \A r \in Ranks : ~ (r < 0)
    BY DEF Ranks
  <2> QED BY <1>2, <2>1, <2>2, <2>3 DEF PackedOK
<1>6. FieldsOK
  <2>1. \A r \in Ranks : sent[r] = Nothing
    BY DEF Init, Ranks
  <2>2. field = [r \in Ranks |-> field[r]] /\ sent = [r \in Ranks |-> sent[r]]
    BY DEF Init, Ranks
  <2>3. \A r \in Ranks : pc[r] \notin {"work", "gather", "place", "done"}
    BY <1>3
  <2> QED BY <2>1, <2>2, <2>3 DEF FieldsOK, Clients
<1>7. TileOK
  BY <1>2, <1>3 DEF Init, TileOK
<1> QED BY <1>1, <1>4, <1>5, <1>6, <1>7 DEF SInv

(* What does not change. *)
LEMMA PartitionStays ==
  ASSUME PartitionOK, UNCHANGED partition
  PROVE  /\ PartitionOK' /\ Ranks' = Ranks /\ Clients' = Clients
         /\ \A r : Length(r)' = Length(r) /\ Overlap(r)' = Overlap(r) /\ (IsLong(r)' <=> IsLong(r))
         /\ \A r : Share(r)' = Share(r)
         /\ dim' = dim /\ cut' = cut /\ slices' = slices
<1>1. dim' = dim /\ cut' = cut /\ slices' = slices
  BY DEF partition
<1> QED BY <1>1 DEF PartitionOK, Ranks, Clients, Length, Overlap, IsLong, Share

LEMMA GotoEffect ==
  ASSUME PcOK, NEW r \in Ranks, NEW label, Goto(r, label), label \in RootLabels \cup ClientLabels
  PROVE  /\ pc' \in [Ranks -> RootLabels \cup ClientLabels]
         /\ pc'[r] = label /\ \A s \in Ranks : s # r => pc'[s] = pc[s]
  BY DEF PcOK, Goto

(* One rank goes on, before the root has gathered. *)
LEMMA OneRankGoesOn ==
  ASSUME SInv, NEW r \in Ranks, NEW label, NEW new,
         pc[r] \notin {"place", "done"}, Goto(r, label),
         label \in IF r = ROOT_RANK THEN RootLabels \ {"place", "done"} ELSE ClientLabels,
         cut = ValueError => label = "raised",
         scattered' \/ (r = ROOT_RANK /\ label \in {"work", "gather"}) => Len(sendbuf) = dim.count,
         field' = [field EXCEPT ![r] = new],
         label = "work" => IsLong(r) /\ Delivered(r, new),
         label \in {"gather", "done"} => IsLong(r) /\ Written(r, new),
         sent' = IF label = "done" THEN [sent EXCEPT ![r] = new] ELSE sent,
         UNCHANGED <<partition, sendbuf, placed>>
  PROVE  SInv'
<1>1. PartitionOK /\ PcOK /\ PackedOK /\ FieldsOK /\ TileOK
  BY DEF SInv
<1>2. /\ PartitionOK' /\ Ranks' = Ranks /\ Clients' = Clients
      /\ \A s : Length(s)' = Length(s) /\ Overlap(s)' = Overlap(s) /\ (IsLong(s)' <=> IsLong(s))
      /\ dim' = dim /\ cut' = cut
  BY <1>1, PartitionStays
<1>3. /\ pc' \in [Ranks -> RootLabels \cup ClientLabels]
      /\ pc'[r] = label /\ \A s \in Ranks : s # r => pc'[s] = pc[s]
  <2>1. label \in RootLabels \cup ClientLabels
    OBVIOUS
  <2> QED BY <1>1, <2>1, GotoEffect
<1>4. sendbuf' = sendbuf /\ placed' = placed
  OBVIOUS
<1>5. /\ ROOT_RANK \in Ranks /\ ROOT_RANK \notin Clients
      /\ \A s \in Ranks : (s = ROOT_RANK \/ s \in Clients)
      /\ \A s \in Clients : s \in Ranks /\ s # ROOT_RANK
  BY <1>1, RanksThere DEF Clients
<1>6. PcOK'
  <2>1. pc'[ROOT_RANK] \in RootLabels
    BY <1>1, <1>3, <1>5 DEF PcOK
  <2>2. \A s \in Clients : pc'[s] \in ClientLabels
    BY <1>1, <1>3, <1>5 DEF PcOK
  <2>3. cut = ValueError => \A s \in Ranks : pc'[s] \in {"bcast", "metadata", "raised"}
    BY <1>1, <1>3 DEF PcOK
  <2> QED BY <1>2, <1>3, <2>1, <2>2, <2>3 DEF PcOK
<1>7. pc[ROOT_RANK] \notin {"place", "done"} /\ pc'[ROOT_RANK] \notin {"place", "done"}
  <2>1. pc[ROOT_RANK] \notin {"place", "done"}
    BY <1>1 DEF TileOK
  <2> QED BY <1>3, <1>5, <2>1
<1>8. PackedOK'
  <2>1. /\ sendbuf' \in Seq(Seq(Values)) /\ Len(sendbuf') <= dim'.count
        /\ \A s \in Ranks' : s < Len(sendbuf') =>
             (Fits(Length(s), Length(ROOT_RANK)) /\ Delivered(s, sendbuf[s + 1]))'
    BY <1>1, <1>2, <1>4 DEF PackedOK, Delivered
  <2>2. scattered' \/ pc'[ROOT_RANK] \in {"work", "gather", "place", "done"}
          => Len(sendbuf') = dim'.count
    <3>1. CASE r = ROOT_RANK
      BY <1>2, <1>3, <1>4, <1>7, <3>1
    <3>2. CASE r # ROOT_RANK
      BY <1>1, <1>2, <1>3, <1>4, <1>5, <3>2 DEF PackedOK
    <3> QED BY <3>1, <3>2
  <2> QED BY <2>1, <2>2 DEF PackedOK
<1>9. /\ field = [s \in Ranks |-> field[s]] /\ sent = [s \in Ranks |-> sent[s]]
      /\ \A s \in Ranks :
           /\ pc[s] = "work" => IsLong(s) /\ Delivered(s, field[s])
           /\ pc[s] \in {"gather", "place", "done"} => IsLong(s) /\ Written(s, field[s])
      /\ \A s \in Clients : sent[s] # Nothing => pc[s] = "done" /\ sent[s] = field[s]
  BY <1>1 DEF FieldsOK
<1>10. /\ field' = [s \in Ranks |-> field'[s]] /\ sent' = [s \in Ranks |-> sent'[s]]
       /\ field'[r] = new /\ \A s \in Ranks : s # r => field'[s] = field[s] /\ sent'[s] = sent[s]
       /\ label = "done" => sent'[r] = new
       /\ label # "done" => sent'[r] = sent[r]
  BY <1>9
<1>11. FieldsOK'
  <2>1. ASSUME NEW s \in Ranks
        PROVE  /\ pc'[s] = "work" => (IsLong(s) /\ Delivered(s, field[s]))'
               /\ pc'[s] \in {"gather", "place", "done"} => (IsLong(s) /\ Written(s, field[s]))'
    <3>1. CASE s = r
      <4>1. Delivered(s, field[s])' <=> Delivered(s, new)
        BY <1>2, <1>10, <3>1 DEF Delivered
      <4>2. Written(s, field[s])' <=> Written(s, new)
        BY <1>2, <1>10, <3>1 DEF Written
      <4>3. label # "place"
        BY DEF ClientLabels
      <4> QED BY <1>2, <1>3, <3>1, <4>1, <4>2, <4>3
    <3>2. CASE s # r
      <4>1. Delivered(s, field[s])' <=> Delivered(s, field[s])
        BY <1>2, <1>10, <3>2 DEF Delivered
      <4>2. Written(s, field[s])' <=> Written(s, field[s])
        BY <1>2, <1>10, <3>2 DEF Written
      <4> QED BY <1>2, <1>3, <1>9, <3>2, <4>1, <4>2
    <3> QED BY <3>1, <3>2
  <2>2. ASSUME NEW s \in Clients, sent'[s] # Nothing PROVE pc'[s] = "done" /\ sent'[s] = field'[s]
    BY <1>3, <1>5, <1>9, <1>10, <2>2
  <2> QED BY <1>2, <1>10, <2>1, <2>2 DEF FieldsOK
<1>12. TileOK'
  BY <1>1, <1>4, <1>7 DEF TileOK
<1> QED BY <1>2, <1>6, <1>8, <1>11, <1>12 DEF SInv

LEMMA MetadataStep ==
  ASSUME SInv, NEW r \in Ranks, (BroadcastMetadata /\ r = ROOT_RANK) \/ ReceiveMetadata(r)
  PROVE  SInv'
<1> DEFINE label == AfterMetadata(IF r = ROOT_RANK THEN "pack" ELSE "receive")
<1>1. ROOT_RANK \notin Clients /\ field = [s \in Ranks |-> field[s]]
      /\ (scattered => Len(sendbuf) = dim.count)
  BY RanksThere DEF SInv, FieldsOK, PackedOK
<1>2. /\ pc[r] \in {"bcast", "metadata"} /\ Goto(r, label)
      /\ UNCHANGED <<partition, sendbuf, scattered, field, sent, placed, tile>>
  BY <1>1 DEF BroadcastMetadata, ReceiveMetadata
<1>3. /\ label \in IF r = ROOT_RANK THEN RootLabels \ {"place", "done"} ELSE ClientLabels
      /\ cut = ValueError => label = "raised"
      /\ label \in {"pack", "receive", "raised"}
  BY DEF AfterMetadata, RootLabels, ClientLabels
<1>4. field' = [field EXCEPT ![r] = field[r]]
  BY <1>1, <1>2
<1> HIDE DEF label
<1> QED BY <1>1, <1>2, <1>3, <1>4, OneRankGoesOn

LEMMA PackStep ==
  ASSUME SInv, PackRow
  PROVE  SInv'
<1>1. PartitionOK /\ PcOK /\ PackedOK /\ FieldsOK /\ TileOK
  BY DEF SInv
<1>2. /\ PartitionOK' /\ Ranks' = Ranks /\ Clients' = Clients
      /\ \A s : Length(s)' = Length(s) /\ Overlap(s)' = Overlap(s) /\ (IsLong(s)' <=> IsLong(s))
      /\ dim' = dim /\ cut' = cut
  BY <1>1, PartitionStays DEF PackRow
<1> DEFINE n == Len(sendbuf)
           row == PackedRow(n)
<1>3. /\ pc[ROOT_RANK] = "pack" /\ n \in Ranks /\ Fits(Length(n), Length(ROOT_RANK))
      /\ sendbuf' = Append(sendbuf, row)
      /\ UNCHANGED <<pc, scattered, field, sent, placed, tile>>
  BY DEF PackRow, NextRow
<1>4. /\ dim.count \in Nat /\ ROOT_RANK \in Ranks /\ n < dim.count /\ n \in Nat
      /\ \A s \in Ranks : s \in Nat /\ s < dim.count
      /\ \A s \in Clients : s \in Ranks
  BY <1>1, <1>3, RanksThere DEF Clients
<1>5. cut # ValueError
  BY <1>1, <1>3, <1>4 DEF PcOK
<1>6. row \in Seq(Values) /\ Delivered(n, row)
  BY <1>1, <1>3, <1>5, RowIsDelivered
<1>7. sendbuf \in Seq(Seq(Values)) /\ ~ scattered /\ pc[ROOT_RANK] \notin {"work", "gather", "place", "done"}
  BY <1>1, <1>3, <1>4 DEF PackedOK
<1> HIDE DEF n, row
<1>8. /\ sendbuf' \in Seq(Seq(Values)) /\ Len(sendbuf') = n + 1
      /\ \A i \in 1..n : sendbuf'[i] = sendbuf[i]
      /\ sendbuf'[n + 1] = row
  <2> DEFINE D == Seq(Values)
  <2>1. sendbuf \in Seq(D) /\ row \in D
    BY <1>6, <1>7
  <2> HIDE DEF D
  <2>2. /\ Append(sendbuf, row) \in Seq(D) /\ Len(Append(sendbuf, row)) = Len(sendbuf) + 1
        /\ \A i \in 1..Len(sendbuf) : Append(sendbuf, row)[i] = sendbuf[i]
        /\ Append(sendbuf, row)[Len(sendbuf) + 1] = row
    BY <2>1, AppendProperties
  <2> QED BY <1>3, <2>2 DEF n, D
<1>9. PackedOK'
  <2>1. ASSUME NEW s \in Ranks, s < Len(sendbuf')
        PROVE  (Fits(Length(s), Length(ROOT_RANK)) /\ Delivered(s, sendbuf[s + 1]))'
    <3>1. CASE s < n
      <4>1. s + 1 \in 1..n /\ sendbuf'[s + 1] = sendbuf[s + 1]
        BY <1>4, <1>8, <3>1
      <4>2. Fits(Length(s), Length(ROOT_RANK)) /\ Delivered(s, sendbuf[s + 1])
        BY <1>1, <3>1 DEF PackedOK, n
      <4> QED BY <1>2, <4>1, <4>2 DEF Delivered, Fits
    <3>2. CASE s = n
      <4>1. sendbuf'[s + 1] = row
        BY <1>8, <3>2
      <4> QED BY <1>2, <1>3, <1>6, <3>2, <4>1 DEF Delivered, Fits
    <3> QED BY <1>4, <1>8, <2>1, <3>1, <3>2
  <2>2. Len(sendbuf') <= dim'.count
    BY <1>2, <1>4, <1>8
  <2>3. ~ scattered' /\ pc'[ROOT_RANK] \notin {"work", "gather", "place", "done"}
    BY <1>3, <1>7
  <2> QED BY <1>2, <1>8, <2>1, <2>2, <2>3 DEF PackedOK
<1>10. PcOK'
  BY <1>1, <1>2, <1>3 DEF PcOK
<1>11. FieldsOK'
  <2>1. ASSUME NEW s \in Ranks
        PROVE  /\ pc'[s] = "work" => (IsLong(s) /\ Delivered(s, field[s]))'
               /\ pc'[s] \in {"gather", "place", "done"} => (IsLong(s) /\ Written(s, field[s]))'
    <3>1. Delivered(s, field[s])' <=> Delivered(s, field[s])
      BY <1>2, <1>3 DEF Delivered
    <3>2. Written(s, field[s])' <=> Written(s, field[s])
      BY <1>2, <1>3 DEF Written
    <3> QED BY <1>1, <1>2, <1>3, <3>1, <3>2 DEF FieldsOK
  <2>2. field' = [s \in Ranks |-> field'[s]] /\ sent' = [s \in Ranks |-> sent'[s]]
    BY <1>1, <1>3 DEF FieldsOK
  <2>3. ASSUME NEW s \in Clients, sent'[s] # Nothing PROVE pc'[s] = "done" /\ sent'[s] = field'[s]
    BY <1>1, <1>3, <2>3 DEF FieldsOK
  <2> QED BY <1>2, <2>1, <2>2, <2>3 DEF FieldsOK
<1>12. TileOK'
  BY <1>1, <1>3 DEF TileOK
<1> QED BY <1>2, <1>9, <1>10, <1>11, <1>12 DEF SInv

LEMMA RootScatters ==
  ASSUME SInv, PackRaises \/ RootScatter
  PROVE  SInv'
<1>1. PartitionOK /\ PcOK /\ PackedOK /\ FieldsOK /\ TileOK
  BY DEF SInv
<1>2. /\ dim.count \in Nat \ {0} /\ ROOT_RANK \in Ranks /\ ROOT_RANK = 0
      /\ \A s \in Nat : s < dim.count => s \in Ranks
  BY <1>1, RanksThere
<1>3. /\ pc[ROOT_RANK] = "pack" /\ cut # ValueError
      /\ UNCHANGED <<partition, sendbuf, placed>> /\ sent' = sent
  BY <1>1, <1>2 DEF PackRaises, RootScatter, PcOK
<1>4. field = [s \in Ranks |-> field[s]] /\ (scattered => Len(sendbuf) = dim.count)
      /\ Len(sendbuf) \in Nat /\ Len(sendbuf) <= dim.count
  BY <1>1 DEF FieldsOK, PackedOK
<1>5. CASE PackRaises
  <2>1. Goto(ROOT_RANK, "raised") /\ scattered' = scattered
    BY <1>5 DEF PackRaises
  <2>2. field' = [field EXCEPT ![ROOT_RANK] = field[ROOT_RANK]]
    BY <1>4, <1>5 DEF PackRaises
  <2>3. "raised" \in RootLabels \ {"place", "done"}
    BY DEF RootLabels
  <2> QED BY <1>2, <1>3, <1>4, <2>1, <2>2, <2>3, OneRankGoesOn
<1>6. CASE RootScatter
  <2> DEFINE new == sendbuf[ROOT_RANK + 1]
  <2>1. /\ Goto(ROOT_RANK, "work") /\ Len(sendbuf) \notin Ranks
        /\ field' = [field EXCEPT ![ROOT_RANK] = new]
    BY <1>6 DEF RootScatter, NextRow
  <2>2. Len(sendbuf) = dim.count
    BY <1>2, <1>4, <2>1
  <2>3. IsLong(ROOT_RANK) /\ Delivered(ROOT_RANK, new)
    <3>1. ROOT_RANK < Len(sendbuf)
      BY <1>2, <2>2
    <3> QED BY <1>1, <1>2, <3>1 DEF PackedOK, IsLong
  <2>4. "work" \in RootLabels \ {"place", "done"}
    BY DEF RootLabels
  <2> HIDE DEF new
  <2> QED BY <1>2, <1>3, <2>1, <2>2, <2>3, <2>4, OneRankGoesOn
<1> QED BY <1>5, <1>6

LEMMA ClientReceives ==
  ASSUME SInv, NEW r \in Ranks, ClientScatter(r)
  PROVE  SInv'
<1>1. PartitionOK /\ PcOK /\ PackedOK /\ FieldsOK /\ TileOK
  BY DEF SInv
<1>2. /\ r \in Clients /\ pc[r] = "receive" /\ scattered
      /\ UNCHANGED <<partition, sendbuf, scattered, sent, placed, tile>>
  BY DEF ClientScatter
<1>3. cut # ValueError /\ r # ROOT_RANK /\ r \in Nat /\ r < dim.count /\ ROOT_RANK \in Ranks
  BY <1>1, <1>2, RanksThere DEF PcOK
<1>4. field = [s \in Ranks |-> field[s]] /\ Len(sendbuf) = dim.count
  BY <1>1, <1>2 DEF FieldsOK, PackedOK
<1> DEFINE new == sendbuf[r + 1]
<1>5. Fits(Length(r), Length(ROOT_RANK)) /\ Delivered(r, new)
  BY <1>1, <1>3, <1>4 DEF PackedOK
<1>6. CASE Len(new) <= Length(r)
  <2>1. Goto(r, "work") /\ field' = [field EXCEPT ![r] = new]
    BY <1>6 DEF ClientScatter
  <2>2. IsLong(r)
    <3>1. Length(r) \in Nat \ {0} /\ Length(ROOT_RANK) \in Nat \ {0}
      BY <1>1, <1>3, SubtilesLie
    <3> QED BY <1>5, <1>6, <3>1 DEF Fits, IsLong, Delivered
  <2>3. "work" \in ClientLabels
    BY DEF ClientLabels
  <2> HIDE DEF new
  <2> QED BY <1>2, <1>3, <1>4, <1>5, <2>1, <2>2, <2>3, OneRankGoesOn
<1>7. CASE ~ (Len(new) <= Length(r))
  <2>1. Goto(r, "raised") /\ field' = field
    BY <1>7 DEF ClientScatter
  <2>2. field' = [field EXCEPT ![r] = field[r]]
    BY <1>4, <2>1
  <2>3. "raised" \in ClientLabels
    BY DEF ClientLabels
  <2> QED BY <1>2, <1>3, <1>4, <2>1, <2>2, <2>3, OneRankGoesOn
<1> QED BY <1>6, <1>7

LEMMA RankWorks ==
  ASSUME SInv, NEW r \in Ranks, Work(r)
  PROVE  SInv'
<1>1. PartitionOK /\ PcOK /\ PackedOK /\ FieldsOK /\ TileOK
  BY DEF SInv
<1> DEFINE new == [k \in DOMAIN field[r] |-> Value(r, field[r][k].at)]
<1>2. /\ pc[r] = "work" /\ Goto(r, "gather") /\ sent' = sent /\ scattered' = scattered
      /\ UNCHANGED <<partition, sendbuf, placed>> /\ field = [s \in Ranks |-> field[s]]
      /\ field' = [field EXCEPT ![r] = new]
  BY <1>1 DEF Work, FieldsOK
<1>3. cut # ValueError /\ r \in Int
  BY <1>1, <1>2, RanksThere DEF PcOK
<1>4. IsLong(r) /\ Delivered(r, field[r]) /\ Length(r) \in Nat /\ Overlap(r).start \in Nat
  BY <1>1, <1>2, <1>3, SubtilesLie DEF FieldsOK
<1>5. Written(r, new)
  <2>1. DOMAIN field[r] = 1..Length(r)
    <3> DEFINE array == field[r]
               D == Values
    <3>1. array \in Seq(D) /\ Len(array) = Length(r)
      BY <1>4 DEF Delivered, IsLong
    <3> HIDE DEF array, D
    <3>2. DOMAIN array = 1..Len(array)
      BY <3>1
    <3> QED BY <3>1, <3>2 DEF array
  <2>2. \A k \in 1..Length(r) : new[k] = Value(r, Overlap(r).start + k - 1)
    <3>1. \A k \in 1..Length(r) : field[r][k] = Value(Nobody, Overlap(r).start + k - 1)
      BY <1>4 DEF Delivered
    <3>2. \A k \in 1..Length(r) : field[r][k].at = Overlap(r).start + k - 1
      BY <3>1, ValueAt
    <3>3. \A k \in 1..Length(r) : new[k] = Value(r, field[r][k].at)
      BY <2>1
    <3> QED BY <3>2, <3>3
  <2>3. \A k \in 1..Length(r) : Value(r, Overlap(r).start + k - 1) \in Values
    BY <1>3, <1>4 DEF Value, Values
  <2>4. new \in [1..Length(r) -> Values]
    <3>1. new = [k \in 1..Length(r) |-> new[k]]
      BY <2>1
    <3> HIDE DEF new
    <3> QED BY <2>2, <2>3, <3>1
  <2> HIDE DEF new
  <2>5. new \in Seq(Values) /\ Len(new) = Length(r)
    BY <1>4, <2>4
  <2> QED BY <2>2, <2>5 DEF Written
<1>6. /\ "gather" \in IF r = ROOT_RANK THEN RootLabels \ {"place", "done"} ELSE ClientLabels
      /\ scattered' \/ r = ROOT_RANK => Len(sendbuf) = dim.count
  BY <1>1, <1>2 DEF RootLabels, ClientLabels, PackedOK
<1> HIDE DEF new
<1> QED BY <1>2, <1>3, <1>4, <1>5, <1>6, OneRankGoesOn

LEMMA ClientGathers ==
  ASSUME SInv, NEW r \in Ranks, ClientGather(r)
  PROVE  SInv'
<1>1. PartitionOK /\ PcOK /\ PackedOK /\ FieldsOK /\ TileOK
  BY DEF SInv
<1> DEFINE new == field[r]
<1>2. /\ pc[r] = "gather" /\ Goto(r, "done") /\ scattered' = scattered
      /\ UNCHANGED <<partition, sendbuf, placed>> /\ field = [s \in Ranks |-> field[s]]
      /\ field' = [field EXCEPT ![r] = new] /\ sent' = [sent EXCEPT ![r] = new]
      /\ r \in Clients
  BY <1>1 DEF ClientGather, FieldsOK
<1>3. cut # ValueError /\ r # ROOT_RANK /\ "done" \in ClientLabels
  BY <1>1, <1>2, RanksThere DEF PcOK, ClientLabels
<1>4. IsLong(r) /\ Written(r, new) /\ (scattered => Len(sendbuf) = dim.count)
  BY <1>1, <1>2 DEF FieldsOK, PackedOK
<1> HIDE DEF new
<1> QED BY <1>2, <1>3, <1>4, OneRankGoesOn

LEMMA RootGathers ==
  ASSUME SInv, RootGather
  PROVE  SInv'
<1>1. PartitionOK /\ PcOK /\ PackedOK /\ FieldsOK /\ TileOK
  BY DEF SInv
<1>2. /\ PartitionOK' /\ Ranks' = Ranks /\ Clients' = Clients
      /\ \A s \in Ranks : Length(s)' = Length(s) /\ Overlap(s)' = Overlap(s)
                          /\ (IsLong(s)' <=> IsLong(s)) /\ Share(s)' = Share(s)
      /\ dim' = dim /\ cut' = cut
  BY <1>1, PartitionStays DEF RootGather
<1>3. /\ pc[ROOT_RANK] = "gather" /\ GatherComplete /\ Goto(ROOT_RANK, "place")
      /\ sent' = [sent EXCEPT ![ROOT_RANK] = field[ROOT_RANK]]
      /\ tile' = [k \in 1..TileExtent |-> Uninitialized]
      /\ UNCHANGED <<sendbuf, scattered, field, placed>>
  BY DEF RootGather
<1>4. /\ dim.count \in Nat \ {0} /\ dim.extent \in Nat /\ ROOT_RANK \in Ranks
      /\ ROOT_RANK \notin Clients
      /\ \A s \in Ranks : s \in Nat /\ (s = ROOT_RANK \/ s \in Clients)
      /\ \A s \in Clients : s \in Ranks /\ s # ROOT_RANK
  BY <1>1, RanksThere DEF Clients
<1>5. cut # ValueError
  BY <1>1, <1>3, <1>4 DEF PcOK
<1>6. \A s \in Clients : sent[s] # Nothing /\ pc[s] = "done" /\ sent[s] = field[s]
  BY <1>1, <1>3 DEF GatherComplete, FieldsOK
<1>7. /\ pc' \in [Ranks -> RootLabels \cup ClientLabels]
      /\ pc'[ROOT_RANK] = "place" /\ \A s \in Ranks : s # ROOT_RANK => pc'[s] = pc[s]
  <2>1. "place" \in RootLabels \cup ClientLabels
    BY DEF RootLabels
  <2> QED BY <1>1, <1>3, <1>4, <2>1, GotoEffect
<1>8. \A s \in Ranks : pc'[s] \in {"place", "done"}
  BY <1>4, <1>6, <1>7
<1>9. /\ sent' = [s \in Ranks |-> sent'[s]] /\ field' = [s \in Ranks |-> field'[s]]
      /\ \A s \in Ranks : sent'[s] = field[s]
  BY <1>1, <1>3, <1>4, <1>6 DEF FieldsOK
<1>10. \A s \in Ranks : IsLong(s) /\ Written(s, field[s])
  BY <1>1, <1>3, <1>4, <1>6 DEF FieldsOK
<1>11. PcOK'
  <2>1. pc'[ROOT_RANK] \in RootLabels
    BY <1>7 DEF RootLabels
  <2>2. \A s \in Clients : pc'[s] \in ClientLabels
    BY <1>1, <1>4, <1>7 DEF PcOK
  <2> QED BY <1>2, <1>5, <1>7, <2>1, <2>2 DEF PcOK
<1>12. PackedOK'
  <2>1. Len(sendbuf) = dim.count
    BY <1>1, <1>3 DEF PackedOK
  <2>2. \A s \in Ranks : s < Len(sendbuf) =>
          (Fits(Length(s), Length(ROOT_RANK)) /\ Delivered(s, sendbuf[s + 1]))'
    BY <1>1, <1>2, <1>3, <1>4 DEF PackedOK, Delivered, Fits
  <2>3. sendbuf \in Seq(Seq(Values)) /\ Len(sendbuf) <= dim.count
    BY <1>1 DEF PackedOK
  <2> QED BY <1>2, <1>3, <2>1, <2>2, <2>3 DEF PackedOK
<1>13. FieldsOK'
  <2>1. \A s \in Ranks : pc'[s] # "work" /\ (IsLong(s) /\ Written(s, field[s]))'
    BY <1>2, <1>3, <1>8, <1>10 DEF Written
  <2>2. \A s \in Clients : pc'[s] = "done" /\ sent'[s] = field'[s]
    BY <1>3, <1>4, <1>6, <1>7, <1>9
  <2> QED BY <1>2, <1>9, <2>1, <2>2 DEF FieldsOK
<1>14. TileOK'
  <2>1. tile' \in Seq(Values) /\ Len(tile') = dim.extent
    <3>1. TileExtent = dim.extent
      BY <1>1, <1>5, <1>10, SubtilesLie DEF TileExtent
    <3>2. Uninitialized \in Values
      BY DEF Uninitialized, Value, Values, Nobody
    <3> QED BY <1>3, <1>4, <3>1, <3>2
  <2>2. placed' = 0
    BY <1>1, <1>3 DEF TileOK
  <2>3. \A s \in Ranks : ~ (s < 0)
    BY <1>4
  <2>4. placed' \in 0..dim'.count /\ dim'.extent = dim.extent
    BY <1>2, <1>4, <2>2
  <2>5. \A s \in Ranks : pc'[s] \in {"place", "done"} /\ sent'[s] = field'[s]
    BY <1>3, <1>8, <1>9
  <2>6. \A s \in Ranks : ~ (s < placed')
    BY <2>2, <2>3
  <2> QED BY <1>2, <1>7, <2>1, <2>4, <2>5, <2>6 DEF TileOK
<1> QED BY <1>2, <1>11, <1>12, <1>13, <1>14 DEF SInv

(***************************************************************************)
(* A subtile copied into the tile covers what its rank owns and nothing of *)
(* what the ranks before it own.                                           *)
(***************************************************************************)
LEMMA RootPlaces ==
  ASSUME SInv, PlaceSubtile
  PROVE  SInv'
<1>1. PartitionOK /\ PcOK /\ PackedOK /\ FieldsOK /\ TileOK
  BY DEF SInv
<1>2. /\ PartitionOK' /\ Ranks' = Ranks /\ Clients' = Clients
      /\ \A s \in Ranks : Length(s)' = Length(s) /\ Overlap(s)' = Overlap(s)
                          /\ (IsLong(s)' <=> IsLong(s)) /\ Share(s)' = Share(s)
      /\ dim' = dim /\ cut' = cut
  BY <1>1, PartitionStays DEF PlaceSubtile
<1>3. /\ dim.count \in Nat \ {0} /\ dim.extent \in Nat /\ ROOT_RANK \in Ranks
      /\ ROOT_RANK \notin Clients
      /\ \A s \in Ranks : s \in Nat /\ s < dim.count /\ (s = ROOT_RANK \/ s \in Clients)
      /\ \A s \in Clients : s \in Ranks /\ s # ROOT_RANK
      /\ \A s \in Nat : s < dim.count => s \in Ranks
  BY <1>1, RanksThere DEF Clients
<1>4. /\ pc[ROOT_RANK] = "place" /\ placed < dim.count /\ placed' = placed + 1
      /\ IF placed + 1 = dim.count THEN Goto(ROOT_RANK, "done") ELSE UNCHANGED pc
      /\ UNCHANGED <<sendbuf, scattered, field, sent>>
  BY DEF PlaceSubtile
<1>5. /\ \A s \in Ranks : pc[s] \in {"place", "done"} /\ sent[s] = field[s]
      /\ placed \in Nat /\ placed \in Ranks
      /\ tile \in Seq(Values) /\ Len(tile) = dim.extent
      /\ \A s \in Ranks : s < placed => \A p \in Share(s) : tile[p + 1] = Value(s, p)
  BY <1>1, <1>3, <1>4 DEF TileOK
<1>6. tile' = Assigned(Overlap(placed), sent[placed])
  BY <1>5 DEF PlaceSubtile, NextPlaced
<1>7. cut # ValueError
  BY <1>1, <1>3, <1>4 DEF PcOK
<1>8. /\ pc' \in [Ranks -> RootLabels \cup ClientLabels]
      /\ \A s \in Ranks : s # ROOT_RANK => pc'[s] = pc[s]
      /\ pc'[ROOT_RANK] = IF placed' = dim.count THEN "done" ELSE "place"
  <2>1. CASE placed + 1 = dim.count
    <3>1. "done" \in RootLabels \cup ClientLabels
      BY DEF RootLabels
    <3> QED BY <1>1, <1>3, <1>4, <2>1, <3>1, GotoEffect
  <2>2. CASE placed + 1 # dim.count
    BY <1>1, <1>4, <2>2 DEF PcOK
  <2> QED BY <2>1, <2>2
<1>9. \A s \in Ranks : IsLong(s) /\ Written(s, field[s])
  <2>1. \A s \in Ranks : pc[s] \in {"gather", "place", "done"}
    BY <1>5
  <2> QED BY <1>1, <2>1 DEF FieldsOK
<1>10. PcOK'
  <2>1. pc'[ROOT_RANK] \in RootLabels
    BY <1>8 DEF RootLabels
  <2>2. \A s \in Clients : pc'[s] \in ClientLabels
    BY <1>1, <1>3, <1>8 DEF PcOK
  <2> QED BY <1>2, <1>7, <1>8, <2>1, <2>2 DEF PcOK
<1>11. PackedOK'
  <2>1. Len(sendbuf) = dim.count
    BY <1>1, <1>4 DEF PackedOK
  <2>2. \A s \in Ranks : s < Len(sendbuf) =>
          (Fits(Length(s), Length(ROOT_RANK)) /\ Delivered(s, sendbuf[s + 1]))'
    BY <1>1, <1>2, <1>3, <1>4 DEF PackedOK, Delivered, Fits
  <2>3. sendbuf \in Seq(Seq(Values)) /\ Len(sendbuf) <= dim.count
    BY <1>1 DEF PackedOK
  <2> QED BY <1>2, <1>4, <2>1, <2>2, <2>3 DEF PackedOK
<1>12. \A s \in Ranks : pc'[s] \in {"place", "done"} /\ sent'[s] = field'[s]
  BY <1>4, <1>5, <1>8
<1>13. FieldsOK'
  <2>1. \A s \in Ranks : pc'[s] # "work" /\ (IsLong(s) /\ Written(s, field[s]))'
    BY <1>2, <1>4, <1>9, <1>12 DEF Written
  <2>2. sent' = [s \in Ranks |-> sent'[s]] /\ field' = [s \in Ranks |-> field'[s]]
    BY <1>1, <1>4 DEF FieldsOK
  <2>3. ASSUME NEW s \in Clients PROVE sent'[s] # Nothing => pc'[s] = "done" /\ sent'[s] = field'[s]
    BY <1>1, <1>3, <1>4, <1>8 DEF FieldsOK
  <2> QED BY <1>2, <2>1, <2>2, <2>3 DEF FieldsOK
<1> DEFINE slice == Overlap(placed)
           array == sent[placed]
<1>14. /\ slice.start \in Nat /\ Length(placed) \in Nat /\ slice.stop = slice.start + Length(placed)
       /\ array \in Seq(Values) /\ Len(array) = Length(placed)
       /\ \A k \in 1..Length(placed) : array[k] = Value(placed, slice.start + k - 1)
       /\ \A p \in Share(placed) : slice.start <= p /\ p < slice.stop
  BY <1>1, <1>5, <1>7, <1>9, SubtilesLie DEF Written
<1>15. \A s \in Ranks : \A p \in Share(s) : p \in Nat /\ p < dim.extent
  BY <1>1, <1>7, SubtilesLie
<1>16. \A s \in Ranks : s < placed => \A p \in Share(s) : p < slice.start
  BY <1>1, <1>5, <1>7, SubtilesLie
<1> HIDE DEF slice, array
<1>17. tile' = [k \in 1..dim.extent |->
                  IF (k - 1) \in slice.start..(slice.stop - 1) /\ k - slice.start <= Len(array)
                  THEN array[k - slice.start] ELSE tile[k]]
  BY <1>5, <1>6 DEF Assigned, SlicePoints, slice, array
<1>18. tile' \in Seq(Values) /\ Len(tile') = dim.extent
  <2>1. ASSUME NEW k \in 1..dim.extent PROVE tile'[k] \in Values
    <3>1. CASE (k - 1) \in slice.start..(slice.stop - 1) /\ k - slice.start <= Len(array)
      <4>1. k - slice.start \in 1..Len(array)
        BY <1>3, <1>14, <3>1
      <4>2. array[k - slice.start] \in Values
        BY <1>14, <4>1
      <4> QED BY <1>17, <3>1, <4>2
    <3>2. CASE ~ ((k - 1) \in slice.start..(slice.stop - 1) /\ k - slice.start <= Len(array))
      <4>1. tile[k] \in Values
        BY <1>5
      <4> QED BY <1>17, <3>2, <4>1
    <3> QED BY <3>1, <3>2
  <2>2. tile' = [k \in 1..dim.extent |-> tile'[k]]
    BY <1>17
  <2>3. tile' \in [1..dim.extent -> Values]
    BY <2>1, <2>2
  <2> QED BY <1>3, <2>3
<1>19. ASSUME NEW s \in Ranks, s < placed + 1, NEW p \in Share(s), NEW k \in Int, k = p + 1
       PROVE  tile'[k] = Value(s, p)
  <2>1. p \in Nat /\ k \in 1..dim.extent /\ k - 1 = p /\ s \in Nat
    BY <1>3, <1>15, <1>19
  <2>2. tile'[k] = IF p \in slice.start..(slice.stop - 1) /\ k - slice.start <= Len(array)
                   THEN array[k - slice.start] ELSE tile[k]
    BY <1>17, <2>1
  <2>3. CASE s < placed
    <3>1. p < slice.start
      BY <1>16, <2>3
    <3>2. ~ (p \in slice.start..(slice.stop - 1))
      BY <1>14, <2>1, <3>1
    <3> QED BY <1>5, <1>19, <2>2, <2>3, <3>2
  <2>4. CASE s = placed
    <3>1. slice.start <= p /\ p < slice.stop
      BY <1>14, <2>4
    <3>2. k - slice.start \in 1..Length(placed) /\ p \in slice.start..(slice.stop - 1)
          /\ slice.start + (k - slice.start) - 1 = p
      <4> DEFINE a == slice.start
                 z == slice.stop
                 n == Length(placed)
      <4>1. a \in Nat /\ n \in Nat /\ z = a + n
        BY <1>14
      <4>2. p \in Nat /\ k = p + 1 /\ a <= p /\ p < z
        BY <1>19, <2>1, <3>1
      <4> HIDE DEF a, z, n
      <4>3. k - a \in 1..n /\ p \in a..(z - 1) /\ a + (k - a) - 1 = p
        BY <4>1, <4>2
      <4> QED BY <4>3 DEF a, z, n
    <3>3. array[k - slice.start] = Value(placed, slice.start + (k - slice.start) - 1)
      BY <1>14, <3>2
    <3>4. k - slice.start <= Len(array)
      BY <1>14, <3>2
    <3> QED BY <2>2, <2>4, <3>2, <3>3, <3>4
  <2> QED BY <1>5, <1>19, <2>1, <2>3, <2>4
<1>20. TileOK'
  <2>1. placed' \in 0..dim'.count
    BY <1>2, <1>3, <1>4, <1>5
  <2>2. \A s \in Ranks' : s < placed' => \A p \in Share(s)' : tile'[p + 1] = Value(s, p)
    BY <1>2, <1>4, <1>15, <1>19
  <2>3. pc'[ROOT_RANK] \in {"place", "done"} /\ (pc'[ROOT_RANK] = "done" => placed' = dim.count)
    BY <1>8
  <2> QED BY <1>2, <1>12, <1>18, <2>1, <2>2, <2>3 DEF TileOK
<1> QED BY <1>2, <1>10, <1>11, <1>13, <1>20 DEF SInv

LEMMA ScatterStutters ==
  ASSUME SInv, UNCHANGED vars
  PROVE  SInv'
<1>1. UNCHANGED <<dim, cut, slices, pc, sendbuf, scattered, field, sent, placed, tile>>
  BY DEF vars
<1>2. /\ PartitionOK' /\ Ranks' = Ranks /\ Clients' = Clients
      /\ \A s \in Ranks : Length(s)' = Length(s) /\ Overlap(s)' = Overlap(s)
                          /\ (IsLong(s)' <=> IsLong(s)) /\ Share(s)' = Share(s)
  BY <1>1, PartitionStays DEF SInv, partition
<1>3. ROOT_RANK \in Ranks
  BY RanksThere DEF SInv
<1>4. PcOK' /\ TileOK'
  BY <1>1, <1>2 DEF SInv, PcOK, TileOK
<1>5. PackedOK'
  BY <1>1, <1>2, <1>3 DEF SInv, PackedOK, Delivered
<1>6. FieldsOK'
  BY <1>1, <1>2, <1>3 DEF SInv, FieldsOK, Delivered, Written
<1> QED BY <1>2, <1>4, <1>5, <1>6 DEF SInv

-----------------------------------------------------------------------------
(* What scatter and gather make of the tile, whatever its dimension.       *)

(***************************************************************************)
(* Along every dimension and in every interleaving of the ranks:           *)
(* Communicator.scatter completes only where every subtile is as long as   *)
(* the root's; what it hands to a rank, and what that rank makes of it, is *)
(* the part of the tile its slice covers; and the copies of                *)
(* Communicator.gather made so far keep the points of their owners.        *)
(***************************************************************************)
THEOREM ScatterGatherInvariant == Spec => []SInv
<1>1. Init => SInv
  BY ScatterStarts
<1>2. SInv /\ [Next]_vars => SInv'
  <2> SUFFICES ASSUME SInv, [Next]_vars PROVE SInv'
    OBVIOUS
  <2>1. ROOT_RANK \in Ranks
    BY RanksThere DEF SInv
  <2>2. CASE BroadcastMetadata
    BY <2>1, <2>2, MetadataStep
  <2>3. CASE PackRow
    BY <2>3, PackStep
  <2>4. CASE PackRaises \/ RootScatter
    BY <2>4, RootScatters
  <2>5. CASE RootGather
    BY <2>5, RootGathers
  <2>6. CASE PlaceSubtile
    BY <2>6, RootPlaces
  <2>7. ASSUME NEW r \in Ranks, ReceiveMetadata(r) PROVE SInv'
    BY <2>7, MetadataStep
  <2>8. ASSUME NEW r \in Ranks, ClientScatter(r) PROVE SInv'
    BY <2>8, ClientReceives
  <2>9. ASSUME NEW r \in Ranks, Work(r) PROVE SInv'
    BY <2>9, RankWorks
  <2>10. ASSUME NEW r \in Ranks, ClientGather(r) PROVE SInv'
    BY <2>10, ClientGathers
  <2>11. CASE UNCHANGED vars
    BY <2>11, ScatterStutters
  <2> QED BY <2>2, <2>3, <2>4, <2>5, <2>6, <2>7, <2>8, <2>9, <2>10, <2>11
          DEF Next, RootStep, RankStep
<1> QED BY <1>1, <1>2, PTL DEF Spec

(***************************************************************************)
(* A rank that has left scatter holds exactly the part of the tile its     *)
(* slice covers, the interface points shared with its neighbours too:      *)
(* scatter_3d slices the root's array by subtile_slice(overlap=True).      *)
(***************************************************************************)
THEOREM EveryRankGetsItsPart == Spec => []ScatterDelivers
<1>1. SInv => ScatterDelivers
  <2> SUFFICES ASSUME SInv, NEW r \in Ranks, pc[r] \in {"work", "gather", "place", "done"}
               PROVE  /\ Len(field[r]) = Length(r)
                      /\ \A k \in DOMAIN field[r] : field[r][k].at = Overlap(r).start + k - 1
    BY DEF ScatterDelivers
  <2> DEFINE array == field[r]
             D == Values
  <2>1. IsLong(r) /\ (Delivered(r, array) \/ Written(r, array))
    BY DEF SInv, FieldsOK
  <2>2. array \in Seq(D) /\ Len(array) = Length(r)
    BY <2>1 DEF Delivered, Written, IsLong
  <2>3. \A k \in 1..Length(r) : array[k].at = Overlap(r).start + k - 1
    BY <2>1, ValueAt DEF Delivered, Written
  <2> HIDE DEF array, D
  <2>4. DOMAIN array = 1..Length(r)
    BY <2>2
  <2> QED BY <2>2, <2>3, <2>4 DEF array
<1> QED BY <1>1, ScatterGatherInvariant, PTL

(***************************************************************************)
(* The tile Communicator.gather ends with has the extent of the one that   *)
(* was scattered, and each of its points comes from the rank that owns it, *)
(* on the interfaces two ranks have computed the one behind.               *)
(***************************************************************************)
THEOREM EveryPointComesFromItsOwner == Spec => []GatherKeepsTheOwners
<1>1. SInv => GatherKeepsTheOwners
  <2> SUFFICES ASSUME SInv, pc[ROOT_RANK] = "done"
               PROVE  /\ Len(tile) = dim.extent
                      /\ \A r \in Ranks : \A p \in Share(r) : tile[p + 1] = Value(r, p)
    BY DEF GatherKeepsTheOwners, Share
  <2>1. \A r \in Ranks : r < dim.count
    BY RanksThere DEF SInv
  <2> QED BY <2>1 DEF SInv, TileOK
<1> QED BY <1>1, ScatterGatherInvariant, PTL

-----------------------------------------------------------------------------
(* A rank is a tile, a row and a column.                                   *)

IsLayout(l) == l \in (Nat \ {0}) \X (Nat \ {0})

RankAt(l, t, j, i) == (t * TileRanks(l)) + ((j * l[2]) + i)

LEMMA DivMod ==
  ASSUME NEW a \in Int, NEW c \in Nat \ {0}
  PROVE  /\ a \div c \in Int /\ a % c \in Nat /\ a % c < c
         /\ a = ((a \div c) * c) + (a % c)
  BY SMT

(* Of two multiples of a number the greater is greater by that number at least. *)
LEMMA ProductGrows ==
  ASSUME NEW a \in Int, NEW b \in Int, NEW c \in Nat \ {0}, a < b
  PROVE  (a * c) + c <= b * c
<1> DEFINE d == b - a - 1
<1>1. d \in Nat
  OBVIOUS
<1>2. d * c \in Nat
  <2> HIDE DEF d
  <2> QED BY <1>1
<1>3. b = a + 1 + d
  OBVIOUS
<1> HIDE DEF d
<1> QED BY <1>1, <1>2, <1>3

LEMMA DivModUnique ==
  ASSUME NEW q \in Int, NEW m \in Nat, NEW c \in Nat \ {0}, m < c
  PROVE  ((q * c) + m) \div c = q /\ ((q * c) + m) % c = m
<1> DEFINE a == (q * c) + m
           p == a \div c
           r == a % c
<1>1. a \in Int
  BY SMT
<1>2. p \in Int /\ r \in Nat /\ r < c /\ a = (p * c) + r
  BY <1>1, DivMod
<1>3. q * c \in Int /\ p * c \in Int
  <2> HIDE DEF p
  <2> QED BY <1>2
<1>4. ~ (p < q)
  BY <1>2, <1>3, ProductGrows
<1>5. ~ (q < p)
  BY <1>2, <1>3, ProductGrows
<1>6. p = q
  <2> HIDE DEF p
  <2> QED BY <1>2, <1>4, <1>5
<1>7. r = m
  <2> HIDE DEF p, r
  <2> QED BY <1>2, <1>3, <1>6
<1> QED BY <1>6, <1>7

LEMMA LayoutIs ==
  ASSUME NEW l, IsLayout(l)
  PROVE  /\ l[1] \in Nat \ {0} /\ l[2] \in Nat \ {0} /\ l = <<l[1], l[2]>>
         /\ TileRanks(l) = l[1] * l[2] /\ TileRanks(l) \in Nat \ {0}
<1>1. l[1] \in Nat \ {0} /\ l[2] \in Nat \ {0} /\ l = <<l[1], l[2]>>
  BY DEF IsLayout
<1> DEFINE a == l[1]
           b == l[2]
<1> HIDE DEF a, b
<1>2. a \in Nat \ {0} /\ b \in Nat \ {0}
  BY <1>1 DEF a, b
<1>3. a * b \in Nat \ {0}
  BY <1>2
<1> QED BY <1>1, <1>3 DEF TileRanks, a, b

(* The numbers of the ranks of a tile. *)
LEMMA WithinTile ==
  ASSUME NEW l, IsLayout(l), NEW j \in 0..(l[1] - 1), NEW i \in 0..(l[2] - 1)
  PROVE  (j * l[2]) + i \in Nat /\ (j * l[2]) + i < TileRanks(l)
<1> DEFINE a == l[1]
           b == l[2]
<1>1. a \in Nat \ {0} /\ b \in Nat \ {0} /\ TileRanks(l) = a * b
      /\ j \in Nat /\ j < a /\ i \in Nat /\ i < b
  BY LayoutIs
<1> HIDE DEF a, b
<1>2. (j * b) + b <= a * b /\ j * b \in Nat /\ a * b \in Int
  BY <1>1, ProductGrows
<1>3. (j * b) + i \in Nat /\ (j * b) + i < TileRanks(l)
  BY <1>1, <1>2
<1> QED BY <1>3 DEF b

(* The rank r sits on tile t, in row j and column i of its subtiles. *)
IsAt(l, r, t, j, i) ==
  /\ r \in Int
  /\ TileIndex(r, l) = t
  /\ SubtileIndex(r, l)[1] = j
  /\ SubtileIndex(r, l)[2] = i

LEMMA ThePlaceOf ==
  ASSUME NEW l, IsLayout(l), NEW t \in Int, NEW j \in 0..(l[1] - 1), NEW i \in 0..(l[2] - 1)
  PROVE  /\ RankAt(l, t, j, i) \in Int
         /\ TileIndex(RankAt(l, t, j, i), l) = t
         /\ RankAt(l, t, j, i) % TileRanks(l) = (j * l[2]) + i
         /\ SubtileIndex(RankAt(l, t, j, i), l)[1] = j
         /\ SubtileIndex(RankAt(l, t, j, i), l)[2] = i
<1> DEFINE T == TileRanks(l)
           b == l[2]
           w == (j * l[2]) + i
<1>1. T \in Nat \ {0} /\ b \in Nat \ {0} /\ w \in Nat /\ w < T
      /\ j \in Int /\ i \in Nat /\ i < b
  BY LayoutIs, WithinTile
<1>2. RankAt(l, t, j, i) = (t * T) + w
  BY DEF RankAt
<1>3. w \div b = j /\ w % b = i
  BY <1>1, DivModUnique
<1> HIDE DEF T, w
<1>4. (t * T) + w \in Int
  BY <1>1
<1>5. ((t * T) + w) \div T = t /\ ((t * T) + w) % T = w
  BY <1>1, DivModUnique
<1> QED BY <1>2, <1>3, <1>4, <1>5 DEF TileIndex, SubtileIndex, T, w

LEMMA EveryRankIsAPlace ==
  ASSUME NEW l, IsLayout(l), NEW r \in Int
  PROVE  \E t \in Int, j \in 0..(l[1] - 1), i \in 0..(l[2] - 1) : r = RankAt(l, t, j, i)
<1> DEFINE T == TileRanks(l)
           b == l[2]
           w == r % T
           t == r \div T
           j == w \div b
           i == w % b
<1>1. T \in Nat \ {0} /\ b \in Nat \ {0} /\ l[1] \in Nat \ {0} /\ T = l[1] * b
  BY LayoutIs
<1>2. t \in Int /\ w \in Nat /\ w < T /\ r = (t * T) + w
  <2> HIDE DEF T
  <2> QED BY <1>1, DivMod
<1> HIDE DEF T, w, t
<1>3. j \in Int /\ i \in Nat /\ i < b /\ w = (j * b) + i
  <2> HIDE DEF b
  <2> QED BY <1>1, <1>2, DivMod
<1> HIDE DEF b, j, i
<1>4. ~ (j < 0)
  <2> SUFFICES ASSUME j < 0 PROVE FALSE
    OBVIOUS
  <2>1. (j * b) + b <= 0 * b /\ j * b \in Int
    BY <1>1, <1>3, ProductGrows
  <2> QED BY <1>1, <1>2, <1>3, <2>1
<1>5. ~ (l[1] <= j)
  <2> SUFFICES ASSUME l[1] <= j PROVE FALSE
    OBVIOUS
  <2>1. l[1] * b <= j * b /\ j * b \in Int /\ l[1] * b \in Int
    <3>1. l[1] = j \/ (l[1] * b) + b <= j * b
      BY <1>1, <1>3, ProductGrows
    <3> QED BY <1>1, <1>3, <3>1
  <2> QED BY <1>1, <1>2, <1>3, <2>1
<1>6. j \in 0..(l[1] - 1) /\ i \in 0..(l[2] - 1)
  BY <1>1, <1>3, <1>4, <1>5 DEF b
<1>7. r = RankAt(l, t, j, i)
  BY <1>2, <1>3 DEF RankAt, T, b
<1> QED BY <1>2, <1>6, <1>7

-----------------------------------------------------------------------------
(* A doubly periodic tile.                                                 *)

(* A rank of one tile lies where its number says. *)
LEMMA OnTheEdges ==
  ASSUME NEW l, IsLayout(l), NEW t \in Int, NEW j \in 0..(l[1] - 1), NEW i \in 0..(l[2] - 1)
  PROVE  /\ OnTileLeft(RankAt(l, t, j, i), l) <=> i = 0
         /\ OnTileRight(RankAt(l, t, j, i), l) <=> i = l[2] - 1
         /\ OnTileTop(RankAt(l, t, j, i), l) <=> j = l[1] - 1
         /\ OnTileBottom(RankAt(l, t, j, i), l) <=> j = 0
<1> DEFINE r == RankAt(l, t, j, i)
<1>1. SubtileIndex(r, l)[1] = j /\ SubtileIndex(r, l)[2] = i
  BY ThePlaceOf
<1> HIDE DEF r
<1>2. /\ OnTileLeft(r, l) <=> i = 0
      /\ OnTileRight(r, l) <=> i = l[2] - 1
      /\ OnTileTop(r, l) <=> j = l[1] - 1
      /\ OnTileBottom(r, l) <=> j = 0
  BY <1>1 DEF OnTileLeft, OnTileRight, OnTileTop, OnTileBottom
<1> QED BY <1>2 DEF r

(* One step along a row or column, around the tile. *)
Back(k, count) == IF k = 0 THEN count - 1 ELSE k - 1
On(k, count)   == IF k = count - 1 THEN 0 ELSE k + 1

LEMMA TileEdgesLead ==
  ASSUME NEW l, IsLayout(l), NEW t \in Int, NEW j \in 0..(l[1] - 1), NEW i \in 0..(l[2] - 1)
  PROVE  /\ TileLeft(RankAt(l, t, j, i), l) = Boundary(RankAt(l, t, j, Back(i, l[2])), 0)
         /\ TileRight(RankAt(l, t, j, i), l) = Boundary(RankAt(l, t, j, On(i, l[2])), 0)
         /\ TileTop(RankAt(l, t, j, i), l) = Boundary(RankAt(l, t, On(j, l[1]), i), 0)
         /\ TileBottom(RankAt(l, t, j, i), l) = Boundary(RankAt(l, t, Back(j, l[1]), i), 0)
<1> DEFINE a == l[1]
           b == l[2]
           T == TileRanks(l)
           r == RankAt(l, t, j, i)
<1>1. a \in Nat \ {0} /\ b \in Nat \ {0} /\ T = a * b /\ T \in Nat \ {0} /\ j \in 0..(a - 1) /\ i \in 0..(b - 1)
  BY LayoutIs
<1>2. /\ OnTileLeft(r, l) <=> i = 0
      /\ OnTileRight(r, l) <=> i = b - 1
      /\ OnTileTop(r, l) <=> j = a - 1
      /\ OnTileBottom(r, l) <=> j = 0
  BY OnTheEdges
<1>3. \A k, h : RankAt(l, t, k, h) = (t * T) + ((k * b) + h)
  BY DEF RankAt
<1>4. r = (t * T) + ((j * b) + i)
  BY <1>3
<1> HIDE DEF a, b, T, r
<1> DEFINE root == t * T
           row == j * b
<1>5. root \in Int /\ row \in Int /\ (j - 1) * b = row - b /\ (j + 1) * b = row + b /\ 0 * b = 0
  BY <1>1
<1>6. /\ RankAt(l, t, j, Back(i, b)) = IF i = 0 THEN r + b - 1 ELSE r - 1
      /\ RankAt(l, t, j, On(i, b)) = IF i = b - 1 THEN r - b + 1 ELSE r + 1
  <2> HIDE DEF root, row
  <2>1. \A h : RankAt(l, t, j, h) = root + (row + h)
    BY <1>3 DEF root, row
  <2>2. r = root + (row + i)
    BY <1>4 DEF root, row
  <2> QED BY <1>1, <1>5, <2>1, <2>2 DEF Back, On
<1>7. (a - 1) * b \in Int
  BY <1>1
<1>8. /\ RankAt(l, t, On(j, a), i) = IF j = a - 1 THEN r - ((a - 1) * b) ELSE r + b
      /\ RankAt(l, t, Back(j, a), i) = IF j = 0 THEN r + ((a - 1) * b) ELSE r - b
  <2> DEFINE last == (a - 1) * b
  <2>1. /\ RankAt(l, t, 0, i) = root + i
        /\ RankAt(l, t, a - 1, i) = root + (last + i)
        /\ RankAt(l, t, j - 1, i) = root + ((row - b) + i)
        /\ RankAt(l, t, j + 1, i) = root + ((row + b) + i)
    BY <1>1, <1>3, <1>5
  <2>2. r = root + (row + i) /\ last \in Int /\ (j = a - 1 => row = last) /\ (j = 0 => row = 0)
    BY <1>4, <1>5, <1>7
  <2> HIDE DEF last, root, row
  <2>3. /\ RankAt(l, t, On(j, a), i) = IF j = a - 1 THEN r - last ELSE r + b
        /\ RankAt(l, t, Back(j, a), i) = IF j = 0 THEN r + last ELSE r - b
    BY <1>1, <1>5, <2>1, <2>2 DEF Back, On
  <2> QED BY <2>3 DEF last
<1>9. /\ TileLeft(r, l) = Boundary(RankAt(l, t, j, Back(i, b)), 0)
      /\ TileRight(r, l) = Boundary(RankAt(l, t, j, On(i, b)), 0)
      /\ TileTop(r, l) = Boundary(RankAt(l, t, On(j, a), i), 0)
      /\ TileBottom(r, l) = Boundary(RankAt(l, t, Back(j, a), i), 0)
  BY <1>2, <1>6, <1>8, Zenon DEF TileLeft, TileRight, TileTop, TileBottom, a, b
<1> QED BY <1>9 DEF a, b, r

(* The ranks of the first tiles are the first ranks. *)
LEMMA RanksOfTiles ==
  ASSUME NEW l, IsLayout(l), NEW t \in Int, NEW j \in 0..(l[1] - 1), NEW i \in 0..(l[2] - 1),
         NEW m \in Nat
  PROVE  RankAt(l, t, j, i) \in 0..((m * TileRanks(l)) - 1) <=> t \in 0..(m - 1)
<1> DEFINE T == TileRanks(l)
           w == (j * l[2]) + i
           root == t * T
           end  == m * T
           r == RankAt(l, t, j, i)
<1>1. T \in Nat \ {0} /\ w \in Nat /\ w < T
  BY LayoutIs, WithinTile
<1>2. r = root + w
  BY DEF RankAt
<1> HIDE DEF T, w, r
<1>3. root \in Int /\ end \in Nat /\ 0 * T = 0
  BY <1>1
<1>4. t < m => root + T <= end
  BY <1>1, ProductGrows
<1>5. m <= t => end <= root
  <2>1. m < t => end + T <= root
    BY <1>1, ProductGrows
  <2> QED BY <1>1, <1>3, <2>1
<1>6. t < 0 => root + T <= 0
  BY <1>1, <1>3, ProductGrows
<1>7. 0 <= t => 0 <= root
  <2>1. 0 < t => 0 + T <= root
    BY <1>1, <1>3, ProductGrows
  <2> QED BY <1>1, <1>3, <2>1
<1> HIDE DEF root, end
<1>8. r \in 0..(end - 1) <=> t \in 0..(m - 1)
  BY <1>1, <1>2, <1>3, <1>4, <1>5, <1>6, <1>7
<1> QED BY <1>8 DEF r, end, T

Types == Edges \cup Corners

(* The row and the column where a boundary of the tile leads. *)
Across(type, k, count) ==
  IF type \in {"N", "NW", "NE"} THEN On(k, count)
  ELSE IF type \in {"S", "SW", "SE"} THEN Back(k, count) ELSE k
Along(type, k, count) ==
  IF type \in {"E", "NE", "SE"} THEN On(k, count)
  ELSE IF type \in {"W", "NW", "SW"} THEN Back(k, count) ELSE k

LEMMA AroundTheTile ==
  ASSUME NEW count \in Nat \ {0}, NEW k \in 0..(count - 1)
  PROVE  Back(k, count) \in 0..(count - 1) /\ On(k, count) \in 0..(count - 1)
  BY DEF Back, On

LEMMA TileBoundaryLeads ==
  ASSUME NEW l, IsLayout(l), NEW t \in Int, NEW j \in 0..(l[1] - 1), NEW i \in 0..(l[2] - 1),
         NEW type \in Types
  PROVE  TileBoundary(type, RankAt(l, t, j, i), l)
           = Boundary(RankAt(l, t, Across(type, j, l[1]), Along(type, i, l[2])), 0)
<1> DEFINE At(k, h) == RankAt(l, t, k, h)
           r == At(j, i)
           west == Back(i, l[2])
           east == On(i, l[2])
           south == Back(j, l[1])
           north == On(j, l[1])
<1>1. /\ west \in 0..(l[2] - 1) /\ east \in 0..(l[2] - 1)
      /\ south \in 0..(l[1] - 1) /\ north \in 0..(l[1] - 1)
  BY AroundTheTile, LayoutIs
<1>2. /\ TileLeft(r, l) = Boundary(At(j, west), 0) /\ TileRight(r, l) = Boundary(At(j, east), 0)
      /\ TileTop(r, l) = Boundary(At(north, i), 0) /\ TileBottom(r, l) = Boundary(At(south, i), 0)
  BY TileEdgesLead
<1>3. \A h \in 0..(l[2] - 1) : /\ TileTop(At(j, h), l) = Boundary(At(north, h), 0)
                               /\ TileBottom(At(j, h), l) = Boundary(At(south, h), 0)
  BY TileEdgesLead
<1>4. \A to : Boundary(to, 0).to = to /\ Boundary(to, 0).rotations = 0
  BY DEF Boundary
<1> HIDE DEF At, r, west, east, south, north
<1>5. TileBoundary(type, r, l) =
        CASE type = "W"  -> Boundary(At(j, west), 0)
          [] type = "E"  -> Boundary(At(j, east), 0)
          [] type = "N"  -> Boundary(At(north, i), 0)
          [] type = "S"  -> Boundary(At(south, i), 0)
          [] type = "NW" -> Boundary(At(north, west), 0)
          [] type = "NE" -> Boundary(At(north, east), 0)
          [] type = "SW" -> Boundary(At(south, west), 0)
          [] type = "SE" -> Boundary(At(south, east), 0)
  <2>1. \A h : CornerVia(Boundary(At(j, h), 0), Boundary(At(north, h), 0)) = Boundary(At(north, h), 0)
               /\ CornerVia(Boundary(At(j, h), 0), Boundary(At(south, h), 0)) = Boundary(At(south, h), 0)
    BY <1>4 DEF CornerVia
  <2>2. /\ TileTop(At(j, west), l) = Boundary(At(north, west), 0)
        /\ TileTop(At(j, east), l) = Boundary(At(north, east), 0)
        /\ TileBottom(At(j, west), l) = Boundary(At(south, west), 0)
        /\ TileBottom(At(j, east), l) = Boundary(At(south, east), 0)
    BY <1>1, <1>3
  <2> QED BY <1>2, <1>4, <2>1, <2>2 DEF TileBoundary
<1>6. /\ Across(type, j, l[1]) = CASE type \in {"N", "NW", "NE"} -> north
                                   [] type \in {"S", "SW", "SE"} -> south
                                   [] type \in {"W", "E"} -> j
      /\ Along(type, i, l[2]) = CASE type \in {"E", "NE", "SE"} -> east
                                  [] type \in {"W", "NW", "SW"} -> west
                                  [] type \in {"N", "S"} -> i
  BY DEF Across, Along, north, south, east, west, Types, Edges, Corners
<1>7. TileBoundary(type, r, l) = Boundary(At(Across(type, j, l[1]), Along(type, i, l[2])), 0)
  BY <1>5, <1>6 DEF Types, Edges, Corners
<1> QED BY <1>7 DEF At, r

-----------------------------------------------------------------------------
(* The cubed sphere: ranks turned, and the edges a rank meets.             *)

IsSquare(l, n) == n \in Nat \ {0} /\ l = <<n, n>>

LEMMA SquareIs ==
  ASSUME NEW l, NEW n, IsSquare(l, n)
  PROVE  IsLayout(l) /\ l[1] = n /\ l[2] = n /\ n \in Nat \ {0} /\ TileRanks(l) = n * n
         /\ n * n \in Nat \ {0}
<1>1. n * n \in Nat \ {0}
  BY DEF IsSquare
<1> QED BY <1>1 DEF IsSquare, IsLayout, TileRanks

(* Row and column of a number on a tile, and back. *)
LEMMA CellOf ==
  ASSUME NEW n \in Nat \ {0}, NEW q \in 0..((n * n) - 1)
  PROVE  /\ q \div n \in 0..(n - 1) /\ q % n \in 0..(n - 1)
         /\ q = ((q \div n) * n) + (q % n)
<1> DEFINE j == q \div n
           i == q % n
           all == n * n
           row == j * n
<1>1. all \in Nat \ {0} /\ q \in Nat /\ q < all
  OBVIOUS
<1>2. j \in Int /\ i \in Nat /\ i < n /\ q = row + i
  BY DivMod
<1> HIDE DEF all, j, i
<1>3. row \in Int /\ 0 * n = 0
  BY <1>2
<1>4. j < 0 => row + n <= 0
  BY <1>2, <1>3, ProductGrows
<1>5. n <= j => all <= row
  <2>1. n < j => all + n <= row
    BY <1>2, ProductGrows DEF all
  <2> QED BY <1>1, <1>2, <1>3, <2>1 DEF all
<1> HIDE DEF row
<1>6. j \in 0..(n - 1) /\ i \in 0..(n - 1)
  BY <1>1, <1>2, <1>3, <1>4, <1>5
<1> QED BY <1>2, <1>6 DEF j, i, row

LEMMA CellAt ==
  ASSUME NEW n \in Nat \ {0}, NEW j \in 0..(n - 1), NEW i \in 0..(n - 1)
  PROVE  /\ (j * n) + i \in 0..((n * n) - 1)
         /\ ((j * n) + i) \div n = j /\ ((j * n) + i) % n = i
<1> DEFINE row == j * n
           all == n * n
<1>1. row + n <= all /\ row \in Nat /\ all \in Nat
  BY ProductGrows
<1>2. row + i \in 0..(all - 1)
  <2> HIDE DEF row, all
  <2> QED BY <1>1
<1>3. ((j * n) + i) \div n = j /\ ((j * n) + i) % n = i
  BY DivModUnique
<1> QED BY <1>2, <1>3 DEF row, all

LEMMA PositionIs ==
  ASSUME NEW entries, NEW q \in DOMAIN entries,
         \A p \in DOMAIN entries : entries[p] = entries[q] => p = q
  PROVE  Position(entries, entries[q]) = q
  BY DEF Position

LEMMA TurnedLeads ==
  ASSUME NEW l, NEW n, IsSquare(l, n), NEW t \in Int, NEW j \in 0..(n - 1), NEW i \in 0..(n - 1)
  PROVE  Turned(RankAt(l, t, j, i), l) = ((n - 1 - i) * n) + (n - 1 - j)
<1> DEFINE w == (j * n) + i
           x == ((n - 1 - i) * n) + j
           y == ((n - 1 - i) * n) + (n - 1 - j)
           cells == 0..((n * n) - 1)
           rotated == [q \in cells |-> ((q % n) * n) + (n - 1 - (q \div n))]
           flipped == [q \in cells |-> ((q \div n) * n) + (n - 1 - (q % n))]
<1>1. /\ IsLayout(l) /\ l[1] = n /\ l[2] = n /\ n \in Nat \ {0} /\ TileRanks(l) = n * n
      /\ n - 1 - i \in 0..(n - 1) /\ n - 1 - j \in 0..(n - 1)
  BY SquareIs
<1>2. RankAt(l, t, j, i) % TileRanks(l) = w
  BY <1>1, ThePlaceOf
<1>3. x \in cells /\ x \div n = n - 1 - i /\ x % n = j
  BY <1>1, CellAt
<1>4. y \in cells /\ y \div n = n - 1 - i /\ y % n = n - 1 - j
  BY <1>1, CellAt
<1>5. RotateRank(w, l) = x
  <2>1. rotated[x] = w
    <3> HIDE DEF x
    <3>1. rotated[x] = (j * n) + (n - 1 - (n - 1 - i))
      BY <1>3
    <3>2. n - 1 - (n - 1 - i) = i
      BY <1>1
    <3> QED BY <3>1, <3>2
  <2>2. ASSUME NEW p \in cells, rotated[p] = w PROVE p = x
    <3> DEFINE k == p \div n
               h == p % n
    <3>1. k \in 0..(n - 1) /\ h \in 0..(n - 1) /\ p = (k * n) + h
      BY <1>1, CellOf
    <3>2. (h * n) + (n - 1 - k) = (j * n) + i
      BY <2>2
    <3> HIDE DEF k, h
    <3>3. n - 1 - k \in 0..(n - 1)
      BY <1>1, <3>1
    <3>4. ((h * n) + (n - 1 - k)) \div n = h /\ ((h * n) + (n - 1 - k)) % n = n - 1 - k
      BY <1>1, <3>1, <3>3, CellAt
    <3>5. ((j * n) + i) \div n = j /\ ((j * n) + i) % n = i
      BY <1>1, CellAt
    <3>6. h = j /\ n - 1 - k = i
      BY <3>2, <3>4, <3>5
    <3>7. k = n - 1 - i
      BY <1>1, <3>1, <3>6
    <3> QED BY <3>1, <3>6, <3>7
  <2>3. RotateRank(w, l) = Position(rotated, w)
    BY <1>1 DEF RotateRank
  <2> HIDE DEF x, w
  <2>4. DOMAIN rotated = cells
    OBVIOUS
  <2> HIDE DEF rotated
  <2> QED BY <1>3, <2>1, <2>2, <2>3, <2>4, PositionIs
<1>6. FliplrRank(x, l) = y
  <2>1. flipped[y] = x
    <3> HIDE DEF y
    <3>1. flipped[y] = ((n - 1 - i) * n) + (n - 1 - (n - 1 - j))
      BY <1>4
    <3>2. n - 1 - (n - 1 - j) = j
      BY <1>1
    <3> QED BY <3>1, <3>2
  <2>2. ASSUME NEW p \in cells, flipped[p] = x PROVE p = y
    <3> DEFINE k == p \div n
               h == p % n
    <3>1. k \in 0..(n - 1) /\ h \in 0..(n - 1) /\ p = (k * n) + h
      BY <1>1, CellOf
    <3>2. (k * n) + (n - 1 - h) = ((n - 1 - i) * n) + j
      BY <2>2
    <3> HIDE DEF k, h
    <3>3. n - 1 - h \in 0..(n - 1)
      BY <1>1, <3>1
    <3>4. ((k * n) + (n - 1 - h)) \div n = k /\ ((k * n) + (n - 1 - h)) % n = n - 1 - h
      BY <1>1, <3>1, <3>3, CellAt
    <3>5. k = n - 1 - i /\ n - 1 - h = j
      BY <1>3, <3>2, <3>4
    <3>6. h = n - 1 - j
      BY <1>1, <3>1, <3>5
    <3> QED BY <3>1, <3>5, <3>6
  <2>3. FliplrRank(x, l) = Position(flipped, x)
    BY <1>1 DEF FliplrRank
  <2> HIDE DEF x, y
  <2>4. DOMAIN flipped = cells
    OBVIOUS
  <2> HIDE DEF flipped
  <2> QED BY <1>4, <2>1, <2>2, <2>3, <2>4, PositionIs
<1> QED BY <1>2, <1>5, <1>6 DEF Turned

(* A place on the sphere met by a boundary, and how the data is turned on the way. *)
Met(t, j, i, rotations) == [t |-> t, j |-> j, i |-> i, rotations |-> rotations]

ToTheWest(n, t, j, i) ==
  IF i > 0 THEN Met(t, j, i - 1, 0)
  ELSE IF IsEven(t) THEN Met(t - 2, n - 1, n - 1 - j, 1) ELSE Met(t - 1, j, n - 1, 0)

ToTheEast(n, t, j, i) ==
  IF i < n - 1 THEN Met(t, j, i + 1, 0)
  ELSE IF IsEven(t) THEN Met(t + 1, j, 0, 0) ELSE Met(t + 2, 0, n - 1 - j, 1)

ToTheNorth(n, t, j, i) ==
  IF j < n - 1 THEN Met(t, j + 1, i, 0)
  ELSE IF IsEven(t) THEN Met(t + 2, n - 1 - i, 0, 3) ELSE Met(t + 1, 0, i, 0)

ToTheSouth(n, t, j, i) ==
  IF j > 0 THEN Met(t, j - 1, i, 0)
  ELSE IF IsEven(t) THEN Met(t - 1, n - 1, i, 0) ELSE Met(t - 2, n - 1 - i, n - 1, 3)

Leads(l, m) == Boundary(RankAt(l, m.t, m.j, m.i), m.rotations)

LEMMA PlaceOnSphere ==
  ASSUME NEW l, NEW n, IsSquare(l, n), NEW t \in Int, NEW j \in 0..(n - 1), NEW i \in 0..(n - 1)
  PROVE  IsAt(l, RankAt(l, t, j, i), t, j, i)
<1>1. IsLayout(l) /\ l[1] = n /\ l[2] = n
  BY SquareIs
<1>2. j \in 0..(l[1] - 1) /\ i \in 0..(l[2] - 1)
  BY <1>1
<1> DEFINE r == RankAt(l, t, j, i)
<1>3. r \in Int /\ TileIndex(r, l) = t
  BY <1>1, <1>2, ThePlaceOf
<1>4. SubtileIndex(r, l)[1] = j
  BY <1>1, <1>2, ThePlaceOf
<1>5. SubtileIndex(r, l)[2] = i
  BY <1>1, <1>2, ThePlaceOf
<1> QED BY <1>3, <1>4, <1>5 DEF IsAt

LEMMA IndexIsAPair ==
  ASSUME NEW l, NEW r
  PROVE  SubtileIndex(r, l) = <<SubtileIndex(r, l)[1], SubtileIndex(r, l)[2]>>
  BY DEF SubtileIndex

LEMMA TilesOfSphere ==
  ASSUME NEW l, NEW n, IsSquare(l, n), NEW t \in Int, NEW j \in 0..(n - 1), NEW i \in 0..(n - 1)
  PROVE  /\ RankAt(l, t + 1, j, i) = RankAt(l, t, j, i) + TileRanks(l)
         /\ RankAt(l, t - 1, j, i) = RankAt(l, t, j, i) - TileRanks(l)
         /\ RankAt(l, t + 2, j, i) = RankAt(l, t, j, i) + (2 * TileRanks(l))
         /\ RankAt(l, t - 2, j, i) = RankAt(l, t, j, i) - (2 * TileRanks(l))
<1> DEFINE T == TileRanks(l)
           w == (j * l[2]) + i
           root == t * T
<1>1. T \in Nat \ {0} /\ w \in Int
  BY SquareIs
<1>2. \A u \in Int : RankAt(l, u, j, i) = (u * T) + w
  BY DEF RankAt
<1> HIDE DEF T, w
<1>3. /\ root \in Int /\ (t + 1) * T = root + T /\ (t - 1) * T = root - T
      /\ (t + 2) * T = root + (2 * T) /\ (t - 2) * T = root - (2 * T)
  BY <1>1
<1> HIDE DEF root
<1>4. /\ RankAt(l, t, j, i) = root + w
      /\ RankAt(l, t + 1, j, i) = (root + T) + w /\ RankAt(l, t - 1, j, i) = (root - T) + w
      /\ RankAt(l, t + 2, j, i) = (root + (2 * T)) + w
      /\ RankAt(l, t - 2, j, i) = (root - (2 * T)) + w
  BY <1>2, <1>3 DEF root
<1>5. /\ RankAt(l, t + 1, j, i) = RankAt(l, t, j, i) + T
      /\ RankAt(l, t - 1, j, i) = RankAt(l, t, j, i) - T
      /\ RankAt(l, t + 2, j, i) = RankAt(l, t, j, i) + (2 * T)
      /\ RankAt(l, t - 2, j, i) = RankAt(l, t, j, i) - (2 * T)
  BY <1>1, <1>3, <1>4
<1> QED BY <1>5 DEF T

LEMMA EdgesLead ==
  ASSUME NEW l, NEW n, IsSquare(l, n), NEW t \in Int, NEW j \in 0..(n - 1), NEW i \in 0..(n - 1)
  PROVE  /\ LeftEdge(RankAt(l, t, j, i), l) = Leads(l, ToTheWest(n, t, j, i))
         /\ RightEdge(RankAt(l, t, j, i), l) = Leads(l, ToTheEast(n, t, j, i))
         /\ TopEdge(RankAt(l, t, j, i), l) = Leads(l, ToTheNorth(n, t, j, i))
         /\ BottomEdge(RankAt(l, t, j, i), l) = Leads(l, ToTheSouth(n, t, j, i))
<1> DEFINE r == RankAt(l, t, j, i)
           T == TileRanks(l)
           back == ((n - 1 - i) * n) + (n - 1 - j)
<1>1. /\ IsLayout(l) /\ l[1] = n /\ l[2] = n /\ n \in Nat \ {0} /\ T \in Nat \ {0}
      /\ n - 1 - i \in 0..(n - 1) /\ n - 1 - j \in 0..(n - 1)
      /\ 0 \in 0..(n - 1) /\ n - 1 \in 0..(n - 1)
  BY SquareIs
<1>2. /\ OnTileLeft(r, l) <=> i = 0
      /\ OnTileRight(r, l) <=> i = n - 1
      /\ OnTileTop(r, l) <=> j = n - 1
      /\ OnTileBottom(r, l) <=> j = 0
  BY <1>1, OnTheEdges
<1>3. /\ TileLeft(r, l) = Boundary(RankAt(l, t, j, Back(i, n)), 0)
      /\ TileRight(r, l) = Boundary(RankAt(l, t, j, On(i, n)), 0)
      /\ TileTop(r, l) = Boundary(RankAt(l, t, On(j, n), i), 0)
      /\ TileBottom(r, l) = Boundary(RankAt(l, t, Back(j, n), i), 0)
  BY <1>1, TileEdgesLead
<1>4. TileIndex(r, l) = t /\ r \in Int
  <2>1. IsAt(l, RankAt(l, t, j, i), t, j, i)
    BY PlaceOnSphere
  <2> QED BY <2>1 DEF IsAt
<1>5. Turned(r, l) = back
  BY TurnedLeads
<1>6. TileRootRank(r - (2 * T), l) = (t - 2) * T /\ TileRootRank(r + (2 * T), l) = (t + 2) * T
  <2>1. RankAt(l, t - 2, j, i) = r - (2 * T) /\ RankAt(l, t + 2, j, i) = r + (2 * T)
    BY TilesOfSphere
  <2>0. t - 2 \in Int /\ t + 2 \in Int
    OBVIOUS
  <2>5. ASSUME NEW u \in Int PROVE TileIndex(RankAt(l, u, j, i), l) = u
    <3>1. IsAt(l, RankAt(l, u, j, i), u, j, i)
      BY PlaceOnSphere
    <3> QED BY <3>1 DEF IsAt
  <2>2. TileIndex(RankAt(l, t - 2, j, i), l) = t - 2
    BY <2>0, <2>5
  <2>3. TileIndex(RankAt(l, t + 2, j, i), l) = t + 2
    BY <2>0, <2>5
  <2> HIDE DEF r, T
  <2>4. TileRootRank(r - (2 * T), l) = T * (t - 2) /\ TileRootRank(r + (2 * T), l) = T * (t + 2)
    BY <2>1, <2>2, <2>3 DEF TileRootRank, TileIndex, T
  <2> QED BY <1>1, <2>4
<1>7. /\ RankAt(l, t - 2, n - 1, n - 1 - j) = ((t - 2) * T) + (((n - 1) * n) + (n - 1 - j))
      /\ \A u, k, h : RankAt(l, u, k, h) = (u * T) + ((k * n) + h)
  BY <1>1 DEF RankAt
<1>8. \A k, h \in 0..(n - 1) : /\ RankAt(l, t + 1, k, h) = RankAt(l, t, k, h) + T
                               /\ RankAt(l, t - 1, k, h) = RankAt(l, t, k, h) - T
                               /\ RankAt(l, t, k, h) \in Int
  <2> SUFFICES ASSUME NEW k \in 0..(n - 1), NEW h \in 0..(n - 1)
               PROVE  /\ RankAt(l, t + 1, k, h) = RankAt(l, t, k, h) + T
                      /\ RankAt(l, t - 1, k, h) = RankAt(l, t, k, h) - T
                      /\ RankAt(l, t, k, h) \in Int
    OBVIOUS
  <2> DEFINE a == t * T
             b == (k * n) + h
  <2>1. T \in Int /\ a \in Int /\ b \in Int
    BY <1>1
  <2>2. (t + 1) * T = a + T /\ (t - 1) * T = a - T
    <3> HIDE DEF T
    <3> QED BY <2>1
  <2>3. /\ RankAt(l, t, k, h) = a + b
        /\ RankAt(l, t + 1, k, h) = ((t + 1) * T) + b
        /\ RankAt(l, t - 1, k, h) = ((t - 1) * T) + b
    <3> HIDE DEF T
    <3> QED BY <1>7
  <2> HIDE DEF T, a, b
  <2> QED BY <2>1, <2>2, <2>3
<1>9. \A to \in Int : /\ Shift(Boundary(to, 0), T) = Boundary(to + T, 0)
                     /\ Shift(Boundary(to, 0), -T) = Boundary(to - T, 0)
  BY <1>1 DEF Shift, Boundary
<1> HIDE DEF r, T, back
<1>10. \A u, k, h, rotations : Leads(l, Met(u, k, h, rotations)) = Boundary(RankAt(l, u, k, h), rotations)
  BY DEF Leads, Met
<1>11. LeftEdge(r, l) = Leads(l, ToTheWest(n, t, j, i))
  <2>1. CASE i > 0
    BY <1>1, <1>2, <1>3, <1>10, <2>1 DEF LeftEdge, ToTheWest, Back
  <2>2. CASE i = 0 /\ IsEven(t)
    <3>1. back = ((n - 1) * n) + (n - 1 - j)
      BY <1>1, <2>2 DEF back
    <3>2. LeftEdge(r, l) = Boundary(((t - 2) * T) + back, 1)
      BY <1>2, <1>4, <1>5, <1>6, <2>2 DEF LeftEdge, T
    <3> QED BY <1>7, <1>10, <2>2, <3>1, <3>2 DEF ToTheWest
  <2>3. CASE i = 0 /\ ~IsEven(t)
    <3>1. LeftEdge(r, l) = Boundary(RankAt(l, t, j, n - 1) - T, 0)
      BY <1>1, <1>2, <1>3, <1>4, <1>8, <1>9, <2>3 DEF LeftEdge, Back, T
    <3>2. RankAt(l, t - 1, j, n - 1) = RankAt(l, t, j, n - 1) - T
      BY <1>1, <1>8
    <3> QED BY <1>10, <2>3, <3>1, <3>2 DEF ToTheWest
  <2> QED BY <1>1, <2>1, <2>2, <2>3
<1>12. RightEdge(r, l) = Leads(l, ToTheEast(n, t, j, i))
  <2>1. CASE i < n - 1
    BY <1>1, <1>2, <1>3, <1>10, <2>1 DEF RightEdge, ToTheEast, On
  <2>2. CASE i = n - 1 /\ IsEven(t)
    <3>1. RightEdge(r, l) = Boundary(RankAt(l, t, j, 0) + T, 0)
      BY <1>1, <1>2, <1>3, <1>4, <1>8, <1>9, <2>2 DEF RightEdge, On, T
    <3>2. RankAt(l, t + 1, j, 0) = RankAt(l, t, j, 0) + T
      BY <1>1, <1>8
    <3> QED BY <1>1, <1>10, <2>2, <3>1, <3>2 DEF ToTheEast
  <2>3. CASE i = n - 1 /\ ~IsEven(t)
    <3>1. back = (0 * n) + (n - 1 - j)
      BY <1>1, <2>3 DEF back
    <3>2. RightEdge(r, l) = Boundary(((t + 2) * T) + back, 1)
      BY <1>2, <1>4, <1>5, <1>6, <2>3 DEF RightEdge, T
    <3> QED BY <1>1, <1>7, <1>10, <2>3, <3>1, <3>2 DEF ToTheEast
  <2> QED BY <1>1, <2>1, <2>2, <2>3
<1>13. TopEdge(r, l) = Leads(l, ToTheNorth(n, t, j, i))
  <2>1. CASE j < n - 1
    BY <1>1, <1>2, <1>3, <1>10, <2>1 DEF TopEdge, ToTheNorth, On
  <2>2. CASE j = n - 1 /\ IsEven(t)
    <3>1. back = ((n - 1 - i) * n) + 0
      BY <1>1, <2>2 DEF back
    <3>2. TopEdge(r, l) = Boundary(((t + 2) * T) + back, 3)
      BY <1>2, <1>4, <1>5, <2>2 DEF TopEdge, T
    <3> QED BY <1>1, <1>7, <1>10, <2>2, <3>1, <3>2 DEF ToTheNorth
  <2>3. CASE j = n - 1 /\ ~IsEven(t)
    <3>1. TopEdge(r, l) = Boundary(RankAt(l, t, 0, i) + T, 0)
      BY <1>1, <1>2, <1>3, <1>4, <1>8, <1>9, <2>3 DEF TopEdge, On, T
    <3>2. RankAt(l, t + 1, 0, i) = RankAt(l, t, 0, i) + T
      BY <1>1, <1>8
    <3> QED BY <1>1, <1>10, <2>3, <3>1, <3>2 DEF ToTheNorth
  <2> QED BY <1>1, <2>1, <2>2, <2>3
<1>14. BottomEdge(r, l) = Leads(l, ToTheSouth(n, t, j, i))
  <2>1. CASE j > 0
    BY <1>1, <1>2, <1>3, <1>10, <2>1 DEF BottomEdge, ToTheSouth, Back
  <2>2. CASE j = 0 /\ IsEven(t)
    <3>1. BottomEdge(r, l) = Boundary(RankAt(l, t, n - 1, i) - T, 0)
      BY <1>1, <1>2, <1>3, <1>4, <1>8, <1>9, <2>2 DEF BottomEdge, Back, T
    <3>2. RankAt(l, t - 1, n - 1, i) = RankAt(l, t, n - 1, i) - T
      BY <1>1, <1>8
    <3> QED BY <1>10, <2>2, <3>1, <3>2 DEF ToTheSouth
  <2>3. CASE j = 0 /\ ~IsEven(t)
    <3>1. back = ((n - 1 - i) * n) + (n - 1)
      BY <1>1, <2>3 DEF back
    <3>2. BottomEdge(r, l) = Boundary(((t - 2) * T) + back, 3)
      BY <1>2, <1>4, <1>5, <2>3 DEF BottomEdge, T
    <3> QED BY <1>7, <1>10, <2>3, <3>1, <3>2 DEF ToTheSouth
  <2> QED BY <1>1, <2>1, <2>2, <2>3
<1> QED BY <1>11, <1>12, <1>13, <1>14 DEF r

ToTheNorthWest(n, t, j, i) ==
  IF i = 0 THEN IF IsEven(t) THEN Met(t - 2, n - 1, n - 2 - j, 1) ELSE Met(t - 1, j + 1, n - 1, 0)
  ELSE IF j < n - 1 THEN Met(t, j + 1, i - 1, 0)
  ELSE IF IsEven(t) THEN Met(t + 2, n - i, 0, 3) ELSE Met(t + 1, 0, i - 1, 0)

ToTheNorthEast(n, t, j, i) ==
  IF j = n - 1 THEN IF IsEven(t) THEN Met(t + 2, n - 2 - i, 0, 3) ELSE Met(t + 1, 0, i + 1, 0)
  ELSE IF i < n - 1 THEN Met(t, j + 1, i + 1, 0)
  ELSE IF IsEven(t) THEN Met(t + 1, j + 1, 0, 0) ELSE Met(t + 2, 0, n - 2 - j, 1)

ToTheSouthWest(n, t, j, i) ==
  IF j = 0 THEN IF IsEven(t) THEN Met(t - 1, n - 1, i - 1, 0) ELSE Met(t - 2, n - i, n - 1, 3)
  ELSE IF i > 0 THEN Met(t, j - 1, i - 1, 0)
  ELSE IF IsEven(t) THEN Met(t - 2, n - 1, n - j, 1) ELSE Met(t - 1, j - 1, n - 1, 0)

ToTheSouthEast(n, t, j, i) ==
  IF j = 0 THEN IF IsEven(t) THEN Met(t - 1, n - 1, i + 1, 0) ELSE Met(t - 2, n - 2 - i, n - 1, 3)
  ELSE IF i < n - 1 THEN Met(t, j - 1, i + 1, 0)
  ELSE IF IsEven(t) THEN Met(t + 1, j - 1, 0, 0) ELSE Met(t + 2, 0, n - j, 1)

Turn(m, rotations) == [m EXCEPT !.rotations = rotations + @]

IsMet(n, m) ==
  m.t \in Int /\ m.j \in 0..(n - 1) /\ m.i \in 0..(n - 1)
  /\ m = Met(m.t, m.j, m.i, m.rotations)

LEMMA MetIs ==
  ASSUME NEW n, NEW t \in Int, NEW j \in 0..(n - 1), NEW i \in 0..(n - 1), NEW rotations
  PROVE  /\ Met(t, j, i, rotations).t = t /\ Met(t, j, i, rotations).j = j
         /\ Met(t, j, i, rotations).i = i /\ Met(t, j, i, rotations).rotations = rotations
         /\ IsMet(n, Met(t, j, i, rotations))
  BY DEF IsMet, Met

(* From an edge to the next: the corner's boundary. *)
LEMMA AroundACorner ==
  ASSUME NEW l, NEW n, IsSquare(l, n), NEW m, IsMet(n, m)
  PROVE  /\ CornerVia(Leads(l, m), LeftEdge(Leads(l, m).to, l))
              = Leads(l, Turn(ToTheWest(n, m.t, m.j, m.i), m.rotations))
         /\ CornerVia(Leads(l, m), RightEdge(Leads(l, m).to, l))
              = Leads(l, Turn(ToTheEast(n, m.t, m.j, m.i), m.rotations))
         /\ CornerVia(Leads(l, m), TopEdge(Leads(l, m).to, l))
              = Leads(l, Turn(ToTheNorth(n, m.t, m.j, m.i), m.rotations))
         /\ CornerVia(Leads(l, m), BottomEdge(Leads(l, m).to, l))
              = Leads(l, Turn(ToTheSouth(n, m.t, m.j, m.i), m.rotations))
<1> DEFINE edge == Leads(l, m)
<1>0. m.t \in Int /\ m.j \in 0..(n - 1) /\ m.i \in 0..(n - 1)
  BY DEF IsMet
<1>1. edge.to = RankAt(l, m.t, m.j, m.i) /\ edge.rotations = m.rotations
  BY DEF Leads, Boundary
<1> HIDE DEF edge
<1>2. ASSUME NEW w, w \in {ToTheWest(n, m.t, m.j, m.i), ToTheEast(n, m.t, m.j, m.i),
                           ToTheNorth(n, m.t, m.j, m.i), ToTheSouth(n, m.t, m.j, m.i)}
      PROVE  CornerVia(edge, Leads(l, w)) = Leads(l, Turn(w, m.rotations))
  <2>1. PICK u, k, h, turns : w = Met(u, k, h, turns)
    BY <1>2, Zenon DEF ToTheWest, ToTheEast, ToTheNorth, ToTheSouth
  <2>2. Turn(w, m.rotations) = Met(u, k, h, m.rotations + turns)
    BY <2>1 DEF Met, Turn
  <2>3. Leads(l, w) = Boundary(RankAt(l, u, k, h), turns)
    BY <2>1 DEF Leads, Met
  <2>4. Leads(l, Met(u, k, h, m.rotations + turns))
          = Boundary(RankAt(l, u, k, h), m.rotations + turns)
    BY DEF Leads, Met
  <2>5. CornerVia(edge, Boundary(RankAt(l, u, k, h), turns))
          = Boundary(RankAt(l, u, k, h), m.rotations + turns)
    BY <1>1 DEF CornerVia, Boundary
  <2> QED BY <2>2, <2>3, <2>4, <2>5
<1>3. LeftEdge(RankAt(l, m.t, m.j, m.i), l) = Leads(l, ToTheWest(n, m.t, m.j, m.i))
  BY <1>0, EdgesLead
<1>4. RightEdge(RankAt(l, m.t, m.j, m.i), l) = Leads(l, ToTheEast(n, m.t, m.j, m.i))
  BY <1>0, EdgesLead
<1>5. TopEdge(RankAt(l, m.t, m.j, m.i), l) = Leads(l, ToTheNorth(n, m.t, m.j, m.i))
  BY <1>0, EdgesLead
<1>6. BottomEdge(RankAt(l, m.t, m.j, m.i), l) = Leads(l, ToTheSouth(n, m.t, m.j, m.i))
  BY <1>0, EdgesLead
<1> QED BY <1>1, <1>2, <1>3, <1>4, <1>5, <1>6 DEF edge

LEMMA CornersLead ==
  ASSUME NEW l, NEW n, IsSquare(l, n), NEW t \in Int, NEW j \in 0..(n - 1), NEW i \in 0..(n - 1)
  PROVE  /\ TopLeftCorner(RankAt(l, t, j, i), l)
              = IF j = n - 1 /\ i = 0 THEN NoBoundary ELSE Leads(l, ToTheNorthWest(n, t, j, i))
         /\ TopRightCorner(RankAt(l, t, j, i), l)
              = IF j = n - 1 /\ i = n - 1 THEN NoBoundary ELSE Leads(l, ToTheNorthEast(n, t, j, i))
         /\ BottomLeftCorner(RankAt(l, t, j, i), l)
              = IF j = 0 /\ i = 0 THEN NoBoundary ELSE Leads(l, ToTheSouthWest(n, t, j, i))
         /\ BottomRightCorner(RankAt(l, t, j, i), l)
              = IF j = 0 /\ i = n - 1 THEN NoBoundary ELSE Leads(l, ToTheSouthEast(n, t, j, i))
<1> DEFINE r == RankAt(l, t, j, i)
<1>1. IsLayout(l) /\ l[1] = n /\ l[2] = n /\ n \in Nat \ {0}
  BY SquareIs
<1>2. /\ OnTileLeft(r, l) <=> i = 0
      /\ OnTileRight(r, l) <=> i = n - 1
      /\ OnTileTop(r, l) <=> j = n - 1
      /\ OnTileBottom(r, l) <=> j = 0
  BY <1>1, OnTheEdges
<1>3. TileIndex(r, l) = t
  <2>1. IsAt(l, RankAt(l, t, j, i), t, j, i)
    BY PlaceOnSphere
  <2> QED BY <2>1 DEF IsAt
<1>4. /\ LeftEdge(r, l) = Leads(l, ToTheWest(n, t, j, i))
      /\ TopEdge(r, l) = Leads(l, ToTheNorth(n, t, j, i))
      /\ BottomEdge(r, l) = Leads(l, ToTheSouth(n, t, j, i))
  BY EdgesLead
<1>5. \A u, k, h :
         Turn(Met(u, k, h, 0), 0) = Met(u, k, h, 0)
      /\ Turn(Met(u, k, h, 0), 1) = Met(u, k, h, 1)
      /\ Turn(Met(u, k, h, 0), 3) = Met(u, k, h, 3)
      /\ Turn(Met(u, k, h, 1), 0) = Met(u, k, h, 1)
      /\ Turn(Met(u, k, h, 3), 0) = Met(u, k, h, 3)
  BY DEF Met, Turn
<1> HIDE DEF r
<1>6. TopLeftCorner(r, l) = IF j = n - 1 /\ i = 0 THEN NoBoundary ELSE Leads(l, ToTheNorthWest(n, t, j, i))
  <2>1. j = n - 1 /\ i = 0 => TopLeftCorner(r, l) = NoBoundary
    BY <1>2 DEF TopLeftCorner
  <2>2. ASSUME ~(j = n - 1 /\ i = 0), i = 0 /\ IsEven(t)
       PROVE  TopLeftCorner(r, l) = Leads(l, ToTheNorthWest(n, t, j, i))
    <3>0. /\ t - 2 \in Int /\ n - 1 \in 0..(n - 1) /\ n - 1 - j \in 0..(n - 1)
          /\ 1 \in Int
      BY <1>1, <2>2
    <3>1. LeftEdge(r, l) = Leads(l, Met(t - 2, n - 1, n - 1 - j, 1))
      BY <1>1, <1>4, <2>2 DEF ToTheWest
    <3>2. ToTheWest(n, t - 2, n - 1, n - 1 - j) = Met(t - 2, n - 1, n - 2 - j, 0)
      BY <1>1, <2>2 DEF ToTheWest, IsEven
    <3>3. TopLeftCorner(r, l)
            = CornerVia(Leads(l, Met(t - 2, n - 1, n - 1 - j, 1)), LeftEdge(Leads(l, Met(t - 2, n - 1, n - 1 - j, 1)).to, l))
      BY <1>1, <1>2, <1>3, <2>2, <3>1 DEF TopLeftCorner
    <3>6. /\ IsMet(n, Met(t - 2, n - 1, n - 1 - j, 1))
          /\ Met(t - 2, n - 1, n - 1 - j, 1).t = t - 2 /\ Met(t - 2, n - 1, n - 1 - j, 1).j = n - 1
          /\ Met(t - 2, n - 1, n - 1 - j, 1).i = n - 1 - j /\ Met(t - 2, n - 1, n - 1 - j, 1).rotations = 1
      BY <3>0, MetIs
    <3>4. CornerVia(Leads(l, Met(t - 2, n - 1, n - 1 - j, 1)), LeftEdge(Leads(l, Met(t - 2, n - 1, n - 1 - j, 1)).to, l))
            = Leads(l, Turn(ToTheWest(n, t - 2, n - 1, n - 1 - j), 1))
      BY <3>6, AroundACorner
    <3>5. ToTheNorthWest(n, t, j, i) = Met(t - 2, n - 1, n - 2 - j, 1)
      BY <1>1, <2>2 DEF ToTheNorthWest
    <3> QED BY <1>5, <3>2, <3>3, <3>4, <3>5
  <2>3. ASSUME ~(j = n - 1 /\ i = 0), i = 0 /\ ~IsEven(t)
       PROVE  TopLeftCorner(r, l) = Leads(l, ToTheNorthWest(n, t, j, i))
    <3>0. /\ t - 1 \in Int /\ j \in 0..(n - 1) /\ n - 1 \in 0..(n - 1)
          /\ 0 \in Int
      BY <1>1, <2>3
    <3>1. LeftEdge(r, l) = Leads(l, Met(t - 1, j, n - 1, 0))
      BY <1>1, <1>4, <2>3 DEF ToTheWest
    <3>2. ToTheNorth(n, t - 1, j, n - 1) = Met(t - 1, j + 1, n - 1, 0)
      BY <1>1, <2>3 DEF ToTheNorth, IsEven
    <3>3. TopLeftCorner(r, l)
            = CornerVia(Leads(l, Met(t - 1, j, n - 1, 0)), TopEdge(Leads(l, Met(t - 1, j, n - 1, 0)).to, l))
      BY <1>1, <1>2, <1>3, <2>3, <3>1 DEF TopLeftCorner
    <3>6. /\ IsMet(n, Met(t - 1, j, n - 1, 0))
          /\ Met(t - 1, j, n - 1, 0).t = t - 1 /\ Met(t - 1, j, n - 1, 0).j = j
          /\ Met(t - 1, j, n - 1, 0).i = n - 1 /\ Met(t - 1, j, n - 1, 0).rotations = 0
      BY <3>0, MetIs
    <3>4. CornerVia(Leads(l, Met(t - 1, j, n - 1, 0)), TopEdge(Leads(l, Met(t - 1, j, n - 1, 0)).to, l))
            = Leads(l, Turn(ToTheNorth(n, t - 1, j, n - 1), 0))
      BY <3>6, AroundACorner
    <3>5. ToTheNorthWest(n, t, j, i) = Met(t - 1, j + 1, n - 1, 0)
      BY <1>1, <2>3 DEF ToTheNorthWest
    <3> QED BY <1>5, <3>2, <3>3, <3>4, <3>5
  <2>4. ASSUME ~(j = n - 1 /\ i = 0), i > 0 /\ j < n - 1
       PROVE  TopLeftCorner(r, l) = Leads(l, ToTheNorthWest(n, t, j, i))
    <3>0. /\ t \in Int /\ j \in 0..(n - 1) /\ i - 1 \in 0..(n - 1)
          /\ 0 \in Int
      BY <1>1, <2>4
    <3>1. LeftEdge(r, l) = Leads(l, Met(t, j, i - 1, 0))
      BY <1>1, <1>4, <2>4 DEF ToTheWest
    <3>2. ToTheNorth(n, t, j, i - 1) = Met(t, j + 1, i - 1, 0)
      BY <1>1, <2>4 DEF ToTheNorth, IsEven
    <3>3. TopLeftCorner(r, l)
            = CornerVia(Leads(l, Met(t, j, i - 1, 0)), TopEdge(Leads(l, Met(t, j, i - 1, 0)).to, l))
      BY <1>1, <1>2, <1>3, <2>4, <3>1 DEF TopLeftCorner
    <3>6. /\ IsMet(n, Met(t, j, i - 1, 0))
          /\ Met(t, j, i - 1, 0).t = t /\ Met(t, j, i - 1, 0).j = j
          /\ Met(t, j, i - 1, 0).i = i - 1 /\ Met(t, j, i - 1, 0).rotations = 0
      BY <3>0, MetIs
    <3>4. CornerVia(Leads(l, Met(t, j, i - 1, 0)), TopEdge(Leads(l, Met(t, j, i - 1, 0)).to, l))
            = Leads(l, Turn(ToTheNorth(n, t, j, i - 1), 0))
      BY <3>6, AroundACorner
    <3>5. ToTheNorthWest(n, t, j, i) = Met(t, j + 1, i - 1, 0)
      BY <1>1, <2>4 DEF ToTheNorthWest
    <3> QED BY <1>5, <3>2, <3>3, <3>4, <3>5
  <2>5. ASSUME ~(j = n - 1 /\ i = 0), i > 0 /\ j = n - 1 /\ IsEven(t)
       PROVE  TopLeftCorner(r, l) = Leads(l, ToTheNorthWest(n, t, j, i))
    <3>0. /\ t \in Int /\ j \in 0..(n - 1) /\ i - 1 \in 0..(n - 1)
          /\ 0 \in Int
      BY <1>1, <2>5
    <3>1. LeftEdge(r, l) = Leads(l, Met(t, j, i - 1, 0))
      BY <1>1, <1>4, <2>5 DEF ToTheWest
    <3>2. ToTheNorth(n, t, j, i - 1) = Met(t + 2, n - i, 0, 3)
      BY <1>1, <2>5 DEF ToTheNorth, IsEven
    <3>3. TopLeftCorner(r, l)
            = CornerVia(Leads(l, Met(t, j, i - 1, 0)), TopEdge(Leads(l, Met(t, j, i - 1, 0)).to, l))
      BY <1>1, <1>2, <1>3, <2>5, <3>1 DEF TopLeftCorner
    <3>6. /\ IsMet(n, Met(t, j, i - 1, 0))
          /\ Met(t, j, i - 1, 0).t = t /\ Met(t, j, i - 1, 0).j = j
          /\ Met(t, j, i - 1, 0).i = i - 1 /\ Met(t, j, i - 1, 0).rotations = 0
      BY <3>0, MetIs
    <3>4. CornerVia(Leads(l, Met(t, j, i - 1, 0)), TopEdge(Leads(l, Met(t, j, i - 1, 0)).to, l))
            = Leads(l, Turn(ToTheNorth(n, t, j, i - 1), 0))
      BY <3>6, AroundACorner
    <3>5. ToTheNorthWest(n, t, j, i) = Met(t + 2, n - i, 0, 3)
      BY <1>1, <2>5 DEF ToTheNorthWest
    <3> QED BY <1>5, <3>2, <3>3, <3>4, <3>5
  <2>6. ASSUME ~(j = n - 1 /\ i = 0), i > 0 /\ j = n - 1 /\ ~IsEven(t)
       PROVE  TopLeftCorner(r, l) = Leads(l, ToTheNorthWest(n, t, j, i))
    <3>0. /\ t \in Int /\ j \in 0..(n - 1) /\ i - 1 \in 0..(n - 1)
          /\ 0 \in Int
      BY <1>1, <2>6
    <3>1. LeftEdge(r, l) = Leads(l, Met(t, j, i - 1, 0))
      BY <1>1, <1>4, <2>6 DEF ToTheWest
    <3>2. ToTheNorth(n, t, j, i - 1) = Met(t + 1, 0, i - 1, 0)
      BY <1>1, <2>6 DEF ToTheNorth, IsEven
    <3>3. TopLeftCorner(r, l)
            = CornerVia(Leads(l, Met(t, j, i - 1, 0)), TopEdge(Leads(l, Met(t, j, i - 1, 0)).to, l))
      BY <1>1, <1>2, <1>3, <2>6, <3>1 DEF TopLeftCorner
    <3>6. /\ IsMet(n, Met(t, j, i - 1, 0))
          /\ Met(t, j, i - 1, 0).t = t /\ Met(t, j, i - 1, 0).j = j
          /\ Met(t, j, i - 1, 0).i = i - 1 /\ Met(t, j, i - 1, 0).rotations = 0
      BY <3>0, MetIs
    <3>4. CornerVia(Leads(l, Met(t, j, i - 1, 0)), TopEdge(Leads(l, Met(t, j, i - 1, 0)).to, l))
            = Leads(l, Turn(ToTheNorth(n, t, j, i - 1), 0))
      BY <3>6, AroundACorner
    <3>5. ToTheNorthWest(n, t, j, i) = Met(t + 1, 0, i - 1, 0)
      BY <1>1, <2>6 DEF ToTheNorthWest
    <3> QED BY <1>5, <3>2, <3>3, <3>4, <3>5
  <2> QED BY <1>1, <2>1, <2>2, <2>3, <2>4, <2>5, <2>6
<1>7. TopRightCorner(r, l) = IF j = n - 1 /\ i = n - 1 THEN NoBoundary ELSE Leads(l, ToTheNorthEast(n, t, j, i))
  <2>1. j = n - 1 /\ i = n - 1 => TopRightCorner(r, l) = NoBoundary
    BY <1>2 DEF TopRightCorner
  <2>2. ASSUME ~(j = n - 1 /\ i = n - 1), j = n - 1 /\ IsEven(t)
       PROVE  TopRightCorner(r, l) = Leads(l, ToTheNorthEast(n, t, j, i))
    <3>0. /\ t + 2 \in Int /\ n - 1 - i \in 0..(n - 1) /\ 0 \in 0..(n - 1)
          /\ 3 \in Int
      BY <1>1, <2>2
    <3>1. TopEdge(r, l) = Leads(l, Met(t + 2, n - 1 - i, 0, 3))
      BY <1>1, <1>4, <2>2 DEF ToTheNorth
    <3>2. ToTheSouth(n, t + 2, n - 1 - i, 0) = Met(t + 2, n - 2 - i, 0, 0)
      BY <1>1, <2>2 DEF ToTheSouth, IsEven
    <3>3. TopRightCorner(r, l)
            = CornerVia(Leads(l, Met(t + 2, n - 1 - i, 0, 3)), BottomEdge(Leads(l, Met(t + 2, n - 1 - i, 0, 3)).to, l))
      BY <1>1, <1>2, <1>3, <2>2, <3>1 DEF TopRightCorner
    <3>6. /\ IsMet(n, Met(t + 2, n - 1 - i, 0, 3))
          /\ Met(t + 2, n - 1 - i, 0, 3).t = t + 2 /\ Met(t + 2, n - 1 - i, 0, 3).j = n - 1 - i
          /\ Met(t + 2, n - 1 - i, 0, 3).i = 0 /\ Met(t + 2, n - 1 - i, 0, 3).rotations = 3
      BY <3>0, MetIs
    <3>4. CornerVia(Leads(l, Met(t + 2, n - 1 - i, 0, 3)), BottomEdge(Leads(l, Met(t + 2, n - 1 - i, 0, 3)).to, l))
            = Leads(l, Turn(ToTheSouth(n, t + 2, n - 1 - i, 0), 3))
      BY <3>6, AroundACorner
    <3>5. ToTheNorthEast(n, t, j, i) = Met(t + 2, n - 2 - i, 0, 3)
      BY <1>1, <2>2 DEF ToTheNorthEast
    <3> QED BY <1>5, <3>2, <3>3, <3>4, <3>5
  <2>3. ASSUME ~(j = n - 1 /\ i = n - 1), j = n - 1 /\ ~IsEven(t)
       PROVE  TopRightCorner(r, l) = Leads(l, ToTheNorthEast(n, t, j, i))
    <3>0. /\ t + 1 \in Int /\ 0 \in 0..(n - 1) /\ i \in 0..(n - 1)
          /\ 0 \in Int
      BY <1>1, <2>3
    <3>1. TopEdge(r, l) = Leads(l, Met(t + 1, 0, i, 0))
      BY <1>1, <1>4, <2>3 DEF ToTheNorth
    <3>2. ToTheEast(n, t + 1, 0, i) = Met(t + 1, 0, i + 1, 0)
      BY <1>1, <2>3 DEF ToTheEast, IsEven
    <3>3. TopRightCorner(r, l)
            = CornerVia(Leads(l, Met(t + 1, 0, i, 0)), RightEdge(Leads(l, Met(t + 1, 0, i, 0)).to, l))
      BY <1>1, <1>2, <1>3, <2>3, <3>1 DEF TopRightCorner
    <3>6. /\ IsMet(n, Met(t + 1, 0, i, 0))
          /\ Met(t + 1, 0, i, 0).t = t + 1 /\ Met(t + 1, 0, i, 0).j = 0
          /\ Met(t + 1, 0, i, 0).i = i /\ Met(t + 1, 0, i, 0).rotations = 0
      BY <3>0, MetIs
    <3>4. CornerVia(Leads(l, Met(t + 1, 0, i, 0)), RightEdge(Leads(l, Met(t + 1, 0, i, 0)).to, l))
            = Leads(l, Turn(ToTheEast(n, t + 1, 0, i), 0))
      BY <3>6, AroundACorner
    <3>5. ToTheNorthEast(n, t, j, i) = Met(t + 1, 0, i + 1, 0)
      BY <1>1, <2>3 DEF ToTheNorthEast
    <3> QED BY <1>5, <3>2, <3>3, <3>4, <3>5
  <2>4. ASSUME ~(j = n - 1 /\ i = n - 1), j < n - 1 /\ i < n - 1
       PROVE  TopRightCorner(r, l) = Leads(l, ToTheNorthEast(n, t, j, i))
    <3>0. /\ t \in Int /\ j + 1 \in 0..(n - 1) /\ i \in 0..(n - 1)
          /\ 0 \in Int
      BY <1>1, <2>4
    <3>1. TopEdge(r, l) = Leads(l, Met(t, j + 1, i, 0))
      BY <1>1, <1>4, <2>4 DEF ToTheNorth
    <3>2. ToTheEast(n, t, j + 1, i) = Met(t, j + 1, i + 1, 0)
      BY <1>1, <2>4 DEF ToTheEast, IsEven
    <3>3. TopRightCorner(r, l)
            = CornerVia(Leads(l, Met(t, j + 1, i, 0)), RightEdge(Leads(l, Met(t, j + 1, i, 0)).to, l))
      BY <1>1, <1>2, <1>3, <2>4, <3>1 DEF TopRightCorner
    <3>6. /\ IsMet(n, Met(t, j + 1, i, 0))
          /\ Met(t, j + 1, i, 0).t = t /\ Met(t, j + 1, i, 0).j = j + 1
          /\ Met(t, j + 1, i, 0).i = i /\ Met(t, j + 1, i, 0).rotations = 0
      BY <3>0, MetIs
    <3>4. CornerVia(Leads(l, Met(t, j + 1, i, 0)), RightEdge(Leads(l, Met(t, j + 1, i, 0)).to, l))
            = Leads(l, Turn(ToTheEast(n, t, j + 1, i), 0))
      BY <3>6, AroundACorner
    <3>5. ToTheNorthEast(n, t, j, i) = Met(t, j + 1, i + 1, 0)
      BY <1>1, <2>4 DEF ToTheNorthEast
    <3> QED BY <1>5, <3>2, <3>3, <3>4, <3>5
  <2>5. ASSUME ~(j = n - 1 /\ i = n - 1), j < n - 1 /\ i = n - 1 /\ IsEven(t)
       PROVE  TopRightCorner(r, l) = Leads(l, ToTheNorthEast(n, t, j, i))
    <3>0. /\ t \in Int /\ j + 1 \in 0..(n - 1) /\ i \in 0..(n - 1)
          /\ 0 \in Int
      BY <1>1, <2>5
    <3>1. TopEdge(r, l) = Leads(l, Met(t, j + 1, i, 0))
      BY <1>1, <1>4, <2>5 DEF ToTheNorth
    <3>2. ToTheEast(n, t, j + 1, i) = Met(t + 1, j + 1, 0, 0)
      BY <1>1, <2>5 DEF ToTheEast, IsEven
    <3>3. TopRightCorner(r, l)
            = CornerVia(Leads(l, Met(t, j + 1, i, 0)), RightEdge(Leads(l, Met(t, j + 1, i, 0)).to, l))
      BY <1>1, <1>2, <1>3, <2>5, <3>1 DEF TopRightCorner
    <3>6. /\ IsMet(n, Met(t, j + 1, i, 0))
          /\ Met(t, j + 1, i, 0).t = t /\ Met(t, j + 1, i, 0).j = j + 1
          /\ Met(t, j + 1, i, 0).i = i /\ Met(t, j + 1, i, 0).rotations = 0
      BY <3>0, MetIs
    <3>4. CornerVia(Leads(l, Met(t, j + 1, i, 0)), RightEdge(Leads(l, Met(t, j + 1, i, 0)).to, l))
            = Leads(l, Turn(ToTheEast(n, t, j + 1, i), 0))
      BY <3>6, AroundACorner
    <3>5. ToTheNorthEast(n, t, j, i) = Met(t + 1, j + 1, 0, 0)
      BY <1>1, <2>5 DEF ToTheNorthEast
    <3> QED BY <1>5, <3>2, <3>3, <3>4, <3>5
  <2>6. ASSUME ~(j = n - 1 /\ i = n - 1), j < n - 1 /\ i = n - 1 /\ ~IsEven(t)
       PROVE  TopRightCorner(r, l) = Leads(l, ToTheNorthEast(n, t, j, i))
    <3>0. /\ t \in Int /\ j + 1 \in 0..(n - 1) /\ i \in 0..(n - 1)
          /\ 0 \in Int
      BY <1>1, <2>6
    <3>1. TopEdge(r, l) = Leads(l, Met(t, j + 1, i, 0))
      BY <1>1, <1>4, <2>6 DEF ToTheNorth
    <3>2. ToTheEast(n, t, j + 1, i) = Met(t + 2, 0, n - 2 - j, 1)
      BY <1>1, <2>6 DEF ToTheEast, IsEven
    <3>3. TopRightCorner(r, l)
            = CornerVia(Leads(l, Met(t, j + 1, i, 0)), RightEdge(Leads(l, Met(t, j + 1, i, 0)).to, l))
      BY <1>1, <1>2, <1>3, <2>6, <3>1 DEF TopRightCorner
    <3>6. /\ IsMet(n, Met(t, j + 1, i, 0))
          /\ Met(t, j + 1, i, 0).t = t /\ Met(t, j + 1, i, 0).j = j + 1
          /\ Met(t, j + 1, i, 0).i = i /\ Met(t, j + 1, i, 0).rotations = 0
      BY <3>0, MetIs
    <3>4. CornerVia(Leads(l, Met(t, j + 1, i, 0)), RightEdge(Leads(l, Met(t, j + 1, i, 0)).to, l))
            = Leads(l, Turn(ToTheEast(n, t, j + 1, i), 0))
      BY <3>6, AroundACorner
    <3>5. ToTheNorthEast(n, t, j, i) = Met(t + 2, 0, n - 2 - j, 1)
      BY <1>1, <2>6 DEF ToTheNorthEast
    <3> QED BY <1>5, <3>2, <3>3, <3>4, <3>5
  <2> QED BY <1>1, <2>1, <2>2, <2>3, <2>4, <2>5, <2>6
<1>8. BottomLeftCorner(r, l) = IF j = 0 /\ i = 0 THEN NoBoundary ELSE Leads(l, ToTheSouthWest(n, t, j, i))
  <2>1. j = 0 /\ i = 0 => BottomLeftCorner(r, l) = NoBoundary
    BY <1>2 DEF BottomLeftCorner
  <2>2. ASSUME ~(j = 0 /\ i = 0), j = 0 /\ IsEven(t)
       PROVE  BottomLeftCorner(r, l) = Leads(l, ToTheSouthWest(n, t, j, i))
    <3>0. /\ t - 1 \in Int /\ n - 1 \in 0..(n - 1) /\ i \in 0..(n - 1)
          /\ 0 \in Int
      BY <1>1, <2>2
    <3>1. BottomEdge(r, l) = Leads(l, Met(t - 1, n - 1, i, 0))
      BY <1>1, <1>4, <2>2 DEF ToTheSouth
    <3>2. ToTheWest(n, t - 1, n - 1, i) = Met(t - 1, n - 1, i - 1, 0)
      BY <1>1, <2>2 DEF ToTheWest, IsEven
    <3>3. BottomLeftCorner(r, l)
            = CornerVia(Leads(l, Met(t - 1, n - 1, i, 0)), LeftEdge(Leads(l, Met(t - 1, n - 1, i, 0)).to, l))
      BY <1>1, <1>2, <1>3, <2>2, <3>1 DEF BottomLeftCorner
    <3>6. /\ IsMet(n, Met(t - 1, n - 1, i, 0))
          /\ Met(t - 1, n - 1, i, 0).t = t - 1 /\ Met(t - 1, n - 1, i, 0).j = n - 1
          /\ Met(t - 1, n - 1, i, 0).i = i /\ Met(t - 1, n - 1, i, 0).rotations = 0
      BY <3>0, MetIs
    <3>4. CornerVia(Leads(l, Met(t - 1, n - 1, i, 0)), LeftEdge(Leads(l, Met(t - 1, n - 1, i, 0)).to, l))
            = Leads(l, Turn(ToTheWest(n, t - 1, n - 1, i), 0))
      BY <3>6, AroundACorner
    <3>5. ToTheSouthWest(n, t, j, i) = Met(t - 1, n - 1, i - 1, 0)
      BY <1>1, <2>2 DEF ToTheSouthWest
    <3> QED BY <1>5, <3>2, <3>3, <3>4, <3>5
  <2>3. ASSUME ~(j = 0 /\ i = 0), j = 0 /\ ~IsEven(t)
       PROVE  BottomLeftCorner(r, l) = Leads(l, ToTheSouthWest(n, t, j, i))
    <3>0. /\ t - 2 \in Int /\ n - 1 - i \in 0..(n - 1) /\ n - 1 \in 0..(n - 1)
          /\ 3 \in Int
      BY <1>1, <2>3
    <3>1. BottomEdge(r, l) = Leads(l, Met(t - 2, n - 1 - i, n - 1, 3))
      BY <1>1, <1>4, <2>3 DEF ToTheSouth
    <3>2. ToTheNorth(n, t - 2, n - 1 - i, n - 1) = Met(t - 2, n - i, n - 1, 0)
      BY <1>1, <2>3 DEF ToTheNorth, IsEven
    <3>3. BottomLeftCorner(r, l)
            = CornerVia(Leads(l, Met(t - 2, n - 1 - i, n - 1, 3)), TopEdge(Leads(l, Met(t - 2, n - 1 - i, n - 1, 3)).to, l))
      BY <1>1, <1>2, <1>3, <2>3, <3>1 DEF BottomLeftCorner
    <3>6. /\ IsMet(n, Met(t - 2, n - 1 - i, n - 1, 3))
          /\ Met(t - 2, n - 1 - i, n - 1, 3).t = t - 2 /\ Met(t - 2, n - 1 - i, n - 1, 3).j = n - 1 - i
          /\ Met(t - 2, n - 1 - i, n - 1, 3).i = n - 1 /\ Met(t - 2, n - 1 - i, n - 1, 3).rotations = 3
      BY <3>0, MetIs
    <3>4. CornerVia(Leads(l, Met(t - 2, n - 1 - i, n - 1, 3)), TopEdge(Leads(l, Met(t - 2, n - 1 - i, n - 1, 3)).to, l))
            = Leads(l, Turn(ToTheNorth(n, t - 2, n - 1 - i, n - 1), 3))
      BY <3>6, AroundACorner
    <3>5. ToTheSouthWest(n, t, j, i) = Met(t - 2, n - i, n - 1, 3)
      BY <1>1, <2>3 DEF ToTheSouthWest
    <3> QED BY <1>5, <3>2, <3>3, <3>4, <3>5
  <2>4. ASSUME ~(j = 0 /\ i = 0), j > 0 /\ i > 0
       PROVE  BottomLeftCorner(r, l) = Leads(l, ToTheSouthWest(n, t, j, i))
    <3>0. /\ t \in Int /\ j - 1 \in 0..(n - 1) /\ i \in 0..(n - 1)
          /\ 0 \in Int
      BY <1>1, <2>4
    <3>1. BottomEdge(r, l) = Leads(l, Met(t, j - 1, i, 0))
      BY <1>1, <1>4, <2>4 DEF ToTheSouth
    <3>2. ToTheWest(n, t, j - 1, i) = Met(t, j - 1, i - 1, 0)
      BY <1>1, <2>4 DEF ToTheWest, IsEven
    <3>3. BottomLeftCorner(r, l)
            = CornerVia(Leads(l, Met(t, j - 1, i, 0)), LeftEdge(Leads(l, Met(t, j - 1, i, 0)).to, l))
      BY <1>1, <1>2, <1>3, <2>4, <3>1 DEF BottomLeftCorner
    <3>6. /\ IsMet(n, Met(t, j - 1, i, 0))
          /\ Met(t, j - 1, i, 0).t = t /\ Met(t, j - 1, i, 0).j = j - 1
          /\ Met(t, j - 1, i, 0).i = i /\ Met(t, j - 1, i, 0).rotations = 0
      BY <3>0, MetIs
    <3>4. CornerVia(Leads(l, Met(t, j - 1, i, 0)), LeftEdge(Leads(l, Met(t, j - 1, i, 0)).to, l))
            = Leads(l, Turn(ToTheWest(n, t, j - 1, i), 0))
      BY <3>6, AroundACorner
    <3>5. ToTheSouthWest(n, t, j, i) = Met(t, j - 1, i - 1, 0)
      BY <1>1, <2>4 DEF ToTheSouthWest
    <3> QED BY <1>5, <3>2, <3>3, <3>4, <3>5
  <2>5. ASSUME ~(j = 0 /\ i = 0), j > 0 /\ i = 0 /\ IsEven(t)
       PROVE  BottomLeftCorner(r, l) = Leads(l, ToTheSouthWest(n, t, j, i))
    <3>0. /\ t \in Int /\ j - 1 \in 0..(n - 1) /\ i \in 0..(n - 1)
          /\ 0 \in Int
      BY <1>1, <2>5
    <3>1. BottomEdge(r, l) = Leads(l, Met(t, j - 1, i, 0))
      BY <1>1, <1>4, <2>5 DEF ToTheSouth
    <3>2. ToTheWest(n, t, j - 1, i) = Met(t - 2, n - 1, n - j, 1)
      BY <1>1, <2>5 DEF ToTheWest, IsEven
    <3>3. BottomLeftCorner(r, l)
            = CornerVia(Leads(l, Met(t, j - 1, i, 0)), LeftEdge(Leads(l, Met(t, j - 1, i, 0)).to, l))
      BY <1>1, <1>2, <1>3, <2>5, <3>1 DEF BottomLeftCorner
    <3>6. /\ IsMet(n, Met(t, j - 1, i, 0))
          /\ Met(t, j - 1, i, 0).t = t /\ Met(t, j - 1, i, 0).j = j - 1
          /\ Met(t, j - 1, i, 0).i = i /\ Met(t, j - 1, i, 0).rotations = 0
      BY <3>0, MetIs
    <3>4. CornerVia(Leads(l, Met(t, j - 1, i, 0)), LeftEdge(Leads(l, Met(t, j - 1, i, 0)).to, l))
            = Leads(l, Turn(ToTheWest(n, t, j - 1, i), 0))
      BY <3>6, AroundACorner
    <3>5. ToTheSouthWest(n, t, j, i) = Met(t - 2, n - 1, n - j, 1)
      BY <1>1, <2>5 DEF ToTheSouthWest
    <3> QED BY <1>5, <3>2, <3>3, <3>4, <3>5
  <2>6. ASSUME ~(j = 0 /\ i = 0), j > 0 /\ i = 0 /\ ~IsEven(t)
       PROVE  BottomLeftCorner(r, l) = Leads(l, ToTheSouthWest(n, t, j, i))
    <3>0. /\ t \in Int /\ j - 1 \in 0..(n - 1) /\ i \in 0..(n - 1)
          /\ 0 \in Int
      BY <1>1, <2>6
    <3>1. BottomEdge(r, l) = Leads(l, Met(t, j - 1, i, 0))
      BY <1>1, <1>4, <2>6 DEF ToTheSouth
    <3>2. ToTheWest(n, t, j - 1, i) = Met(t - 1, j - 1, n - 1, 0)
      BY <1>1, <2>6 DEF ToTheWest, IsEven
    <3>3. BottomLeftCorner(r, l)
            = CornerVia(Leads(l, Met(t, j - 1, i, 0)), LeftEdge(Leads(l, Met(t, j - 1, i, 0)).to, l))
      BY <1>1, <1>2, <1>3, <2>6, <3>1 DEF BottomLeftCorner
    <3>6. /\ IsMet(n, Met(t, j - 1, i, 0))
          /\ Met(t, j - 1, i, 0).t = t /\ Met(t, j - 1, i, 0).j = j - 1
          /\ Met(t, j - 1, i, 0).i = i /\ Met(t, j - 1, i, 0).rotations = 0
      BY <3>0, MetIs
    <3>4. CornerVia(Leads(l, Met(t, j - 1, i, 0)), LeftEdge(Leads(l, Met(t, j - 1, i, 0)).to, l))
            = Leads(l, Turn(ToTheWest(n, t, j - 1, i), 0))
      BY <3>6, AroundACorner
    <3>5. ToTheSouthWest(n, t, j, i) = Met(t - 1, j - 1, n - 1, 0)
      BY <1>1, <2>6 DEF ToTheSouthWest
    <3> QED BY <1>5, <3>2, <3>3, <3>4, <3>5
  <2> QED BY <1>1, <2>1, <2>2, <2>3, <2>4, <2>5, <2>6
<1>9. BottomRightCorner(r, l) = IF j = 0 /\ i = n - 1 THEN NoBoundary ELSE Leads(l, ToTheSouthEast(n, t, j, i))
  <2>1. j = 0 /\ i = n - 1 => BottomRightCorner(r, l) = NoBoundary
    BY <1>2 DEF BottomRightCorner
  <2>2. ASSUME ~(j = 0 /\ i = n - 1), j = 0 /\ IsEven(t)
       PROVE  BottomRightCorner(r, l) = Leads(l, ToTheSouthEast(n, t, j, i))
    <3>0. /\ t - 1 \in Int /\ n - 1 \in 0..(n - 1) /\ i \in 0..(n - 1)
          /\ 0 \in Int
      BY <1>1, <2>2
    <3>1. BottomEdge(r, l) = Leads(l, Met(t - 1, n - 1, i, 0))
      BY <1>1, <1>4, <2>2 DEF ToTheSouth
    <3>2. ToTheEast(n, t - 1, n - 1, i) = Met(t - 1, n - 1, i + 1, 0)
      BY <1>1, <2>2 DEF ToTheEast, IsEven
    <3>3. BottomRightCorner(r, l)
            = CornerVia(Leads(l, Met(t - 1, n - 1, i, 0)), RightEdge(Leads(l, Met(t - 1, n - 1, i, 0)).to, l))
      BY <1>1, <1>2, <1>3, <2>2, <3>1 DEF BottomRightCorner
    <3>6. /\ IsMet(n, Met(t - 1, n - 1, i, 0))
          /\ Met(t - 1, n - 1, i, 0).t = t - 1 /\ Met(t - 1, n - 1, i, 0).j = n - 1
          /\ Met(t - 1, n - 1, i, 0).i = i /\ Met(t - 1, n - 1, i, 0).rotations = 0
      BY <3>0, MetIs
    <3>4. CornerVia(Leads(l, Met(t - 1, n - 1, i, 0)), RightEdge(Leads(l, Met(t - 1, n - 1, i, 0)).to, l))
            = Leads(l, Turn(ToTheEast(n, t - 1, n - 1, i), 0))
      BY <3>6, AroundACorner
    <3>5. ToTheSouthEast(n, t, j, i) = Met(t - 1, n - 1, i + 1, 0)
      BY <1>1, <2>2 DEF ToTheSouthEast
    <3> QED BY <1>5, <3>2, <3>3, <3>4, <3>5
  <2>3. ASSUME ~(j = 0 /\ i = n - 1), j = 0 /\ ~IsEven(t)
       PROVE  BottomRightCorner(r, l) = Leads(l, ToTheSouthEast(n, t, j, i))
    <3>0. /\ t - 2 \in Int /\ n - 1 - i \in 0..(n - 1) /\ n - 1 \in 0..(n - 1)
          /\ 3 \in Int
      BY <1>1, <2>3
    <3>1. BottomEdge(r, l) = Leads(l, Met(t - 2, n - 1 - i, n - 1, 3))
      BY <1>1, <1>4, <2>3 DEF ToTheSouth
    <3>2. ToTheSouth(n, t - 2, n - 1 - i, n - 1) = Met(t - 2, n - 2 - i, n - 1, 0)
      BY <1>1, <2>3 DEF ToTheSouth, IsEven
    <3>3. BottomRightCorner(r, l)
            = CornerVia(Leads(l, Met(t - 2, n - 1 - i, n - 1, 3)), BottomEdge(Leads(l, Met(t - 2, n - 1 - i, n - 1, 3)).to, l))
      BY <1>1, <1>2, <1>3, <2>3, <3>1 DEF BottomRightCorner
    <3>6. /\ IsMet(n, Met(t - 2, n - 1 - i, n - 1, 3))
          /\ Met(t - 2, n - 1 - i, n - 1, 3).t = t - 2 /\ Met(t - 2, n - 1 - i, n - 1, 3).j = n - 1 - i
          /\ Met(t - 2, n - 1 - i, n - 1, 3).i = n - 1 /\ Met(t - 2, n - 1 - i, n - 1, 3).rotations = 3
      BY <3>0, MetIs
    <3>4. CornerVia(Leads(l, Met(t - 2, n - 1 - i, n - 1, 3)), BottomEdge(Leads(l, Met(t - 2, n - 1 - i, n - 1, 3)).to, l))
            = Leads(l, Turn(ToTheSouth(n, t - 2, n - 1 - i, n - 1), 3))
      BY <3>6, AroundACorner
    <3>5. ToTheSouthEast(n, t, j, i) = Met(t - 2, n - 2 - i, n - 1, 3)
      BY <1>1, <2>3 DEF ToTheSouthEast
    <3> QED BY <1>5, <3>2, <3>3, <3>4, <3>5
  <2>4. ASSUME ~(j = 0 /\ i = n - 1), j > 0 /\ i < n - 1
       PROVE  BottomRightCorner(r, l) = Leads(l, ToTheSouthEast(n, t, j, i))
    <3>0. /\ t \in Int /\ j - 1 \in 0..(n - 1) /\ i \in 0..(n - 1)
          /\ 0 \in Int
      BY <1>1, <2>4
    <3>1. BottomEdge(r, l) = Leads(l, Met(t, j - 1, i, 0))
      BY <1>1, <1>4, <2>4 DEF ToTheSouth
    <3>2. ToTheEast(n, t, j - 1, i) = Met(t, j - 1, i + 1, 0)
      BY <1>1, <2>4 DEF ToTheEast, IsEven
    <3>3. BottomRightCorner(r, l)
            = CornerVia(Leads(l, Met(t, j - 1, i, 0)), RightEdge(Leads(l, Met(t, j - 1, i, 0)).to, l))
      BY <1>1, <1>2, <1>3, <2>4, <3>1 DEF BottomRightCorner
    <3>6. /\ IsMet(n, Met(t, j - 1, i, 0))
          /\ Met(t, j - 1, i, 0).t = t /\ Met(t, j - 1, i, 0).j = j - 1
          /\ Met(t, j - 1, i, 0).i = i /\ Met(t, j - 1, i, 0).rotations = 0
      BY <3>0, MetIs
    <3>4. CornerVia(Leads(l, Met(t, j - 1, i, 0)), RightEdge(Leads(l, Met(t, j - 1, i, 0)).to, l))
            = Leads(l, Turn(ToTheEast(n, t, j - 1, i), 0))
      BY <3>6, AroundACorner
    <3>5. ToTheSouthEast(n, t, j, i) = Met(t, j - 1, i + 1, 0)
      BY <1>1, <2>4 DEF ToTheSouthEast
    <3> QED BY <1>5, <3>2, <3>3, <3>4, <3>5
  <2>5. ASSUME ~(j = 0 /\ i = n - 1), j > 0 /\ i = n - 1 /\ IsEven(t)
       PROVE  BottomRightCorner(r, l) = Leads(l, ToTheSouthEast(n, t, j, i))
    <3>0. /\ t \in Int /\ j - 1 \in 0..(n - 1) /\ i \in 0..(n - 1)
          /\ 0 \in Int
      BY <1>1, <2>5
    <3>1. BottomEdge(r, l) = Leads(l, Met(t, j - 1, i, 0))
      BY <1>1, <1>4, <2>5 DEF ToTheSouth
    <3>2. ToTheEast(n, t, j - 1, i) = Met(t + 1, j - 1, 0, 0)
      BY <1>1, <2>5 DEF ToTheEast, IsEven
    <3>3. BottomRightCorner(r, l)
            = CornerVia(Leads(l, Met(t, j - 1, i, 0)), RightEdge(Leads(l, Met(t, j - 1, i, 0)).to, l))
      BY <1>1, <1>2, <1>3, <2>5, <3>1 DEF BottomRightCorner
    <3>6. /\ IsMet(n, Met(t, j - 1, i, 0))
          /\ Met(t, j - 1, i, 0).t = t /\ Met(t, j - 1, i, 0).j = j - 1
          /\ Met(t, j - 1, i, 0).i = i /\ Met(t, j - 1, i, 0).rotations = 0
      BY <3>0, MetIs
    <3>4. CornerVia(Leads(l, Met(t, j - 1, i, 0)), RightEdge(Leads(l, Met(t, j - 1, i, 0)).to, l))
            = Leads(l, Turn(ToTheEast(n, t, j - 1, i), 0))
      BY <3>6, AroundACorner
    <3>5. ToTheSouthEast(n, t, j, i) = Met(t + 1, j - 1, 0, 0)
      BY <1>1, <2>5 DEF ToTheSouthEast
    <3> QED BY <1>5, <3>2, <3>3, <3>4, <3>5
  <2>6. ASSUME ~(j = 0 /\ i = n - 1), j > 0 /\ i = n - 1 /\ ~IsEven(t)
       PROVE  BottomRightCorner(r, l) = Leads(l, ToTheSouthEast(n, t, j, i))
    <3>0. /\ t \in Int /\ j - 1 \in 0..(n - 1) /\ i \in 0..(n - 1)
          /\ 0 \in Int
      BY <1>1, <2>6
    <3>1. BottomEdge(r, l) = Leads(l, Met(t, j - 1, i, 0))
      BY <1>1, <1>4, <2>6 DEF ToTheSouth
    <3>2. ToTheEast(n, t, j - 1, i) = Met(t + 2, 0, n - j, 1)
      BY <1>1, <2>6 DEF ToTheEast, IsEven
    <3>3. BottomRightCorner(r, l)
            = CornerVia(Leads(l, Met(t, j - 1, i, 0)), RightEdge(Leads(l, Met(t, j - 1, i, 0)).to, l))
      BY <1>1, <1>2, <1>3, <2>6, <3>1 DEF BottomRightCorner
    <3>6. /\ IsMet(n, Met(t, j - 1, i, 0))
          /\ Met(t, j - 1, i, 0).t = t /\ Met(t, j - 1, i, 0).j = j - 1
          /\ Met(t, j - 1, i, 0).i = i /\ Met(t, j - 1, i, 0).rotations = 0
      BY <3>0, MetIs
    <3>4. CornerVia(Leads(l, Met(t, j - 1, i, 0)), RightEdge(Leads(l, Met(t, j - 1, i, 0)).to, l))
            = Leads(l, Turn(ToTheEast(n, t, j - 1, i), 0))
      BY <3>6, AroundACorner
    <3>5. ToTheSouthEast(n, t, j, i) = Met(t + 2, 0, n - j, 1)
      BY <1>1, <2>6 DEF ToTheSouthEast
    <3> QED BY <1>5, <3>2, <3>3, <3>4, <3>5
  <2> QED BY <1>1, <2>1, <2>2, <2>3, <2>4, <2>5, <2>6
<1> QED BY <1>6, <1>7, <1>8, <1>9 DEF r

-----------------------------------------------------------------------------
(* Every boundary of the sphere, by the place it leads to.                 *)

ToThe(type, n, t, j, i) ==
  CASE type = "W"  -> ToTheWest(n, t, j, i)      [] type = "E"  -> ToTheEast(n, t, j, i)
    [] type = "N"  -> ToTheNorth(n, t, j, i)     [] type = "S"  -> ToTheSouth(n, t, j, i)
    [] type = "NW" -> ToTheNorthWest(n, t, j, i) [] type = "NE" -> ToTheNorthEast(n, t, j, i)
    [] type = "SW" -> ToTheSouthWest(n, t, j, i) [] type = "SE" -> ToTheSouthEast(n, t, j, i)

(* Three tiles meet at the corner. *)
AtCubeCorner(type, n, j, i) ==
  \/ type = "NW" /\ j = n - 1 /\ i = 0
  \/ type = "NE" /\ j = n - 1 /\ i = n - 1
  \/ type = "SW" /\ j = 0 /\ i = 0
  \/ type = "SE" /\ j = 0 /\ i = n - 1

OnSphere(m) == Met(m.t % 6, m.j, m.i, m.rotations)

LEMMA RankReduced ==
  ASSUME NEW l, NEW n, IsSquare(l, n), NEW t \in Int, NEW j \in 0..(n - 1), NEW i \in 0..(n - 1)
  PROVE  RankAt(l, t, j, i) % TotalRanks(l) = RankAt(l, t % 6, j, i)
<1> DEFINE T == TileRanks(l)
           w == (j * n) + i
           q == t \div 6
           s == t % 6
           within == (s * T) + w
<1>1. T \in Nat \ {0} /\ w \in Nat /\ w < T /\ n \in Nat \ {0} /\ l[2] = n
  <2>1. IsLayout(l) /\ l[1] = n /\ l[2] = n /\ n \in Nat \ {0} /\ T \in Nat \ {0}
    BY SquareIs
  <2>2. w \in Nat /\ w < T
    <3>1. w \in 0..((n * n) - 1)
      BY <2>1, CellAt
    <3>2. T = n * n
      BY SquareIs
    <3> HIDE DEF w, T
    <3> QED BY <2>1, <3>1, <3>2
  <2> QED BY <2>1, <2>2
<1>2. q \in Int /\ s \in 0..5 /\ t = (q * 6) + s
  BY DivMod
<1>3. /\ RankAt(l, t, j, i) = (t * T) + w /\ RankAt(l, s, j, i) = within
  BY <1>1 DEF RankAt
<1> HIDE DEF T, w, q, s
<1>4. s * T \in Nat /\ (s * T) + T <= 6 * T /\ 6 * T \in Nat \ {0}
  <2>1. (s * T) + T <= 6 * T
    BY <1>1, <1>2, ProductGrows
  <2>2. s * T \in Nat /\ 6 * T \in Nat \ {0}
    BY <1>1, <1>2
  <2> QED BY <2>1, <2>2
<1>5. within \in Nat /\ within < 6 * T
  <2> DEFINE a == s * T
             b == 6 * T
  <2>1. a \in Nat /\ a + T <= b /\ b \in Nat
    BY <1>4
  <2> HIDE DEF a, b
  <2>2. a + w \in Nat /\ a + w < b
    BY <1>1, <2>1
  <2> QED BY <2>2 DEF a, b
<1>6. (t * T) + w = (q * (6 * T)) + within
  <2>1. t * T = (q * (6 * T)) + (s * T)
    BY <1>1, <1>2
  <2> DEFINE a == t * T
             b == q * (6 * T)
             c == s * T
  <2>2. a \in Int /\ b \in Int /\ c \in Int
    BY <1>1, <1>2
  <2>3. a = b + c
    BY <2>1
  <2> HIDE DEF a, b, c
  <2>4. a + w = b + (c + w)
    BY <1>1, <2>2, <2>3
  <2> QED BY <2>4 DEF a, b, c
<1> HIDE DEF within
<1>7. ((q * (6 * T)) + within) % (6 * T) = within
  BY <1>2, <1>4, <1>5, DivModUnique
<1>8. TotalRanks(l) = 6 * T
  BY DEF TotalRanks, T
<1> QED BY <1>3, <1>6, <1>7, <1>8 DEF s

LEMMA BoundaryReduced ==
  ASSUME NEW l, NEW n, IsSquare(l, n), NEW m, IsMet(n, m), m.rotations \in Nat
  PROVE  Reduced(Leads(l, m), l) = Leads(l, OnSphere(m))
<1> DEFINE t == m.t
           j == m.j
           i == m.i
           turns == m.rotations
<1>1. t \in Int /\ j \in 0..(n - 1) /\ i \in 0..(n - 1)
  BY DEF IsMet
<1> HIDE DEF t, j, i, turns
<1>2. RankAt(l, t, j, i) % TotalRanks(l) = RankAt(l, t % 6, j, i)
  BY <1>1, RankReduced
<1>3. Leads(l, m) = Boundary(RankAt(l, t, j, i), turns) /\ turns \in Nat
  BY DEF Leads, t, j, i, turns
<1>4. Leads(l, m) # NoBoundary
  BY <1>3 DEF Boundary, NoBoundary
<1>5. Reduced(Leads(l, m), l) = Boundary(RankAt(l, t % 6, j, i), turns)
  BY <1>2, <1>3, <1>4 DEF Reduced, Boundary
<1>6. Leads(l, OnSphere(m)) = Boundary(RankAt(l, t % 6, j, i), turns)
  BY DEF Leads, OnSphere, Met, t, j, i, turns
<1> QED BY <1>5, <1>6

LEMMA MetByType ==
  ASSUME NEW n \in Nat \ {0}, NEW t \in Int, NEW j \in 0..(n - 1), NEW i \in 0..(n - 1),
         NEW type \in Types, ~AtCubeCorner(type, n, j, i)
  PROVE  IsMet(n, ToThe(type, n, t, j, i)) /\ ToThe(type, n, t, j, i).rotations \in {0, 1, 3}
<1> DEFINE Fine(m) == IsMet(n, m) /\ m.rotations \in {0, 1, 3}
<1>1. ASSUME NEW u \in Int, NEW k \in 0..(n - 1), NEW h \in 0..(n - 1), NEW turns \in {0, 1, 3}
      PROVE  Fine(Met(u, k, h, turns))
  BY DEF IsMet, Met
<1> HIDE DEF Fine
<1>2. Fine(ToTheWest(n, t, j, i)) /\ Fine(ToTheEast(n, t, j, i))
      /\ Fine(ToTheNorth(n, t, j, i)) /\ Fine(ToTheSouth(n, t, j, i))
  BY <1>1 DEF ToTheWest, ToTheEast, ToTheNorth, ToTheSouth
<1>3. ~(j = n - 1 /\ i = 0) => Fine(ToTheNorthWest(n, t, j, i))
  BY <1>1 DEF ToTheNorthWest
<1>4. ~(j = n - 1 /\ i = n - 1) => Fine(ToTheNorthEast(n, t, j, i))
  BY <1>1 DEF ToTheNorthEast
<1>5. ~(j = 0 /\ i = 0) => Fine(ToTheSouthWest(n, t, j, i))
  BY <1>1 DEF ToTheSouthWest
<1>6. ~(j = 0 /\ i = n - 1) => Fine(ToTheSouthEast(n, t, j, i))
  BY <1>1 DEF ToTheSouthEast
<1>7. Fine(ToThe(type, n, t, j, i))
  BY <1>2, <1>3, <1>4, <1>5, <1>6 DEF ToThe, AtCubeCorner, Types, Edges, Corners
<1> QED BY <1>7 DEF Fine

LEMMA SphereBoundaryLeads ==
  ASSUME NEW l, NEW n, IsSquare(l, n), NEW t \in Int, NEW j \in 0..(n - 1), NEW i \in 0..(n - 1),
         NEW type \in Types
  PROVE  SphereBoundary(type, RankAt(l, t, j, i), l)
           = IF AtCubeCorner(type, n, j, i) THEN NoBoundary
             ELSE Leads(l, OnSphere(ToThe(type, n, t, j, i)))
<1> DEFINE r == RankAt(l, t, j, i)
           raw == IF AtCubeCorner(type, n, j, i) THEN NoBoundary
                  ELSE Leads(l, ToThe(type, n, t, j, i))
<1>1. /\ LeftEdge(r, l) = Leads(l, ToTheWest(n, t, j, i))
      /\ RightEdge(r, l) = Leads(l, ToTheEast(n, t, j, i))
      /\ TopEdge(r, l) = Leads(l, ToTheNorth(n, t, j, i))
      /\ BottomEdge(r, l) = Leads(l, ToTheSouth(n, t, j, i))
  BY EdgesLead
<1>2. /\ TopLeftCorner(r, l)
           = IF j = n - 1 /\ i = 0 THEN NoBoundary ELSE Leads(l, ToTheNorthWest(n, t, j, i))
      /\ TopRightCorner(r, l)
           = IF j = n - 1 /\ i = n - 1 THEN NoBoundary ELSE Leads(l, ToTheNorthEast(n, t, j, i))
      /\ BottomLeftCorner(r, l)
           = IF j = 0 /\ i = 0 THEN NoBoundary ELSE Leads(l, ToTheSouthWest(n, t, j, i))
      /\ BottomRightCorner(r, l)
           = IF j = 0 /\ i = n - 1 THEN NoBoundary ELSE Leads(l, ToTheSouthEast(n, t, j, i))
  BY CornersLead
<1> HIDE DEF r
<1>3. SphereBoundary(type, r, l) = Reduced(raw, l)
  BY <1>1, <1>2, Zenon DEF SphereBoundary, ToThe, AtCubeCorner, Types, Edges, Corners
<1>4. CASE AtCubeCorner(type, n, j, i)
  BY <1>3, <1>4 DEF Reduced, r
<1>5. CASE ~AtCubeCorner(type, n, j, i)
  <2> DEFINE m == ToThe(type, n, t, j, i)
  <2>0. n \in Nat \ {0}
    BY SquareIs
  <2>1. IsMet(n, m) /\ m.rotations \in {0, 1, 3}
    BY <1>5, <2>0, MetByType
  <2> HIDE DEF m
  <2>2. Reduced(Leads(l, m), l) = Leads(l, OnSphere(m))
    BY <2>1, BoundaryReduced
  <2> QED BY <1>3, <1>5, <2>2 DEF m, r
<1> QED BY <1>4, <1>5

-----------------------------------------------------------------------------
(* Boundaries pair up.                                                     *)

WhereTo(type, n, t, j, i) ==
  LET m == ToThe(type, n, t, j, i) IN <<m.t % 6, m.j, m.i>>

(* The tiles around a tile. *)
LEMMA TilesAround ==
  ASSUME NEW t \in 0..5
  PROVE  /\ (t - 2) % 6 \in 0..5 /\ (t - 1) % 6 \in 0..5
         /\ (t + 1) % 6 \in 0..5 /\ (t + 2) % 6 \in 0..5 /\ t % 6 = t
         /\ (t - 2) % 6 # t /\ (t - 1) % 6 # t /\ (t + 1) % 6 # t /\ (t + 2) % 6 # t
         /\ (t - 2) % 6 # (t - 1) % 6 /\ (t - 2) % 6 # (t + 1) % 6 /\ (t - 2) % 6 # (t + 2) % 6
         /\ (t - 1) % 6 # (t + 1) % 6 /\ (t - 1) % 6 # (t + 2) % 6
         /\ (t + 1) % 6 # (t + 2) % 6
  OBVIOUS

(* Where a boundary leads, with the tiles around by name. *)
Reached(type, even, far, near, next, second, n, t, j, i) ==
  CASE type = "W" ->
         IF i > 0 THEN <<t, j, i - 1>>
         ELSE IF even THEN <<far, n - 1, n - 1 - j>> ELSE <<near, j, n - 1>>
    [] type = "E" ->
         IF i < n - 1 THEN <<t, j, i + 1>>
         ELSE IF even THEN <<next, j, 0>> ELSE <<second, 0, n - 1 - j>>
    [] type = "N" ->
         IF j < n - 1 THEN <<t, j + 1, i>>
         ELSE IF even THEN <<second, n - 1 - i, 0>> ELSE <<next, 0, i>>
    [] type = "S" ->
         IF j > 0 THEN <<t, j - 1, i>>
         ELSE IF even THEN <<near, n - 1, i>> ELSE <<far, n - 1 - i, n - 1>>
    [] type = "NW" ->
         IF i = 0 THEN IF even THEN <<far, n - 1, n - 2 - j>> ELSE <<near, j + 1, n - 1>>
         ELSE IF j < n - 1 THEN <<t, j + 1, i - 1>>
         ELSE IF even THEN <<second, n - i, 0>> ELSE <<next, 0, i - 1>>
    [] type = "NE" ->
         IF j = n - 1 THEN IF even THEN <<second, n - 2 - i, 0>> ELSE <<next, 0, i + 1>>
         ELSE IF i < n - 1 THEN <<t, j + 1, i + 1>>
         ELSE IF even THEN <<next, j + 1, 0>> ELSE <<second, 0, n - 2 - j>>
    [] type = "SW" ->
         IF j = 0 THEN IF even THEN <<near, n - 1, i - 1>> ELSE <<far, n - i, n - 1>>
         ELSE IF i > 0 THEN <<t, j - 1, i - 1>>
         ELSE IF even THEN <<far, n - 1, n - j>> ELSE <<near, j - 1, n - 1>>
    [] type = "SE" ->
         IF j = 0 THEN IF even THEN <<near, n - 1, i + 1>> ELSE <<far, n - 2 - i, n - 1>>
         ELSE IF i < n - 1 THEN <<t, j - 1, i + 1>>
         ELSE IF even THEN <<next, j - 1, 0>> ELSE <<second, 0, n - j>>

LEMMA WhereToIs ==
  ASSUME NEW n \in Nat \ {0}, NEW t \in 0..5, NEW j \in 0..(n - 1), NEW i \in 0..(n - 1),
         NEW type \in Types
  PROVE  WhereTo(type, n, t, j, i)
           = Reached(type, IsEven(t), (t - 2) % 6, (t - 1) % 6, (t + 1) % 6, (t + 2) % 6, n, t, j, i)
<1> DEFINE Is(ty) == WhereTo(ty, n, t, j, i)
                     = Reached(ty, IsEven(t), (t - 2) % 6, (t - 1) % 6, (t + 1) % 6, (t + 2) % 6,
                               n, t, j, i)
<1>1. ASSUME NEW ty, NEW u, NEW k, NEW h, NEW turns, ToThe(ty, n, t, j, i) = Met(u, k, h, turns)
      PROVE  WhereTo(ty, n, t, j, i) = <<u % 6, k, h>>
  BY <1>1 DEF WhereTo, Met
<1>2. t % 6 = t
  BY TilesAround
<1>3. Is("W")
  <2>1. ToThe("W", n, t, j, i) = ToTheWest(n, t, j, i)
    BY DEF ToThe
  <2> QED BY <1>1, <1>2, <2>1, Zenon DEF ToTheWest, Reached
<1>4. Is("E")
  <2>1. ToThe("E", n, t, j, i) = ToTheEast(n, t, j, i)
    BY DEF ToThe
  <2> QED BY <1>1, <1>2, <2>1, Zenon DEF ToTheEast, Reached
<1>5. Is("N")
  <2>1. ToThe("N", n, t, j, i) = ToTheNorth(n, t, j, i)
    BY DEF ToThe
  <2> QED BY <1>1, <1>2, <2>1, Zenon DEF ToTheNorth, Reached
<1>6. Is("S")
  <2>1. ToThe("S", n, t, j, i) = ToTheSouth(n, t, j, i)
    BY DEF ToThe
  <2> QED BY <1>1, <1>2, <2>1, Zenon DEF ToTheSouth, Reached
<1>7. Is("NW")
  <2>1. ToThe("NW", n, t, j, i) = ToTheNorthWest(n, t, j, i)
    BY DEF ToThe
  <2> QED BY <1>1, <1>2, <2>1, Zenon DEF ToTheNorthWest, Reached
<1>8. Is("NE")
  <2>1. ToThe("NE", n, t, j, i) = ToTheNorthEast(n, t, j, i)
    BY DEF ToThe
  <2> QED BY <1>1, <1>2, <2>1, Zenon DEF ToTheNorthEast, Reached
<1>9. Is("SW")
  <2>1. ToThe("SW", n, t, j, i) = ToTheSouthWest(n, t, j, i)
    BY DEF ToThe
  <2> QED BY <1>1, <1>2, <2>1, Zenon DEF ToTheSouthWest, Reached
<1>10. Is("SE")
  <2>1. ToThe("SE", n, t, j, i) = ToTheSouthEast(n, t, j, i)
    BY DEF ToThe
  <2> QED BY <1>1, <1>2, <2>1, Zenon DEF ToTheSouthEast, Reached
<1> HIDE DEF Is
<1>11. Is(type)
  BY <1>3, <1>4, <1>5, <1>6, <1>7, <1>8, <1>9, <1>10 DEF Types, Edges, Corners
<1> QED BY <1>11 DEF Is

(* Where the boundaries of one subtile lead, tile by tile. *)
LEMMA TypesLeadApart ==
  ASSUME NEW n \in Nat \ {0}, NEW t \in 0..5, NEW j \in 0..(n - 1), NEW i \in 0..(n - 1),
         NEW x \in Types, ~AtCubeCorner(x, n, j, i)
  PROVE  /\ WhereTo(x, n, t, j, i) # <<t, j, i>>
         /\ \A y \in Types : y # x /\ ~AtCubeCorner(y, n, j, i)
                               => WhereTo(y, n, t, j, i) # WhereTo(x, n, t, j, i)
<1> DEFINE far == (t - 2) % 6   near == (t - 1) % 6
           next == (t + 1) % 6  second == (t + 2) % 6
           even == IsEven(t)
           To(y) == WhereTo(y, n, t, j, i)
<1>1. /\ far # t /\ near # t /\ next # t /\ second # t /\ far # near /\ far # next
      /\ far # second /\ near # next /\ near # second /\ next # second
  BY TilesAround
<1>2. n \in Nat \ {0} /\ j \in Nat /\ j <= n - 1 /\ i \in Nat /\ i <= n - 1 /\ even \in BOOLEAN
  BY DEF IsEven
<1>0. \A y \in Types : To(y) = Reached(y, even, far, near, next, second, n, t, j, i)
  BY WhereToIs
<1> DEFINE realNW == ~(j = n - 1 /\ i = 0)
           realNE == ~(j = n - 1 /\ i = n - 1)
           realSW == ~(j = 0 /\ i = 0)
           realSE == ~(j = 0 /\ i = n - 1)
<1> HIDE DEF far, near, next, second, even, To
<1>t. /\ To("W")  = Reached("W",  even, far, near, next, second, n, t, j, i)
      /\ To("E")  = Reached("E",  even, far, near, next, second, n, t, j, i)
      /\ To("N")  = Reached("N",  even, far, near, next, second, n, t, j, i)
      /\ To("S")  = Reached("S",  even, far, near, next, second, n, t, j, i)
      /\ To("NW") = Reached("NW", even, far, near, next, second, n, t, j, i)
      /\ To("NE") = Reached("NE", even, far, near, next, second, n, t, j, i)
      /\ To("SW") = Reached("SW", even, far, near, next, second, n, t, j, i)
      /\ To("SE") = Reached("SE", even, far, near, next, second, n, t, j, i)
  BY <1>0 DEF Types, Edges, Corners
<1>3. To("W") # To("E") /\ To("W") # To("N") /\ To("W") # To("S") /\ To("E") # To("N")
      /\ To("E") # To("S") /\ To("N") # To("S")
  BY <1>1, <1>2, <1>t DEF Reached
<1>4. realNW => To("NW") # To("W") /\ To("NW") # To("E") /\ To("NW") # To("N") /\ To("NW") # To("S")
  BY <1>1, <1>2, <1>t DEF Reached
<1>5. realNE => To("NE") # To("W") /\ To("NE") # To("E") /\ To("NE") # To("N") /\ To("NE") # To("S")
  BY <1>1, <1>2, <1>t DEF Reached
<1>6. realSW => To("SW") # To("W") /\ To("SW") # To("E") /\ To("SW") # To("N") /\ To("SW") # To("S")
  BY <1>1, <1>2, <1>t DEF Reached
<1>7. realSE => To("SE") # To("W") /\ To("SE") # To("E") /\ To("SE") # To("N") /\ To("SE") # To("S")
  BY <1>1, <1>2, <1>t DEF Reached
<1>8. /\ realNW /\ realNE => To("NW") # To("NE")
      /\ realNW /\ realSW => To("NW") # To("SW")
      /\ realNW /\ realSE => To("NW") # To("SE")
  BY <1>1, <1>2, <1>t DEF Reached
<1>9. /\ realNE /\ realSW => To("NE") # To("SW")
      /\ realNE /\ realSE => To("NE") # To("SE")
      /\ realSW /\ realSE => To("SW") # To("SE")
  BY <1>1, <1>2, <1>t DEF Reached
<1>10. /\ To("W") # <<t, j, i>> /\ To("E") # <<t, j, i>> /\ To("N") # <<t, j, i>> /\ To("S") # <<t, j, i>>
       /\ realNW => To("NW") # <<t, j, i>>
       /\ realNE => To("NE") # <<t, j, i>>
       /\ realSW => To("SW") # <<t, j, i>>
       /\ realSE => To("SE") # <<t, j, i>>
  BY <1>1, <1>2, <1>t DEF Reached
<1>11. \A y \in Types : ~AtCubeCorner(y, n, j, i) =>
         (y = "NW" => realNW) /\ (y = "NE" => realNE) /\ (y = "SW" => realSW) /\ (y = "SE" => realSE)
  BY DEF AtCubeCorner
<1> HIDE DEF realNW, realNE, realSW, realSE
<1>12. To(x) # <<t, j, i>>
  BY <1>10, <1>11 DEF Types, Edges, Corners
<1>13. ASSUME NEW y \in Types, y # x, ~AtCubeCorner(y, n, j, i)
       PROVE  To(y) # To(x)
  BY <1>3, <1>4, <1>5, <1>6, <1>7, <1>8, <1>9, <1>11, <1>13 DEF Types, Edges, Corners
<1> QED BY <1>12, <1>13 DEF To

(* The boundary that leads back. *)
Answer(type, n, t, j, i) ==
  CASE type = "W"  -> IF i = 0 /\ IsEven(t) THEN "N" ELSE "E"
    [] type = "E"  -> IF i = n - 1 /\ ~IsEven(t) THEN "S" ELSE "W"
    [] type = "N"  -> IF j = n - 1 /\ IsEven(t) THEN "W" ELSE "S"
    [] type = "S"  -> IF j = 0 /\ ~IsEven(t) THEN "E" ELSE "N"
    [] type = "NW" -> IF i = 0 /\ IsEven(t) THEN "NE"
                      ELSE IF j = n - 1 /\ IsEven(t) THEN "SW" ELSE "SE"
    [] type = "NE" -> IF j = n - 1 /\ IsEven(t) THEN "NW"
                      ELSE IF i = n - 1 /\ ~IsEven(t) THEN "SE" ELSE "SW"
    [] type = "SW" -> IF j = 0 /\ ~IsEven(t) THEN "SE"
                      ELSE IF i = 0 /\ IsEven(t) THEN "NW" ELSE "NE"
    [] type = "SE" -> IF j = 0 /\ ~IsEven(t) THEN "NE"
                      ELSE IF i = n - 1 /\ ~IsEven(t) THEN "SW" ELSE "NW"

AnsweredBy(back, n, t, j, i, m) ==
  LET b == ToThe(back, n, m.t % 6, m.j, m.i)
  IN  /\ ~AtCubeCorner(back, n, m.j, m.i)
      /\ b.t % 6 = t /\ b.j = j /\ b.i = i /\ (m.rotations + b.rotations) % 4 = 0

(* There and back again, on the tiles around. *)
LEMMA TilesAnswer ==
  ASSUME NEW t \in 0..5
  PROVE  /\ t % 6 = t
         /\ (((t - 2) % 6) + 2) % 6 = t /\ (((t + 2) % 6) - 2) % 6 = t
         /\ (((t - 1) % 6) + 1) % 6 = t /\ (((t + 1) % 6) - 1) % 6 = t
         /\ IsEven((t - 2) % 6) <=> IsEven(t)
         /\ IsEven((t + 2) % 6) <=> IsEven(t)
         /\ IsEven((t - 1) % 6) <=> ~IsEven(t)
         /\ IsEven((t + 1) % 6) <=> ~IsEven(t)
  BY DEF IsEven

LEMMA BoundariesAnswer ==
  ASSUME NEW n \in Nat \ {0}, NEW t \in 0..5, NEW j \in 0..(n - 1), NEW i \in 0..(n - 1),
         NEW type \in Types, ~AtCubeCorner(type, n, j, i)
  PROVE  AnsweredBy(Answer(type, n, t, j, i), n, t, j, i, ToThe(type, n, t, j, i))
<1>1. n \in Nat \ {0} /\ j \in Nat /\ j <= n - 1 /\ i \in Nat /\ i <= n - 1 /\ t \in Int
  OBVIOUS
<1>2. ASSUME NEW back, NEW u, NEW k, NEW h, NEW turns, NEW v, NEW others,
             ToThe(back, n, u % 6, k, h) = Met(v, j, i, others), v % 6 = t,
             (turns + others) % 4 = 0, ~AtCubeCorner(back, n, k, h)
      PROVE  AnsweredBy(back, n, t, j, i, Met(u, k, h, turns))
  BY <1>2 DEF AnsweredBy, Met
<1>3. CASE type = "W"
  <2>1. CASE i > 0
    <3>1. ToThe(type, n, t, j, i) = Met(t, j, i - 1, 0)
      BY <1>1, <1>3, <2>1 DEF ToThe, ToTheWest
    <3>2. Answer(type, n, t, j, i) = "E"
      BY <1>1, <1>3, <2>1 DEF Answer
    <3>3. ToThe("E", n, t % 6, j, i - 1) = Met(t % 6, j, i, 0)
      BY <1>1, <2>1, TilesAnswer DEF ToThe, ToTheEast
    <3>4. ~AtCubeCorner("E", n, j, i - 1)
      BY DEF AtCubeCorner
    <3>5. (t % 6) % 6 = t /\ (0 + 0) % 4 = 0
      BY TilesAnswer
    <3> QED BY <1>2, <3>1, <3>2, <3>3, <3>4, <3>5, Zenon
  <2>2. CASE i = 0 /\ IsEven(t)
    <3>1. ToThe(type, n, t, j, i) = Met(t - 2, n - 1, n - 1 - j, 1)
      BY <1>1, <1>3, <2>2 DEF ToThe, ToTheWest
    <3>2. Answer(type, n, t, j, i) = "N"
      BY <1>1, <1>3, <2>2 DEF Answer
    <3>3. ToThe("N", n, (t - 2) % 6, n - 1, n - 1 - j) = Met(((t - 2) % 6) + 2, j, i, 3)
      BY <1>1, <2>2, TilesAnswer DEF ToThe, ToTheNorth
    <3>4. ~AtCubeCorner("N", n, n - 1, n - 1 - j)
      BY DEF AtCubeCorner
    <3>5. (((t - 2) % 6) + 2) % 6 = t /\ (1 + 3) % 4 = 0
      BY TilesAnswer
    <3> QED BY <1>2, <3>1, <3>2, <3>3, <3>4, <3>5, Zenon
  <2>3. CASE i = 0 /\ ~IsEven(t)
    <3>1. ToThe(type, n, t, j, i) = Met(t - 1, j, n - 1, 0)
      BY <1>1, <1>3, <2>3 DEF ToThe, ToTheWest
    <3>2. Answer(type, n, t, j, i) = "E"
      BY <1>1, <1>3, <2>3 DEF Answer
    <3>3. ToThe("E", n, (t - 1) % 6, j, n - 1) = Met(((t - 1) % 6) + 1, j, i, 0)
      BY <1>1, <2>3, TilesAnswer DEF ToThe, ToTheEast
    <3>4. ~AtCubeCorner("E", n, j, n - 1)
      BY DEF AtCubeCorner
    <3>5. (((t - 1) % 6) + 1) % 6 = t /\ (0 + 0) % 4 = 0
      BY TilesAnswer
    <3> QED BY <1>2, <3>1, <3>2, <3>3, <3>4, <3>5, Zenon
  <2> QED BY <1>1, <1>3, <2>1, <2>2, <2>3 DEF AtCubeCorner
<1>4. CASE type = "E"
  <2>1. CASE i < n - 1
    <3>1. ToThe(type, n, t, j, i) = Met(t, j, i + 1, 0)
      BY <1>1, <1>4, <2>1 DEF ToThe, ToTheEast
    <3>2. Answer(type, n, t, j, i) = "W"
      BY <1>1, <1>4, <2>1 DEF Answer
    <3>3. ToThe("W", n, t % 6, j, i + 1) = Met(t % 6, j, i, 0)
      BY <1>1, <2>1, TilesAnswer DEF ToThe, ToTheWest
    <3>4. ~AtCubeCorner("W", n, j, i + 1)
      BY DEF AtCubeCorner
    <3>5. (t % 6) % 6 = t /\ (0 + 0) % 4 = 0
      BY TilesAnswer
    <3> QED BY <1>2, <3>1, <3>2, <3>3, <3>4, <3>5, Zenon
  <2>2. CASE i = n - 1 /\ IsEven(t)
    <3>1. ToThe(type, n, t, j, i) = Met(t + 1, j, 0, 0)
      BY <1>1, <1>4, <2>2 DEF ToThe, ToTheEast
    <3>2. Answer(type, n, t, j, i) = "W"
      BY <1>1, <1>4, <2>2 DEF Answer
    <3>3. ToThe("W", n, (t + 1) % 6, j, 0) = Met(((t + 1) % 6) - 1, j, i, 0)
      BY <1>1, <2>2, TilesAnswer DEF ToThe, ToTheWest
    <3>4. ~AtCubeCorner("W", n, j, 0)
      BY DEF AtCubeCorner
    <3>5. (((t + 1) % 6) - 1) % 6 = t /\ (0 + 0) % 4 = 0
      BY TilesAnswer
    <3> QED BY <1>2, <3>1, <3>2, <3>3, <3>4, <3>5, Zenon
  <2>3. CASE i = n - 1 /\ ~IsEven(t)
    <3>1. ToThe(type, n, t, j, i) = Met(t + 2, 0, n - 1 - j, 1)
      BY <1>1, <1>4, <2>3 DEF ToThe, ToTheEast
    <3>2. Answer(type, n, t, j, i) = "S"
      BY <1>1, <1>4, <2>3 DEF Answer
    <3>3. ToThe("S", n, (t + 2) % 6, 0, n - 1 - j) = Met(((t + 2) % 6) - 2, j, i, 3)
      BY <1>1, <2>3, TilesAnswer DEF ToThe, ToTheSouth
    <3>4. ~AtCubeCorner("S", n, 0, n - 1 - j)
      BY DEF AtCubeCorner
    <3>5. (((t + 2) % 6) - 2) % 6 = t /\ (1 + 3) % 4 = 0
      BY TilesAnswer
    <3> QED BY <1>2, <3>1, <3>2, <3>3, <3>4, <3>5, Zenon
  <2> QED BY <1>1, <1>4, <2>1, <2>2, <2>3 DEF AtCubeCorner
<1>5. CASE type = "N"
  <2>1. CASE j < n - 1
    <3>1. ToThe(type, n, t, j, i) = Met(t, j + 1, i, 0)
      BY <1>1, <1>5, <2>1 DEF ToThe, ToTheNorth
    <3>2. Answer(type, n, t, j, i) = "S"
      BY <1>1, <1>5, <2>1 DEF Answer
    <3>3. ToThe("S", n, t % 6, j + 1, i) = Met(t % 6, j, i, 0)
      BY <1>1, <2>1, TilesAnswer DEF ToThe, ToTheSouth
    <3>4. ~AtCubeCorner("S", n, j + 1, i)
      BY DEF AtCubeCorner
    <3>5. (t % 6) % 6 = t /\ (0 + 0) % 4 = 0
      BY TilesAnswer
    <3> QED BY <1>2, <3>1, <3>2, <3>3, <3>4, <3>5, Zenon
  <2>2. CASE j = n - 1 /\ IsEven(t)
    <3>1. ToThe(type, n, t, j, i) = Met(t + 2, n - 1 - i, 0, 3)
      BY <1>1, <1>5, <2>2 DEF ToThe, ToTheNorth
    <3>2. Answer(type, n, t, j, i) = "W"
      BY <1>1, <1>5, <2>2 DEF Answer
    <3>3. ToThe("W", n, (t + 2) % 6, n - 1 - i, 0) = Met(((t + 2) % 6) - 2, j, i, 1)
      BY <1>1, <2>2, TilesAnswer DEF ToThe, ToTheWest
    <3>4. ~AtCubeCorner("W", n, n - 1 - i, 0)
      BY DEF AtCubeCorner
    <3>5. (((t + 2) % 6) - 2) % 6 = t /\ (3 + 1) % 4 = 0
      BY TilesAnswer
    <3> QED BY <1>2, <3>1, <3>2, <3>3, <3>4, <3>5, Zenon
  <2>3. CASE j = n - 1 /\ ~IsEven(t)
    <3>1. ToThe(type, n, t, j, i) = Met(t + 1, 0, i, 0)
      BY <1>1, <1>5, <2>3 DEF ToThe, ToTheNorth
    <3>2. Answer(type, n, t, j, i) = "S"
      BY <1>1, <1>5, <2>3 DEF Answer
    <3>3. ToThe("S", n, (t + 1) % 6, 0, i) = Met(((t + 1) % 6) - 1, j, i, 0)
      BY <1>1, <2>3, TilesAnswer DEF ToThe, ToTheSouth
    <3>4. ~AtCubeCorner("S", n, 0, i)
      BY DEF AtCubeCorner
    <3>5. (((t + 1) % 6) - 1) % 6 = t /\ (0 + 0) % 4 = 0
      BY TilesAnswer
    <3> QED BY <1>2, <3>1, <3>2, <3>3, <3>4, <3>5, Zenon
  <2> QED BY <1>1, <1>5, <2>1, <2>2, <2>3 DEF AtCubeCorner
<1>6. CASE type = "S"
  <2>1. CASE j > 0
    <3>1. ToThe(type, n, t, j, i) = Met(t, j - 1, i, 0)
      BY <1>1, <1>6, <2>1 DEF ToThe, ToTheSouth
    <3>2. Answer(type, n, t, j, i) = "N"
      BY <1>1, <1>6, <2>1 DEF Answer
    <3>3. ToThe("N", n, t % 6, j - 1, i) = Met(t % 6, j, i, 0)
      BY <1>1, <2>1, TilesAnswer DEF ToThe, ToTheNorth
    <3>4. ~AtCubeCorner("N", n, j - 1, i)
      BY DEF AtCubeCorner
    <3>5. (t % 6) % 6 = t /\ (0 + 0) % 4 = 0
      BY TilesAnswer
    <3> QED BY <1>2, <3>1, <3>2, <3>3, <3>4, <3>5, Zenon
  <2>2. CASE j = 0 /\ IsEven(t)
    <3>1. ToThe(type, n, t, j, i) = Met(t - 1, n - 1, i, 0)
      BY <1>1, <1>6, <2>2 DEF ToThe, ToTheSouth
    <3>2. Answer(type, n, t, j, i) = "N"
      BY <1>1, <1>6, <2>2 DEF Answer
    <3>3. ToThe("N", n, (t - 1) % 6, n - 1, i) = Met(((t - 1) % 6) + 1, j, i, 0)
      BY <1>1, <2>2, TilesAnswer DEF ToThe, ToTheNorth
    <3>4. ~AtCubeCorner("N", n, n - 1, i)
      BY DEF AtCubeCorner
    <3>5. (((t - 1) % 6) + 1) % 6 = t /\ (0 + 0) % 4 = 0
      BY TilesAnswer
    <3> QED BY <1>2, <3>1, <3>2, <3>3, <3>4, <3>5, Zenon
  <2>3. CASE j = 0 /\ ~IsEven(t)
    <3>1. ToThe(type, n, t, j, i) = Met(t - 2, n - 1 - i, n - 1, 3)
      BY <1>1, <1>6, <2>3 DEF ToThe, ToTheSouth
    <3>2. Answer(type, n, t, j, i) = "E"
      BY <1>1, <1>6, <2>3 DEF Answer
    <3>3. ToThe("E", n, (t - 2) % 6, n - 1 - i, n - 1) = Met(((t - 2) % 6) + 2, j, i, 1)
      BY <1>1, <2>3, TilesAnswer DEF ToThe, ToTheEast
    <3>4. ~AtCubeCorner("E", n, n - 1 - i, n - 1)
      BY DEF AtCubeCorner
    <3>5. (((t - 2) % 6) + 2) % 6 = t /\ (3 + 1) % 4 = 0
      BY TilesAnswer
    <3> QED BY <1>2, <3>1, <3>2, <3>3, <3>4, <3>5, Zenon
  <2> QED BY <1>1, <1>6, <2>1, <2>2, <2>3 DEF AtCubeCorner
<1>7. CASE type = "NW"
  <2>1. CASE j < n - 1 /\ i > 0
    <3>1. ToThe(type, n, t, j, i) = Met(t, j + 1, i - 1, 0)
      BY <1>1, <1>7, <2>1 DEF ToThe, ToTheNorthWest
    <3>2. Answer(type, n, t, j, i) = "SE"
      BY <1>1, <1>7, <2>1 DEF Answer
    <3>3. ToThe("SE", n, t % 6, j + 1, i - 1) = Met(t % 6, j, i, 0)
      BY <1>1, <2>1, TilesAnswer DEF ToThe, ToTheSouthEast
    <3>4. ~AtCubeCorner("SE", n, j + 1, i - 1)
      BY <1>1, <2>1 DEF AtCubeCorner
    <3>5. (t % 6) % 6 = t /\ (0 + 0) % 4 = 0
      BY TilesAnswer
    <3> QED BY <1>2, <3>1, <3>2, <3>3, <3>4, <3>5, Zenon
  <2>2. CASE j < n - 1 /\ i = 0 /\ IsEven(t)
    <3>1. ToThe(type, n, t, j, i) = Met(t - 2, n - 1, n - 2 - j, 1)
      BY <1>1, <1>7, <2>2 DEF ToThe, ToTheNorthWest
    <3>2. Answer(type, n, t, j, i) = "NE"
      BY <1>1, <1>7, <2>2 DEF Answer
    <3>3. ToThe("NE", n, (t - 2) % 6, n - 1, n - 2 - j) = Met(((t - 2) % 6) + 2, j, i, 3)
      BY <1>1, <2>2, TilesAnswer DEF ToThe, ToTheNorthEast
    <3>4. ~AtCubeCorner("NE", n, n - 1, n - 2 - j)
      BY <1>1, <2>2 DEF AtCubeCorner
    <3>5. (((t - 2) % 6) + 2) % 6 = t /\ (1 + 3) % 4 = 0
      BY TilesAnswer
    <3> QED BY <1>2, <3>1, <3>2, <3>3, <3>4, <3>5, Zenon
  <2>3. CASE j < n - 1 /\ i = 0 /\ ~IsEven(t)
    <3>1. ToThe(type, n, t, j, i) = Met(t - 1, j + 1, n - 1, 0)
      BY <1>1, <1>7, <2>3 DEF ToThe, ToTheNorthWest
    <3>2. Answer(type, n, t, j, i) = "SE"
      BY <1>1, <1>7, <2>3 DEF Answer
    <3>3. ToThe("SE", n, (t - 1) % 6, j + 1, n - 1) = Met(((t - 1) % 6) + 1, j, i, 0)
      BY <1>1, <2>3, TilesAnswer DEF ToThe, ToTheSouthEast
    <3>4. ~AtCubeCorner("SE", n, j + 1, n - 1)
      BY <1>1, <2>3 DEF AtCubeCorner
    <3>5. (((t - 1) % 6) + 1) % 6 = t /\ (0 + 0) % 4 = 0
      BY TilesAnswer
    <3> QED BY <1>2, <3>1, <3>2, <3>3, <3>4, <3>5, Zenon
  <2>4. CASE j = n - 1 /\ i > 0 /\ IsEven(t)
    <3>1. ToThe(type, n, t, j, i) = Met(t + 2, n - i, 0, 3)
      BY <1>1, <1>7, <2>4 DEF ToThe, ToTheNorthWest
    <3>2. Answer(type, n, t, j, i) = "SW"
      BY <1>1, <1>7, <2>4 DEF Answer
    <3>3. ToThe("SW", n, (t + 2) % 6, n - i, 0) = Met(((t + 2) % 6) - 2, j, i, 1)
      BY <1>1, <2>4, TilesAnswer DEF ToThe, ToTheSouthWest
    <3>4. ~AtCubeCorner("SW", n, n - i, 0)
      BY <1>1, <2>4 DEF AtCubeCorner
    <3>5. (((t + 2) % 6) - 2) % 6 = t /\ (3 + 1) % 4 = 0
      BY TilesAnswer
    <3> QED BY <1>2, <3>1, <3>2, <3>3, <3>4, <3>5, Zenon
  <2>5. CASE j = n - 1 /\ i > 0 /\ ~IsEven(t)
    <3>1. ToThe(type, n, t, j, i) = Met(t + 1, 0, i - 1, 0)
      BY <1>1, <1>7, <2>5 DEF ToThe, ToTheNorthWest
    <3>2. Answer(type, n, t, j, i) = "SE"
      BY <1>1, <1>7, <2>5 DEF Answer
    <3>3. ToThe("SE", n, (t + 1) % 6, 0, i - 1) = Met(((t + 1) % 6) - 1, j, i, 0)
      BY <1>1, <2>5, TilesAnswer DEF ToThe, ToTheSouthEast
    <3>4. ~AtCubeCorner("SE", n, 0, i - 1)
      BY <1>1, <2>5 DEF AtCubeCorner
    <3>5. (((t + 1) % 6) - 1) % 6 = t /\ (0 + 0) % 4 = 0
      BY TilesAnswer
    <3> QED BY <1>2, <3>1, <3>2, <3>3, <3>4, <3>5, Zenon
  <2> QED BY <1>1, <1>7, <2>1, <2>2, <2>3, <2>4, <2>5 DEF AtCubeCorner
<1>8. CASE type = "NE"
  <2>1. CASE j < n - 1 /\ i < n - 1
    <3>1. ToThe(type, n, t, j, i) = Met(t, j + 1, i + 1, 0)
      BY <1>1, <1>8, <2>1 DEF ToThe, ToTheNorthEast
    <3>2. Answer(type, n, t, j, i) = "SW"
      BY <1>1, <1>8, <2>1 DEF Answer
    <3>3. ToThe("SW", n, t % 6, j + 1, i + 1) = Met(t % 6, j, i, 0)
      BY <1>1, <2>1, TilesAnswer DEF ToThe, ToTheSouthWest
    <3>4. ~AtCubeCorner("SW", n, j + 1, i + 1)
      BY <1>1, <2>1 DEF AtCubeCorner
    <3>5. (t % 6) % 6 = t /\ (0 + 0) % 4 = 0
      BY TilesAnswer
    <3> QED BY <1>2, <3>1, <3>2, <3>3, <3>4, <3>5, Zenon
  <2>2. CASE j = n - 1 /\ i < n - 1 /\ IsEven(t)
    <3>1. ToThe(type, n, t, j, i) = Met(t + 2, n - 2 - i, 0, 3)
      BY <1>1, <1>8, <2>2 DEF ToThe, ToTheNorthEast
    <3>2. Answer(type, n, t, j, i) = "NW"
      BY <1>1, <1>8, <2>2 DEF Answer
    <3>3. ToThe("NW", n, (t + 2) % 6, n - 2 - i, 0) = Met(((t + 2) % 6) - 2, j, i, 1)
      BY <1>1, <2>2, TilesAnswer DEF ToThe, ToTheNorthWest
    <3>4. ~AtCubeCorner("NW", n, n - 2 - i, 0)
      BY <1>1, <2>2 DEF AtCubeCorner
    <3>5. (((t + 2) % 6) - 2) % 6 = t /\ (3 + 1) % 4 = 0
      BY TilesAnswer
    <3> QED BY <1>2, <3>1, <3>2, <3>3, <3>4, <3>5, Zenon
  <2>3. CASE j = n - 1 /\ i < n - 1 /\ ~IsEven(t)
    <3>1. ToThe(type, n, t, j, i) = Met(t + 1, 0, i + 1, 0)
      BY <1>1, <1>8, <2>3 DEF ToThe, ToTheNorthEast
    <3>2. Answer(type, n, t, j, i) = "SW"
      BY <1>1, <1>8, <2>3 DEF Answer
    <3>3. ToThe("SW", n, (t + 1) % 6, 0, i + 1) = Met(((t + 1) % 6) - 1, j, i, 0)
      BY <1>1, <2>3, TilesAnswer DEF ToThe, ToTheSouthWest
    <3>4. ~AtCubeCorner("SW", n, 0, i + 1)
      BY <1>1, <2>3 DEF AtCubeCorner
    <3>5. (((t + 1) % 6) - 1) % 6 = t /\ (0 + 0) % 4 = 0
      BY TilesAnswer
    <3> QED BY <1>2, <3>1, <3>2, <3>3, <3>4, <3>5, Zenon
  <2>4. CASE j < n - 1 /\ i = n - 1 /\ IsEven(t)
    <3>1. ToThe(type, n, t, j, i) = Met(t + 1, j + 1, 0, 0)
      BY <1>1, <1>8, <2>4 DEF ToThe, ToTheNorthEast
    <3>2. Answer(type, n, t, j, i) = "SW"
      BY <1>1, <1>8, <2>4 DEF Answer
    <3>3. ToThe("SW", n, (t + 1) % 6, j + 1, 0) = Met(((t + 1) % 6) - 1, j, i, 0)
      BY <1>1, <2>4, TilesAnswer DEF ToThe, ToTheSouthWest
    <3>4. ~AtCubeCorner("SW", n, j + 1, 0)
      BY <1>1, <2>4 DEF AtCubeCorner
    <3>5. (((t + 1) % 6) - 1) % 6 = t /\ (0 + 0) % 4 = 0
      BY TilesAnswer
    <3> QED BY <1>2, <3>1, <3>2, <3>3, <3>4, <3>5, Zenon
  <2>5. CASE j < n - 1 /\ i = n - 1 /\ ~IsEven(t)
    <3>1. ToThe(type, n, t, j, i) = Met(t + 2, 0, n - 2 - j, 1)
      BY <1>1, <1>8, <2>5 DEF ToThe, ToTheNorthEast
    <3>2. Answer(type, n, t, j, i) = "SE"
      BY <1>1, <1>8, <2>5 DEF Answer
    <3>3. ToThe("SE", n, (t + 2) % 6, 0, n - 2 - j) = Met(((t + 2) % 6) - 2, j, i, 3)
      BY <1>1, <2>5, TilesAnswer DEF ToThe, ToTheSouthEast
    <3>4. ~AtCubeCorner("SE", n, 0, n - 2 - j)
      BY <1>1, <2>5 DEF AtCubeCorner
    <3>5. (((t + 2) % 6) - 2) % 6 = t /\ (1 + 3) % 4 = 0
      BY TilesAnswer
    <3> QED BY <1>2, <3>1, <3>2, <3>3, <3>4, <3>5, Zenon
  <2> QED BY <1>1, <1>8, <2>1, <2>2, <2>3, <2>4, <2>5 DEF AtCubeCorner
<1>9. CASE type = "SW"
  <2>1. CASE j > 0 /\ i > 0
    <3>1. ToThe(type, n, t, j, i) = Met(t, j - 1, i - 1, 0)
      BY <1>1, <1>9, <2>1 DEF ToThe, ToTheSouthWest
    <3>2. Answer(type, n, t, j, i) = "NE"
      BY <1>1, <1>9, <2>1 DEF Answer
    <3>3. ToThe("NE", n, t % 6, j - 1, i - 1) = Met(t % 6, j, i, 0)
      BY <1>1, <2>1, TilesAnswer DEF ToThe, ToTheNorthEast
    <3>4. ~AtCubeCorner("NE", n, j - 1, i - 1)
      BY <1>1, <2>1 DEF AtCubeCorner
    <3>5. (t % 6) % 6 = t /\ (0 + 0) % 4 = 0
      BY TilesAnswer
    <3> QED BY <1>2, <3>1, <3>2, <3>3, <3>4, <3>5, Zenon
  <2>2. CASE j = 0 /\ i > 0 /\ IsEven(t)
    <3>1. ToThe(type, n, t, j, i) = Met(t - 1, n - 1, i - 1, 0)
      BY <1>1, <1>9, <2>2 DEF ToThe, ToTheSouthWest
    <3>2. Answer(type, n, t, j, i) = "NE"
      BY <1>1, <1>9, <2>2 DEF Answer
    <3>3. ToThe("NE", n, (t - 1) % 6, n - 1, i - 1) = Met(((t - 1) % 6) + 1, j, i, 0)
      BY <1>1, <2>2, TilesAnswer DEF ToThe, ToTheNorthEast
    <3>4. ~AtCubeCorner("NE", n, n - 1, i - 1)
      BY <1>1, <2>2 DEF AtCubeCorner
    <3>5. (((t - 1) % 6) + 1) % 6 = t /\ (0 + 0) % 4 = 0
      BY TilesAnswer
    <3> QED BY <1>2, <3>1, <3>2, <3>3, <3>4, <3>5, Zenon
  <2>3. CASE j = 0 /\ i > 0 /\ ~IsEven(t)
    <3>1. ToThe(type, n, t, j, i) = Met(t - 2, n - i, n - 1, 3)
      BY <1>1, <1>9, <2>3 DEF ToThe, ToTheSouthWest
    <3>2. Answer(type, n, t, j, i) = "SE"
      BY <1>1, <1>9, <2>3 DEF Answer
    <3>3. ToThe("SE", n, (t - 2) % 6, n - i, n - 1) = Met(((t - 2) % 6) + 2, j, i, 1)
      BY <1>1, <2>3, TilesAnswer DEF ToThe, ToTheSouthEast
    <3>4. ~AtCubeCorner("SE", n, n - i, n - 1)
      BY <1>1, <2>3 DEF AtCubeCorner
    <3>5. (((t - 2) % 6) + 2) % 6 = t /\ (3 + 1) % 4 = 0
      BY TilesAnswer
    <3> QED BY <1>2, <3>1, <3>2, <3>3, <3>4, <3>5, Zenon
  <2>4. CASE j > 0 /\ i = 0 /\ IsEven(t)
    <3>1. ToThe(type, n, t, j, i) = Met(t - 2, n - 1, n - j, 1)
      BY <1>1, <1>9, <2>4 DEF ToThe, ToTheSouthWest
    <3>2. Answer(type, n, t, j, i) = "NW"
      BY <1>1, <1>9, <2>4 DEF Answer
    <3>3. ToThe("NW", n, (t - 2) % 6, n - 1, n - j) = Met(((t - 2) % 6) + 2, j, i, 3)
      BY <1>1, <2>4, TilesAnswer DEF ToThe, ToTheNorthWest
    <3>4. ~AtCubeCorner("NW", n, n - 1, n - j)
      BY <1>1, <2>4 DEF AtCubeCorner
    <3>5. (((t - 2) % 6) + 2) % 6 = t /\ (1 + 3) % 4 = 0
      BY TilesAnswer
    <3> QED BY <1>2, <3>1, <3>2, <3>3, <3>4, <3>5, Zenon
  <2>5. CASE j > 0 /\ i = 0 /\ ~IsEven(t)
    <3>1. ToThe(type, n, t, j, i) = Met(t - 1, j - 1, n - 1, 0)
      BY <1>1, <1>9, <2>5 DEF ToThe, ToTheSouthWest
    <3>2. Answer(type, n, t, j, i) = "NE"
      BY <1>1, <1>9, <2>5 DEF Answer
    <3>3. ToThe("NE", n, (t - 1) % 6, j - 1, n - 1) = Met(((t - 1) % 6) + 1, j, i, 0)
      BY <1>1, <2>5, TilesAnswer DEF ToThe, ToTheNorthEast
    <3>4. ~AtCubeCorner("NE", n, j - 1, n - 1)
      BY <1>1, <2>5 DEF AtCubeCorner
    <3>5. (((t - 1) % 6) + 1) % 6 = t /\ (0 + 0) % 4 = 0
      BY TilesAnswer
    <3> QED BY <1>2, <3>1, <3>2, <3>3, <3>4, <3>5, Zenon
  <2> QED BY <1>1, <1>9, <2>1, <2>2, <2>3, <2>4, <2>5 DEF AtCubeCorner
<1>10. CASE type = "SE"
  <2>1. CASE j > 0 /\ i < n - 1
    <3>1. ToThe(type, n, t, j, i) = Met(t, j - 1, i + 1, 0)
      BY <1>1, <1>10, <2>1 DEF ToThe, ToTheSouthEast
    <3>2. Answer(type, n, t, j, i) = "NW"
      BY <1>1, <1>10, <2>1 DEF Answer
    <3>3. ToThe("NW", n, t % 6, j - 1, i + 1) = Met(t % 6, j, i, 0)
      BY <1>1, <2>1, TilesAnswer DEF ToThe, ToTheNorthWest
    <3>4. ~AtCubeCorner("NW", n, j - 1, i + 1)
      BY <1>1, <2>1 DEF AtCubeCorner
    <3>5. (t % 6) % 6 = t /\ (0 + 0) % 4 = 0
      BY TilesAnswer
    <3> QED BY <1>2, <3>1, <3>2, <3>3, <3>4, <3>5, Zenon
  <2>2. CASE j = 0 /\ i < n - 1 /\ IsEven(t)
    <3>1. ToThe(type, n, t, j, i) = Met(t - 1, n - 1, i + 1, 0)
      BY <1>1, <1>10, <2>2 DEF ToThe, ToTheSouthEast
    <3>2. Answer(type, n, t, j, i) = "NW"
      BY <1>1, <1>10, <2>2 DEF Answer
    <3>3. ToThe("NW", n, (t - 1) % 6, n - 1, i + 1) = Met(((t - 1) % 6) + 1, j, i, 0)
      BY <1>1, <2>2, TilesAnswer DEF ToThe, ToTheNorthWest
    <3>4. ~AtCubeCorner("NW", n, n - 1, i + 1)
      BY <1>1, <2>2 DEF AtCubeCorner
    <3>5. (((t - 1) % 6) + 1) % 6 = t /\ (0 + 0) % 4 = 0
      BY TilesAnswer
    <3> QED BY <1>2, <3>1, <3>2, <3>3, <3>4, <3>5, Zenon
  <2>3. CASE j = 0 /\ i < n - 1 /\ ~IsEven(t)
    <3>1. ToThe(type, n, t, j, i) = Met(t - 2, n - 2 - i, n - 1, 3)
      BY <1>1, <1>10, <2>3 DEF ToThe, ToTheSouthEast
    <3>2. Answer(type, n, t, j, i) = "NE"
      BY <1>1, <1>10, <2>3 DEF Answer
    <3>3. ToThe("NE", n, (t - 2) % 6, n - 2 - i, n - 1) = Met(((t - 2) % 6) + 2, j, i, 1)
      BY <1>1, <2>3, TilesAnswer DEF ToThe, ToTheNorthEast
    <3>4. ~AtCubeCorner("NE", n, n - 2 - i, n - 1)
      BY <1>1, <2>3 DEF AtCubeCorner
    <3>5. (((t - 2) % 6) + 2) % 6 = t /\ (3 + 1) % 4 = 0
      BY TilesAnswer
    <3> QED BY <1>2, <3>1, <3>2, <3>3, <3>4, <3>5, Zenon
  <2>4. CASE j > 0 /\ i = n - 1 /\ IsEven(t)
    <3>1. ToThe(type, n, t, j, i) = Met(t + 1, j - 1, 0, 0)
      BY <1>1, <1>10, <2>4 DEF ToThe, ToTheSouthEast
    <3>2. Answer(type, n, t, j, i) = "NW"
      BY <1>1, <1>10, <2>4 DEF Answer
    <3>3. ToThe("NW", n, (t + 1) % 6, j - 1, 0) = Met(((t + 1) % 6) - 1, j, i, 0)
      BY <1>1, <2>4, TilesAnswer DEF ToThe, ToTheNorthWest
    <3>4. ~AtCubeCorner("NW", n, j - 1, 0)
      BY <1>1, <2>4 DEF AtCubeCorner
    <3>5. (((t + 1) % 6) - 1) % 6 = t /\ (0 + 0) % 4 = 0
      BY TilesAnswer
    <3> QED BY <1>2, <3>1, <3>2, <3>3, <3>4, <3>5, Zenon
  <2>5. CASE j > 0 /\ i = n - 1 /\ ~IsEven(t)
    <3>1. ToThe(type, n, t, j, i) = Met(t + 2, 0, n - j, 1)
      BY <1>1, <1>10, <2>5 DEF ToThe, ToTheSouthEast
    <3>2. Answer(type, n, t, j, i) = "SW"
      BY <1>1, <1>10, <2>5 DEF Answer
    <3>3. ToThe("SW", n, (t + 2) % 6, 0, n - j) = Met(((t + 2) % 6) - 2, j, i, 3)
      BY <1>1, <2>5, TilesAnswer DEF ToThe, ToTheSouthWest
    <3>4. ~AtCubeCorner("SW", n, 0, n - j)
      BY <1>1, <2>5 DEF AtCubeCorner
    <3>5. (((t + 2) % 6) - 2) % 6 = t /\ (1 + 3) % 4 = 0
      BY TilesAnswer
    <3> QED BY <1>2, <3>1, <3>2, <3>3, <3>4, <3>5, Zenon
  <2> QED BY <1>1, <1>10, <2>1, <2>2, <2>3, <2>4, <2>5 DEF AtCubeCorner
<1> QED BY <1>3, <1>4, <1>5, <1>6, <1>7, <1>8, <1>9, <1>10 DEF Types, Edges, Corners

Places(n) == (0..5) \X (0..(n - 1)) \X (0..(n - 1))

RankOf(l, w) == RankAt(l, w[1], w[2], w[3])

(* The boundaries of the rank at a place. *)
BoundaryAt(type, l, w) == SphereBoundary(type, RankOf(l, w), l)
RealAt(type, n, w)     == ~AtCubeCorner(type, n, w[2], w[3])
NextAt(type, n, w)     == WhereTo(type, n, w[1], w[2], w[3])

LEMMA RankOfOnePlace ==
  ASSUME NEW l, NEW n, IsSquare(l, n), NEW v \in Places(n), NEW w \in Places(n),
         RankOf(l, v) = RankOf(l, w)
  PROVE  v = w
<1>1. IsLayout(l) /\ l[1] = n /\ l[2] = n
  BY SquareIs
<1>2. /\ v[1] \in Int /\ v[2] \in 0..(l[1] - 1) /\ v[3] \in 0..(l[2] - 1) /\ v = <<v[1], v[2], v[3]>>
      /\ w[1] \in Int /\ w[2] \in 0..(l[1] - 1) /\ w[3] \in 0..(l[2] - 1) /\ w = <<w[1], w[2], w[3]>>
  BY <1>1 DEF Places
<1>4. ASSUME NEW p \in Places(n)
      PROVE  /\ TileIndex(RankOf(l, p), l) = p[1]
             /\ SubtileIndex(RankOf(l, p), l)[1] = p[2]
             /\ SubtileIndex(RankOf(l, p), l)[2] = p[3]
  <2> DEFINE t == p[1]
             j == p[2]
             i == p[3]
  <2>1. t \in Int /\ j \in 0..(n - 1) /\ i \in 0..(n - 1)
    BY DEF Places
  <2> HIDE DEF t, j, i
  <2>2. IsAt(l, RankAt(l, t, j, i), t, j, i)
    BY <2>1, PlaceOnSphere
  <2>3. IsAt(l, RankOf(l, p), p[1], p[2], p[3])
    BY <2>2 DEF RankOf, t, j, i
  <2> QED BY <2>3 DEF IsAt
<1>5. v[1] = w[1] /\ v[2] = w[2] /\ v[3] = w[3]
  BY <1>4
<1> QED BY <1>2, <1>5

LEMMA RankOfSomePlace ==
  ASSUME NEW l, NEW n, IsSquare(l, n), NEW r \in 0..(TotalRanks(l) - 1)
  PROVE  \E w \in Places(n) : r = RankOf(l, w)
<1>1. IsLayout(l) /\ l[1] = n /\ l[2] = n /\ TotalRanks(l) = 6 * TileRanks(l)
  BY SquareIs DEF TotalRanks
<1>2. r \in Int
  OBVIOUS
<1>3. PICK t \in Int, j \in 0..(l[1] - 1), i \in 0..(l[2] - 1) : r = RankAt(l, t, j, i)
  BY <1>1, <1>2, EveryRankIsAPlace
<1>4. r \in 0..((6 * TileRanks(l)) - 1)
  BY <1>1
<1>5. RankAt(l, t, j, i) \in 0..((6 * TileRanks(l)) - 1) <=> t \in 0..(6 - 1)
  BY <1>1, RanksOfTiles
<1>6. t \in 0..5
  BY <1>3, <1>4, <1>5
<1>7. <<t, j, i>> \in Places(n) /\ r = RankOf(l, <<t, j, i>>)
  BY <1>1, <1>3, <1>6 DEF Places, RankOf
<1> QED BY <1>7

LEMMA PlacesAreRanks ==
  ASSUME NEW l, NEW n, IsSquare(l, n), NEW w \in Places(n)
  PROVE  RankOf(l, w) \in 0..(TotalRanks(l) - 1)
<1>1. IsLayout(l) /\ l[1] = n /\ l[2] = n /\ TotalRanks(l) = 6 * TileRanks(l)
  BY SquareIs DEF TotalRanks
<1> DEFINE t == w[1]
           j == w[2]
           i == w[3]
<1>2. t \in Int /\ t \in 0..(6 - 1) /\ j \in 0..(l[1] - 1) /\ i \in 0..(l[2] - 1)
  BY <1>1 DEF Places
<1>3. RankOf(l, w) = RankAt(l, t, j, i)
  BY DEF RankOf
<1> HIDE DEF t, j, i
<1>4. RankAt(l, t, j, i) \in 0..((6 * TileRanks(l)) - 1) <=> t \in 0..(6 - 1)
  BY <1>1, <1>2, RanksOfTiles
<1> QED BY <1>1, <1>2, <1>3, <1>4

LEMMA BoundaryAtIs ==
  ASSUME NEW l, NEW n, IsSquare(l, n), NEW w \in Places(n), NEW type \in Types
  PROVE  /\ BoundaryAt(type, l, w) # NoBoundary <=> RealAt(type, n, w)
         /\ RealAt(type, n, w) =>
              /\ NextAt(type, n, w) \in Places(n)
              /\ BoundaryAt(type, l, w)
                   = Boundary(RankOf(l, NextAt(type, n, w)), ToThe(type, n, w[1], w[2], w[3]).rotations)
              /\ ToThe(type, n, w[1], w[2], w[3]).rotations \in {0, 1, 3}
<1> DEFINE t == w[1]
           j == w[2]
           i == w[3]
           m == ToThe(type, n, t, j, i)
<1>1. n \in Nat \ {0} /\ t \in Int /\ j \in 0..(n - 1) /\ i \in 0..(n - 1)
  BY SquareIs DEF Places
<1>2. BoundaryAt(type, l, w) = IF AtCubeCorner(type, n, j, i) THEN NoBoundary
                               ELSE Leads(l, OnSphere(m))
  <2> HIDE DEF t, j, i
  <2>1. SphereBoundary(type, RankAt(l, t, j, i), l)
          = IF AtCubeCorner(type, n, j, i) THEN NoBoundary ELSE Leads(l, OnSphere(m))
    BY <1>1, SphereBoundaryLeads
  <2> QED BY <2>1 DEF BoundaryAt, RankOf, t, j, i
<1>3. RealAt(type, n, w) => IsMet(n, m) /\ m.rotations \in {0, 1, 3}
  <2> HIDE DEF t, j, i
  <2>1. ~AtCubeCorner(type, n, j, i) => IsMet(n, m) /\ m.rotations \in {0, 1, 3}
    BY <1>1, MetByType
  <2> QED BY <2>1 DEF RealAt, t, j, i
<1>4. NextAt(type, n, w) = <<m.t % 6, m.j, m.i>>
  BY DEF NextAt, WhereTo
<1>5. RealAt(type, n, w) <=> ~AtCubeCorner(type, n, j, i)
  BY DEF RealAt
<1> HIDE DEF m
<1>6. IsMet(n, m) => <<m.t % 6, m.j, m.i>> \in Places(n)
  BY DEF IsMet, Places
<1>7. Leads(l, OnSphere(m)) = Boundary(RankOf(l, <<m.t % 6, m.j, m.i>>), m.rotations)
  BY DEF Leads, OnSphere, Met, RankOf
<1>8. \A to, turns : turns \in {0, 1, 3} => Boundary(to, turns) # NoBoundary
  BY DEF Boundary, NoBoundary
<1> QED BY <1>2, <1>3, <1>4, <1>5, <1>6, <1>7, <1>8 DEF m

(* Different boundaries of a rank lead to different ranks, and not to itself. *)
LEMMA BoundariesLeadApart ==
  ASSUME NEW l, NEW n, IsSquare(l, n), NEW w \in Places(n), NEW x \in Types, RealAt(x, n, w)
  PROVE  /\ BoundaryAt(x, l, w).to # RankOf(l, w)
         /\ \A y \in Types : RealAt(y, n, w) /\ BoundaryAt(y, l, w).to = BoundaryAt(x, l, w).to
                               => y = x
<1> DEFINE t == w[1]
           j == w[2]
           i == w[3]
<1>1. n \in Nat \ {0} /\ t \in 0..5 /\ j \in 0..(n - 1) /\ i \in 0..(n - 1) /\ w = <<t, j, i>>
  BY SquareIs DEF Places
<1>2. /\ NextAt(x, n, w) # w
      /\ \A y \in Types : y # x /\ RealAt(y, n, w) => NextAt(y, n, w) # NextAt(x, n, w)
  <2>1. ~AtCubeCorner(x, n, j, i)
    BY DEF RealAt
  <2> HIDE DEF t, j, i
  <2>2. /\ WhereTo(x, n, t, j, i) # <<t, j, i>>
        /\ \A y \in Types : y # x /\ ~AtCubeCorner(y, n, j, i)
                              => WhereTo(y, n, t, j, i) # WhereTo(x, n, t, j, i)
    BY <1>1, <2>1, TypesLeadApart
  <2> QED BY <1>1, <2>2 DEF NextAt, RealAt, t, j, i
<1>3. \A y \in Types : RealAt(y, n, w) =>
        NextAt(y, n, w) \in Places(n) /\ BoundaryAt(y, l, w).to = RankOf(l, NextAt(y, n, w))
  BY BoundaryAtIs DEF Boundary
<1>4. \A u, v \in Places(n) : RankOf(l, u) = RankOf(l, v) => u = v
  BY RankOfOnePlace
<1> QED BY <1>2, <1>3, <1>4, Zenon

LEMMA BoundariesLeadBack ==
  ASSUME NEW l, NEW n, IsSquare(l, n), NEW w \in Places(n), NEW x \in Types, RealAt(x, n, w)
  PROVE  \E y \in Types :
           /\ RealAt(y, n, NextAt(x, n, w))
           /\ BoundaryAt(y, l, NextAt(x, n, w)).to = RankOf(l, w)
           /\ (BoundaryAt(x, l, w).rotations
                 + BoundaryAt(y, l, NextAt(x, n, w)).rotations) % 4 = 0
           /\ x \in {"S", "W"} => y \in {"N", "E"}
           /\ x \in {"N", "E"} => y \in {"S", "W"}
<1> DEFINE t == w[1]
           j == w[2]
           i == w[3]
           m == ToThe(x, n, t, j, i)
           y == Answer(x, n, t, j, i)
           u == NextAt(x, n, w)
           b == ToThe(y, n, u[1], u[2], u[3])
<1>1. n \in Nat \ {0} /\ t \in 0..5 /\ j \in 0..(n - 1) /\ i \in 0..(n - 1) /\ w = <<t, j, i>>
  BY SquareIs DEF Places
<1>2. AnsweredBy(y, n, t, j, i, m)
  <2>1. ~AtCubeCorner(x, n, j, i)
    BY DEF RealAt
  <2> HIDE DEF t, j, i
  <2> QED BY <1>1, <2>1, BoundariesAnswer
<1>3. /\ y \in Types
      /\ x \in {"S", "W"} => y \in {"N", "E"}
      /\ x \in {"N", "E"} => y \in {"S", "W"}
  <2> HIDE DEF t, j, i
  <2> QED BY DEF Answer, Types, Edges, Corners
<1>4. u = <<m.t % 6, m.j, m.i>>
  BY DEF NextAt, WhereTo
<1>5. /\ u \in Places(n) /\ BoundaryAt(x, l, w) = Boundary(RankOf(l, u), m.rotations)
      /\ m.rotations \in {0, 1, 3}
  BY BoundaryAtIs
<1> HIDE DEF y, u, m
<1>6. /\ RealAt(y, n, u)
      /\ b.t % 6 = t /\ b.j = j /\ b.i = i /\ (m.rotations + b.rotations) % 4 = 0
  BY <1>2, <1>4 DEF AnsweredBy, RealAt
<1>7. BoundaryAt(y, l, u) = Boundary(RankOf(l, NextAt(y, n, u)), b.rotations)
  BY <1>3, <1>5, <1>6, BoundaryAtIs
<1>8. NextAt(y, n, u) = w
  BY <1>1, <1>6 DEF NextAt, WhereTo
<1> HIDE DEF b
<1>9. /\ BoundaryAt(y, l, u).to = RankOf(l, w)
      /\ (BoundaryAt(x, l, w).rotations + BoundaryAt(y, l, u).rotations) % 4 = 0
  BY <1>5, <1>6, <1>7, <1>8 DEF Boundary
<1> QED BY <1>3, <1>6, <1>9 DEF u

-----------------------------------------------------------------------------
(* The walker only ever stands on a rank of its layout.                    *)

WalkerOK == size \in Sizes /\ rank \in 0..(TotalRanks(Layout) - 1)

LEMMA LayoutOfWalker ==
  ASSUME WalkerOK
  PROVE  IsSquare(Layout, size)
  BY LayoutsAssumption DEF WalkerOK, Layout, IsSquare

LEMMA WalkerStarts == WalkInit => WalkerOK
<1> SUFFICES ASSUME WalkInit PROVE WalkerOK
  OBVIOUS
<1>1. IsSquare(Layout, size)
  BY LayoutsAssumption DEF WalkInit, Layout, IsSquare
<1>2. TotalRanks(Layout) \in Nat \ {0}
  BY <1>1, SquareIs DEF TotalRanks
<1> QED BY <1>2 DEF WalkInit, WalkerOK

LEMMA WalkerSteps == WalkerOK /\ [WalkNext]_walk => WalkerOK'
<1> SUFFICES ASSUME WalkerOK, [WalkNext]_walk PROVE WalkerOK'
  OBVIOUS
<1> DEFINE n == size
           l == Layout
<1>1. IsSquare(l, n)
  BY LayoutOfWalker
<1>2. CASE CrossBoundary
  <2>1. PICK e \in Edges : rank' = SphereBoundary(e, rank, Layout).to
    BY <1>2 DEF CrossBoundary
  <2>2. PICK w \in Places(n) : rank = RankOf(l, w)
    BY <1>1, RankOfSomePlace DEF WalkerOK
  <2>3. e \in Types /\ RealAt(e, n, w)
    BY DEF RealAt, AtCubeCorner, Types, Edges
  <2>4. NextAt(e, n, w) \in Places(n) /\ BoundaryAt(e, l, w).to = RankOf(l, NextAt(e, n, w))
    BY <1>1, <2>3, BoundaryAtIs DEF Boundary
  <2>5. rank' = RankOf(l, NextAt(e, n, w))
    BY <2>1, <2>2, <2>4 DEF BoundaryAt
  <2>6. rank' \in 0..(TotalRanks(l) - 1)
    BY <1>1, <2>4, <2>5, PlacesAreRanks
  <2>7. size' = size /\ Layout' = Layout
    BY <1>2 DEF CrossBoundary, Layout
  <2> QED BY <2>6, <2>7 DEF WalkerOK
<1>3. CASE UNCHANGED walk
  BY <1>3 DEF WalkerOK, walk, Layout
<1> QED BY <1>2, <1>3 DEF WalkNext

THEOREM WalkerTypeCorrect == WalkSpec => []WalkerOK
  BY WalkerStarts, WalkerSteps, PTL DEF WalkSpec

LEMMA PairedUp ==
  ASSUME WalkerOK
  PROVE  BoundariesPairUp
<1> DEFINE n == size
           l == Layout
<1>1. IsSquare(l, n)
  BY LayoutOfWalker
<1>2. \A r \in 0..(TotalRanks(l) - 1) : \E w \in Places(n) : r = RankOf(l, w)
  BY <1>1, RankOfSomePlace
<1>3. PICK w \in Places(n) : rank = RankOf(l, w)
  BY <1>2 DEF WalkerOK
<1>4. \A v \in Places(n), type \in Types :
        SphereBoundary(type, RankOf(l, v), l) = BoundaryAt(type, l, v)
        /\ (BoundaryAt(type, l, v) # NoBoundary <=> RealAt(type, n, v))
  BY <1>1, BoundaryAtIs DEF BoundaryAt
<1>5. SUFFICES ASSUME NEW x \in SphereBoundaries(rank), x[2] # NoBoundary
      PROVE  /\ x[2].to # rank
             /\ \A y \in SphereBoundaries(rank) : y[2].to = x[2].to /\ y[2] # NoBoundary => y = x
             /\ LET back == {y \in SphereBoundaries(x[2].to) :
                               y[2] # NoBoundary /\ y[2].to = rank}
                IN  /\ Cardinality(back) = 1
                    /\ \A y \in back : (x[2].rotations + y[2].rotations) % 4 = 0
  BY DEF BoundariesPairUp
<1>6. ASSUME NEW v \in Places(n)
      PROVE  SphereBoundaries(RankOf(l, v)) = {<<type, BoundaryAt(type, l, v)>> : type \in Types}
  BY DEF SphereBoundaries, Types, BoundaryAt
<1>7. PICK type \in Types : x = <<type, BoundaryAt(type, l, w)>>
  BY <1>3, <1>5, <1>6
<1>8. RealAt(type, n, w)
  BY <1>4, <1>5, <1>7
<1> DEFINE u == NextAt(type, n, w)
<1>9. u \in Places(n) /\ x[2] = BoundaryAt(type, l, w) /\ x[2].to = RankOf(l, u)
  BY <1>1, <1>7, <1>8, BoundaryAtIs DEF Boundary
<1> HIDE DEF n, l, u
<1>10. /\ x[2].to # rank
       /\ \A y \in Types : RealAt(y, n, w) /\ BoundaryAt(y, l, w).to = x[2].to => y = type
  BY <1>1, <1>3, <1>8, <1>9, BoundariesLeadApart
<1>11. \A y \in SphereBoundaries(rank) : y[2].to = x[2].to /\ y[2] # NoBoundary => y = x
  <2> SUFFICES ASSUME NEW y \in SphereBoundaries(rank), y[2].to = x[2].to, y[2] # NoBoundary
               PROVE  y = x
    OBVIOUS
  <2>1. PICK other \in Types : y = <<other, BoundaryAt(other, l, w)>>
    BY <1>3, <1>6
  <2>2. other = type
    BY <1>4, <1>10, <2>1
  <2> QED BY <1>7, <2>1, <2>2
<1> DEFINE back == {y \in SphereBoundaries(x[2].to) : y[2] # NoBoundary /\ y[2].to = rank}
<1>12. PICK answer \in Types :
         /\ RealAt(answer, n, u) /\ BoundaryAt(answer, l, u).to = RankOf(l, w)
         /\ (BoundaryAt(type, l, w).rotations + BoundaryAt(answer, l, u).rotations) % 4 = 0
  BY <1>1, <1>8, BoundariesLeadBack DEF u
<1>13. back = {<<answer, BoundaryAt(answer, l, u)>>}
  <2>1. <<answer, BoundaryAt(answer, l, u)>> \in back
    BY <1>3, <1>4, <1>6, <1>9, <1>12
  <2>2. ASSUME NEW y \in back PROVE y = <<answer, BoundaryAt(answer, l, u)>>
    <3>1. PICK other \in Types : y = <<other, BoundaryAt(other, l, u)>>
      BY <1>6, <1>9
    <3>2. RealAt(other, n, u) /\ BoundaryAt(other, l, u).to = BoundaryAt(answer, l, u).to
      BY <1>3, <1>4, <1>9, <1>12, <3>1
    <3>3. other = answer
      BY <1>1, <1>9, <1>12, <3>2, BoundariesLeadApart
    <3> QED BY <3>1, <3>3
  <2> QED BY <2>1, <2>2
<1>14. Cardinality(back) = 1
  BY <1>13, FS_Singleton
<1>15. \A y \in back : (x[2].rotations + y[2].rotations) % 4 = 0
  BY <1>9, <1>12, <1>13
<1> QED BY <1>10, <1>11, <1>14, <1>15

(***************************************************************************)
(* On square layouts of every size, no two boundaries of a rank lead to    *)
(* the same rank nor to itself, and each is answered by exactly one        *)
(* boundary back, which undoes its rotation.                               *)
(***************************************************************************)
THEOREM EveryBoundaryIsAnswered == WalkSpec => []BoundariesPairUp
  BY WalkerTypeCorrect, PairedUp, PTL

-----------------------------------------------------------------------------
(* The doubly periodic tile.                                               *)

LEMMA TileRankIsAPlace ==
  ASSUME NEW l, IsLayout(l), NEW r \in 0..(TileRanks(l) - 1)
  PROVE  \E j \in 0..(l[1] - 1), i \in 0..(l[2] - 1) : r = RankAt(l, 0, j, i)
<1>1. TileRanks(l) \in Nat \ {0} /\ r \in Int
  BY LayoutIs
<1>2. PICK t \in Int, j \in 0..(l[1] - 1), i \in 0..(l[2] - 1) : r = RankAt(l, t, j, i)
  BY <1>1, EveryRankIsAPlace
<1>3. RankAt(l, t, j, i) \in 0..((1 * TileRanks(l)) - 1) <=> t \in 0..(1 - 1)
  BY RanksOfTiles
<1>4. t = 0
  BY <1>1, <1>2, <1>3
<1> QED BY <1>2, <1>4

LEMMA ThereAndBack ==
  ASSUME NEW count \in Nat, count >= 3, NEW k \in 0..(count - 1)
  PROVE  /\ Back(k, count) \in 0..(count - 1) /\ On(k, count) \in 0..(count - 1)
         /\ Back(On(k, count), count) = k /\ On(Back(k, count), count) = k
         /\ Back(k, count) # k /\ On(k, count) # k /\ Back(k, count) # On(k, count)
  BY DEF Back, On

LEMMA TilePairsUp ==
  ASSUME NEW l, l \in (Nat \ 0..2) \X (Nat \ 0..2), NEW r \in 0..(TileRanks(l) - 1),
         NEW type \in Types
  PROVE  LET to == TileBoundary(type, r, l).to
         IN  /\ to \in 0..(TileRanks(l) - 1) /\ to # r
             /\ TileBoundary(Opposite[type], to, l).to = r
             /\ \A other \in Types \ {type} : TileBoundary(other, r, l).to # to
<1>1. IsLayout(l) /\ l[1] \in Nat /\ l[1] >= 3 /\ l[2] \in Nat /\ l[2] >= 3
  BY DEF IsLayout
<1>2. PICK j \in 0..(l[1] - 1), i \in 0..(l[2] - 1) : r = RankAt(l, 0, j, i)
  BY <1>1, TileRankIsAPlace
<1> DEFINE J(x) == Across(x, j, l[1])
           I(x) == Along(x, i, l[2])
           At(k, h) == RankAt(l, 0, k, h)
<1>3. \A x \in Types : J(x) \in 0..(l[1] - 1) /\ I(x) \in 0..(l[2] - 1)
  BY <1>1, ThereAndBack DEF Across, Along
<1>4. \A x \in Types, k \in 0..(l[1] - 1), h \in 0..(l[2] - 1) :
        TileBoundary(x, At(k, h), l).to = At(Across(x, k, l[1]), Along(x, h, l[2]))
  <2> SUFFICES ASSUME NEW x \in Types, NEW k \in 0..(l[1] - 1), NEW h \in 0..(l[2] - 1)
               PROVE  TileBoundary(x, At(k, h), l).to = At(Across(x, k, l[1]), Along(x, h, l[2]))
    OBVIOUS
  <2>1. TileBoundary(x, At(k, h), l) = Boundary(At(Across(x, k, l[1]), Along(x, h, l[2])), 0)
    BY <1>1, TileBoundaryLeads
  <2> QED BY <2>1 DEF Boundary
<1>5. At(J(type), I(type)) \in 0..(TileRanks(l) - 1)
  <2>1. At(J(type), I(type)) \in 0..((1 * TileRanks(l)) - 1) <=> 0 \in 0..(1 - 1)
    BY <1>1, <1>3, RanksOfTiles
  <2>2. TileRanks(l) \in Nat
    BY <1>1, LayoutIs
  <2> QED BY <2>1, <2>2
<1>6. Opposite[type] \in Types
      /\ Across(Opposite[type], J(type), l[1]) = j /\ Along(Opposite[type], I(type), l[2]) = i
  <2>1. /\ Back(On(j, l[1]), l[1]) = j /\ On(Back(j, l[1]), l[1]) = j
        /\ Back(On(i, l[2]), l[2]) = i /\ On(Back(i, l[2]), l[2]) = i
    BY <1>1, ThereAndBack
  <2> QED BY <2>1 DEF Opposite, Across, Along, Types, Edges, Corners
<1>7. ASSUME NEW x \in Types \ {type} PROVE J(x) # J(type) \/ I(x) # I(type)
  <2>1. /\ Back(j, l[1]) # j /\ On(j, l[1]) # j /\ Back(j, l[1]) # On(j, l[1])
        /\ Back(i, l[2]) # i /\ On(i, l[2]) # i /\ Back(i, l[2]) # On(i, l[2])
    BY <1>1, ThereAndBack
  <2> QED BY <2>1 DEF Across, Along, Types, Edges, Corners
<1>8. \A k, m \in 0..(l[1] - 1), h, g \in 0..(l[2] - 1) :
        At(k, h) = At(m, g) => k = m /\ h = g
  <2>1. 0 \in Int
    OBVIOUS
  <2>2. ASSUME NEW k \in 0..(l[1] - 1), NEW h \in 0..(l[2] - 1)
        PROVE  SubtileIndex(At(k, h), l)[1] = k /\ SubtileIndex(At(k, h), l)[2] = h
    <3>1. SubtileIndex(At(k, h), l)[1] = k
      BY <1>1, <2>1, ThePlaceOf
    <3>2. SubtileIndex(At(k, h), l)[2] = h
      BY <1>1, <2>1, ThePlaceOf
    <3> QED BY <3>1, <3>2
  <2> HIDE DEF At
  <2> QED BY <2>2
<1>12. J(type) # j \/ I(type) # i
  <2>1. /\ Back(j, l[1]) # j /\ On(j, l[1]) # j
        /\ Back(i, l[2]) # i /\ On(i, l[2]) # i
    BY <1>1, ThereAndBack
  <2> QED BY <2>1 DEF Across, Along, Types, Edges, Corners
<1> HIDE DEF J, I
<1>13. At(J(type), I(type)) # r
  BY <1>2, <1>3, <1>8, <1>12
<1> HIDE DEF At
<1>9. \A x \in Types : TileBoundary(x, r, l).to = At(J(x), I(x))
  BY <1>2, <1>4 DEF J, I, At
<1>10. TileBoundary(Opposite[type], At(J(type), I(type)), l).to = r
  BY <1>2, <1>3, <1>4, <1>6 DEF At
<1>11. \A x \in Types \ {type} : At(J(x), I(x)) # At(J(type), I(type))
  BY <1>3, <1>7, <1>8
<1> QED BY <1>5, <1>13, <1>9, <1>10, <1>11

(***************************************************************************)
(* On periodic tiles of every layout of three or more ranks a side, a      *)
(* rank's boundaries lead to eight different ranks, and the opposite one   *)
(* leads back from each.                                                   *)
(***************************************************************************)
THEOREM EveryPeriodicBoundaryIsUndone == WalkSpec => []PeriodicTilePairsUp
<1>1. WalkerOK => PeriodicTilePairsUp
  <2> SUFFICES ASSUME WalkerOK, NEW layout \in TileLayouts, rank < TileRanks(layout),
                      NEW type \in Edges \cup Corners
               PROVE  LET to == TileBoundary(type, rank, layout).to
                      IN  /\ to \in 0..(TileRanks(layout) - 1)
                          /\ TileBoundary(Opposite[type], to, layout).to = rank
                          /\ \A other \in (Edges \cup Corners) \ {type} :
                               TileBoundary(other, rank, layout).to # to
    BY DEF PeriodicTilePairsUp
  <2>1. layout \in (Nat \ 0..2) \X (Nat \ 0..2)
    BY LayoutsAssumption
  <2>2. rank \in 0..(TileRanks(layout) - 1)
    <3>1. IsLayout(layout)
      BY <2>1 DEF IsLayout
    <3>2. TileRanks(layout) \in Nat
      BY <3>1, LayoutIs
    <3>3. IsSquare(Layout, size)
      BY LayoutOfWalker
    <3>4. TotalRanks(Layout) \in Nat
      BY <3>3, SquareIs DEF TotalRanks
    <3> QED BY <3>2, <3>4 DEF WalkerOK
  <2> QED BY <2>1, <2>2, TilePairsUp DEF Types
<1> QED BY <1>1, WalkerTypeCorrect, PTL

-----------------------------------------------------------------------------
(* Code compiled for the place.                                            *)

(* The edges of the tile at a place of it. *)
EdgesAt(n, j, i) ==
  {e \in Edges : \/ e = "W" /\ i = 0
                 \/ e = "E" /\ i = n - 1
                 \/ e = "N" /\ j = n - 1
                 \/ e = "S" /\ j = 0}

LEMMA TileEdgesAre ==
  ASSUME NEW l, NEW n, IsSquare(l, n), NEW t \in Int, NEW j \in 0..(n - 1), NEW i \in 0..(n - 1)
  PROVE  TileEdges(RankAt(l, t, j, i), l) = EdgesAt(n, j, i)
<1> DEFINE r == RankAt(l, t, j, i)
<1>1. l[1] = n /\ l[2] = n
  BY SquareIs
<1>2. SubtileIndex(r, l)[1] = j /\ SubtileIndex(r, l)[2] = i
  <2>1. IsAt(l, RankAt(l, t, j, i), t, j, i)
    BY PlaceOnSphere
  <2> QED BY <2>1 DEF IsAt
<1> HIDE DEF r
<1>3. ASSUME NEW e \in Edges
      PROVE  e \in TileEdges(r, l) <=> e \in EdgesAt(n, j, i)
  <2>1. CASE e = "W"
    <3>1. OnTileLeft(r, l) <=> i = 0
      BY <1>1, <1>2 DEF OnTileLeft
    <3>2. e \in TileEdges(r, l) <=> OnTileLeft(r, l)
      BY <2>1 DEF TileEdges, Edges
    <3>3. e \in EdgesAt(n, j, i) <=> i = 0
      BY <2>1 DEF EdgesAt, Edges
    <3> QED BY <3>1, <3>2, <3>3
  <2>2. CASE e = "E"
    <3>1. OnTileRight(r, l) <=> i = n - 1
      BY <1>1, <1>2 DEF OnTileRight
    <3>2. e \in TileEdges(r, l) <=> OnTileRight(r, l)
      BY <2>2 DEF TileEdges, Edges
    <3>3. e \in EdgesAt(n, j, i) <=> i = n - 1
      BY <2>2 DEF EdgesAt, Edges
    <3> QED BY <3>1, <3>2, <3>3
  <2>3. CASE e = "N"
    <3>1. OnTileTop(r, l) <=> j = n - 1
      BY <1>1, <1>2 DEF OnTileTop
    <3>2. e \in TileEdges(r, l) <=> OnTileTop(r, l)
      BY <2>3 DEF TileEdges, Edges
    <3>3. e \in EdgesAt(n, j, i) <=> j = n - 1
      BY <2>3 DEF EdgesAt, Edges
    <3> QED BY <3>1, <3>2, <3>3
  <2>4. CASE e = "S"
    <3>1. OnTileBottom(r, l) <=> j = 0
      BY <1>1, <1>2 DEF OnTileBottom
    <3>2. e \in TileEdges(r, l) <=> OnTileBottom(r, l)
      BY <2>4 DEF TileEdges, Edges
    <3>3. e \in EdgesAt(n, j, i) <=> j = 0
      BY <2>4 DEF EdgesAt, Edges
    <3> QED BY <3>1, <3>2, <3>3
  <2> QED BY <2>1, <2>2, <2>3, <2>4 DEF Edges
<1>4. TileEdges(r, l) \subseteq Edges /\ EdgesAt(n, j, i) \subseteq Edges
  BY DEF TileEdges, EdgesAt
<1>5. TileEdges(r, l) = EdgesAt(n, j, i)
  BY <1>3, <1>4
<1> QED BY <1>5 DEF r

(* The place of the code on the layout it is built on. *)
Side3(k, n) == IF k = 0 THEN 0 ELSE IF k = n - 1 THEN 2 ELSE 1

LEMMA BuiltPlace ==
  ASSUME NEW l, NEW n, IsSquare(l, n), NEW t \in Int, NEW j \in 0..(n - 1), NEW i \in 0..(n - 1)
  PROVE  BuiltPosition(RankAt(l, t, j, i), l)
           = IF n <= 3 THEN (j * n) + i ELSE (Side3(j, n) * 3) + Side3(i, n)
<1> DEFINE r == RankAt(l, t, j, i)
<1>1. IsLayout(l) /\ l[1] = n /\ l[2] = n /\ n \in Nat \ {0} /\ l = <<n, n>>
  BY SquareIs DEF IsSquare
<1>2. /\ OnTileLeft(r, l) <=> i = 0
      /\ OnTileRight(r, l) <=> i = n - 1
      /\ OnTileTop(r, l) <=> j = n - 1
      /\ OnTileBottom(r, l) <=> j = 0
  BY <1>1, OnTheEdges
<1> HIDE DEF r
<1>3. (l = <<1, 1>> <=> n = 1) /\ (l = <<2, 2>> <=> n = 2)
  BY <1>1
<1>4. CASE n = 1
  <2>1. BuiltPosition(r, l) = 0
    BY <1>3, <1>4 DEF BuiltPosition
  <2> QED BY <1>4, <2>1 DEF r
<1>5. CASE n = 2
  <2>1. BuiltPosition(r, l) = (IF j = 0 THEN 0 ELSE 2) + (IF i = 0 THEN 0 ELSE 1)
    BY <1>2, <1>3, <1>5 DEF BuiltPosition
  <2>2. j \in {0, 1} /\ i \in {0, 1}
    BY <1>5
  <2> QED BY <1>5, <2>1, <2>2 DEF r
<1>6. CASE n > 2
  <2>1. l # <<1, 1>> /\ l # <<2, 2>>
    BY <1>3, <1>6
  <2>2. BuiltPosition(r, l) = (3 * (IF j = 0 THEN 0 ELSE IF j = n - 1 THEN 2 ELSE 1))
                              + (IF i = 0 THEN 0 ELSE IF i = n - 1 THEN 2 ELSE 1)
    BY <1>2, <2>1 DEF BuiltPosition
  <2>3. BuiltPosition(r, l) = (Side3(j, n) * 3) + Side3(i, n)
    BY <2>2 DEF Side3
  <2>4. n = 3 => (Side3(j, n) * 3) + Side3(i, n) = (j * n) + i
    <3>1. n = 3 => Side3(j, n) = j /\ Side3(i, n) = i
      BY DEF Side3
    <3> QED BY <3>1
  <2>5. n = 3 \/ ~(n <= 3)
    BY <1>1, <1>6
  <2>6. n = 3 => n <= 3
    OBVIOUS
  <2> QED BY <2>3, <2>4, <2>5, <2>6, Zenon DEF r
<1> QED BY <1>1, <1>4, <1>5, <1>6

LEMMA CodeFits ==
  ASSUME WalkerOK
  PROVE  CodeFitsThePlace
<1> DEFINE n == size
           l == Layout
           b == IF n > 3 THEN 3 ELSE n
           from == CompilingEquivalent(rank, l, "Run")
<1>1. IsSquare(l, n) /\ n \in Nat \ {0}
  BY LayoutOfWalker, SquareIs
<1>2. IsSquare(Built, b)
  BY <1>1 DEF Built, IsSquare
<1>3. PICK w \in Places(n) : rank = RankOf(l, w)
  BY <1>1, RankOfSomePlace DEF WalkerOK
<1> DEFINE t == w[1]
           j == w[2]
           i == w[3]
           row == IF n <= 3 THEN j ELSE Side3(j, n)
           col == IF n <= 3 THEN i ELSE Side3(i, n)
<1>4. t \in Int /\ j \in 0..(n - 1) /\ i \in 0..(n - 1) /\ rank = RankAt(l, t, j, i)
  BY <1>3 DEF Places, RankOf
<1>5. from = BuiltPosition(rank, l)
  BY DEF CompilingEquivalent
<1> HIDE DEF n, l, t, j, i, from
<1>6. from = IF n <= 3 THEN (j * n) + i ELSE (Side3(j, n) * 3) + Side3(i, n)
  BY <1>1, <1>4, <1>5, BuiltPlace
<1>7. /\ row \in 0..(b - 1) /\ col \in 0..(b - 1)
      /\ row = 0 <=> j = 0
      /\ row = b - 1 <=> j = n - 1
      /\ col = 0 <=> i = 0
      /\ col = b - 1 <=> i = n - 1
  BY <1>1, <1>4 DEF Side3
<1>8. from = (row * b) + col
  BY <1>1, <1>6
<1> HIDE DEF b, row, col
<1>9. TileRanks(Built) = b * b /\ Built[2] = b /\ b \in Nat \ {0}
  BY <1>2, SquareIs
<1>10. from = RankAt(Built, 0, row, col)
  <2>1. RankAt(Built, 0, row, col) = (0 * (b * b)) + ((row * b) + col)
    BY <1>9 DEF RankAt
  <2>2. (row * b) + col \in Int /\ b * b \in Int
    BY <1>7, <1>9
  <2> QED BY <1>8, <2>1, <2>2
<1>11. IsCompiling(from, Built)
  <2>1. (row * b) + col \in 0..((b * b) - 1)
    BY <1>7, <1>9, CellAt
  <2> QED BY <1>8, <1>9, <2>1 DEF IsCompiling
<1>12. TileEdges(from, Built) = EdgesAt(b, row, col)
  <2>1. 0 \in Int
    OBVIOUS
  <2> QED BY <1>2, <1>7, <1>10, <2>1, TileEdgesAre
<1>13. TileEdges(rank, l) = EdgesAt(n, j, i)
  BY <1>1, <1>4, TileEdgesAre
<1>14. EdgesAt(b, row, col) = EdgesAt(n, j, i)
  BY <1>7 DEF EdgesAt
<1> QED BY <1>11, <1>12, <1>13, <1>14 DEF CodeFitsThePlace, from, l

(***************************************************************************)
(* On square layouts of every size a rank loads code that a compiling rank *)
(* compiled, and for a subtile on the same edges of its tile.              *)
(***************************************************************************)
THEOREM CodeAlwaysFitsThePlace == WalkSpec => []CodeFitsThePlace
  BY WalkerTypeCorrect, CodeFits, PTL

-----------------------------------------------------------------------------
(* The boundaries on the surface of the cube.                              *)

(* The coordinates of a tile's grid point. *)
InSpace(t, i, j, n) ==
  CASE t = 0 -> <<n, i, j>>          [] t = 1 -> <<n - i, n, j>>
    [] t = 2 -> <<n - i, n - j, n>>  [] t = 3 -> <<0, n - j, n - i>>
    [] t = 4 -> <<j, 0, n - i>>      [] t = 5 -> <<j, i, 0>>

LEMMA PointIs ==
  ASSUME NEW n \in Int, NEW t \in 0..5, NEW i \in Int, NEW j \in Int
  PROVE  Point(t, i, j, n) = InSpace(t, i, j, n)
<1>1. ASSUME NEW o, NEW x, NEW y, Frame[t] = [o |-> o, x |-> x, y |-> y]
      PROVE  Point(t, i, j, n) = [k \in 1..3 |-> (n * o[k]) + ((i * x[k]) + (j * y[k]))]
  BY <1>1 DEF Point, Plus, Times
<1>2. \A f : f = <<f[1], f[2], f[3]>> <=> f = [k \in 1..3 |-> f[k]]
  OBVIOUS
<1>3. CASE t = 0
  <2>1. Frame[t] = [o |-> <<1, 0, 0>>, x |-> <<0, 1, 0>>, y |-> <<0, 0, 1>>]
    BY <1>3 DEF Frame, Tiles
  <2>2. Point(t, i, j, n) = [k \in 1..3 |-> (n * <<1, 0, 0>>[k]) + ((i * <<0, 1, 0>>[k]) + (j * <<0, 0, 1>>[k]))]
    BY <1>1, <2>1
  <2> QED BY <1>3, <2>2 DEF InSpace
<1>4. CASE t = 1
  <2>1. Frame[t] = [o |-> <<1, 1, 0>>, x |-> <<-1, 0, 0>>, y |-> <<0, 0, 1>>]
    BY <1>4 DEF Frame, Tiles
  <2>2. Point(t, i, j, n) = [k \in 1..3 |-> (n * <<1, 1, 0>>[k]) + ((i * <<-1, 0, 0>>[k]) + (j * <<0, 0, 1>>[k]))]
    BY <1>1, <2>1
  <2> QED BY <1>4, <2>2 DEF InSpace
<1>5. CASE t = 2
  <2>1. Frame[t] = [o |-> <<1, 1, 1>>, x |-> <<-1, 0, 0>>, y |-> <<0, -1, 0>>]
    BY <1>5 DEF Frame, Tiles
  <2>2. Point(t, i, j, n) = [k \in 1..3 |-> (n * <<1, 1, 1>>[k]) + ((i * <<-1, 0, 0>>[k]) + (j * <<0, -1, 0>>[k]))]
    BY <1>1, <2>1
  <2> QED BY <1>5, <2>2 DEF InSpace
<1>6. CASE t = 3
  <2>1. Frame[t] = [o |-> <<0, 1, 1>>, x |-> <<0, 0, -1>>, y |-> <<0, -1, 0>>]
    BY <1>6 DEF Frame, Tiles
  <2>2. Point(t, i, j, n) = [k \in 1..3 |-> (n * <<0, 1, 1>>[k]) + ((i * <<0, 0, -1>>[k]) + (j * <<0, -1, 0>>[k]))]
    BY <1>1, <2>1
  <2> QED BY <1>6, <2>2 DEF InSpace
<1>7. CASE t = 4
  <2>1. Frame[t] = [o |-> <<0, 0, 1>>, x |-> <<0, 0, -1>>, y |-> <<1, 0, 0>>]
    BY <1>7 DEF Frame, Tiles
  <2>2. Point(t, i, j, n) = [k \in 1..3 |-> (n * <<0, 0, 1>>[k]) + ((i * <<0, 0, -1>>[k]) + (j * <<1, 0, 0>>[k]))]
    BY <1>1, <2>1
  <2> QED BY <1>7, <2>2 DEF InSpace
<1>8. CASE t = 5
  <2>1. Frame[t] = [o |-> <<0, 0, 0>>, x |-> <<0, 1, 0>>, y |-> <<1, 0, 0>>]
    BY <1>8 DEF Frame, Tiles
  <2>2. Point(t, i, j, n) = [k \in 1..3 |-> (n * <<0, 0, 0>>[k]) + ((i * <<0, 1, 0>>[k]) + (j * <<1, 0, 0>>[k]))]
    BY <1>1, <2>1
  <2> QED BY <1>8, <2>2 DEF InSpace
<1> QED BY <1>3, <1>4, <1>5, <1>6, <1>7, <1>8

(* A point in space is one of the four of a subtile. *)
Holds(u, k, h, n, x, y, z) ==
  \/ u = 0 /\ x = n /\ y \in {h, h + 1} /\ z \in {k, k + 1}
  \/ u = 1 /\ y = n /\ n - x \in {h, h + 1} /\ z \in {k, k + 1}
  \/ u = 2 /\ z = n /\ n - x \in {h, h + 1} /\ n - y \in {k, k + 1}
  \/ u = 3 /\ x = 0 /\ n - z \in {h, h + 1} /\ n - y \in {k, k + 1}
  \/ u = 4 /\ y = 0 /\ n - z \in {h, h + 1} /\ x \in {k, k + 1}
  \/ u = 5 /\ z = 0 /\ y \in {h, h + 1} /\ x \in {k, k + 1}

LEMMA PointsOfSubtile ==
  ASSUME NEW n \in Nat \ {0}, NEW u \in 0..5, NEW k \in Int, NEW h \in Int,
         NEW x \in Int, NEW y \in Int, NEW z \in Int
  PROVE  <<x, y, z>> \in PointsOf(<<u, k, h>>, n) <=> Holds(u, k, h, n, x, y, z)
<1>1. /\ Point(u, h + 0, k + 0, n) = InSpace(u, h, k, n)
      /\ Point(u, h + 1, k + 0, n) = InSpace(u, h + 1, k, n)
      /\ Point(u, h + 0, k + 1, n) = InSpace(u, h, k + 1, n)
      /\ Point(u, h + 1, k + 1, n) = InSpace(u, h + 1, k + 1, n)
  <2>1. /\ h + 0 = h /\ k + 0 = k /\ h \in Int /\ k \in Int /\ h + 1 \in Int /\ k + 1 \in Int
        /\ n \in Int
    OBVIOUS
  <2>2. Point(u, h, k, n) = InSpace(u, h, k, n)
    BY <2>1, PointIs
  <2>3. Point(u, h + 1, k, n) = InSpace(u, h + 1, k, n)
    BY <2>1, PointIs
  <2>4. Point(u, h, k + 1, n) = InSpace(u, h, k + 1, n)
    BY <2>1, PointIs
  <2>5. Point(u, h + 1, k + 1, n) = InSpace(u, h + 1, k + 1, n)
    BY <2>1, PointIs
  <2> QED BY <2>1, <2>2, <2>3, <2>4, <2>5
<1>2. PointsOf(<<u, k, h>>, n) = {Point(u, h + a, k + b, n) : a, b \in {0, 1}}
  <2>1. 0..1 = {0, 1}
    OBVIOUS
  <2> QED BY <2>1 DEF PointsOf
<1>3. <<x, y, z>> \in PointsOf(<<u, k, h>>, n)
        <=> \/ <<x, y, z>> = InSpace(u, h, k, n)
            \/ <<x, y, z>> = InSpace(u, h + 1, k, n)
            \/ <<x, y, z>> = InSpace(u, h, k + 1, n)
            \/ <<x, y, z>> = InSpace(u, h + 1, k + 1, n)
  BY <1>1, <1>2
<1>4. CASE u = 0
  BY <1>3, <1>4 DEF InSpace, Holds
<1>5. CASE u = 1
  BY <1>3, <1>5 DEF InSpace, Holds
<1>6. CASE u = 2
  BY <1>3, <1>6 DEF InSpace, Holds
<1>7. CASE u = 3
  BY <1>3, <1>7 DEF InSpace, Holds
<1>8. CASE u = 4
  BY <1>3, <1>8 DEF InSpace, Holds
<1>9. CASE u = 5
  BY <1>3, <1>9 DEF InSpace, Holds
<1> QED BY <1>4, <1>5, <1>6, <1>7, <1>8, <1>9

(* A grid point of a tile is a point of a subtile, of that tile or another. *)
Meets(t, i, j, n, u, k, h) ==
  CASE t = 0 -> Holds(u, k, h, n, n, i, j)
    [] t = 1 -> Holds(u, k, h, n, n - i, n, j)
    [] t = 2 -> Holds(u, k, h, n, n - i, n - j, n)
    [] t = 3 -> Holds(u, k, h, n, 0, n - j, n - i)
    [] t = 4 -> Holds(u, k, h, n, j, 0, n - i)
    [] t = 5 -> Holds(u, k, h, n, j, i, 0)

LEMMA PointMeets ==
  ASSUME NEW n \in Nat \ {0}, NEW t \in 0..5, NEW i \in Int, NEW j \in Int,
         NEW u \in 0..5, NEW k \in Int, NEW h \in Int
  PROVE  Point(t, i, j, n) \in PointsOf(<<u, k, h>>, n) <=> Meets(t, i, j, n, u, k, h)
<1>0. n \in Int
  OBVIOUS
<1>1. Point(t, i, j, n) = InSpace(t, i, j, n)
  BY <1>0, PointIs
<1>2. CASE t = 0
  <2>1. <<n, i, j>> \in PointsOf(<<u, k, h>>, n) <=> Holds(u, k, h, n, n, i, j)
    <3>1. n \in Int /\ i \in Int /\ j \in Int
      OBVIOUS
    <3> QED BY <3>1, PointsOfSubtile, Zenon
  <2>2. InSpace(t, i, j, n) = <<n, i, j>>
    BY <1>2 DEF InSpace
  <2>3. Meets(t, i, j, n, u, k, h) <=> Holds(u, k, h, n, n, i, j)
    BY <1>2 DEF Meets
  <2> QED BY <1>1, <2>1, <2>2, <2>3
<1>3. CASE t = 1
  <2>1. <<n - i, n, j>> \in PointsOf(<<u, k, h>>, n) <=> Holds(u, k, h, n, n - i, n, j)
    <3>1. n - i \in Int /\ n \in Int /\ j \in Int
      OBVIOUS
    <3> QED BY <3>1, PointsOfSubtile, Zenon
  <2>2. InSpace(t, i, j, n) = <<n - i, n, j>>
    BY <1>3 DEF InSpace
  <2>3. Meets(t, i, j, n, u, k, h) <=> Holds(u, k, h, n, n - i, n, j)
    BY <1>3 DEF Meets
  <2> QED BY <1>1, <2>1, <2>2, <2>3
<1>4. CASE t = 2
  <2>1. <<n - i, n - j, n>> \in PointsOf(<<u, k, h>>, n) <=> Holds(u, k, h, n, n - i, n - j, n)
    <3>1. n - i \in Int /\ n - j \in Int /\ n \in Int
      OBVIOUS
    <3> QED BY <3>1, PointsOfSubtile, Zenon
  <2>2. InSpace(t, i, j, n) = <<n - i, n - j, n>>
    BY <1>4 DEF InSpace
  <2>3. Meets(t, i, j, n, u, k, h) <=> Holds(u, k, h, n, n - i, n - j, n)
    BY <1>4 DEF Meets
  <2> QED BY <1>1, <2>1, <2>2, <2>3
<1>5. CASE t = 3
  <2>1. <<0, n - j, n - i>> \in PointsOf(<<u, k, h>>, n) <=> Holds(u, k, h, n, 0, n - j, n - i)
    <3>1. 0 \in Int /\ n - j \in Int /\ n - i \in Int
      OBVIOUS
    <3> QED BY <3>1, PointsOfSubtile, Zenon
  <2>2. InSpace(t, i, j, n) = <<0, n - j, n - i>>
    BY <1>5 DEF InSpace
  <2>3. Meets(t, i, j, n, u, k, h) <=> Holds(u, k, h, n, 0, n - j, n - i)
    BY <1>5 DEF Meets
  <2> QED BY <1>1, <2>1, <2>2, <2>3
<1>6. CASE t = 4
  <2>1. <<j, 0, n - i>> \in PointsOf(<<u, k, h>>, n) <=> Holds(u, k, h, n, j, 0, n - i)
    <3>1. j \in Int /\ 0 \in Int /\ n - i \in Int
      OBVIOUS
    <3> QED BY <3>1, PointsOfSubtile, Zenon
  <2>2. InSpace(t, i, j, n) = <<j, 0, n - i>>
    BY <1>6 DEF InSpace
  <2>3. Meets(t, i, j, n, u, k, h) <=> Holds(u, k, h, n, j, 0, n - i)
    BY <1>6 DEF Meets
  <2> QED BY <1>1, <2>1, <2>2, <2>3
<1>7. CASE t = 5
  <2>1. <<j, i, 0>> \in PointsOf(<<u, k, h>>, n) <=> Holds(u, k, h, n, j, i, 0)
    <3>1. j \in Int /\ i \in Int /\ 0 \in Int
      OBVIOUS
    <3> QED BY <3>1, PointsOfSubtile, Zenon
  <2>2. InSpace(t, i, j, n) = <<j, i, 0>>
    BY <1>7 DEF InSpace
  <2>3. Meets(t, i, j, n, u, k, h) <=> Holds(u, k, h, n, j, i, 0)
    BY <1>7 DEF Meets
  <2> QED BY <1>1, <2>1, <2>2, <2>3
<1> QED BY <1>2, <1>3, <1>4, <1>5, <1>6, <1>7

LEMMA TilesByNumber ==
  ASSUME NEW t \in 0..5
  PROVE  /\ (t - 2) % 6 = IF t < 2 THEN t + 4 ELSE t - 2
         /\ (t - 1) % 6 = IF t < 1 THEN t + 5 ELSE t - 1
         /\ (t + 1) % 6 = IF t < 5 THEN t + 1 ELSE t - 5
         /\ (t + 2) % 6 = IF t < 4 THEN t + 2 ELSE t - 4
  OBVIOUS

(* The grid points of a subtile that another one has too. *)
HasSW(s, n, q) == Meets(s[1], s[3], s[2], n, q[1], q[2], q[3])
HasSE(s, n, q) == Meets(s[1], s[3] + 1, s[2], n, q[1], q[2], q[3])
HasNW(s, n, q) == Meets(s[1], s[3], s[2] + 1, n, q[1], q[2], q[3])
HasNE(s, n, q) == Meets(s[1], s[3] + 1, s[2] + 1, n, q[1], q[2], q[3])

Shares(type, s, n, q) ==
  CASE type = "W" -> q # s /\ HasSW(s, n, q) /\ HasNW(s, n, q)
    [] type = "E" -> q # s /\ HasSE(s, n, q) /\ HasNE(s, n, q)
    [] type = "N" -> q # s /\ HasNW(s, n, q) /\ HasNE(s, n, q)
    [] type = "S" -> q # s /\ HasSW(s, n, q) /\ HasSE(s, n, q)
    [] type = "NW" -> HasNW(s, n, q) /\ ~HasNE(s, n, q) /\ ~HasSW(s, n, q) /\ ~HasSE(s, n, q)
    [] type = "NE" -> HasNE(s, n, q) /\ ~HasNW(s, n, q) /\ ~HasSW(s, n, q) /\ ~HasSE(s, n, q)
    [] type = "SW" -> HasSW(s, n, q) /\ ~HasNW(s, n, q) /\ ~HasNE(s, n, q) /\ ~HasSE(s, n, q)
    [] type = "SE" -> HasSE(s, n, q) /\ ~HasNW(s, n, q) /\ ~HasNE(s, n, q) /\ ~HasSW(s, n, q)

(* What is around a subtile of tile 0. *)
LEMMA AroundTile0 ==
  ASSUME NEW n \in Nat \ {0}, NEW s \in Places(n), NEW q \in Places(n), NEW type \in Types,
         s[1] = 0
  PROVE  Shares(type, s, n, q) <=> RealAt(type, n, s) /\ q = NextAt(type, n, s)
<1> DEFINE j == s[2]
           i == s[3]
           u == q[1]
           k == q[2]
           h == q[3]
           To(ty) == Shares(ty, s, n, q) <=> RealAt(ty, n, s) /\ q = NextAt(ty, n, s)
<1>0. /\ j \in 0..(n - 1) /\ i \in 0..(n - 1) /\ s = <<0, j, i>>
      /\ u \in 0..5 /\ k \in 0..(n - 1) /\ h \in 0..(n - 1) /\ q = <<u, k, h>>
  BY DEF Places
<1> HIDE DEF j, i, u, k, h
<1>1. /\ HasSW(s, n, q) <=> Holds(u, k, h, n, n, i, j)
      /\ HasSE(s, n, q) <=> Holds(u, k, h, n, n, (i + 1), j)
      /\ HasNW(s, n, q) <=> Holds(u, k, h, n, n, i, (j + 1))
      /\ HasNE(s, n, q) <=> Holds(u, k, h, n, n, (i + 1), (j + 1))
  BY <1>0 DEF HasSW, HasSE, HasNW, HasNE, Meets
<1>2. \A ty \in Types : NextAt(ty, n, s) = Reached(ty, TRUE, 4, 5, 1, 2, n, 0, j, i)
  <2>1. ASSUME NEW ty \in Types
        PROVE  WhereTo(ty, n, 0, j, i)
                 = Reached(ty, IsEven(0), (0 - 2) % 6, (0 - 1) % 6, (0 + 1) % 6, (0 + 2) % 6,
                           n, 0, j, i)
    <3>1. 0 \in 0..5
      OBVIOUS
    <3> QED BY <1>0, <3>1, WhereToIs
  <2>2. /\ (0 - 2) % 6 = 4 /\ (0 - 1) % 6 = 5 /\ (0 + 1) % 6 = 1 /\ (0 + 2) % 6 = 2
    <3>1. 0 \in 0..5
      OBVIOUS
    <3> QED BY <3>1, TilesByNumber
  <2>3. IsEven(0) = TRUE
    BY DEF IsEven
  <2> QED BY <1>0, <2>1, <2>2, <2>3 DEF NextAt
<1>3. (q = s) <=> (u = 0 /\ k = j /\ h = i)
  BY <1>0
<1>4. To("W")
  <2>1. q = NextAt("W", n, s) <=>
          IF i > 0 THEN u = 0 /\ k = j /\ h = i - 1 ELSE u = 4 /\ k = n - 1 /\ h = n - 1 - j
    BY <1>0, <1>2 DEF Reached, Types, Edges, Corners
  <2>2. RealAt("W", n, s)
    BY DEF RealAt, AtCubeCorner
  <2>3. /\ ~(u = 0 /\ k = j /\ h = i)
        /\ Holds(u, k, h, n, n, i, (j + 1))
        /\ Holds(u, k, h, n, n, i, j)
        <=> IF i > 0 THEN u = 0 /\ k = j /\ h = i - 1 ELSE u = 4 /\ k = n - 1 /\ h = n - 1 - j
    BY <1>0 DEF Holds
  <2> QED BY <1>1, <1>3, <2>1, <2>2, <2>3 DEF Shares
<1>5. To("E")
  <2>1. q = NextAt("E", n, s) <=>
          IF i < n - 1 THEN u = 0 /\ k = j /\ h = i + 1 ELSE u = 1 /\ k = j /\ h = 0
    BY <1>0, <1>2 DEF Reached, Types, Edges, Corners
  <2>2. RealAt("E", n, s)
    BY DEF RealAt, AtCubeCorner
  <2>3. /\ ~(u = 0 /\ k = j /\ h = i)
        /\ Holds(u, k, h, n, n, (i + 1), (j + 1))
        /\ Holds(u, k, h, n, n, (i + 1), j)
        <=> IF i < n - 1 THEN u = 0 /\ k = j /\ h = i + 1 ELSE u = 1 /\ k = j /\ h = 0
    BY <1>0 DEF Holds
  <2> QED BY <1>1, <1>3, <2>1, <2>2, <2>3 DEF Shares
<1>6. To("N")
  <2>1. q = NextAt("N", n, s) <=>
          IF j < n - 1 THEN u = 0 /\ k = j + 1 /\ h = i ELSE u = 2 /\ k = n - 1 - i /\ h = 0
    BY <1>0, <1>2 DEF Reached, Types, Edges, Corners
  <2>2. RealAt("N", n, s)
    BY DEF RealAt, AtCubeCorner
  <2>3. /\ ~(u = 0 /\ k = j /\ h = i)
        /\ Holds(u, k, h, n, n, i, (j + 1))
        /\ Holds(u, k, h, n, n, (i + 1), (j + 1))
        <=> IF j < n - 1 THEN u = 0 /\ k = j + 1 /\ h = i ELSE u = 2 /\ k = n - 1 - i /\ h = 0
    BY <1>0 DEF Holds
  <2> QED BY <1>1, <1>3, <2>1, <2>2, <2>3 DEF Shares
<1>7. To("S")
  <2>1. q = NextAt("S", n, s) <=>
          IF j > 0 THEN u = 0 /\ k = j - 1 /\ h = i ELSE u = 5 /\ k = n - 1 /\ h = i
    BY <1>0, <1>2 DEF Reached, Types, Edges, Corners
  <2>2. RealAt("S", n, s)
    BY DEF RealAt, AtCubeCorner
  <2>3. /\ ~(u = 0 /\ k = j /\ h = i)
        /\ Holds(u, k, h, n, n, i, j)
        /\ Holds(u, k, h, n, n, (i + 1), j)
        <=> IF j > 0 THEN u = 0 /\ k = j - 1 /\ h = i ELSE u = 5 /\ k = n - 1 /\ h = i
    BY <1>0 DEF Holds
  <2> QED BY <1>1, <1>3, <2>1, <2>2, <2>3 DEF Shares
<1>8. To("NW")
  <2>1. q = NextAt("NW", n, s) <=>
          IF i = 0 THEN u = 4 /\ k = n - 1 /\ h = n - 2 - j ELSE IF j < n - 1 THEN u = 0 /\ k = j + 1 /\ h = i - 1 ELSE u = 2 /\ k = n - i /\ h = 0
    BY <1>0, <1>2 DEF Reached, Types, Edges, Corners
  <2>2. RealAt("NW", n, s) <=> ~(j = n - 1 /\ i = 0)
    BY <1>0 DEF RealAt, AtCubeCorner
  <2>3. /\ Holds(u, k, h, n, n, i, (j + 1))
        /\ ~Holds(u, k, h, n, n, (i + 1), (j + 1))
        /\ ~Holds(u, k, h, n, n, i, j)
        /\ ~Holds(u, k, h, n, n, (i + 1), j)
        <=> /\ ~(j = n - 1 /\ i = 0)
            /\ IF i = 0 THEN u = 4 /\ k = n - 1 /\ h = n - 2 - j ELSE IF j < n - 1 THEN u = 0 /\ k = j + 1 /\ h = i - 1 ELSE u = 2 /\ k = n - i /\ h = 0
    BY <1>0 DEF Holds
  <2> QED BY <1>1, <1>3, <2>1, <2>2, <2>3 DEF Shares
<1>9. To("NE")
  <2>1. q = NextAt("NE", n, s) <=>
          IF j = n - 1 THEN u = 2 /\ k = n - 2 - i /\ h = 0 ELSE IF i < n - 1 THEN u = 0 /\ k = j + 1 /\ h = i + 1 ELSE u = 1 /\ k = j + 1 /\ h = 0
    BY <1>0, <1>2 DEF Reached, Types, Edges, Corners
  <2>2. RealAt("NE", n, s) <=> ~(j = n - 1 /\ i = n - 1)
    BY <1>0 DEF RealAt, AtCubeCorner
  <2>3. /\ Holds(u, k, h, n, n, (i + 1), (j + 1))
        /\ ~Holds(u, k, h, n, n, i, (j + 1))
        /\ ~Holds(u, k, h, n, n, i, j)
        /\ ~Holds(u, k, h, n, n, (i + 1), j)
        <=> /\ ~(j = n - 1 /\ i = n - 1)
            /\ IF j = n - 1 THEN u = 2 /\ k = n - 2 - i /\ h = 0 ELSE IF i < n - 1 THEN u = 0 /\ k = j + 1 /\ h = i + 1 ELSE u = 1 /\ k = j + 1 /\ h = 0
    BY <1>0 DEF Holds
  <2> QED BY <1>1, <1>3, <2>1, <2>2, <2>3 DEF Shares
<1>10. To("SW")
  <2>1. q = NextAt("SW", n, s) <=>
          IF j = 0 THEN u = 5 /\ k = n - 1 /\ h = i - 1 ELSE IF i > 0 THEN u = 0 /\ k = j - 1 /\ h = i - 1 ELSE u = 4 /\ k = n - 1 /\ h = n - j
    BY <1>0, <1>2 DEF Reached, Types, Edges, Corners
  <2>2. RealAt("SW", n, s) <=> ~(j = 0 /\ i = 0)
    BY <1>0 DEF RealAt, AtCubeCorner
  <2>3. /\ Holds(u, k, h, n, n, i, j)
        /\ ~Holds(u, k, h, n, n, i, (j + 1))
        /\ ~Holds(u, k, h, n, n, (i + 1), (j + 1))
        /\ ~Holds(u, k, h, n, n, (i + 1), j)
        <=> /\ ~(j = 0 /\ i = 0)
            /\ IF j = 0 THEN u = 5 /\ k = n - 1 /\ h = i - 1 ELSE IF i > 0 THEN u = 0 /\ k = j - 1 /\ h = i - 1 ELSE u = 4 /\ k = n - 1 /\ h = n - j
    BY <1>0 DEF Holds
  <2> QED BY <1>1, <1>3, <2>1, <2>2, <2>3 DEF Shares
<1>11. To("SE")
  <2>1. q = NextAt("SE", n, s) <=>
          IF j = 0 THEN u = 5 /\ k = n - 1 /\ h = i + 1 ELSE IF i < n - 1 THEN u = 0 /\ k = j - 1 /\ h = i + 1 ELSE u = 1 /\ k = j - 1 /\ h = 0
    BY <1>0, <1>2 DEF Reached, Types, Edges, Corners
  <2>2. RealAt("SE", n, s) <=> ~(j = 0 /\ i = n - 1)
    BY <1>0 DEF RealAt, AtCubeCorner
  <2>3. /\ Holds(u, k, h, n, n, (i + 1), j)
        /\ ~Holds(u, k, h, n, n, i, (j + 1))
        /\ ~Holds(u, k, h, n, n, (i + 1), (j + 1))
        /\ ~Holds(u, k, h, n, n, i, j)
        <=> /\ ~(j = 0 /\ i = n - 1)
            /\ IF j = 0 THEN u = 5 /\ k = n - 1 /\ h = i + 1 ELSE IF i < n - 1 THEN u = 0 /\ k = j - 1 /\ h = i + 1 ELSE u = 1 /\ k = j - 1 /\ h = 0
    BY <1>0 DEF Holds
  <2> QED BY <1>1, <1>3, <2>1, <2>2, <2>3 DEF Shares
<1> HIDE DEF To
<1>12. To(type)
  BY <1>4, <1>5, <1>6, <1>7, <1>8, <1>9, <1>10, <1>11 DEF Types, Edges, Corners
<1> QED BY <1>12 DEF To

(* What is around a subtile of tile 1. *)
LEMMA AroundTile1 ==
  ASSUME NEW n \in Nat \ {0}, NEW s \in Places(n), NEW q \in Places(n), NEW type \in Types,
         s[1] = 1
  PROVE  Shares(type, s, n, q) <=> RealAt(type, n, s) /\ q = NextAt(type, n, s)
<1> DEFINE j == s[2]
           i == s[3]
           u == q[1]
           k == q[2]
           h == q[3]
           To(ty) == Shares(ty, s, n, q) <=> RealAt(ty, n, s) /\ q = NextAt(ty, n, s)
<1>0. /\ j \in 0..(n - 1) /\ i \in 0..(n - 1) /\ s = <<1, j, i>>
      /\ u \in 0..5 /\ k \in 0..(n - 1) /\ h \in 0..(n - 1) /\ q = <<u, k, h>>
  BY DEF Places
<1> HIDE DEF j, i, u, k, h
<1>1. /\ HasSW(s, n, q) <=> Holds(u, k, h, n, n - i, n, j)
      /\ HasSE(s, n, q) <=> Holds(u, k, h, n, n - (i + 1), n, j)
      /\ HasNW(s, n, q) <=> Holds(u, k, h, n, n - i, n, (j + 1))
      /\ HasNE(s, n, q) <=> Holds(u, k, h, n, n - (i + 1), n, (j + 1))
  BY <1>0 DEF HasSW, HasSE, HasNW, HasNE, Meets
<1>2. \A ty \in Types : NextAt(ty, n, s) = Reached(ty, FALSE, 5, 0, 2, 3, n, 1, j, i)
  <2>1. ASSUME NEW ty \in Types
        PROVE  WhereTo(ty, n, 1, j, i)
                 = Reached(ty, IsEven(1), (1 - 2) % 6, (1 - 1) % 6, (1 + 1) % 6, (1 + 2) % 6,
                           n, 1, j, i)
    <3>1. 1 \in 0..5
      OBVIOUS
    <3> QED BY <1>0, <3>1, WhereToIs
  <2>2. /\ (1 - 2) % 6 = 5 /\ (1 - 1) % 6 = 0 /\ (1 + 1) % 6 = 2 /\ (1 + 2) % 6 = 3
    <3>1. 1 \in 0..5
      OBVIOUS
    <3> QED BY <3>1, TilesByNumber
  <2>3. IsEven(1) = FALSE
    BY DEF IsEven
  <2> QED BY <1>0, <2>1, <2>2, <2>3 DEF NextAt
<1>3. (q = s) <=> (u = 1 /\ k = j /\ h = i)
  BY <1>0
<1>4. To("W")
  <2>1. q = NextAt("W", n, s) <=>
          IF i > 0 THEN u = 1 /\ k = j /\ h = i - 1 ELSE u = 0 /\ k = j /\ h = n - 1
    BY <1>0, <1>2 DEF Reached, Types, Edges, Corners
  <2>2. RealAt("W", n, s)
    BY DEF RealAt, AtCubeCorner
  <2>3. /\ ~(u = 1 /\ k = j /\ h = i)
        /\ Holds(u, k, h, n, n - i, n, (j + 1))
        /\ Holds(u, k, h, n, n - i, n, j)
        <=> IF i > 0 THEN u = 1 /\ k = j /\ h = i - 1 ELSE u = 0 /\ k = j /\ h = n - 1
    BY <1>0 DEF Holds
  <2> QED BY <1>1, <1>3, <2>1, <2>2, <2>3 DEF Shares
<1>5. To("E")
  <2>1. q = NextAt("E", n, s) <=>
          IF i < n - 1 THEN u = 1 /\ k = j /\ h = i + 1 ELSE u = 3 /\ k = 0 /\ h = n - 1 - j
    BY <1>0, <1>2 DEF Reached, Types, Edges, Corners
  <2>2. RealAt("E", n, s)
    BY DEF RealAt, AtCubeCorner
  <2>3. /\ ~(u = 1 /\ k = j /\ h = i)
        /\ Holds(u, k, h, n, n - (i + 1), n, (j + 1))
        /\ Holds(u, k, h, n, n - (i + 1), n, j)
        <=> IF i < n - 1 THEN u = 1 /\ k = j /\ h = i + 1 ELSE u = 3 /\ k = 0 /\ h = n - 1 - j
    BY <1>0 DEF Holds
  <2> QED BY <1>1, <1>3, <2>1, <2>2, <2>3 DEF Shares
<1>6. To("N")
  <2>1. q = NextAt("N", n, s) <=>
          IF j < n - 1 THEN u = 1 /\ k = j + 1 /\ h = i ELSE u = 2 /\ k = 0 /\ h = i
    BY <1>0, <1>2 DEF Reached, Types, Edges, Corners
  <2>2. RealAt("N", n, s)
    BY DEF RealAt, AtCubeCorner
  <2>3. /\ ~(u = 1 /\ k = j /\ h = i)
        /\ Holds(u, k, h, n, n - i, n, (j + 1))
        /\ Holds(u, k, h, n, n - (i + 1), n, (j + 1))
        <=> IF j < n - 1 THEN u = 1 /\ k = j + 1 /\ h = i ELSE u = 2 /\ k = 0 /\ h = i
    BY <1>0 DEF Holds
  <2> QED BY <1>1, <1>3, <2>1, <2>2, <2>3 DEF Shares
<1>7. To("S")
  <2>1. q = NextAt("S", n, s) <=>
          IF j > 0 THEN u = 1 /\ k = j - 1 /\ h = i ELSE u = 5 /\ k = n - 1 - i /\ h = n - 1
    BY <1>0, <1>2 DEF Reached, Types, Edges, Corners
  <2>2. RealAt("S", n, s)
    BY DEF RealAt, AtCubeCorner
  <2>3. /\ ~(u = 1 /\ k = j /\ h = i)
        /\ Holds(u, k, h, n, n - i, n, j)
        /\ Holds(u, k, h, n, n - (i + 1), n, j)
        <=> IF j > 0 THEN u = 1 /\ k = j - 1 /\ h = i ELSE u = 5 /\ k = n - 1 - i /\ h = n - 1
    BY <1>0 DEF Holds
  <2> QED BY <1>1, <1>3, <2>1, <2>2, <2>3 DEF Shares
<1>8. To("NW")
  <2>1. q = NextAt("NW", n, s) <=>
          IF i = 0 THEN u = 0 /\ k = j + 1 /\ h = n - 1 ELSE IF j < n - 1 THEN u = 1 /\ k = j + 1 /\ h = i - 1 ELSE u = 2 /\ k = 0 /\ h = i - 1
    BY <1>0, <1>2 DEF Reached, Types, Edges, Corners
  <2>2. RealAt("NW", n, s) <=> ~(j = n - 1 /\ i = 0)
    BY <1>0 DEF RealAt, AtCubeCorner
  <2>3. /\ Holds(u, k, h, n, n - i, n, (j + 1))
        /\ ~Holds(u, k, h, n, n - (i + 1), n, (j + 1))
        /\ ~Holds(u, k, h, n, n - i, n, j)
        /\ ~Holds(u, k, h, n, n - (i + 1), n, j)
        <=> /\ ~(j = n - 1 /\ i = 0)
            /\ IF i = 0 THEN u = 0 /\ k = j + 1 /\ h = n - 1 ELSE IF j < n - 1 THEN u = 1 /\ k = j + 1 /\ h = i - 1 ELSE u = 2 /\ k = 0 /\ h = i - 1
    BY <1>0 DEF Holds
  <2> QED BY <1>1, <1>3, <2>1, <2>2, <2>3 DEF Shares
<1>9. To("NE")
  <2>1. q = NextAt("NE", n, s) <=>
          IF j = n - 1 THEN u = 2 /\ k = 0 /\ h = i + 1 ELSE IF i < n - 1 THEN u = 1 /\ k = j + 1 /\ h = i + 1 ELSE u = 3 /\ k = 0 /\ h = n - 2 - j
    BY <1>0, <1>2 DEF Reached, Types, Edges, Corners
  <2>2. RealAt("NE", n, s) <=> ~(j = n - 1 /\ i = n - 1)
    BY <1>0 DEF RealAt, AtCubeCorner
  <2>3. /\ Holds(u, k, h, n, n - (i + 1), n, (j + 1))
        /\ ~Holds(u, k, h, n, n - i, n, (j + 1))
        /\ ~Holds(u, k, h, n, n - i, n, j)
        /\ ~Holds(u, k, h, n, n - (i + 1), n, j)
        <=> /\ ~(j = n - 1 /\ i = n - 1)
            /\ IF j = n - 1 THEN u = 2 /\ k = 0 /\ h = i + 1 ELSE IF i < n - 1 THEN u = 1 /\ k = j + 1 /\ h = i + 1 ELSE u = 3 /\ k = 0 /\ h = n - 2 - j
    BY <1>0 DEF Holds
  <2> QED BY <1>1, <1>3, <2>1, <2>2, <2>3 DEF Shares
<1>10. To("SW")
  <2>1. q = NextAt("SW", n, s) <=>
          IF j = 0 THEN u = 5 /\ k = n - i /\ h = n - 1 ELSE IF i > 0 THEN u = 1 /\ k = j - 1 /\ h = i - 1 ELSE u = 0 /\ k = j - 1 /\ h = n - 1
    BY <1>0, <1>2 DEF Reached, Types, Edges, Corners
  <2>2. RealAt("SW", n, s) <=> ~(j = 0 /\ i = 0)
    BY <1>0 DEF RealAt, AtCubeCorner
  <2>3. /\ Holds(u, k, h, n, n - i, n, j)
        /\ ~Holds(u, k, h, n, n - i, n, (j + 1))
        /\ ~Holds(u, k, h, n, n - (i + 1), n, (j + 1))
        /\ ~Holds(u, k, h, n, n - (i + 1), n, j)
        <=> /\ ~(j = 0 /\ i = 0)
            /\ IF j = 0 THEN u = 5 /\ k = n - i /\ h = n - 1 ELSE IF i > 0 THEN u = 1 /\ k = j - 1 /\ h = i - 1 ELSE u = 0 /\ k = j - 1 /\ h = n - 1
    BY <1>0 DEF Holds
  <2> QED BY <1>1, <1>3, <2>1, <2>2, <2>3 DEF Shares
<1>11. To("SE")
  <2>1. q = NextAt("SE", n, s) <=>
          IF j = 0 THEN u = 5 /\ k = n - 2 - i /\ h = n - 1 ELSE IF i < n - 1 THEN u = 1 /\ k = j - 1 /\ h = i + 1 ELSE u = 3 /\ k = 0 /\ h = n - j
    BY <1>0, <1>2 DEF Reached, Types, Edges, Corners
  <2>2. RealAt("SE", n, s) <=> ~(j = 0 /\ i = n - 1)
    BY <1>0 DEF RealAt, AtCubeCorner
  <2>3. /\ Holds(u, k, h, n, n - (i + 1), n, j)
        /\ ~Holds(u, k, h, n, n - i, n, (j + 1))
        /\ ~Holds(u, k, h, n, n - (i + 1), n, (j + 1))
        /\ ~Holds(u, k, h, n, n - i, n, j)
        <=> /\ ~(j = 0 /\ i = n - 1)
            /\ IF j = 0 THEN u = 5 /\ k = n - 2 - i /\ h = n - 1 ELSE IF i < n - 1 THEN u = 1 /\ k = j - 1 /\ h = i + 1 ELSE u = 3 /\ k = 0 /\ h = n - j
    BY <1>0 DEF Holds
  <2> QED BY <1>1, <1>3, <2>1, <2>2, <2>3 DEF Shares
<1> HIDE DEF To
<1>12. To(type)
  BY <1>4, <1>5, <1>6, <1>7, <1>8, <1>9, <1>10, <1>11 DEF Types, Edges, Corners
<1> QED BY <1>12 DEF To

(* What is around a subtile of tile 2. *)
LEMMA AroundTile2 ==
  ASSUME NEW n \in Nat \ {0}, NEW s \in Places(n), NEW q \in Places(n), NEW type \in Types,
         s[1] = 2
  PROVE  Shares(type, s, n, q) <=> RealAt(type, n, s) /\ q = NextAt(type, n, s)
<1> DEFINE j == s[2]
           i == s[3]
           u == q[1]
           k == q[2]
           h == q[3]
           To(ty) == Shares(ty, s, n, q) <=> RealAt(ty, n, s) /\ q = NextAt(ty, n, s)
<1>0. /\ j \in 0..(n - 1) /\ i \in 0..(n - 1) /\ s = <<2, j, i>>
      /\ u \in 0..5 /\ k \in 0..(n - 1) /\ h \in 0..(n - 1) /\ q = <<u, k, h>>
  BY DEF Places
<1> HIDE DEF j, i, u, k, h
<1>1. /\ HasSW(s, n, q) <=> Holds(u, k, h, n, n - i, n - j, n)
      /\ HasSE(s, n, q) <=> Holds(u, k, h, n, n - (i + 1), n - j, n)
      /\ HasNW(s, n, q) <=> Holds(u, k, h, n, n - i, n - (j + 1), n)
      /\ HasNE(s, n, q) <=> Holds(u, k, h, n, n - (i + 1), n - (j + 1), n)
  BY <1>0 DEF HasSW, HasSE, HasNW, HasNE, Meets
<1>2. \A ty \in Types : NextAt(ty, n, s) = Reached(ty, TRUE, 0, 1, 3, 4, n, 2, j, i)
  <2>1. ASSUME NEW ty \in Types
        PROVE  WhereTo(ty, n, 2, j, i)
                 = Reached(ty, IsEven(2), (2 - 2) % 6, (2 - 1) % 6, (2 + 1) % 6, (2 + 2) % 6,
                           n, 2, j, i)
    <3>1. 2 \in 0..5
      OBVIOUS
    <3> QED BY <1>0, <3>1, WhereToIs
  <2>2. /\ (2 - 2) % 6 = 0 /\ (2 - 1) % 6 = 1 /\ (2 + 1) % 6 = 3 /\ (2 + 2) % 6 = 4
    <3>1. 2 \in 0..5
      OBVIOUS
    <3> QED BY <3>1, TilesByNumber
  <2>3. IsEven(2) = TRUE
    BY DEF IsEven
  <2> QED BY <1>0, <2>1, <2>2, <2>3 DEF NextAt
<1>3. (q = s) <=> (u = 2 /\ k = j /\ h = i)
  BY <1>0
<1>4. To("W")
  <2>1. q = NextAt("W", n, s) <=>
          IF i > 0 THEN u = 2 /\ k = j /\ h = i - 1 ELSE u = 0 /\ k = n - 1 /\ h = n - 1 - j
    BY <1>0, <1>2 DEF Reached, Types, Edges, Corners
  <2>2. RealAt("W", n, s)
    BY DEF RealAt, AtCubeCorner
  <2>3. /\ ~(u = 2 /\ k = j /\ h = i)
        /\ Holds(u, k, h, n, n - i, n - (j + 1), n)
        /\ Holds(u, k, h, n, n - i, n - j, n)
        <=> IF i > 0 THEN u = 2 /\ k = j /\ h = i - 1 ELSE u = 0 /\ k = n - 1 /\ h = n - 1 - j
    BY <1>0 DEF Holds
  <2> QED BY <1>1, <1>3, <2>1, <2>2, <2>3 DEF Shares
<1>5. To("E")
  <2>1. q = NextAt("E", n, s) <=>
          IF i < n - 1 THEN u = 2 /\ k = j /\ h = i + 1 ELSE u = 3 /\ k = j /\ h = 0
    BY <1>0, <1>2 DEF Reached, Types, Edges, Corners
  <2>2. RealAt("E", n, s)
    BY DEF RealAt, AtCubeCorner
  <2>3. /\ ~(u = 2 /\ k = j /\ h = i)
        /\ Holds(u, k, h, n, n - (i + 1), n - (j + 1), n)
        /\ Holds(u, k, h, n, n - (i + 1), n - j, n)
        <=> IF i < n - 1 THEN u = 2 /\ k = j /\ h = i + 1 ELSE u = 3 /\ k = j /\ h = 0
    BY <1>0 DEF Holds
  <2> QED BY <1>1, <1>3, <2>1, <2>2, <2>3 DEF Shares
<1>6. To("N")
  <2>1. q = NextAt("N", n, s) <=>
          IF j < n - 1 THEN u = 2 /\ k = j + 1 /\ h = i ELSE u = 4 /\ k = n - 1 - i /\ h = 0
    BY <1>0, <1>2 DEF Reached, Types, Edges, Corners
  <2>2. RealAt("N", n, s)
    BY DEF RealAt, AtCubeCorner
  <2>3. /\ ~(u = 2 /\ k = j /\ h = i)
        /\ Holds(u, k, h, n, n - i, n - (j + 1), n)
        /\ Holds(u, k, h, n, n - (i + 1), n - (j + 1), n)
        <=> IF j < n - 1 THEN u = 2 /\ k = j + 1 /\ h = i ELSE u = 4 /\ k = n - 1 - i /\ h = 0
    BY <1>0 DEF Holds
  <2> QED BY <1>1, <1>3, <2>1, <2>2, <2>3 DEF Shares
<1>7. To("S")
  <2>1. q = NextAt("S", n, s) <=>
          IF j > 0 THEN u = 2 /\ k = j - 1 /\ h = i ELSE u = 1 /\ k = n - 1 /\ h = i
    BY <1>0, <1>2 DEF Reached, Types, Edges, Corners
  <2>2. RealAt("S", n, s)
    BY DEF RealAt, AtCubeCorner
  <2>3. /\ ~(u = 2 /\ k = j /\ h = i)
        /\ Holds(u, k, h, n, n - i, n - j, n)
        /\ Holds(u, k, h, n, n - (i + 1), n - j, n)
        <=> IF j > 0 THEN u = 2 /\ k = j - 1 /\ h = i ELSE u = 1 /\ k = n - 1 /\ h = i
    BY <1>0 DEF Holds
  <2> QED BY <1>1, <1>3, <2>1, <2>2, <2>3 DEF Shares
<1>8. To("NW")
  <2>1. q = NextAt("NW", n, s) <=>
          IF i = 0 THEN u = 0 /\ k = n - 1 /\ h = n - 2 - j ELSE IF j < n - 1 THEN u = 2 /\ k = j + 1 /\ h = i - 1 ELSE u = 4 /\ k = n - i /\ h = 0
    BY <1>0, <1>2 DEF Reached, Types, Edges, Corners
  <2>2. RealAt("NW", n, s) <=> ~(j = n - 1 /\ i = 0)
    BY <1>0 DEF RealAt, AtCubeCorner
  <2>3. /\ Holds(u, k, h, n, n - i, n - (j + 1), n)
        /\ ~Holds(u, k, h, n, n - (i + 1), n - (j + 1), n)
        /\ ~Holds(u, k, h, n, n - i, n - j, n)
        /\ ~Holds(u, k, h, n, n - (i + 1), n - j, n)
        <=> /\ ~(j = n - 1 /\ i = 0)
            /\ IF i = 0 THEN u = 0 /\ k = n - 1 /\ h = n - 2 - j ELSE IF j < n - 1 THEN u = 2 /\ k = j + 1 /\ h = i - 1 ELSE u = 4 /\ k = n - i /\ h = 0
    BY <1>0 DEF Holds
  <2> QED BY <1>1, <1>3, <2>1, <2>2, <2>3 DEF Shares
<1>9. To("NE")
  <2>1. q = NextAt("NE", n, s) <=>
          IF j = n - 1 THEN u = 4 /\ k = n - 2 - i /\ h = 0 ELSE IF i < n - 1 THEN u = 2 /\ k = j + 1 /\ h = i + 1 ELSE u = 3 /\ k = j + 1 /\ h = 0
    BY <1>0, <1>2 DEF Reached, Types, Edges, Corners
  <2>2. RealAt("NE", n, s) <=> ~(j = n - 1 /\ i = n - 1)
    BY <1>0 DEF RealAt, AtCubeCorner
  <2>3. /\ Holds(u, k, h, n, n - (i + 1), n - (j + 1), n)
        /\ ~Holds(u, k, h, n, n - i, n - (j + 1), n)
        /\ ~Holds(u, k, h, n, n - i, n - j, n)
        /\ ~Holds(u, k, h, n, n - (i + 1), n - j, n)
        <=> /\ ~(j = n - 1 /\ i = n - 1)
            /\ IF j = n - 1 THEN u = 4 /\ k = n - 2 - i /\ h = 0 ELSE IF i < n - 1 THEN u = 2 /\ k = j + 1 /\ h = i + 1 ELSE u = 3 /\ k = j + 1 /\ h = 0
    BY <1>0 DEF Holds
  <2> QED BY <1>1, <1>3, <2>1, <2>2, <2>3 DEF Shares
<1>10. To("SW")
  <2>1. q = NextAt("SW", n, s) <=>
          IF j = 0 THEN u = 1 /\ k = n - 1 /\ h = i - 1 ELSE IF i > 0 THEN u = 2 /\ k = j - 1 /\ h = i - 1 ELSE u = 0 /\ k = n - 1 /\ h = n - j
    BY <1>0, <1>2 DEF Reached, Types, Edges, Corners
  <2>2. RealAt("SW", n, s) <=> ~(j = 0 /\ i = 0)
    BY <1>0 DEF RealAt, AtCubeCorner
  <2>3. /\ Holds(u, k, h, n, n - i, n - j, n)
        /\ ~Holds(u, k, h, n, n - i, n - (j + 1), n)
        /\ ~Holds(u, k, h, n, n - (i + 1), n - (j + 1), n)
        /\ ~Holds(u, k, h, n, n - (i + 1), n - j, n)
        <=> /\ ~(j = 0 /\ i = 0)
            /\ IF j = 0 THEN u = 1 /\ k = n - 1 /\ h = i - 1 ELSE IF i > 0 THEN u = 2 /\ k = j - 1 /\ h = i - 1 ELSE u = 0 /\ k = n - 1 /\ h = n - j
    BY <1>0 DEF Holds
  <2> QED BY <1>1, <1>3, <2>1, <2>2, <2>3 DEF Shares
<1>11. To("SE")
  <2>1. q = NextAt("SE", n, s) <=>
          IF j = 0 THEN u = 1 /\ k = n - 1 /\ h = i + 1 ELSE IF i < n - 1 THEN u = 2 /\ k = j - 1 /\ h = i + 1 ELSE u = 3 /\ k = j - 1 /\ h = 0
    BY <1>0, <1>2 DEF Reached, Types, Edges, Corners
  <2>2. RealAt("SE", n, s) <=> ~(j = 0 /\ i = n - 1)
    BY <1>0 DEF RealAt, AtCubeCorner
  <2>3. /\ Holds(u, k, h, n, n - (i + 1), n - j, n)
        /\ ~Holds(u, k, h, n, n - i, n - (j + 1), n)
        /\ ~Holds(u, k, h, n, n - (i + 1), n - (j + 1), n)
        /\ ~Holds(u, k, h, n, n - i, n - j, n)
        <=> /\ ~(j = 0 /\ i = n - 1)
            /\ IF j = 0 THEN u = 1 /\ k = n - 1 /\ h = i + 1 ELSE IF i < n - 1 THEN u = 2 /\ k = j - 1 /\ h = i + 1 ELSE u = 3 /\ k = j - 1 /\ h = 0
    BY <1>0 DEF Holds
  <2> QED BY <1>1, <1>3, <2>1, <2>2, <2>3 DEF Shares
<1> HIDE DEF To
<1>12. To(type)
  BY <1>4, <1>5, <1>6, <1>7, <1>8, <1>9, <1>10, <1>11 DEF Types, Edges, Corners
<1> QED BY <1>12 DEF To

(* What is around a subtile of tile 3. *)
LEMMA AroundTile3 ==
  ASSUME NEW n \in Nat \ {0}, NEW s \in Places(n), NEW q \in Places(n), NEW type \in Types,
         s[1] = 3
  PROVE  Shares(type, s, n, q) <=> RealAt(type, n, s) /\ q = NextAt(type, n, s)
<1> DEFINE j == s[2]
           i == s[3]
           u == q[1]
           k == q[2]
           h == q[3]
           To(ty) == Shares(ty, s, n, q) <=> RealAt(ty, n, s) /\ q = NextAt(ty, n, s)
<1>0. /\ j \in 0..(n - 1) /\ i \in 0..(n - 1) /\ s = <<3, j, i>>
      /\ u \in 0..5 /\ k \in 0..(n - 1) /\ h \in 0..(n - 1) /\ q = <<u, k, h>>
  BY DEF Places
<1> HIDE DEF j, i, u, k, h
<1>1. /\ HasSW(s, n, q) <=> Holds(u, k, h, n, 0, n - j, n - i)
      /\ HasSE(s, n, q) <=> Holds(u, k, h, n, 0, n - j, n - (i + 1))
      /\ HasNW(s, n, q) <=> Holds(u, k, h, n, 0, n - (j + 1), n - i)
      /\ HasNE(s, n, q) <=> Holds(u, k, h, n, 0, n - (j + 1), n - (i + 1))
  BY <1>0 DEF HasSW, HasSE, HasNW, HasNE, Meets
<1>2. \A ty \in Types : NextAt(ty, n, s) = Reached(ty, FALSE, 1, 2, 4, 5, n, 3, j, i)
  <2>1. ASSUME NEW ty \in Types
        PROVE  WhereTo(ty, n, 3, j, i)
                 = Reached(ty, IsEven(3), (3 - 2) % 6, (3 - 1) % 6, (3 + 1) % 6, (3 + 2) % 6,
                           n, 3, j, i)
    <3>1. 3 \in 0..5
      OBVIOUS
    <3> QED BY <1>0, <3>1, WhereToIs
  <2>2. /\ (3 - 2) % 6 = 1 /\ (3 - 1) % 6 = 2 /\ (3 + 1) % 6 = 4 /\ (3 + 2) % 6 = 5
    <3>1. 3 \in 0..5
      OBVIOUS
    <3> QED BY <3>1, TilesByNumber
  <2>3. IsEven(3) = FALSE
    BY DEF IsEven
  <2> QED BY <1>0, <2>1, <2>2, <2>3 DEF NextAt
<1>3. (q = s) <=> (u = 3 /\ k = j /\ h = i)
  BY <1>0
<1>4. To("W")
  <2>1. q = NextAt("W", n, s) <=>
          IF i > 0 THEN u = 3 /\ k = j /\ h = i - 1 ELSE u = 2 /\ k = j /\ h = n - 1
    BY <1>0, <1>2 DEF Reached, Types, Edges, Corners
  <2>2. RealAt("W", n, s)
    BY DEF RealAt, AtCubeCorner
  <2>3. /\ ~(u = 3 /\ k = j /\ h = i)
        /\ Holds(u, k, h, n, 0, n - (j + 1), n - i)
        /\ Holds(u, k, h, n, 0, n - j, n - i)
        <=> IF i > 0 THEN u = 3 /\ k = j /\ h = i - 1 ELSE u = 2 /\ k = j /\ h = n - 1
    BY <1>0 DEF Holds
  <2> QED BY <1>1, <1>3, <2>1, <2>2, <2>3 DEF Shares
<1>5. To("E")
  <2>1. q = NextAt("E", n, s) <=>
          IF i < n - 1 THEN u = 3 /\ k = j /\ h = i + 1 ELSE u = 5 /\ k = 0 /\ h = n - 1 - j
    BY <1>0, <1>2 DEF Reached, Types, Edges, Corners
  <2>2. RealAt("E", n, s)
    BY DEF RealAt, AtCubeCorner
  <2>3. /\ ~(u = 3 /\ k = j /\ h = i)
        /\ Holds(u, k, h, n, 0, n - (j + 1), n - (i + 1))
        /\ Holds(u, k, h, n, 0, n - j, n - (i + 1))
        <=> IF i < n - 1 THEN u = 3 /\ k = j /\ h = i + 1 ELSE u = 5 /\ k = 0 /\ h = n - 1 - j
    BY <1>0 DEF Holds
  <2> QED BY <1>1, <1>3, <2>1, <2>2, <2>3 DEF Shares
<1>6. To("N")
  <2>1. q = NextAt("N", n, s) <=>
          IF j < n - 1 THEN u = 3 /\ k = j + 1 /\ h = i ELSE u = 4 /\ k = 0 /\ h = i
    BY <1>0, <1>2 DEF Reached, Types, Edges, Corners
  <2>2. RealAt("N", n, s)
    BY DEF RealAt, AtCubeCorner
  <2>3. /\ ~(u = 3 /\ k = j /\ h = i)
        /\ Holds(u, k, h, n, 0, n - (j + 1), n - i)
        /\ Holds(u, k, h, n, 0, n - (j + 1), n - (i + 1))
        <=> IF j < n - 1 THEN u = 3 /\ k = j + 1 /\ h = i ELSE u = 4 /\ k = 0 /\ h = i
    BY <1>0 DEF Holds
  <2> QED BY <1>1, <1>3, <2>1, <2>2, <2>3 DEF Shares
<1>7. To("S")
  <2>1. q = NextAt("S", n, s) <=>
          IF j > 0 THEN u = 3 /\ k = j - 1 /\ h = i ELSE u = 1 /\ k = n - 1 - i /\ h = n - 1
    BY <1>0, <1>2 DEF Reached, Types, Edges, Corners
  <2>2. RealAt("S", n, s)
    BY DEF RealAt, AtCubeCorner
  <2>3. /\ ~(u = 3 /\ k = j /\ h = i)
        /\ Holds(u, k, h, n, 0, n - j, n - i)
        /\ Holds(u, k, h, n, 0, n - j, n - (i + 1))
        <=> IF j > 0 THEN u = 3 /\ k = j - 1 /\ h = i ELSE u = 1 /\ k = n - 1 - i /\ h = n - 1
    BY <1>0 DEF Holds
  <2> QED BY <1>1, <1>3, <2>1, <2>2, <2>3 DEF Shares
<1>8. To("NW")
  <2>1. q = NextAt("NW", n, s) <=>
          IF i = 0 THEN u = 2 /\ k = j + 1 /\ h = n - 1 ELSE IF j < n - 1 THEN u = 3 /\ k = j + 1 /\ h = i - 1 ELSE u = 4 /\ k = 0 /\ h = i - 1
    BY <1>0, <1>2 DEF Reached, Types, Edges, Corners
  <2>2. RealAt("NW", n, s) <=> ~(j = n - 1 /\ i = 0)
    BY <1>0 DEF RealAt, AtCubeCorner
  <2>3. /\ Holds(u, k, h, n, 0, n - (j + 1), n - i)
        /\ ~Holds(u, k, h, n, 0, n - (j + 1), n - (i + 1))
        /\ ~Holds(u, k, h, n, 0, n - j, n - i)
        /\ ~Holds(u, k, h, n, 0, n - j, n - (i + 1))
        <=> /\ ~(j = n - 1 /\ i = 0)
            /\ IF i = 0 THEN u = 2 /\ k = j + 1 /\ h = n - 1 ELSE IF j < n - 1 THEN u = 3 /\ k = j + 1 /\ h = i - 1 ELSE u = 4 /\ k = 0 /\ h = i - 1
    BY <1>0 DEF Holds
  <2> QED BY <1>1, <1>3, <2>1, <2>2, <2>3 DEF Shares
<1>9. To("NE")
  <2>1. q = NextAt("NE", n, s) <=>
          IF j = n - 1 THEN u = 4 /\ k = 0 /\ h = i + 1 ELSE IF i < n - 1 THEN u = 3 /\ k = j + 1 /\ h = i + 1 ELSE u = 5 /\ k = 0 /\ h = n - 2 - j
    BY <1>0, <1>2 DEF Reached, Types, Edges, Corners
  <2>2. RealAt("NE", n, s) <=> ~(j = n - 1 /\ i = n - 1)
    BY <1>0 DEF RealAt, AtCubeCorner
  <2>3. /\ Holds(u, k, h, n, 0, n - (j + 1), n - (i + 1))
        /\ ~Holds(u, k, h, n, 0, n - (j + 1), n - i)
        /\ ~Holds(u, k, h, n, 0, n - j, n - i)
        /\ ~Holds(u, k, h, n, 0, n - j, n - (i + 1))
        <=> /\ ~(j = n - 1 /\ i = n - 1)
            /\ IF j = n - 1 THEN u = 4 /\ k = 0 /\ h = i + 1 ELSE IF i < n - 1 THEN u = 3 /\ k = j + 1 /\ h = i + 1 ELSE u = 5 /\ k = 0 /\ h = n - 2 - j
    BY <1>0 DEF Holds
  <2> QED BY <1>1, <1>3, <2>1, <2>2, <2>3 DEF Shares
<1>10. To("SW")
  <2>1. q = NextAt("SW", n, s) <=>
          IF j = 0 THEN u = 1 /\ k = n - i /\ h = n - 1 ELSE IF i > 0 THEN u = 3 /\ k = j - 1 /\ h = i - 1 ELSE u = 2 /\ k = j - 1 /\ h = n - 1
    BY <1>0, <1>2 DEF Reached, Types, Edges, Corners
  <2>2. RealAt("SW", n, s) <=> ~(j = 0 /\ i = 0)
    BY <1>0 DEF RealAt, AtCubeCorner
  <2>3. /\ Holds(u, k, h, n, 0, n - j, n - i)
        /\ ~Holds(u, k, h, n, 0, n - (j + 1), n - i)
        /\ ~Holds(u, k, h, n, 0, n - (j + 1), n - (i + 1))
        /\ ~Holds(u, k, h, n, 0, n - j, n - (i + 1))
        <=> /\ ~(j = 0 /\ i = 0)
            /\ IF j = 0 THEN u = 1 /\ k = n - i /\ h = n - 1 ELSE IF i > 0 THEN u = 3 /\ k = j - 1 /\ h = i - 1 ELSE u = 2 /\ k = j - 1 /\ h = n - 1
    BY <1>0 DEF Holds
  <2> QED BY <1>1, <1>3, <2>1, <2>2, <2>3 DEF Shares
<1>11. To("SE")
  <2>1. q = NextAt("SE", n, s) <=>
          IF j = 0 THEN u = 1 /\ k = n - 2 - i /\ h = n - 1 ELSE IF i < n - 1 THEN u = 3 /\ k = j - 1 /\ h = i + 1 ELSE u = 5 /\ k = 0 /\ h = n - j
    BY <1>0, <1>2 DEF Reached, Types, Edges, Corners
  <2>2. RealAt("SE", n, s) <=> ~(j = 0 /\ i = n - 1)
    BY <1>0 DEF RealAt, AtCubeCorner
  <2>3. /\ Holds(u, k, h, n, 0, n - j, n - (i + 1))
        /\ ~Holds(u, k, h, n, 0, n - (j + 1), n - i)
        /\ ~Holds(u, k, h, n, 0, n - (j + 1), n - (i + 1))
        /\ ~Holds(u, k, h, n, 0, n - j, n - i)
        <=> /\ ~(j = 0 /\ i = n - 1)
            /\ IF j = 0 THEN u = 1 /\ k = n - 2 - i /\ h = n - 1 ELSE IF i < n - 1 THEN u = 3 /\ k = j - 1 /\ h = i + 1 ELSE u = 5 /\ k = 0 /\ h = n - j
    BY <1>0 DEF Holds
  <2> QED BY <1>1, <1>3, <2>1, <2>2, <2>3 DEF Shares
<1> HIDE DEF To
<1>12. To(type)
  BY <1>4, <1>5, <1>6, <1>7, <1>8, <1>9, <1>10, <1>11 DEF Types, Edges, Corners
<1> QED BY <1>12 DEF To

(* What is around a subtile of tile 4. *)
LEMMA AroundTile4 ==
  ASSUME NEW n \in Nat \ {0}, NEW s \in Places(n), NEW q \in Places(n), NEW type \in Types,
         s[1] = 4
  PROVE  Shares(type, s, n, q) <=> RealAt(type, n, s) /\ q = NextAt(type, n, s)
<1> DEFINE j == s[2]
           i == s[3]
           u == q[1]
           k == q[2]
           h == q[3]
           To(ty) == Shares(ty, s, n, q) <=> RealAt(ty, n, s) /\ q = NextAt(ty, n, s)
<1>0. /\ j \in 0..(n - 1) /\ i \in 0..(n - 1) /\ s = <<4, j, i>>
      /\ u \in 0..5 /\ k \in 0..(n - 1) /\ h \in 0..(n - 1) /\ q = <<u, k, h>>
  BY DEF Places
<1> HIDE DEF j, i, u, k, h
<1>1. /\ HasSW(s, n, q) <=> Holds(u, k, h, n, j, 0, n - i)
      /\ HasSE(s, n, q) <=> Holds(u, k, h, n, j, 0, n - (i + 1))
      /\ HasNW(s, n, q) <=> Holds(u, k, h, n, (j + 1), 0, n - i)
      /\ HasNE(s, n, q) <=> Holds(u, k, h, n, (j + 1), 0, n - (i + 1))
  BY <1>0 DEF HasSW, HasSE, HasNW, HasNE, Meets
<1>2. \A ty \in Types : NextAt(ty, n, s) = Reached(ty, TRUE, 2, 3, 5, 0, n, 4, j, i)
  <2>1. ASSUME NEW ty \in Types
        PROVE  WhereTo(ty, n, 4, j, i)
                 = Reached(ty, IsEven(4), (4 - 2) % 6, (4 - 1) % 6, (4 + 1) % 6, (4 + 2) % 6,
                           n, 4, j, i)
    <3>1. 4 \in 0..5
      OBVIOUS
    <3> QED BY <1>0, <3>1, WhereToIs
  <2>2. /\ (4 - 2) % 6 = 2 /\ (4 - 1) % 6 = 3 /\ (4 + 1) % 6 = 5 /\ (4 + 2) % 6 = 0
    <3>1. 4 \in 0..5
      OBVIOUS
    <3> QED BY <3>1, TilesByNumber
  <2>3. IsEven(4) = TRUE
    BY DEF IsEven
  <2> QED BY <1>0, <2>1, <2>2, <2>3 DEF NextAt
<1>3. (q = s) <=> (u = 4 /\ k = j /\ h = i)
  BY <1>0
<1>4. To("W")
  <2>1. q = NextAt("W", n, s) <=>
          IF i > 0 THEN u = 4 /\ k = j /\ h = i - 1 ELSE u = 2 /\ k = n - 1 /\ h = n - 1 - j
    BY <1>0, <1>2 DEF Reached, Types, Edges, Corners
  <2>2. RealAt("W", n, s)
    BY DEF RealAt, AtCubeCorner
  <2>3. /\ ~(u = 4 /\ k = j /\ h = i)
        /\ Holds(u, k, h, n, (j + 1), 0, n - i)
        /\ Holds(u, k, h, n, j, 0, n - i)
        <=> IF i > 0 THEN u = 4 /\ k = j /\ h = i - 1 ELSE u = 2 /\ k = n - 1 /\ h = n - 1 - j
    BY <1>0 DEF Holds
  <2> QED BY <1>1, <1>3, <2>1, <2>2, <2>3 DEF Shares
<1>5. To("E")
  <2>1. q = NextAt("E", n, s) <=>
          IF i < n - 1 THEN u = 4 /\ k = j /\ h = i + 1 ELSE u = 5 /\ k = j /\ h = 0
    BY <1>0, <1>2 DEF Reached, Types, Edges, Corners
  <2>2. RealAt("E", n, s)
    BY DEF RealAt, AtCubeCorner
  <2>3. /\ ~(u = 4 /\ k = j /\ h = i)
        /\ Holds(u, k, h, n, (j + 1), 0, n - (i + 1))
        /\ Holds(u, k, h, n, j, 0, n - (i + 1))
        <=> IF i < n - 1 THEN u = 4 /\ k = j /\ h = i + 1 ELSE u = 5 /\ k = j /\ h = 0
    BY <1>0 DEF Holds
  <2> QED BY <1>1, <1>3, <2>1, <2>2, <2>3 DEF Shares
<1>6. To("N")
  <2>1. q = NextAt("N", n, s) <=>
          IF j < n - 1 THEN u = 4 /\ k = j + 1 /\ h = i ELSE u = 0 /\ k = n - 1 - i /\ h = 0
    BY <1>0, <1>2 DEF Reached, Types, Edges, Corners
  <2>2. RealAt("N", n, s)
    BY DEF RealAt, AtCubeCorner
  <2>3. /\ ~(u = 4 /\ k = j /\ h = i)
        /\ Holds(u, k, h, n, (j + 1), 0, n - i)
        /\ Holds(u, k, h, n, (j + 1), 0, n - (i + 1))
        <=> IF j < n - 1 THEN u = 4 /\ k = j + 1 /\ h = i ELSE u = 0 /\ k = n - 1 - i /\ h = 0
    BY <1>0 DEF Holds
  <2> QED BY <1>1, <1>3, <2>1, <2>2, <2>3 DEF Shares
<1>7. To("S")
  <2>1. q = NextAt("S", n, s) <=>
          IF j > 0 THEN u = 4 /\ k = j - 1 /\ h = i ELSE u = 3 /\ k = n - 1 /\ h = i
    BY <1>0, <1>2 DEF Reached, Types, Edges, Corners
  <2>2. RealAt("S", n, s)
    BY DEF RealAt, AtCubeCorner
  <2>3. /\ ~(u = 4 /\ k = j /\ h = i)
        /\ Holds(u, k, h, n, j, 0, n - i)
        /\ Holds(u, k, h, n, j, 0, n - (i + 1))
        <=> IF j > 0 THEN u = 4 /\ k = j - 1 /\ h = i ELSE u = 3 /\ k = n - 1 /\ h = i
    BY <1>0 DEF Holds
  <2> QED BY <1>1, <1>3, <2>1, <2>2, <2>3 DEF Shares
<1>8. To("NW")
  <2>1. q = NextAt("NW", n, s) <=>
          IF i = 0 THEN u = 2 /\ k = n - 1 /\ h = n - 2 - j ELSE IF j < n - 1 THEN u = 4 /\ k = j + 1 /\ h = i - 1 ELSE u = 0 /\ k = n - i /\ h = 0
    BY <1>0, <1>2 DEF Reached, Types, Edges, Corners
  <2>2. RealAt("NW", n, s) <=> ~(j = n - 1 /\ i = 0)
    BY <1>0 DEF RealAt, AtCubeCorner
  <2>3. /\ Holds(u, k, h, n, (j + 1), 0, n - i)
        /\ ~Holds(u, k, h, n, (j + 1), 0, n - (i + 1))
        /\ ~Holds(u, k, h, n, j, 0, n - i)
        /\ ~Holds(u, k, h, n, j, 0, n - (i + 1))
        <=> /\ ~(j = n - 1 /\ i = 0)
            /\ IF i = 0 THEN u = 2 /\ k = n - 1 /\ h = n - 2 - j ELSE IF j < n - 1 THEN u = 4 /\ k = j + 1 /\ h = i - 1 ELSE u = 0 /\ k = n - i /\ h = 0
    BY <1>0 DEF Holds
  <2> QED BY <1>1, <1>3, <2>1, <2>2, <2>3 DEF Shares
<1>9. To("NE")
  <2>1. q = NextAt("NE", n, s) <=>
          IF j = n - 1 THEN u = 0 /\ k = n - 2 - i /\ h = 0 ELSE IF i < n - 1 THEN u = 4 /\ k = j + 1 /\ h = i + 1 ELSE u = 5 /\ k = j + 1 /\ h = 0
    BY <1>0, <1>2 DEF Reached, Types, Edges, Corners
  <2>2. RealAt("NE", n, s) <=> ~(j = n - 1 /\ i = n - 1)
    BY <1>0 DEF RealAt, AtCubeCorner
  <2>3. /\ Holds(u, k, h, n, (j + 1), 0, n - (i + 1))
        /\ ~Holds(u, k, h, n, (j + 1), 0, n - i)
        /\ ~Holds(u, k, h, n, j, 0, n - i)
        /\ ~Holds(u, k, h, n, j, 0, n - (i + 1))
        <=> /\ ~(j = n - 1 /\ i = n - 1)
            /\ IF j = n - 1 THEN u = 0 /\ k = n - 2 - i /\ h = 0 ELSE IF i < n - 1 THEN u = 4 /\ k = j + 1 /\ h = i + 1 ELSE u = 5 /\ k = j + 1 /\ h = 0
    BY <1>0 DEF Holds
  <2> QED BY <1>1, <1>3, <2>1, <2>2, <2>3 DEF Shares
<1>10. To("SW")
  <2>1. q = NextAt("SW", n, s) <=>
          IF j = 0 THEN u = 3 /\ k = n - 1 /\ h = i - 1 ELSE IF i > 0 THEN u = 4 /\ k = j - 1 /\ h = i - 1 ELSE u = 2 /\ k = n - 1 /\ h = n - j
    BY <1>0, <1>2 DEF Reached, Types, Edges, Corners
  <2>2. RealAt("SW", n, s) <=> ~(j = 0 /\ i = 0)
    BY <1>0 DEF RealAt, AtCubeCorner
  <2>3. /\ Holds(u, k, h, n, j, 0, n - i)
        /\ ~Holds(u, k, h, n, (j + 1), 0, n - i)
        /\ ~Holds(u, k, h, n, (j + 1), 0, n - (i + 1))
        /\ ~Holds(u, k, h, n, j, 0, n - (i + 1))
        <=> /\ ~(j = 0 /\ i = 0)
            /\ IF j = 0 THEN u = 3 /\ k = n - 1 /\ h = i - 1 ELSE IF i > 0 THEN u = 4 /\ k = j - 1 /\ h = i - 1 ELSE u = 2 /\ k = n - 1 /\ h = n - j
    BY <1>0 DEF Holds
  <2> QED BY <1>1, <1>3, <2>1, <2>2, <2>3 DEF Shares
<1>11. To("SE")
  <2>1. q = NextAt("SE", n, s) <=>
          IF j = 0 THEN u = 3 /\ k = n - 1 /\ h = i + 1 ELSE IF i < n - 1 THEN u = 4 /\ k = j - 1 /\ h = i + 1 ELSE u = 5 /\ k = j - 1 /\ h = 0
    BY <1>0, <1>2 DEF Reached, Types, Edges, Corners
  <2>2. RealAt("SE", n, s) <=> ~(j = 0 /\ i = n - 1)
    BY <1>0 DEF RealAt, AtCubeCorner
  <2>3. /\ Holds(u, k, h, n, j, 0, n - (i + 1))
        /\ ~Holds(u, k, h, n, (j + 1), 0, n - i)
        /\ ~Holds(u, k, h, n, (j + 1), 0, n - (i + 1))
        /\ ~Holds(u, k, h, n, j, 0, n - i)
        <=> /\ ~(j = 0 /\ i = n - 1)
            /\ IF j = 0 THEN u = 3 /\ k = n - 1 /\ h = i + 1 ELSE IF i < n - 1 THEN u = 4 /\ k = j - 1 /\ h = i + 1 ELSE u = 5 /\ k = j - 1 /\ h = 0
    BY <1>0 DEF Holds
  <2> QED BY <1>1, <1>3, <2>1, <2>2, <2>3 DEF Shares
<1> HIDE DEF To
<1>12. To(type)
  BY <1>4, <1>5, <1>6, <1>7, <1>8, <1>9, <1>10, <1>11 DEF Types, Edges, Corners
<1> QED BY <1>12 DEF To

(* What is around a subtile of tile 5. *)
LEMMA AroundTile5 ==
  ASSUME NEW n \in Nat \ {0}, NEW s \in Places(n), NEW q \in Places(n), NEW type \in Types,
         s[1] = 5
  PROVE  Shares(type, s, n, q) <=> RealAt(type, n, s) /\ q = NextAt(type, n, s)
<1> DEFINE j == s[2]
           i == s[3]
           u == q[1]
           k == q[2]
           h == q[3]
           To(ty) == Shares(ty, s, n, q) <=> RealAt(ty, n, s) /\ q = NextAt(ty, n, s)
<1>0. /\ j \in 0..(n - 1) /\ i \in 0..(n - 1) /\ s = <<5, j, i>>
      /\ u \in 0..5 /\ k \in 0..(n - 1) /\ h \in 0..(n - 1) /\ q = <<u, k, h>>
  BY DEF Places
<1> HIDE DEF j, i, u, k, h
<1>1. /\ HasSW(s, n, q) <=> Holds(u, k, h, n, j, i, 0)
      /\ HasSE(s, n, q) <=> Holds(u, k, h, n, j, (i + 1), 0)
      /\ HasNW(s, n, q) <=> Holds(u, k, h, n, (j + 1), i, 0)
      /\ HasNE(s, n, q) <=> Holds(u, k, h, n, (j + 1), (i + 1), 0)
  BY <1>0 DEF HasSW, HasSE, HasNW, HasNE, Meets
<1>2. \A ty \in Types : NextAt(ty, n, s) = Reached(ty, FALSE, 3, 4, 0, 1, n, 5, j, i)
  <2>1. ASSUME NEW ty \in Types
        PROVE  WhereTo(ty, n, 5, j, i)
                 = Reached(ty, IsEven(5), (5 - 2) % 6, (5 - 1) % 6, (5 + 1) % 6, (5 + 2) % 6,
                           n, 5, j, i)
    <3>1. 5 \in 0..5
      OBVIOUS
    <3> QED BY <1>0, <3>1, WhereToIs
  <2>2. /\ (5 - 2) % 6 = 3 /\ (5 - 1) % 6 = 4 /\ (5 + 1) % 6 = 0 /\ (5 + 2) % 6 = 1
    <3>1. 5 \in 0..5
      OBVIOUS
    <3> QED BY <3>1, TilesByNumber
  <2>3. IsEven(5) = FALSE
    BY DEF IsEven
  <2> QED BY <1>0, <2>1, <2>2, <2>3 DEF NextAt
<1>3. (q = s) <=> (u = 5 /\ k = j /\ h = i)
  BY <1>0
<1>4. To("W")
  <2>1. q = NextAt("W", n, s) <=>
          IF i > 0 THEN u = 5 /\ k = j /\ h = i - 1 ELSE u = 4 /\ k = j /\ h = n - 1
    BY <1>0, <1>2 DEF Reached, Types, Edges, Corners
  <2>2. RealAt("W", n, s)
    BY DEF RealAt, AtCubeCorner
  <2>3. /\ ~(u = 5 /\ k = j /\ h = i)
        /\ Holds(u, k, h, n, (j + 1), i, 0)
        /\ Holds(u, k, h, n, j, i, 0)
        <=> IF i > 0 THEN u = 5 /\ k = j /\ h = i - 1 ELSE u = 4 /\ k = j /\ h = n - 1
    BY <1>0 DEF Holds
  <2> QED BY <1>1, <1>3, <2>1, <2>2, <2>3 DEF Shares
<1>5. To("E")
  <2>1. q = NextAt("E", n, s) <=>
          IF i < n - 1 THEN u = 5 /\ k = j /\ h = i + 1 ELSE u = 1 /\ k = 0 /\ h = n - 1 - j
    BY <1>0, <1>2 DEF Reached, Types, Edges, Corners
  <2>2. RealAt("E", n, s)
    BY DEF RealAt, AtCubeCorner
  <2>3. /\ ~(u = 5 /\ k = j /\ h = i)
        /\ Holds(u, k, h, n, (j + 1), (i + 1), 0)
        /\ Holds(u, k, h, n, j, (i + 1), 0)
        <=> IF i < n - 1 THEN u = 5 /\ k = j /\ h = i + 1 ELSE u = 1 /\ k = 0 /\ h = n - 1 - j
    BY <1>0 DEF Holds
  <2> QED BY <1>1, <1>3, <2>1, <2>2, <2>3 DEF Shares
<1>6. To("N")
  <2>1. q = NextAt("N", n, s) <=>
          IF j < n - 1 THEN u = 5 /\ k = j + 1 /\ h = i ELSE u = 0 /\ k = 0 /\ h = i
    BY <1>0, <1>2 DEF Reached, Types, Edges, Corners
  <2>2. RealAt("N", n, s)
    BY DEF RealAt, AtCubeCorner
  <2>3. /\ ~(u = 5 /\ k = j /\ h = i)
        /\ Holds(u, k, h, n, (j + 1), i, 0)
        /\ Holds(u, k, h, n, (j + 1), (i + 1), 0)
        <=> IF j < n - 1 THEN u = 5 /\ k = j + 1 /\ h = i ELSE u = 0 /\ k = 0 /\ h = i
    BY <1>0 DEF Holds
  <2> QED BY <1>1, <1>3, <2>1, <2>2, <2>3 DEF Shares
<1>7. To("S")
  <2>1. q = NextAt("S", n, s) <=>
          IF j > 0 THEN u = 5 /\ k = j - 1 /\ h = i ELSE u = 3 /\ k = n - 1 - i /\ h = n - 1
    BY <1>0, <1>2 DEF Reached, Types, Edges, Corners
  <2>2. RealAt("S", n, s)
    BY DEF RealAt, AtCubeCorner
  <2>3. /\ ~(u = 5 /\ k = j /\ h = i)
        /\ Holds(u, k, h, n, j, i, 0)
        /\ Holds(u, k, h, n, j, (i + 1), 0)
        <=> IF j > 0 THEN u = 5 /\ k = j - 1 /\ h = i ELSE u = 3 /\ k = n - 1 - i /\ h = n - 1
    BY <1>0 DEF Holds
  <2> QED BY <1>1, <1>3, <2>1, <2>2, <2>3 DEF Shares
<1>8. To("NW")
  <2>1. q = NextAt("NW", n, s) <=>
          IF i = 0 THEN u = 4 /\ k = j + 1 /\ h = n - 1 ELSE IF j < n - 1 THEN u = 5 /\ k = j + 1 /\ h = i - 1 ELSE u = 0 /\ k = 0 /\ h = i - 1
    BY <1>0, <1>2 DEF Reached, Types, Edges, Corners
  <2>2. RealAt("NW", n, s) <=> ~(j = n - 1 /\ i = 0)
    BY <1>0 DEF RealAt, AtCubeCorner
  <2>3. /\ Holds(u, k, h, n, (j + 1), i, 0)
        /\ ~Holds(u, k, h, n, (j + 1), (i + 1), 0)
        /\ ~Holds(u, k, h, n, j, i, 0)
        /\ ~Holds(u, k, h, n, j, (i + 1), 0)
        <=> /\ ~(j = n - 1 /\ i = 0)
            /\ IF i = 0 THEN u = 4 /\ k = j + 1 /\ h = n - 1 ELSE IF j < n - 1 THEN u = 5 /\ k = j + 1 /\ h = i - 1 ELSE u = 0 /\ k = 0 /\ h = i - 1
    BY <1>0 DEF Holds
  <2> QED BY <1>1, <1>3, <2>1, <2>2, <2>3 DEF Shares
<1>9. To("NE")
  <2>1. q = NextAt("NE", n, s) <=>
          IF j = n - 1 THEN u = 0 /\ k = 0 /\ h = i + 1 ELSE IF i < n - 1 THEN u = 5 /\ k = j + 1 /\ h = i + 1 ELSE u = 1 /\ k = 0 /\ h = n - 2 - j
    BY <1>0, <1>2 DEF Reached, Types, Edges, Corners
  <2>2. RealAt("NE", n, s) <=> ~(j = n - 1 /\ i = n - 1)
    BY <1>0 DEF RealAt, AtCubeCorner
  <2>3. /\ Holds(u, k, h, n, (j + 1), (i + 1), 0)
        /\ ~Holds(u, k, h, n, (j + 1), i, 0)
        /\ ~Holds(u, k, h, n, j, i, 0)
        /\ ~Holds(u, k, h, n, j, (i + 1), 0)
        <=> /\ ~(j = n - 1 /\ i = n - 1)
            /\ IF j = n - 1 THEN u = 0 /\ k = 0 /\ h = i + 1 ELSE IF i < n - 1 THEN u = 5 /\ k = j + 1 /\ h = i + 1 ELSE u = 1 /\ k = 0 /\ h = n - 2 - j
    BY <1>0 DEF Holds
  <2> QED BY <1>1, <1>3, <2>1, <2>2, <2>3 DEF Shares
<1>10. To("SW")
  <2>1. q = NextAt("SW", n, s) <=>
          IF j = 0 THEN u = 3 /\ k = n - i /\ h = n - 1 ELSE IF i > 0 THEN u = 5 /\ k = j - 1 /\ h = i - 1 ELSE u = 4 /\ k = j - 1 /\ h = n - 1
    BY <1>0, <1>2 DEF Reached, Types, Edges, Corners
  <2>2. RealAt("SW", n, s) <=> ~(j = 0 /\ i = 0)
    BY <1>0 DEF RealAt, AtCubeCorner
  <2>3. /\ Holds(u, k, h, n, j, i, 0)
        /\ ~Holds(u, k, h, n, (j + 1), i, 0)
        /\ ~Holds(u, k, h, n, (j + 1), (i + 1), 0)
        /\ ~Holds(u, k, h, n, j, (i + 1), 0)
        <=> /\ ~(j = 0 /\ i = 0)
            /\ IF j = 0 THEN u = 3 /\ k = n - i /\ h = n - 1 ELSE IF i > 0 THEN u = 5 /\ k = j - 1 /\ h = i - 1 ELSE u = 4 /\ k = j - 1 /\ h = n - 1
    BY <1>0 DEF Holds
  <2> QED BY <1>1, <1>3, <2>1, <2>2, <2>3 DEF Shares
<1>11. To("SE")
  <2>1. q = NextAt("SE", n, s) <=>
          IF j = 0 THEN u = 3 /\ k = n - 2 - i /\ h = n - 1 ELSE IF i < n - 1 THEN u = 5 /\ k = j - 1 /\ h = i + 1 ELSE u = 1 /\ k = 0 /\ h = n - j
    BY <1>0, <1>2 DEF Reached, Types, Edges, Corners
  <2>2. RealAt("SE", n, s) <=> ~(j = 0 /\ i = n - 1)
    BY <1>0 DEF RealAt, AtCubeCorner
  <2>3. /\ Holds(u, k, h, n, j, (i + 1), 0)
        /\ ~Holds(u, k, h, n, (j + 1), i, 0)
        /\ ~Holds(u, k, h, n, (j + 1), (i + 1), 0)
        /\ ~Holds(u, k, h, n, j, i, 0)
        <=> /\ ~(j = 0 /\ i = n - 1)
            /\ IF j = 0 THEN u = 3 /\ k = n - 2 - i /\ h = n - 1 ELSE IF i < n - 1 THEN u = 5 /\ k = j - 1 /\ h = i + 1 ELSE u = 1 /\ k = 0 /\ h = n - j
    BY <1>0 DEF Holds
  <2> QED BY <1>1, <1>3, <2>1, <2>2, <2>3 DEF Shares
<1> HIDE DEF To
<1>12. To(type)
  BY <1>4, <1>5, <1>6, <1>7, <1>8, <1>9, <1>10, <1>11 DEF Types, Edges, Corners
<1> QED BY <1>12 DEF To

LEMMA Around ==
  ASSUME NEW n \in Nat \ {0}, NEW s \in Places(n), NEW q \in Places(n), NEW type \in Types
  PROVE  Shares(type, s, n, q) <=> RealAt(type, n, s) /\ q = NextAt(type, n, s)
<1>1. s[1] \in 0..5
  BY DEF Places
<1>2. CASE s[1] = 0
  BY <1>2, AroundTile0
<1>3. CASE s[1] = 1
  BY <1>3, AroundTile1
<1>4. CASE s[1] = 2
  BY <1>4, AroundTile2
<1>5. CASE s[1] = 3
  BY <1>5, AroundTile3
<1>6. CASE s[1] = 4
  BY <1>6, AroundTile4
<1>7. CASE s[1] = 5
  BY <1>7, AroundTile5
<1> QED BY <1>1, <1>2, <1>3, <1>4, <1>5, <1>6, <1>7

LEMMA PlaceIs ==
  ASSUME NEW w \in Places(size), IsSquare(Layout, size)
  PROVE  Place(RankOf(Layout, w)) = w
<1> DEFINE t == w[1]
           j == w[2]
           i == w[3]
<1>1. t \in Int /\ j \in 0..(size - 1) /\ i \in 0..(size - 1) /\ w = <<t, j, i>>
  BY DEF Places
<1> HIDE DEF t, j, i
<1>0. IsAt(Layout, RankAt(Layout, t, j, i), t, j, i)
  BY <1>1, PlaceOnSphere
<1>2. TileIndex(RankAt(Layout, t, j, i), Layout) = t
  BY <1>0 DEF IsAt
<1>3. SubtileIndex(RankAt(Layout, t, j, i), Layout) = <<j, i>>
  <2> DEFINE r == RankAt(Layout, t, j, i)
  <2>1. SubtileIndex(r, Layout)[1] = j /\ SubtileIndex(r, Layout)[2] = i
    BY <1>0 DEF IsAt
  <2> HIDE DEF r
  <2>2. SubtileIndex(r, Layout) = <<j, i>>
    BY <2>1, IndexIsAPair
  <2> QED BY <2>2 DEF r
<1>4. <<t>> \o <<j, i>> = <<t, j, i>>
  <2>1. <<t>> \in Seq(Int) /\ <<j, i>> \in Seq(Int) /\ <<t, j, i>> \in Seq(Int)
    BY <1>1
  <2> DEFINE both == <<t>> \o <<j, i>>
  <2>2. /\ both \in Seq(Int) /\ Len(both) = 3
        /\ both[1] = t /\ both[2] = j /\ both[3] = i
    BY <2>1, ConcatProperties
  <2> HIDE DEF both
  <2>3. \A k \in 1..3 : both[k] = <<t, j, i>>[k]
    BY <2>2
  <2>4. both = <<t, j, i>>
    BY <2>1, <2>2, <2>3, SeqEqual
  <2> QED BY <2>4 DEF both
<1>5. RankOf(Layout, w) = RankAt(Layout, t, j, i)
  BY DEF RankOf, t, j, i
<1> QED BY <1>1, <1>2, <1>3, <1>4, <1>5 DEF Place

(* Four different points, shared as Shares says. *)
LEMMA SharedPoints ==
  ASSUME NEW n \in Nat \ {0}, NEW s \in Places(n), NEW q \in Places(n)
  PROVE  /\ PointAt(s, "SW", n) \in PointsOf(q, n) <=> HasSW(s, n, q)
         /\ PointAt(s, "SE", n) \in PointsOf(q, n) <=> HasSE(s, n, q)
         /\ PointAt(s, "NW", n) \in PointsOf(q, n) <=> HasNW(s, n, q)
         /\ PointAt(s, "NE", n) \in PointsOf(q, n) <=> HasNE(s, n, q)
<1> DEFINE t == s[1]
           j == s[2]
           i == s[3]
           u == q[1]
           k == q[2]
           h == q[3]
<1>1. /\ t \in 0..5 /\ j \in Int /\ i \in Int /\ j + 1 \in Int /\ i + 1 \in Int
      /\ u \in 0..5 /\ k \in Int /\ h \in Int /\ q = <<u, k, h>>
  BY DEF Places
<1>2. /\ PointAt(s, "SW", n) = Point(t, i, j, n)
      /\ PointAt(s, "SE", n) = Point(t, i + 1, j, n)
      /\ PointAt(s, "NW", n) = Point(t, i, j + 1, n)
      /\ PointAt(s, "NE", n) = Point(t, i + 1, j + 1, n)
  BY DEF PointAt
<1>3. /\ HasSW(s, n, q) <=> Meets(t, i, j, n, u, k, h)
      /\ HasSE(s, n, q) <=> Meets(t, i + 1, j, n, u, k, h)
      /\ HasNW(s, n, q) <=> Meets(t, i, j + 1, n, u, k, h)
      /\ HasNE(s, n, q) <=> Meets(t, i + 1, j + 1, n, u, k, h)
  BY DEF HasSW, HasSE, HasNW, HasNE
<1> HIDE DEF t, j, i, u, k, h
<1>4. Point(t, i, j, n) \in PointsOf(<<u, k, h>>, n) <=> Meets(t, i, j, n, u, k, h)
  BY <1>1, PointMeets, Zenon
<1>5. Point(t, i + 1, j, n) \in PointsOf(<<u, k, h>>, n) <=> Meets(t, i + 1, j, n, u, k, h)
  BY <1>1, PointMeets, Zenon
<1>6. Point(t, i, j + 1, n) \in PointsOf(<<u, k, h>>, n) <=> Meets(t, i, j + 1, n, u, k, h)
  BY <1>1, PointMeets, Zenon
<1>7. Point(t, i + 1, j + 1, n) \in PointsOf(<<u, k, h>>, n) <=> Meets(t, i + 1, j + 1, n, u, k, h)
  BY <1>1, PointMeets, Zenon
<1> QED BY <1>1, <1>2, <1>3, <1>4, <1>5, <1>6, <1>7

LEMMA FourPoints ==
  ASSUME NEW n \in Nat \ {0}, NEW s \in Places(n)
  PROVE  /\ PointsOf(s, n) = {PointAt(s, "SW", n), PointAt(s, "SE", n),
                              PointAt(s, "NW", n), PointAt(s, "NE", n)}
         /\ PointAt(s, "SW", n) # PointAt(s, "SE", n) /\ PointAt(s, "SW", n) # PointAt(s, "NW", n)
         /\ PointAt(s, "SW", n) # PointAt(s, "NE", n) /\ PointAt(s, "SE", n) # PointAt(s, "NW", n)
         /\ PointAt(s, "SE", n) # PointAt(s, "NE", n) /\ PointAt(s, "NW", n) # PointAt(s, "NE", n)
<1> DEFINE t == s[1]
           j == s[2]
           i == s[3]
<1>1. /\ t \in 0..5 /\ j \in Int /\ i \in Int /\ j + 1 \in Int /\ i + 1 \in Int /\ n \in Int
      /\ j + 0 = j /\ i + 0 = i
  BY DEF Places
<1>2. /\ PointAt(s, "SW", n) = Point(t, i, j, n)
      /\ PointAt(s, "SE", n) = Point(t, i + 1, j, n)
      /\ PointAt(s, "NW", n) = Point(t, i, j + 1, n)
      /\ PointAt(s, "NE", n) = Point(t, i + 1, j + 1, n)
  BY DEF PointAt
<1>3. PointsOf(s, n) = {Point(t, i + a, j + b, n) : a, b \in {0, 1}}
  <2>1. 0..1 = {0, 1}
    OBVIOUS
  <2> QED BY <2>1 DEF PointsOf
<1> HIDE DEF t, j, i
<1>4. PointsOf(s, n) = {Point(t, i, j, n), Point(t, i + 1, j, n),
                        Point(t, i, j + 1, n), Point(t, i + 1, j + 1, n)}
  BY <1>1, <1>3
<1>5. Point(t, i, j, n) = InSpace(t, i, j, n)
  BY <1>1, PointIs
<1>6. Point(t, i + 1, j, n) = InSpace(t, i + 1, j, n)
  BY <1>1, PointIs
<1>7. Point(t, i, j + 1, n) = InSpace(t, i, j + 1, n)
  BY <1>1, PointIs
<1>8. Point(t, i + 1, j + 1, n) = InSpace(t, i + 1, j + 1, n)
  BY <1>1, PointIs
<1> DEFINE Apart == /\ InSpace(t, i, j, n) # InSpace(t, i + 1, j, n)
                    /\ InSpace(t, i, j, n) # InSpace(t, i, j + 1, n)
                    /\ InSpace(t, i, j, n) # InSpace(t, i + 1, j + 1, n)
                    /\ InSpace(t, i + 1, j, n) # InSpace(t, i, j + 1, n)
                    /\ InSpace(t, i + 1, j, n) # InSpace(t, i + 1, j + 1, n)
                    /\ InSpace(t, i, j + 1, n) # InSpace(t, i + 1, j + 1, n)
<1>9. t = 0 => Apart
  BY <1>1 DEF InSpace
<1>10. t = 1 => Apart
  BY <1>1 DEF InSpace
<1>11. t = 2 => Apart
  BY <1>1 DEF InSpace
<1>12. t = 3 => Apart
  BY <1>1 DEF InSpace
<1>13. t = 4 => Apart
  BY <1>1 DEF InSpace
<1>14. t = 5 => Apart
  BY <1>1 DEF InSpace
<1>15. Apart
  <2> HIDE DEF Apart
  <2> QED BY <1>1, <1>9, <1>10, <1>11, <1>12, <1>13, <1>14
<1> QED BY <1>2, <1>4, <1>5, <1>6, <1>7, <1>8, <1>15

LEMMA AcrossTheEdge ==
  ASSUME NEW n \in Nat \ {0}, NEW s \in Places(n), NEW e \in Edges,
         NextAt(e, n, s) \in Places(n)
  PROVE  AcrossEdge(s, e, n) = {NextAt(e, n, s)}
<1>1. Subtiles(n) = Places(n)
  BY DEF Subtiles, Places, Tiles
<1>2. RealAt(e, n, s) /\ e \in Types
  BY DEF RealAt, AtCubeCorner, Types, Edges
<1>3. ASSUME NEW q \in Places(n)
      PROVE  q # s /\ Side(s, e, n) \subseteq PointsOf(q, n) <=> Shares(e, s, n, q)
  <2>1. /\ PointAt(s, "SW", n) \in PointsOf(q, n) <=> HasSW(s, n, q)
        /\ PointAt(s, "SE", n) \in PointsOf(q, n) <=> HasSE(s, n, q)
        /\ PointAt(s, "NW", n) \in PointsOf(q, n) <=> HasNW(s, n, q)
        /\ PointAt(s, "NE", n) \in PointsOf(q, n) <=> HasNE(s, n, q)
    BY SharedPoints
  <2>2. CASE e = "W"
    BY <2>1, <2>2 DEF Side, Shares
  <2>3. CASE e = "E"
    BY <2>1, <2>3 DEF Side, Shares
  <2>4. CASE e = "N"
    BY <2>1, <2>4 DEF Side, Shares
  <2>5. CASE e = "S"
    BY <2>1, <2>5 DEF Side, Shares
  <2> QED BY <2>2, <2>3, <2>4, <2>5 DEF Edges
<1>4. \A q \in Places(n) : Shares(e, s, n, q) <=> q = NextAt(e, n, s)
  BY <1>2, Around
<1> QED BY <1>1, <1>3, <1>4 DEF AcrossEdge

LEMMA AcrossTheCorner ==
  ASSUME NEW n \in Nat \ {0}, NEW s \in Places(n), NEW c \in Corners,
         RealAt(c, n, s) => NextAt(c, n, s) \in Places(n) /\ NextAt(c, n, s) # s
  PROVE  AcrossCorner(s, c, n) = IF RealAt(c, n, s) THEN {NextAt(c, n, s)} ELSE {}
<1>1. Subtiles(n) = Places(n)
  BY DEF Subtiles, Places, Tiles
<1>2. c \in Types
  BY DEF Types
<1>3. ASSUME NEW q \in Places(n)
      PROVE  PointsOf(q, n) \cap PointsOf(s, n) = {PointAt(s, c, n)} <=> Shares(c, s, n, q)
  <2> DEFINE sw == PointAt(s, "SW", n)
             se == PointAt(s, "SE", n)
             nw == PointAt(s, "NW", n)
             ne == PointAt(s, "NE", n)
             others == PointsOf(q, n)
             own == PointsOf(s, n)
  <2>1. /\ sw \in others <=> HasSW(s, n, q)
        /\ se \in others <=> HasSE(s, n, q)
        /\ nw \in others <=> HasNW(s, n, q)
        /\ ne \in others <=> HasNE(s, n, q)
    BY SharedPoints
  <2>2. /\ own = {sw, se, nw, ne}
        /\ sw # se /\ sw # nw /\ sw # ne /\ se # nw /\ se # ne /\ nw # ne
    BY FourPoints
  <2> HIDE DEF sw, se, nw, ne, others, own
  <2>3. CASE c = "NW"
    <3>1. others \cap own = {nw} <=> nw \in others /\ ~(ne \in others) /\ ~(sw \in others) /\ ~(se \in others)
      BY <2>2
    <3> QED BY <2>1, <2>3, <3>1 DEF Shares, nw, others, own
  <2>4. CASE c = "NE"
    <3>1. others \cap own = {ne} <=> ne \in others /\ ~(nw \in others) /\ ~(sw \in others) /\ ~(se \in others)
      BY <2>2
    <3> QED BY <2>1, <2>4, <3>1 DEF Shares, ne, others, own
  <2>5. CASE c = "SW"
    <3>1. others \cap own = {sw} <=> sw \in others /\ ~(nw \in others) /\ ~(ne \in others) /\ ~(se \in others)
      BY <2>2
    <3> QED BY <2>1, <2>5, <3>1 DEF Shares, sw, others, own
  <2>6. CASE c = "SE"
    <3>1. others \cap own = {se} <=> se \in others /\ ~(nw \in others) /\ ~(ne \in others) /\ ~(sw \in others)
      BY <2>2
    <3> QED BY <2>1, <2>6, <3>1 DEF Shares, se, others, own
  <2> QED BY <2>3, <2>4, <2>5, <2>6 DEF Corners
<1>4. \A q \in Places(n) : Shares(c, s, n, q) <=> RealAt(c, n, s) /\ q = NextAt(c, n, s)
  BY <1>2, Around
<1> QED BY <1>1, <1>3, <1>4 DEF AcrossCorner

LEMMA Adjacent ==
  ASSUME WalkerOK
  PROVE  NeighboursAreAdjacent
<1> DEFINE n == size
           l == Layout
<1>1. IsSquare(l, n) /\ n \in Nat \ {0}
  BY LayoutOfWalker, SquareIs
<1>2. PICK s \in Places(n) : rank = RankOf(l, s)
  BY <1>1, RankOfSomePlace DEF WalkerOK
<1>3. Here = s
  BY <1>1, <1>2, PlaceIs DEF Here
<1>4. ASSUME NEW type \in Types
      PROVE  /\ SphereBoundary(type, rank, Layout) # NoBoundary <=> RealAt(type, n, s)
             /\ RealAt(type, n, s) =>
                  /\ NextAt(type, n, s) \in Places(n) /\ NextAt(type, n, s) # s
                  /\ Place(SphereBoundary(type, rank, Layout).to) = NextAt(type, n, s)
  <2>1. SphereBoundary(type, rank, Layout) = BoundaryAt(type, l, s)
    BY <1>2 DEF BoundaryAt
  <2>2. /\ BoundaryAt(type, l, s) # NoBoundary <=> RealAt(type, n, s)
        /\ RealAt(type, n, s) => /\ NextAt(type, n, s) \in Places(n)
                                 /\ BoundaryAt(type, l, s).to = RankOf(l, NextAt(type, n, s))
    BY <1>1, BoundaryAtIs DEF Boundary
  <2>3. RealAt(type, n, s) => BoundaryAt(type, l, s).to # RankOf(l, s)
    BY <1>1, BoundariesLeadApart
  <2>4. \A w \in Places(n) : Place(RankOf(l, w)) = w
    BY <1>1, PlaceIs
  <2> QED BY <2>1, <2>2, <2>3, <2>4
<1>5. ASSUME NEW e \in Edges
      PROVE  AcrossEdge(Here, e, size) = {Place(SphereBoundary(e, rank, Layout).to)}
  <2>1. e \in Types /\ RealAt(e, n, s)
    BY DEF RealAt, AtCubeCorner, Types, Edges
  <2> QED BY <1>1, <1>3, <1>4, <2>1, AcrossTheEdge
<1>6. ASSUME NEW c \in Corners
      PROVE  AcrossCorner(Here, c, size)
               = IF SphereBoundary(c, rank, Layout) = NoBoundary THEN {}
                 ELSE {Place(SphereBoundary(c, rank, Layout).to)}
  <2>1. c \in Types
    BY DEF Types
  <2>2. AcrossCorner(s, c, n) = IF RealAt(c, n, s) THEN {NextAt(c, n, s)} ELSE {}
    BY <1>1, <1>4, <2>1, AcrossTheCorner
  <2> QED BY <1>3, <1>4, <2>1, <2>2
<1> QED BY <1>5, <1>6 DEF NeighboursAreAdjacent

(***************************************************************************)
(* On square layouts of every size, the rank that the partitioner finds    *)
(* across an edge is the only one whose subtile shares that edge on the    *)
(* surface of a cube, the rank across a corner the only one that shares    *)
(* just that point, and there is none exactly at the cube's corners.       *)
(***************************************************************************)
THEOREM BoundariesFollowTheCube == WalkSpec => []NeighboursAreAdjacent
  BY WalkerTypeCorrect, Adjacent, PTL

-----------------------------------------------------------------------------
(* Dimensions cut among the ranks of a row.                                *)

LEMMA DimsAre ==
  ASSUME WalkerOK, NEW axis \in Dims
  PROVE  IsDimension(axis) /\ axis.count = size /\ Points(axis) >= axis.count
<1>1. size \in Nat \ {0}
  BY LayoutsAssumption DEF WalkerOK
<1>2. axis \in [count : {size}, extent : 1..MaxPoints, interface : BOOLEAN, ratio : Ratios]
      /\ Points(axis) >= axis.count
  BY DEF Dims
<1>3. 1..MaxPoints \subseteq Nat /\ Ratios \subseteq (Nat \ {0}) \X (Nat \ {0})
  BY DimsAssumption
<1> QED BY <1>1, <1>2, <1>3 DEF IsDimension

LEMMA RowIsCut ==
  ASSUME WalkerOK
  PROVE  SlicesPartition
<1> SUFFICES ASSUME rank \in Row, NEW axis \in Dims, Decomposed(axis)
             PROVE  LET Owned(i) == SlicePoints(SubtileSlice(axis, i, FALSE))
                    IN  /\ \A i \in Row \ {rank} : Owned(rank) \cap Owned(i) = {}
                        /\ UNION {Owned(i) : i \in Row} = 0..(axis.extent - 1)
  BY DEF SlicesPartition
<1> DEFINE Owned(i) == SlicePoints(SubtileSlice(axis, i, FALSE))
<1>1. IsDimension(axis) /\ Points(axis) >= axis.count /\ SubtileExtents(axis) # ValueError
      /\ Row = 0..(axis.count - 1)
  BY DimsAre DEF Decomposed, Row
<1>2. /\ \A r, s \in 0..(axis.count - 1) : r # s => Owned(r) \cap Owned(s) = {}
      /\ \A r \in 0..(axis.count - 1) : Owned(r) \subseteq 0..(axis.extent - 1)
      /\ \A p \in 0..(axis.extent - 1) : \E r \in 0..(axis.count - 1) : p \in Owned(r)
  BY <1>1, SlicesCutTheTile
<1> HIDE DEF Owned
<1>3. \A i \in Row \ {rank} : Owned(rank) \cap Owned(i) = {}
  BY <1>1, <1>2
<1>4. UNION {Owned(i) : i \in Row} = 0..(axis.extent - 1)
  BY <1>1, <1>2
<1> QED BY <1>3, <1>4 DEF Owned

(***************************************************************************)
(* On square layouts of every size, and for every dimension the code cuts, *)
(* each point of the tile belongs to exactly one rank of a row.            *)
(***************************************************************************)
THEOREM EveryPointHasOneOwner == WalkSpec => []SlicesPartition
  BY WalkerTypeCorrect, RowIsCut, PTL

LEMMA ExtentIs ==
  ASSUME NEW d, IsDimension(d), Points(d) >= d.count, SubtileExtents(d) # ValueError,
         NEW r \in 0..(d.count - 1)
  PROVE  SubtileExtent(d, r)
           = Size(d.count, SubtileExtents(d), r) + IF d.interface THEN 1 ELSE 0
<1> DEFINE e == SubtileExtents(d)
<1>1. FillTheTile(d, e) /\ r \in Nat /\ d.count \in Nat \ {0}
  BY ExtentsFill DEF IsDimension
<1> HIDE DEF e
<1>2. e.edge \in Int /\ e.interior \in Int
  BY <1>1 DEF FillTheTile
<1>3. StartsAt(d.count, e, r + 1) = StartsAt(d.count, e, r) + Size(d.count, e, r)
  BY <1>1, <1>2, StartsAtStep
<1>4. StartsAt(d.count, e, r) \in Nat /\ Size(d.count, e, r) \in Nat
  BY <1>1, StartsGrow
<1>5. /\ SubtileSlice(d, r, TRUE).start = StartsAt(d.count, e, r)
      /\ SubtileSlice(d, r, TRUE).stop =
           StartsAt(d.count, e, r + 1) + IF d.interface /\ (TRUE \/ r = d.count - 1) THEN 1 ELSE 0
  BY SliceIs DEF e
<1>6. SubtileExtent(d, r) = SubtileSlice(d, r, TRUE).stop - SubtileSlice(d, r, TRUE).start
  BY DEF SubtileExtent
<1> DEFINE a == StartsAt(d.count, e, r)
           s == Size(d.count, e, r)
           b == StartsAt(d.count, e, r + 1)
           one == IF d.interface THEN 1 ELSE 0
<1>7. SubtileExtent(d, r) = s + one
  <2>1. a \in Int /\ s \in Int /\ one \in Int /\ b = a + s
    BY <1>3, <1>4
  <2>2. SubtileExtent(d, r) = (b + one) - a
    BY <1>5, <1>6
  <2> HIDE DEF a, s, b, one
  <2> QED BY <2>1, <2>2
<1> QED BY <1>7 DEF e

(* The two halves of a tile are cut alike. *)
LEMMA ExtentsMirror ==
  ASSUME NEW d, IsDimension(d), Points(d) >= d.count, SubtileExtents(d) # ValueError,
         NEW r \in 0..(d.count - 1)
  PROVE  SubtileExtent(d, d.count - 1 - r) = SubtileExtent(d, r)
<1>1. d.count \in Nat \ {0} /\ r \in Nat /\ d.count - 1 - r \in 0..(d.count - 1)
  BY DEF IsDimension
<1>2. \A e : Size(d.count, e, d.count - 1 - r) = Size(d.count, e, r)
  BY <1>1 DEF Size
<1> QED BY <1>1, <1>2, ExtentIs

(* Across an edge a place keeps its distance along it, or mirrors it. *)
LEMMA AlongTheEdge ==
  ASSUME NEW n \in Nat \ {0}, NEW t \in Int, NEW j \in 0..(n - 1), NEW i \in 0..(n - 1),
         NEW type \in Edges
  PROVE  LET m == ToThe(type, n, t, j, i)
         IN  /\ type \in {"N", "S"} =>
                  \/ m.rotations = 0 /\ m.i = i
                  \/ m.rotations = 3 /\ m.j = n - 1 - i
             /\ type \notin {"N", "S"} =>
                  \/ m.rotations = 0 /\ m.j = j
                  \/ m.rotations = 1 /\ m.i = n - 1 - j
<1>1. CASE type = "W"
  BY <1>1 DEF ToThe, ToTheWest, Met
<1>2. CASE type = "E"
  BY <1>2 DEF ToThe, ToTheEast, Met
<1>3. CASE type = "N"
  BY <1>3 DEF ToThe, ToTheNorth, Met
<1>4. CASE type = "S"
  BY <1>4 DEF ToThe, ToTheSouth, Met
<1> QED BY <1>1, <1>2, <1>3, <1>4 DEF Edges

LEMMA EdgesAreEqual ==
  ASSUME WalkerOK
  PROVE  NeighboursHaveEqualEdges
<1> DEFINE n == size
           l == Layout
<1>1. IsSquare(l, n) /\ n \in Nat \ {0}
  BY LayoutOfWalker, SquareIs
<1>2. PICK w \in Places(n) : rank = RankOf(l, w)
  BY <1>1, RankOfSomePlace DEF WalkerOK
<1> SUFFICES ASSUME NEW axis \in Dims, Decomposed(axis),
                    NEW x \in SphereBoundaries(rank), x[1] \in Edges
             PROVE  LET length == [k \in Row |-> SubtileExtent(axis, k)]
                        ExtentAlong(type, r) ==
                          length[SubtileIndex(r, Layout)[IF type \in {"N", "S"} THEN 2 ELSE 1]]
                        TurnedType(type, rotations) ==
                          IF rotations % 2 = 0 THEN type
                          ELSE IF type \in {"N", "S"} THEN "E" ELSE "N"
                    IN  ExtentAlong(x[1], rank) = ExtentAlong(TurnedType(x[1], x[2].rotations), x[2].to)
  BY DEF NeighboursHaveEqualEdges
<1> DEFINE length == [k \in Row |-> SubtileExtent(axis, k)]
           ExtentAlong(type, r) == length[SubtileIndex(r, l)[IF type \in {"N", "S"} THEN 2 ELSE 1]]
           t == w[1]
           j == w[2]
           i == w[3]
           m == ToThe(x[1], n, t, j, i)
           s == NextAt(x[1], n, w)
<1>3. t \in Int /\ j \in 0..(n - 1) /\ i \in 0..(n - 1)
  BY <1>1 DEF Places
<1>4. \A k \in 0..(n - 1) : length[k] = SubtileExtent(axis, k)
  BY DEF Row
<1>5. \A k \in 0..(n - 1) : n - 1 - k \in 0..(n - 1) /\ length[n - 1 - k] = length[k]
  <2>1. IsDimension(axis) /\ axis.count = n /\ Points(axis) >= axis.count /\ SubtileExtents(axis) # ValueError
    BY DimsAre DEF Decomposed
  <2>2. \A k \in 0..(n - 1) : SubtileExtent(axis, n - 1 - k) = SubtileExtent(axis, k)
    BY <2>1, ExtentsMirror
  <2>3. \A k \in 0..(n - 1) : n - 1 - k \in 0..(n - 1)
    BY <1>1
  <2> QED BY <1>4, <2>2, <2>3
<1>6. x[1] \in Types /\ RealAt(x[1], n, w)
  BY DEF Types, RealAt, AtCubeCorner, Edges
<1>7. /\ x[2] = Boundary(RankOf(l, s), m.rotations)
      /\ s \in Places(n) /\ s[2] = m.j /\ s[3] = m.i
  <2>1. x[2] = BoundaryAt(x[1], l, w)
    BY <1>2 DEF SphereBoundaries, BoundaryAt
  <2> HIDE DEF l, n
  <2> QED BY <1>1, <1>6, <2>1, BoundaryAtIs DEF NextAt, WhereTo
<1>8. \A v \in Places(n) : /\ SubtileIndex(RankOf(l, v), l)[1] = v[2]
                            /\ SubtileIndex(RankOf(l, v), l)[2] = v[3]
  <2> HIDE DEF l, n
  <2> SUFFICES ASSUME NEW v \in Places(n)
               PROVE  /\ SubtileIndex(RankOf(l, v), l)[1] = v[2]
                      /\ SubtileIndex(RankOf(l, v), l)[2] = v[3]
    OBVIOUS
  <2> DEFINE a == v[1]
             b == v[2]
             c == v[3]
  <2>1. a \in Int /\ b \in 0..(n - 1) /\ c \in 0..(n - 1)
    BY <1>1 DEF Places
  <2> HIDE DEF a, b, c
  <2>2. IsAt(l, RankAt(l, a, b, c), a, b, c)
    BY <1>1, <2>1, PlaceOnSphere
  <2>3. IsAt(l, RankOf(l, v), v[1], v[2], v[3])
    BY <2>2 DEF RankOf, a, b, c
  <2> QED BY <2>3 DEF IsAt
<1>9. /\ x[1] \in {"N", "S"} =>
           \/ m.rotations = 0 /\ m.i = i
           \/ m.rotations = 3 /\ m.j = n - 1 - i
      /\ x[1] \notin {"N", "S"} =>
           \/ m.rotations = 0 /\ m.j = j
           \/ m.rotations = 1 /\ m.i = n - 1 - j
  <2> HIDE DEF l, n, t, j, i
  <2> DEFINE Kept(type) ==
               LET b == ToThe(type, n, t, j, i)
               IN  /\ type \in {"N", "S"} =>
                        \/ b.rotations = 0 /\ b.i = i
                        \/ b.rotations = 3 /\ b.j = n - 1 - i
                   /\ type \notin {"N", "S"} =>
                        \/ b.rotations = 0 /\ b.j = j
                        \/ b.rotations = 1 /\ b.i = n - 1 - j
  <2>1. \A type \in Edges : Kept(type)
    BY <1>1, <1>3, AlongTheEdge
  <2>2. Kept(x[1])
    <3> HIDE DEF Kept
    <3> QED BY <2>1
  <2> QED BY <2>2, Zenon DEF m
<1>10. x[2].rotations = m.rotations /\ x[2].to = RankOf(l, s)
  BY <1>7 DEF Boundary
<1>11. /\ SubtileIndex(rank, l)[1] = j /\ SubtileIndex(rank, l)[2] = i
       /\ SubtileIndex(x[2].to, l)[1] = m.j /\ SubtileIndex(x[2].to, l)[2] = m.i
  BY <1>2, <1>7, <1>8, <1>10
<1> DEFINE TurnedType(type, rotations) ==
             IF rotations % 2 = 0 THEN type
             ELSE IF type \in {"N", "S"} THEN "E" ELSE "N"
<1>12. ExtentAlong(x[1], rank) = ExtentAlong(TurnedType(x[1], x[2].rotations), x[2].to)
  <2> HIDE DEF m, s, i, j, t, length, l, n
  <2>1. 0 % 2 = 0 /\ 1 % 2 # 0 /\ 3 % 2 # 0
    OBVIOUS
  <2>2. CASE x[1] \in {"N", "S"} /\ m.rotations = 0 /\ m.i = i
    BY <1>10, <1>11, <2>1, <2>2
  <2>3. CASE x[1] \in {"N", "S"} /\ m.rotations = 3 /\ m.j = n - 1 - i
    <3>1. TurnedType(x[1], x[2].rotations) = "E"
      BY <1>10, <2>1, <2>3
    <3>2. length[n - 1 - i] = length[i]
      BY <1>3, <1>5
    <3> QED BY <1>11, <2>3, <3>1, <3>2
  <2>4. CASE x[1] \notin {"N", "S"} /\ m.rotations = 0 /\ m.j = j
    BY <1>10, <1>11, <2>1, <2>4
  <2>5. CASE x[1] \notin {"N", "S"} /\ m.rotations = 1 /\ m.i = n - 1 - j
    <3>1. TurnedType(x[1], x[2].rotations) = "N"
      BY <1>10, <2>1, <2>5
    <3>2. length[n - 1 - j] = length[j]
      BY <1>3, <1>5
    <3> QED BY <1>11, <2>5, <3>1, <3>2
  <2> QED BY <1>9, <2>2, <2>3, <2>4, <2>5
<1> QED BY <1>12

(***************************************************************************)
(* On square layouts of every size, and for every dimension the code cuts, *)
(* the ranks on the two sides of an edge give it the same extent.          *)
(***************************************************************************)
THEOREM EdgesHaveOneExtent == WalkSpec => []NeighboursHaveEqualEdges
  BY WalkerTypeCorrect, EdgesAreEqual, PTL

-----------------------------------------------------------------------------
(* What HaloProgram assumes of the boundaries of a communicator.           *)

MeetsBoundariesAssumption(Fleet, Neighbors, SyncTo, SyncFrom) ==
  /\ IsFiniteSet(Fleet)
  /\ Neighbors \in [Fleet -> SUBSET Fleet]
  /\ SyncTo \in [Fleet -> SUBSET Fleet]
  /\ SyncFrom \in [Fleet -> SUBSET Fleet]
  /\ \A r, s \in Fleet : s \in Neighbors[r] <=> r \in Neighbors[s]
  /\ \A r, s \in Fleet : s \in SyncTo[r] <=> r \in SyncFrom[s]
  /\ \A r \in Fleet : r \notin Neighbors[r] /\ r \notin SyncTo[r]

RanksOf(l) == 0..(TotalRanks(l) - 1)

RanksAcross(types, r, l) ==
  {b.to : b \in {SphereBoundary(type, r, l) : type \in types} \ {NoBoundary}}

LEMMA AcrossAt ==
  ASSUME NEW l, NEW n, IsSquare(l, n), NEW types \in SUBSET Types, NEW w \in Places(n), NEW s
  PROVE  s \in RanksAcross(types, RankOf(l, w), l)
           <=> \E x \in types : RealAt(x, n, w) /\ s = RankOf(l, NextAt(x, n, w))
                                /\ s = BoundaryAt(x, l, w).to
<1>1. \A x \in types :
        /\ BoundaryAt(x, l, w) # NoBoundary <=> RealAt(x, n, w)
        /\ RealAt(x, n, w) => BoundaryAt(x, l, w).to = RankOf(l, NextAt(x, n, w))
  BY BoundaryAtIs DEF Boundary
<1>2. s \in RanksAcross(types, RankOf(l, w), l)
        <=> \E x \in types : BoundaryAt(x, l, w) # NoBoundary /\ s = BoundaryAt(x, l, w).to
  BY DEF RanksAcross, BoundaryAt
<1> QED BY <1>1, <1>2

(* What some boundaries lead to is led back by those that answer them. *)
LEMMA AcrossAndBack ==
  ASSUME NEW l, NEW n, IsSquare(l, n), NEW there \in SUBSET Types, NEW back \in SUBSET Types,
         \/ there = Types /\ back = Types
         \/ there = {"S", "W"} /\ back = {"N", "E"}
         \/ there = {"N", "E"} /\ back = {"S", "W"},
         NEW r \in RanksOf(l), NEW s \in RanksOf(l), s \in RanksAcross(there, r, l)
  PROVE  r \in RanksAcross(back, s, l)
<1>1. PICK w \in Places(n) : r = RankOf(l, w)
  BY RankOfSomePlace DEF RanksOf
<1>2. PICK x \in there : RealAt(x, n, w) /\ s = RankOf(l, NextAt(x, n, w))
  BY <1>1, AcrossAt
<1> DEFINE u == NextAt(x, n, w)
<1>3. x \in Types /\ u \in Places(n)
  BY <1>2, BoundaryAtIs
<1> HIDE DEF u
<1>4. PICK y \in Types :
        /\ RealAt(y, n, u) /\ BoundaryAt(y, l, u).to = RankOf(l, w)
        /\ x \in {"S", "W"} => y \in {"N", "E"}
        /\ x \in {"N", "E"} => y \in {"S", "W"}
  BY <1>2, <1>3, BoundariesLeadBack DEF u
<1>5. y \in back
  BY <1>4
<1>6. BoundaryAt(y, l, u).to = RankOf(l, NextAt(y, n, u))
  BY <1>3, <1>4, BoundaryAtIs DEF Boundary
<1>7. r \in RanksAcross(back, RankOf(l, u), l)
  BY <1>1, <1>3, <1>4, <1>5, <1>6, AcrossAt
<1> QED BY <1>2, <1>7 DEF u

LEMMA AcrossIsARank ==
  ASSUME NEW l, NEW n, IsSquare(l, n), NEW types \in SUBSET Types, NEW r \in RanksOf(l)
  PROVE  RanksAcross(types, r, l) \subseteq RanksOf(l) /\ r \notin RanksAcross(types, r, l)
<1>1. PICK w \in Places(n) : r = RankOf(l, w)
  BY RankOfSomePlace DEF RanksOf
<1>2. ASSUME NEW s \in RanksAcross(types, r, l)
      PROVE  s \in RanksOf(l) /\ s # r
  <2>1. PICK x \in types : /\ RealAt(x, n, w) /\ s = RankOf(l, NextAt(x, n, w))
                           /\ s = BoundaryAt(x, l, w).to
    BY <1>1, <1>2, AcrossAt
  <2>2. x \in Types
    OBVIOUS
  <2>3. NextAt(x, n, w) \in Places(n)
    BY <2>1, <2>2, BoundaryAtIs
  <2>4. s \in RanksOf(l)
    BY <2>1, <2>3, PlacesAreRanks DEF RanksOf
  <2>5. BoundaryAt(x, l, w).to # RankOf(l, w)
    BY <2>1, <2>2, BoundariesLeadApart
  <2> QED BY <1>1, <2>1, <2>4, <2>5
<1> QED BY <1>2

(***************************************************************************)
(* The cubed sphere of every size is a communicator the halo updater can   *)
(* work on: its boundaries are as HaloProgram assumes, so that what is     *)
(* proved of the exchange holds on it.                                     *)
(***************************************************************************)
THEOREM CubedSphereIsACommunicator ==
  ASSUME NEW l, NEW n, IsSquare(l, n)
  PROVE  MeetsBoundariesAssumption(
           RanksOf(l),
           [r \in RanksOf(l) |-> RanksAcross(Edges \cup Corners, r, l)],
           [r \in RanksOf(l) |-> RanksAcross({"S", "W"}, r, l)],
           [r \in RanksOf(l) |-> RanksAcross({"N", "E"}, r, l)])
<1>1. {"S", "W"} \subseteq Types /\ {"N", "E"} \subseteq Types /\ Edges \cup Corners = Types
  BY DEF Types, Edges
<1>2. IsFiniteSet(RanksOf(l))
  <2>1. TotalRanks(l) \in Int
    BY SquareIs DEF TotalRanks
  <2> QED BY <2>1, FS_Interval DEF RanksOf
<1>3. ASSUME NEW types \in {Types, {"S", "W"}, {"N", "E"}}, NEW r \in RanksOf(l)
      PROVE  RanksAcross(types, r, l) \subseteq RanksOf(l) /\ r \notin RanksAcross(types, r, l)
  <2>1. types \in SUBSET Types
    BY <1>1
  <2> QED BY <2>1, AcrossIsARank
<1>4. ASSUME NEW r \in RanksOf(l), NEW s \in RanksOf(l)
      PROVE  /\ s \in RanksAcross(Types, r, l) => r \in RanksAcross(Types, s, l)
             /\ s \in RanksAcross({"S", "W"}, r, l) => r \in RanksAcross({"N", "E"}, s, l)
             /\ s \in RanksAcross({"N", "E"}, r, l) => r \in RanksAcross({"S", "W"}, s, l)
  <2>1. s \in RanksAcross(Types, r, l) => r \in RanksAcross(Types, s, l)
    BY AcrossAndBack
  <2>2. s \in RanksAcross({"S", "W"}, r, l) => r \in RanksAcross({"N", "E"}, s, l)
    BY <1>1, AcrossAndBack
  <2>3. s \in RanksAcross({"N", "E"}, r, l) => r \in RanksAcross({"S", "W"}, s, l)
    BY <1>1, AcrossAndBack
  <2> QED BY <2>1, <2>2, <2>3
<1> QED BY <1>1, <1>2, <1>3, <1>4 DEF MeetsBoundariesAssumption

RanksOfTile(l) == 0..(TileRanks(l) - 1)

RanksAround(types, r, l) == {TileBoundary(type, r, l).to : type \in types}

LEMMA AroundAndBack ==
  ASSUME NEW l, l \in (Nat \ 0..2) \X (Nat \ 0..2),
         NEW there \in SUBSET Types, NEW back \in SUBSET Types,
         \A x \in there : Opposite[x] \in back,
         NEW r \in RanksOfTile(l), NEW s \in RanksAround(there, r, l)
  PROVE  s \in RanksOfTile(l) /\ s # r /\ r \in RanksAround(back, s, l)
<1>1. PICK x \in there : s = TileBoundary(x, r, l).to
  BY DEF RanksAround
<1>2. x \in Types /\ r \in 0..(TileRanks(l) - 1)
  BY DEF RanksOfTile
<1>3. /\ s \in 0..(TileRanks(l) - 1) /\ s # r
      /\ TileBoundary(Opposite[x], s, l).to = r
  BY <1>1, <1>2, TilePairsUp
<1> QED BY <1>1, <1>3 DEF RanksAround, RanksOfTile

(***************************************************************************)
(* So is the doubly periodic tile of every layout of three or more ranks a *)
(* side.                                                                   *)
(***************************************************************************)
THEOREM PeriodicTileIsACommunicator ==
  ASSUME NEW l, l \in (Nat \ 0..2) \X (Nat \ 0..2)
  PROVE  MeetsBoundariesAssumption(
           RanksOfTile(l),
           [r \in RanksOfTile(l) |-> RanksAround(Edges \cup Corners, r, l)],
           [r \in RanksOfTile(l) |-> RanksAround({"S", "W"}, r, l)],
           [r \in RanksOfTile(l) |-> RanksAround({"N", "E"}, r, l)])
<1>1. {"S", "W"} \subseteq Types /\ {"N", "E"} \subseteq Types /\ Edges \cup Corners = Types
  BY DEF Types, Edges
<1>2. IsFiniteSet(RanksOfTile(l))
  <2>1. TileRanks(l) \in Int
    BY LayoutIs DEF IsLayout
  <2> QED BY <2>1, FS_Interval DEF RanksOfTile
<1>3. /\ \A x \in Types : Opposite[x] \in Types
      /\ \A x \in {"S", "W"} : Opposite[x] \in {"N", "E"}
      /\ \A x \in {"N", "E"} : Opposite[x] \in {"S", "W"}
  BY DEF Opposite, Types, Edges, Corners
<1>4. ASSUME NEW r \in RanksOfTile(l)
      PROVE  /\ \A s \in RanksAround(Types, r, l) :
                  s \in RanksOfTile(l) /\ s # r /\ r \in RanksAround(Types, s, l)
             /\ \A s \in RanksAround({"S", "W"}, r, l) :
                  s \in RanksOfTile(l) /\ s # r /\ r \in RanksAround({"N", "E"}, s, l)
             /\ \A s \in RanksAround({"N", "E"}, r, l) :
                  s \in RanksOfTile(l) /\ s # r /\ r \in RanksAround({"S", "W"}, s, l)
  <2>1. ASSUME NEW s \in RanksAround(Types, r, l)
        PROVE  s \in RanksOfTile(l) /\ s # r /\ r \in RanksAround(Types, s, l)
    BY <1>3, AroundAndBack
  <2>2. ASSUME NEW s \in RanksAround({"S", "W"}, r, l)
        PROVE  s \in RanksOfTile(l) /\ s # r /\ r \in RanksAround({"N", "E"}, s, l)
    BY <1>1, <1>3, AroundAndBack
  <2>3. ASSUME NEW s \in RanksAround({"N", "E"}, r, l)
        PROVE  s \in RanksOfTile(l) /\ s # r /\ r \in RanksAround({"S", "W"}, s, l)
    BY <1>1, <1>3, AroundAndBack
  <2> QED BY <2>1, <2>2, <2>3
<1> QED BY <1>1, <1>2, <1>4 DEF MeetsBoundariesAssumption
==============================================================================
