-------------------------- MODULE MoistColumnProofs --------------------------
(***************************************************************************)
(* The water of the column, for every number of levels and whatever the    *)
(* dynamics leave: only the three repairs make any, the books of liquid    *)
(* and solid water balance, the flux that carries momentum is the water    *)
(* that has fallen, and nothing is below zero where the repairs say so.    *)
(*                                                                         *)
(* First what the recursive functions of the model come to: a function     *)
(* defined along the levels exists, and two sums that differ by what       *)
(* passes from level to level differ by what passes the ends.  Then each   *)
(* process of a cell and each repair of a column, the program step by      *)
(* step, the actions by kind, and the properties.                          *)
(***************************************************************************)
EXTENDS MoistColumn, NaturalsInduction, WellFoundedInduction, SequenceTheorems, TLAPS

-----------------------------------------------------------------------------
(* Induction and recursion.                                                *)

(* The least of some naturals. *)
LEMMA LeastExists ==
  ASSUME NEW S, \A i \in S : i \in Nat, S # {}
  PROVE  \E i \in S : \A j \in S : i <= j
<1>1. S \subseteq Nat /\ S # {}
  OBVIOUS
<1>2. PICK i \in S : \A j \in S : ~ (<<j, i>> \in OpToRel(<, Nat))
  BY <1>1, WFMin, NatLessThanWellFounded
<1>3. \A j \in S : ~ (j < i)
  BY <1>1, <1>2 DEF OpToRel
<1> QED BY <1>1, <1>3

(* What holds at the first place and is handed on holds everywhere. *)
LEMMA Upwards ==
  ASSUME NEW m \in Int, NEW n \in Int, NEW H \in SUBSET (m..n),
         m <= n => m \in H, \A k \in m..n : k # n /\ k \in H => k + 1 \in H
  PROVE  H = m..n
<1> DEFINE Bad == {i \in 0..(n - m) : m + i \notin H}
<1>1. SUFFICES ASSUME Bad # {} PROVE FALSE
  <2>1. CASE Bad = {}
    <3>1. ASSUME NEW k \in m..n PROVE k \in H
      <4>1. k - m \in 0..(n - m) /\ m + (k - m) = k
        OBVIOUS
      <4> QED BY <2>1, <4>1
    <3> QED BY <3>1
  <2> QED BY <1>1, <2>1
<1>2. \A i \in Bad : i \in Nat
  OBVIOUS
<1>3. PICK i \in Bad : \A j \in Bad : i <= j
  <2> HIDE DEF Bad
  <2> QED BY <1>1, <1>2, LeastExists
<1>4. i \in 0..(n - m) /\ m + i \notin H
  OBVIOUS
<1>5. i # 0
  BY <1>4
<1>6. i - 1 \in 0..(n - m) /\ ~ (i <= i - 1)
  BY <1>4, <1>5
<1>7. i - 1 \notin Bad
  <2> HIDE DEF Bad
  <2> QED BY <1>3, <1>6
<1>8. m + (i - 1) \in H
  BY <1>6, <1>7
<1>9. m + (i - 1) \in m..n /\ m + (i - 1) # n /\ (m + (i - 1)) + 1 = m + i
  BY <1>4, <1>5
<1> QED BY <1>4, <1>8, <1>9

LEMMA Downwards ==
  ASSUME NEW m \in Int, NEW n \in Int, NEW H \in SUBSET (m..n),
         m <= n => n \in H, \A k \in m..n : k # m /\ k \in H => k - 1 \in H
  PROVE  H = m..n
<1> DEFINE Mirror == {k \in m..n : (m + n) - k \in H}
<1>1. m <= n => m \in Mirror
  OBVIOUS
<1>2. ASSUME NEW k \in m..n, k # n, k \in Mirror PROVE k + 1 \in Mirror
  <2>1. (m + n) - k \in m..n /\ (m + n) - k # m /\ (m + n) - (k + 1) = ((m + n) - k) - 1
        /\ k + 1 \in m..n
    BY <1>2
  <2> QED BY <1>2, <2>1
<1>3. Mirror = m..n
  <2>1. Mirror \in SUBSET (m..n)
    OBVIOUS
  <2> HIDE DEF Mirror
  <2> QED BY <1>1, <1>2, <2>1, Upwards
<1>4. ASSUME NEW k \in m..n PROVE k \in H
  <2>1. (m + n) - k \in m..n /\ (m + n) - ((m + n) - k) = k
    OBVIOUS
  <2> QED BY <1>3, <2>1
<1> QED BY <1>4

(* A function given at each place from its value before, or after. *)
FollowsUp(S, m, n, first, step) ==
  \E f \in [m..n -> S] :
    f = [k \in m..n |-> IF k = m THEN first ELSE step[<<f[k - 1], k>>]]

FollowsDown(S, m, n, first, step) ==
  \E f \in [m..n -> S] :
    f = [k \in m..n |-> IF k = n THEN first ELSE step[<<f[k + 1], k>>]]

LEMMA RecursionUp ==
  ASSUME NEW S, NEW m \in Int, NEW n \in Int, NEW first \in S,
         NEW step \in [S \X (m..n) -> S]
  PROVE  FollowsUp(S, m, n, first, step)
<1> DEFINE Good(f, h) == \A k \in m..h : f[k] = IF k = m THEN first ELSE step[<<f[k - 1], k>>]
           H == {h \in m..n : \E f \in [m..h -> S] : Good(f, h)}
<1>1. m <= n => m \in H
  <2> DEFINE f == [k \in m..m |-> first]
  <2>1. Good(f, m) /\ f \in [m..m -> S]
    OBVIOUS
  <2> HIDE DEF Good, f
  <2>2. m <= n => m \in m..n
    OBVIOUS
  <2> QED BY <2>1, <2>2
<1>2. ASSUME NEW h \in m..n, h # n, h \in H PROVE h + 1 \in H
  <2>1. PICK f \in [m..h -> S] : Good(f, h)
    BY <1>2
  <2> DEFINE last == step[<<f[h], h + 1>>]
             g == [k \in m..(h + 1) |-> IF k = h + 1 THEN last ELSE f[k]]
  <2>2. h + 1 \in m..n /\ h \in m..h
    BY <1>2
  <2>3. last \in S
    BY <2>2
  <2>4. g \in [m..(h + 1) -> S]
    <3> HIDE DEF last
    <3>1. ASSUME NEW k \in m..(h + 1), k # h + 1 PROVE f[k] \in S
      <4>1. k \in m..h
        BY <3>1
      <4> QED BY <4>1
    <3> QED BY <2>3, <3>1
  <2>5. Good(g, h + 1)
    <3> SUFFICES ASSUME NEW k \in m..(h + 1)
                 PROVE  g[k] = IF k = m THEN first ELSE step[<<g[k - 1], k>>]
      OBVIOUS
    <3>1. CASE k = h + 1
      <4>1. k # m /\ k - 1 = h /\ h \in m..(h + 1) /\ h # h + 1
        BY <2>2, <3>1
      <4>2. g[k - 1] = f[h] /\ g[k] = step[<<f[h], k>>]
        BY <3>1, <4>1
      <4> QED BY <4>1, <4>2
    <3>2. CASE k # h + 1
      <4>1. k \in m..h /\ g[k] = f[k]
        BY <3>2
      <4>2. k # m => k - 1 \in m..(h + 1) /\ k - 1 # h + 1
        BY <4>1
      <4>3. k # m => g[k - 1] = f[k - 1]
        BY <4>2
      <4> QED BY <2>1, <4>1, <4>3
    <3> QED BY <3>1, <3>2
  <2> HIDE DEF g, Good
  <2> QED BY <2>2, <2>4, <2>5
<1>3. H = m..n
  <2>1. H \in SUBSET (m..n)
    OBVIOUS
  <2> HIDE DEF H
  <2> QED BY <1>1, <1>2, <2>1, Upwards
<1>4. CASE m <= n
  <2>1. n \in H
    BY <1>3, <1>4
  <2>2. PICK f \in [m..n -> S] : Good(f, n)
    BY <2>1
  <2>3. f = [k \in m..n |-> f[k]]
    OBVIOUS
  <2>4. [k \in m..n |-> f[k]] = [k \in m..n |-> IF k = m THEN first ELSE step[<<f[k - 1], k>>]]
    BY <2>2
  <2> QED BY <2>3, <2>4 DEF FollowsUp
<1>5. CASE ~ (m <= n)
  <2> DEFINE none == [k \in m..n |-> first]
  <2>1. m..n = {}
    BY <1>5
  <2>2. none \in [m..n -> S]
    OBVIOUS
  <2>3. none = [k \in m..n |-> IF k = m THEN first ELSE step[<<none[k - 1], k>>]]
    BY <2>1
  <2> HIDE DEF none
  <2> QED BY <2>2, <2>3 DEF FollowsUp
<1> QED BY <1>4, <1>5

LEMMA RecursionDown ==
  ASSUME NEW S, NEW m \in Int, NEW n \in Int, NEW first \in S,
         NEW step \in [S \X (m..n) -> S]
  PROVE  FollowsDown(S, m, n, first, step)
<1> DEFINE mirror == [p \in S \X (m..n) |-> step[<<p[1], (m + n) - p[2]>>]]
<1>1. mirror \in [S \X (m..n) -> S]
  <2>1. ASSUME NEW p \in S \X (m..n) PROVE step[<<p[1], (m + n) - p[2]>>] \in S
    <3>1. p[1] \in S /\ (m + n) - p[2] \in m..n
      OBVIOUS
    <3> QED BY <3>1
  <2> QED BY <2>1
<1>2. PICK g \in [m..n -> S] :
        g = [k \in m..n |-> IF k = m THEN first ELSE mirror[<<g[k - 1], k>>]]
  <2> HIDE DEF mirror
  <2>1. FollowsUp(S, m, n, first, mirror)
    BY <1>1, RecursionUp
  <2> QED BY <2>1 DEF FollowsUp
<1> DEFINE f == [k \in m..n |-> g[(m + n) - k]]
<1>3. f \in [m..n -> S]
  <2>1. ASSUME NEW k \in m..n PROVE g[(m + n) - k] \in S
    <3>1. (m + n) - k \in m..n
      OBVIOUS
    <3> QED BY <3>1
  <2> QED BY <2>1
<1>4. ASSUME NEW k \in m..n
      PROVE  f[k] = IF k = n THEN first ELSE step[<<f[k + 1], k>>]
  <2> DEFINE h == (m + n) - k
  <2>1. h \in m..n /\ (m + n) - h = k /\ (h = m <=> k = n)
    OBVIOUS
  <2>2. f[k] = g[h]
    OBVIOUS
  <2>3. CASE k = n
    BY <1>2, <2>1, <2>2, <2>3
  <2>4. CASE k # n
    <3>1. k + 1 \in m..n /\ (m + n) - (k + 1) = h - 1 /\ h - 1 \in m..n
      BY <2>4
    <3>2. f[k + 1] = g[h - 1] /\ g[h - 1] \in S
      BY <3>1
    <3> HIDE DEF h, f
    <3>3. g[h] = mirror[<<g[h - 1], h>>]
      BY <1>2, <2>1, <2>4
    <3>4. mirror[<<g[h - 1], h>>] = step[<<g[h - 1], k>>]
      BY <2>1, <3>2
    <3> QED BY <2>2, <2>4, <3>2, <3>3, <3>4
  <2> QED BY <2>3, <2>4
<1>5. f = [k \in m..n |-> f[k]]
  OBVIOUS
<1>6. [k \in m..n |-> f[k]] = [k \in m..n |-> IF k = n THEN first ELSE step[<<f[k + 1], k>>]]
  <2> HIDE DEF f
  <2> QED BY <1>4
<1> HIDE DEF f
<1> QED BY <1>3, <1>5, <1>6 DEF FollowsDown

-----------------------------------------------------------------------------
(* Sums over the levels.                                                   *)

IsSum(f, a) ==
  /\ a \in [Levels -> Int]
  /\ f \in [0..N -> Int]
  /\ f[0] = 0
  /\ \A k \in Levels : f[k] = f[k - 1] + a[k]

LEMMA SumExists ==
  ASSUME NEW a \in [Levels -> Int]
  PROVE  \E f \in [0..N -> Int] :
           f = [j \in 0..N |-> IF j = 0 THEN 0 ELSE f[j - 1] + a[j]]
<1> DEFINE step == [p \in Int \X (0..N) |-> IF p[2] = 0 THEN 0 ELSE p[1] + a[p[2]]]
<1>1. N \in Nat /\ N \in Int /\ 0 \in Int
  BY ColumnAssumption
<1>2. step \in [Int \X (0..N) -> Int]
  <2>1. ASSUME NEW p \in Int \X (0..N) PROVE (IF p[2] = 0 THEN 0 ELSE p[1] + a[p[2]]) \in Int
    <3>1. p[1] \in Int /\ p[2] \in 0..N /\ (p[2] # 0 => p[2] \in 1..N)
      BY <1>1
    <3> QED BY <3>1 DEF Levels
  <2> QED BY <2>1
<1>3. FollowsUp(Int, 0, N, 0, step)
  <2> HIDE DEF step
  <2> QED BY <1>1, <1>2, RecursionUp
<1>4. PICK f \in [0..N -> Int] : f = [k \in 0..N |-> IF k = 0 THEN 0 ELSE step[<<f[k - 1], k>>]]
  BY <1>3 DEF FollowsUp
<1>5. ASSUME NEW k \in 0..N
      PROVE  (IF k = 0 THEN 0 ELSE step[<<f[k - 1], k>>]) = IF k = 0 THEN 0 ELSE f[k - 1] + a[k]
  <2>1. CASE k # 0
    <3>1. k - 1 \in 0..N
      BY <1>1, <2>1
    <3>2. f[k - 1] \in Int
      BY <3>1
    <3>3. step[<<f[k - 1], k>>] = f[k - 1] + a[k]
      BY <2>1, <3>2
    <3> QED BY <2>1, <3>3
  <2> QED BY <2>1
<1> HIDE DEF step
<1>6. [k \in 0..N |-> IF k = 0 THEN 0 ELSE step[<<f[k - 1], k>>]]
        = [k \in 0..N |-> IF k = 0 THEN 0 ELSE f[k - 1] + a[k]]
  BY <1>5
<1> QED BY <1>4, <1>6

LEMMA SumFollows ==
  ASSUME NEW a \in [Levels -> Int], NEW f,
         f = [j \in 0..N |-> IF j = 0 THEN 0 ELSE f[j - 1] + a[j]]
  PROVE  IsSum(f, a)
<1>1. N \in Nat /\ N \in Int /\ 0 \in Int /\ (0 <= N => 0 \in 0..N)
  BY ColumnAssumption
<1>2. f[0] = 0
  BY <1>1
<1>3. ASSUME NEW k \in Levels PROVE f[k] = f[k - 1] + a[k]
  <2>1. k \in 0..N /\ k # 0
    BY <1>1 DEF Levels
  <2> QED BY <2>1
<1> DEFINE H == {k \in 0..N : f[k] \in Int}
<1>4. H = 0..N
  <2>1. 0 \in H
    BY <1>1, <1>2
  <2>2. ASSUME NEW k \in 0..N, k # N, k \in H PROVE k + 1 \in H
    <3>1. k + 1 \in Levels /\ (k + 1) - 1 = k /\ k + 1 \in 0..N
      BY <1>1, <2>2 DEF Levels
    <3>2. f[k + 1] = f[k] + a[k + 1]
      BY <1>3, <3>1
    <3>3. f[k + 1] \in Int
      BY <2>2, <3>1, <3>2
    <3> QED BY <3>1, <3>3
  <2>3. H \in SUBSET (0..N)
    OBVIOUS
  <2> HIDE DEF H
  <2> QED BY <1>1, <2>1, <2>2, <2>3, Upwards
<1>5. f \in [0..N -> Int]
  BY <1>4
<1> QED BY <1>2, <1>3, <1>5 DEF IsSum

(* The sums of the model. *)
LEMMA TotalIs ==
  ASSUME NEW q \in [Levels -> Int]
  PROVE  \E f : IsSum(f, q) /\ Total(q) = f[N]
<1> DEFINE F(f) == f = [j \in 0..N |-> IF j = 0 THEN 0 ELSE f[j - 1] + q[j]]
           sum == CHOOSE f : F(f)
<1>1. Total(q) = sum[N]
  BY DEF Total
<1>2. \E f : F(f)
  BY SumExists
<1>3. F(sum)
  <2> HIDE DEF F
  <2> QED BY <1>2
<1> HIDE DEF sum
<1>4. IsSum(sum, q)
  BY <1>3, SumFollows
<1> QED BY <1>1, <1>4

Waters(column_) == [k \in Levels |-> Water(column_[k])]
Down(column_) == [k \in 0..N |-> WaterDownTo(column_, k)]
Debts(column_, s) == [k \in Levels |-> Dim(0, column_[k][s])]
Cells == [Species -> Int]
WaterColumns == [Levels -> Cells]

LEMMA WaterIsInt ==
  ASSUME NEW c \in Cells
  PROVE  Water(c) \in Int
  BY DEF Cells, Species, Water

LEMMA DownIs ==
  ASSUME NEW c \in WaterColumns
  PROVE  IsSum(Down(c), Waters(c))
<1> DEFINE F(f) == f = [j \in 0..N |-> IF j = 0 THEN 0 ELSE f[j - 1] + Water(c[j])]
           sum == CHOOSE f : F(f)
           a == Waters(c)
<1>0. N \in Nat
  BY ColumnAssumption
<1>1. \A k : WaterDownTo(c, k) = sum[k]
  BY DEF WaterDownTo
<1>2. a \in [Levels -> Int]
  BY WaterIsInt DEF Waters, WaterColumns
<1>3. ASSUME NEW f
      PROVE  [j \in 0..N |-> IF j = 0 THEN 0 ELSE f[j - 1] + Water(c[j])]
               = [j \in 0..N |-> IF j = 0 THEN 0 ELSE f[j - 1] + a[j]]
  <2>1. ASSUME NEW j \in 0..N, j # 0 PROVE Water(c[j]) = a[j]
    <3>1. j \in Levels
      BY <1>0, <2>1 DEF Levels
    <3> QED BY <3>1 DEF Waters
  <2> HIDE DEF a
  <2> QED BY <2>1
<1>4. \E f : F(f)
  <2> HIDE DEF a
  <2>1. PICK f \in [0..N -> Int] : f = [j \in 0..N |-> IF j = 0 THEN 0 ELSE f[j - 1] + a[j]]
    BY <1>2, SumExists
  <2>2. F(f)
    BY <1>3, <2>1
  <2> HIDE DEF F
  <2> QED BY <2>2
<1>5. F(sum)
  <2> HIDE DEF F
  <2> QED BY <1>4
<1> HIDE DEF sum, a
<1>6. IsSum(sum, a)
  <2>1. sum = [j \in 0..N |-> IF j = 0 THEN 0 ELSE sum[j - 1] + a[j]]
    BY <1>3, <1>5
  <2> QED BY <1>2, <2>1, SumFollows
<1>7. sum = Down(c)
  <2>1. sum = [k \in 0..N |-> sum[k]]
    BY <1>6 DEF IsSum
  <2> QED BY <1>1, <2>1 DEF Down
<1> QED BY <1>6, <1>7 DEF a

LEMMA DebtIs ==
  ASSUME NEW c \in WaterColumns, NEW s \in Species
  PROVE  \E f : IsSum(f, Debts(c, s)) /\ BelowZero(c, s) = f[N]
<1> DEFINE F(f) == f = [j \in 0..N |-> IF j = 0 THEN 0 ELSE f[j - 1] + Dim(0, c[j][s])]
           sum == CHOOSE f : F(f)
           a == Debts(c, s)
<1>0. N \in Nat
  BY ColumnAssumption
<1>1. BelowZero(c, s) = sum[N]
  BY DEF BelowZero
<1>2. a \in [Levels -> Int]
  BY DEF Debts, WaterColumns, Cells, Dim, Greater
<1>3. ASSUME NEW f
      PROVE  [j \in 0..N |-> IF j = 0 THEN 0 ELSE f[j - 1] + Dim(0, c[j][s])]
               = [j \in 0..N |-> IF j = 0 THEN 0 ELSE f[j - 1] + a[j]]
  <2>1. ASSUME NEW j \in 0..N, j # 0 PROVE Dim(0, c[j][s]) = a[j]
    <3>1. j \in Levels
      BY <1>0, <2>1 DEF Levels
    <3> QED BY <3>1 DEF Debts
  <2> HIDE DEF a
  <2> QED BY <2>1
<1>4. \E f : F(f)
  <2> HIDE DEF a
  <2>1. PICK f \in [0..N -> Int] : f = [j \in 0..N |-> IF j = 0 THEN 0 ELSE f[j - 1] + a[j]]
    BY <1>2, SumExists
  <2>2. F(f)
    BY <1>3, <2>1
  <2> HIDE DEF F
  <2> QED BY <2>2
<1>5. F(sum)
  <2> HIDE DEF F
  <2> QED BY <1>4
<1> HIDE DEF sum, a
<1>6. IsSum(sum, a)
  <2>1. sum = [j \in 0..N |-> IF j = 0 THEN 0 ELSE sum[j - 1] + a[j]]
    BY <1>3, <1>5
  <2> QED BY <1>2, <2>1, SumFollows
<1> QED BY <1>1, <1>6 DEF a

(* What a level passes on to the next changes the sums by what passes. *)
Passes(a, e, b) ==
  e \in [0..N -> Int] /\ \A k \in Levels : b[k] = a[k] + (e[k] - e[k - 1])

Apart(f, e, g) == \A k \in 0..N : g[k] = f[k] + (e[k] - e[0])

LEMMA Telescopes ==
  ASSUME NEW f, NEW a, IsSum(f, a), NEW g, NEW b, IsSum(g, b), NEW e, Passes(a, e, b)
  PROVE  Apart(f, e, g)
<1> DEFINE H == {k \in 0..N : g[k] = f[k] + (e[k] - e[0])}
<1>0. N \in Nat /\ N \in Int /\ 0 \in Int /\ e \in [0..N -> Int]
      /\ \A k \in Levels : b[k] = a[k] + (e[k] - e[k - 1])
  BY ColumnAssumption DEF Passes
<1>1. 0 \in H
  BY <1>0 DEF IsSum
<1>2. ASSUME NEW k \in 0..N, k # N, k \in H PROVE k + 1 \in H
  <2> DEFINE j == k + 1
  <2>1. j \in Levels /\ j - 1 = k /\ j \in 0..N
    BY <1>0, <1>2 DEF Levels
  <2> HIDE DEF j
  <2>2. g[j] = g[k] + b[j] /\ f[j] = f[k] + a[j] /\ b[j] = a[j] + (e[j] - e[k])
    BY <1>0, <2>1 DEF IsSum
  <2>3. g[k] = f[k] + (e[k] - e[0])
    BY <1>2
  <2>4. f[k] \in Int /\ f[j] \in Int /\ g[k] \in Int /\ e[k] \in Int /\ e[j] \in Int
        /\ e[0] \in Int /\ g[j] \in Int /\ 0 \in 0..N
    BY <1>0, <2>1 DEF IsSum
  <2>5. a[j] \in Int
    BY <2>1 DEF IsSum
  <2>6. g[j] = f[j] + (e[j] - e[0])
    BY <2>2, <2>3, <2>4, <2>5
  <2>7. j \in H
    BY <2>1, <2>6
  <2> QED BY <2>7 DEF j
<1>3. H = 0..N
  <2>1. H \in SUBSET (0..N)
    OBVIOUS
  <2> HIDE DEF H
  <2> QED BY <1>0, <1>1, <1>2, <2>1, Upwards
<1> QED BY <1>3 DEF Apart

-----------------------------------------------------------------------------
(* Cells at work.                                                          *)

Shelves == Species \cup {"liq", "sol"}
Work == [Shelves -> Int]

Balanced(w) == w.liq = w.ql + w.qr /\ w.sol = w.qi + w.qs + w.qg
Present(w) == w.ql >= 0 /\ w.qr >= 0 /\ w.qi >= 0 /\ w.qs >= 0 /\ w.qg >= 0

Keeps(w, v) == v \in Work /\ Water(v) = Water(w)
KeepsBook(w, v) == Keeps(w, v) /\ (Balanced(w) => Balanced(v))

(* Rain, cloud ice and snow are there, the cloud water is overdrawn by so  *)
(* much at the most; and graupel is there.                                 *)
Sound(w, beyond) == w.ql >= -beyond /\ w.qr >= 0 /\ w.qi >= 0 /\ w.qs >= 0
Firm(w) == w.qg >= 0

KeepsSound(w, v) == \A b \in Nat : Sound(w, b) => Sound(v, b)
KeepsPresent(w, v) == KeepsBook(w, v) /\ KeepsSound(w, v) /\ (Firm(w) => Firm(v))

Moved(w, from, to, n, v) ==
  /\ v \in Work
  /\ v[from] = w[from] - n /\ v[to] = w[to] + n
  /\ \A s \in Shelves \ {from, to} : v[s] = w[s]

LEMMA MoveIs ==
  ASSUME NEW w \in Work, NEW from \in Species, NEW to \in Species, from # to, NEW n \in Int
  PROVE  Moved(w, from, to, n, Move(w, from, to, n))
<1>1. from \in Shelves /\ to \in Shelves
  BY DEF Shelves
<1> QED BY <1>1 DEF Moved, Work, Move

LEMMA Entry ==
  ASSUME NEW D, NEW w \in [D -> Int], NEW a \in D, NEW b \in D, a # b, NEW m \in Int, NEW n \in Int
  PROVE  LET v == [w EXCEPT ![a] = w[a] + m, ![b] = w[b] + n]
         IN  /\ v \in [D -> Int]
             /\ v[a] = w[a] + m /\ v[b] = w[b] + n
             /\ \A s \in D \ {a, b} : v[s] = w[s]
  OBVIOUS

Entered(w, liquid, solid, v) ==
  /\ v \in Work
  /\ v.liq = w.liq + liquid /\ v.sol = w.sol + solid
  /\ \A s \in Species : v[s] = w[s]

LEMMA BookedIs ==
  ASSUME NEW w \in Work, NEW liquid \in Int, NEW solid \in Int
  PROVE  Entered(w, liquid, solid, Booked(w, liquid, solid))
<1> DEFINE v == [w EXCEPT !["liq"] = w["liq"] + liquid, !["sol"] = w["sol"] + solid]
<1>1. "liq" \in Shelves /\ "sol" \in Shelves /\ "liq" # "sol"
  BY DEF Shelves
<1>2. /\ v \in Work
      /\ v["liq"] = w["liq"] + liquid /\ v["sol"] = w["sol"] + solid
      /\ \A s \in Shelves \ {"liq", "sol"} : v[s] = w[s]
  BY <1>1, Entry DEF Work
<1>3. v = Booked(w, liquid, solid)
  BY DEF Booked
<1> HIDE DEF v
<1>4. \A s \in Species : s \in Shelves \ {"liq", "sol"}
  BY DEF Shelves, Species
<1> QED BY <1>2, <1>3, <1>4 DEF Entered

LEMMA PartsAre ==
  ASSUME NEW a \in Int, NEW n \in PartOf(a)
  PROVE  n \in Nat /\ (n = 0 \/ n <= a)
  BY DEF PartOf, Greater

LEMMA WorkIs ==
  ASSUME NEW w \in Work
  PROVE  /\ w.qv \in Int /\ w.ql \in Int /\ w.qr \in Int /\ w.qi \in Int /\ w.qs \in Int
         /\ w.qg \in Int /\ w.liq \in Int /\ w.sol \in Int
         /\ \A s \in Species : w[s] \in Int
  BY DEF Work, Shelves, Species

(* What one move, or two, do to each species. *)
Flow(s, from, to, n) == (IF s = to THEN n ELSE 0) - (IF s = from THEN n ELSE 0)

Shift(w, from, to, n, liquid, solid, v) ==
  /\ v \in Work
  /\ v.qv = w.qv + Flow("qv", from, to, n)
  /\ v.ql = w.ql + Flow("ql", from, to, n)
  /\ v.qr = w.qr + Flow("qr", from, to, n)
  /\ v.qi = w.qi + Flow("qi", from, to, n)
  /\ v.qs = w.qs + Flow("qs", from, to, n)
  /\ v.qg = w.qg + Flow("qg", from, to, n)
  /\ v.liq = w.liq + liquid /\ v.sol = w.sol + solid

LEMMA MoveShifts ==
  ASSUME NEW w \in Work, NEW from \in Species, NEW to \in Species, from # to, NEW n \in Int
  PROVE  Shift(w, from, to, n, 0, 0, Move(w, from, to, n))
<1> DEFINE v == Move(w, from, to, n)
<1>1. Moved(w, from, to, n, v)
  BY MoveIs
<1> HIDE DEF v
<1>2. v \in Work
  BY <1>1 DEF Moved
<1>3. ASSUME NEW s \in Species PROVE v[s] = w[s] + Flow(s, from, to, n)
  <2>1. w[s] \in Int /\ s \in Shelves
    BY WorkIs DEF Shelves
  <2> QED BY <1>1, <2>1 DEF Moved, Flow
<1>4. v["liq"] = w["liq"] /\ v["sol"] = w["sol"]
  <2>1. "liq" \in Shelves \ {from, to} /\ "sol" \in Shelves \ {from, to}
    BY DEF Shelves, Species
  <2> QED BY <1>1, <2>1 DEF Moved
<1>5. w.liq \in Int /\ w.sol \in Int
  BY WorkIs
<1>6. v.liq = w.liq + 0 /\ v.sol = w.sol + 0
  BY <1>4, <1>5
<1>7. /\ v.qv = w.qv + Flow("qv", from, to, n) /\ v.ql = w.ql + Flow("ql", from, to, n)
      /\ v.qr = w.qr + Flow("qr", from, to, n) /\ v.qi = w.qi + Flow("qi", from, to, n)
      /\ v.qs = w.qs + Flow("qs", from, to, n) /\ v.qg = w.qg + Flow("qg", from, to, n)
  BY <1>3 DEF Species
<1>8. Shift(w, from, to, n, 0, 0, v)
  BY <1>2, <1>6, <1>7 DEF Shift
<1> QED BY <1>8 DEF v

LEMMA BookedShifts ==
  ASSUME NEW w \in Work, NEW from \in Species, NEW to \in Species, from # to, NEW n \in Int,
         NEW liquid \in Int, NEW solid \in Int
  PROVE  Shift(w, from, to, n, liquid, solid, Booked(Move(w, from, to, n), liquid, solid))
<1> DEFINE u == Move(w, from, to, n)
           v == Booked(u, liquid, solid)
<1>1. Shift(w, from, to, n, 0, 0, u)
  BY MoveShifts
<1> HIDE DEF u
<1>2. u \in Work
  BY <1>1 DEF Shift
<1>3. Entered(u, liquid, solid, v)
  BY <1>2, BookedIs
<1> HIDE DEF v
<1>4. v.liq = w.liq + liquid /\ v.sol = w.sol + solid
  BY <1>1, <1>3, WorkIs DEF Shift, Entered
<1>5. v \in Work /\ \A s \in Species : v[s] = u[s]
  BY <1>3 DEF Entered
<1>6. Shift(w, from, to, n, liquid, solid, v)
  BY <1>1, <1>4, <1>5 DEF Shift, Species
<1> QED BY <1>6 DEF u, v

LEMMA FreezingKeeps ==
  ASSUME NEW w \in Work, NEW from \in {"ql", "qr"}, NEW to \in {"qi", "qs", "qg"},
         NEW v \in Freezing(w, from, to)
  PROVE  KeepsPresent(w, v)
<1>1. PICK n \in PartOf(w[from]) : v = Booked(Move(w, from, to, n), -n, n)
  BY DEF Freezing
<1>2. from \in Species /\ to \in Species /\ from # to
  BY DEF Species
<1>3. n \in Nat /\ (n = 0 \/ n <= w[from])
  BY <1>2, PartsAre, WorkIs
<1>4. Shift(w, from, to, n, -n, n, v)
  BY <1>1, <1>2, <1>3, BookedShifts
<1> QED BY <1>3, <1>4, WorkIs DEF KeepsPresent, KeepsBook, Keeps, KeepsSound, Balanced, Sound, Firm, Water, Flow, Shift

LEMMA MeltCloudIceKeeps ==
  ASSUME NEW w \in Work, NEW v \in MeltCloudIce(w)
  PROVE  KeepsPresent(w, v)
<1>1. PICK n \in PartOf(w.qi) : v = Booked(Move(w, "qi", "ql", n), n, -n)
  BY DEF MeltCloudIce
<1>2. n \in Nat /\ (n = 0 \/ n <= w.qi)
  BY <1>1, WorkIs, PartsAre DEF Greater, Lesser, Dim
<1>3. Shift(w, "qi", "ql", n, n, -n, v)
  BY <1>1, <1>2, MoveShifts, BookedShifts DEF Species
<1> QED BY <1>2, <1>3, WorkIs DEF KeepsPresent, KeepsBook, Keeps, KeepsSound, Balanced, Sound, Firm, Water, Flow, Shift

LEMMA AutoconversionKeeps ==
  ASSUME NEW w \in Work, NEW v \in Autoconversion(w)
  PROVE  KeepsPresent(w, v)
<1>1. PICK n \in PartOf(w.ql) : v = Move(w, "ql", "qr", n)
  BY DEF Autoconversion
<1>2. n \in Nat /\ (n = 0 \/ n <= w.ql)
  BY <1>1, WorkIs, PartsAre DEF Greater, Lesser, Dim
<1>3. Shift(w, "ql", "qr", n, 0, 0, v)
  BY <1>1, <1>2, MoveShifts, BookedShifts DEF Species
<1> QED BY <1>2, <1>3, WorkIs DEF KeepsPresent, KeepsBook, Keeps, KeepsSound, Balanced, Sound, Firm, Water, Flow, Shift

LEMMA AutoconvNoSubgridVarKeeps ==
  ASSUME NEW w \in Work, NEW v \in AutoconvNoSubgridVar(w)
  PROVE  KeepsPresent(w, v)
<1>1. PICK n \in PartOf(w.ql) : v = Move(w, "ql", "qr", n)
  BY DEF AutoconvNoSubgridVar
<1>2. n \in Nat /\ (n = 0 \/ n <= w.ql)
  BY <1>1, WorkIs, PartsAre DEF Greater, Lesser, Dim
<1>3. Shift(w, "ql", "qr", n, 0, 0, v)
  BY <1>1, <1>2, MoveShifts, BookedShifts DEF Species
<1> QED BY <1>2, <1>3, WorkIs DEF KeepsPresent, KeepsBook, Keeps, KeepsSound, Balanced, Sound, Firm, Water, Flow, Shift

LEMMA AutoconvSubgridVarKeeps ==
  ASSUME NEW w \in Work, NEW beyond \in Nat, NEW v \in AutoconvSubgridVar(w, beyond)
  PROVE  Keeps(w, v) /\ (Sound(w, beyond) => Sound(v, beyond)) /\ (Firm(w) => Firm(v))
<1>1. CASE ~ (w.ql > 0)
  BY <1>1 DEF AutoconvSubgridVar, Keeps
<1>2. CASE w.ql > 0
  <2>1. PICK n \in 0..w.ql + beyond : v = Move(w, "ql", "qr", n)
    BY <1>2 DEF AutoconvSubgridVar
  <2>2. n \in Nat /\ n <= w.ql + beyond
    BY WorkIs
  <2>3. Shift(w, "ql", "qr", n, 0, 0, v)
    BY <2>1, <2>2, MoveShifts DEF Species
  <2> QED BY <2>2, <2>3, WorkIs DEF Keeps, Sound, Firm, Water, Flow, Shift
<1> QED BY <1>1, <1>2

LEMMA IceToSnowKeeps ==
  ASSUME NEW w \in Work, NEW v \in IceToSnow(w)
  PROVE  KeepsPresent(w, v)
<1>1. PICK n \in PartOf(w.qi) : v = Move(w, "qi", "qs", n)
  BY DEF IceToSnow
<1>2. n \in Nat /\ (n = 0 \/ n <= w.qi)
  BY <1>1, WorkIs, PartsAre DEF Greater, Lesser, Dim
<1>3. Shift(w, "qi", "qs", n, 0, 0, v)
  BY <1>1, <1>2, MoveShifts, BookedShifts DEF Species
<1> QED BY <1>2, <1>3, WorkIs DEF KeepsPresent, KeepsBook, Keeps, KeepsSound, Balanced, Sound, Firm, Water, Flow, Shift

LEMMA GraupelMeltsKeeps ==
  ASSUME NEW w \in Work, NEW v \in GraupelMelts(w)
  PROVE  KeepsPresent(w, v)
<1>1. PICK n \in PartOf(w.qg) : v = Booked(Move(w, "qg", "qr", n), n, -n)
  BY DEF GraupelMelts
<1>2. n \in Nat /\ (n = 0 \/ n <= w.qg)
  BY <1>1, WorkIs, PartsAre DEF Greater, Lesser, Dim
<1>3. Shift(w, "qg", "qr", n, n, -n, v)
  BY <1>1, <1>2, MoveShifts, BookedShifts DEF Species
<1> QED BY <1>2, <1>3, WorkIs DEF KeepsPresent, KeepsBook, Keeps, KeepsSound, Balanced, Sound, Firm, Water, Flow, Shift

LEMMA SnowToGraupelKeeps ==
  ASSUME NEW w \in Work, NEW v \in SnowToGraupel(w)
  PROVE  KeepsPresent(w, v)
<1>1. PICK n \in PartOf(w.qs) : v = Move(w, "qs", "qg", n)
  BY DEF SnowToGraupel
<1>2. n \in Nat /\ (n = 0 \/ n <= w.qs)
  BY <1>1, WorkIs, PartsAre DEF Greater, Lesser, Dim
<1>3. Shift(w, "qs", "qg", n, 0, 0, v)
  BY <1>1, <1>2, MoveShifts, BookedShifts DEF Species
<1> QED BY <1>2, <1>3, WorkIs DEF KeepsPresent, KeepsBook, Keeps, KeepsSound, Balanced, Sound, Firm, Water, Flow, Shift

LEMMA RainEvaporatesKeeps ==
  ASSUME NEW w \in Work, NEW v \in RainEvaporates(w)
  PROVE  KeepsPresent(w, v)
<1>1. PICK n \in PartOf(w.qr) : v = Booked(Move(w, "qr", "qv", n), -n, 0)
  BY DEF RainEvaporates
<1>2. n \in Nat /\ (n = 0 \/ n <= w.qr)
  BY <1>1, WorkIs, PartsAre DEF Greater, Lesser, Dim
<1>3. Shift(w, "qr", "qv", n, -n, 0, v)
  BY <1>1, <1>2, MoveShifts, BookedShifts DEF Species
<1> QED BY <1>2, <1>3, WorkIs DEF KeepsPresent, KeepsBook, Keeps, KeepsSound, Balanced, Sound, Firm, Water, Flow, Shift

LEMMA VapourCloudWaterKeeps ==
  ASSUME NEW w \in Work, NEW v \in VapourCloudWater(w)
  PROVE  KeepsPresent(w, v)
<1>1. PICK n \in {-c : c \in PartOf(w.qv)} \cup (IF w.ql < 0 THEN {w.ql} ELSE 0..w.ql) :
        v = Booked(Move(w, "ql", "qv", n), -n, 0)
  BY DEF VapourCloudWater
<1>2. n \in Int /\ (n <= 0 \/ n <= w.ql)
  <2>1. \A c \in PartOf(w.qv) : -c \in Int /\ -c <= 0
    BY PartsAre, WorkIs
  <2> QED BY <2>1, WorkIs
<1>3. Shift(w, "ql", "qv", n, -n, 0, v)
  BY <1>1, <1>2, MoveShifts, BookedShifts DEF Species
<1> QED BY <1>2, <1>3, WorkIs DEF KeepsPresent, KeepsBook, Keeps, KeepsSound, Balanced, Sound, Firm, Water, Flow, Shift

LEMMA VapourAdjustedKeeps ==
  ASSUME NEW w \in Work, NEW v \in VapourAdjusted(w)
  PROVE  KeepsPresent(w, v)
<1>1. PICK n \in PartOf(w.qv) \cup (IF w.ql < 0 THEN {-w.ql} ELSE {-e : e \in 0..w.ql}) :
        v = Booked(Move(w, "qv", "ql", n), n, 0)
  BY DEF VapourAdjusted
<1>2. n \in Int /\ (n >= 0 \/ n >= -w.ql)
  BY <1>1, WorkIs, PartsAre
<1>3. Shift(w, "qv", "ql", n, n, 0, v)
  BY <1>1, <1>2, BookedShifts DEF Species
<1> QED BY <1>2, <1>3, WorkIs DEF KeepsPresent, KeepsBook, Keeps, KeepsSound, Balanced, Sound, Firm, Water, Flow, Shift

LEMMA DepositingIs ==
  ASSUME NEW w \in Work, NEW ice \in {"qi", "qs", "qg"}, NEW n \in Int
  PROVE  Shift(w, "qv", ice, n, 0, n, Depositing(w, ice, n))
<1>1. "qv" \in Species /\ ice \in Species /\ "qv" # ice
  BY DEF Species
<1> QED BY <1>1, BookedShifts DEF Depositing

LEMMA DepositingKeeps ==
  ASSUME NEW w \in Work, NEW ice \in {"qi", "qs", "qg"}, NEW n \in Int, n >= 0 \/ n >= -w[ice]
  PROVE  KeepsPresent(w, Depositing(w, ice, n))
<1> DEFINE v == Depositing(w, ice, n)
<1>1. Shift(w, "qv", ice, n, 0, n, v)
  BY DepositingIs
<1> HIDE DEF v
<1>2. KeepsPresent(w, v)
  BY <1>1, WorkIs DEF KeepsPresent, KeepsBook, Keeps, KeepsSound, Balanced, Sound, Firm, Water, Flow, Shift
<1> QED BY <1>2 DEF v

LEMMA SublimationKeeps ==
  ASSUME NEW w \in Work, NEW v \in Sublimation(w)
  PROVE  KeepsPresent(w, v)
<1>1. PICK n \in (-w.qi)..Greater(w.qv, 0) : v = Depositing(w, "qi", n)
  BY DEF Sublimation
<1>2. n \in Int /\ n >= -w["qi"]
  BY WorkIs DEF Greater
<1> QED BY <1>1, <1>2, DepositingKeeps

LEMMA IceDepositsKeeps ==
  ASSUME NEW w \in Work, NEW v \in IceDeposits(w)
  PROVE  KeepsPresent(w, v)
<1>1. PICK n \in (-w.qi)..Greater(w.qv, 0) : v = Depositing(w, "qi", n)
  BY DEF IceDeposits
<1>2. n \in Int /\ n >= -w["qi"]
  BY WorkIs DEF Greater
<1> QED BY <1>1, <1>2, DepositingKeeps

LEMMA NothingKeeps ==
  ASSUME NEW w \in Work
  PROVE  KeepsPresent(w, w)
  BY DEF KeepsPresent, KeepsBook, Keeps, KeepsSound

LEMMA SnowSublimatesKeeps ==
  ASSUME NEW w \in Work, NEW v \in SnowSublimates(w)
  PROVE  KeepsPresent(w, v)
<1>1. CASE ~ (w.qs > 0)
  BY <1>1, NothingKeeps DEF SnowSublimates
<1>2. CASE w.qs > 0
  <2>1. PICK n \in (-w.qs)..Greater(w.qv, 0) : v = Depositing(w, "qs", n)
    BY <1>2 DEF SnowSublimates
  <2>2. n \in Int /\ n >= -w["qs"]
    BY WorkIs DEF Greater
  <2> QED BY <2>1, <2>2, DepositingKeeps
<1> QED BY <1>1, <1>2

(* All that may become of the graupel is that it is less than nothing. *)
KeepsButGraupel(w, v) == KeepsBook(w, v) /\ KeepsSound(w, v)

LEMMA GraupelSublimatesKeeps ==
  ASSUME NEW w \in Work, NEW beyond \in Nat, NEW v \in GraupelSublimates(w, beyond)
  PROVE  KeepsButGraupel(w, v)
<1>1. CASE ~ (w.qg > 0)
  BY <1>1, NothingKeeps DEF GraupelSublimates, KeepsButGraupel, KeepsPresent
<1>2. CASE w.qg > 0
  <2>1. \E n \in Int : v = Depositing(w, "qg", n)
    <3> DEFINE most == w.qg + (IF w.qv < 0 THEN beyond ELSE 0)
               liquid == w.ql + w.qr
               deposits == IF w.qv <= 0 THEN {} ELSE IF liquid < 0 THEN {liquid} ELSE 0..Lesser(w.qv, liquid)
    <3>1. PICK n \in (-most)..0 \cup deposits : v = Depositing(w, "qg", n)
      BY <1>2 DEF GraupelSublimates
    <3>2. liquid \in Int /\ most \in Int /\ Lesser(w.qv, liquid) \in Int
      BY WorkIs DEF Lesser
    <3> HIDE DEF most, liquid
    <3>3. n \in Int
      BY <3>2
    <3> QED BY <3>1, <3>3
  <2>2. PICK n \in Int : v = Depositing(w, "qg", n)
    BY <2>1
  <2>3. Shift(w, "qv", "qg", n, 0, n, v)
    BY <2>2, DepositingIs
  <2> QED BY <2>3, WorkIs
          DEF KeepsButGraupel, KeepsBook, Keeps, KeepsSound, Balanced, Sound, Water, Flow, Shift
<1> QED BY <1>1, <1>2

LEMMA DepositVapourKeeps ==
  ASSUME NEW w \in Work, NEW v \in DepositVapour(w)
  PROVE  KeepsPresent(w, v)
<1> DEFINE n == Dim(VapourLimit, w.qv)
<1>1. v = Depositing(w, "qi", n)
  BY DEF DepositVapour
<1>2. n \in Int /\ n >= 0
  BY WorkIs, VapourLimitAssumption DEF Dim, Greater
<1> HIDE DEF n
<1> QED BY <1>1, <1>2, DepositingKeeps

LEMMA MeltingKeeps ==
  ASSUME NEW w \in Work, NEW from \in {"qi", "qs"}, NEW v \in Melting(w, from)
  PROVE  KeepsPresent(w, v)
<1>0. from \in Species /\ "ql" \in Species /\ "qr" \in Species /\ from # "ql" /\ from # "qr"
  BY DEF Species
<1>1. PICK n \in PartOf(w[from]) : \E t \in 0..n :
        v = Booked(Move(Move(w, from, "ql", t), from, "qr", n - t), n, -n)
  BY DEF Melting
<1>2. PICK t \in 0..n : v = Booked(Move(Move(w, from, "ql", t), from, "qr", n - t), n, -n)
  BY <1>1
<1>3. n \in Nat /\ (n = 0 \/ n <= w[from]) /\ t \in Nat /\ t <= n
  BY <1>0, PartsAre, WorkIs
<1> DEFINE u == Move(w, from, "ql", t)
<1>4. Shift(w, from, "ql", t, 0, 0, u)
  BY <1>0, <1>3, MoveShifts
<1> HIDE DEF u
<1>5. u \in Work
  BY <1>4 DEF Shift
<1>6. Shift(u, from, "qr", n - t, n, -n, v)
  <2>1. n - t \in Int /\ n \in Int /\ -n \in Int
    BY <1>3
  <2>2. v = Booked(Move(u, from, "qr", n - t), n, -n)
    BY <1>2 DEF u
  <2> QED BY <1>0, <1>5, <2>1, <2>2, BookedShifts
<1>f. /\ v.qv = w.qv /\ v.ql = w.ql + t /\ v.qr = w.qr + (n - t) /\ v.qg = w.qg
      /\ v.liq = w.liq + n /\ v.sol = w.sol - n
      /\ from = "qi" => v.qi = w.qi - n /\ v.qs = w.qs
      /\ from = "qs" => v.qs = w.qs - n /\ v.qi = w.qi
  BY <1>3, <1>4, <1>5, <1>6, WorkIs DEF Flow, Shift
<1>7. v \in Work /\ Water(v) = Water(w) /\ (Balanced(w) => Balanced(v))
  <2>1. v \in Work
    BY <1>6 DEF Shift
  <2>2. v.qi + v.qs = (w.qi + w.qs) - n
    BY <1>3, <1>f, WorkIs
  <2> QED BY <1>3, <1>f, <2>1, <2>2, WorkIs DEF Balanced, Water
<1>8. /\ v.qg = w.qg /\ v.ql >= w.ql /\ v.qr >= w.qr
      /\ w.qi >= 0 => v.qi >= 0
      /\ w.qs >= 0 => v.qs >= 0
  BY <1>3, <1>4, <1>5, <1>6, WorkIs DEF Flow, Shift
<1>9. KeepsSound(w, v) /\ (Firm(w) => Firm(v))
  BY <1>7, <1>8, WorkIs DEF KeepsSound, Sound, Firm
<1> QED BY <1>7, <1>9 DEF KeepsPresent, KeepsBook, Keeps

LEMMA PimltPihomKeeps ==
  ASSUME NEW w \in Work, NEW v \in PimltPihom(w)
  PROVE  KeepsPresent(w, v)
<1>1. CASE v \in Melting(w, "qi")
  BY <1>1, MeltingKeeps
<1>2. CASE v \notin Melting(w, "qi")
  <2>0. "qi" \in Species /\ "ql" \in Species /\ "qs" \in Species
    BY DEF Species
  <2>1. PICK n \in PartOf(w.ql) : \E t \in 0..n :
          v = Booked(Move(Move(w, "ql", "qi", t), "ql", "qs", n - t), -n, n)
    BY <1>2 DEF PimltPihom
  <2>2. PICK t \in 0..n : v = Booked(Move(Move(w, "ql", "qi", t), "ql", "qs", n - t), -n, n)
    BY <2>1
  <2>3. n \in Nat /\ (n = 0 \/ n <= w.ql) /\ t \in Nat /\ t <= n
    BY PartsAre, WorkIs
  <2> DEFINE u == Move(w, "ql", "qi", t)
  <2>4. Shift(w, "ql", "qi", t, 0, 0, u)
    BY <2>0, <2>3, MoveShifts
  <2> HIDE DEF u
  <2>5. u \in Work
    BY <2>4 DEF Shift
  <2>6. Shift(u, "ql", "qs", n - t, -n, n, v)
    <3>1. n - t \in Int /\ n \in Int /\ -n \in Int
      BY <2>3
    <3>2. v = Booked(Move(u, "ql", "qs", n - t), -n, n)
      BY <2>2 DEF u
    <3> QED BY <2>0, <2>5, <3>1, <3>2, BookedShifts
  <2>7. /\ u.qv = w.qv /\ u.ql = w.ql - t /\ u.qr = w.qr /\ u.qi = w.qi + t
         /\ u.qs = w.qs /\ u.qg = w.qg /\ u.liq = w.liq /\ u.sol = w.sol
    BY <2>3, <2>4, WorkIs DEF Flow, Shift
  <2>8. /\ v.qv = w.qv /\ v.ql = w.ql - n /\ v.qr = w.qr /\ v.qi = w.qi + t
         /\ v.qs = w.qs + (n - t) /\ v.qg = w.qg /\ v.liq = w.liq - n /\ v.sol = w.sol + n
    BY <2>3, <2>7, <2>5, <2>6, WorkIs DEF Flow, Shift
  <2>9. v \in Work
    BY <2>6 DEF Shift
  <2> QED BY <2>3, <2>8, <2>9, WorkIs DEF KeepsPresent, KeepsBook, Keeps, KeepsSound, Balanced, Sound, Firm, Water
<1> QED BY <1>1, <1>2

LEMMA IceToSnowGraupelKeeps ==
  ASSUME NEW w \in Work, NEW v \in IceToSnowGraupel(w)
  PROVE  KeepsPresent(w, v)
<1>0. "qi" \in Species /\ "qs" \in Species /\ "qg" \in Species
  BY DEF Species
<1>1. PICK s \in PartOf(w.qi) : \E g \in IF w.qg > 0 THEN PartOf(w.qi - s) ELSE {0} :
        v = Move(Move(w, "qi", "qs", s), "qi", "qg", g)
  BY DEF IceToSnowGraupel
<1>2. PICK g \in IF w.qg > 0 THEN PartOf(w.qi - s) ELSE {0} :
        v = Move(Move(w, "qi", "qs", s), "qi", "qg", g)
  BY <1>1
<1>3. s \in Nat /\ (s = 0 \/ s <= w.qi)
  BY PartsAre, WorkIs
<1>4. g \in Nat /\ (g = 0 \/ g <= w.qi - s)
  <2>1. w.qi - s \in Int
    BY <1>3, WorkIs
  <2> QED BY <2>1, PartsAre
<1> DEFINE u == Move(w, "qi", "qs", s)
<1>5. Shift(w, "qi", "qs", s, 0, 0, u)
  BY <1>0, <1>3, MoveShifts
<1> HIDE DEF u
<1>6. u \in Work
  BY <1>5 DEF Shift
<1>7. Shift(u, "qi", "qg", g, 0, 0, v)
  BY <1>0, <1>2, <1>4, <1>6, MoveShifts DEF u
<1>8. /\ u.qv = w.qv /\ u.ql = w.ql /\ u.qr = w.qr /\ u.qi = w.qi - s
       /\ u.qs = w.qs + s /\ u.qg = w.qg /\ u.liq = w.liq /\ u.sol = w.sol
  BY <1>3, <1>5, WorkIs DEF Flow, Shift
<1>9. /\ v.qv = w.qv /\ v.ql = w.ql /\ v.qr = w.qr /\ v.qi = w.qi - (s + g)
       /\ v.qs = w.qs + s /\ v.qg = w.qg + g /\ v.liq = w.liq /\ v.sol = w.sol
  BY <1>3, <1>4, <1>8, <1>6, <1>7, WorkIs DEF Flow, Shift
<1>10. v \in Work
  BY <1>7 DEF Shift
<1>11. Water(v) = Water(w) /\ (Balanced(w) => Balanced(v))
  BY <1>3, <1>4, <1>9, WorkIs DEF Balanced, Water
<1>12. KeepsSound(w, v) /\ (Firm(w) => Firm(v))
  BY <1>3, <1>4, <1>9, WorkIs DEF KeepsSound, Sound, Firm
<1> QED BY <1>10, <1>11, <1>12 DEF KeepsPresent, KeepsBook, Keeps

LEMMA RainToSnowGraupelKeeps ==
  ASSUME NEW w \in Work, NEW v \in RainToSnowGraupel(w)
  PROVE  KeepsPresent(w, v)
<1>0. "qr" \in Species /\ "qs" \in Species /\ "qg" \in Species
  BY DEF Species
<1>1. PICK n \in PartOf(w.qr) : \E s \in IF w.qs > 0 THEN 0..n ELSE {0} :
        v = Booked(Move(Move(w, "qr", "qs", s), "qr", "qg", n - s), -n, n)
  BY DEF RainToSnowGraupel
<1>2. PICK s \in IF w.qs > 0 THEN 0..n ELSE {0} :
        v = Booked(Move(Move(w, "qr", "qs", s), "qr", "qg", n - s), -n, n)
  BY <1>1
<1>3. n \in Nat /\ (n = 0 \/ n <= w.qr) /\ s \in Nat /\ s <= n
  BY PartsAre, WorkIs
<1> DEFINE u == Move(w, "qr", "qs", s)
<1>4. Shift(w, "qr", "qs", s, 0, 0, u)
  BY <1>0, <1>3, MoveShifts
<1> HIDE DEF u
<1>5. u \in Work
  BY <1>4 DEF Shift
<1>6. Shift(u, "qr", "qg", n - s, -n, n, v)
  <2>1. n - s \in Int /\ n \in Int /\ -n \in Int
    BY <1>3
  <2>2. v = Booked(Move(u, "qr", "qg", n - s), -n, n)
    BY <1>2 DEF u
  <2> QED BY <1>0, <1>5, <2>1, <2>2, BookedShifts
<1>7. /\ u.qv = w.qv /\ u.ql = w.ql /\ u.qr = w.qr - s /\ u.qi = w.qi
       /\ u.qs = w.qs + s /\ u.qg = w.qg /\ u.liq = w.liq /\ u.sol = w.sol
  BY <1>3, <1>4, WorkIs DEF Flow, Shift
<1>8. /\ v.qv = w.qv /\ v.ql = w.ql /\ v.qr = w.qr - n /\ v.qi = w.qi
       /\ v.qs = w.qs + s /\ v.qg = w.qg + (n - s) /\ v.liq = w.liq - n /\ v.sol = w.sol + n
  BY <1>3, <1>7, <1>5, <1>6, WorkIs DEF Flow, Shift
<1>9. v \in Work
  BY <1>6 DEF Shift
<1> QED BY <1>3, <1>8, <1>9, WorkIs DEF KeepsPresent, KeepsBook, Keeps, KeepsSound, Balanced, Sound, Firm, Water

LEMMA GraupelAccretesKeeps ==
  ASSUME NEW w \in Work, NEW v \in GraupelAccretes(w)
  PROVE  KeepsPresent(w, v)
<1>0. "qr" \in Species /\ "ql" \in Species /\ "qg" \in Species
  BY DEF Species
<1>1. CASE ~ (w.qg > 0)
  BY <1>1, NothingKeeps DEF GraupelAccretes
<1>2. CASE w.qg > 0
  <2>1. PICK r \in PartOf(w.qr) : \E c \in PartOf(w.ql) :
          v = Booked(Move(Move(w, "qr", "qg", r), "ql", "qg", c), -(r + c), r + c)
    BY <1>2 DEF GraupelAccretes
  <2>2. PICK c \in PartOf(w.ql) :
          v = Booked(Move(Move(w, "qr", "qg", r), "ql", "qg", c), -(r + c), r + c)
    BY <2>1
  <2>3. r \in Nat /\ (r = 0 \/ r <= w.qr) /\ c \in Nat /\ (c = 0 \/ c <= w.ql)
    BY PartsAre, WorkIs
  <2> DEFINE u == Move(w, "qr", "qg", r)
  <2>4. Shift(w, "qr", "qg", r, 0, 0, u)
    BY <1>0, <2>3, MoveShifts
  <2> HIDE DEF u
  <2>5. u \in Work
    BY <2>4 DEF Shift
  <2>6. Shift(u, "ql", "qg", c, -(r + c), r + c, v)
    <3>1. c \in Int /\ r + c \in Int /\ -(r + c) \in Int
      BY <2>3
    <3>2. v = Booked(Move(u, "ql", "qg", c), -(r + c), r + c)
      BY <2>2 DEF u
    <3> QED BY <1>0, <2>5, <3>1, <3>2, BookedShifts
  <2>7. /\ u.qv = w.qv /\ u.ql = w.ql /\ u.qr = w.qr - r /\ u.qi = w.qi
         /\ u.qs = w.qs /\ u.qg = w.qg + r /\ u.liq = w.liq /\ u.sol = w.sol
    BY <2>3, <2>4, WorkIs DEF Flow, Shift
  <2>8. /\ v.qv = w.qv /\ v.ql = w.ql - c /\ v.qr = w.qr - r /\ v.qi = w.qi
         /\ v.qs = w.qs /\ v.qg = w.qg + (r + c) /\ v.liq = w.liq - (r + c) /\ v.sol = w.sol + (r + c)
    BY <2>3, <2>7, <2>5, <2>6, WorkIs DEF Flow, Shift
  <2>9. v \in Work
    BY <2>6 DEF Shift
  <2> QED BY <2>3, <2>8, <2>9, WorkIs DEF KeepsPresent, KeepsBook, Keeps, KeepsSound, Balanced, Sound, Firm, Water
<1> QED BY <1>1, <1>2

(* Cells at work, and not. *)
LEMMA AtWorkIs ==
  ASSUME NEW c \in Cells
  PROVE  AtWork(c) \in Work /\ Balanced(AtWork(c)) /\ \A s \in Species : AtWork(c)[s] = c[s]
<1>1. c.ql + c.qr \in Int /\ c.qi + c.qs + c.qg \in Int /\ \A s \in Species : c[s] \in Int
  BY DEF Cells, Species
<1>2. AtWork(c) = [s \in Shelves |-> IF s \in Species THEN c[s] ELSE Tally(c)[s]]
  BY DEF AtWork, Shelves
<1>3. \A s \in Species : AtWork(c)[s] = c[s]
  BY <1>2 DEF Shelves
<1>4. "liq" \in Shelves /\ "sol" \in Shelves /\ "liq" \notin Species /\ "sol" \notin Species
  BY DEF Shelves, Species
<1>5. AtWork(c)["liq"] = c.ql + c.qr /\ AtWork(c)["sol"] = c.qi + c.qs + c.qg
  BY <1>2, <1>4 DEF Tally
<1>6. AtWork(c) \in Work
  <2>1. ASSUME NEW s \in Shelves PROVE AtWork(c)[s] \in Int
    BY <1>1, <1>3, <1>5 DEF Shelves
  <2> HIDE DEF Shelves
  <2> QED BY <1>2, <2>1 DEF Work
<1>7. Balanced(AtWork(c))
  <2>1. AtWork(c)["ql"] = c["ql"] /\ AtWork(c)["qr"] = c["qr"] /\ AtWork(c)["qi"] = c["qi"]
        /\ AtWork(c)["qs"] = c["qs"] /\ AtWork(c)["qg"] = c["qg"]
    BY <1>3 DEF Species
  <2> QED BY <1>5, <2>1 DEF Balanced
<1> QED BY <1>3, <1>6, <1>7

LEMMA CellIs ==
  ASSUME NEW w \in Work
  PROVE  Cell(w) \in Cells /\ (\A s \in Species : Cell(w)[s] = w[s]) /\ Water(Cell(w)) = Water(w)
<1>1. Cell(w) \in Cells /\ \A s \in Species : Cell(w)[s] = w[s]
  BY WorkIs DEF Cell, Cells
<1>2. Water(Cell(w)) = Water(w)
  <2> DEFINE c == Cell(w)
  <2>1. \A s \in Species : c[s] = w[s]
    BY <1>1
  <2> HIDE DEF c
  <2>2. Water(c) = Water(w)
    BY <2>1 DEF Water, Species
  <2> QED BY <2>2 DEF c
<1> QED BY <1>1, <1>2

(* A cell without its clouds: what it holds is kept, and so are the sums   *)
(* that were taken before.                                                 *)
LEMMA CloudFreeIs ==
  ASSUME NEW D, Species \subseteq D, NEW w \in [D -> Int]
  PROVE  /\ CloudFree(w) \in [D -> Int]
         /\ CloudFree(w).qv = w.qv + w.ql + w.qi
         /\ CloudFree(w).ql = 0 /\ CloudFree(w).qi = 0
         /\ \A s \in D \ {"qv", "ql", "qi"} : CloudFree(w)[s] = w[s]
<1> DEFINE dry == w.qv + w.ql + w.qi
           v == [w EXCEPT !.qv = dry, !.ql = 0, !.qi = 0]
<1>1. "qv" \in D /\ "ql" \in D /\ "qi" \in D /\ 0 \in Int
  BY DEF Species
<1>2. w.qv \in Int /\ w.ql \in Int /\ w.qi \in Int
  BY <1>1
<1>3. dry \in Int
  BY <1>2
<1>4. CloudFree(w) = v
  BY DEF CloudFree
<1> HIDE DEF dry
<1>5. /\ v \in [D -> Int] /\ v.qv = dry /\ v.ql = 0 /\ v.qi = 0
      /\ \A s \in D \ {"qv", "ql", "qi"} : v[s] = w[s]
  BY <1>1, <1>3
<1> HIDE DEF v
<1> QED BY <1>4, <1>5 DEF dry

LEMMA CloudFreeKeeps ==
  ASSUME NEW w \in Work
  PROVE  Keeps(w, CloudFree(w)) /\ KeepsSound(w, CloudFree(w)) /\ (Firm(w) => Firm(CloudFree(w)))
<1> DEFINE v == CloudFree(w)
<1>1. Species \subseteq Shelves
  BY DEF Shelves
<1>2. /\ v \in Work /\ v.qv = w.qv + w.ql + w.qi /\ v.ql = 0 /\ v.qi = 0
      /\ \A s \in Shelves \ {"qv", "ql", "qi"} : v[s] = w[s]
  BY <1>1, CloudFreeIs DEF Work
<1> HIDE DEF v
<1>3. v["qr"] = w["qr"] /\ v["qs"] = w["qs"] /\ v["qg"] = w["qg"]
  <2>1. {"qr", "qs", "qg"} \subseteq Shelves \ {"qv", "ql", "qi"}
    BY DEF Shelves, Species
  <2> QED BY <1>2, <2>1
<1>4. Keeps(w, v) /\ KeepsSound(w, v) /\ (Firm(w) => Firm(v))
  BY <1>2, <1>3, WorkIs DEF Keeps, KeepsSound, Sound, Firm, Water
<1> QED BY <1>4 DEF v

LEMMA CloudFreed ==
  ASSUME NEW c \in Cells
  PROVE  /\ Cell(CloudFree(AtWork(c))) = CloudFree(c)
         /\ Book(CloudFree(AtWork(c))) = Tally(c)
<1> DEFINE w == AtWork(c)
           v == CloudFree(w)
           d == CloudFree(c)
<1>1. w \in Work /\ Balanced(w) /\ \A s \in Species : w[s] = c[s]
  BY AtWorkIs
<1> HIDE DEF w
<1>2. /\ v \in Work /\ v.qv = w.qv + w.ql + w.qi /\ v.ql = 0 /\ v.qi = 0
      /\ \A s \in Shelves \ {"qv", "ql", "qi"} : v[s] = w[s]
  <2>1. Species \subseteq Shelves
    BY DEF Shelves
  <2> QED BY <1>1, <2>1, CloudFreeIs DEF Work
<1>3. /\ d \in [Species -> Int] /\ d.qv = c.qv + c.ql + c.qi /\ d.ql = 0 /\ d.qi = 0
      /\ \A s \in Species \ {"qv", "ql", "qi"} : d[s] = c[s]
  BY CloudFreeIs DEF Cells
<1> HIDE DEF v, d
<1>4. Cell(v) \in Cells /\ \A s \in Species : Cell(v)[s] = v[s]
  BY <1>2, CellIs
<1>5. ASSUME NEW s \in Species PROVE Cell(v)[s] = d[s]
  <2>1. CASE s \in {"qv", "ql", "qi"}
    <3>1. w.qv = c.qv /\ w.ql = c.ql /\ w.qi = c.qi
      BY <1>1 DEF Species
    <3> QED BY <1>2, <1>3, <1>4, <2>1, <3>1
  <2>2. CASE s \notin {"qv", "ql", "qi"}
    <3>1. s \in Shelves \ {"qv", "ql", "qi"}
      BY <2>2 DEF Shelves
    <3> QED BY <1>1, <1>2, <1>3, <1>4, <2>2, <3>1
  <2> QED BY <2>1, <2>2
<1>6. Cell(v) = d
  BY <1>3, <1>4, <1>5 DEF Cells
<1>7. Book(v) = Tally(c)
  <2>1. "liq" \in Shelves \ {"qv", "ql", "qi"} /\ "sol" \in Shelves \ {"qv", "ql", "qi"}
    BY DEF Shelves
  <2>2. v["liq"] = w["liq"] /\ v["sol"] = w["sol"]
    BY <1>2, <2>1
  <2>3. w.ql = c.ql /\ w.qr = c.qr /\ w.qi = c.qi /\ w.qs = c.qs /\ w.qg = c.qg
    BY <1>1 DEF Species
  <2> QED BY <1>1, <2>2, <2>3 DEF Book, Tally, Balanced
<1> QED BY <1>6, <1>7 DEF w, v, d

-----------------------------------------------------------------------------
(* The processes one after the other.                                      *)

LEMMA KeepsOn ==
  ASSUME NEW w, NEW u, NEW v, KeepsPresent(w, u), KeepsPresent(u, v)
  PROVE  KeepsPresent(w, v)
  BY DEF KeepsPresent, KeepsBook, Keeps, KeepsSound

LEMMA KeepsBookOn ==
  ASSUME NEW w, NEW u, NEW v, KeepsBook(w, u), KeepsBook(u, v)
  PROVE  KeepsBook(w, v)
  BY DEF KeepsBook, Keeps

LEMMA KeepsWork ==
  ASSUME NEW w, NEW v, KeepsPresent(w, v)
  PROVE  v \in Work /\ KeepsBook(w, v)
  BY DEF KeepsPresent, KeepsBook, Keeps

LEMMA ColdProcessesKeep ==
  ASSUME NEW w \in Work, NEW v \in ColdProcesses(w)
  PROVE  KeepsPresent(w, v)
<1>1. PICK w3 \in Each(SnowToGraupel, Each(RainToSnowGraupel, IceToSnowGraupel(w))) :
        v \in GraupelAccretes(w3)
  BY DEF ColdProcesses, Each
<1>2. PICK w2 \in Each(RainToSnowGraupel, IceToSnowGraupel(w)) : w3 \in SnowToGraupel(w2)
  BY <1>1 DEF Each
<1>3. PICK w1 \in IceToSnowGraupel(w) : w2 \in RainToSnowGraupel(w1)
  BY <1>2 DEF Each
<1>4. KeepsPresent(w, w1)
  BY IceToSnowGraupelKeeps
<1>5. KeepsPresent(w, w2)
  BY <1>3, <1>4, KeepsOn, KeepsWork, RainToSnowGraupelKeeps
<1>6. KeepsPresent(w, w3)
  BY <1>2, <1>5, KeepsOn, KeepsWork, SnowToGraupelKeeps
<1> QED BY <1>1, <1>6, KeepsOn, KeepsWork, GraupelAccretesKeeps

(* Borrowing between the species of a cell. *)
LEMMA BorrowingKeeps ==
  ASSUME NEW w \in Work, NEW n \in Int
  PROVE  /\ KeepsBook(w, Move(w, "qr", "ql", n))
         /\ KeepsBook(w, Move(w, "ql", "qr", n))
         /\ KeepsBook(w, Move(w, "qi", "qs", n))
         /\ KeepsBook(w, Move(w, "qi", "qg", n))
         /\ KeepsBook(w, Move(w, "qs", "qg", n))
<1>1. KeepsBook(w, Move(w, "qr", "ql", n))
  <2> DEFINE v == Move(w, "qr", "ql", n)
  <2>1. Shift(w, "qr", "ql", n, 0, 0, v)
    BY MoveShifts DEF Species
  <2> HIDE DEF v
  <2>2. KeepsBook(w, v)
    BY <2>1, WorkIs DEF KeepsBook, Keeps, Balanced, Water, Flow, Shift
  <2> QED BY <2>2 DEF v
<1>2. KeepsBook(w, Move(w, "ql", "qr", n))
  <2> DEFINE v == Move(w, "ql", "qr", n)
  <2>1. Shift(w, "ql", "qr", n, 0, 0, v)
    BY MoveShifts DEF Species
  <2> HIDE DEF v
  <2>2. KeepsBook(w, v)
    BY <2>1, WorkIs DEF KeepsBook, Keeps, Balanced, Water, Flow, Shift
  <2> QED BY <2>2 DEF v
<1>3. KeepsBook(w, Move(w, "qi", "qs", n))
  <2> DEFINE v == Move(w, "qi", "qs", n)
  <2>1. Shift(w, "qi", "qs", n, 0, 0, v)
    BY MoveShifts DEF Species
  <2> HIDE DEF v
  <2>2. KeepsBook(w, v)
    BY <2>1, WorkIs DEF KeepsBook, Keeps, Balanced, Water, Flow, Shift
  <2> QED BY <2>2 DEF v
<1>4. KeepsBook(w, Move(w, "qi", "qg", n))
  <2> DEFINE v == Move(w, "qi", "qg", n)
  <2>1. Shift(w, "qi", "qg", n, 0, 0, v)
    BY MoveShifts DEF Species
  <2> HIDE DEF v
  <2>2. KeepsBook(w, v)
    BY <2>1, WorkIs DEF KeepsBook, Keeps, Balanced, Water, Flow, Shift
  <2> QED BY <2>2 DEF v
<1>5. KeepsBook(w, Move(w, "qs", "qg", n))
  <2> DEFINE v == Move(w, "qs", "qg", n)
  <2>1. Shift(w, "qs", "qg", n, 0, 0, v)
    BY MoveShifts DEF Species
  <2> HIDE DEF v
  <2>2. KeepsBook(w, v)
    BY <2>1, WorkIs DEF KeepsBook, Keeps, Balanced, Water, Flow, Shift
  <2> QED BY <2>2 DEF v
<1> QED BY <1>1, <1>2, <1>3, <1>4, <1>5

LEMMA IceWithSnowKeeps ==
  ASSUME NEW w \in Work, NEW v \in IceWithSnow(w)
  PROVE  KeepsBook(w, v)
<1>1. KeepsBook(w, Move(w, "qi", "qs", w.qi))
  BY BorrowingKeeps, WorkIs DEF Species
<1> QED BY <1>1, NothingKeeps, KeepsWork DEF IceWithSnow

LEMMA FixNegativeSnowKeeps ==
  ASSUME NEW w \in Work, NEW v \in FixNegativeSnow(w)
  PROVE  KeepsBook(w, v)
<1> DEFINE n == Lesser(-w.qg, Greater(w.qs, 0))
<1>1. w.qs \in Int /\ n \in Int
  BY WorkIs DEF Lesser, Greater
<1>2. v \in {w, Move(w, "qs", "qg", w.qs), Move(w, "qs", "qg", n)}
  BY DEF FixNegativeSnow
<1> HIDE DEF n
<1>3. KeepsBook(w, Move(w, "qs", "qg", w.qs)) /\ KeepsBook(w, Move(w, "qs", "qg", n))
  BY <1>1, BorrowingKeeps DEF Species
<1> QED BY <1>2, <1>3, NothingKeeps, KeepsWork

LEMMA FixNegativeCloudWaterKeeps ==
  ASSUME NEW w \in Work, NEW v \in FixNegativeCloudWater(w)
  PROVE  KeepsBook(w, v)
<1> DEFINE m == Lesser(-w.ql, Greater(w.qr, 0))
           n == Lesser(-w.qr, Greater(w.ql, 0))
<1>1. m \in Int /\ n \in Int
  BY WorkIs DEF Lesser, Greater
<1>2. v \in {w, Move(w, "qr", "ql", m), Move(w, "ql", "qr", n)}
  BY DEF FixNegativeCloudWater
<1> HIDE DEF m, n
<1>3. KeepsBook(w, Move(w, "qr", "ql", m)) /\ KeepsBook(w, Move(w, "ql", "qr", n))
  BY <1>1, BorrowingKeeps DEF Species
<1> QED BY <1>2, <1>3, NothingKeeps, KeepsWork

LEMMA GraupelWithIceKeeps ==
  ASSUME NEW w \in Work, NEW v \in GraupelWithIce(w)
  PROVE  KeepsBook(w, v)
<1> DEFINE n == Lesser(-w.qg, Greater(w.qi, 0))
<1>1. n \in Int
  BY WorkIs DEF Lesser, Greater
<1>2. v \in {w, Move(w, "qi", "qg", n)}
  BY DEF GraupelWithIce
<1> HIDE DEF n
<1>3. KeepsBook(w, Move(w, "qi", "qg", n))
  BY <1>1, BorrowingKeeps DEF Species
<1> QED BY <1>2, <1>3, NothingKeeps, KeepsWork

LEMMA RepairedKeeps ==
  ASSUME NEW w \in Work, NEW v \in Repaired(w)
  PROVE  KeepsBook(w, v)
<1>1. PICK w3 \in Each(FixNegativeSnow, Each(MeltCloudIce, IceWithSnow(w))) :
        v \in FixNegativeCloudWater(w3)
  BY DEF Repaired, Each
<1>2. PICK w2 \in Each(MeltCloudIce, IceWithSnow(w)) : w3 \in FixNegativeSnow(w2)
  BY <1>1 DEF Each
<1>3. PICK w1 \in IceWithSnow(w) : w2 \in MeltCloudIce(w1)
  BY <1>2 DEF Each
<1>4. KeepsBook(w, w1) /\ w1 \in Work
  BY IceWithSnowKeeps DEF KeepsBook, Keeps
<1>5. KeepsBook(w, w2) /\ w2 \in Work
  BY <1>3, <1>4, KeepsBookOn, KeepsWork, MeltCloudIceKeeps
<1>6. KeepsBook(w3, v) /\ KeepsBook(w2, w3)
  <2>1. KeepsBook(w2, w3)
    BY <1>2, <1>5, FixNegativeSnowKeeps
  <2>2. w3 \in Work
    BY <2>1 DEF KeepsBook, Keeps
  <2> QED BY <1>1, <2>1, <2>2, FixNegativeCloudWaterKeeps
<1> QED BY <1>5, <1>6, KeepsBookOn

LEMMA CondensedKeeps ==
  ASSUME NEW w \in Work, NEW v \in Condensed(w)
  PROVE  KeepsPresent(w, v)
<1>1. PICK w2 \in Each(VapourAdjusted, CompleteFreezing(w)) : v \in VapourAdjusted(w2)
  BY DEF Condensed, Each
<1>2. PICK w1 \in CompleteFreezing(w) : w2 \in VapourAdjusted(w1)
  BY <1>1 DEF Each
<1>3. KeepsPresent(w, w1)
  BY FreezingKeeps DEF CompleteFreezing
<1>4. KeepsPresent(w, w2)
  BY <1>2, <1>3, KeepsOn, KeepsWork, VapourAdjustedKeeps
<1> QED BY <1>1, <1>4, KeepsOn, KeepsWork, VapourAdjustedKeeps

LEMMA FrozenAndMeltedKeeps ==
  ASSUME NEW w \in Work, NEW v \in FrozenAndMelted(w)
  PROVE  KeepsPresent(w, v)
<1>1. PICK w3 \in Each(MakeGraupel, Each(HeterogeneousFreezing, HomogenousFreezing(w))) :
        v \in MeltSnow(w3)
  BY DEF FrozenAndMelted, Each
<1>2. PICK w2 \in Each(HeterogeneousFreezing, HomogenousFreezing(w)) : w3 \in MakeGraupel(w2)
  BY <1>1 DEF Each
<1>3. PICK w1 \in HomogenousFreezing(w) : w2 \in HeterogeneousFreezing(w1)
  BY <1>2 DEF Each
<1>4. KeepsPresent(w, w1)
  BY FreezingKeeps DEF HomogenousFreezing
<1>5. KeepsPresent(w, w2)
  <2>1. w1 \in Work /\ w2 \in Freezing(w1, "ql", "qi")
    BY <1>3, <1>4, KeepsWork DEF HeterogeneousFreezing
  <2> QED BY <1>4, <2>1, KeepsOn, FreezingKeeps
<1>6. KeepsPresent(w, w3)
  <2>1. w2 \in Work /\ w3 \in Freezing(w2, "qr", "qg")
    BY <1>2, <1>5, KeepsWork DEF MakeGraupel
  <2> QED BY <1>5, <2>1, KeepsOn, FreezingKeeps
<1>7. w3 \in Work /\ v \in Melting(w3, "qs")
  BY <1>1, <1>6, KeepsWork DEF MeltSnow
<1> QED BY <1>6, <1>7, KeepsOn, MeltingKeeps

LEMMA SatAdjustKeeps ==
  ASSUME NEW w \in Work, NEW v \in SatAdjust(w)
  PROVE  KeepsBook(w, v)
<1>1. PICK w6 \in Each(GraupelWithIce, Each(Sublimation, Each(Autoconversion,
                    Each(FrozenAndMelted, Each(Condensed, Repaired(w)))))) : v \in IceToSnow(w6)
  BY DEF SatAdjust, Each
<1>2. PICK w5 \in Each(Sublimation, Each(Autoconversion,
                    Each(FrozenAndMelted, Each(Condensed, Repaired(w))))) : w6 \in GraupelWithIce(w5)
  BY <1>1 DEF Each
<1>3. PICK w4 \in Each(Autoconversion, Each(FrozenAndMelted, Each(Condensed, Repaired(w)))) :
        w5 \in Sublimation(w4)
  BY <1>2 DEF Each
<1>4. PICK w3 \in Each(FrozenAndMelted, Each(Condensed, Repaired(w))) : w4 \in Autoconversion(w3)
  BY <1>3 DEF Each
<1>5. PICK w2 \in Each(Condensed, Repaired(w)) : w3 \in FrozenAndMelted(w2)
  BY <1>4 DEF Each
<1>6. PICK w1 \in Repaired(w) : w2 \in Condensed(w1)
  BY <1>5 DEF Each
<1>7. KeepsBook(w, w1) /\ w1 \in Work
  BY RepairedKeeps DEF KeepsBook, Keeps
<1>8. KeepsPresent(w1, w2) /\ w2 \in Work
  BY <1>6, <1>7, CondensedKeeps, KeepsWork
<1>9. KeepsPresent(w2, w3) /\ w3 \in Work
  BY <1>5, <1>8, FrozenAndMeltedKeeps, KeepsWork
<1>10. KeepsPresent(w3, w4) /\ w4 \in Work
  BY <1>4, <1>9, AutoconversionKeeps, KeepsWork
<1>11. KeepsPresent(w4, w5) /\ w5 \in Work
  BY <1>3, <1>10, SublimationKeeps, KeepsWork
<1>12. KeepsBook(w5, w6) /\ w6 \in Work
  BY <1>2, <1>11, GraupelWithIceKeeps DEF KeepsBook, Keeps
<1>13. KeepsPresent(w6, v)
  BY <1>1, <1>12, IceToSnowKeeps
<1>14. KeepsPresent(w1, w5)
  BY <1>8, <1>9, <1>10, <1>11, KeepsOn
<1> QED BY <1>7, <1>12, <1>13, <1>14, KeepsWork, KeepsBookOn

(* The microphysics. *)
KeepsWater(w, v, beyond) ==
  Keeps(w, v) /\ (Sound(w, beyond) => Sound(v, beyond)) /\ (Firm(w) => Firm(v))

LEMMA RevapRaccKeeps ==
  ASSUME NEW w \in Work, NEW v \in RevapRacc(w), NEW beyond \in Nat
  PROVE  KeepsWater(w, v, beyond)
<1>1. CASE ~ (w.qr > 0)
  BY <1>1, NothingKeeps DEF RevapRacc, KeepsWater, KeepsPresent, KeepsBook, KeepsSound
<1>2. CASE w.qr > 0 /\ \E e \in 0..w.qr : v = Move(w, "qr", "qv", e)
  <2>1. PICK e \in 0..w.qr : v = Move(w, "qr", "qv", e)
    BY <1>2
  <2>2. e \in Nat /\ e <= w.qr
    BY WorkIs
  <2>3. Shift(w, "qr", "qv", e, 0, 0, v)
    BY <2>1, <2>2, MoveShifts DEF Species
  <2> QED BY <2>2, <2>3, WorkIs DEF KeepsWater, Keeps, Sound, Firm, Water, Flow, Shift
<1>3. CASE w.qr > 0 /\ \E a \in PartOf(w.ql) : v = Move(w, "ql", "qr", a)
  <2>1. PICK a \in PartOf(w.ql) : v = Move(w, "ql", "qr", a)
    BY <1>3
  <2>2. a \in Nat /\ (a = 0 \/ a <= w.ql)
    BY PartsAre, WorkIs
  <2>3. Shift(w, "ql", "qr", a, 0, 0, v)
    BY <2>1, <2>2, MoveShifts DEF Species
  <2> QED BY <2>2, <2>3, WorkIs DEF KeepsWater, Keeps, Sound, Firm, Water, Flow, Shift
<1> QED BY <1>1, <1>2, <1>3 DEF RevapRacc

LEMMA RevapAutoconvKeeps ==
  ASSUME NEW w \in Work, NEW v \in RevapAutoconv(w), at.level \in Levels
  PROVE  KeepsWater(w, v, Overdraw[at.level])
<1> DEFINE beyond == Overdraw[at.level]
<1>0. beyond \in Nat
  BY MoistAssumption
<1>1. PICK w1 \in RevapRacc(w) : v \in AutoconvHere(w1)
  BY DEF RevapAutoconv, Each
<1>2. v \in AutoconvNoSubgridVar(w1) \/ v \in AutoconvSubgridVar(w1, beyond)
  BY <1>1 DEF AutoconvHere, Autoconv
<1> HIDE DEF beyond
<1>3. KeepsWater(w, w1, beyond) /\ w1 \in Work
  BY <1>0, RevapRaccKeeps DEF KeepsWater, Keeps
<1>4. KeepsWater(w1, v, beyond)
  <2>1. CASE v \in AutoconvNoSubgridVar(w1)
    <3>1. KeepsPresent(w1, v)
      BY <1>3, <2>1, AutoconvNoSubgridVarKeeps
    <3> QED BY <1>0, <3>1 DEF KeepsWater, KeepsPresent, KeepsBook, KeepsSound
  <2>2. CASE v \in AutoconvSubgridVar(w1, beyond)
    BY <1>0, <1>3, <2>2, AutoconvSubgridVarKeeps DEF KeepsWater
  <2> QED BY <1>2, <2>1, <2>2
<1>5. KeepsWater(w, v, beyond)
  BY <1>3, <1>4 DEF KeepsWater, Keeps
<1> QED BY <1>5 DEF beyond

LEMMA WarmProcessesKeep ==
  ASSUME NEW w \in Work, NEW v \in WarmProcesses(w)
  PROVE  KeepsPresent(w, v)
<1>1. PICK w1 \in Melting(w, "qs") : v \in GraupelMelts(w1)
  BY DEF WarmProcesses, Each, SnowMelts
<1>2. KeepsPresent(w, w1)
  BY MeltingKeeps
<1> QED BY <1>1, <1>2, KeepsOn, KeepsWork, GraupelMeltsKeeps

LEMMA IcePhaseKeeps ==
  ASSUME NEW w \in Work, NEW v \in IcePhase(w)
  PROVE  KeepsPresent(w, v)
<1>1. CASE v \in PimltPihom(w)
  BY <1>1, PimltPihomKeeps
<1>2. CASE v \in Each(WarmProcesses, PimltPihom(w))
  <2>1. PICK w1 \in PimltPihom(w) : v \in WarmProcesses(w1)
    BY <1>2 DEF Each
  <2> QED BY <2>1, KeepsOn, KeepsWork, PimltPihomKeeps, WarmProcessesKeep
<1>3. CASE v \in Each(ColdProcesses, PimltPihom(w))
  <2>1. PICK w1 \in PimltPihom(w) : v \in ColdProcesses(w1)
    BY <1>3 DEF Each
  <2> QED BY <2>1, KeepsOn, KeepsWork, PimltPihomKeeps, ColdProcessesKeep
<1> QED BY <1>1, <1>2, <1>3 DEF IcePhase

LEMMA WithIceAndSnowKeeps ==
  ASSUME NEW w \in Work, NEW v \in WithIceAndSnow(w)
  PROVE  KeepsPresent(w, v)
<1>1. PICK w4 \in Each(IceDeposits, Each(BiggMechanism, Each(FreezeCloudWater, VapourCloudWater(w)))) :
        v \in SnowSublimates(w4)
  BY DEF WithIceAndSnow, Each
<1>2. PICK w3 \in Each(BiggMechanism, Each(FreezeCloudWater, VapourCloudWater(w))) :
        w4 \in IceDeposits(w3)
  BY <1>1 DEF Each
<1>3. PICK w2 \in Each(FreezeCloudWater, VapourCloudWater(w)) : w3 \in BiggMechanism(w2)
  BY <1>2 DEF Each
<1>4. PICK w1 \in VapourCloudWater(w) : w2 \in FreezeCloudWater(w1)
  BY <1>3 DEF Each
<1>5. KeepsPresent(w, w1) /\ w1 \in Work
  BY VapourCloudWaterKeeps, KeepsWork
<1>6. KeepsPresent(w1, w2) /\ w2 \in Work
  BY <1>4, <1>5, FreezingKeeps, KeepsWork DEF FreezeCloudWater
<1>7. KeepsPresent(w2, w3) /\ w3 \in Work
  BY <1>3, <1>6, FreezingKeeps, KeepsWork DEF BiggMechanism
<1>8. KeepsPresent(w3, w4) /\ w4 \in Work
  BY <1>2, <1>7, IceDepositsKeeps, KeepsWork
<1>9. KeepsPresent(w4, v)
  BY <1>1, <1>8, SnowSublimatesKeeps
<1> QED BY <1>5, <1>6, <1>7, <1>8, <1>9, KeepsOn

LEMMA VapourExchangeKeeps ==
  ASSUME NEW w \in Work, NEW beyond \in Nat, NEW v \in VapourExchange(w, beyond)
  PROVE  KeepsButGraupel(w, v)
<1>1. PICK w2 \in UNION {GraupelSublimates(u, beyond) : u \in WithIceAndSnow(w)} : v \in RainEvaporates(w2)
  BY DEF VapourExchange, Each
<1>2. PICK w1 \in WithIceAndSnow(w) : w2 \in GraupelSublimates(w1, beyond)
  BY <1>1
<1>3. KeepsPresent(w, w1) /\ w1 \in Work
  BY WithIceAndSnowKeeps, KeepsWork
<1>4. KeepsButGraupel(w1, w2) /\ w2 \in Work
  BY <1>2, <1>3, GraupelSublimatesKeeps DEF KeepsButGraupel, KeepsBook, Keeps
<1>5. KeepsPresent(w2, v)
  BY <1>1, <1>4, RainEvaporatesKeeps
<1> QED BY <1>3, <1>4, <1>5 DEF KeepsButGraupel, KeepsPresent, KeepsBook, Keeps, KeepsSound

(* All but the evaporation of every cloud keep the books. *)
LEMMA SubgridKeeps ==
  ASSUME NEW w \in Work, NEW beyond \in Nat, NEW v \in SubgridZProcInDeepCold(w, beyond)
  PROVE  /\ Keeps(w, v) /\ KeepsSound(w, v)
         /\ KeepsBook(w, v) \/ v = CloudFree(w)
<1>1. CASE v \in EvaporateClouds(w)
  <2>1. v = CloudFree(w)
    BY <1>1 DEF EvaporateClouds
  <2> QED BY <2>1, CloudFreeKeeps
<1>2. CASE v \in VapourExchange(w, beyond)
  BY <1>2, VapourExchangeKeeps DEF KeepsButGraupel, KeepsBook
<1>3. CASE v = w \/ v \in DepositVapour(w)
  BY <1>3, NothingKeeps, DepositVapourKeeps DEF KeepsPresent, KeepsBook
<1> QED BY <1>1, <1>2, <1>3 DEF SubgridZProcInDeepCold, SubgridZProc

-----------------------------------------------------------------------------
(* Repairs within a cell.  They act on a cell and on a cell at work alike: *)
(* D is Species, or Shelves.                                               *)

LEMMA EntryThree ==
  ASSUME NEW D, NEW w \in [D -> Int], NEW a \in D, NEW b \in D, NEW c \in D, a # b, a # c, b # c,
         NEW i \in Int, NEW s \in Int, NEW g \in Int
  PROVE  LET v == [w EXCEPT ![a] = i, ![b] = s, ![c] = w[c] + g]
         IN  /\ v \in [D -> Int]
             /\ v[a] = i /\ v[b] = s /\ v[c] = w[c] + g
             /\ \A x \in D \ {a, b, c} : v[x] = w[x]
  OBVIOUS

LEMMA IceEntries ==
  ASSUME NEW D, NEW w \in [D -> Int], "qi" \in D, "qs" \in D, "qg" \in D,
         NEW i \in Int, NEW s \in Int, NEW g \in Int
  PROVE  LET v == [w EXCEPT !.qi = i, !.qs = s, !.qg = @ + g]
         IN  /\ v \in [D -> Int]
             /\ v.qi = i /\ v.qs = s /\ v.qg = w.qg + g
             /\ \A x \in D \ {"qi", "qs", "qg"} : v[x] = w[x]
<1> DEFINE v == [w EXCEPT !["qi"] = i, !["qs"] = s, !["qg"] = w["qg"] + g]
<1>1. /\ v \in [D -> Int]
      /\ v["qi"] = i /\ v["qs"] = s /\ v["qg"] = w["qg"] + g
      /\ \A x \in D \ {"qi", "qs", "qg"} : v[x] = w[x]
  BY EntryThree
<1> QED BY <1>1

LEMMA IcePairEntries ==
  ASSUME NEW D, NEW w \in [D -> Int], NEW a \in D, NEW b \in D, a # b, NEW s \in Int
  PROVE  LET v == [w EXCEPT ![a] = 0, ![b] = s]
         IN  /\ v \in [D -> Int]
             /\ v[a] = 0 /\ v[b] = s
             /\ \A x \in D \ {a, b} : v[x] = w[x]
  OBVIOUS


AmountsIn(D, w) ==
  /\ w \in [D -> Int]
  /\ w.qv \in Int /\ w.ql \in Int /\ w.qr \in Int /\ w.qi \in Int /\ w.qs \in Int /\ w.qg \in Int

LEMMA AmountsAre ==
  ASSUME NEW D, Species \subseteq D, NEW w \in [D -> Int]
  PROVE  AmountsIn(D, w) /\ \A s \in Species : w[s] \in Int
  BY DEF AmountsIn, Species

Carries(D, w, from, to, n, v) ==
  /\ v \in [D -> Int]
  /\ v[from] = w[from] - n /\ v[to] = w[to] + n
  /\ \A s \in Species \ {from, to} : v[s] = w[s]
  /\ Water(v) = Water(w)

Flows(from, to, n) ==
  /\ Flow("qv", from, to, n) \in Int /\ Flow("ql", from, to, n) \in Int
  /\ Flow("qr", from, to, n) \in Int /\ Flow("qi", from, to, n) \in Int
  /\ Flow("qs", from, to, n) \in Int /\ Flow("qg", from, to, n) \in Int
  /\ Flow("qv", from, to, n) + Flow("ql", from, to, n) + Flow("qr", from, to, n)
       + Flow("qi", from, to, n) + Flow("qs", from, to, n) + Flow("qg", from, to, n) = 0

LEMMA FlowsBalance ==
  ASSUME NEW from \in Species, NEW to \in Species, from # to, NEW n \in Int
  PROVE  Flows(from, to, n)
  BY DEF Flows, Flow, Species

LEMMA MoveCarries ==
  ASSUME NEW D, Species \subseteq D, NEW w \in [D -> Int],
         NEW from \in Species, NEW to \in Species, from # to, NEW n \in Int
  PROVE  Carries(D, w, from, to, n, Move(w, from, to, n))
<1> DEFINE v == [w EXCEPT ![from] = w[from] + (-n), ![to] = w[to] + n]
<1>1. /\ v \in [D -> Int]
      /\ v[from] = w[from] + (-n) /\ v[to] = w[to] + n
      /\ \A s \in D \ {from, to} : v[s] = w[s]
  BY Entry
<1>2. v = Move(w, from, to, n)
  <2>1. w[from] + (-n) = w[from] - n
    BY AmountsAre
  <2> QED BY <2>1 DEF Move
<1> HIDE DEF v
<1>3. ASSUME NEW s \in Species PROVE v[s] = w[s] + Flow(s, from, to, n)
  <2>1. w[s] \in Int /\ s \in D
    BY AmountsAre
  <2> QED BY <1>1, <2>1 DEF Flow
<1>4. /\ v.qv = w.qv + Flow("qv", from, to, n) /\ v.ql = w.ql + Flow("ql", from, to, n)
      /\ v.qr = w.qr + Flow("qr", from, to, n) /\ v.qi = w.qi + Flow("qi", from, to, n)
      /\ v.qs = w.qs + Flow("qs", from, to, n) /\ v.qg = w.qg + Flow("qg", from, to, n)
  BY <1>3 DEF Species
<1>5. Water(v) = Water(w)
  <2>1. AmountsIn(D, w)
    BY AmountsAre
  <2>2. Flows(from, to, n)
    BY FlowsBalance
  <2> QED BY <1>4, <2>1, <2>2 DEF Water, AmountsIn, Flows
<1>6. v[from] = w[from] - n
  BY <1>1, AmountsAre
<1>7. Carries(D, w, from, to, n, v)
  BY <1>1, <1>5, <1>6 DEF Carries
<1> QED BY <1>2, <1>7

SameWater(D, w, v) == v \in [D -> Int] /\ Water(v) = Water(w)

LEMMA IceSharesWithSnowKeeps ==
  ASSUME NEW D, Species \subseteq D, NEW w \in [D -> Int]
  PROVE  SameWater(D, w, IceSharesWithSnow(w))
<1> DEFINE sum == w.qi + w.qs
           u == [w EXCEPT !.qi = 0, !.qs = 0, !.qg = @ + sum]
           x == [w EXCEPT !.qi = 0, !.qs = sum]
           y == [w EXCEPT !.qs = 0, !.qi = sum]
<1>1. AmountsIn(D, w) /\ "qi" \in D /\ "qs" \in D /\ "qg" \in D
  BY AmountsAre DEF Species
<1>2. sum \in Int /\ 0 \in Int
  BY <1>1 DEF AmountsIn
<1>3. IceSharesWithSnow(w) \in {u, x, y, w}
  BY DEF IceSharesWithSnow
<1>4. SameWater(D, w, u)
  <2> HIDE DEF sum
  <2>1. /\ u \in [D -> Int]
        /\ u.qi = 0 /\ u.qs = 0 /\ u.qg = w.qg + sum
        /\ \A s \in D \ {"qi", "qs", "qg"} : u[s] = w[s]
    BY <1>1, <1>2, IceEntries
  <2> HIDE DEF u
  <2>2. u.qv = w.qv /\ u.ql = w.ql /\ u.qr = w.qr
    BY <2>1 DEF Species
  <2> QED BY <1>1, <2>1, <2>2 DEF SameWater, Water, AmountsIn, sum
<1>5. SameWater(D, w, x)
  <2> HIDE DEF sum
  <2>1. /\ x \in [D -> Int]
        /\ x["qi"] = 0 /\ x["qs"] = sum
        /\ \A s \in D \ {"qi", "qs"} : x[s] = w[s]
    BY <1>1, <1>2, IcePairEntries
  <2> HIDE DEF x
  <2>2. x.qv = w.qv /\ x.ql = w.ql /\ x.qr = w.qr /\ x.qg = w.qg
    BY <2>1 DEF Species
  <2> QED BY <1>1, <2>1, <2>2 DEF SameWater, Water, AmountsIn, sum
<1>6. SameWater(D, w, y)
  <2> HIDE DEF sum
  <2>1. /\ y \in [D -> Int]
        /\ y["qs"] = 0 /\ y["qi"] = sum
        /\ \A s \in D \ {"qi", "qs"} : y[s] = w[s]
    BY <1>1, <1>2, IcePairEntries
  <2> HIDE DEF y
  <2>2. y.qv = w.qv /\ y.ql = w.ql /\ y.qr = w.qr /\ y.qg = w.qg
    BY <2>1 DEF Species
  <2> QED BY <1>1, <2>1, <2>2 DEF SameWater, Water, AmountsIn, sum
<1> HIDE DEF u, x, y
<1> QED BY <1>3, <1>4, <1>5, <1>6 DEF SameWater

LEMMA GraupelBorrowsKeeps ==
  ASSUME NEW D, Species \subseteq D, NEW w \in [D -> Int], NEW from \in Species \ {"qg"},
         NEW most \in Int
  PROVE  SameWater(D, w, GraupelBorrows(w, from, most))
<1> DEFINE n == Lesser(most, -w.qg)
<1>1. AmountsIn(D, w) /\ "qg" \in Species
  BY AmountsAre DEF Species
<1>2. n \in Int
  BY <1>1 DEF AmountsIn, Lesser
<1>3. GraupelBorrows(w, from, most) \in {w, Move(w, from, "qg", n)}
  BY DEF GraupelBorrows
<1> HIDE DEF n
<1>4. Carries(D, w, from, "qg", n, Move(w, from, "qg", n))
  BY <1>1, <1>2, MoveCarries
<1> QED BY <1>3, <1>4 DEF SameWater, Carries

LEMMA FixNegativeIceKeeps ==
  ASSUME NEW D, Species \subseteq D, NEW w \in [D -> Int]
  PROVE  SameWater(D, w, FixNegativeIce(w))
<1> DEFINE a == IceSharesWithSnow(w)
           b == FromSnow(a)
           c == FromIce(b)
           d == FromRain(c)
           e == FromCloudWater(d)
           f == FromVapour(e)
<1>0. FixNegativeIce(w) = f
  BY DEF FixNegativeIce
<1>1. SameWater(D, w, a)
  BY IceSharesWithSnowKeeps
<1>2. ASSUME NEW x \in [D -> Int]
      PROVE  /\ SameWater(D, x, FromSnow(x)) /\ SameWater(D, x, FromIce(x))
             /\ SameWater(D, x, FromRain(x)) /\ SameWater(D, x, FromCloudWater(x))
             /\ SameWater(D, x, FromVapour(x))
  <2>1. AmountsIn(D, x) /\ SameWater(D, x, x)
    BY AmountsAre DEF SameWater
  <2>2. /\ SameWater(D, x, GraupelBorrows(x, "qs", x.qs))
        /\ SameWater(D, x, GraupelBorrows(x, "qi", x.qi))
        /\ SameWater(D, x, GraupelBorrows(x, "ql", x.qr))
        /\ SameWater(D, x, GraupelBorrows(x, "ql", x.ql))
        /\ SameWater(D, x, GraupelBorrows(x, "qv", x.qv))
    <3>1. {"qs", "qi", "ql", "qv"} \subseteq Species \ {"qg"}
      BY DEF Species
    <3>2. ASSUME NEW s \in {"qs", "qi", "ql", "qv"}, NEW n \in Int
          PROVE  SameWater(D, x, GraupelBorrows(x, s, n))
      BY <3>1, GraupelBorrowsKeeps
    <3> QED BY <2>1, <3>2 DEF AmountsIn
  <2> QED BY <2>1, <2>2 DEF FromSnow, FromIce, FromRain, FromCloudWater, FromVapour
<1> HIDE DEF a, b, c, d, e, f
<1>3. SameWater(D, w, b)
  BY <1>1, <1>2 DEF b, SameWater
<1>4. SameWater(D, w, c)
  BY <1>3, <1>2 DEF c, SameWater
<1>5. SameWater(D, w, d)
  BY <1>4, <1>2 DEF d, SameWater
<1>6. SameWater(D, w, e)
  BY <1>5, <1>2 DEF e, SameWater
<1>7. SameWater(D, w, f)
  BY <1>6, <1>2 DEF f, SameWater
<1> QED BY <1>0, <1>7

LEMMA FixNegativeLiqKeeps ==
  ASSUME NEW D, Species \subseteq D, NEW w \in [D -> Int]
  PROVE  SameWater(D, w, FixNegativeLiq(w))
<1> DEFINE sum == w.ql + w.qr
           graupel == Lesser(Greater(w.qg, 0), -sum)
           short == sum + graupel
           ice == IF w.qr < 0 THEN Lesser(w.qi + w.qs, -short) ELSE 0
           snow == Lesser(ice, w.qs)
           r == short + ice
           paid == [w EXCEPT !.ql = 0, !.qr = r, !.qg = @ - graupel,
                             !.qs = @ - snow, !.qi = @ + snow - ice]
           x == [w EXCEPT !.qr = 0, !.ql = sum]
           y == [w EXCEPT !.ql = 0, !.qr = sum]
           n == Lesser(paid.qv, -paid.qr)
<1>1. AmountsIn(D, w) /\ "ql" \in D /\ "qr" \in D /\ "qi" \in D /\ "qs" \in D /\ "qg" \in D
      /\ "qv" \in Species /\ "qr" \in Species
  BY AmountsAre DEF Species
<1>2. sum \in Int /\ graupel \in Int /\ short \in Int /\ ice \in Int /\ snow \in Int /\ r \in Int
  <2>0. \A i, j \in Int : Lesser(i, j) \in Int /\ Greater(i, j) \in Int
    BY DEF Lesser, Greater
  <2>1. sum \in Int /\ Greater(w.qg, 0) \in Int
    BY <1>1 DEF AmountsIn, Greater
  <2> HIDE DEF sum
  <2>2. graupel \in Int
    BY <2>0, <2>1
  <2> HIDE DEF graupel
  <2>3. short \in Int
    BY <2>1, <2>2
  <2> HIDE DEF short
  <2>4. ice \in Int
    BY <1>1, <2>0, <2>3 DEF AmountsIn
  <2> HIDE DEF ice
  <2>5. snow \in Int /\ r \in Int
    BY <1>1, <2>0, <2>3, <2>4 DEF AmountsIn
  <2> QED BY <2>1, <2>2, <2>3, <2>4, <2>5
<1>3. FixNegativeLiq(w) \in {w, x, y, paid, Move(paid, "qv", "qr", n)}
  BY DEF FixNegativeLiq
<1>4. SameWater(D, w, paid)
  <2> HIDE DEF graupel, snow, ice, sum, r
  <2>1. /\ paid \in [D -> Int]
        /\ paid.ql = 0 /\ paid.qr = r /\ paid.qg = w.qg - graupel /\ paid.qs = w.qs - snow
        /\ paid.qi = w.qi + snow - ice
        /\ \A s \in D \ {"ql", "qr", "qi", "qs", "qg"} : paid[s] = w[s]
    <3> DEFINE g2 == w.qg - graupel
               s2 == w.qs - snow
               i2 == w.qi + snow - ice
               v == [w EXCEPT !["ql"] = 0, !["qr"] = r, !["qg"] = g2, !["qs"] = s2, !["qi"] = i2]
    <3>1. g2 \in Int /\ s2 \in Int /\ i2 \in Int
      BY <1>1, <1>2 DEF AmountsIn
    <3> HIDE DEF g2, s2, i2
    <3>2. /\ v \in [D -> Int]
          /\ v["ql"] = 0 /\ v["qr"] = r /\ v["qg"] = g2 /\ v["qs"] = s2 /\ v["qi"] = i2
          /\ \A s \in D \ {"ql", "qr", "qi", "qs", "qg"} : v[s] = w[s]
      BY <1>1, <1>2, <3>1
    <3> QED BY <3>2 DEF g2, s2, i2
  <2> HIDE DEF paid
  <2>2. paid.qv = w.qv
    BY <2>1 DEF Species
  <2>3. r = w.ql + w.qr + graupel + ice
    BY <1>1, <1>2 DEF r, sum, AmountsIn
  <2> QED BY <1>1, <1>2, <2>1, <2>2, <2>3 DEF SameWater, Water, AmountsIn
<1>5. SameWater(D, w, x)
  <2> HIDE DEF sum
  <2>1. /\ x \in [D -> Int]
        /\ x["qr"] = 0 /\ x["ql"] = sum
        /\ \A s \in D \ {"qr", "ql"} : x[s] = w[s]
    BY <1>1, <1>2, IcePairEntries
  <2> HIDE DEF x
  <2>2. x.qv = w.qv /\ x.qi = w.qi /\ x.qs = w.qs /\ x.qg = w.qg
    BY <2>1 DEF Species
  <2> QED BY <1>1, <2>1, <2>2 DEF SameWater, Water, AmountsIn, sum
<1>6. SameWater(D, w, y)
  <2> HIDE DEF sum
  <2>1. /\ y \in [D -> Int]
        /\ y["ql"] = 0 /\ y["qr"] = sum
        /\ \A s \in D \ {"qr", "ql"} : y[s] = w[s]
    BY <1>1, <1>2, IcePairEntries
  <2> HIDE DEF y
  <2>2. y.qv = w.qv /\ y.qi = w.qi /\ y.qs = w.qs /\ y.qg = w.qg
    BY <2>1 DEF Species
  <2> QED BY <1>1, <2>1, <2>2 DEF SameWater, Water, AmountsIn, sum
<1> HIDE DEF sum, graupel, short, ice, snow, r, paid, x, y
<1>7. SameWater(D, w, Move(paid, "qv", "qr", n))
  <2>1. paid \in [D -> Int]
    BY <1>4 DEF SameWater
  <2>2. AmountsIn(D, paid)
    BY <2>1, AmountsAre
  <2>3. n \in Int
    BY <2>2 DEF AmountsIn, Lesser
  <2> HIDE DEF n
  <2>4. Carries(D, paid, "qv", "qr", n, Move(paid, "qv", "qr", n))
    BY <1>1, <2>1, <2>3, MoveCarries
  <2> QED BY <1>4, <2>4 DEF SameWater, Carries
<1> HIDE DEF n
<1> QED BY <1>3, <1>4, <1>5, <1>6, <1>7 DEF SameWater

LEMMA FixNegWaterKeeps ==
  ASSUME NEW w \in Work
  PROVE  Keeps(w, FixNegWater(w))
<1>1. Species \subseteq Shelves /\ w \in [Shelves -> Int]
  BY DEF Shelves, Work
<1>2. SameWater(Shelves, w, FixNegativeIce(w))
  BY <1>1, FixNegativeIceKeeps
<1>3. SameWater(Shelves, FixNegativeIce(w), FixNegativeLiq(FixNegativeIce(w)))
  BY <1>1, <1>2, FixNegativeLiqKeeps DEF SameWater
<1> QED BY <1>2, <1>3 DEF FixNegWater, Keeps, SameWater, Work

(* Each species hands its debt on. *)
HandedOn(c, from, to, v) ==
  /\ v \in Cells /\ Water(v) = Water(c)
  /\ v[from] >= 0
  /\ \A s \in Species \ {from, to} : v[s] = c[s]

LEMMA HandOnIs ==
  ASSUME NEW c \in Cells, NEW from \in Species, NEW to \in Species, from # to
  PROVE  HandedOn(c, from, to, HandOn(c, from, to))
<1> DEFINE n == c[from]
           v == Move(c, from, to, n)
<1>1. n \in Int
  BY DEF Cells
<1>2. Carries(Species, c, from, to, n, v)
  <2> HIDE DEF n
  <2> QED BY <1>1, MoveCarries DEF Cells
<1> HIDE DEF v
<1>3. HandedOn(c, from, to, IF n < 0 THEN v ELSE c)
  BY <1>1, <1>2 DEF HandedOn, Carries, Cells
<1> QED BY <1>3 DEF HandOn, v

LEMMA FixNegativeSpeciesIs ==
  ASSUME NEW c \in Cells
  PROVE  /\ FixNegativeSpecies(c) \in Cells
         /\ Water(FixNegativeSpecies(c)) = Water(c)
         /\ Present(FixNegativeSpecies(c))
<1> DEFINE v1 == HandOn(c, "qi", "qs")
           v2 == HandOn(v1, "qs", "qg")
           v3 == HandOn(v2, "qg", "qr")
           v4 == HandOn(v3, "qr", "ql")
           v5 == HandOn(v4, "ql", "qv")
<1>0. FixNegativeSpecies(c) = v5
  BY DEF FixNegativeSpecies
<1>s. /\ "qv" \in Species /\ "ql" \in Species /\ "qr" \in Species
      /\ "qi" \in Species /\ "qs" \in Species /\ "qg" \in Species
  BY DEF Species
<1> HIDE DEF v1, v2, v3, v4, v5
<1>1. HandedOn(c, "qi", "qs", v1)
  BY <1>s, HandOnIs DEF v1
<1>2. HandedOn(v1, "qs", "qg", v2)
  BY <1>s, <1>1, HandOnIs DEF v2, HandedOn
<1>3. HandedOn(v2, "qg", "qr", v3)
  BY <1>s, <1>2, HandOnIs DEF v3, HandedOn
<1>4. HandedOn(v3, "qr", "ql", v4)
  BY <1>s, <1>3, HandOnIs DEF v4, HandedOn
<1>5. HandedOn(v4, "ql", "qv", v5)
  BY <1>s, <1>4, HandOnIs DEF v5, HandedOn
<1>6. v5.qi >= 0
  BY <1>s, <1>1, <1>2, <1>3, <1>4, <1>5 DEF HandedOn
<1>7. v5.qs >= 0
  BY <1>s, <1>2, <1>3, <1>4, <1>5 DEF HandedOn
<1>8. v5.qg >= 0
  BY <1>s, <1>3, <1>4, <1>5 DEF HandedOn
<1>9. v5.qr >= 0 /\ v5.ql >= 0
  BY <1>s, <1>4, <1>5 DEF HandedOn
<1> QED BY <1>0, <1>1, <1>2, <1>3, <1>4, <1>5, <1>6, <1>7, <1>8, <1>9 DEF HandedOn, Present

-----------------------------------------------------------------------------
(* Repairs along the column.                                               *)

Amounts == [Levels -> Int]

LEMMA LevelsAre ==
  /\ N \in Nat /\ N \in Int /\ 0 \in Int /\ 1 \in Int /\ N >= 3
  /\ Levels = 1..N
  /\ 0 \in 0..N /\ N \in 0..N
  /\ 1 \in Levels /\ 2 \in Levels /\ N \in Levels /\ N - 1 \in Levels
  BY ColumnAssumption DEF Levels

(* Two sums of the same amounts agree. *)
LEMMA SumsAgree ==
  ASSUME NEW a, NEW f, IsSum(f, a), NEW g, IsSum(g, a)
  PROVE  \A k \in 0..N : f[k] = g[k]
<1> DEFINE e == [k \in 0..N |-> 0]
<1>1. e \in [0..N -> Int]
  OBVIOUS
<1>2. \A k \in Levels : a[k] = a[k] + (e[k] - e[k - 1])
  <2>1. \A k \in Levels : k \in 0..N /\ k - 1 \in 0..N /\ a[k] \in Int
    BY LevelsAre DEF IsSum
  <2> QED BY <2>1
<1>3. \A k \in 0..N : e[k] = 0 /\ e[0] = 0
  BY LevelsAre
<1> HIDE DEF e
<1>4. Apart(f, e, g)
  BY <1>1, <1>2, Telescopes DEF Passes
<1> QED BY <1>3, <1>4 DEF IsSum, Apart

LEMMA TotalIsInt ==
  ASSUME NEW q \in Amounts
  PROVE  Total(q) \in Int
<1>1. PICK f : IsSum(f, q) /\ Total(q) = f[N]
  BY TotalIs DEF Amounts
<1> QED BY <1>1, LevelsAre DEF IsSum

LEMMA TotalsTelescope ==
  ASSUME NEW q \in Amounts, NEW r \in Amounts, NEW e, Passes(q, e, r)
  PROVE  Total(r) = Total(q) + (e[N] - e[0])
<1>1. PICK f : IsSum(f, q) /\ Total(q) = f[N]
  BY TotalIs DEF Amounts
<1>2. PICK g : IsSum(g, r) /\ Total(r) = g[N]
  BY TotalIs DEF Amounts
<1>3. Apart(f, e, g)
  BY <1>1, <1>2, Telescopes
<1> QED BY <1>1, <1>2, <1>3, LevelsAre DEF Apart

(* A level that hands an amount to the next. *)
LEMMA HandingDownKeeps ==
  ASSUME NEW q \in Amounts, NEW h \in 1..(N - 1), NEW d \in Int, NEW r \in Amounts,
         r[h] = q[h] - d, r[h + 1] = q[h + 1] + d,
         \A k \in Levels \ {h, h + 1} : r[k] = q[k]
  PROVE  Total(r) = Total(q)
<1> DEFINE e == [k \in 0..N |-> IF k = h THEN -d ELSE 0]
<1>1. e \in [0..N -> Int]
  OBVIOUS
<1>2. ASSUME NEW k \in Levels PROVE r[k] = q[k] + (e[k] - e[k - 1])
  <2>1. k \in 0..N /\ k - 1 \in 0..N /\ q[k] \in Int /\ r[k] \in Int
    BY LevelsAre DEF Amounts
  <2>2. CASE k = h
    <3>1. e[k] = -d /\ e[k - 1] = 0
      BY <2>1, <2>2
    <3> QED BY <2>1, <2>2, <3>1
  <2>3. CASE k = h + 1
    <3>1. e[k] = 0 /\ e[k - 1] = -d
      BY <2>1, <2>3
    <3> QED BY <2>1, <2>3, <3>1
  <2>4. CASE k # h /\ k # h + 1
    <3>1. e[k] = 0 /\ e[k - 1] = 0
      BY <2>1, <2>4
    <3> QED BY <2>1, <2>4, <3>1
  <2> QED BY <2>2, <2>3, <2>4
<1>3. e[0] = 0 /\ e[N] = 0
  BY LevelsAre
<1> HIDE DEF e
<1>4. Total(r) = Total(q) + (e[N] - e[0])
  BY <1>1, <1>2, TotalsTelescope DEF Passes
<1> QED BY <1>3, <1>4, TotalIsInt

TopIsPaid(q, a) ==
  /\ a \in Amounts
  /\ a[1] = q[1] - Lesser(q[1], 0) /\ a[2] = q[2] + Lesser(q[1], 0)
  /\ a[1] >= 0 /\ a[2] >= q[2] - Dim(0, q[1])
  /\ \A k \in Levels \ {1, 2} : a[k] = q[k]
  /\ Total(a) = Total(q)

LEMMA TopPaidIs ==
  ASSUME NEW q \in Amounts
  PROVE  TopIsPaid(q, TopPaid(q))
<1> DEFINE d == Lesser(q[1], 0)
           a == TopPaid(q)
<1>1. q[1] \in Int /\ q[2] \in Int /\ d \in Int
  BY LevelsAre DEF Amounts, Lesser
<1>2. a \in Amounts
  <2>1. Greater(q[1], 0) \in Int /\ q[2] + d \in Int
    BY <1>1 DEF Greater
  <2> HIDE DEF d
  <2> QED BY <2>1 DEF TopPaid, Amounts, d
<1>3. a[1] = Greater(q[1], 0) /\ a[2] = q[2] + d /\ \A k \in Levels \ {1, 2} : a[k] = q[k]
  BY LevelsAre DEF TopPaid, Amounts
<1> HIDE DEF a
<1>4. Greater(q[1], 0) = q[1] - d
  BY <1>1 DEF Greater, Lesser
<1>5. Total(a) = Total(q)
  <2> HIDE DEF d
  <2>1. 1 \in 1..(N - 1) /\ 1 + 1 = 2
    BY LevelsAre
  <2> QED BY <1>1, <1>2, <1>3, <1>4, <2>1, HandingDownKeeps
<1>6. a[1] >= 0 /\ a[2] >= q[2] - Dim(0, q[1])
  BY <1>1, <1>3, <1>4 DEF Greater, Lesser, Dim
<1>7. TopIsPaid(q, a)
  BY <1>2, <1>3, <1>4, <1>5, <1>6 DEF TopIsPaid
<1> QED BY <1>7 DEF a

(* The bottom that borrows from the level above it. *)
BottomBorrows(p, d, r) ==
  /\ r \in Amounts
  /\ r[N] = p[N] + d /\ r[N - 1] = p[N - 1] - d
  /\ \A k \in 1..(N - 2) : r[k] = p[k]
  /\ Total(r) = Total(p)

LEMMA BottomBorrowsIs ==
  ASSUME NEW p \in Amounts, NEW d \in Int
  PROVE  BottomBorrows(p, d, [p EXCEPT ![N] = @ + d, ![N - 1] = @ - d])
<1> DEFINE r == [p EXCEPT ![N] = @ + d, ![N - 1] = @ - d]
<1>1. p[N] \in Int /\ p[N - 1] \in Int /\ N # N - 1
  BY LevelsAre DEF Amounts
<1>2. r \in Amounts /\ r[N] = p[N] + d /\ r[N - 1] = p[N - 1] - d
      /\ \A k \in Levels \ {N, N - 1} : r[k] = p[k]
  BY <1>1, LevelsAre DEF Amounts
<1> HIDE DEF r
<1>3. Total(r) = Total(p)
  <2>1. N - 1 \in 1..(N - 1) /\ (N - 1) + 1 = N
    BY LevelsAre
  <2> DEFINE h == N - 1
  <2>2. r[h] = p[h] - d /\ r[h + 1] = p[h + 1] + d /\ h \in 1..(N - 1)
        /\ \A k \in Levels \ {h, h + 1} : r[k] = p[k]
    BY <1>2, <2>1
  <2> HIDE DEF h
  <2> QED BY <1>2, <2>2, HandingDownKeeps
<1>4. \A k \in 1..(N - 2) : k \in Levels \ {N, N - 1}
  BY LevelsAre
<1>5. BottomBorrows(p, d, r)
  BY <1>2, <1>3, <1>4 DEF BottomBorrows
<1> QED BY <1>5 DEF r

-----------------------------------------------------------------------------
(* The vapour repair at the start of the microphysics. *)
VapourRepaired(q, r) ==
  /\ r \in Amounts
  /\ Total(r) = Total(q)
  /\ \A k \in 1..(N - 1) : r[k] >= 0
  /\ r[N] < 0 => r[N - 1] <= 0

LEMMA FixWaterVaporIs ==
  ASSUME NEW q \in Amounts
  PROVE  VapourRepaired(q, FixWaterVapor(q))
<1> DEFINE F(f) == f = [k \in Levels |-> IF k = 1 THEN q[1] ELSE q[k] + Lesser(f[k - 1], 0)]
           down == CHOOSE f : F(f)
           paid == [k \in Levels |-> IF k < N THEN Greater(down[k], 0) ELSE down[N]]
           dq == IF paid[N] < 0 /\ paid[N - 1] > 0 THEN Lesser(-paid[N], paid[N - 1]) ELSE 0
           r == [paid EXCEPT ![N] = @ + dq, ![N - 1] = @ - dq]
<1>1. FixWaterVapor(q) = r
  BY DEF FixWaterVapor
<1>2. PICK f \in Amounts : F(f)
  <2> DEFINE step == [p \in Int \X (1..N) |-> q[p[2]] + Lesser(p[1], 0)]
  <2>1. step \in [Int \X (1..N) -> Int]
    BY DEF Lesser, Amounts, Levels
  <2>2. FollowsUp(Int, 1, N, q[1], step)
    <3>1. q[1] \in Int
      BY LevelsAre DEF Amounts
    <3> HIDE DEF step
    <3> QED BY <2>1, <3>1, LevelsAre, RecursionUp
  <2>3. PICK f \in [1..N -> Int] : f = [k \in 1..N |-> IF k = 1 THEN q[1] ELSE step[<<f[k - 1], k>>]]
    BY <2>2 DEF FollowsUp
  <2>4. ASSUME NEW k \in Levels, k # 1 PROVE step[<<f[k - 1], k>>] = q[k] + Lesser(f[k - 1], 0)
    <3>1. k - 1 \in 1..N /\ k \in 1..N
      BY <2>4, LevelsAre
    <3>2. f[k - 1] \in Int
      BY <3>1
    <3> QED BY <3>1, <3>2
  <2> HIDE DEF step
  <2>5. F(f)
    BY <2>3, <2>4 DEF Levels
  <2> QED BY <2>5 DEF Amounts, Levels
<1>3. F(down)
  <2> HIDE DEF F
  <2> QED BY <1>2
<1> HIDE DEF down
<1>4. down[1] = q[1] /\ \A k \in Levels : k # 1 => down[k] = q[k] + Lesser(down[k - 1], 0)
  BY <1>3, LevelsAre
<1>5. \A k \in Levels : down[k] \in Int
  <2> DEFINE H == {k \in Levels : down[k] \in Int}
  <2>1. H \in SUBSET (1..N) /\ 1 \in H
    BY <1>4, LevelsAre DEF Amounts
  <2>2. ASSUME NEW k \in 1..N, k # N, k \in H PROVE k + 1 \in H
    <3>1. k + 1 \in Levels /\ k + 1 # 1 /\ (k + 1) - 1 = k
      BY <2>2, LevelsAre
    <3>2. down[k + 1] = q[k + 1] + Lesser(down[k], 0)
      BY <1>4, <3>1
    <3> QED BY <2>2, <3>1, <3>2 DEF Amounts, Lesser
  <2> HIDE DEF H
  <2>3. H = 1..N
    BY <2>1, <2>2, LevelsAre, Upwards
  <2> QED BY <2>3, LevelsAre DEF H
<1>6. paid \in Amounts
  BY <1>5, LevelsAre DEF Amounts, Greater
<1>7. dq \in Int
  BY <1>6, LevelsAre DEF Amounts, Lesser
<1>8. Total(paid) = Total(q)
  <2> DEFINE e == [k \in 0..N |-> IF k = 0 \/ k = N THEN 0 ELSE -Lesser(down[k], 0)]
  <2>1. e \in [0..N -> Int]
    BY <1>5, LevelsAre DEF Lesser
  <2>2. ASSUME NEW k \in Levels PROVE paid[k] = q[k] + (e[k] - e[k - 1])
    <3>1. k \in 0..N /\ k - 1 \in 0..N /\ q[k] \in Int /\ down[k] \in Int /\ k # 0
      BY <1>5, LevelsAre DEF Amounts
    <3>2. e[k] = IF k = N THEN 0 ELSE -Lesser(down[k], 0)
      BY <3>1
    <3>3. e[k - 1] = IF k = 1 THEN 0 ELSE -Lesser(down[k - 1], 0)
      BY <3>1, LevelsAre
    <3>4. down[k] = IF k = 1 THEN q[k] ELSE q[k] + Lesser(down[k - 1], 0)
      BY <1>4
    <3>5. k # 1 => down[k - 1] \in Int
      BY <1>5, LevelsAre
    <3>6. paid[k] = IF k < N THEN Greater(down[k], 0) ELSE down[k]
      BY LevelsAre
    <3> HIDE DEF e, paid
    <3>7. k < N <=> k # N
      BY LevelsAre
    <3> QED BY <3>1, <3>2, <3>3, <3>4, <3>5, <3>6, <3>7 DEF Lesser, Greater
  <2>3. e[0] = 0 /\ e[N] = 0
    BY LevelsAre
  <2> HIDE DEF e, paid
  <2>4. Passes(q, e, paid)
    BY <2>1, <2>2 DEF Passes
  <2>5. Total(paid) = Total(q) + (e[N] - e[0])
    BY <1>6, <2>4, TotalsTelescope
  <2> QED BY <2>3, <2>5, TotalIsInt
<1>9. \A k \in 1..(N - 1) : paid[k] >= 0
  BY <1>5, LevelsAre DEF Greater
<1> HIDE DEF paid
<1>10. /\ dq >= 0 /\ (dq = 0 \/ dq <= paid[N - 1])
       /\ paid[N] + dq < 0 => paid[N - 1] - dq <= 0
  <2>1. paid[N] \in Int /\ paid[N - 1] \in Int /\ paid[N - 1] >= 0
    BY <1>6, <1>9, LevelsAre DEF Amounts
  <2> QED BY <2>1 DEF Lesser
<1> HIDE DEF dq
<1>11. BottomBorrows(paid, dq, r)
  BY <1>6, <1>7, BottomBorrowsIs
<1> HIDE DEF r
<1>12. \A k \in 1..(N - 1) : r[k] >= 0
  <2>1. ASSUME NEW k \in 1..(N - 1) PROVE r[k] >= 0
    <3>1. k = N - 1 \/ k \in 1..(N - 2)
      BY LevelsAre
    <3>2. paid[N - 1] \in Int /\ paid[N - 1] >= 0
      BY <1>6, <1>9, LevelsAre DEF Amounts
    <3> QED BY <1>7, <1>9, <1>10, <1>11, <3>1, <3>2 DEF BottomBorrows
  <2> QED BY <2>1
<1> QED BY <1>1, <1>8, <1>10, <1>11, <1>12 DEF VapourRepaired, BottomBorrows

-----------------------------------------------------------------------------
(* fillz: what each level borrows. *)
Entries == [q : Int, upper : Int, lower : Int, fixed : BOOLEAN]
Untouched(a) == [q |-> a[1], upper |-> 0, lower |-> 0, fixed |-> FALSE]

InteriorStep(a, v, k) ==
  LET q == a[k] - v.lower
      above_ == v.q
      upper == IF q < 0 /\ above_ > 0 THEN Lesser(above_, -q) ELSE 0
      lower == IF q + upper < 0 /\ a[k + 1] > 0 THEN Lesser(a[k + 1], -(q + upper)) ELSE 0
  IN [q |-> q + upper + lower, upper |-> upper, lower |-> lower, fixed |-> q < 0]

LEMMA InteriorStepIs ==
  ASSUME NEW a \in Amounts, NEW v \in Entries, NEW k \in 1..(N - 1)
  PROVE  /\ InteriorStep(a, v, k) \in Entries
         /\ InteriorStep(a, v, k).q
              = a[k] - v.lower + InteriorStep(a, v, k).upper + InteriorStep(a, v, k).lower
<1> DEFINE q == a[k] - v.lower
           above_ == v.q
           upper == IF q < 0 /\ above_ > 0 THEN Lesser(above_, -q) ELSE 0
           lower == IF q + upper < 0 /\ a[k + 1] > 0 THEN Lesser(a[k + 1], -(q + upper)) ELSE 0
<1>1. a[k] \in Int /\ a[k + 1] \in Int /\ v.lower \in Int /\ v.q \in Int
  BY LevelsAre DEF Amounts, Entries
<1>2. q \in Int
  BY <1>1
<1> HIDE DEF q
<1>3. upper \in Int
  BY <1>1, <1>2 DEF Lesser
<1> HIDE DEF upper
<1>4. lower \in Int
  BY <1>1, <1>2, <1>3 DEF Lesser
<1> HIDE DEF lower
<1>5. InteriorStep(a, v, k) = [q |-> q + upper + lower, upper |-> upper, lower |-> lower, fixed |-> q < 0]
  BY DEF InteriorStep, q, upper, lower
<1>6. q + upper + lower \in Int /\ (q < 0) \in BOOLEAN
  BY <1>2, <1>3, <1>4
<1>7. InteriorStep(a, v, k) \in Entries
  BY <1>3, <1>4, <1>5, <1>6 DEF Entries
<1>8. InteriorStep(a, v, k).q = q + upper + lower /\ InteriorStep(a, v, k).upper = upper
      /\ InteriorStep(a, v, k).lower = lower
  BY <1>5
<1> QED BY <1>7, <1>8 DEF q

Interior(a, f) ==
  f = [k \in 1..N - 1 |-> IF k = 1 THEN Untouched(a) ELSE InteriorStep(a, f[k - 1], k)]

LEMMA InteriorExists ==
  ASSUME NEW a \in Amounts
  PROVE  (\E f : Interior(a, f)) /\ \A f : Interior(a, f) => f \in [1..N - 1 -> Entries]
<1> DEFINE base == Untouched(a)
           step == [p \in Entries \X (1..N - 1) |-> IF p[2] = 1 THEN base ELSE InteriorStep(a, p[1], p[2])]
<1>0. 1 \in Int /\ N - 1 \in Int /\ 1 \in 1..N - 1 /\ base \in Entries
  BY LevelsAre DEF Untouched, Entries, Amounts
<1> HIDE DEF base
<1>1. ASSUME NEW v \in Entries, NEW k \in 1..N - 1, k # 1 PROVE InteriorStep(a, v, k) \in Entries
  BY <1>1, InteriorStepIs
<1>2. step \in [Entries \X (1..N - 1) -> Entries]
  <2>1. ASSUME NEW p \in Entries \X (1..N - 1)
        PROVE  (IF p[2] = 1 THEN base ELSE InteriorStep(a, p[1], p[2])) \in Entries
    <3>1. p[1] \in Entries /\ p[2] \in 1..N - 1
      OBVIOUS
    <3> QED BY <1>0, <1>1, <3>1
  <2> QED BY <2>1
<1>3. FollowsUp(Entries, 1, N - 1, base, step)
  <2> HIDE DEF step
  <2> QED BY <1>0, <1>2, RecursionUp
<1>4. PICK f \in [1..N - 1 -> Entries] :
        f = [k \in 1..N - 1 |-> IF k = 1 THEN base ELSE step[<<f[k - 1], k>>]]
  BY <1>3 DEF FollowsUp
<1>5. ASSUME NEW k \in 1..N - 1, k # 1 PROVE step[<<f[k - 1], k>>] = InteriorStep(a, f[k - 1], k)
  <2>1. k - 1 \in 1..N - 1
    BY <1>0, <1>5
  <2>2. f[k - 1] \in Entries
    BY <2>1
  <2> QED BY <1>5, <2>2
<1>6. Interior(a, f)
  <2> HIDE DEF step
  <2> QED BY <1>4, <1>5 DEF Interior, base
<1>7. ASSUME NEW g, Interior(a, g) PROVE g \in [1..N - 1 -> Entries]
  <2> DEFINE H == {k \in 1..N - 1 : g[k] \in Entries}
  <2>0. \A k \in 1..N - 1 : g[k] = IF k = 1 THEN base ELSE InteriorStep(a, g[k - 1], k)
    BY <1>7 DEF Interior, base
  <2>1. 1 \in H /\ H \in SUBSET (1..N - 1)
    BY <1>0, <2>0
  <2>2. ASSUME NEW k \in 1..N - 1, k # N - 1, k \in H PROVE k + 1 \in H
    <3>1. k + 1 \in 1..N - 1 /\ k + 1 # 1 /\ (k + 1) - 1 = k
      BY <1>0, <2>2
    <3>2. g[k + 1] = InteriorStep(a, g[k], k + 1)
      BY <2>0, <3>1
    <3>3. InteriorStep(a, g[k], k + 1) \in Entries
      BY <1>1, <2>2, <3>1
    <3> QED BY <3>1, <3>2, <3>3
  <2> HIDE DEF H
  <2>3. H = 1..N - 1
    BY <1>0, <2>1, <2>2, Upwards
  <2>4. \A k \in 1..N - 1 : g[k] \in Entries
    BY <2>3 DEF H
  <2>5. g = [k \in 1..N - 1 |-> g[k]]
    BY <1>7 DEF Interior
  <2> QED BY <2>4, <2>5
<1> QED BY <1>6, <1>7

Borrows(a, level) ==
  /\ level \in [1..(N - 1) -> Entries]
  /\ level[1].q = a[1] /\ level[1].upper = 0 /\ level[1].lower = 0
  /\ \A k \in 2..(N - 1) :
       level[k].q = a[k] - level[k - 1].lower + level[k].upper + level[k].lower

LEMMA FixedInteriorIs ==
  ASSUME NEW a \in Amounts
  PROVE  Borrows(a, FixedInterior(a))
<1> DEFINE level == CHOOSE f : Interior(a, f)
<1>1. FixedInterior(a) = level
  BY DEF FixedInterior, Interior, InteriorStep, Untouched
<1>2. Interior(a, level) /\ level \in [1..(N - 1) -> Entries]
  <2>1. Interior(a, level)
    BY InteriorExists
  <2> HIDE DEF level
  <2> QED BY <2>1, InteriorExists
<1> HIDE DEF level
<1>3. level[1] = Untouched(a)
  BY <1>2, LevelsAre DEF Interior
<1>4. ASSUME NEW k \in 2..(N - 1)
      PROVE  level[k].q = a[k] - level[k - 1].lower + level[k].upper + level[k].lower
  <2>1. k \in 1..(N - 1) /\ k # 1 /\ k - 1 \in 1..(N - 1)
    BY LevelsAre
  <2>2. level[k] = InteriorStep(a, level[k - 1], k) /\ level[k - 1] \in Entries
    BY <1>2, <2>1 DEF Interior
  <2> QED BY <2>1, <2>2, InteriorStepIs
<1>5. Borrows(a, level)
  BY <1>2, <1>3, <1>4 DEF Borrows, Untouched
<1> QED BY <1>1, <1>5

LEMMA RepaidIs ==
  ASSUME NEW q \in Amounts
  PROVE  Repaid(q) \in Amounts /\ Total(Repaid(q)) = Total(q)
<1> DEFINE a == TopPaid(q)
           level == FixedInterior(a)
           paid == [k \in Levels |-> IF k = N THEN q[N] - level[N - 1].lower
                                     ELSE level[k].q - (IF k < N - 1 THEN level[k + 1].upper ELSE 0)]
           dup == IF paid[N] < 0 /\ paid[N - 1] > 0 THEN Lesser(paid[N - 1], -paid[N]) ELSE 0
           r == [paid EXCEPT ![N] = @ + dup, ![N - 1] = @ - dup]
<1>1. Repaid(q) = r
  BY DEF Repaid
<1>2. TopIsPaid(q, a)
  BY TopPaidIs
<1> HIDE DEF a
<1>3. Borrows(a, level)
  BY <1>2, FixedInteriorIs DEF TopIsPaid
<1> HIDE DEF level
<1>4. \A k \in 1..(N - 1) : level[k].q \in Int /\ level[k].upper \in Int /\ level[k].lower \in Int
  BY <1>3 DEF Borrows, Entries
<1>5. paid \in Amounts
  <2>1. ASSUME NEW k \in Levels
        PROVE  (IF k = N THEN q[N] - level[N - 1].lower
                ELSE level[k].q - (IF k < N - 1 THEN level[k + 1].upper ELSE 0)) \in Int
    <3>1. CASE k = N
      <4>1. N - 1 \in 1..(N - 1) /\ q[N] \in Int
        BY LevelsAre DEF Amounts
      <4> QED BY <1>4, <3>1, <4>1
    <3>2. CASE k # N
      <4>1. k \in 1..(N - 1) /\ (k < N - 1 => k + 1 \in 1..(N - 1))
        BY <3>2, LevelsAre
      <4> QED BY <1>4, <3>2, <4>1
    <3> QED BY <3>1, <3>2
  <2> QED BY <2>1 DEF Amounts
<1>6. Total(paid) = Total(a)
  <2> DEFINE e == [k \in 0..N |-> IF k = 0 \/ k = N THEN 0
                                  ELSE level[k].lower - (IF k < N - 1 THEN level[k + 1].upper ELSE 0)]
  <2>1. e \in [0..N -> Int]
    <3>1. ASSUME NEW k \in 0..N
          PROVE  (IF k = 0 \/ k = N THEN 0
                  ELSE level[k].lower - (IF k < N - 1 THEN level[k + 1].upper ELSE 0)) \in Int
      <4>1. CASE k # 0 /\ k # N
        <5>1. k \in 1..(N - 1) /\ (k < N - 1 => k + 1 \in 1..(N - 1))
          BY <4>1, LevelsAre
        <5> QED BY <1>4, <4>1, <5>1
      <4> QED BY <4>1
    <3> QED BY <3>1
  <2>2. ASSUME NEW k \in Levels PROVE paid[k] = a[k] + (e[k] - e[k - 1])
    <3>0. k \in 0..N /\ k - 1 \in 0..N /\ k # 0 /\ a[k] \in Int /\ 1 \in 1..(N - 1) /\ 2 \in 1..(N - 1)
      BY <1>2, LevelsAre DEF TopIsPaid, Amounts
    <3>1. CASE k = 1
      <4>1. paid[k] = level[1].q - (IF 1 < N - 1 THEN level[2].upper ELSE 0)
        BY <3>0, <3>1, LevelsAre
      <4>2. e[k] = level[1].lower - (IF 1 < N - 1 THEN level[2].upper ELSE 0) /\ e[k - 1] = 0
        BY <3>0, <3>1, LevelsAre
      <4>3. level[1].q = a[k] /\ level[1].lower = 0
        BY <1>3, <3>1 DEF Borrows
      <4> QED BY <1>4, <3>0, <4>1, <4>2, <4>3
    <3>2. CASE k \in 2..(N - 1)
      <4>0. k # N /\ k # 1 /\ k - 1 < N - 1 /\ k - 1 # 0 /\ k - 1 # N /\ k - 1 \in 1..(N - 1)
            /\ k \in 1..(N - 1) /\ (k - 1) + 1 = k
        BY <3>2, LevelsAre
      <4> DEFINE u == IF k < N - 1 THEN level[k + 1].upper ELSE 0
      <4>1. paid[k] = level[k].q - u
        BY <3>0, <4>0
      <4>2. e[k] = level[k].lower - u
        BY <3>0, <4>0
      <4>3. e[k - 1] = level[k - 1].lower - level[k].upper
        BY <3>0, <4>0
      <4>4. level[k].q = a[k] - level[k - 1].lower + level[k].upper + level[k].lower
        BY <1>3, <3>2 DEF Borrows
      <4>5. u \in Int
        <5>1. k < N - 1 => k + 1 \in 1..(N - 1)
          BY <4>0, LevelsAre
        <5> QED BY <1>4, <5>1
      <4> HIDE DEF u, e, paid
      <4> QED BY <1>4, <3>0, <4>0, <4>1, <4>2, <4>3, <4>4, <4>5
    <3>3. CASE k = N
      <4>0. N - 1 # 0 /\ N - 1 # N /\ N - 1 \in 0..N /\ N - 1 \in 1..(N - 1) /\ ~ (N - 1 < N - 1)
            /\ N \notin {1, 2}
        BY LevelsAre
      <4>1. paid[k] = q[N] - level[N - 1].lower
        BY <3>3, <3>0
      <4>2. e[k] = 0 /\ e[k - 1] = level[N - 1].lower - 0
        BY <3>3, <3>0, <4>0
      <4>3. a[k] = q[N]
        BY <1>2, <3>3, <4>0 DEF TopIsPaid
      <4> HIDE DEF e, paid
      <4> QED BY <1>4, <3>0, <4>0, <4>1, <4>2, <4>3
    <3>4. k = 1 \/ k = N \/ k \in 2..(N - 1)
      BY LevelsAre
    <3> QED BY <3>1, <3>2, <3>3, <3>4
  <2>3. e[0] = 0 /\ e[N] = 0
    BY LevelsAre
  <2> HIDE DEF e, paid
  <2>4. Passes(a, e, paid)
    BY <2>1, <2>2 DEF Passes
  <2>5. Total(paid) = Total(a) + (e[N] - e[0])
    BY <1>2, <1>5, <2>4, TotalsTelescope DEF TopIsPaid
  <2> QED BY <1>2, <2>3, <2>5, TotalIsInt DEF TopIsPaid
<1> HIDE DEF paid
<1>7. dup \in Int
  BY <1>5, LevelsAre DEF Amounts, Lesser
<1> HIDE DEF dup
<1>8. BottomBorrows(paid, dup, r)
  BY <1>5, <1>7, BottomBorrowsIs
<1> QED BY <1>1, <1>2, <1>6, <1>8 DEF BottomBorrows, TopIsPaid

LEMMA FixTracerIs ==
  ASSUME NEW q \in Amounts, NEW r \in FixTracer(q)
  PROVE  r \in Amounts /\ Total(r) = Total(q)
<1> DEFINE dm == Repaid(q)
           sum0 == Total(dm) - dm[1]
<1>1. dm \in Amounts /\ Total(dm) = Total(q)
  BY RepaidIs
<1> HIDE DEF dm
<1>2. sum0 \in Int /\ dm[1] \in Int
  BY <1>1, TotalIsInt, LevelsAre DEF Amounts
<1>3. CASE NeededFixing(q) /\ sum0 > 0
  <2>1. PICK share \in [2..N -> 0..Greater(sum0, 0)] :
          /\ Total([k \in Levels |-> IF k = 1 THEN 0 ELSE share[k]]) = sum0
          /\ r = [k \in Levels |-> IF k = 1 THEN dm[1] ELSE share[k]]
    BY <1>3 DEF FixTracer, dm
  <2> DEFINE z == [k \in Levels |-> IF k = 1 THEN 0 ELSE share[k]]
             e == [k \in 0..N |-> IF k = 0 THEN 0 ELSE dm[1]]
  <2>2. \A k \in Levels : k # 1 => share[k] \in Int
    <3>1. \A k \in Levels : k # 1 => k \in 2..N
      BY LevelsAre
    <3>2. 0..Greater(sum0, 0) \subseteq Int
      BY <1>2 DEF Greater
    <3> HIDE DEF sum0
    <3> QED BY <2>1, <3>1, <3>2
  <2>3. z \in Amounts /\ r \in Amounts
    BY <1>2, <2>1, <2>2 DEF Amounts
  <2>4. Passes(z, e, r)
    <3>1. e \in [0..N -> Int]
      BY <1>2
    <3>2. ASSUME NEW k \in Levels PROVE r[k] = z[k] + (e[k] - e[k - 1])
      <4>1. k \in 0..N /\ k - 1 \in 0..N /\ k # 0 /\ (k - 1 = 0 <=> k = 1)
        BY LevelsAre
      <4>2. e[k] = dm[1] /\ e[k - 1] = IF k = 1 THEN 0 ELSE dm[1]
        BY <4>1
      <4>3. r[k] = (IF k = 1 THEN dm[1] ELSE share[k]) /\ z[k] = IF k = 1 THEN 0 ELSE share[k]
        BY <2>1
      <4> HIDE DEF e, z
      <4> QED BY <1>2, <2>2, <4>2, <4>3
    <3> QED BY <3>1, <3>2 DEF Passes
  <2>5. e[0] = 0 /\ e[N] = dm[1] /\ Total(z) = sum0
    BY <2>1, LevelsAre
  <2> HIDE DEF z, e
  <2>6. Total(r) = Total(z) + (e[N] - e[0])
    BY <2>3, <2>4, TotalsTelescope
  <2> QED BY <1>1, <1>2, <2>3, <2>5, <2>6, TotalIsInt
<1>4. CASE ~ (NeededFixing(q) /\ sum0 > 0)
  <2>1. r = dm
    BY <1>4 DEF FixTracer, dm
  <2> QED BY <1>1, <2>1
<1> QED BY <1>3, <1>4

-----------------------------------------------------------------------------
(* What a species owes, level by level. *)
Owed(q) == [k \in Levels |-> Dim(0, q[k])]

LEMMA SumsGrow ==
  ASSUME NEW f, NEW a, IsSum(f, a), \A k \in Levels : a[k] \in Nat
  PROVE  /\ \A k \in 0..N : f[k] \in Nat
         /\ \A k \in 0..N : f[k] <= f[N]
<1>1. f[0] = 0 /\ f \in [0..N -> Int] /\ \A k \in Levels : f[k] = f[k - 1] + a[k] /\ a[k] \in Nat
  BY DEF IsSum
<1> DEFINE H == {k \in 0..N : f[k] \in Nat}
           G == {k \in 0..N : f[k] <= f[N]}
<1>2. H = 0..N
  <2>1. 0 \in H /\ H \in SUBSET (0..N)
    BY <1>1, LevelsAre
  <2>2. ASSUME NEW k \in 0..N, k # N, k \in H PROVE k + 1 \in H
    <3>1. k + 1 \in Levels /\ (k + 1) - 1 = k /\ k + 1 \in 0..N
      BY <2>2, LevelsAre
    <3>2. f[k + 1] = f[k] + a[k + 1] /\ a[k + 1] \in Nat
      BY <1>1, <3>1
    <3> QED BY <2>2, <3>1, <3>2
  <2> HIDE DEF H
  <2> QED BY <2>1, <2>2, LevelsAre, Upwards
<1>3. G = 0..N
  <2>1. N \in G /\ G \in SUBSET (0..N)
    BY <1>1, LevelsAre
  <2>2. ASSUME NEW k \in 0..N, k # 0, k \in G PROVE k - 1 \in G
    <3>1. k \in Levels /\ k - 1 \in 0..N
      BY <2>2, LevelsAre
    <3>2. f[k] = f[k - 1] + a[k] /\ a[k] \in Nat
      BY <1>1, <3>1
    <3>3. f[k] \in Int /\ f[k - 1] \in Int /\ f[N] \in Int /\ f[k] <= f[N]
      BY <1>1, <2>2, <3>1, LevelsAre
    <3>4. f[k - 1] <= f[N]
      BY <3>2, <3>3
    <3> QED BY <3>1, <3>4
  <2> HIDE DEF G
  <2> QED BY <2>1, <2>2, LevelsAre, Downwards
<1> QED BY <1>2, <1>3

LEMMA OwedIs ==
  ASSUME NEW q \in Amounts, NEW f, IsSum(f, Owed(q))
  PROVE  /\ \A k \in 0..N : f[k] \in Nat
         /\ \A k \in Levels : f[k] = f[k - 1] + Dim(0, q[k]) /\ Dim(0, q[k]) \in Nat
         /\ \A k \in 0..N : f[k] <= f[N]
<1>1. \A k \in Levels : Dim(0, q[k]) \in Nat /\ Owed(q)[k] = Dim(0, q[k])
  BY DEF Amounts, Dim, Greater, Owed
<1>2. \A k \in Levels : f[k] = f[k - 1] + Owed(q)[k]
  BY DEF IsSum
<1>3. \A k \in 0..N : f[k] \in Nat /\ f[k] <= f[N]
  <2>1. \A k \in Levels : Owed(q)[k] \in Nat
    BY <1>1
  <2> HIDE DEF Owed
  <2> QED BY <2>1, SumsGrow
<1> QED BY <1>1, <1>2, <1>3

-----------------------------------------------------------------------------
(* The vapour repair at the end of the dynamical core, on the way down. *)
Below == {i \in Int : i <= 0}
Hands == [q : Nat, upper : Nat, lower : Below]
TopHands(a) == [q |-> a[1], upper |-> 0, lower |-> 0]
Paid == {a \in Amounts : a[1] >= 0}

HandStep(a, v, k) ==
  LET q == a[k] + v.lower
      above_ == v.q
      upper == IF q < 0 /\ above_ > 0 THEN Lesser(above_, -q) ELSE 0
  IN [q |-> Greater(q + upper, 0), upper |-> upper, lower |-> Lesser(q + upper, 0)]

Handing(a, v, k, r) ==
  /\ r \in Hands
  /\ r.upper <= v.q
  /\ r.q + r.lower = a[k] + v.lower + r.upper
  /\ r.lower >= Lesser(a[k] + v.lower, 0)

LEMMA HandStepHands ==
  ASSUME NEW a \in Paid, NEW v \in Hands, NEW k \in 1..(N - 1)
  PROVE  Handing(a, v, k, HandStep(a, v, k))
<1> DEFINE q == a[k] + v.lower
           above_ == v.q
           upper == IF q < 0 /\ above_ > 0 THEN Lesser(above_, -q) ELSE 0
           r == [q |-> Greater(q + upper, 0), upper |-> upper, lower |-> Lesser(q + upper, 0)]
<1>1. a[k] \in Int /\ v.lower \in Int /\ v.q \in Nat
  BY LevelsAre DEF Amounts, Hands, Below, Paid
<1>2. q \in Int
  BY <1>1
<1>3. HandStep(a, v, k) = r
  BY DEF HandStep
<1> HIDE DEF q
<1>4. upper \in Nat /\ upper <= v.q
  BY <1>1, <1>2 DEF Lesser
<1> HIDE DEF upper
<1>5. Greater(q + upper, 0) \in Nat /\ Lesser(q + upper, 0) \in Below
      /\ Greater(q + upper, 0) + Lesser(q + upper, 0) = q + upper
      /\ Lesser(q + upper, 0) >= Lesser(q, 0)
  BY <1>2, <1>4 DEF Greater, Lesser, Below
<1>6. r.q = Greater(q + upper, 0) /\ r.upper = upper /\ r.lower = Lesser(q + upper, 0) /\ r \in Hands
  BY <1>4, <1>5 DEF Hands
<1> HIDE DEF r
<1> QED BY <1>3, <1>4, <1>5, <1>6 DEF Handing, q

LEMMA HandStepIs ==
  ASSUME NEW a \in Paid, NEW v \in Hands, NEW k \in 1..(N - 1)
  PROVE  HandStep(a, v, k) \in Hands
  BY HandStepHands DEF Handing

HandsDown(a, f) ==
  f = [k \in 1..N - 1 |-> IF k = 1 THEN TopHands(a) ELSE HandStep(a, f[k - 1], k)]

LEMMA HandsDownExists ==
  ASSUME NEW a \in Paid
  PROVE  (\E f : HandsDown(a, f)) /\ \A f : HandsDown(a, f) => f \in [1..N - 1 -> Hands]
<1> DEFINE base == TopHands(a)
           step == [p \in Hands \X (1..N - 1) |-> IF p[2] = 1 THEN base ELSE HandStep(a, p[1], p[2])]
<1>0. 1 \in Int /\ N - 1 \in Int /\ 1 \in 1..N - 1 /\ base \in Hands
  BY LevelsAre DEF TopHands, Hands, Below, Paid, Amounts
<1> HIDE DEF base
<1>1. ASSUME NEW v \in Hands, NEW k \in 1..N - 1, k # 1 PROVE HandStep(a, v, k) \in Hands
  BY <1>1, HandStepIs
<1>2. step \in [Hands \X (1..N - 1) -> Hands]
  <2>1. ASSUME NEW p \in Hands \X (1..N - 1)
        PROVE  (IF p[2] = 1 THEN base ELSE HandStep(a, p[1], p[2])) \in Hands
    <3>1. p[1] \in Hands /\ p[2] \in 1..N - 1
      OBVIOUS
    <3> QED BY <1>0, <1>1, <3>1
  <2> QED BY <2>1
<1>3. FollowsUp(Hands, 1, N - 1, base, step)
  <2> HIDE DEF step
  <2> QED BY <1>0, <1>2, RecursionUp
<1>4. PICK f \in [1..N - 1 -> Hands] :
        f = [k \in 1..N - 1 |-> IF k = 1 THEN base ELSE step[<<f[k - 1], k>>]]
  BY <1>3 DEF FollowsUp
<1>5. ASSUME NEW k \in 1..N - 1, k # 1 PROVE step[<<f[k - 1], k>>] = HandStep(a, f[k - 1], k)
  <2>1. k - 1 \in 1..N - 1
    BY <1>0, <1>5
  <2>2. f[k - 1] \in Hands
    BY <2>1
  <2> QED BY <1>5, <2>2
<1>6. HandsDown(a, f)
  <2> HIDE DEF step
  <2> QED BY <1>4, <1>5 DEF HandsDown, base
<1>7. ASSUME NEW g, HandsDown(a, g) PROVE g \in [1..N - 1 -> Hands]
  <2> DEFINE H == {k \in 1..N - 1 : g[k] \in Hands}
  <2>0. \A k \in 1..N - 1 : g[k] = IF k = 1 THEN base ELSE HandStep(a, g[k - 1], k)
    BY <1>7 DEF HandsDown, base
  <2>1. 1 \in H /\ H \in SUBSET (1..N - 1)
    BY <1>0, <2>0
  <2>2. ASSUME NEW k \in 1..N - 1, k # N - 1, k \in H PROVE k + 1 \in H
    <3>1. k + 1 \in 1..N - 1 /\ k + 1 # 1 /\ (k + 1) - 1 = k
      BY <1>0, <2>2
    <3>2. g[k + 1] = HandStep(a, g[k], k + 1)
      BY <2>0, <3>1
    <3>3. HandStep(a, g[k], k + 1) \in Hands
      BY <1>1, <2>2, <3>1
    <3> QED BY <3>1, <3>2, <3>3
  <2> HIDE DEF H
  <2>3. H = 1..N - 1
    BY <1>0, <2>1, <2>2, Upwards
  <2>4. \A k \in 1..N - 1 : g[k] \in Hands
    BY <2>3 DEF H
  <2>5. g = [k \in 1..N - 1 |-> g[k]]
    BY <1>7 DEF HandsDown
  <2> QED BY <2>4, <2>5
<1> QED BY <1>6, <1>7

LEMMA HandedDownIs ==
  ASSUME NEW a \in Paid
  PROVE  /\ HandedDown(a) \in [1..(N - 1) -> Hands]
         /\ HandedDown(a)[1] = TopHands(a)
         /\ \A k \in 2..(N - 1) : Handing(a, HandedDown(a)[k - 1], k, HandedDown(a)[k])
<1> DEFINE level == CHOOSE f : HandsDown(a, f)
<1>1. HandedDown(a) = level
  BY DEF HandedDown, HandsDown, HandStep, TopHands
<1>2. HandsDown(a, level) /\ level \in [1..(N - 1) -> Hands]
  <2>1. HandsDown(a, level)
    BY HandsDownExists
  <2> HIDE DEF level
  <2> QED BY <2>1, HandsDownExists
<1> HIDE DEF level
<1>3. level[1] = TopHands(a)
  BY <1>2, LevelsAre DEF HandsDown
<1>4. ASSUME NEW k \in 2..(N - 1) PROVE Handing(a, level[k - 1], k, level[k])
  <2>1. k \in 1..(N - 1) /\ k # 1 /\ k - 1 \in 1..(N - 1)
    BY LevelsAre
  <2>2. level[k] = HandStep(a, level[k - 1], k) /\ level[k - 1] \in Hands
    BY <1>2, <2>1 DEF HandsDown
  <2> QED BY <2>1, <2>2, HandStepHands
<1> QED BY <1>1, <1>2, <1>3, <1>4

(* The bottom is raised with what the levels above it have. *)
Raise == [bottom : Int, dq : Int]
Bottom(lent, bottom) == [bottom |-> bottom, dq |-> 0]
Lendings == [1..(N - 1) -> Nat]

RaiseStep(lent, bottom, v, k) ==
  LET below == v.bottom
      dq == IF below < 0 /\ lent[k] > 0 THEN Lesser(lent[k], -below) ELSE 0
  IN [bottom |-> below + dq, dq |-> dq]

Raising(lent, v, k, r) ==
  /\ r \in Raise
  /\ r.bottom = v.bottom + r.dq
  /\ r.dq >= 0 /\ r.dq <= lent[k]
  /\ r.bottom < 0 => r.dq = lent[k]

LEMMA RaiseStepRaises ==
  ASSUME NEW lent \in Lendings, NEW bottom \in Int, NEW v \in Raise, NEW k \in 1..(N - 1)
  PROVE  Raising(lent, v, k, RaiseStep(lent, bottom, v, k))
<1> DEFINE below == v.bottom
           dq == IF below < 0 /\ lent[k] > 0 THEN Lesser(lent[k], -below) ELSE 0
           r == [bottom |-> below + dq, dq |-> dq]
<1>1. below \in Int /\ lent[k] \in Nat
  BY DEF Raise, Lendings
<1>2. RaiseStep(lent, bottom, v, k) = r
  BY DEF RaiseStep
<1> HIDE DEF below
<1>3. dq \in Nat /\ dq <= lent[k] /\ (below + dq < 0 => dq = lent[k])
  BY <1>1 DEF Lesser
<1> HIDE DEF dq
<1>4. r.bottom = below + dq /\ r.dq = dq /\ r \in Raise
  BY <1>1, <1>3 DEF Raise
<1> HIDE DEF r
<1> QED BY <1>1, <1>2, <1>3, <1>4 DEF Raising, below

LEMMA RaiseStepIs ==
  ASSUME NEW lent \in Lendings, NEW bottom \in Int, NEW v \in Raise, NEW k \in 1..N, k # N
  PROVE  RaiseStep(lent, bottom, v, k) \in Raise
<1>1. k \in 1..(N - 1)
  BY LevelsAre
<1> QED BY <1>1, RaiseStepRaises DEF Raising

Raised(lent, bottom, f) ==
  f = [k \in 1..N |-> IF k = N THEN Bottom(lent, bottom) ELSE RaiseStep(lent, bottom, f[k + 1], k)]

LEMMA RaisedExists ==
  ASSUME NEW lent \in Lendings, NEW bottom \in Int
  PROVE  (\E f : Raised(lent, bottom, f)) /\ \A f : Raised(lent, bottom, f) => f \in [1..N -> Raise]
<1> DEFINE base == Bottom(lent, bottom)
           step == [p \in Raise \X (1..N) |-> IF p[2] = N THEN base ELSE RaiseStep(lent, bottom, p[1], p[2])]
<1>0. 1 \in Int /\ N \in Int /\ N \in 1..N /\ base \in Raise
  BY LevelsAre DEF Bottom, Raise
<1> HIDE DEF base
<1>1. ASSUME NEW v \in Raise, NEW k \in 1..N, k # N PROVE RaiseStep(lent, bottom, v, k) \in Raise
  BY <1>1, RaiseStepIs
<1>2. step \in [Raise \X (1..N) -> Raise]
  <2>1. ASSUME NEW p \in Raise \X (1..N)
        PROVE  (IF p[2] = N THEN base ELSE RaiseStep(lent, bottom, p[1], p[2])) \in Raise
    <3>1. p[1] \in Raise /\ p[2] \in 1..N
      OBVIOUS
    <3> QED BY <1>0, <1>1, <3>1
  <2> QED BY <2>1
<1>3. FollowsDown(Raise, 1, N, base, step)
  <2> HIDE DEF step
  <2> QED BY <1>0, <1>2, RecursionDown
<1>4. PICK f \in [1..N -> Raise] :
        f = [k \in 1..N |-> IF k = N THEN base ELSE step[<<f[k + 1], k>>]]
  BY <1>3 DEF FollowsDown
<1>5. ASSUME NEW k \in 1..N, k # N PROVE step[<<f[k + 1], k>>] = RaiseStep(lent, bottom, f[k + 1], k)
  <2>1. k + 1 \in 1..N
    BY <1>0, <1>5
  <2>2. f[k + 1] \in Raise
    BY <2>1
  <2> QED BY <1>5, <2>2
<1>6. Raised(lent, bottom, f)
  <2> HIDE DEF step
  <2> QED BY <1>4, <1>5 DEF Raised, base
<1>7. ASSUME NEW g, Raised(lent, bottom, g) PROVE g \in [1..N -> Raise]
  <2> DEFINE H == {k \in 1..N : g[k] \in Raise}
  <2>0. \A k \in 1..N : g[k] = IF k = N THEN base ELSE RaiseStep(lent, bottom, g[k + 1], k)
    BY <1>7 DEF Raised, base
  <2>1. N \in H /\ H \in SUBSET (1..N)
    BY <1>0, <2>0
  <2>2. ASSUME NEW k \in 1..N, k # 1, k \in H PROVE k - 1 \in H
    <3>1. k - 1 \in 1..N /\ k - 1 # N /\ (k - 1) + 1 = k
      BY <1>0, <2>2
    <3>2. g[k - 1] = RaiseStep(lent, bottom, g[k], k - 1)
      BY <2>0, <3>1
    <3>3. RaiseStep(lent, bottom, g[k], k - 1) \in Raise
      BY <1>1, <2>2, <3>1
    <3> QED BY <3>1, <3>2, <3>3
  <2> HIDE DEF H
  <2>3. H = 1..N
    BY <1>0, <2>1, <2>2, Downwards
  <2>4. \A k \in 1..N : g[k] \in Raise
    BY <2>3 DEF H
  <2>5. g = [k \in 1..N |-> g[k]]
    BY <1>7 DEF Raised
  <2> QED BY <2>4, <2>5
<1> QED BY <1>6, <1>7

VapourLowered(q, r) ==
  /\ r \in Amounts
  /\ Total(r) >= Total(q)
  /\ \A f : IsSum(f, Owed(q)) => Total(r) <= Total(q) + f[N]
  /\ \A k \in 1..(N - 1) : r[k] >= 0
  /\ r[N] < 0 => \A k \in 1..(N - 1) : r[k] = 0

LEMMA FixWaterVaporDownIs ==
  ASSUME NEW q \in Amounts
  PROVE  VapourLowered(q, FixWaterVaporDown(q))
<1> DEFINE a == TopPaid(q)
           level == HandedDown(a)
           lent == [k \in 1..N - 1 |-> level[k].q - (IF k < N - 1 THEN level[k + 1].upper ELSE 0)]
           bottom == q[N] + (IF level[N - 1].lower > 0 THEN level[N - 1].lower ELSE 0)
           raised == CHOOSE f : Raised(lent, bottom, f)
           r == [k \in Levels |-> IF k = N THEN raised[1].bottom ELSE lent[k] - raised[k].dq]
<1>1. FixWaterVaporDown(q) = r
  BY DEF FixWaterVaporDown, Raised, RaiseStep, Bottom
<1>2. TopIsPaid(q, a)
  BY TopPaidIs
<1>3. a \in Paid
  BY <1>2 DEF TopIsPaid, Paid
<1> HIDE DEF a
<1>4. /\ level \in [1..(N - 1) -> Hands] /\ level[1] = TopHands(a)
      /\ \A k \in 2..(N - 1) : Handing(a, level[k - 1], k, level[k])
  BY <1>3, HandedDownIs
<1> HIDE DEF level
<1>5. \A k \in 1..(N - 1) : level[k].q \in Nat /\ level[k].upper \in Nat
        /\ level[k].lower \in Int /\ level[k].lower <= 0
  BY <1>4 DEF Hands, Below
<1>6. lent \in Lendings
  <2>1. ASSUME NEW k \in 1..(N - 1)
        PROVE  level[k].q - (IF k < N - 1 THEN level[k + 1].upper ELSE 0) \in Nat
    <3>1. CASE k < N - 1
      <4>1. k + 1 \in 2..(N - 1) /\ (k + 1) - 1 = k /\ k + 1 \in 1..(N - 1)
        BY <3>1, LevelsAre
      <4>2. level[k + 1].upper <= level[k].q
        BY <1>4, <4>1 DEF Handing
      <4> QED BY <1>5, <3>1, <4>1, <4>2
    <3> QED BY <1>5, <3>1
  <2> QED BY <2>1 DEF Lendings
<1>7. bottom = q[N] /\ bottom \in Int
  BY <1>5, LevelsAre DEF Amounts
<1>8. \A k \in 1..(N - 1) :
        lent[k] = level[k].q - (IF k < N - 1 THEN level[k + 1].upper ELSE 0)
  OBVIOUS
<1> HIDE DEF lent, bottom
<1>9. Raised(lent, bottom, raised) /\ raised \in [1..N -> Raise]
  <2>1. Raised(lent, bottom, raised)
    BY <1>6, <1>7, RaisedExists
  <2> HIDE DEF raised
  <2> QED BY <1>6, <1>7, <2>1, RaisedExists
<1> HIDE DEF raised
<1>10. raised[N].bottom = bottom
  BY <1>9, LevelsAre DEF Raised, Bottom
<1>11. ASSUME NEW k \in 1..(N - 1) PROVE Raising(lent, raised[k + 1], k, raised[k])
  <2>1. k \in 1..N /\ k # N /\ k + 1 \in 1..N
    BY LevelsAre
  <2>2. raised[k] = RaiseStep(lent, bottom, raised[k + 1], k) /\ raised[k + 1] \in Raise
    BY <1>9, <2>1 DEF Raised
  <2> QED BY <1>6, <1>7, <2>2, RaiseStepRaises
<1>12. \A k \in 1..N : raised[k].bottom \in Int /\ raised[k].dq \in Int
  BY <1>9 DEF Raise
<1>13. \A k \in 1..(N - 1) : lent[k] \in Nat
  BY <1>6 DEF Lendings
<1>14. r \in Amounts
  <2>1. ASSUME NEW k \in Levels
        PROVE  (IF k = N THEN raised[1].bottom ELSE lent[k] - raised[k].dq) \in Int
    <3>1. k \in 1..N /\ 1 \in 1..N /\ (k # N => k \in 1..(N - 1))
      BY LevelsAre
    <3> QED BY <1>12, <1>13, <3>1
  <2> QED BY <2>1 DEF Amounts
<1>15. r[N] = raised[1].bottom /\ \A k \in 1..(N - 1) : r[k] = lent[k] - raised[k].dq
  <2>1. \A k \in 1..(N - 1) : k \in Levels /\ k # N
    BY LevelsAre
  <2> QED BY <2>1, LevelsAre
<1> HIDE DEF r
<1>16. \A k \in 1..(N - 1) : r[k] >= 0
  <2>1. ASSUME NEW k \in 1..(N - 1) PROVE r[k] >= 0
    <3>1. k \in 1..N
      BY LevelsAre
    <3> QED BY <1>11, <1>12, <1>13, <1>15, <3>1 DEF Raising
  <2> QED BY <2>1
<1>17. ASSUME r[N] < 0, NEW k \in 1..(N - 1) PROVE r[k] = 0
  <2> DEFINE H == {j \in 1..N : raised[j].bottom < 0}
  <2>1. 1 \in H /\ H \in SUBSET (1..N)
    BY <1>15, <1>17, LevelsAre
  <2>2. ASSUME NEW j \in 1..N, j # N, j \in H PROVE j + 1 \in H
    <3>1. j \in 1..(N - 1) /\ j + 1 \in 1..N
      BY <2>2, LevelsAre
    <3>2. Raising(lent, raised[j + 1], j, raised[j])
      BY <1>11, <3>1
    <3>3. raised[j + 1].bottom < 0
      BY <1>12, <2>2, <3>1, <3>2 DEF Raising
    <3> QED BY <3>1, <3>3
  <2>3. H = 1..N
    <3> HIDE DEF H
    <3> QED BY <2>1, <2>2, LevelsAre, Upwards
  <2>4. k \in 1..N
    BY LevelsAre
  <2>5. raised[k].bottom < 0
    BY <2>3, <2>4
  <2> QED BY <1>11, <1>12, <1>13, <1>15, <2>4, <2>5 DEF Raising
<1> DEFINE e == [k \in 0..N |->
                   IF k = 0 THEN 0
                   ELSE IF k = N THEN -level[N - 1].lower
                   ELSE (-level[k].lower - (IF k < N - 1 THEN level[k + 1].upper ELSE 0))
                          + (raised[k + 1].bottom - raised[1].bottom)]
<1>18. e \in [0..N -> Int]
  <2>1. ASSUME NEW k \in 0..N PROVE e[k] \in Int
    <3>0. N - 1 \in 1..(N - 1) /\ 1 \in 1..N
      BY LevelsAre
    <3>1. CASE k # 0 /\ k # N
      <4>1. k \in 1..(N - 1) /\ k + 1 \in 1..N /\ (k < N - 1 => k + 1 \in 1..(N - 1))
        BY <3>1, LevelsAre
      <4>2. (IF k < N - 1 THEN level[k + 1].upper ELSE 0) \in Int
        BY <1>5, <4>1
      <4> QED BY <1>5, <1>12, <3>0, <3>1, <4>1, <4>2
    <3> QED BY <1>5, <3>0, <3>1
  <2>2. e = [k \in 0..N |-> e[k]]
    OBVIOUS
  <2> HIDE DEF e
  <2> QED BY <2>1, <2>2
<1>19. ASSUME NEW k \in Levels PROVE r[k] = a[k] + (e[k] - e[k - 1])
  <2>0. k \in 0..N /\ k - 1 \in 0..N /\ k # 0 /\ a[k] \in Int /\ 1 \in 1..(N - 1) /\ 2 \in 1..N
        /\ 1 \in 1..N /\ 2 \in 1..(N - 1)
    BY <1>2, LevelsAre DEF TopIsPaid, Amounts
  <2>1. CASE k \in 1..(N - 1)
    <3>0. k # N /\ k \in 1..N /\ k + 1 \in 1..N /\ k - 1 # N
      BY <2>1, LevelsAre
    <3> DEFINE u == IF k < N - 1 THEN level[k + 1].upper ELSE 0
    <3>1. e[k] = (-level[k].lower - u) + (raised[k + 1].bottom - raised[1].bottom)
      BY <2>0, <3>0
    <3>2. r[k] = (level[k].q - u) - raised[k].dq
      BY <1>8, <1>15, <2>1
    <3>3. raised[k].bottom = raised[k + 1].bottom + raised[k].dq
      BY <1>11, <2>1 DEF Raising
    <3>4. u \in Int /\ level[k].q \in Int /\ level[k].lower \in Int /\ level[k].upper \in Int
          /\ raised[k + 1].bottom \in Int /\ raised[k].bottom \in Int /\ raised[k].dq \in Int
          /\ raised[1].bottom \in Int
      <4>1. k < N - 1 => k + 1 \in 1..(N - 1)
        BY <2>1, LevelsAre
      <4> QED BY <1>5, <1>12, <2>0, <2>1, <3>0, <4>1
    <3>5. CASE k = 1
      <4>1. e[k - 1] = 0 /\ level[k].q = a[k] /\ level[k].lower = 0
        BY <1>4, <2>0, <3>5 DEF TopHands
      <4> HIDE DEF u, e
      <4> QED BY <2>0, <3>1, <3>2, <3>3, <3>4, <3>5, <4>1
    <3>6. CASE k # 1
      <4>0. k \in 2..(N - 1) /\ k - 1 \in 1..(N - 1) /\ k - 1 # 0 /\ k - 1 < N - 1 /\ (k - 1) + 1 = k
        BY <2>1, <3>6, LevelsAre
      <4>1. e[k - 1] = (-level[k - 1].lower - level[k].upper) + (raised[k].bottom - raised[1].bottom)
        BY <2>0, <3>0, <4>0
      <4>2. level[k].q + level[k].lower = a[k] + level[k - 1].lower + level[k].upper
        BY <1>4, <4>0 DEF Handing
      <4>3. level[k - 1].lower \in Int
        BY <1>5, <4>0
      <4>4. a[k] \in Int
        BY <2>0
      <4> HIDE DEF u, e
      <4> QED BY <3>1, <3>2, <3>3, <3>4, <4>1, <4>2, <4>3, <4>4
    <3> QED BY <3>5, <3>6
  <2>2. CASE k = N
    <3>0. N - 1 # 0 /\ N - 1 # N /\ N - 1 \in 0..N /\ N - 1 \in 1..(N - 1) /\ ~ (N - 1 < N - 1)
          /\ N # 0 /\ N \notin {1, 2} /\ (N - 1) + 1 = N /\ N \in 1..N
      BY LevelsAre
    <3>1. e[k] = -level[N - 1].lower
      BY <2>0, <2>2, <3>0
    <3>2. e[k - 1] = (-level[N - 1].lower - 0) + (raised[N].bottom - raised[1].bottom)
      BY <2>0, <2>2, <3>0
    <3>3. r[k] = raised[1].bottom /\ a[k] = raised[N].bottom
      BY <1>2, <1>7, <1>10, <1>15, <2>2, <3>0, LevelsAre DEF TopIsPaid
    <3>4. level[N - 1].lower \in Int /\ raised[1].bottom \in Int /\ raised[N].bottom \in Int
      BY <1>5, <1>12, <2>0, <3>0
    <3> HIDE DEF e
    <3> QED BY <2>0, <3>1, <3>2, <3>3, <3>4
  <2>3. k = N \/ k \in 1..(N - 1)
    BY LevelsAre
  <2> QED BY <2>1, <2>2, <2>3
<1>20. e[0] = 0 /\ e[N] = -level[N - 1].lower
  BY LevelsAre
<1> HIDE DEF e
<1>21. Total(r) = Total(q) - level[N - 1].lower
  <2>1. Passes(a, e, r)
    BY <1>18, <1>19 DEF Passes
  <2>2. Total(r) = Total(a) + (e[N] - e[0])
    BY <1>2, <1>14, <2>1, TotalsTelescope DEF TopIsPaid
  <2>3. Total(a) \in Int /\ Total(a) = Total(q) /\ level[N - 1].lower \in Int
    <3>1. N - 1 \in 1..(N - 1)
      BY LevelsAre
    <3> QED BY <1>2, <1>5, <3>1, TotalIsInt DEF TopIsPaid
  <2> QED BY <1>20, <2>2, <2>3
<1>22. ASSUME NEW f, IsSum(f, Owed(q)) PROVE -level[N - 1].lower <= f[N]
  <2> DEFINE H == {k \in 1..(N - 1) : -level[k].lower <= f[k]}
  <2>0. /\ \A k \in 0..N : f[k] \in Nat
        /\ \A k \in Levels : f[k] = f[k - 1] + Dim(0, q[k]) /\ Dim(0, q[k]) \in Nat
        /\ \A k \in 0..N : f[k] <= f[N]
    BY <1>22, OwedIs
  <2>1. 1 \in H /\ H \in SUBSET (1..(N - 1))
    <3>1. 1 \in 0..N /\ 1 \in 1..(N - 1) /\ level[1].lower = 0
      BY <1>4, LevelsAre DEF TopHands
    <3> QED BY <2>0, <3>1
  <2>2. ASSUME NEW k \in 1..(N - 1), k # N - 1, k \in H PROVE k + 1 \in H
    <3> DEFINE j == k + 1
    <3>1. j \in 2..(N - 1) /\ j - 1 = k /\ j \in Levels /\ j \in 1..(N - 1) /\ k \in 0..N /\ j \in 0..N
          /\ k \in Levels
      BY <2>2, LevelsAre
    <3> HIDE DEF j
    <3>2. level[j].lower >= Lesser(a[j] + level[k].lower, 0)
      BY <1>4, <3>1 DEF Handing
    <3>3. f[j] = f[k] + Dim(0, q[j]) /\ f[j] \in Int /\ f[k] \in Int /\ f[k] >= 0 /\ q[j] \in Int
          /\ level[k].lower \in Int /\ level[j].lower \in Int /\ -level[k].lower <= f[k]
          /\ a[j] \in Int
      BY <1>2, <1>5, <2>0, <2>2, <3>1 DEF Amounts, TopIsPaid
    <3>4. CASE j = 2
      <4>1. f[k] = f[0] + Dim(0, q[1]) /\ f[0] \in Nat /\ q[1] \in Int
        BY <2>0, <3>1, <3>4, LevelsAre DEF Amounts
      <4>2. a[j] >= q[j] - Dim(0, q[1]) /\ level[k].lower = 0
        BY <1>2, <1>4, <3>1, <3>4 DEF TopIsPaid, TopHands
      <4>3. -level[j].lower <= f[j]
        BY <3>2, <3>3, <4>1, <4>2 DEF Lesser, Dim, Greater
      <4> QED BY <3>1, <4>3 DEF j
    <3>5. CASE j # 2
      <4>1. a[j] = q[j]
        BY <1>2, <3>1, <3>5 DEF TopIsPaid
      <4>2. -level[j].lower <= f[j]
        BY <3>2, <3>3, <4>1 DEF Lesser, Dim, Greater
      <4> QED BY <3>1, <4>2 DEF j
    <3> QED BY <3>4, <3>5
  <2>3. H = 1..(N - 1)
    <3>1. 1 \in Int /\ N - 1 \in Int
      BY LevelsAre
    <3> HIDE DEF H
    <3> QED BY <2>1, <2>2, <3>1, Upwards
  <2>4. N - 1 \in H /\ N - 1 \in 0..N /\ N - 1 \in 1..(N - 1)
    BY <2>3, LevelsAre
  <2>5. -level[N - 1].lower <= f[N - 1] /\ f[N - 1] <= f[N] /\ f[N - 1] \in Int /\ f[N] \in Int
    BY <2>0, <2>4, LevelsAre
  <2> QED BY <1>5, <2>4, <2>5
<1>23. level[N - 1].lower \in Int /\ level[N - 1].lower <= 0 /\ Total(q) \in Int
  BY <1>5, LevelsAre, TotalIsInt
<1>24. \A f : IsSum(f, Owed(q)) => Total(r) <= Total(q) + f[N]
  <2>1. ASSUME NEW f, IsSum(f, Owed(q)) PROVE Total(r) <= Total(q) + f[N]
    <3>1. f[N] \in Int
      BY <2>1, LevelsAre DEF IsSum
    <3> QED BY <1>21, <1>22, <1>23, <2>1, <3>1
  <2> QED BY <2>1
<1>25. Total(r) >= Total(q)
  BY <1>21, <1>23
<1>26. VapourLowered(q, r)
  BY <1>14, <1>16, <1>17, <1>24, <1>25 DEF VapourLowered
<1> QED BY <1>1, <1>26

-----------------------------------------------------------------------------
(* fillq. *)
Fills == [sum1 : Nat, sum2 : Nat, dq : Nat]
Unfilled(have) == [sum1 |-> have, sum2 |-> 0, dq |-> 0]

FillStep(q, have, v, k) ==
  LET dq == IF q[k] < 0 THEN Lesser(v.sum1, -q[k]) ELSE 0
  IN [sum1 |-> v.sum1 - dq, sum2 |-> v.sum2 + dq, dq |-> dq]

Filling(q, v, k, r) ==
  /\ r \in Fills
  /\ r.sum2 = v.sum2 + r.dq
  /\ r.dq <= Dim(0, q[k])

LEMMA FillStepFills ==
  ASSUME NEW q \in Amounts, NEW have \in Nat, NEW v \in Fills, NEW k \in Levels
  PROVE  Filling(q, v, k, FillStep(q, have, v, k))
<1> DEFINE dq == IF q[k] < 0 THEN Lesser(v.sum1, -q[k]) ELSE 0
           r == [sum1 |-> v.sum1 - dq, sum2 |-> v.sum2 + dq, dq |-> dq]
<1>1. q[k] \in Int /\ v.sum1 \in Nat /\ v.sum2 \in Nat
  BY DEF Amounts, Fills
<1>2. FillStep(q, have, v, k) = r
  BY DEF FillStep
<1>3. dq \in Nat /\ dq <= v.sum1 /\ dq <= Dim(0, q[k])
  BY <1>1 DEF Lesser, Dim, Greater
<1> HIDE DEF dq
<1>4. r \in Fills /\ r.sum2 = v.sum2 + dq /\ r.dq = dq
  BY <1>1, <1>3 DEF Fills
<1> HIDE DEF r
<1> QED BY <1>2, <1>3, <1>4 DEF Filling

LEMMA FillStepIs ==
  ASSUME NEW q \in Amounts, NEW have \in Nat, NEW v \in Fills, NEW k \in 1..(N + 1), k # N + 1
  PROVE  FillStep(q, have, v, k) \in Fills
<1>1. k \in Levels
  BY LevelsAre
<1> QED BY <1>1, FillStepFills DEF Filling

FilledUp(q, have, f) ==
  f = [k \in 1..N + 1 |-> IF k = N + 1 THEN Unfilled(have) ELSE FillStep(q, have, f[k + 1], k)]

LEMMA FilledUpExists ==
  ASSUME NEW q \in Amounts, NEW have \in Nat
  PROVE  (\E f : FilledUp(q, have, f)) /\ \A f : FilledUp(q, have, f) => f \in [1..N + 1 -> Fills]
<1> DEFINE base == Unfilled(have)
           step == [p \in Fills \X (1..N + 1) |-> IF p[2] = N + 1 THEN base ELSE FillStep(q, have, p[1], p[2])]
<1>0. 1 \in Int /\ N + 1 \in Int /\ N + 1 \in 1..N + 1 /\ base \in Fills
  BY LevelsAre DEF Unfilled, Fills
<1> HIDE DEF base
<1>1. ASSUME NEW v \in Fills, NEW k \in 1..N + 1, k # N + 1 PROVE FillStep(q, have, v, k) \in Fills
  BY <1>1, FillStepIs
<1>2. step \in [Fills \X (1..N + 1) -> Fills]
  <2>1. ASSUME NEW p \in Fills \X (1..N + 1)
        PROVE  (IF p[2] = N + 1 THEN base ELSE FillStep(q, have, p[1], p[2])) \in Fills
    <3>1. p[1] \in Fills /\ p[2] \in 1..N + 1
      OBVIOUS
    <3> QED BY <1>0, <1>1, <3>1
  <2> QED BY <2>1
<1>3. FollowsDown(Fills, 1, N + 1, base, step)
  <2> HIDE DEF step
  <2> QED BY <1>0, <1>2, RecursionDown
<1>4. PICK f \in [1..N + 1 -> Fills] :
        f = [k \in 1..N + 1 |-> IF k = N + 1 THEN base ELSE step[<<f[k + 1], k>>]]
  BY <1>3 DEF FollowsDown
<1>5. ASSUME NEW k \in 1..N + 1, k # N + 1 PROVE step[<<f[k + 1], k>>] = FillStep(q, have, f[k + 1], k)
  <2>1. k + 1 \in 1..N + 1
    BY <1>0, <1>5
  <2>2. f[k + 1] \in Fills
    BY <2>1
  <2> QED BY <1>5, <2>2
<1>6. FilledUp(q, have, f)
  <2> HIDE DEF step
  <2> QED BY <1>4, <1>5 DEF FilledUp, base
<1>7. ASSUME NEW g, FilledUp(q, have, g) PROVE g \in [1..N + 1 -> Fills]
  <2> DEFINE H == {k \in 1..N + 1 : g[k] \in Fills}
  <2>0. \A k \in 1..N + 1 : g[k] = IF k = N + 1 THEN base ELSE FillStep(q, have, g[k + 1], k)
    BY <1>7 DEF FilledUp, base
  <2>1. N + 1 \in H /\ H \in SUBSET (1..N + 1)
    BY <1>0, <2>0
  <2>2. ASSUME NEW k \in 1..N + 1, k # 1, k \in H PROVE k - 1 \in H
    <3>1. k - 1 \in 1..N + 1 /\ k - 1 # N + 1 /\ (k - 1) + 1 = k
      BY <1>0, <2>2
    <3>2. g[k - 1] = FillStep(q, have, g[k], k - 1)
      BY <2>0, <3>1
    <3>3. FillStep(q, have, g[k], k - 1) \in Fills
      BY <1>1, <2>2, <3>1
    <3> QED BY <3>1, <3>2, <3>3
  <2> HIDE DEF H
  <2>3. H = 1..N + 1
    BY <1>0, <2>1, <2>2, Downwards
  <2>4. \A k \in 1..N + 1 : g[k] \in Fills
    BY <2>3 DEF H
  <2>5. g = [k \in 1..N + 1 |-> g[k]]
    BY <1>7 DEF FilledUp
  <2> QED BY <2>4, <2>5
<1> QED BY <1>6, <1>7

Takes == [sum2 : Nat, dq : Nat]
Untaken(owed) == [sum2 |-> owed, dq |-> 0]

TakeStep(q, rest, owed, v, k) ==
  LET due == v.sum2
      dq == IF q[k] > 0 /\ rest > 0 /\ due > 0 THEN Lesser(due, q[k]) ELSE 0
  IN [sum2 |-> due - dq, dq |-> dq]

Taking(v, r) == r \in Takes /\ r.sum2 = v.sum2 - r.dq

LEMMA TakeStepTakes ==
  ASSUME NEW q \in Amounts, NEW rest \in Nat, NEW owed \in Nat, NEW v \in Takes, NEW k \in Levels
  PROVE  Taking(v, TakeStep(q, rest, owed, v, k))
<1> DEFINE due == v.sum2
           dq == IF q[k] > 0 /\ rest > 0 /\ due > 0 THEN Lesser(due, q[k]) ELSE 0
           r == [sum2 |-> due - dq, dq |-> dq]
<1>1. q[k] \in Int /\ due \in Nat
  BY DEF Amounts, Takes
<1>2. TakeStep(q, rest, owed, v, k) = r
  BY DEF TakeStep
<1> HIDE DEF due
<1>3. dq \in Nat /\ dq <= due
  BY <1>1 DEF Lesser
<1> HIDE DEF dq
<1>4. r \in Takes /\ r.sum2 = due - dq /\ r.dq = dq
  BY <1>1, <1>3 DEF Takes
<1> HIDE DEF r
<1> QED BY <1>2, <1>4 DEF Taking, due

LEMMA TakeStepIs ==
  ASSUME NEW q \in Amounts, NEW rest \in Nat, NEW owed \in Nat, NEW v \in Takes,
         NEW k \in 1..(N + 1), k # N + 1
  PROVE  TakeStep(q, rest, owed, v, k) \in Takes
<1>1. k \in Levels
  BY LevelsAre
<1> QED BY <1>1, TakeStepTakes DEF Taking

TakenUp(q, rest, owed, f) ==
  f = [k \in 1..N + 1 |-> IF k = N + 1 THEN Untaken(owed) ELSE TakeStep(q, rest, owed, f[k + 1], k)]

LEMMA TakenUpExists ==
  ASSUME NEW q \in Amounts, NEW rest \in Nat, NEW owed \in Nat
  PROVE  (\E f : TakenUp(q, rest, owed, f)) /\ \A f : TakenUp(q, rest, owed, f) => f \in [1..N + 1 -> Takes]
<1> DEFINE base == Untaken(owed)
           step == [p \in Takes \X (1..N + 1) |-> IF p[2] = N + 1 THEN base ELSE TakeStep(q, rest, owed, p[1], p[2])]
<1>0. 1 \in Int /\ N + 1 \in Int /\ N + 1 \in 1..N + 1 /\ base \in Takes
  BY LevelsAre DEF Untaken, Takes
<1> HIDE DEF base
<1>1. ASSUME NEW v \in Takes, NEW k \in 1..N + 1, k # N + 1 PROVE TakeStep(q, rest, owed, v, k) \in Takes
  BY <1>1, TakeStepIs
<1>2. step \in [Takes \X (1..N + 1) -> Takes]
  <2>1. ASSUME NEW p \in Takes \X (1..N + 1)
        PROVE  (IF p[2] = N + 1 THEN base ELSE TakeStep(q, rest, owed, p[1], p[2])) \in Takes
    <3>1. p[1] \in Takes /\ p[2] \in 1..N + 1
      OBVIOUS
    <3> QED BY <1>0, <1>1, <3>1
  <2> QED BY <2>1
<1>3. FollowsDown(Takes, 1, N + 1, base, step)
  <2> HIDE DEF step
  <2> QED BY <1>0, <1>2, RecursionDown
<1>4. PICK f \in [1..N + 1 -> Takes] :
        f = [k \in 1..N + 1 |-> IF k = N + 1 THEN base ELSE step[<<f[k + 1], k>>]]
  BY <1>3 DEF FollowsDown
<1>5. ASSUME NEW k \in 1..N + 1, k # N + 1 PROVE step[<<f[k + 1], k>>] = TakeStep(q, rest, owed, f[k + 1], k)
  <2>1. k + 1 \in 1..N + 1
    BY <1>0, <1>5
  <2>2. f[k + 1] \in Takes
    BY <2>1
  <2> QED BY <1>5, <2>2
<1>6. TakenUp(q, rest, owed, f)
  <2> HIDE DEF step
  <2> QED BY <1>4, <1>5 DEF TakenUp, base
<1>7. ASSUME NEW g, TakenUp(q, rest, owed, g) PROVE g \in [1..N + 1 -> Takes]
  <2> DEFINE H == {k \in 1..N + 1 : g[k] \in Takes}
  <2>0. \A k \in 1..N + 1 : g[k] = IF k = N + 1 THEN base ELSE TakeStep(q, rest, owed, g[k + 1], k)
    BY <1>7 DEF TakenUp, base
  <2>1. N + 1 \in H /\ H \in SUBSET (1..N + 1)
    BY <1>0, <2>0
  <2>2. ASSUME NEW k \in 1..N + 1, k # 1, k \in H PROVE k - 1 \in H
    <3>1. k - 1 \in 1..N + 1 /\ k - 1 # N + 1 /\ (k - 1) + 1 = k
      BY <1>0, <2>2
    <3>2. g[k - 1] = TakeStep(q, rest, owed, g[k], k - 1)
      BY <2>0, <3>1
    <3>3. TakeStep(q, rest, owed, g[k], k - 1) \in Takes
      BY <1>1, <2>2, <3>1
    <3> QED BY <3>1, <3>2, <3>3
  <2> HIDE DEF H
  <2>3. H = 1..N + 1
    BY <1>0, <2>1, <2>2, Downwards
  <2>4. \A k \in 1..N + 1 : g[k] \in Takes
    BY <2>3 DEF H
  <2>5. g = [k \in 1..N + 1 |-> g[k]]
    BY <1>7 DEF TakenUp
  <2> QED BY <2>4, <2>5
<1> QED BY <1>6, <1>7

(* What a repair may make: no more than was owed. *)
Forgives(q, r) ==
  /\ r \in Amounts
  /\ Total(r) >= Total(q)
  /\ \A f : IsSum(f, Owed(q)) => Total(r) <= Total(q) + f[N]

LEMMA FillQIs ==
  ASSUME NEW q \in Amounts
  PROVE  Forgives(q, FillQ(q))
<1> DEFINE plus == [k \in Levels |-> Greater(q[k], 0)]
           have == Total(plus)
           filling == CHOOSE f : FilledUp(q, have, f)
           taking == CHOOSE f : TakenUp(q, filling[1].sum1, filling[1].sum2, f)
           r == [k \in Levels |-> q[k] + filling[k].dq - taking[k].dq]
<1>1. FillQ(q) = r
  BY DEF FillQ, FilledUp, TakenUp, FillStep, TakeStep, Unfilled, Untaken
<1>2. have \in Nat
  <2>1. plus \in Amounts /\ \A k \in Levels : plus[k] \in Nat
    BY DEF Amounts, Greater
  <2> HIDE DEF plus
  <2>2. PICK f : IsSum(f, plus) /\ have = f[N]
    BY <2>1, TotalIs DEF Amounts
  <2> QED BY <2>1, <2>2, SumsGrow, LevelsAre
<1> HIDE DEF plus, have
<1>3. FilledUp(q, have, filling) /\ filling \in [1..(N + 1) -> Fills]
  <2>1. FilledUp(q, have, filling)
    BY <1>2, FilledUpExists
  <2> HIDE DEF filling
  <2> QED BY <1>2, <2>1, FilledUpExists
<1> HIDE DEF filling
<1> DEFINE rest == filling[1].sum1
           owed == filling[1].sum2
<1>p. 1 \in 1..(N + 1) /\ N + 1 \in 1..(N + 1) /\ 1 \in Int /\ N + 1 \in Int
  BY LevelsAre
<1>4. rest \in Nat /\ owed \in Nat
  BY <1>3, <1>p DEF Fills
<1>5. TakenUp(q, rest, owed, taking) /\ taking \in [1..(N + 1) -> Takes]
  <2> HIDE DEF rest, owed
  <2>0. taking = CHOOSE f : TakenUp(q, rest, owed, f)
    BY DEF rest, owed
  <2> HIDE DEF taking
  <2>1. TakenUp(q, rest, owed, taking)
    BY <1>4, <2>0, TakenUpExists
  <2> QED BY <1>4, <2>1, TakenUpExists
<1> HIDE DEF taking
<1>6. filling[N + 1].sum2 = 0 /\ taking[N + 1].sum2 = owed
  BY <1>3, <1>5, <1>p DEF FilledUp, TakenUp, Unfilled, Untaken
<1> HIDE DEF rest, owed
<1>7. ASSUME NEW k \in Levels
      PROVE  Filling(q, filling[k + 1], k, filling[k]) /\ Taking(taking[k + 1], taking[k])
  <2>1. k \in 1..(N + 1) /\ k # N + 1 /\ k + 1 \in 1..(N + 1)
    BY LevelsAre
  <2>2. filling[k] = FillStep(q, have, filling[k + 1], k) /\ filling[k + 1] \in Fills
    BY <1>3, <2>1 DEF FilledUp
  <2>3. taking[k] = TakeStep(q, rest, owed, taking[k + 1], k) /\ taking[k + 1] \in Takes
    BY <1>5, <2>1 DEF TakenUp
  <2> QED BY <1>2, <1>4, <2>2, <2>3, FillStepFills, TakeStepTakes
<1>8. \A k \in 1..(N + 1) :
        filling[k].sum2 \in Nat /\ filling[k].dq \in Nat /\ taking[k].sum2 \in Nat /\ taking[k].dq \in Nat
  BY <1>3, <1>5 DEF Fills, Takes
<1>9. \A k \in Levels : k \in 1..(N + 1) /\ k + 1 \in 1..(N + 1) /\ q[k] \in Int
  BY LevelsAre DEF Amounts
<1>10. r \in Amounts
  BY <1>8, <1>9 DEF Amounts
<1> DEFINE e == [k \in 0..N |-> -(filling[k + 1].sum2 + taking[k + 1].sum2)]
<1>11. Passes(q, e, r)
  <2>1. e \in [0..N -> Int]
    <3>1. \A k \in 0..N : k + 1 \in 1..(N + 1)
      BY LevelsAre
    <3> QED BY <1>8, <3>1
  <2>2. ASSUME NEW k \in Levels PROVE r[k] = q[k] + (e[k] - e[k - 1])
    <3>1. k \in 0..N /\ k - 1 \in 0..N /\ (k - 1) + 1 = k
      BY LevelsAre
    <3>2. e[k] = -(filling[k + 1].sum2 + taking[k + 1].sum2)
          /\ e[k - 1] = -(filling[k].sum2 + taking[k].sum2)
      BY <3>1
    <3>3. r[k] = q[k] + filling[k].dq - taking[k].dq
      OBVIOUS
    <3>4. filling[k].sum2 = filling[k + 1].sum2 + filling[k].dq
          /\ taking[k].sum2 = taking[k + 1].sum2 - taking[k].dq
      BY <1>7 DEF Filling, Taking
    <3> HIDE DEF e, r
    <3> QED BY <1>8, <1>9, <3>2, <3>3, <3>4
  <2> HIDE DEF e, r
  <2> QED BY <2>1, <2>2 DEF Passes
<1>12. e[0] = -(filling[1].sum2 + taking[1].sum2) /\ e[N] = -(filling[N + 1].sum2 + taking[N + 1].sum2)
  BY LevelsAre
<1> HIDE DEF e, r
<1>13. Total(r) = Total(q) + taking[1].sum2
  <2>1. Total(r) = Total(q) + (e[N] - e[0])
    BY <1>10, <1>11, TotalsTelescope
  <2>2. filling[1].sum2 = owed
    BY DEF owed
  <2> QED BY <1>4, <1>6, <1>8, <1>12, <1>p, <2>1, <2>2, TotalIsInt
<1>14. taking[1].sum2 <= owed
  <2> DEFINE H == {k \in 1..(N + 1) : taking[k].sum2 <= owed}
  <2>1. N + 1 \in H /\ H \in SUBSET (1..(N + 1))
    BY <1>4, <1>6, <1>p
  <2>2. ASSUME NEW k \in 1..(N + 1), k # 1, k \in H PROVE k - 1 \in H
    <3>1. k - 1 \in Levels /\ (k - 1) + 1 = k /\ k - 1 \in 1..(N + 1)
      BY <2>2, LevelsAre
    <3>2. taking[k - 1].sum2 = taking[k].sum2 - taking[k - 1].dq
      BY <1>7, <3>1 DEF Taking
    <3>3. taking[k - 1].sum2 <= owed
      BY <1>4, <1>8, <2>2, <3>1, <3>2
    <3> QED BY <3>1, <3>3
  <2>3. H = 1..(N + 1)
    <3> HIDE DEF H
    <3> QED BY <1>p, <2>1, <2>2, Downwards
  <2> QED BY <1>p, <2>3
<1>15. ASSUME NEW f, IsSum(f, Owed(q)) PROVE owed <= f[N]
  <2>0. /\ \A k \in 0..N : f[k] \in Nat
        /\ \A k \in Levels : f[k] = f[k - 1] + Dim(0, q[k]) /\ Dim(0, q[k]) \in Nat
    BY <1>15, OwedIs
  <2> DEFINE H == {k \in 1..(N + 1) : filling[k].sum2 <= f[N] - f[k - 1]}
  <2>1. N + 1 \in H /\ H \in SUBSET (1..(N + 1))
    <3>1. (N + 1) - 1 = N /\ f[N] \in Nat
      BY <2>0, LevelsAre
    <3> QED BY <1>6, <1>p, <3>1
  <2>2. ASSUME NEW k \in 1..(N + 1), k # 1, k \in H PROVE k - 1 \in H
    <3> DEFINE j == k - 1
    <3>1. j \in Levels /\ j + 1 = k /\ j \in 1..(N + 1) /\ j \in 0..N /\ j - 1 \in 0..N /\ N \in 0..N
      BY <2>2, LevelsAre
    <3>2. filling[k].sum2 <= f[N] - f[j]
      BY <2>2
    <3> HIDE DEF j
    <3>3. filling[j].sum2 = filling[k].sum2 + filling[j].dq /\ filling[j].dq <= Dim(0, q[j])
      BY <1>7, <3>1 DEF Filling
    <3>4. f[j] = f[j - 1] + Dim(0, q[j]) /\ Dim(0, q[j]) \in Nat /\ f[j] \in Nat /\ f[j - 1] \in Nat
          /\ f[N] \in Nat
      BY <2>0, <3>1
    <3>5. filling[j].sum2 \in Nat /\ filling[k].sum2 \in Nat /\ filling[j].dq \in Nat
      BY <1>8, <3>1
    <3>6. filling[j].sum2 <= f[N] - f[j - 1]
      BY <3>2, <3>3, <3>4, <3>5
    <3>7. j \in H
      BY <3>1, <3>6
    <3> QED BY <3>7 DEF j
  <2>3. H = 1..(N + 1)
    <3> HIDE DEF H
    <3> QED BY <1>p, <2>1, <2>2, Downwards
  <2>4. filling[1].sum2 <= f[N] - f[0]
    <3>1. 1 - 1 = 0
      OBVIOUS
    <3> QED BY <1>p, <2>3, <3>1
  <2>5. f[0] = 0 /\ f[N] \in Nat
    BY <1>15, <2>0, LevelsAre DEF IsSum
  <2> QED BY <2>4, <2>5 DEF owed
<1>16. Total(q) \in Int /\ taking[1].sum2 \in Nat
  BY <1>8, <1>p, TotalIsInt
<1>17. ASSUME NEW f, IsSum(f, Owed(q)) PROVE Total(r) <= Total(q) + f[N]
  <2>1. f[N] \in Int
    BY <1>17, LevelsAre DEF IsSum
  <2> QED BY <1>4, <1>13, <1>14, <1>15, <1>16, <1>17, <2>1
<1>18. Forgives(q, r)
  BY <1>10, <1>13, <1>16, <1>17 DEF Forgives
<1> QED BY <1>1, <1>18

-----------------------------------------------------------------------------
(* fill_GFS_delp. *)
UpStep(q, v, k) == q[k] + Lesser(v, 0)
DownStep(q, v, k) == q[k] + Lesser(v, 0)

LEMMA UpStepIs ==
  ASSUME NEW q \in Amounts, NEW v \in Int, NEW k \in 1..N, k # N
  PROVE  UpStep(q, v, k) \in Int
  BY LevelsAre DEF UpStep, Lesser, Amounts

LEMMA DownStepIs ==
  ASSUME NEW q \in Amounts, NEW v \in Int, NEW k \in 1..N, k # 1
  PROVE  DownStep(q, v, k) \in Int
  BY LevelsAre DEF DownStep, Lesser, Amounts

HandsUp(q, f) ==
  f = [k \in 1..N |-> IF k = N THEN q[N] ELSE UpStep(q, f[k + 1], k)]

LEMMA HandsUpExists ==
  ASSUME NEW q \in Amounts
  PROVE  (\E f : HandsUp(q, f)) /\ \A f : HandsUp(q, f) => f \in [1..N -> Int]
<1> DEFINE base == q[N]
           step == [p \in Int \X (1..N) |-> IF p[2] = N THEN base ELSE UpStep(q, p[1], p[2])]
<1>0. 1 \in Int /\ N \in Int /\ N \in 1..N /\ base \in Int
  BY LevelsAre DEF Amounts
<1> HIDE DEF base
<1>1. ASSUME NEW v \in Int, NEW k \in 1..N, k # N PROVE UpStep(q, v, k) \in Int
  BY <1>1, UpStepIs
<1>2. step \in [Int \X (1..N) -> Int]
  <2>1. ASSUME NEW p \in Int \X (1..N)
        PROVE  (IF p[2] = N THEN base ELSE UpStep(q, p[1], p[2])) \in Int
    <3>1. p[1] \in Int /\ p[2] \in 1..N
      OBVIOUS
    <3> QED BY <1>0, <1>1, <3>1
  <2> QED BY <2>1
<1>3. FollowsDown(Int, 1, N, base, step)
  <2> HIDE DEF step
  <2> QED BY <1>0, <1>2, RecursionDown
<1>4. PICK f \in [1..N -> Int] :
        f = [k \in 1..N |-> IF k = N THEN base ELSE step[<<f[k + 1], k>>]]
  BY <1>3 DEF FollowsDown
<1>5. ASSUME NEW k \in 1..N, k # N PROVE step[<<f[k + 1], k>>] = UpStep(q, f[k + 1], k)
  <2>1. k + 1 \in 1..N
    BY <1>0, <1>5
  <2>2. f[k + 1] \in Int
    BY <2>1
  <2> QED BY <1>5, <2>2
<1>6. HandsUp(q, f)
  <2> HIDE DEF step
  <2> QED BY <1>4, <1>5 DEF HandsUp, base
<1>7. ASSUME NEW g, HandsUp(q, g) PROVE g \in [1..N -> Int]
  <2> DEFINE H == {k \in 1..N : g[k] \in Int}
  <2>0. \A k \in 1..N : g[k] = IF k = N THEN base ELSE UpStep(q, g[k + 1], k)
    BY <1>7 DEF HandsUp, base
  <2>1. N \in H /\ H \in SUBSET (1..N)
    BY <1>0, <2>0
  <2>2. ASSUME NEW k \in 1..N, k # 1, k \in H PROVE k - 1 \in H
    <3>1. k - 1 \in 1..N /\ k - 1 # N /\ (k - 1) + 1 = k
      BY <1>0, <2>2
    <3>2. g[k - 1] = UpStep(q, g[k], k - 1)
      BY <2>0, <3>1
    <3>3. UpStep(q, g[k], k - 1) \in Int
      BY <1>1, <2>2, <3>1
    <3> QED BY <3>1, <3>2, <3>3
  <2> HIDE DEF H
  <2>3. H = 1..N
    BY <1>0, <2>1, <2>2, Downwards
  <2>4. \A k \in 1..N : g[k] \in Int
    BY <2>3 DEF H
  <2>5. g = [k \in 1..N |-> g[k]]
    BY <1>7 DEF HandsUp
  <2> QED BY <2>4, <2>5
<1> QED BY <1>6, <1>7

HandsOn(q, f) ==
  f = [k \in 1..N |-> IF k = 1 THEN q[1] ELSE DownStep(q, f[k - 1], k)]

LEMMA HandsOnExists ==
  ASSUME NEW q \in Amounts
  PROVE  (\E f : HandsOn(q, f)) /\ \A f : HandsOn(q, f) => f \in [1..N -> Int]
<1> DEFINE base == q[1]
           step == [p \in Int \X (1..N) |-> IF p[2] = 1 THEN base ELSE DownStep(q, p[1], p[2])]
<1>0. 1 \in Int /\ N \in Int /\ 1 \in 1..N /\ base \in Int
  BY LevelsAre DEF Amounts
<1> HIDE DEF base
<1>1. ASSUME NEW v \in Int, NEW k \in 1..N, k # 1 PROVE DownStep(q, v, k) \in Int
  BY <1>1, DownStepIs
<1>2. step \in [Int \X (1..N) -> Int]
  <2>1. ASSUME NEW p \in Int \X (1..N)
        PROVE  (IF p[2] = 1 THEN base ELSE DownStep(q, p[1], p[2])) \in Int
    <3>1. p[1] \in Int /\ p[2] \in 1..N
      OBVIOUS
    <3> QED BY <1>0, <1>1, <3>1
  <2> QED BY <2>1
<1>3. FollowsUp(Int, 1, N, base, step)
  <2> HIDE DEF step
  <2> QED BY <1>0, <1>2, RecursionUp
<1>4. PICK f \in [1..N -> Int] :
        f = [k \in 1..N |-> IF k = 1 THEN base ELSE step[<<f[k - 1], k>>]]
  BY <1>3 DEF FollowsUp
<1>5. ASSUME NEW k \in 1..N, k # 1 PROVE step[<<f[k - 1], k>>] = DownStep(q, f[k - 1], k)
  <2>1. k - 1 \in 1..N
    BY <1>0, <1>5
  <2>2. f[k - 1] \in Int
    BY <2>1
  <2> QED BY <1>5, <2>2
<1>6. HandsOn(q, f)
  <2> HIDE DEF step
  <2> QED BY <1>4, <1>5 DEF HandsOn, base
<1>7. ASSUME NEW g, HandsOn(q, g) PROVE g \in [1..N -> Int]
  <2> DEFINE H == {k \in 1..N : g[k] \in Int}
  <2>0. \A k \in 1..N : g[k] = IF k = 1 THEN base ELSE DownStep(q, g[k - 1], k)
    BY <1>7 DEF HandsOn, base
  <2>1. 1 \in H /\ H \in SUBSET (1..N)
    BY <1>0, <2>0
  <2>2. ASSUME NEW k \in 1..N, k # N, k \in H PROVE k + 1 \in H
    <3>1. k + 1 \in 1..N /\ k + 1 # 1 /\ (k + 1) - 1 = k
      BY <1>0, <2>2
    <3>2. g[k + 1] = DownStep(q, g[k], k + 1)
      BY <2>0, <3>1
    <3>3. DownStep(q, g[k], k + 1) \in Int
      BY <1>1, <2>2, <3>1
    <3> QED BY <3>1, <3>2, <3>3
  <2> HIDE DEF H
  <2>3. H = 1..N
    BY <1>0, <2>1, <2>2, Upwards
  <2>4. \A k \in 1..N : g[k] \in Int
    BY <2>3 DEF H
  <2>5. g = [k \in 1..N |-> g[k]]
    BY <1>7 DEF HandsOn
  <2> QED BY <2>4, <2>5
<1> QED BY <1>6, <1>7

LEMMA FillGfsDelpIs ==
  ASSUME NEW q \in Amounts
  PROVE  Forgives(q, FillGfsDelp(q)) /\ \A k \in Levels : FillGfsDelp(q)[k] >= 0
<1> DEFINE up == CHOOSE f : HandsUp(q, f)
           clipped == [k \in Levels |-> IF k = 1 THEN up[1] ELSE Greater(up[k], 0)]
           down == CHOOSE f : HandsOn(clipped, f)
           r == [k \in Levels |-> Greater(down[k], 0)]
<1>1. FillGfsDelp(q) = r
  BY DEF FillGfsDelp, HandsUp, HandsOn, UpStep, DownStep, Levels
<1>2. HandsUp(q, up) /\ up \in [1..N -> Int]
  <2>1. HandsUp(q, up)
    BY HandsUpExists
  <2> HIDE DEF up
  <2> QED BY <2>1, HandsUpExists
<1> HIDE DEF up
<1>3. clipped \in Amounts
  BY <1>2, LevelsAre DEF Amounts, Greater
<1>4. clipped[1] = up[1] /\ \A k \in Levels : k # 1 => clipped[k] = Greater(up[k], 0)
  BY LevelsAre
<1> HIDE DEF clipped
<1>5. HandsOn(clipped, down) /\ down \in [1..N -> Int]
  <2>1. HandsOn(clipped, down)
    BY <1>3, HandsOnExists
  <2> HIDE DEF down
  <2> QED BY <1>3, <2>1, HandsOnExists
<1> HIDE DEF down
<1>6. up[N] = q[N] /\ \A k \in Levels : k # N => up[k] = q[k] + Lesser(up[k + 1], 0)
  BY <1>2, LevelsAre DEF HandsUp, UpStep
<1>7. down[1] = clipped[1] /\ \A k \in Levels : k # 1 => down[k] = clipped[k] + Lesser(down[k - 1], 0)
  BY <1>5, LevelsAre DEF HandsOn, DownStep
<1>8. \A k \in Levels : up[k] \in Int /\ down[k] \in Int /\ clipped[k] \in Int /\ q[k] \in Int
  BY <1>2, <1>3, <1>5, LevelsAre DEF Amounts
<1>9. r \in Amounts /\ \A k \in Levels : r[k] >= 0 /\ r[k] = Greater(down[k], 0)
  BY <1>8 DEF Amounts, Greater
<1> HIDE DEF r
<1> DEFINE e == [k \in 0..N |-> IF k = 0 THEN 0
                                ELSE (IF k = N THEN 0 ELSE Lesser(up[k + 1], 0)) - Lesser(down[k], 0)]
<1>10. e \in [0..N -> Int]
  <2>1. ASSUME NEW k \in 0..N, k # 0
        PROVE  (IF k = N THEN 0 ELSE Lesser(up[k + 1], 0)) - Lesser(down[k], 0) \in Int
    <3>1. k \in Levels /\ (k # N => k + 1 \in Levels)
      BY <2>1, LevelsAre
    <3> QED BY <1>8, <3>1 DEF Lesser
  <2> QED BY <2>1
<1>11. ASSUME NEW k \in Levels PROVE r[k] = q[k] + (e[k] - e[k - 1])
  <2>0. k \in 0..N /\ k - 1 \in 0..N /\ k # 0 /\ (k - 1 = 0 <=> k = 1) /\ k - 1 # N
        /\ (k - 1) + 1 = k /\ (k # N => k + 1 \in Levels) /\ (k # 1 => k - 1 \in Levels)
    BY LevelsAre
  <2> DEFINE next == IF k = N THEN 0 ELSE Lesser(up[k + 1], 0)
             last == IF k = 1 THEN 0 ELSE Lesser(down[k - 1], 0)
  <2>1. e[k] = next - Lesser(down[k], 0)
    BY <2>0
  <2>2. e[k - 1] = IF k = 1 THEN 0 ELSE Lesser(up[k], 0) - last
    BY <2>0
  <2>3. up[k] = q[k] + next
    BY <1>6, <1>8
  <2>4. clipped[k] = IF k = 1 THEN up[k] ELSE Greater(up[k], 0)
    BY <1>4
  <2>5. down[k] = clipped[k] + last
    BY <1>7, <1>8
  <2>6. next \in Int /\ last \in Int /\ (k = 1 => last = 0)
    BY <1>8, <2>0 DEF Lesser
  <2> HIDE DEF e, next, last
  <2>7. Greater(up[k], 0) = up[k] - Lesser(up[k], 0) /\ Greater(down[k], 0) = down[k] - Lesser(down[k], 0)
        /\ Lesser(up[k], 0) \in Int /\ Lesser(down[k], 0) \in Int
    BY <1>8 DEF Greater, Lesser
  <2> QED BY <1>8, <1>9, <2>1, <2>2, <2>3, <2>4, <2>5, <2>6, <2>7
<1>12. e[0] = 0 /\ e[N] = 0 - Lesser(down[N], 0)
  BY LevelsAre
<1> HIDE DEF e
<1>13. Total(r) = Total(q) - Lesser(down[N], 0)
  <2>1. Passes(q, e, r)
    BY <1>10, <1>11 DEF Passes
  <2>2. Total(r) = Total(q) + (e[N] - e[0])
    BY <1>9, <2>1, TotalsTelescope
  <2>3. Lesser(down[N], 0) \in Int
    BY <1>8, LevelsAre DEF Lesser
  <2> QED BY <1>12, <2>2, <2>3, TotalIsInt
<1>14. ASSUME NEW f, IsSum(f, Owed(q)) PROVE -Lesser(up[1], 0) <= f[N]
  <2>0. /\ \A k \in 0..N : f[k] \in Nat
        /\ \A k \in Levels : f[k] = f[k - 1] + Dim(0, q[k]) /\ Dim(0, q[k]) \in Nat
    BY <1>14, OwedIs
  <2> DEFINE H == {k \in 1..N : -Lesser(up[k], 0) <= f[N] - f[k - 1]}
  <2>1. N \in H /\ H \in SUBSET (1..N)
    <3>1. f[N] = f[N - 1] + Dim(0, q[N]) /\ f[N] \in Nat /\ f[N - 1] \in Nat /\ q[N] \in Int
      <4>1. N \in Levels /\ N \in 0..N /\ N - 1 \in 0..N
        BY LevelsAre
      <4> QED BY <1>8, <2>0, <4>1
    <3>2. -Lesser(up[N], 0) <= f[N] - f[N - 1]
      BY <1>6, <3>1 DEF Lesser, Dim, Greater
    <3> QED BY <3>2, LevelsAre
  <2>2. ASSUME NEW k \in 1..N, k # 1, k \in H PROVE k - 1 \in H
    <3> DEFINE j == k - 1
    <3>1. j \in Levels /\ j + 1 = k /\ k \in Levels /\ j # N /\ j \in 1..N /\ j \in 0..N /\ j - 1 \in 0..N
          /\ N \in 0..N
      BY <2>2, LevelsAre
    <3>2. -Lesser(up[k], 0) <= f[N] - f[j]
      BY <2>2
    <3> HIDE DEF j
    <3>3. up[j] = q[j] + Lesser(up[k], 0)
      BY <1>6, <3>1
    <3>4. f[j] = f[j - 1] + Dim(0, q[j]) /\ f[j] \in Nat /\ f[j - 1] \in Nat /\ f[N] \in Nat
          /\ q[j] \in Int /\ up[k] \in Int /\ up[j] \in Int
      BY <1>8, <2>0, <3>1
    <3>5. -Lesser(up[j], 0) <= f[N] - f[j - 1]
      BY <3>2, <3>3, <3>4 DEF Lesser, Dim, Greater
    <3>6. j \in H
      BY <3>1, <3>5
    <3> QED BY <3>6 DEF j
  <2>3. H = 1..N
    <3> HIDE DEF H
    <3> QED BY <2>1, <2>2, LevelsAre, Downwards
  <2>4. -Lesser(up[1], 0) <= f[N] - f[0]
    <3>1. 1 - 1 = 0
      OBVIOUS
    <3> QED BY <2>3, <3>1, LevelsAre
  <2>5. f[0] = 0 /\ f[N] \in Nat
    BY <1>14, <2>0, LevelsAre DEF IsSum
  <2> QED BY <2>4, <2>5
<1>15. -Lesser(down[N], 0) <= -Lesser(up[1], 0)
  <2> DEFINE H == {k \in 1..N : -Lesser(down[k], 0) <= -Lesser(up[1], 0)}
  <2>0. up[1] \in Int
    BY <1>8, LevelsAre
  <2>1. 1 \in H /\ H \in SUBSET (1..N)
    BY <1>4, <1>7, <2>0, LevelsAre DEF Lesser
  <2>2. ASSUME NEW k \in 1..N, k # N, k \in H PROVE k + 1 \in H
    <3>1. k + 1 \in Levels /\ k + 1 # 1 /\ (k + 1) - 1 = k /\ k \in Levels /\ k + 1 \in 1..N
      BY <2>2, LevelsAre
    <3>2. down[k + 1] = clipped[k + 1] + Lesser(down[k], 0) /\ clipped[k + 1] = Greater(up[k + 1], 0)
      BY <1>4, <1>7, <3>1
    <3>3. down[k] \in Int /\ up[k + 1] \in Int
      BY <1>8, <3>1
    <3>4. -Lesser(down[k], 0) <= -Lesser(up[1], 0)
      BY <2>2
    <3>5. -Lesser(down[k + 1], 0) <= -Lesser(up[1], 0)
      BY <2>0, <3>2, <3>3, <3>4 DEF Lesser, Greater
    <3> QED BY <3>1, <3>5
  <2>3. H = 1..N
    <3> HIDE DEF H
    <3> QED BY <2>1, <2>2, LevelsAre, Upwards
  <2> QED BY <2>3, LevelsAre
<1>16. /\ Lesser(down[N], 0) \in Int /\ Lesser(down[N], 0) <= 0 /\ Lesser(up[1], 0) \in Int
       /\ Total(q) \in Int
  BY <1>8, LevelsAre, TotalIsInt DEF Lesser
<1>17. ASSUME NEW f, IsSum(f, Owed(q)) PROVE Total(r) <= Total(q) + f[N]
  <2>1. f[N] \in Int
    BY <1>17, LevelsAre DEF IsSum
  <2>2. -Lesser(up[1], 0) <= f[N]
    BY <1>14, <1>17
  <2> QED BY <1>13, <1>15, <1>16, <2>1, <2>2
<1>18. Forgives(q, r)
  BY <1>9, <1>13, <1>16, <1>17 DEF Forgives
<1> QED BY <1>1, <1>9, <1>18

-----------------------------------------------------------------------------
(* What a change of the column does to its water. *)
Taken(c, s) == [k \in Levels |-> c[k][s]]
Replaced(c, s, q) == [k \in Levels |-> [c[k] EXCEPT ![s] = q[k]]]

LEMMA CellsAre ==
  ASSUME NEW c \in Cells
  PROVE  /\ \A s \in Species : c[s] \in Int
         /\ c.qv \in Int /\ c.ql \in Int /\ c.qr \in Int /\ c.qi \in Int /\ c.qs \in Int /\ c.qg \in Int
  BY DEF Cells, Species

LEMMA WatersAre ==
  ASSUME NEW c \in WaterColumns
  PROVE  \A k \in 0..N : WaterDownTo(c, k) \in Int
<1>1. IsSum(Down(c), Waters(c))
  BY DownIs
<1>2. \A k \in 0..N : Down(c)[k] = WaterDownTo(c, k)
  BY DEF Down
<1> QED BY <1>1, <1>2 DEF IsSum

WatersApart(c, e, d) == \A k \in 0..N : WaterDownTo(d, k) = WaterDownTo(c, k) + (e[k] - e[0])

LEMMA WatersTelescope ==
  ASSUME NEW c \in WaterColumns, NEW d \in WaterColumns, NEW e, Passes(Waters(c), e, Waters(d))
  PROVE  WatersApart(c, e, d)
<1>1. IsSum(Down(c), Waters(c)) /\ IsSum(Down(d), Waters(d))
  BY DownIs
<1>2. Apart(Down(c), e, Down(d))
  BY <1>1, Telescopes
<1>3. \A k \in 0..N : Down(c)[k] = WaterDownTo(c, k) /\ Down(d)[k] = WaterDownTo(d, k)
  BY DEF Down
<1> QED BY <1>2, <1>3 DEF Apart, WatersApart

SameWaters(c, d) == d \in WaterColumns /\ \A k \in 0..N : WaterDownTo(d, k) = WaterDownTo(c, k)

LEMMA WatersAgree ==
  ASSUME NEW c \in WaterColumns, NEW d \in WaterColumns, \A k \in Levels : Water(d[k]) = Water(c[k])
  PROVE  SameWaters(c, d)
<1> DEFINE e == [k \in 0..N |-> 0]
<1>1. Passes(Waters(c), e, Waters(d))
  <2>1. \A k \in Levels : k \in 0..N /\ k - 1 \in 0..N
    BY LevelsAre
  <2>2. \A k \in Levels : Waters(d)[k] = Waters(c)[k] /\ Waters(c)[k] \in Int
    <3>1. \A k \in Levels : Waters(d)[k] = Water(d[k]) /\ Waters(c)[k] = Water(c[k])
      BY DEF Waters
    <3>2. \A k \in Levels : c[k] \in Cells
      BY DEF WaterColumns
    <3> QED BY <3>1, <3>2, WaterIsInt
  <2> QED BY <2>1, <2>2 DEF Passes
<1>2. \A k \in 0..N : e[k] = 0 /\ e[0] = 0
  BY LevelsAre
<1> HIDE DEF e
<1>3. WatersApart(c, e, d)
  BY <1>1, WatersTelescope
<1>4. \A k \in 0..N : WaterDownTo(c, k) \in Int
  BY WatersAre
<1> QED BY <1>2, <1>3, <1>4 DEF SameWaters, WatersApart

(* One cell that keeps its water, or not. *)
LEMMA CellChanged ==
  ASSUME NEW c \in WaterColumns, NEW l \in Levels, NEW x \in Cells
  PROVE  /\ [c EXCEPT ![l] = x] \in WaterColumns
         /\ [c EXCEPT ![l] = x][l] = x
         /\ \A k \in Levels : k # l => [c EXCEPT ![l] = x][k] = c[k]
  BY DEF WaterColumns

LEMMA CellKept ==
  ASSUME NEW c \in WaterColumns, NEW l \in Levels, NEW x \in Cells, Water(x) = Water(c[l])
  PROVE  SameWaters(c, [c EXCEPT ![l] = x])
<1> DEFINE d == [c EXCEPT ![l] = x]
<1>1. d \in WaterColumns /\ \A k \in Levels : Water(d[k]) = Water(c[k])
  BY CellChanged
<1> HIDE DEF d
<1>2. SameWaters(c, d)
  BY <1>1, WatersAgree
<1> QED BY <1>2 DEF d

LEMMA CellMixed ==
  ASSUME NEW c \in WaterColumns, NEW l \in Levels, NEW x \in Cells
  PROVE  WaterDownTo([c EXCEPT ![l] = x], N) = WaterDownTo(c, N) + (Water(x) - Water(c[l]))
<1> DEFINE d == [c EXCEPT ![l] = x]
           n == Water(x) - Water(c[l])
           e == [k \in 0..N |-> IF k >= l THEN n ELSE 0]
<1>0. c[l] \in Cells
  BY DEF WaterColumns
<1>1. n \in Int
  BY <1>0, WaterIsInt
<1>2. d \in WaterColumns /\ d[l] = x /\ \A k \in Levels : k # l => d[k] = c[k]
  BY CellChanged
<1>3. Passes(Waters(c), e, Waters(d))
  <2>1. e \in [0..N -> Int]
    BY <1>1
  <2>2. ASSUME NEW k \in Levels PROVE Waters(d)[k] = Waters(c)[k] + (e[k] - e[k - 1])
    <3>1. k \in 0..N /\ k - 1 \in 0..N /\ k \in Int /\ l \in Int
      BY LevelsAre
    <3>2. Waters(d)[k] = Water(d[k]) /\ Waters(c)[k] = Water(c[k])
      BY DEF Waters
    <3>3. c[k] \in Cells
      BY DEF WaterColumns
    <3>4. Water(c[k]) \in Int /\ Water(x) \in Int /\ Water(c[l]) \in Int
      BY <1>0, <3>3, WaterIsInt
    <3>5. Water(d[k]) = IF k = l THEN Water(x) ELSE Water(c[k])
      BY <1>2
    <3>6. e[k] = (IF k >= l THEN n ELSE 0) /\ e[k - 1] = IF k - 1 >= l THEN n ELSE 0
      BY <3>1
    <3>7. CASE k = l
      <4>1. e[k] = n /\ e[k - 1] = 0
        BY <3>1, <3>6, <3>7
      <4> HIDE DEF e, d
      <4> QED BY <3>2, <3>4, <3>5, <3>7, <4>1 DEF n
    <3>8. CASE k # l
      <4>1. e[k] = e[k - 1] /\ e[k] \in Int
        BY <1>1, <3>1, <3>6, <3>8
      <4> HIDE DEF e, d
      <4> QED BY <3>2, <3>4, <3>5, <3>8, <4>1
    <3> QED BY <3>7, <3>8
  <2> HIDE DEF e
  <2> QED BY <2>1, <2>2 DEF Passes
<1>4. e[0] = 0 /\ e[N] = n
  BY LevelsAre
<1> HIDE DEF e, d
<1>5. WatersApart(c, e, d)
  BY <1>2, <1>3, WatersTelescope
<1>6. WaterDownTo(d, N) = WaterDownTo(c, N) + (e[N] - e[0])
  BY <1>5, LevelsAre DEF WatersApart
<1>7. n - 0 = n
  BY <1>1
<1>8. WaterDownTo(d, N) = WaterDownTo(c, N) + n
  <2> HIDE DEF n
  <2> QED BY <1>4, <1>6, <1>7
<1> QED BY <1>8 DEF d

(* One species of every cell replaced. *)
ReplacedIn(c, s, q, d) ==
  /\ d \in WaterColumns
  /\ \A k \in Levels : /\ d[k][s] = q[k]
                       /\ \A t \in Species : t # s => d[k][t] = c[k][t]
                       /\ Water(d[k]) = Water(c[k]) + (q[k] - c[k][s])

LEMMA ReplacedIs ==
  ASSUME NEW c \in WaterColumns, NEW s \in Species, NEW q \in Amounts
  PROVE  ReplacedIn(c, s, q, Replaced(c, s, q))
<1> DEFINE d == Replaced(c, s, q)
<1>1. ASSUME NEW k \in Levels
      PROVE  /\ d[k] \in Cells /\ d[k][s] = q[k]
             /\ \A t \in Species : t # s => d[k][t] = c[k][t]
             /\ Water(d[k]) = Water(c[k]) + (q[k] - c[k][s])
  <2> DEFINE x == c[k]
             n == q[k]
             y == [x EXCEPT ![s] = n]
  <2>0. d[k] = y
    BY DEF Replaced
  <2>1. x \in Cells /\ n \in Int
    BY DEF WaterColumns, Amounts
  <2> HIDE DEF x, n
  <2>2. y \in Cells /\ y[s] = n /\ \A t \in Species : t # s => y[t] = x[t]
    BY <2>1 DEF Cells
  <2> HIDE DEF y
  <2>3. Water(y) = Water(x) + (n - x[s])
    <3>1. /\ x.qv \in Int /\ x.ql \in Int /\ x.qr \in Int /\ x.qi \in Int /\ x.qs \in Int /\ x.qg \in Int
      BY <2>1, CellsAre
    <3>2. CASE s = "qv"
      BY <2>1, <2>2, <3>1, <3>2 DEF Water, Species
    <3>3. CASE s = "ql"
      BY <2>1, <2>2, <3>1, <3>3 DEF Water, Species
    <3>4. CASE s = "qr"
      BY <2>1, <2>2, <3>1, <3>4 DEF Water, Species
    <3>5. CASE s = "qi"
      BY <2>1, <2>2, <3>1, <3>5 DEF Water, Species
    <3>6. CASE s = "qs"
      BY <2>1, <2>2, <3>1, <3>6 DEF Water, Species
    <3>7. CASE s = "qg"
      BY <2>1, <2>2, <3>1, <3>7 DEF Water, Species
    <3> QED BY <3>2, <3>3, <3>4, <3>5, <3>6, <3>7 DEF Species
  <2> QED BY <2>0, <2>2, <2>3 DEF x, n
<1>2. d = [k \in Levels |-> d[k]]
  BY DEF Replaced
<1> HIDE DEF d
<1>3. d \in WaterColumns
  BY <1>1, <1>2 DEF WaterColumns
<1>4. ReplacedIn(c, s, q, d)
  BY <1>1, <1>3 DEF ReplacedIn
<1> QED BY <1>4 DEF d

(* The water changes by what the species gains. *)
LEMMA ReplacedWater ==
  ASSUME NEW c \in WaterColumns, NEW s \in Species, NEW q \in Amounts
  PROVE  WaterDownTo(Replaced(c, s, q), N) = WaterDownTo(c, N) + (Total(q) - Total(Taken(c, s)))
<1> DEFINE d == Replaced(c, s, q)
           p == Taken(c, s)
<1>1. ReplacedIn(c, s, q, d)
  BY ReplacedIs
<1> HIDE DEF d
<1>2. p \in Amounts /\ \A k \in Levels : p[k] = c[k][s] /\ c[k] \in Cells
  <2>1. \A k \in Levels : c[k] \in Cells
    BY DEF WaterColumns
  <2> QED BY <2>1, CellsAre DEF Taken, Amounts
<1> HIDE DEF p
<1>3. PICK f : IsSum(f, p) /\ Total(p) = f[N]
  BY <1>2, TotalIs DEF Amounts
<1>4. PICK g : IsSum(g, q) /\ Total(q) = g[N]
  BY TotalIs DEF Amounts
<1> DEFINE e == [k \in 0..N |-> g[k] - f[k]]
<1>5. \A k \in 0..N : f[k] \in Int /\ g[k] \in Int
  BY <1>3, <1>4 DEF IsSum
<1>6. Passes(Waters(c), e, Waters(d))
  <2>1. e \in [0..N -> Int]
    BY <1>5
  <2>2. ASSUME NEW k \in Levels PROVE Waters(d)[k] = Waters(c)[k] + (e[k] - e[k - 1])
    <3>1. k \in 0..N /\ k - 1 \in 0..N
      BY LevelsAre
    <3>2. Waters(d)[k] = Water(d[k]) /\ Waters(c)[k] = Water(c[k])
      BY DEF Waters
    <3>3. Water(d[k]) = Water(c[k]) + (q[k] - p[k]) /\ Water(c[k]) \in Int
      BY <1>1, <1>2, WaterIsInt DEF ReplacedIn
    <3>4. e[k] = g[k] - f[k] /\ e[k - 1] = g[k - 1] - f[k - 1]
      BY <3>1
    <3>5. f[k] = f[k - 1] + p[k] /\ g[k] = g[k - 1] + q[k]
      BY <1>3, <1>4 DEF IsSum
    <3>6. f[k] \in Int /\ f[k - 1] \in Int /\ g[k] \in Int /\ g[k - 1] \in Int /\ p[k] \in Int /\ q[k] \in Int
      BY <1>2, <1>5, <3>1 DEF Amounts
    <3> HIDE DEF e
    <3> QED BY <3>2, <3>3, <3>4, <3>5, <3>6
  <2> HIDE DEF e
  <2> QED BY <2>1, <2>2 DEF Passes
<1>7. e[0] = 0 /\ e[N] = g[N] - f[N]
  BY <1>3, <1>4, LevelsAre DEF IsSum
<1> HIDE DEF e
<1>8. WatersApart(c, e, d)
  BY <1>1, <1>6, WatersTelescope DEF ReplacedIn
<1>9. WaterDownTo(d, N) = WaterDownTo(c, N) + (e[N] - e[0])
  BY <1>8, LevelsAre DEF WatersApart
<1>10. (g[N] - f[N]) - 0 = Total(q) - Total(p)
  BY <1>3, <1>4, <1>5, LevelsAre
<1>11. WaterDownTo(d, N) = WaterDownTo(c, N) + (Total(q) - Total(p))
  BY <1>7, <1>9, <1>10
<1> QED BY <1>11 DEF d, p

LEMMA TakenIs ==
  ASSUME NEW c \in WaterColumns, NEW s \in Species
  PROVE  /\ Taken(c, s) \in Amounts
         /\ \A k \in Levels : Taken(c, s)[k] = c[k][s]
         /\ \E f : IsSum(f, Owed(Taken(c, s))) /\ BelowZero(c, s) = f[N]
<1>1. \A k \in Levels : c[k] \in Cells
  BY DEF WaterColumns
<1>2. Taken(c, s) \in Amounts /\ \A k \in Levels : Taken(c, s)[k] = c[k][s]
  BY <1>1, CellsAre DEF Taken, Amounts
<1>3. Owed(Taken(c, s)) = Debts(c, s)
  BY <1>2 DEF Owed, Debts
<1> QED BY <1>2, <1>3, DebtIs

(* What falls leaves the levels above. *)
Falls(c, s, f) == Replaced(c, s, [k \in Levels |-> c[k][s] + f[k - 1] - f[k]])

FallenFrom(c, s, f, d) ==
  /\ d \in WaterColumns
  /\ \A k \in 0..N : WaterDownTo(d, k) = WaterDownTo(c, k) - f[k]
  /\ (\A k \in Levels : c[k][s] >= 0) => \A k \in Levels : d[k][s] >= 0
  /\ \A k \in Levels, t \in Species : t # s => d[k][t] = c[k][t]

(* Where there is no level below zero, what passes is not below zero, and  *)
(* no more than what came from above and what was there.                   *)
LEMMA SharesArePresent ==
  ASSUME NEW a \in Amounts, NEW f \in [0..N -> Int], f[0] = 0,
         \A k \in Levels : f[k] \in ShareOf(f[k - 1] + a[k]),
         \A k \in Levels : a[k] >= 0
  PROVE  \A k \in Levels : f[k] <= f[k - 1] + a[k]
<1>0. \A k \in Levels : k \in 0..N /\ k - 1 \in 0..N /\ f[k - 1] \in Int /\ f[k] \in Int /\ a[k] \in Int
  BY LevelsAre DEF Amounts
<1>1. ASSUME NEW k \in Levels, f[k - 1] >= 0
      PROVE  f[k] >= 0 /\ f[k] <= f[k - 1] + a[k]
  <2>1. f[k - 1] + a[k] \in Int /\ f[k - 1] + a[k] >= 0
    BY <1>0, <1>1
  <2> QED BY <1>0, <2>1 DEF ShareOf, Lesser, Greater
<1> DEFINE H == {k \in 0..N : f[k] >= 0}
<1>2. H = 0..N
  <2>1. 0 \in H
    BY LevelsAre
  <2>2. ASSUME NEW k \in 0..N, k # N, k \in H PROVE k + 1 \in H
    <3>1. k + 1 \in Levels /\ (k + 1) - 1 = k /\ k + 1 \in 0..N
      BY <2>2, LevelsAre
    <3>2. f[k + 1] >= 0
      BY <1>1, <2>2, <3>1
    <3> QED BY <3>1, <3>2
  <2>3. H \in SUBSET (0..N)
    OBVIOUS
  <2> HIDE DEF H
  <2> QED BY <2>1, <2>2, <2>3, LevelsAre, Upwards
<1> QED BY <1>0, <1>1, <1>2

LEMMA FallingKeeps ==
  ASSUME NEW c \in WaterColumns, NEW s \in Species, NEW f \in [0..N -> Int], f[0] = 0,
         \A k \in Levels : f[k] \in ShareOf(f[k - 1] + c[k][s])
  PROVE  FallenFrom(c, s, f, Falls(c, s, f))
<1> DEFINE q == [k \in Levels |-> c[k][s] + f[k - 1] - f[k]]
           d == Replaced(c, s, q)
           e == [k \in 0..N |-> -f[k]]
<1>1. \A k \in Levels : k \in 0..N /\ k - 1 \in 0..N /\ c[k] \in Cells /\ c[k][s] \in Int
        /\ f[k] \in Int /\ f[k - 1] \in Int
  <2>1. \A k \in Levels : k \in 0..N /\ k - 1 \in 0..N /\ c[k] \in Cells
    BY LevelsAre DEF WaterColumns
  <2> QED BY <2>1, CellsAre
<1>2. q \in Amounts /\ \A k \in Levels : q[k] = c[k][s] + f[k - 1] - f[k]
  BY <1>1 DEF Amounts
<1> HIDE DEF q
<1>3. ReplacedIn(c, s, q, d)
  BY <1>2, ReplacedIs
<1> HIDE DEF d
<1>4. Passes(Waters(c), e, Waters(d))
  <2>1. e \in [0..N -> Int]
    OBVIOUS
  <2>2. ASSUME NEW k \in Levels PROVE Waters(d)[k] = Waters(c)[k] + (e[k] - e[k - 1])
    <3>1. Waters(d)[k] = Water(d[k]) /\ Waters(c)[k] = Water(c[k])
      BY DEF Waters
    <3>2. Water(d[k]) = Water(c[k]) + (q[k] - c[k][s]) /\ Water(c[k]) \in Int
      BY <1>1, <1>3, WaterIsInt DEF ReplacedIn
    <3>3. e[k] = -f[k] /\ e[k - 1] = -f[k - 1]
      BY <1>1
    <3> HIDE DEF e
    <3> QED BY <1>1, <1>2, <3>1, <3>2, <3>3
  <2> HIDE DEF e
  <2> QED BY <2>1, <2>2 DEF Passes
<1>5. WatersApart(c, e, d)
  <2> HIDE DEF e
  <2> QED BY <1>3, <1>4, WatersTelescope DEF ReplacedIn
<1>6. ASSUME NEW k \in 0..N PROVE WaterDownTo(d, k) = WaterDownTo(c, k) - f[k]
  <2>1. e[k] = -f[k] /\ e[0] = 0 /\ f[k] \in Int
    BY LevelsAre
  <2>2. WaterDownTo(c, k) \in Int
    BY WatersAre
  <2> HIDE DEF e
  <2>3. WaterDownTo(d, k) = WaterDownTo(c, k) + (e[k] - e[0])
    BY <1>5 DEF WatersApart
  <2> QED BY <2>1, <2>2, <2>3
<1>7. ASSUME \A k \in Levels : c[k][s] >= 0
      PROVE  \A k \in Levels : d[k][s] >= 0
  <2> DEFINE a == Taken(c, s)
  <2>1. a \in Amounts /\ \A k \in Levels : a[k] = c[k][s]
    BY <1>1 DEF Taken, Amounts
  <2> HIDE DEF a
  <2>2. \A k \in Levels : f[k] <= f[k - 1] + a[k]
    BY <1>7, <2>1, SharesArePresent
  <2>3. \A k \in Levels : q[k] >= 0
    <3> TAKE k \in Levels
    <3>1. f[k] <= f[k - 1] + c[k][s]
      BY <2>1, <2>2
    <3> QED BY <1>1, <1>2, <3>1
  <2>4. \A k \in Levels : d[k][s] = q[k]
    BY <1>3 DEF ReplacedIn
  <2> QED BY <2>3, <2>4
<1>8. FallenFrom(c, s, f, d)
  BY <1>3, <1>6, <1>7 DEF FallenFrom, ReplacedIn
<1> QED BY <1>8 DEF d, q, Falls

-----------------------------------------------------------------------------
(* The program, step by step. *)
CoreIs == <<
  Step("fix_tracer", "qv"), Step("fix_tracer", "ql"), Step("fix_tracer", "qr"),
  Step("fix_tracer", "qi"), Step("fix_tracer", "qs"), Step("fix_tracer", "qg"),
  Step("satadjust", "all"), Step("fix_neg_water", "all"), Step("fillq", "qg"),
  Step("fillq", "qr"), Step("fix_water_vapor_down", "qv"), Step("m_loop", 1),
  Step("m_loop", 2), Step("m_loop", 3), Step("fields_init", "all")>>

MicrophysicsIs == <<
  Step("revap_racc", TRUE), Step("rain_falls", TRUE), Step("autoconv", TRUE), Step("accumulate", TRUE),
  Step("melt_before_fall", "all"), Step("ice_falls", "qi"), Step("snow_falls", "qs"),
  Step("graupel_falls", "qg"),
  Step("revap_racc", FALSE), Step("rain_falls", FALSE), Step("autoconv", FALSE), Step("accumulate", FALSE),
  Step("icloud", "all"), Step("subgrid_z_proc", "all")>>

EndIs == <<Step("fields_update", "all"), Step("fill_gfs_delp", "qv"), Step("dynamics", "all")>>

Steps == {CoreIs[i] : i \in 1..15} \cup {MicrophysicsIs[i] : i \in 1..14} \cup {EndIs[i] : i \in 1..3}

Join(s, m, t, n, u) ==
  /\ u \in Seq(Steps)
  /\ Len(u) = m + n
  /\ \A i \in 1..m : u[i] = s[i]
  /\ \A i \in 1..n : u[m + i] = t[i]

LEMMA Joined ==
  ASSUME NEW s \in Seq(Steps), NEW t \in Seq(Steps)
  PROVE  Join(s, Len(s), t, Len(t), s \o t)
<1> DEFINE S == Steps
<1> HIDE DEF S
<1>0. s \in Seq(S) /\ t \in Seq(S)
  BY DEF S
<1>1. Len(s) \in Nat /\ Len(t) \in Nat
  BY <1>0, LenProperties
<1>2. /\ s \o t \in Seq(S) /\ Len(s \o t) = Len(s) + Len(t)
      /\ \A i \in 1..(Len(s) + Len(t)) : (s \o t)[i] = IF i <= Len(s) THEN s[i] ELSE t[i - Len(s)]
  BY <1>0, ConcatProperties
<1>3. ASSUME NEW i \in 1..Len(s) PROVE (s \o t)[i] = s[i]
  <2>1. i \in 1..(Len(s) + Len(t)) /\ i <= Len(s)
    BY <1>1
  <2> QED BY <1>2, <2>1
<1>4. ASSUME NEW i \in 1..Len(t) PROVE (s \o t)[Len(s) + i] = t[i]
  <2> DEFINE j == Len(s) + i
  <2>1. j \in 1..(Len(s) + Len(t)) /\ ~ (j <= Len(s)) /\ j - Len(s) = i
    BY <1>1
  <2> HIDE DEF j
  <2>2. (s \o t)[j] = t[i]
    BY <1>2, <2>1
  <2> QED BY <2>2 DEF j
<1> QED BY <1>2, <1>3, <1>4 DEF Join, S

LEMMA EndsAre ==
  EndIs \in Seq(Steps) /\ Len(EndIs) = 3
<1>1. \A i \in 1..3 : EndIs[i] \in Steps
  BY DEF Steps
<1>2. Len(EndIs) = 3 /\ EndIs = [i \in 1..3 |-> EndIs[i]]
  BY DEF EndIs
<1> HIDE DEF EndIs
<1> QED BY <1>1, <1>2

LEMMA MicrophysicsSteps ==
  MicrophysicsStep = MicrophysicsIs /\ MicrophysicsIs \in Seq(Steps) /\ Len(MicrophysicsIs) = 14
<1> DEFINE a == WarmRain(TRUE)
           b == <<Step("melt_before_fall", "all"), Step("ice_falls", "qi"), Step("snow_falls", "qs"),
                  Step("graupel_falls", "qg")>>
           c == WarmRain(FALSE)
           d == <<Step("icloud", "all"), Step("subgrid_z_proc", "all")>>
           M == MicrophysicsIs
<1>1. \A i \in 1..14 : M[i] \in Steps
  BY DEF Steps
<1>2. Len(M) = 14 /\ M = [i \in 1..14 |-> M[i]]
  BY DEF MicrophysicsIs
<1>3. /\ \A i \in 1..4 : a[i] = M[i] /\ b[i] = M[4 + i] /\ c[i] = M[8 + i]
      /\ \A i \in 1..2 : d[i] = M[12 + i]
  BY DEF MicrophysicsIs, WarmRain
<1>4. /\ Len(a) = 4 /\ Len(b) = 4 /\ Len(c) = 4 /\ Len(d) = 2
      /\ a = [i \in 1..4 |-> a[i]] /\ b = [i \in 1..4 |-> b[i]]
      /\ c = [i \in 1..4 |-> c[i]] /\ d = [i \in 1..2 |-> d[i]]
  BY DEF WarmRain
<1>5. MicrophysicsStep = ((a \o b) \o c) \o d
  BY DEF MicrophysicsStep
<1> HIDE DEF a, b, c, d, M
<1>6. a \in Seq(Steps) /\ b \in Seq(Steps) /\ c \in Seq(Steps) /\ d \in Seq(Steps)
  <2>1. \A i \in 1..4 : i \in 1..14 /\ 4 + i \in 1..14 /\ 8 + i \in 1..14
    OBVIOUS
  <2>2. \A i \in 1..2 : 12 + i \in 1..14
    OBVIOUS
  <2>3. (\A i \in 1..4 : a[i] \in Steps /\ b[i] \in Steps /\ c[i] \in Steps)
        /\ \A i \in 1..2 : d[i] \in Steps
    BY <1>1, <1>3, <2>1, <2>2
  <2> QED BY <1>4, <2>3
<1> DEFINE x == a \o b
           y == x \o c
           z == y \o d
<1>7. x \in Seq(Steps) /\ Len(x) = 8 /\ (\A i \in 1..4 : x[i] = a[i]) /\ \A i \in 1..4 : x[4 + i] = b[i]
  <2>1. Join(a, Len(a), b, Len(b), x)
    BY <1>6, Joined
  <2> HIDE DEF x
  <2>2. Join(a, 4, b, 4, x) /\ 4 + 4 = 8
    BY <1>4, <2>1
  <2> QED BY <2>2 DEF Join
<1> HIDE DEF x
<1>8. y \in Seq(Steps) /\ Len(y) = 12 /\ (\A i \in 1..8 : y[i] = x[i]) /\ \A i \in 1..4 : y[8 + i] = c[i]
  <2>1. Join(x, Len(x), c, Len(c), y)
    BY <1>6, <1>7, Joined
  <2> HIDE DEF y
  <2>2. Join(x, 8, c, 4, y) /\ 8 + 4 = 12
    BY <1>4, <1>7, <2>1
  <2> QED BY <2>2 DEF Join
<1> HIDE DEF y
<1>9. z \in Seq(Steps) /\ Len(z) = 14 /\ (\A i \in 1..12 : z[i] = y[i]) /\ \A i \in 1..2 : z[12 + i] = d[i]
  <2>1. Join(y, Len(y), d, Len(d), z)
    BY <1>6, <1>8, Joined
  <2> HIDE DEF z
  <2>2. Join(y, 12, d, 2, z) /\ 12 + 2 = 14
    BY <1>4, <1>8, <2>1
  <2> QED BY <2>2 DEF Join
<1> HIDE DEF z
<1>10. M \in Seq(Steps)
  BY <1>1, <1>2
<1>11. \A i \in 1..14 : z[i] = M[i]
  <2>1. \A i \in 1..4 : z[i] = M[i] /\ z[4 + i] = M[4 + i] /\ z[8 + i] = M[8 + i]
    <3> TAKE i \in 1..4
    <3>1. i \in 1..12 /\ i \in 1..8 /\ 4 + i \in 1..12 /\ 4 + i \in 1..8 /\ 8 + i \in 1..12
      OBVIOUS
    <3> QED BY <1>3, <1>7, <1>8, <1>9, <3>1
  <2>2. \A i \in 1..2 : z[12 + i] = M[12 + i]
    BY <1>3, <1>9
  <2> TAKE i \in 1..14
  <2>3. CASE i <= 4
    BY <2>1, <2>3
  <2>4. CASE i > 4 /\ i <= 8
    <3>1. i - 4 \in 1..4 /\ 4 + (i - 4) = i
      BY <2>4
    <3> QED BY <2>1, <3>1
  <2>5. CASE i > 8 /\ i <= 12
    <3>1. i - 8 \in 1..4 /\ 8 + (i - 8) = i
      BY <2>5
    <3> QED BY <2>1, <3>1
  <2>6. CASE i > 12
    <3>1. i - 12 \in 1..2 /\ 12 + (i - 12) = i
      BY <2>6
    <3> QED BY <2>2, <3>1
  <2> QED BY <2>3, <2>4, <2>5, <2>6
<1>12. z = M
  BY <1>2, <1>9, <1>10, <1>11, SeqEqual
<1> QED BY <1>2, <1>5, <1>10, <1>12 DEF x, y, z, M

LEMMA CoreStepsAre ==
  CoreSteps = CoreIs /\ CoreIs \in Seq(Steps) /\ Len(CoreIs) = 15
<1> DEFINE a == [i \in 1..6 |-> Step("fix_tracer", <<"qv", "ql", "qr", "qi", "qs", "qg">>[i])]
           b == <<Step("satadjust", "all"), Step("fix_neg_water", "all"), Step("fillq", "qg"),
                  Step("fillq", "qr"), Step("fix_water_vapor_down", "qv"), Step("m_loop", 1),
                  Step("m_loop", 2), Step("m_loop", 3), Step("fields_init", "all")>>
           M == CoreIs
<1>1. \A i \in 1..15 : M[i] \in Steps
  BY DEF Steps
<1>2. Len(M) = 15 /\ M = [i \in 1..15 |-> M[i]]
  BY DEF CoreIs
<1>3. /\ \A i \in 1..6 : a[i] = M[i]
      /\ \A i \in 1..9 : b[i] = M[6 + i]
  BY DEF CoreIs
<1>4. /\ Len(b) = 9 /\ a = [i \in 1..6 |-> a[i]] /\ b = [i \in 1..9 |-> b[i]]
  OBVIOUS
<1>5. CoreSteps = a \o b
  BY DEF CoreSteps
<1> HIDE DEF a, b, M
<1>6. a \in Seq(Steps) /\ b \in Seq(Steps) /\ Len(a) = 6
  <2>1. (\A i \in 1..6 : i \in 1..15) /\ \A i \in 1..9 : 6 + i \in 1..15
    OBVIOUS
  <2>2. (\A i \in 1..6 : a[i] \in Steps) /\ \A i \in 1..9 : b[i] \in Steps
    BY <1>1, <1>3, <2>1
  <2> QED BY <1>4, <2>2
<1> DEFINE z == a \o b
<1>7. z \in Seq(Steps) /\ Len(z) = 15 /\ (\A i \in 1..6 : z[i] = a[i]) /\ \A i \in 1..9 : z[6 + i] = b[i]
  <2>1. Join(a, Len(a), b, Len(b), z)
    BY <1>6, Joined
  <2> HIDE DEF z
  <2>2. Join(a, 6, b, 9, z) /\ 6 + 9 = 15
    BY <1>4, <1>6, <2>1
  <2> QED BY <2>2 DEF Join
<1> HIDE DEF z
<1>8. M \in Seq(Steps)
  BY <1>1, <1>2
<1>9. \A i \in 1..15 : z[i] = M[i]
  <2> TAKE i \in 1..15
  <2>1. CASE i <= 6
    BY <1>3, <1>7, <2>1
  <2>2. CASE i > 6
    <3>1. i - 6 \in 1..9 /\ 6 + (i - 6) = i
      BY <2>2
    <3> QED BY <1>3, <1>7, <3>1
  <2> QED BY <2>1, <2>2
<1>10. z = M
  BY <1>2, <1>7, <1>8, <1>9, SeqEqual
<1> QED BY <1>2, <1>5, <1>8, <1>10 DEF z, M

RepeatStep(v, k) == v \o MicrophysicsStep

LEMMA RepeatStepIs ==
  ASSUME NEW v \in Seq(Steps), NEW k \in 0..NTimes
  PROVE  RepeatStep(v, k) \in Seq(Steps)
  BY MicrophysicsSteps, Joined DEF RepeatStep, Join

Repeats(f) ==
  f = [k \in 0..NTimes |-> IF k = 0 THEN <<>> ELSE RepeatStep(f[k - 1], k)]

LEMMA RepeatsExists ==
  (\E f : Repeats(f)) /\ \A f : Repeats(f) => f \in [0..NTimes -> Seq(Steps)]
<1> DEFINE base == <<>>
           step == [p \in Seq(Steps) \X (0..NTimes) |-> IF p[2] = 0 THEN base ELSE RepeatStep(p[1], p[2])]
<1>0. 0 \in Int /\ NTimes \in Int /\ 0 \in 0..NTimes /\ base \in Seq(Steps)
  BY MoistAssumption, EmptySeq
<1> HIDE DEF base
<1>1. ASSUME NEW v \in Seq(Steps), NEW k \in 0..NTimes, k # 0 PROVE RepeatStep(v, k) \in Seq(Steps)
  BY <1>1, RepeatStepIs
<1>2. step \in [Seq(Steps) \X (0..NTimes) -> Seq(Steps)]
  <2>1. ASSUME NEW p \in Seq(Steps) \X (0..NTimes)
        PROVE  (IF p[2] = 0 THEN base ELSE RepeatStep(p[1], p[2])) \in Seq(Steps)
    <3>1. p[1] \in Seq(Steps) /\ p[2] \in 0..NTimes
      OBVIOUS
    <3> QED BY <1>0, <1>1, <3>1
  <2> QED BY <2>1
<1>3. FollowsUp(Seq(Steps), 0, NTimes, base, step)
  <2> HIDE DEF step
  <2> QED BY <1>0, <1>2, RecursionUp
<1>4. PICK f \in [0..NTimes -> Seq(Steps)] :
        f = [k \in 0..NTimes |-> IF k = 0 THEN base ELSE step[<<f[k - 1], k>>]]
  BY <1>3 DEF FollowsUp
<1>5. ASSUME NEW k \in 0..NTimes, k # 0 PROVE step[<<f[k - 1], k>>] = RepeatStep(f[k - 1], k)
  <2>1. k - 1 \in 0..NTimes
    BY <1>0, <1>5
  <2>2. f[k - 1] \in Seq(Steps)
    BY <2>1
  <2> QED BY <1>5, <2>2
<1>6. Repeats(f)
  <2> HIDE DEF step
  <2> QED BY <1>4, <1>5 DEF Repeats, base
<1>7. ASSUME NEW g, Repeats(g) PROVE g \in [0..NTimes -> Seq(Steps)]
  <2> DEFINE H == {k \in 0..NTimes : g[k] \in Seq(Steps)}
  <2>0. \A k \in 0..NTimes : g[k] = IF k = 0 THEN base ELSE RepeatStep(g[k - 1], k)
    BY <1>7 DEF Repeats, base
  <2>1. 0 \in H /\ H \in SUBSET (0..NTimes)
    BY <1>0, <2>0
  <2>2. ASSUME NEW k \in 0..NTimes, k # NTimes, k \in H PROVE k + 1 \in H
    <3>1. k + 1 \in 0..NTimes /\ k + 1 # 0 /\ (k + 1) - 1 = k
      BY <1>0, <2>2
    <3>2. g[k + 1] = RepeatStep(g[k], k + 1)
      BY <2>0, <3>1
    <3>3. RepeatStep(g[k], k + 1) \in Seq(Steps)
      BY <1>1, <2>2, <3>1
    <3> QED BY <3>1, <3>2, <3>3
  <2> HIDE DEF H
  <2>3. H = 0..NTimes
    BY <1>0, <2>1, <2>2, Upwards
  <2>4. \A k \in 0..NTimes : g[k] \in Seq(Steps)
    BY <2>3 DEF H
  <2>5. g = [k \in 0..NTimes |-> g[k]]
    BY <1>7 DEF Repeats
  <2> QED BY <2>4, <2>5
<1> QED BY <1>6, <1>7

(* After n microphysics steps. *)
Repeated(n, s) ==
  /\ s \in Seq(Steps)
  /\ Len(s) = 14 * n
  /\ \A m \in 0..(n - 1) : \A j \in 1..14 : s[14 * m + j] = MicrophysicsIs[j]

LEMMA RepeatedIs ==
  ASSUME NEW f, Repeats(f)
  PROVE  Repeated(NTimes, f[NTimes])
<1> DEFINE H == {n \in 0..NTimes : Repeated(n, f[n])}
<1>0. NTimes \in Nat /\ NTimes \in Int /\ 0 \in Int /\ NTimes \in 0..NTimes /\ 0 \in 0..NTimes
  BY MoistAssumption
<1>1. 0 \in H
  <2>1. f[0] = <<>>
    BY <1>0 DEF Repeats
  <2>2. <<>> \in Seq(Steps) /\ Len(<<>>) = 14 * 0 /\ 0..(0 - 1) = {}
    BY EmptySeq
  <2>3. Repeated(0, f[0])
    BY <2>1, <2>2 DEF Repeated
  <2> QED BY <1>0, <2>3
<1>2. ASSUME NEW n \in 0..NTimes, n # NTimes, n \in H PROVE n + 1 \in H
  <2> DEFINE s == f[n]
             t == s \o MicrophysicsIs
  <2>1. Repeated(n, s)
    BY <1>2
  <2>2. f[n + 1] = t /\ n + 1 \in 0..NTimes
    <3>1. n + 1 \in 0..NTimes /\ n + 1 # 0 /\ (n + 1) - 1 = n
      BY <1>0, <1>2
    <3>2. f[n + 1] = RepeatStep(f[n], n + 1)
      BY <3>1 DEF Repeats
    <3> QED BY <3>1, <3>2, MicrophysicsSteps DEF RepeatStep
  <2> HIDE DEF s
  <2>3. s \in Seq(Steps) /\ Len(s) = 14 * n /\ MicrophysicsIs \in Seq(Steps) /\ Len(MicrophysicsIs) = 14
    BY <2>1, MicrophysicsSteps DEF Repeated
  <2>4. /\ t \in Seq(Steps) /\ Len(t) = 14 * n + 14
        /\ \A i \in 1..(14 * n) : t[i] = s[i]
        /\ \A i \in 1..14 : t[14 * n + i] = MicrophysicsIs[i]
    <3>1. Join(s, Len(s), MicrophysicsIs, Len(MicrophysicsIs), t)
      BY <2>3, Joined
    <3> HIDE DEF t
    <3>2. Join(s, 14 * n, MicrophysicsIs, 14, t)
      BY <2>3, <3>1
    <3> QED BY <3>2 DEF Join
  <2> HIDE DEF t
  <2>5. ASSUME NEW m \in 0..((n + 1) - 1), NEW j \in 1..14 PROVE t[14 * m + j] = MicrophysicsIs[j]
    <3>1. CASE m = n
      BY <2>4, <3>1
    <3>2. CASE m # n
      <4>1. m \in 0..(n - 1)
        BY <3>2
      <4>2. 14 * m + j \in 1..(14 * n)
        BY <4>1
      <4> QED BY <2>1, <2>4, <4>1, <4>2 DEF Repeated
    <3> QED BY <3>1, <3>2
  <2>6. Repeated(n + 1, t)
    BY <2>4, <2>5 DEF Repeated
  <2> QED BY <2>2, <2>6
<1>3. H = 0..NTimes
  <2>1. H \in SUBSET (0..NTimes)
    OBVIOUS
  <2> HIDE DEF H
  <2> QED BY <1>0, <1>1, <1>2, <2>1, Upwards
<1> QED BY <1>0, <1>3

Middle == 14 * NTimes

LEMMA ProgramIs ==
  /\ Middle \in Nat /\ Middle >= 14
  /\ Program \in Seq(Steps) /\ Len(Program) = Middle + 18
  /\ \A i \in 1..15 : Program[i] = CoreIs[i]
  /\ \A m \in 0..(NTimes - 1) : \A j \in 1..14 : Program[15 + 14 * m + j] = MicrophysicsIs[j]
  /\ \A j \in 1..3 : Program[15 + Middle + j] = EndIs[j]
<1> DEFINE repeated == CHOOSE f : Repeats(f)
           r == repeated[NTimes]
           x == CoreIs \o r
           z == x \o EndIs
<1>0. NTimes \in Nat /\ NTimes >= 1 /\ Middle \in Nat /\ Middle >= 14
  BY MoistAssumption DEF Middle
<1>1. Program = z
  <2>1. Program = (CoreSteps \o r) \o EndIs
    BY DEF Program, Repeats, RepeatStep, EndIs
  <2> HIDE DEF r
  <2> QED BY <2>1, CoreStepsAre
<1>2. Repeats(repeated)
  BY RepeatsExists
<1> HIDE DEF repeated
<1>3. Repeated(NTimes, r)
  BY <1>2, RepeatedIs
<1> HIDE DEF r
<1>4. r \in Seq(Steps) /\ Len(r) = Middle
  BY <1>3 DEF Repeated, Middle
<1> HIDE DEF Middle
<1>5. /\ x \in Seq(Steps) /\ Len(x) = 15 + Middle
      /\ \A i \in 1..15 : x[i] = CoreIs[i]
      /\ \A i \in 1..Middle : x[15 + i] = r[i]
  <2>1. Join(CoreIs, Len(CoreIs), r, Len(r), x)
    BY <1>4, CoreStepsAre, Joined
  <2> HIDE DEF x
  <2>2. Join(CoreIs, 15, r, Middle, x)
    BY <1>4, <2>1, CoreStepsAre
  <2> QED BY <2>2 DEF Join
<1> HIDE DEF x
<1>6. /\ z \in Seq(Steps) /\ Len(z) = 15 + Middle + 3
      /\ \A i \in 1..(15 + Middle) : z[i] = x[i]
      /\ \A i \in 1..3 : z[15 + Middle + i] = EndIs[i]
  <2>1. Join(x, Len(x), EndIs, Len(EndIs), z)
    BY <1>5, EndsAre, Joined
  <2> HIDE DEF z
  <2>2. Join(x, 15 + Middle, EndIs, 3, z)
    BY <1>5, <2>1, EndsAre
  <2> QED BY <2>2 DEF Join
<1> HIDE DEF z
<1>7. \A i \in 1..15 : z[i] = CoreIs[i]
  <2>1. \A i \in 1..15 : i \in 1..(15 + Middle)
    BY <1>0
  <2> QED BY <1>5, <1>6, <2>1
<1>8. ASSUME NEW m \in 0..(NTimes - 1), NEW j \in 1..14 PROVE z[15 + 14 * m + j] = MicrophysicsIs[j]
  <2> DEFINE i == 14 * m + j
  <2>1. i \in 1..Middle /\ 15 + i \in 1..(15 + Middle)
    BY <1>0 DEF Middle
  <2>2. r[i] = MicrophysicsIs[j]
    BY <1>3 DEF Repeated
  <2>3. 15 + i = 15 + 14 * m + j
    OBVIOUS
  <2> HIDE DEF i
  <2>4. z[15 + i] = MicrophysicsIs[j]
    BY <1>5, <1>6, <2>1, <2>2
  <2> QED BY <2>3, <2>4
<1>9. Len(z) = Middle + 18
  BY <1>0, <1>6
<1> QED BY <1>0, <1>1, <1>6, <1>7, <1>8, <1>9

-----------------------------------------------------------------------------
(* What follows what in the program. *)
LEMMA TurnOver ==
  ASSUME NEW n \in Nat \ {0}, NEW i \in 1..n
  PROVE  1 + (i % n) = IF i = n THEN 1 ELSE i + 1
<1> DEFINE q == i \div n
           r == i % n
<1>1. q \in Nat /\ r \in Nat /\ r < n /\ i = (q * n) + r
  BY SMT
<1> HIDE DEF q, r
<1>2. CASE q = 0
  <2>1. i = r
    BY <1>1, <1>2
  <2> QED BY <1>1, <2>1 DEF r
<1>3. CASE q # 0
  <2> DEFINE p == q - 1
  <2>1. p \in Nat /\ q = p + 1
    BY <1>1, <1>3
  <2> HIDE DEF p
  <2>2. q * n = p * n + n /\ p * n \in Nat
    BY <2>1
  <2>3. i = n /\ r = 0
    BY <1>1, <2>2
  <2> QED BY <2>3 DEF r
<1> QED BY <1>2, <1>3

FollowedBy(a, b) ==
  \/ \E j \in 1..14 : a = CoreIs[j] /\ b = CoreIs[j + 1]
  \/ a = CoreIs[15] /\ b = MicrophysicsIs[1]
  \/ \E j \in 1..13 : a = MicrophysicsIs[j] /\ b = MicrophysicsIs[j + 1]
  \/ a = MicrophysicsIs[14] /\ b \in {MicrophysicsIs[1], EndIs[1]}
  \/ \E j \in 1..2 : a = EndIs[j] /\ b = EndIs[j + 1]
  \/ a = EndIs[3] /\ b = CoreIs[1]

Following(i, n) ==
  /\ n \in 1..Len(Program)
  /\ FollowedBy(Program[i], Program[n])
  /\ n >= 16 => i = n - 1
  /\ n = 16 => i = 15

LEMMA StepFollows ==
  ASSUME NEW i \in 1..Len(Program)
  PROVE  Following(i, 1 + (i % Len(Program)))
<1> DEFINE L == Len(Program)
           n == 1 + (i % L)
<1>0. /\ Middle \in Nat /\ Middle >= 14 /\ L = Middle + 18 /\ NTimes \in Nat /\ NTimes >= 1
      /\ Middle = 14 * NTimes
  BY ProgramIs, MoistAssumption DEF Middle
<1>2. i \in 1..L /\ i \in Int
  OBVIOUS
<1> HIDE DEF L
<1>1. n = IF i = L THEN 1 ELSE i + 1
  <2>1. L \in Nat \ {0}
    BY <1>0
  <2> QED BY <1>2, <2>1, TurnOver
<1> HIDE DEF n
<1>3. CASE i \in 1..14
  <2>1. n = i + 1 /\ i \in 1..15 /\ n \in 1..15 /\ n \in 1..L /\ n < 16
    BY <1>0, <1>1, <1>3
  <2>2. Program[i] = CoreIs[i] /\ Program[n] = CoreIs[n]
    BY <2>1, ProgramIs
  <2>3. ~ (n >= 16) /\ n # 16
    BY <1>3, <2>1
  <2>4. FollowedBy(Program[i], Program[n])
    BY <1>3, <2>1, <2>2 DEF FollowedBy
  <2> QED BY <2>1, <2>3, <2>4 DEF Following, L, n
<1>4. CASE i = 15
  <2>1. n = 16 /\ 0 \in 0..(NTimes - 1) /\ 1 \in 1..14 /\ 15 + 14 * 0 + 1 = 16 /\ n \in 1..L /\ 15 \in 1..15
    BY <1>0, <1>1, <1>4
  <2>2. Program[i] = CoreIs[15] /\ Program[n] = MicrophysicsIs[1]
    BY <1>4, <2>1, ProgramIs
  <2> QED BY <1>4, <2>1, <2>2 DEF Following, FollowedBy, L, n
<1>5. CASE i >= 16 /\ i <= 15 + Middle
  <2> DEFINE m == (i - 16) \div 14
             j == 1 + ((i - 16) % 14)
  <2>1. m \in 0..(NTimes - 1) /\ j \in 1..14 /\ i = 15 + 14 * m + j
    BY <1>0, <1>5
  <2> HIDE DEF m, j
  <2>2. n = i + 1 /\ n \in 1..L /\ n >= 16 /\ n # 16
    BY <1>0, <1>1, <1>5
  <2>3. Program[i] = MicrophysicsIs[j]
    BY <2>1, ProgramIs
  <2>4. CASE j # 14
    <3> DEFINE l == j + 1
    <3>1. l \in 1..14 /\ n = 15 + 14 * m + l /\ j \in 1..13
      BY <2>1, <2>2, <2>4
    <3> HIDE DEF l
    <3>2. Program[n] = MicrophysicsIs[l]
      BY <2>1, <3>1, ProgramIs
    <3>3. FollowedBy(Program[i], Program[n])
      BY <2>3, <3>1, <3>2 DEF FollowedBy, l
    <3>4. i = n - 1
      BY <1>2, <2>2
    <3> QED BY <2>2, <3>3, <3>4 DEF Following, L, n
  <2>5. CASE j = 14 /\ m # NTimes - 1
    <3> DEFINE l == m + 1
    <3>1. l \in 0..(NTimes - 1) /\ n = 15 + 14 * l + 1 /\ 1 \in 1..14
      BY <1>0, <2>1, <2>2, <2>5
    <3> HIDE DEF l
    <3>2. Program[n] = MicrophysicsIs[1]
      BY <3>1, ProgramIs
    <3> QED BY <1>5, <2>2, <2>3, <2>5, <3>2 DEF Following, FollowedBy, L, n
  <2>6. CASE j = 14 /\ m = NTimes - 1
    <3>1. n = 15 + Middle + 1 /\ 1 \in 1..3
      BY <1>0, <2>1, <2>2, <2>6
    <3>2. Program[n] = EndIs[1]
      BY <3>1, ProgramIs
    <3> QED BY <1>5, <2>2, <2>3, <2>6, <3>2 DEF Following, FollowedBy, L, n
  <2> QED BY <2>4, <2>5, <2>6
<1>6. CASE i > 15 + Middle
  <2> DEFINE j == i - 15 - Middle
  <2>1. j \in 1..3 /\ i = 15 + Middle + j
    BY <1>0, <1>2, <1>6
  <2> HIDE DEF j
  <2>2. Program[i] = EndIs[j]
    BY <2>1, ProgramIs
  <2>3. CASE j = 3
    <3>1. n = 1 /\ 1 \in 1..15 /\ n \in 1..L
      BY <1>0, <1>1, <2>1, <2>3
    <3>2. Program[n] = CoreIs[1]
      BY <3>1, ProgramIs
    <3> QED BY <2>2, <2>3, <3>1, <3>2 DEF Following, FollowedBy, L, n
  <2>4. CASE j # 3
    <3> DEFINE l == j + 1
    <3>1. l \in 1..3 /\ n = 15 + Middle + l /\ j \in 1..2 /\ n \in 1..L /\ n # 16 /\ i >= 15
      BY <1>0, <1>1, <2>1, <2>4
    <3> HIDE DEF l
    <3>2. Program[n] = EndIs[l]
      BY <3>1, ProgramIs
    <3> QED BY <2>2, <3>1, <3>2 DEF Following, FollowedBy, L, n, l
  <2> QED BY <2>1, <2>3, <2>4
<1> QED BY <1>0, <1>2, <1>3, <1>4, <1>5, <1>6

(* The microphysics and what comes after it are from the sixteenth step on. *)
LateSteps == {MicrophysicsIs[j] : j \in 1..14} \cup {EndIs[j] : j \in 1..3}
CoreOnes == {CoreIs[j] : j \in 1..15}

LEMMA StepIs ==
  ASSUME NEW i \in 1..Len(Program)
  PROVE  /\ Program[i] \in Steps
         /\ i >= 16 => Program[i] \in LateSteps
         /\ i < 16 => Program[i] \in CoreOnes
         /\ i = 15 => Program[i] = CoreIs[15]
         /\ i \in 16..28 => Program[i] = MicrophysicsIs[i - 15]
<1>0. /\ Middle \in Nat /\ Middle >= 14 /\ Len(Program) = Middle + 18 /\ NTimes \in Nat /\ NTimes >= 1
      /\ Middle = 14 * NTimes /\ i \in Int
  BY ProgramIs, MoistAssumption DEF Middle
<1>1. CASE i \in 1..15
  <2>1. Program[i] = CoreIs[i]
    BY <1>1, ProgramIs
  <2>2. i \notin 16..28 /\ ~ (i >= 16)
    BY <1>1
  <2> QED BY <1>1, <2>1, <2>2 DEF Steps, CoreOnes
<1>2. CASE i >= 16 /\ i <= 15 + Middle
  <2> DEFINE m == (i - 16) \div 14
             j == 1 + ((i - 16) % 14)
  <2>1. m \in 0..(NTimes - 1) /\ j \in 1..14 /\ i = 15 + 14 * m + j
    BY <1>0, <1>2
  <2> HIDE DEF m, j
  <2>2. Program[i] = MicrophysicsIs[j]
    BY <2>1, ProgramIs
  <2>3. Program[i] \in Steps
    BY <2>1, <2>2 DEF Steps
  <2>4. Program[i] \in LateSteps
    BY <2>1, <2>2 DEF LateSteps
  <2>5. ~ (i < 16) /\ i # 15
    BY <1>0, <1>2
  <2>6. i \in 16..28 => Program[i] = MicrophysicsIs[i - 15]
    <3>1. ASSUME i \in 16..28 PROVE 0 \in 0..(NTimes - 1) /\ i - 15 \in 1..14 /\ i = 15 + 14 * 0 + (i - 15)
      BY <1>0, <3>1
    <3> QED BY <3>1, ProgramIs
  <2> QED BY <2>3, <2>4, <2>5, <2>6
<1>3. CASE i > 15 + Middle
  <2> DEFINE j == i - 15 - Middle
  <2>1. j \in 1..3 /\ i = 15 + Middle + j /\ i > 28
    BY <1>0, <1>3
  <2> HIDE DEF j
  <2>2. Program[i] = EndIs[j]
    BY <2>1, ProgramIs
  <2> QED BY <1>0, <2>1, <2>2 DEF Steps, LateSteps
<1> QED BY <1>0, <1>1, <1>2, <1>3

-----------------------------------------------------------------------------
(* The steps by name. *)
Named(s) ==
  /\ s.name \in {"fix_tracer", "fillq"} => s.of \in Species
  /\ s.name \in {"fix_water_vapor_down", "fill_gfs_delp"} => s.of = "qv"
  /\ s.name = "snow_falls" => s.of = "qs"
  /\ s.name = "graupel_falls" => s.of = "qg"
  /\ s.name \in {"rain_falls", "accumulate"} => s.of \in BOOLEAN

LEMMA StepNamed ==
  ASSUME NEW s \in Steps
  PROVE  Named(s)
<1>1. CASE \E i \in 1..15 : s = CoreIs[i]
  <2>1. \A i \in 1..15 : Named(CoreIs[i])
    BY DEF Named, CoreIs, Step, Species
  <2> QED BY <1>1, <2>1
<1>2. CASE \E i \in 1..14 : s = MicrophysicsIs[i]
  <2>1. Named(MicrophysicsIs[1])
    BY DEF Named, MicrophysicsIs, Step
  <2>2. Named(MicrophysicsIs[2])
    BY DEF Named, MicrophysicsIs, Step
  <2>3. Named(MicrophysicsIs[3])
    BY DEF Named, MicrophysicsIs, Step
  <2>4. Named(MicrophysicsIs[4])
    BY DEF Named, MicrophysicsIs, Step
  <2>5. Named(MicrophysicsIs[5])
    BY DEF Named, MicrophysicsIs, Step
  <2>6. Named(MicrophysicsIs[6])
    BY DEF Named, MicrophysicsIs, Step
  <2>7. Named(MicrophysicsIs[7])
    BY DEF Named, MicrophysicsIs, Step
  <2>8. Named(MicrophysicsIs[8])
    BY DEF Named, MicrophysicsIs, Step
  <2>9. Named(MicrophysicsIs[9])
    BY DEF Named, MicrophysicsIs, Step
  <2>10. Named(MicrophysicsIs[10])
    BY DEF Named, MicrophysicsIs, Step
  <2>11. Named(MicrophysicsIs[11])
    BY DEF Named, MicrophysicsIs, Step
  <2>12. Named(MicrophysicsIs[12])
    BY DEF Named, MicrophysicsIs, Step
  <2>13. Named(MicrophysicsIs[13])
    BY DEF Named, MicrophysicsIs, Step
  <2>14. Named(MicrophysicsIs[14])
    BY DEF Named, MicrophysicsIs, Step
  <2> PICK i \in 1..14 : s = MicrophysicsIs[i]
    BY <1>2
  <2>15. i \in {1, 2, 3, 4, 5, 6, 7, 8, 9, 10, 11, 12, 13, 14}
    OBVIOUS
  <2> QED BY <2>1, <2>2, <2>3, <2>4, <2>5, <2>6, <2>7, <2>8, <2>9, <2>10, <2>11, <2>12, <2>13, <2>14, <2>15
<1>3. CASE \E i \in 1..3 : s = EndIs[i]
  <2>1. \A i \in 1..3 : Named(EndIs[i])
    BY DEF Named, EndIs, Step, Species
  <2> QED BY <1>3, <2>1
<1> QED BY <1>1, <1>2, <1>3 DEF Steps

EarlyNames ==
  {"fix_tracer", "satadjust", "fix_neg_water", "fillq", "fix_water_vapor_down", "m_loop", "fields_init"}
CellNames ==
  {"revap_racc", "autoconv", "melt_before_fall", "icloud", "subgrid_z_proc"}
LateNames ==
  CellNames \cup {"rain_falls", "accumulate", "ice_falls", "snow_falls", "graupel_falls",
                  "fields_update", "fill_gfs_delp", "dynamics"}

LEMMA LateOnes ==
  /\ \A s \in LateSteps : s.name \in LateNames
  /\ \A s \in CoreOnes : s.name \in EarlyNames
<1>1. \A j \in 1..14 : MicrophysicsIs[j].name \in LateNames
  BY DEF MicrophysicsIs, Step, LateNames, CellNames
<1>2. \A j \in 1..3 : EndIs[j].name \in LateNames
  BY DEF EndIs, Step, LateNames
<1>3. \A j \in 1..15 : CoreIs[j].name \in EarlyNames
  BY DEF CoreIs, Step, EarlyNames
<1> QED BY <1>1, <1>2, <1>3 DEF LateSteps, CoreOnes

(* Where the flux of momentum stands: complete, or what fell in the last   *)
(* warm_rain, in the last sedimentation, or in both is still to be added.  *)
Complete(s) ==
  \/ s.name \in {"melt_before_fall", "ice_falls", "icloud", "subgrid_z_proc", "fields_update"}
  \/ s.name \in {"revap_racc", "rain_falls"} /\ s.of = TRUE
RainToAdd(s) == s.name \in {"autoconv", "accumulate"} /\ s.of = TRUE
SolidToAdd(s) ==
  \/ s.name \in {"snow_falls", "graupel_falls"}
  \/ s.name \in {"revap_racc", "rain_falls"} /\ s.of = FALSE
BothToAdd(s) == s.name \in {"autoconv", "accumulate"} /\ s.of = FALSE

(* A step that lets nothing fall and adds nothing up leaves it as it is. *)
Still(a, b) ==
  /\ Complete(b) => Complete(a)
  /\ RainToAdd(b) => RainToAdd(a)
  /\ SolidToAdd(b) => SolidToAdd(a)
  /\ BothToAdd(b) => BothToAdd(a)

Outside(s) == ~ Complete(s) /\ ~ RainToAdd(s) /\ ~ SolidToAdd(s) /\ ~ BothToAdd(s)
OnlyComplete(s) == ~ RainToAdd(s) /\ ~ SolidToAdd(s) /\ ~ BothToAdd(s)
OnlyRainToAdd(s) == ~ Complete(s) /\ ~ SolidToAdd(s) /\ ~ BothToAdd(s)
OnlySolidToAdd(s) == ~ Complete(s) /\ ~ RainToAdd(s) /\ ~ BothToAdd(s)
OnlyBothToAdd(s) == ~ Complete(s) /\ ~ RainToAdd(s) /\ ~ SolidToAdd(s)

OutsideNames ==
  {"fix_tracer", "satadjust", "fix_neg_water", "fillq", "fix_water_vapor_down", "m_loop",
   "fields_update", "fill_gfs_delp", "dynamics"}

(* The last three: what leads to the steps that promise something of the     *)
(* vapour, and that the dynamics begin anew.                               *)
Turns(a, b) ==
  /\ a.name \in CellNames => Still(a, b)
  /\ a.name \in OutsideNames => Outside(b)
  /\ a.name = "fields_init" => OnlyComplete(b)
  /\ a.name = "rain_falls" /\ a.of = TRUE => OnlyRainToAdd(b)
  /\ a.name = "rain_falls" /\ a.of = FALSE => OnlyBothToAdd(b)
  /\ a.name \in {"ice_falls", "snow_falls", "graupel_falls"} => OnlySolidToAdd(b)
  /\ a.name = "accumulate" => OnlyComplete(b)
  /\ b.name = "m_loop" /\ b.of = 1 => a.name = "fix_water_vapor_down"
  /\ b.name = "dynamics" => a.name = "fill_gfs_delp"
  /\ a.name = "dynamics" => b.name = "fix_tracer"

LEMMA TurnsAre ==
  ASSUME NEW a, NEW b, FollowedBy(a, b)
  PROVE  Turns(a, b)
<1> USE DEF Turns, OnlyComplete, OnlyRainToAdd, OnlySolidToAdd, OnlyBothToAdd, Outside, Still, Complete,
            RainToAdd, SolidToAdd, BothToAdd, CellNames, OutsideNames, Step
<1>1. \A j \in 1..14 : Turns(CoreIs[j], CoreIs[j + 1])
  BY DEF CoreIs
<1>2. \A j \in 1..2 : Turns(EndIs[j], EndIs[j + 1])
  BY DEF EndIs
<1>3. Turns(CoreIs[15], MicrophysicsIs[1])
  BY DEF CoreIs, MicrophysicsIs
<1>4. Turns(MicrophysicsIs[1], MicrophysicsIs[2])
  BY DEF MicrophysicsIs
<1>5. Turns(MicrophysicsIs[2], MicrophysicsIs[3])
  BY DEF MicrophysicsIs
<1>6. Turns(MicrophysicsIs[3], MicrophysicsIs[4])
  BY DEF MicrophysicsIs
<1>7. Turns(MicrophysicsIs[4], MicrophysicsIs[5])
  BY DEF MicrophysicsIs
<1>8. Turns(MicrophysicsIs[5], MicrophysicsIs[6])
  BY DEF MicrophysicsIs
<1>9. Turns(MicrophysicsIs[6], MicrophysicsIs[7])
  BY DEF MicrophysicsIs
<1>10. Turns(MicrophysicsIs[7], MicrophysicsIs[8])
  BY DEF MicrophysicsIs
<1>11. Turns(MicrophysicsIs[8], MicrophysicsIs[9])
  BY DEF MicrophysicsIs
<1>12. Turns(MicrophysicsIs[9], MicrophysicsIs[10])
  BY DEF MicrophysicsIs
<1>13. Turns(MicrophysicsIs[10], MicrophysicsIs[11])
  BY DEF MicrophysicsIs
<1>14. Turns(MicrophysicsIs[11], MicrophysicsIs[12])
  BY DEF MicrophysicsIs
<1>15. Turns(MicrophysicsIs[12], MicrophysicsIs[13])
  BY DEF MicrophysicsIs
<1>16. Turns(MicrophysicsIs[13], MicrophysicsIs[14])
  BY DEF MicrophysicsIs
<1>17. Turns(MicrophysicsIs[14], MicrophysicsIs[1])
  BY DEF MicrophysicsIs
<1>18. Turns(MicrophysicsIs[14], EndIs[1])
  BY DEF MicrophysicsIs, EndIs
<1>19. Turns(EndIs[3], CoreIs[1])
  BY DEF EndIs, CoreIs
<1> HIDE DEF Turns
<1>20. \A j \in 1..13 : Turns(MicrophysicsIs[j], MicrophysicsIs[j + 1])
  <2> TAKE j \in 1..13
  <2>1. j \in {1, 2, 3, 4, 5, 6, 7, 8, 9, 10, 11, 12, 13}
    OBVIOUS
  <2> QED BY <2>1, <1>4, <1>5, <1>6, <1>7, <1>8, <1>9, <1>10, <1>11, <1>12, <1>13, <1>14, <1>15, <1>16
<1> QED BY <1>1, <1>2, <1>3, <1>17, <1>18, <1>19, <1>20 DEF FollowedBy

-----------------------------------------------------------------------------
(* The types, and how the program goes on. *)
Profiles == [0..N -> Int]
Books == [liq : Int, sol : Int]
Places == [step : 1..Len(Program), level : Levels]

TypeOK ==
  /\ column \in WaterColumns /\ h0 \in Cells /\ book \in Books
  /\ m1 \in Profiles /\ m1_rain \in Profiles /\ m1_sol \in Profiles /\ above \in Profiles
  /\ fallen \in Int
  /\ at \in Places

Goes ==
  /\ Named(Doing)
  /\ Doing' = Doing \/ Turns(Doing, Doing')
  /\ at'.level = 1 => Turns(Doing, Doing')
  /\ at.step >= 16 => Doing.name \in LateNames
  /\ Doing.name \in LateNames => at.step >= 16
  /\ at'.step >= 16 => at.step >= 16 \/ Doing.name = "fields_init"
  /\ at'.step = 16 /\ at'.level = 1 => Doing.name = "fields_init"
  /\ Doing.name = "dynamics" /\ at'.level = 1 => at'.step < 16
  /\ at.step \in 16..28 => Doing.name # "subgrid_z_proc"
  /\ at'.step \in 16..28 => at.step \in 16..28 \/ Doing.name = "fields_init"

Moves ==
  /\ at' \in Places
  /\ \/ at'.step = at.step /\ at'.level # 1
     \/ Following(at.step, at'.step)

LEMMA StepMoves ==
  ASSUME TypeOK, NextStep
  PROVE  Moves /\ at'.level = 1
<1> DEFINE n == 1 + (at.step % Len(Program))
<1>1. at.step \in 1..Len(Program) /\ 1 \in Levels
  BY LevelsAre DEF TypeOK, Places
<1>2. at' = [step |-> n, level |-> 1] /\ Following(at.step, n)
  BY <1>1, StepFollows DEF NextStep
<1> HIDE DEF n
<1>3. n \in 1..Len(Program)
  BY <1>2 DEF Following
<1> QED BY <1>1, <1>2, <1>3 DEF Moves, Places

LEMMA LevelMoves ==
  ASSUME TypeOK, NEW last \in Levels, at.level <= last, NextLevel(last)
  PROVE  Moves
<1>1. CASE at.level = last
  BY <1>1, StepMoves DEF NextLevel
<1>2. CASE at.level # last
  <2>1. at.level + 1 \in Levels /\ at.level + 1 # 1 /\ at.step \in 1..Len(Program)
    BY <1>2, LevelsAre DEF TypeOK, Places
  <2>2. at' = [step |-> at.step, level |-> at.level + 1]
    BY <1>2 DEF NextLevel, TypeOK, Places
  <2> QED BY <2>1, <2>2 DEF Moves, Places
<1> QED BY <1>1, <1>2

LEMMA MovesGo ==
  ASSUME TypeOK, Moves
  PROVE  Goes
<1> DEFINE i == at.step
           n == at'.step
<1>1. i \in 1..Len(Program) /\ n \in 1..Len(Program) /\ Len(Program) \in Nat
  BY ProgramIs DEF TypeOK, Places, Moves
<1>2. Doing = Program[i] /\ Doing' = Program[n]
  BY DEF Doing
<1>3. /\ Named(Program[i])
      /\ i >= 16 => Program[i].name \in LateNames
      /\ Program[i].name \in LateNames => i >= 16
      /\ i = 15 => Program[i].name = "fields_init"
      /\ i \in 16..28 => Program[i].name # "subgrid_z_proc"
  <2>0. ASSUME i \in 16..28 PROVE Program[i].name # "subgrid_z_proc"
    <3>1. Program[i] = MicrophysicsIs[i - 15] /\ i - 15 \in {1, 2, 3, 4, 5, 6, 7, 8, 9, 10, 11, 12, 13}
      BY <1>1, <2>0, StepIs
    <3> HIDE DEF i
    <3> QED BY <3>1 DEF MicrophysicsIs, Step
  <2>1. /\ Program[i] \in Steps
        /\ i >= 16 => Program[i] \in LateSteps
        /\ i < 16 => Program[i] \in CoreOnes
        /\ i = 15 => Program[i] = CoreIs[15]
    BY <1>1, StepIs
  <2>2. CoreIs[15].name = "fields_init" /\ EarlyNames \cap LateNames = {}
    BY DEF CoreIs, Step, EarlyNames, LateNames, CellNames
  <2> QED BY <1>1, <2>0, <2>1, <2>2, StepNamed, LateOnes
<1> HIDE DEF i, n
<1>4. CASE n = i /\ at'.level # 1
  BY <1>2, <1>3, <1>4 DEF Goes, i, n
<1>5. CASE Following(i, n)
  <2>1. /\ Turns(Program[i], Program[n])
        /\ n >= 16 => i >= 15
        /\ n = 16 => i = 15
        /\ n \in 16..28 => i \in 16..28 \/ i = 15
    BY <1>1, <1>5, TurnsAre DEF Following
  <2>2. n >= 16 => i >= 16 \/ Program[i].name = "fields_init"
    BY <1>1, <1>3, <2>1
  <2>3. Program[i].name = "dynamics" => n < 16
    <3>1. n >= 16 => Program[n].name \in LateNames
      BY <1>1, StepIs, LateOnes
    <3>2. Program[i].name = "dynamics" => Program[n].name = "fix_tracer"
      BY <2>1 DEF Turns
    <3> QED BY <1>1, <3>1, <3>2 DEF LateNames, CellNames
  <2> QED BY <1>2, <1>3, <2>1, <2>2, <2>3 DEF Goes, i, n
<1> QED BY <1>4, <1>5 DEF Moves, i, n

-----------------------------------------------------------------------------
(* A stencil that treats the levels apart. *)
CondensatesIn(c) == \A k \in Levels : Sound(c[k], Overdraw[k])
GraupelIn(c) == \A k \in Levels : Firm(c[k])

Worked(c, l, w, d) ==
  /\ SameWaters(c, d)
  /\ d[l] = Cell(w)
  /\ CondensatesIn(c) /\ (Sound(AtWork(c[l]), Overdraw[l]) => Sound(w, Overdraw[l])) => CondensatesIn(d)
  /\ GraupelIn(c) /\ (Firm(AtWork(c[l])) => Firm(w)) => GraupelIn(d)

LEMMA CellWorked ==
  ASSUME NEW c \in WaterColumns, NEW l \in Levels, NEW w, Keeps(AtWork(c[l]), w)
  PROVE  Worked(c, l, w, [c EXCEPT ![l] = Cell(w)])
<1> DEFINE x == Cell(w)
           d == [c EXCEPT ![l] = x]
<1>0. c[l] \in Cells
  BY DEF WaterColumns
<1>1. AtWork(c[l]) \in Work /\ \A s \in Species : AtWork(c[l])[s] = c[l][s]
  BY <1>0, AtWorkIs
<1>2. w \in Work /\ Water(w) = Water(AtWork(c[l]))
  BY DEF Keeps
<1>3. x \in Cells /\ (\A s \in Species : x[s] = w[s]) /\ Water(x) = Water(w)
  BY <1>2, CellIs
<1>4. Water(AtWork(c[l])) = Water(c[l])
  BY <1>1 DEF Water, Species
<1> HIDE DEF x
<1>5. SameWaters(c, d)
  <2>1. x \in Cells /\ Water(x) = Water(c[l])
    BY <1>2, <1>3, <1>4
  <2> QED BY <2>1, CellKept
<1>6. d[l] = x /\ \A k \in Levels : k # l => d[k] = c[k]
  BY DEF WaterColumns
<1> HIDE DEF d
<1>7. \A b : (Sound(c[l], b) <=> Sound(AtWork(c[l]), b)) /\ (Sound(x, b) <=> Sound(w, b))
  BY <1>1, <1>3 DEF Sound, Species
<1>8. (Firm(c[l]) <=> Firm(AtWork(c[l]))) /\ (Firm(x) <=> Firm(w))
  BY <1>1, <1>3 DEF Firm, Species
<1>9. ASSUME CondensatesIn(c), Sound(AtWork(c[l]), Overdraw[l]) => Sound(w, Overdraw[l]) PROVE CondensatesIn(d)
  <2>1. Sound(x, Overdraw[l])
    BY <1>7, <1>9 DEF CondensatesIn
  <2> QED BY <1>6, <1>9, <2>1 DEF CondensatesIn
<1>10. ASSUME GraupelIn(c), Firm(AtWork(c[l])) => Firm(w) PROVE GraupelIn(d)
  <2>1. Firm(x)
    BY <1>8, <1>10 DEF GraupelIn
  <2> QED BY <1>6, <1>10, <2>1 DEF GraupelIn
<1>11. Worked(c, l, w, d)
  BY <1>5, <1>6, <1>9, <1>10 DEF Worked, x
<1> QED BY <1>11 DEF d, x

LEMMA BookIs ==
  ASSUME NEW w \in Work
  PROVE  Book(w) \in Books /\ (Balanced(w) => Book(w) = Tally(Cell(w)))
<1>1. /\ Cell(w).ql = w.ql /\ Cell(w).qr = w.qr /\ Cell(w).qi = w.qi /\ Cell(w).qs = w.qs
      /\ Cell(w).qg = w.qg
  BY CellIs DEF Species
<1>2. w.liq \in Int /\ w.sol \in Int
  BY DEF Work, Shelves
<1> QED BY <1>1, <1>2 DEF Book, Books, Tally, Balanced

BookNames == {"satadjust", "melt_before_fall", "icloud", "subgrid_z_proc"}
Unfallen == UNCHANGED <<m1, m1_rain, m1_sol, fallen, above>>

(* The one stencil that leaves the sums of the cell as it was. *)
LeftUncorrected ==
  /\ Doing.name = "subgrid_z_proc"
  /\ column'[at.level] = CloudFree(column[at.level])
  /\ book' = Tally(column[at.level])

(* What a step of such a stencil does. *)
CellStep ==
  /\ SameWaters(column, column') /\ h0' = h0 /\ Unfallen
  /\ book' \in Books /\ at' \in Places /\ Goes
  /\ Doing.name \in CellNames \cup {"satadjust", "fix_neg_water"}
  /\ Doing.name \in CellNames /\ CondensatesIn(column) => CondensatesIn(column')
  /\ Doing.name \in CellNames \ {"subgrid_z_proc"} /\ GraupelIn(column) => GraupelIn(column')
  /\ Doing.name \in BookNames => book' = Tally(column'[at.level]) \/ LeftUncorrected

LEMMA CellSteps ==
  ASSUME TypeOK, NEW w,
         Keeps(AtWork(column[at.level]), w),
         Doing.name \in CellNames \cup {"satadjust", "fix_neg_water"},
         Doing.name \in CellNames =>
           (Sound(AtWork(column[at.level]), Overdraw[at.level]) => Sound(w, Overdraw[at.level])),
         Doing.name \in CellNames \ {"subgrid_z_proc"} =>
           (Firm(AtWork(column[at.level])) => Firm(w)),
         column' = [column EXCEPT ![at.level] = Cell(w)],
         \/ book' = Book(w) /\ KeepsBook(AtWork(column[at.level]), w)
         \/ book' = Book(w) /\ w = CloudFree(AtWork(column[at.level])) /\ Doing.name = "subgrid_z_proc"
         \/ book' = NoBook /\ Doing.name \notin BookNames,
         NextLevel(N),
         UNCHANGED <<h0, m1, m1_rain, m1_sol, fallen, above>>
  PROVE  CellStep
<1>0. column \in WaterColumns /\ at.level \in Levels /\ column[at.level] \in Cells
  BY DEF TypeOK, Places, WaterColumns
<1>1. Moves
  BY <1>0, LevelsAre, LevelMoves
<1>2. Goes /\ at' \in Places
  BY <1>1, MovesGo DEF Moves
<1>3. Worked(column, at.level, w, column')
  BY <1>0, CellWorked
<1>4. w \in Work /\ Balanced(AtWork(column[at.level]))
  BY <1>0, AtWorkIs DEF Keeps
<1>5. /\ book' \in Books
      /\ Doing.name \in BookNames => book' = Tally(column'[at.level]) \/ LeftUncorrected
  <2>1. NoBook \in Books
    BY DEF NoBook, Books
  <2>2. CASE w = CloudFree(AtWork(column[at.level])) /\ Doing.name = "subgrid_z_proc" /\ book' = Book(w)
    <3>1. Cell(w) = CloudFree(column[at.level]) /\ Book(w) = Tally(column[at.level])
      BY <1>0, <2>2, CloudFreed
    <3>2. column'[at.level] = Cell(w)
      BY <1>3 DEF Worked
    <3> QED BY <1>4, <2>2, <3>1, <3>2, BookIs DEF LeftUncorrected
  <2> QED BY <1>3, <1>4, <2>1, <2>2, BookIs DEF Worked, KeepsBook
<1> QED BY <1>2, <1>3, <1>5 DEF CellStep, Worked, Unfallen

LEMMA WorkHere ==
  ASSUME TypeOK
  PROVE  AtWork(column[at.level]) \in Work
  BY AtWorkIs DEF TypeOK, Places, WaterColumns

LEMMA LevelByLevel ==
  ASSUME TypeOK,
         \/ SatAdjust3d \/ AdjustNegative \/ RevapRaccHalf \/ AutoconvHalf
         \/ MeltBeforeFalling \/ Icloud \/ Subgrid
  PROVE  CellStep
<1> DEFINE a == AtWork(column[at.level])
           b == Overdraw[at.level]
<1>0. a \in Work /\ at.level \in Levels /\ b \in Nat
  BY WorkHere, MoistAssumption DEF TypeOK, Places
<1> USE DEF CellNames, BookNames
<1>1. CASE SatAdjust3d
  <2>1. PICK w \in SatAdjustHere(a) : column' = [column EXCEPT ![at.level] = Cell(w)] /\ book' = Book(w)
    BY <1>1 DEF SatAdjust3d, WithABook
  <2>2. KeepsBook(a, w) /\ Keeps(a, w)
    BY <1>0, SatAdjustKeeps, NothingKeeps DEF SatAdjustHere, KeepsBook, KeepsPresent
  <2> QED BY <1>1, <2>1, <2>2, CellSteps DEF SatAdjust3d, WithABook
<1>2. CASE AdjustNegative
  <2> DEFINE w == FixNegWater(a)
  <2>1. column' = [column EXCEPT ![at.level] = Cell(w)] /\ book' = NoBook
    BY <1>2 DEF AdjustNegative, AtEachLevel, NegWater
  <2>2. Keeps(a, w)
    BY <1>0, FixNegWaterKeeps
  <2> HIDE DEF w
  <2> QED BY <1>2, <2>1, <2>2, CellSteps DEF AdjustNegative, AtEachLevel
<1>3. CASE RevapRaccHalf
  <2>1. PICK w \in RevapRacc(a) : column' = [column EXCEPT ![at.level] = Cell(w)]
    BY <1>3 DEF RevapRaccHalf, AtEachLevel
  <2>2. KeepsWater(a, w, b)
    BY <1>0, RevapRaccKeeps
  <2> QED BY <1>3, <2>1, <2>2, CellSteps DEF RevapRaccHalf, AtEachLevel, KeepsWater
<1>4. CASE AutoconvHalf
  <2>1. PICK w \in RevapAutoconv(a) : column' = [column EXCEPT ![at.level] = Cell(w)]
    BY <1>4 DEF AutoconvHalf, AtEachLevel
  <2>2. KeepsWater(a, w, b)
    BY <1>0, <2>1, RevapAutoconvKeeps
  <2> QED BY <1>4, <2>1, <2>2, CellSteps DEF AutoconvHalf, AtEachLevel, KeepsWater
<1>5. CASE MeltBeforeFalling
  <2>1. PICK w \in MeltBeforeFall(a) : column' = [column EXCEPT ![at.level] = Cell(w)] /\ book' = Book(w)
    BY <1>5 DEF MeltBeforeFalling, WithABook
  <2>2. KeepsPresent(a, w)
    BY <1>0, MeltingKeeps DEF MeltBeforeFall
  <2>3. KeepsBook(a, w) /\ Keeps(a, w) /\ (Sound(a, b) => Sound(w, b)) /\ (Firm(a) => Firm(w))
    BY <1>0, <2>2 DEF KeepsPresent, KeepsBook, KeepsSound
  <2> QED BY <1>5, <2>1, <2>3, CellSteps DEF MeltBeforeFalling, WithABook
<1>6. CASE Icloud
  <2>1. PICK w \in IcePhase(a) : column' = [column EXCEPT ![at.level] = Cell(w)] /\ book' = Book(w)
    BY <1>6 DEF Icloud, WithABook
  <2>2. KeepsPresent(a, w)
    BY <1>0, IcePhaseKeeps
  <2>3. KeepsBook(a, w) /\ Keeps(a, w) /\ (Sound(a, b) => Sound(w, b)) /\ (Firm(a) => Firm(w))
    BY <1>0, <2>2 DEF KeepsPresent, KeepsBook, KeepsSound
  <2> QED BY <1>6, <2>1, <2>3, CellSteps DEF Icloud, WithABook
<1>7. CASE Subgrid
  <2>1. PICK w \in SubgridHere(a) : column' = [column EXCEPT ![at.level] = Cell(w)] /\ book' = Book(w)
    BY <1>7 DEF Subgrid, WithABook
  <2>2. w \in SubgridZProcInDeepCold(a, b)
    BY DEF SubgridHere, SubgridZProcInDeepCold
  <2>3. Keeps(a, w) /\ KeepsSound(a, w) /\ (KeepsBook(a, w) \/ w = CloudFree(a))
    BY <1>0, <2>2, SubgridKeeps
  <2>4. Sound(a, b) => Sound(w, b)
    BY <1>0, <2>3 DEF KeepsSound
  <2> QED BY <1>7, <2>1, <2>3, <2>4, CellSteps DEF Subgrid, WithABook
<1> QED BY <1>1, <1>2, <1>3, <1>4, <1>5, <1>6, <1>7

-----------------------------------------------------------------------------
(* A stencil that moves one species between levels. *)
Made(c, s, d) ==
  /\ WaterDownTo(d, N) >= WaterDownTo(c, N)
  /\ WaterDownTo(d, N) <= WaterDownTo(c, N) + BelowZero(c, s)

LEMMA MakesNoMore ==
  ASSUME NEW c \in WaterColumns, NEW s \in Species, NEW q, Forgives(Taken(c, s), q)
  PROVE  Made(c, s, Replaced(c, s, q))
<1> DEFINE p == Taken(c, s)
           d == Replaced(c, s, q)
<1>1. p \in Amounts
  BY TakenIs
<1>2. PICK f : IsSum(f, Owed(p)) /\ BelowZero(c, s) = f[N]
  BY TakenIs
<1>3. q \in Amounts /\ Total(q) >= Total(p) /\ Total(q) <= Total(p) + f[N]
  BY <1>2 DEF Forgives
<1>4. Total(p) \in Int /\ Total(q) \in Int /\ f[N] \in Int /\ WaterDownTo(c, N) \in Int
  <2>1. f[N] \in Int
    BY <1>1, <1>2, OwedIs, LevelsAre
  <2>2. WaterDownTo(c, N) \in Int
    BY WatersAre, LevelsAre
  <2> QED BY <1>1, <1>3, <2>1, <2>2, TotalIsInt
<1>5. WaterDownTo(d, N) = WaterDownTo(c, N) + (Total(q) - Total(p))
  BY <1>3, ReplacedWater
<1> HIDE DEF p, d
<1>6. Made(c, s, d)
  BY <1>2, <1>3, <1>4, <1>5 DEF Made
<1> QED BY <1>6 DEF d

(* What the two vapour repairs of the core and the physics leave. *)
SparedTo(c) ==
  /\ \A k \in 1..(N - 1) : c[k].qv >= 0
  /\ c[N].qv < 0 => \A k \in 1..(N - 1) : c[k].qv = 0
AllPresent(c) == \A k \in Levels : c[k].qv >= 0

FixNames == {"fillq", "fix_water_vapor_down", "fill_gfs_delp"}

SpeciesStep ==
  /\ column' \in WaterColumns /\ h0' = h0 /\ Unfallen
  /\ book' = NoBook /\ at' \in Places /\ at'.level = 1 /\ Goes
  /\ Doing.name \in FixNames \cup {"fix_tracer"}
  /\ Doing.name = "fix_tracer" => WaterDownTo(column', N) = WaterDownTo(column, N)
  /\ Doing.name \in FixNames => Made(column, Doing.of, column')
  /\ Doing.name = "fix_water_vapor_down" => SparedTo(column')
  /\ Doing.name = "fill_gfs_delp" => AllPresent(column')
  /\ Doing.name = "fill_gfs_delp" /\ CondensatesIn(column) => CondensatesIn(column')
  /\ Doing.name = "fill_gfs_delp" /\ GraupelIn(column) => GraupelIn(column')

LEMMA SpeciesSteps ==
  ASSUME TypeOK, NEW q,
         column' = Replaced(column, Doing.of, q), book' = NoBook, NextStep,
         UNCHANGED <<h0, m1, m1_rain, m1_sol, fallen, above>>,
         \/ Doing.name = "fix_tracer" /\ q \in FixTracer(Taken(column, Doing.of))
         \/ Doing.name = "fillq" /\ q = FillQ(Taken(column, Doing.of))
         \/ Doing.name = "fix_water_vapor_down" /\ q = FixWaterVaporDown(Taken(column, Doing.of))
         \/ Doing.name = "fill_gfs_delp" /\ q = FillGfsDelp(Taken(column, Doing.of))
  PROVE  SpeciesStep
<1> DEFINE s == Doing.of
           p == Taken(column, s)
<1>1. Moves /\ at'.level = 1
  BY StepMoves
<1>2. Goes /\ at' \in Places
  BY <1>1, MovesGo DEF Moves
<1>3. column \in WaterColumns /\ s \in Species
  <2>1. "qv" \in Species
    BY DEF Species
  <2> QED BY <1>2, <2>1 DEF Goes, Named, TypeOK
<1>4. p \in Amounts
  BY <1>3, TakenIs
<1> HIDE DEF p
<1> USE DEF FixNames
<1>5. q \in Amounts => ReplacedIn(column, s, q, column')
  BY <1>3, ReplacedIs DEF s
<1> HIDE DEF s
<1>6. CASE Doing.name = "fix_tracer" /\ q \in FixTracer(p)
  <2>1. q \in Amounts /\ Total(q) = Total(p)
    BY <1>4, <1>6, FixTracerIs
  <2>2. WaterDownTo(column', N) = WaterDownTo(column, N) + (Total(q) - Total(p))
    BY <1>3, <2>1, ReplacedWater DEF s, p
  <2>3. WaterDownTo(column', N) = WaterDownTo(column, N)
    <3>1. Total(p) \in Int /\ WaterDownTo(column, N) \in Int
      BY <1>3, <1>4, TotalIsInt, WatersAre, LevelsAre
    <3> QED BY <2>1, <2>2, <3>1
  <2> QED BY <1>1, <1>2, <1>5, <1>6, <2>1, <2>3 DEF SpeciesStep, ReplacedIn, Unfallen
<1>7. CASE Doing.name = "fillq" /\ q = FillQ(p)
  <2>1. Forgives(p, q)
    BY <1>4, <1>7, FillQIs
  <2>2. Made(column, s, column') /\ q \in Amounts
    BY <1>3, <2>1, MakesNoMore DEF s, p, Forgives
  <2> QED BY <1>1, <1>2, <1>5, <1>7, <2>2 DEF SpeciesStep, ReplacedIn, Unfallen, s
<1>8. CASE Doing.name = "fix_water_vapor_down" /\ q = FixWaterVaporDown(p)
  <2>1. VapourLowered(p, q)
    BY <1>4, <1>8, FixWaterVaporDownIs
  <2>2. Forgives(p, q) /\ q \in Amounts
    BY <2>1 DEF VapourLowered, Forgives
  <2>3. Made(column, s, column')
    BY <1>3, <2>2, MakesNoMore DEF s, p
  <2>4. s = "qv"
    BY <1>2, <1>8 DEF Goes, Named, s
  <2>5. \A k \in Levels : column'[k].qv = q[k]
    BY <1>5, <2>2, <2>4 DEF ReplacedIn
  <2>6. SparedTo(column')
    <3>1. N \in Levels /\ \A k \in 1..(N - 1) : k \in Levels
      BY LevelsAre
    <3> QED BY <2>1, <2>5, <3>1 DEF SparedTo, VapourLowered
  <2> QED BY <1>1, <1>2, <1>5, <1>8, <2>2, <2>3, <2>6 DEF SpeciesStep, ReplacedIn, Unfallen, s
<1>9. CASE Doing.name = "fill_gfs_delp" /\ q = FillGfsDelp(p)
  <2>1. Forgives(p, q) /\ \A k \in Levels : q[k] >= 0
    BY <1>4, <1>9, FillGfsDelpIs
  <2>2. Made(column, s, column') /\ q \in Amounts
    BY <1>3, <2>1, MakesNoMore DEF s, p, Forgives
  <2>3. s = "qv"
    BY <1>2, <1>9 DEF Goes, Named, s
  <2>4. AllPresent(column')
    BY <1>5, <2>1, <2>2, <2>3 DEF ReplacedIn, AllPresent
  <2>5. (CondensatesIn(column) => CondensatesIn(column')) /\ (GraupelIn(column) => GraupelIn(column'))
    <3>1. \A k \in Levels, t \in Species : t # "qv" => column'[k][t] = column[k][t]
      BY <1>5, <2>2, <2>3 DEF ReplacedIn
    <3>2. \A k \in Levels : /\ column'[k].ql = column[k].ql /\ column'[k].qr = column[k].qr
                            /\ column'[k].qi = column[k].qi /\ column'[k].qs = column[k].qs
                            /\ column'[k].qg = column[k].qg
      BY <3>1 DEF Species
    <3> QED BY <3>2 DEF CondensatesIn, GraupelIn, Sound, Firm
  <2> QED BY <1>1, <1>2, <1>5, <1>9, <2>2, <2>4, <2>5 DEF SpeciesStep, ReplacedIn, Unfallen, s
<1> QED BY <1>6, <1>7, <1>8, <1>9 DEF p, s

LEMMA SpeciesBySpecies ==
  ASSUME TypeOK, FixTracers \/ FillSpecies \/ AdjustVapour \/ FillGfs
  PROVE  SpeciesStep
<1>0. Of(Doing.of) = Taken(column, Doing.of)
  BY DEF Of, Taken
<1>00. \A q : With(Doing.of, q) = Replaced(column, Doing.of, q)
  BY DEF With, Replaced
<1>1. CASE FixTracers
  <2>1. PICK q \in FixTracer(Taken(column, Doing.of)) : column' = Replaced(column, Doing.of, q)
    BY <1>0, <1>00, <1>1 DEF FixTracers, AlongTheColumn
  <2> QED BY <1>1, <2>1, SpeciesSteps DEF FixTracers, AlongTheColumn
<1>2. CASE FillSpecies
  <2>1. column' = Replaced(column, Doing.of, FillQ(Taken(column, Doing.of)))
    BY <1>0, <1>00, <1>2 DEF FillSpecies, AlongTheColumn, Filled
  <2> QED BY <1>2, <2>1, SpeciesSteps DEF FillSpecies, AlongTheColumn
<1>3. CASE AdjustVapour
  <2>1. column' = Replaced(column, Doing.of, FixWaterVaporDown(Taken(column, Doing.of)))
    BY <1>0, <1>00, <1>3 DEF AdjustVapour, AlongTheColumn, VapourDown
  <2> QED BY <1>3, <2>1, SpeciesSteps DEF AdjustVapour, AlongTheColumn
<1>4. CASE FillGfs
  <2>1. column' = Replaced(column, Doing.of, FillGfsDelp(Taken(column, Doing.of)))
    BY <1>0, <1>00, <1>4 DEF FillGfs, AlongTheColumn, GfsFilled
  <2> QED BY <1>4, <2>1, SpeciesSteps DEF FillGfs, AlongTheColumn
<1> QED BY <1>1, <1>2, <1>3, <1>4

-----------------------------------------------------------------------------
(* The mixing hands every amount on. *)
MixStep ==
  /\ column' \in WaterColumns /\ h0' \in Cells /\ Unfallen
  /\ book' = NoBook /\ at' \in Places /\ Goes
  /\ Doing.name = "m_loop"
  /\ WaterDownTo(column', N) + Water(h0') = WaterDownTo(column, N) + Water(h0)

LEMMA NothingIs ==
  Nothing \in Cells /\ Water(Nothing) = 0
<1>1. Nothing \in Cells
  BY DEF Nothing, Cells
<1>2. \A s \in Species : Nothing[s] = 0
  BY DEF Nothing
<1> QED BY <1>1, <1>2 DEF Water, Species

LEMMA FluxesAre ==
  ASSUME NEW here, NEW up, NEW h \in Fluxes(here, up)
  PROVE  h \in Cells
<1>1. PICK v \in Mixed(here.qv, up.qv), l \in Mixed(here.ql, up.ql), r \in Mixed(here.qr, up.qr),
           i \in Mixed(here.qi, up.qi), s \in Mixed(here.qs, up.qs), g \in Mixed(here.qg, up.qg) :
        h = [qv |-> v, ql |-> l, qr |-> r, qi |-> i, qs |-> s, qg |-> g]
  BY DEF Fluxes
<1>2. v \in Int /\ l \in Int /\ r \in Int /\ i \in Int /\ s \in Int /\ g \in Int
  BY DEF Mixed
<1> QED BY <1>1, <1>2 DEF Cells, Species

LEMMA MixingKeeps ==
  ASSUME TypeOK, NEW k \in Levels, NEW h \in Cells, at.level <= Sponge, Mixes(k, h)
  PROVE  MixStep
<1> DEFINE x == [s \in Species |-> column[k][s] + h0[s] - h[s]]
<1>0. column \in WaterColumns /\ h0 \in Cells /\ column[k] \in Cells
  BY DEF TypeOK, WaterColumns
<1>1. column' = [column EXCEPT ![k] = x] /\ h0' = h
  BY DEF Mixes
<1>2. x \in Cells /\ \A s \in Species : x[s] = column[k][s] + h0[s] - h[s]
  BY <1>0, CellsAre DEF Cells
<1> HIDE DEF x
<1>3. /\ x.qv = column[k].qv + h0.qv - h.qv /\ x.ql = column[k].ql + h0.ql - h.ql
      /\ x.qr = column[k].qr + h0.qr - h.qr /\ x.qi = column[k].qi + h0.qi - h.qi
      /\ x.qs = column[k].qs + h0.qs - h.qs /\ x.qg = column[k].qg + h0.qg - h.qg
  BY <1>2 DEF Species
<1> DEFINE c == column[k]
<1>4. c \in Cells
  BY <1>0
<1>5. Water(x) - Water(c) = Water(h0) - Water(h)
  <2>1. c.qv \in Int /\ c.ql \in Int /\ c.qr \in Int /\ c.qi \in Int /\ c.qs \in Int /\ c.qg \in Int
    BY <1>4, CellsAre
  <2>2. h0.qv \in Int /\ h0.ql \in Int /\ h0.qr \in Int /\ h0.qi \in Int /\ h0.qs \in Int /\ h0.qg \in Int
    BY <1>0, CellsAre
  <2>3. h.qv \in Int /\ h.ql \in Int /\ h.qr \in Int /\ h.qi \in Int /\ h.qs \in Int /\ h.qg \in Int
    BY CellsAre
  <2> HIDE DEF c
  <2> QED BY <1>3, <2>1, <2>2, <2>3 DEF Water, c
<1>6. column' \in WaterColumns
  BY <1>0, <1>1, <1>2, CellChanged
<1>7. WaterDownTo(column', N) = WaterDownTo(column, N) + (Water(x) - Water(c))
  BY <1>0, <1>1, <1>2, CellMixed
<1>8. WaterDownTo(column', N) + Water(h0') = WaterDownTo(column, N) + Water(h0)
  <2>1. Water(x) \in Int /\ Water(c) \in Int /\ Water(h) \in Int /\ Water(h0) \in Int
    BY <1>0, <1>2, <1>4, WaterIsInt
  <2>2. WaterDownTo(column, N) \in Int
    BY <1>0, WatersAre, LevelsAre
  <2> HIDE DEF c
  <2> QED BY <1>1, <1>5, <1>7, <2>1, <2>2
<1>9. Moves
  <2>1. Sponge \in Levels
    BY MoistAssumption, LevelsAre
  <2> QED BY <2>1, LevelMoves DEF Mixes
<1>10. Goes /\ at' \in Places
  BY <1>9, MovesGo DEF Moves
<1> QED BY <1>1, <1>6, <1>8, <1>10 DEF MixStep, Mixes, Unfallen

LEMMA Mixing ==
  ASSUME TypeOK, MixLowest \/ MixBetween \/ MixTop
  PROVE  MixStep
<1>0. /\ Sponge \in Levels /\ Sponge >= 3 /\ 1 \in Levels /\ Sponge \in Int /\ at.level \in Int
      /\ 1 <= Sponge
  BY MoistAssumption, LevelsAre DEF TypeOK, Places
<1>1. CASE MixLowest
  <2>1. PICK h \in Fluxes(column[Sponge], column[Sponge - 1]) : Mixes(Sponge, h)
    BY <1>1 DEF MixLowest
  <2>2. h \in Cells
    BY FluxesAre
  <2> QED BY <1>0, <1>1, <2>1, <2>2, MixingKeeps DEF MixLowest
<1>2. CASE MixBetween
  <2> DEFINE k == Sponge + 1 - at.level
             here == [s \in Species |-> column[k][s] + h0[s]]
  <2>1. at.level \in 2..Sponge - 1 /\ \E h \in Fluxes(here, column[k - 1]) : Mixes(k, h)
    BY <1>2 DEF MixBetween
  <2>2. k \in Levels
    BY <1>0, <2>1, LevelsAre
  <2> HIDE DEF k, here
  <2>3. PICK h \in Fluxes(here, column[k - 1]) : Mixes(k, h)
    BY <2>1
  <2>4. h \in Cells
    BY FluxesAre
  <2>5. at.level <= Sponge
    BY <1>0, <2>1
  <2> QED BY <2>2, <2>3, <2>4, <2>5, MixingKeeps
<1>3. CASE MixTop
  BY <1>0, <1>3, NothingIs, MixingKeeps DEF MixTop
<1> QED BY <1>1, <1>2, <1>3

-----------------------------------------------------------------------------
(* The microphysics begins. *)
InitStep ==
  /\ column' \in WaterColumns /\ h0' = h0 /\ m1_rain' = m1_rain /\ m1_sol' = m1_sol
  /\ book' = NoBook /\ at' \in Places /\ at'.level = 1 /\ Goes
  /\ Doing.name = "fields_init"
  /\ WaterDownTo(column', N) = WaterDownTo(column, N)
  /\ m1' = NoFlux /\ fallen' = 0
  /\ above' \in Profiles /\ \A k \in 0..N : above'[k] = WaterDownTo(column', k)
  /\ CondensatesIn(column') /\ GraupelIn(column')
  /\ \A k \in 1..(N - 1) : column'[k].qv >= 0
  /\ column'[N].qv < 0 => column'[N - 1].qv <= 0

LEMMA Initialising ==
  ASSUME TypeOK, FieldsInit
  PROVE  InitStep
<1> DEFINE r == [k \in Levels |-> FixNegativeSpecies(column[k])]
           p == [k \in Levels |-> r[k].qv]
           q == FixWaterVapor(p)
<1>0. column \in WaterColumns /\ \A k \in Levels : column[k] \in Cells
  BY DEF TypeOK, WaterColumns
<1>1. ASSUME NEW k \in Levels
      PROVE  r[k] \in Cells /\ Water(r[k]) = Water(column[k]) /\ Present(r[k])
  BY <1>0, FixNegativeSpeciesIs
<1>2. column' = [k \in Levels |-> [r[k] EXCEPT !.qv = q[k]]]
  BY DEF FieldsInit
<1>3. r \in WaterColumns
  <2>1. r = [k \in Levels |-> r[k]]
    OBVIOUS
  <2> HIDE DEF r
  <2> QED BY <1>1, <2>1 DEF WaterColumns
<1> HIDE DEF r
<1>4. SameWaters(column, r)
  BY <1>0, <1>1, <1>3, WatersAgree
<1>5. p = Taken(r, "qv") /\ "qv" \in Species
  BY DEF Taken, Species
<1>6. p \in Amounts
  BY <1>3, <1>5, TakenIs
<1> HIDE DEF p
<1>7. VapourRepaired(p, q)
  BY <1>6, FixWaterVaporIs
<1> HIDE DEF q
<1>8. q \in Amounts /\ Total(q) = Total(p)
  BY <1>7 DEF VapourRepaired
<1>9. column' = Replaced(r, "qv", q)
  BY <1>2 DEF Replaced
<1>10. ReplacedIn(r, "qv", q, column')
  BY <1>3, <1>5, <1>8, <1>9, ReplacedIs
<1>11. WaterDownTo(column', N) = WaterDownTo(column, N)
  <2>1. WaterDownTo(column', N) = WaterDownTo(r, N) + (Total(q) - Total(p))
    BY <1>3, <1>5, <1>8, <1>9, ReplacedWater
  <2>2. WaterDownTo(r, N) = WaterDownTo(column, N)
    BY <1>4, LevelsAre DEF SameWaters
  <2>3. WaterDownTo(column, N) \in Int /\ Total(p) \in Int
    BY <1>0, <1>6, WatersAre, LevelsAre, TotalIsInt
  <2> QED BY <1>8, <2>1, <2>2, <2>3
<1>12. column' \in WaterColumns
  BY <1>10 DEF ReplacedIn
<1>13. above' \in Profiles /\ \A k \in 0..N : above'[k] = WaterDownTo(column', k)
  <2>1. above' = [k \in 0..N |-> WaterDownTo(column', k)]
    BY DEF FieldsInit
  <2>2. \A k \in 0..N : WaterDownTo(column', k) \in Int
    BY <1>12, WatersAre
  <2> QED BY <2>1, <2>2 DEF Profiles
<1>14. CondensatesIn(column') /\ GraupelIn(column')
  <2>1. ASSUME NEW k \in Levels PROVE Sound(column'[k], Overdraw[k]) /\ Firm(column'[k])
    <3>1. \A s \in Species \ {"qv"} : column'[k][s] = r[k][s]
      BY <1>10 DEF ReplacedIn
    <3>2. Present(r[k]) /\ r[k].ql \in Int /\ Overdraw[k] \in Nat
      BY <1>1, MoistAssumption DEF Cells, Species
    <3>3. column'[k].ql = r[k].ql /\ column'[k].qr = r[k].qr /\ column'[k].qi = r[k].qi
          /\ column'[k].qs = r[k].qs /\ column'[k].qg = r[k].qg
      BY <3>1 DEF Species
    <3> QED BY <3>2, <3>3 DEF Present, Sound, Firm
  <2> QED BY <2>1 DEF CondensatesIn, GraupelIn
<1>15. (\A k \in 1..(N - 1) : column'[k].qv >= 0) /\ (column'[N].qv < 0 => column'[N - 1].qv <= 0)
  <2>1. N \in Levels /\ N - 1 \in Levels /\ \A k \in 1..(N - 1) : k \in Levels
    BY LevelsAre
  <2>2. \A k \in Levels : column'[k].qv = q[k]
    BY <1>10 DEF ReplacedIn
  <2> QED BY <1>7, <2>1, <2>2 DEF VapourRepaired
<1>16. Moves /\ at'.level = 1
  BY StepMoves DEF FieldsInit
<1>17. Goes /\ at' \in Places
  BY <1>16, MovesGo DEF Moves
<1> QED BY <1>11, <1>12, <1>13, <1>14, <1>15, <1>16, <1>17 DEF InitStep, FieldsInit

-----------------------------------------------------------------------------
(* What falls. *)
FallStep(f) ==
  /\ f \in Profiles /\ f[0] = 0
  /\ column' \in WaterColumns
  /\ \A k \in 0..N : WaterDownTo(column', k) = WaterDownTo(column, k) - f[k]
  /\ CondensatesIn(column) => CondensatesIn(column')
  /\ GraupelIn(column) => GraupelIn(column')
  /\ fallen' = fallen + f[N]
  /\ h0' = h0 /\ m1' = m1 /\ above' = above
  /\ book' = NoBook /\ at' \in Places /\ at'.level = 1 /\ Goes
  /\ \/ Doing.name = "rain_falls" /\ m1_rain' = f /\ m1_sol' = m1_sol
     \/ Doing.name = "ice_falls" /\ m1_sol' = f /\ m1_rain' = m1_rain
     \/ Doing.name \in {"snow_falls", "graupel_falls"} /\ m1_sol' = Sum(m1_sol, f) /\ m1_rain' = m1_rain

LEMMA FallSteps ==
  ASSUME TypeOK, NEW s \in {"qr", "qi", "qs", "qg"}, NEW f \in Falling(Of(s)),
         column' = Fallen(s, f), fallen' = fallen + f[N], book' = NoBook, NextStep,
         UNCHANGED <<h0, m1, above>>,
         \/ Doing.name = "rain_falls" /\ m1_rain' = f /\ m1_sol' = m1_sol
         \/ Doing.name = "ice_falls" /\ m1_sol' = f /\ m1_rain' = m1_rain
         \/ Doing.name \in {"snow_falls", "graupel_falls"} /\ m1_sol' = Sum(m1_sol, f) /\ m1_rain' = m1_rain
  PROVE  FallStep(f)
<1>1. column \in WaterColumns
  BY DEF TypeOK
<1>2. f \in [0..N -> Int] /\ f[0] = 0 /\ \A k \in Levels : f[k] \in ShareOf(f[k - 1] + column[k][s])
  <2> DEFINE q == Of(s)
             most == Total([k \in Levels |-> Greater(q[k], 0)])
             least == Total([k \in Levels |-> Lesser(q[k], 0)])
  <2>1. \/ /\ f \in [0..N -> least..most] /\ f[0] = 0
           /\ \A k \in Levels : f[k] \in ShareOf(f[k - 1] + q[k])
        \/ f = NoFlux
    BY DEF Falling
  <2>2. \A k \in Levels : q[k] = column[k][s] /\ q[k] \in Int
    <3>1. \A k \in Levels : column[k] \in Cells /\ s \in Species
      BY <1>1 DEF WaterColumns, Species
    <3> QED BY <3>1, CellsAre DEF Of
  <2>3. least \in Int /\ most \in Int
    <3>1. [k \in Levels |-> Greater(q[k], 0)] \in Amounts /\ [k \in Levels |-> Lesser(q[k], 0)] \in Amounts
      <4> HIDE DEF q
      <4> QED BY <2>2 DEF Amounts, Greater, Lesser
    <3> QED BY <3>1, TotalIsInt
  <2> HIDE DEF q, most, least
  <2>4. CASE f = NoFlux
    <3>1. f \in [0..N -> Int] /\ \A k \in 0..N : f[k] = 0
      BY <2>4 DEF NoFlux
    <3>2. ASSUME NEW k \in Levels PROVE f[k] \in ShareOf(f[k - 1] + q[k])
      <4>1. f[k] = 0 /\ f[k - 1] = 0
        BY <3>1, LevelsAre
      <4> QED BY <2>2, <4>1 DEF ShareOf, Lesser, Greater
    <3> QED BY <2>2, <3>1, <3>2, LevelsAre
  <2>5. CASE f # NoFlux
    <3>1. least..most \subseteq Int
      BY <2>3
    <3> QED BY <2>1, <2>2, <2>5, <3>1
  <2> QED BY <2>4, <2>5
<1>3. column' = Falls(column, s, f)
  BY DEF Fallen, With, Falls, Replaced
<1>4. FallenFrom(column, s, f, column')
  <2>1. s \in Species
    BY DEF Species
  <2> QED BY <1>1, <1>2, <1>3, <2>1, FallingKeeps
<1>5. (CondensatesIn(column) => CondensatesIn(column')) /\ (GraupelIn(column) => GraupelIn(column'))
  <2>1. \A k \in Levels, t \in Species : t # s => column'[k][t] = column[k][t]
    BY <1>4 DEF FallenFrom
  <2>2. \A k \in Levels : /\ column'[k].ql = column[k].ql
                          /\ s = "qr" \/ column'[k].qr = column[k].qr
                          /\ s = "qi" \/ column'[k].qi = column[k].qi
                          /\ s = "qs" \/ column'[k].qs = column[k].qs
                          /\ s = "qg" \/ column'[k].qg = column[k].qg
    BY <2>1 DEF Species
  <2>3. (\A k \in Levels : column[k][s] >= 0) => \A k \in Levels : column'[k][s] >= 0
    BY <1>4 DEF FallenFrom
  <2>4. CASE s = "qg"
    BY <2>2, <2>3, <2>4 DEF CondensatesIn, GraupelIn, Sound, Firm
  <2>5. CASE s = "qr"
    BY <2>2, <2>3, <2>5 DEF CondensatesIn, GraupelIn, Sound, Firm
  <2>6. CASE s = "qi"
    BY <2>2, <2>3, <2>6 DEF CondensatesIn, GraupelIn, Sound, Firm
  <2>7. CASE s = "qs"
    BY <2>2, <2>3, <2>7 DEF CondensatesIn, GraupelIn, Sound, Firm
  <2> QED BY <2>4, <2>5, <2>6, <2>7
<1>6. Moves /\ at'.level = 1
  BY StepMoves
<1>7. Goes /\ at' \in Places
  BY <1>6, MovesGo DEF Moves
<1> QED BY <1>2, <1>4, <1>5, <1>6, <1>7 DEF FallStep, FallenFrom, Profiles

LEMMA FallsStep ==
  ASSUME TypeOK, RainFalls \/ IceFalls \/ SnowFalls \/ GraupelFalls
  PROVE  \E f : FallStep(f)
<1>1. CASE RainFalls
  <2>1. PICK f \in Falling(Of("qr")) : column' = Fallen("qr", f) /\ m1_rain' = f /\ fallen' = fallen + f[N]
    BY <1>1 DEF RainFalls
  <2> QED BY <1>1, <2>1, FallSteps DEF RainFalls
<1>2. CASE IceFalls
  <2>1. PICK f \in Falling(Of("qi")) : column' = Fallen("qi", f) /\ m1_sol' = f /\ fallen' = fallen + f[N]
    BY <1>2 DEF IceFalls
  <2> QED BY <1>2, <2>1, FallSteps DEF IceFalls
<1>3. ASSUME NEW name \in {"snow_falls", "graupel_falls"}, FallsToo(name) PROVE \E f : FallStep(f)
  <2>1. Doing.of \in {"qr", "qi", "qs", "qg"}
    <3>1. Moves
      BY <1>3, StepMoves DEF FallsToo
    <3>2. Named(Doing)
      BY <3>1, MovesGo DEF Goes
    <3> QED BY <1>3, <3>2 DEF Named, FallsToo
  <2>2. PICK f \in Falling(Of(Doing.of)) :
          column' = Fallen(Doing.of, f) /\ m1_sol' = Sum(m1_sol, f) /\ fallen' = fallen + f[N]
    BY <1>3 DEF FallsToo
  <2> QED BY <1>3, <2>1, <2>2, FallSteps DEF FallsToo
<1> QED BY <1>1, <1>2, <1>3 DEF SnowFalls, GraupelFalls

-----------------------------------------------------------------------------
(* The others. *)
OtherStep ==
  /\ column' \in WaterColumns /\ h0' = h0
  /\ book' = NoBook /\ at' \in Places /\ at'.level = 1 /\ Goes
  /\ \/ /\ Doing.name = "accumulate"
        /\ m1' = IF Doing.of THEN Sum(m1, m1_rain) ELSE Sum(Sum(m1, m1_rain), m1_sol)
        /\ m1_rain' = NoFlux
        /\ UNCHANGED <<column, m1_sol, fallen, above>>
     \/ /\ Doing.name = "fields_update"
        /\ m1' = NoFlux /\ m1_sol' = NoFlux /\ m1_rain' = m1_rain
        /\ fallen' = 0 /\ above' = NoFlux /\ column' = column
     \/ Doing.name = "dynamics" /\ Unfallen

LEMMA OtherSteps ==
  ASSUME TypeOK, Accumulate \/ FieldsUpdate \/ Dynamics
  PROVE  OtherStep
<1>1. Moves /\ at'.level = 1
  BY StepMoves DEF Accumulate, FieldsUpdate, Dynamics
<1>2. Goes /\ at' \in Places
  BY <1>1, MovesGo DEF Moves
<1>3. CASE Accumulate
  BY <1>1, <1>2, <1>3 DEF OtherStep, Accumulate, TypeOK
<1>4. CASE FieldsUpdate
  BY <1>1, <1>2, <1>4 DEF OtherStep, FieldsUpdate, TypeOK
<1>5. CASE Dynamics
  BY <1>1, <1>2, <1>5, MoistAssumption DEF OtherStep, Dynamics, WaterColumns, Cells, Unfallen
<1> QED BY <1>3, <1>4, <1>5

(* Every step is one of these. *)
LEMMA StepsSorted ==
  ASSUME TypeOK, Next
  PROVE  CellStep \/ SpeciesStep \/ MixStep \/ InitStep \/ (\E f : FallStep(f)) \/ OtherStep
  BY LevelByLevel, SpeciesBySpecies, Mixing, Initialising, FallsStep, OtherSteps DEF Next

-----------------------------------------------------------------------------
(* The types hold. *)
LEMMA FluxesAdd ==
  ASSUME NEW f \in Profiles, NEW g \in Profiles
  PROVE  Sum(f, g) \in Profiles /\ \A k \in 0..N : Sum(f, g)[k] = f[k] + g[k]
  BY DEF Sum, Profiles

LEMMA TypesBegin ==
  ASSUME Init
  PROVE  TypeOK
<1>1. column \in WaterColumns
  BY MoistAssumption DEF Init, WaterColumns, Cells
<1>2. h0 \in Cells /\ NoFlux \in Profiles /\ NoBook \in Books
  BY NothingIs DEF Init, NoFlux, Profiles, NoBook, Books
<1>3. at \in Places
  <2>1. 1 \in 1..Len(Program) /\ 1 \in Levels
    BY ProgramIs, LevelsAre
  <2> QED BY <2>1 DEF Init, Places
<1> QED BY <1>1, <1>2, <1>3, 0 \in Int DEF Init, TypeOK

LEMMA TypesKept ==
  ASSUME TypeOK, [Next]_vars
  PROVE  TypeOK'
<1>0. NoFlux \in Profiles /\ NoBook \in Books /\ N \in 0..N
  BY LevelsAre DEF NoFlux, Profiles, NoBook, Books
<1> USE DEF TypeOK
<1>1. CASE CellStep
  BY <1>1 DEF CellStep, SameWaters, Unfallen
<1>2. CASE SpeciesStep
  BY <1>0, <1>2 DEF SpeciesStep, Unfallen
<1>3. CASE MixStep
  BY <1>0, <1>3 DEF MixStep, Unfallen
<1>4. CASE InitStep
  BY <1>0, <1>4 DEF InitStep
<1>5. ASSUME NEW f, FallStep(f) PROVE TypeOK'
  <2>1. f \in Profiles /\ Sum(m1_sol, f) \in Profiles
    BY <1>5, FluxesAdd DEF FallStep
  <2>2. f[N] \in Int
    BY <1>0, <2>1 DEF Profiles
  <2>3. fallen + f[N] \in Int
    BY <2>2
  <2> QED BY <1>0, <1>5, <2>1, <2>3 DEF FallStep
<1>6. CASE OtherStep
  <2>1. Sum(m1, m1_rain) \in Profiles /\ Sum(Sum(m1, m1_rain), m1_sol) \in Profiles
    BY FluxesAdd
  <2> QED BY <1>0, <1>6, <2>1 DEF OtherStep, Unfallen
<1>7. CASE UNCHANGED vars
  BY <1>7 DEF vars
<1> QED BY <1>1, <1>2, <1>3, <1>4, <1>5, <1>6, <1>7, StepsSorted

(* The amounts, fluxes and sums stay whole numbers and the program stays   *)
(* within its steps and levels.                                            *)
THEOREM TypesHold == Spec => []TypeOK
<1>1. Init => TypeOK
  BY TypesBegin
<1>2. TypeOK /\ [Next]_vars => TypeOK'
  BY TypesKept
<1> QED BY <1>1, <1>2, PTL DEF Spec

-----------------------------------------------------------------------------
(* Where the water comes from. *)
WaterLaw ==
  LET before == Everywhere + (IF Doing.name = "fields_init" THEN 0 ELSE fallen)
      after == Everywhere' + (IF Doing.name = "fields_update" THEN fallen ELSE fallen')
      made == after - before
  IN \/ Doing.name = "dynamics"
     \/ /\ Doing.name \in {"fillq", "fix_water_vapor_down", "fill_gfs_delp"}
        /\ 0 <= made /\ made <= BelowZero(column, Doing.of)
     \/ made = 0

LEMMA DebtIsInt ==
  ASSUME NEW c \in WaterColumns, NEW s \in Species
  PROVE  BelowZero(c, s) \in Int
<1>1. Taken(c, s) \in Amounts
  BY TakenIs
<1>2. PICK f : IsSum(f, Owed(Taken(c, s))) /\ BelowZero(c, s) = f[N]
  BY TakenIs
<1> QED BY <1>1, <1>2, OwedIs, LevelsAre

LEMMA WaterKept ==
  ASSUME TypeOK, Next
  PROVE  WaterLaw
<1> DEFINE a == WaterDownTo(column, N)
           b == WaterDownTo(column', N)
           h == Water(h0)
           i == Water(h0')
<1>0. a \in Int /\ h \in Int /\ fallen \in Int /\ N \in 0..N
  BY WatersAre, WaterIsInt, LevelsAre DEF TypeOK
<1>1. TypeOK'
  BY TypesKept
<1>2. b \in Int /\ i \in Int /\ fallen' \in Int
  BY <1>1, WatersAre, WaterIsInt, LevelsAre DEF TypeOK
<1>3. Everywhere = a + h /\ Everywhere' = b + i
  BY DEF Everywhere
<1> HIDE DEF a, b, h, i
<1> USE DEF WaterLaw
<1>4. CASE CellStep
  <2>1. b = a /\ i = h /\ fallen' = fallen /\ Doing.name \notin {"fields_init", "fields_update"}
    BY <1>0, <1>4 DEF CellStep, SameWaters, Unfallen, CellNames, a, b, h, i
  <2> QED BY <1>0, <1>3, <2>1
<1>5. CASE SpeciesStep
  <2>1. i = h /\ fallen' = fallen /\ Doing.name \notin {"fields_init", "fields_update"}
    BY <1>5 DEF SpeciesStep, Unfallen, FixNames, h, i
  <2>2. CASE Doing.name = "fix_tracer"
    <3>1. b = a
      BY <1>5, <2>2 DEF SpeciesStep, a, b
    <3> QED BY <1>0, <1>3, <2>1, <3>1
  <2>3. CASE Doing.name \in FixNames
    <3> DEFINE d == BelowZero(column, Doing.of)
    <3>1. b >= a /\ b <= a + d
      BY <1>5, <2>3 DEF SpeciesStep, Made, a, b
    <3>2. Doing.of \in Species
      <4>1. "qv" \in Species
        BY DEF Species
      <4> QED BY <1>5, <2>3, <4>1 DEF SpeciesStep, Goes, Named, FixNames
    <3>3. d \in Int
      BY <3>2, DebtIsInt DEF TypeOK
    <3> HIDE DEF d
    <3>4. 0 <= b - a /\ b - a <= d /\ (Everywhere' + fallen') - (Everywhere + fallen) = b - a
      BY <1>0, <1>2, <1>3, <2>1, <3>1, <3>3
    <3>5. /\ 0 <= (Everywhere' + fallen') - (Everywhere + fallen)
          /\ (Everywhere' + fallen') - (Everywhere + fallen) <= d
      BY <3>4
    <3> QED BY <2>1, <2>3, <3>5 DEF FixNames, d
  <2> QED BY <1>5, <2>2, <2>3 DEF SpeciesStep
<1>6. CASE MixStep
  <2>1. b + i = a + h /\ fallen' = fallen /\ Doing.name \notin {"fields_init", "fields_update"}
    BY <1>6 DEF MixStep, Unfallen, a, b, h, i
  <2> QED BY <1>0, <1>2, <1>3, <2>1
<1>7. CASE InitStep
  <2>1. b = a /\ i = h /\ fallen' = 0 /\ Doing.name = "fields_init"
    BY <1>7 DEF InitStep, a, b, h, i
  <2> QED BY <1>0, <1>3, <2>1
<1>8. ASSUME NEW f, FallStep(f) PROVE WaterLaw
  <2>1. b = a - f[N] /\ i = h /\ fallen' = fallen + f[N] /\ Doing.name \notin {"fields_init", "fields_update"}
    BY <1>0, <1>8 DEF FallStep, a, b, h, i
  <2>2. f[N] \in Int
    BY <1>0, <1>8 DEF FallStep, Profiles
  <2> QED BY <1>0, <1>2, <1>3, <2>1, <2>2
<1>9. CASE OtherStep
  <2>1. CASE Doing.name = "dynamics"
    BY <2>1
  <2>2. CASE Doing.name = "accumulate"
    <3>1. b = a /\ i = h /\ fallen' = fallen
      BY <1>9, <2>2 DEF OtherStep, a, b, h, i
    <3> QED BY <1>0, <1>3, <2>2, <3>1
  <2>3. CASE Doing.name = "fields_update"
    <3>1. b = a /\ i = h
      BY <1>9, <2>3 DEF OtherStep, a, b, h, i
    <3> QED BY <1>0, <1>3, <2>3, <3>1
  <2> QED BY <1>9, <2>1, <2>2, <2>3 DEF OtherStep
<1> QED BY <1>4, <1>5, <1>6, <1>7, <1>8, <1>9, StepsSorted

(* Only the three repairs make water, and never more than the species they *)
(* repair had below zero; every other stencil of the physics step keeps    *)
(* what the column, the flux on its way and the ground hold together.      *)
THEOREM WaterIsMadeByFixers == Spec => OnlyFixersMakeWater
<1>1. TypeOK /\ [Next]_vars => [WaterLaw]_vars
  BY WaterKept
<1> QED BY <1>1, TypesHold, PTL DEF Spec, OnlyFixersMakeWater, WaterLaw

-----------------------------------------------------------------------------
(* The books balance. *)
BookLaw ==
  Doing.name \in {"satadjust", "melt_before_fall", "icloud", "subgrid_z_proc"} =>
    \/ book' = Tally(column'[at.level])
    \/ /\ Doing.name = "subgrid_z_proc"
       /\ column'[at.level] = CloudFree(column[at.level])
       /\ book' = Tally(column[at.level])

LEMMA BooksKept ==
  ASSUME TypeOK, Next
  PROVE  BookLaw
<1>1. CASE CellStep
  BY <1>1 DEF CellStep, BookLaw, BookNames, LeftUncorrected
<1>2. CASE ~ CellStep
  <2>1. Doing.name \notin BookNames
    BY <1>2, StepsSorted DEF SpeciesStep, MixStep, InitStep, FallStep, OtherStep, FixNames, BookNames
  <2> QED BY <2>1 DEF BookLaw, BookNames
<1> QED BY <1>1, <1>2

(* Every stencil that corrects its sums of liquid and solid water with     *)
(* every exchange ends with the sums of the cell it leaves, but where it   *)
(* evaporates every cloud at once: then with those of the cell it found,   *)
(* and nothing but vapour and clouds is changed.                           *)
THEOREM BooksAreRight == Spec => BooksBalance
<1>1. TypeOK /\ [Next]_vars => [BookLaw]_vars
  BY BooksKept
<1> QED BY <1>1, TypesHold, PTL DEF Spec, BooksBalance, BookLaw

-----------------------------------------------------------------------------
(* The flux that carries momentum.  Between the steps at which it is       *)
(* complete it lacks what the last warm_rain, the last sedimentation or    *)
(* both let fall; with those added it is always the water that has fallen. *)
Tallied(f, c, up, ground) ==
  (\A k \in 0..N : f[k] = up[k] - WaterDownTo(c, k)) /\ f[N] = ground

FluxIsBooked ==
  /\ Complete(Doing) => Tallied(m1, column, above, fallen)
  /\ RainToAdd(Doing) => Tallied(Sum(m1, m1_rain), column, above, fallen)
  /\ SolidToAdd(Doing) => Tallied(Sum(m1, m1_sol), column, above, fallen)
  /\ BothToAdd(Doing) => Tallied(Sum(Sum(m1, m1_rain), m1_sol), column, above, fallen)

LEMMA FluxBegins ==
  ASSUME Init
  PROVE  FluxIsBooked
<1>1. Doing = CoreIs[1]
  <2>1. 1 \in 1..15
    OBVIOUS
  <2> QED BY <2>1, ProgramIs DEF Init, Doing
<1>2. Doing.name = "fix_tracer"
  BY <1>1 DEF CoreIs, Step
<1> QED BY <1>2 DEF FluxIsBooked, Complete, RainToAdd, SolidToAdd, BothToAdd

LEMMA TallyKept ==
  ASSUME NEW f, NEW c, NEW d, NEW up, NEW ground, SameWaters(c, d), Tallied(f, c, up, ground)
  PROVE  Tallied(f, d, up, ground)
  BY DEF SameWaters, Tallied

LEMMA TallyFalls ==
  ASSUME TypeOK, NEW f \in Profiles, Tallied(f, column, above, fallen),
         NEW g, FallStep(g), NEW r \in Profiles, \A k \in 0..N : r[k] = f[k] + g[k]
  PROVE  Tallied(r, column', above', fallen')
<1>1. N \in 0..N /\ above' = above /\ fallen' = fallen + g[N]
  BY LevelsAre DEF FallStep
<1>2. ASSUME NEW k \in 0..N PROVE r[k] = above'[k] - WaterDownTo(column', k)
  <2>1. f[k] \in Int /\ g[k] \in Int /\ above[k] \in Int /\ WaterDownTo(column, k) \in Int
    BY WatersAre DEF TypeOK, Profiles, FallStep
  <2>2. WaterDownTo(column', k) = WaterDownTo(column, k) - g[k] /\ f[k] = above[k] - WaterDownTo(column, k)
    BY DEF FallStep, Tallied
  <2>3. r[k] = f[k] + g[k]
    OBVIOUS
  <2> QED BY <1>1, <2>1, <2>2, <2>3
<1>3. r[N] = fallen'
  BY <1>1 DEF Tallied
<1> QED BY <1>2, <1>3 DEF Tallied

LEMMA FluxKept ==
  ASSUME TypeOK, FluxIsBooked, Next
  PROVE  FluxIsBooked'
<1> USE DEF FluxIsBooked
<1>1. CASE CellStep
  <2>1. Goes /\ SameWaters(column, column') /\ Unfallen
    BY <1>1 DEF CellStep
  <2>2. CASE Doing.name \in CellNames
    <3>1. Still(Doing, Doing')
      BY <2>1, <2>2 DEF Goes, Turns, Still
    <3>2. /\ Complete(Doing') => Tallied(m1, column', above, fallen)
          /\ RainToAdd(Doing') => Tallied(Sum(m1, m1_rain), column', above, fallen)
          /\ SolidToAdd(Doing') => Tallied(Sum(m1, m1_sol), column', above, fallen)
          /\ BothToAdd(Doing') => Tallied(Sum(Sum(m1, m1_rain), m1_sol), column', above, fallen)
      BY <2>1, <3>1, TallyKept DEF Still
    <3> QED BY <2>1, <3>2 DEF Unfallen, Complete, RainToAdd, SolidToAdd, BothToAdd
  <2>3. CASE Doing.name \notin CellNames
    <3>1. Doing.name \in OutsideNames /\ Outside(Doing)
      BY <1>1, <2>3 DEF CellStep, OutsideNames, Outside, Complete, RainToAdd, SolidToAdd, BothToAdd
    <3>2. Outside(Doing')
      BY <2>1, <3>1 DEF Goes, Turns
    <3> QED BY <3>2 DEF Outside, Complete, RainToAdd, SolidToAdd, BothToAdd
  <2> QED BY <2>2, <2>3
<1>2. CASE SpeciesStep \/ MixStep
  <2>1. Goes /\ Doing.name \in OutsideNames /\ Outside(Doing)
    BY <1>2 DEF SpeciesStep, MixStep, FixNames, OutsideNames, Outside, Complete, RainToAdd, SolidToAdd, BothToAdd
  <2>2. Outside(Doing')
    BY <2>1 DEF Goes, Turns
  <2> QED BY <2>2 DEF Outside, Complete, RainToAdd, SolidToAdd, BothToAdd
<1>3. CASE InitStep
  <2>1. OnlyComplete(Doing')
    BY <1>3 DEF InitStep, Goes, Turns
  <2>2. Tallied(m1', column', above', fallen')
    <3>1. m1' = NoFlux /\ fallen' = 0 /\ N \in 0..N /\ column' \in WaterColumns
      BY <1>3, LevelsAre DEF InitStep
    <3>2. ASSUME NEW k \in 0..N PROVE m1'[k] = above'[k] - WaterDownTo(column', k)
      <4>1. above'[k] = WaterDownTo(column', k)
        BY <1>3 DEF InitStep
      <4>2. WaterDownTo(column', k) \in Int /\ m1'[k] = 0
        BY <3>1, WatersAre DEF NoFlux
      <4> QED BY <4>1, <4>2
    <3>3. m1'[N] = fallen'
      BY <3>1 DEF NoFlux
    <3> QED BY <3>2, <3>3 DEF Tallied
  <2> QED BY <2>1, <2>2 DEF OnlyComplete, Complete, RainToAdd, SolidToAdd, BothToAdd
<1>4. ASSUME NEW g, FallStep(g) PROVE FluxIsBooked'
  <2>1. /\ g \in Profiles /\ m1' = m1 /\ Turns(Doing, Doing') /\ Named(Doing)
        /\ m1 \in Profiles /\ m1_sol \in Profiles /\ m1_rain \in Profiles
    BY <1>4 DEF FallStep, Goes, TypeOK
  <2>2. CASE Doing.name = "rain_falls"
    <3>1. m1_rain' = g /\ m1_sol' = m1_sol
      BY <1>4, <2>2 DEF FallStep
    <3>2. CASE Doing.of = TRUE
      <4>1. Complete(Doing) /\ OnlyRainToAdd(Doing')
        BY <2>1, <2>2, <3>2 DEF Turns, Complete
      <4>2. Sum(m1, g) \in Profiles /\ \A k \in 0..N : Sum(m1, g)[k] = m1[k] + g[k]
        BY <2>1, FluxesAdd
      <4>3. Tallied(Sum(m1, g), column', above', fallen')
        BY <1>4, <2>1, <4>1, <4>2, TallyFalls
      <4> QED BY <2>1, <3>1, <4>1, <4>3 DEF OnlyRainToAdd, Complete, RainToAdd, SolidToAdd, BothToAdd, Sum
    <3>3. CASE Doing.of = FALSE
      <4>1. SolidToAdd(Doing) /\ OnlyBothToAdd(Doing')
        BY <2>1, <2>2, <3>3 DEF Turns, SolidToAdd
      <4> DEFINE f == Sum(m1, m1_sol)
                 r == Sum(Sum(m1, g), m1_sol)
      <4>2. f \in Profiles /\ r \in Profiles /\ \A k \in 0..N : r[k] = f[k] + g[k]
        <5>1. f \in Profiles /\ \A k \in 0..N : f[k] = m1[k] + m1_sol[k]
          BY <2>1, FluxesAdd
        <5>2. Sum(m1, g) \in Profiles /\ \A k \in 0..N : Sum(m1, g)[k] = m1[k] + g[k]
          BY <2>1, FluxesAdd
        <5>3. r \in Profiles /\ \A k \in 0..N : r[k] = Sum(m1, g)[k] + m1_sol[k]
          BY <2>1, <5>2, FluxesAdd
        <5>4. \A k \in 0..N : m1[k] \in Int /\ m1_sol[k] \in Int /\ g[k] \in Int
          BY <2>1 DEF Profiles
        <5> HIDE DEF f, r
        <5> QED BY <5>1, <5>2, <5>3, <5>4
      <4>3. Tallied(f, column, above, fallen)
        BY <4>1
      <4> HIDE DEF f, r
      <4>4. Tallied(r, column', above', fallen')
        BY <1>4, <4>2, <4>3, TallyFalls
      <4> QED BY <2>1, <3>1, <4>1, <4>4 DEF OnlyBothToAdd, Complete, RainToAdd, SolidToAdd, BothToAdd, r, Sum
    <3> QED BY <2>1, <2>2, <3>2, <3>3 DEF Named
  <2>3. CASE Doing.name = "ice_falls"
    <3>1. m1_sol' = g /\ m1_rain' = m1_rain
      BY <1>4, <2>3 DEF FallStep
    <3>2. Complete(Doing) /\ OnlySolidToAdd(Doing')
      BY <2>1, <2>3 DEF Turns, Complete
    <3>3. Sum(m1, g) \in Profiles /\ \A k \in 0..N : Sum(m1, g)[k] = m1[k] + g[k]
      BY <2>1, FluxesAdd
    <3>4. Tallied(Sum(m1, g), column', above', fallen')
      BY <1>4, <2>1, <3>2, <3>3, TallyFalls
    <3> QED BY <2>1, <3>1, <3>2, <3>4 DEF OnlySolidToAdd, Complete, RainToAdd, SolidToAdd, BothToAdd, Sum
  <2>4. CASE Doing.name \in {"snow_falls", "graupel_falls"}
    <3>1. m1_sol' = Sum(m1_sol, g) /\ m1_rain' = m1_rain
      BY <1>4, <2>4 DEF FallStep
    <3>2. SolidToAdd(Doing) /\ OnlySolidToAdd(Doing')
      BY <2>1, <2>4 DEF Turns, SolidToAdd
    <3> DEFINE f == Sum(m1, m1_sol)
               r == Sum(m1, Sum(m1_sol, g))
    <3>3. f \in Profiles /\ r \in Profiles /\ \A k \in 0..N : r[k] = f[k] + g[k]
      <4>1. f \in Profiles /\ \A k \in 0..N : f[k] = m1[k] + m1_sol[k]
        BY <2>1, FluxesAdd
      <4>2. Sum(m1_sol, g) \in Profiles /\ \A k \in 0..N : Sum(m1_sol, g)[k] = m1_sol[k] + g[k]
        BY <2>1, FluxesAdd
      <4>3. r \in Profiles /\ \A k \in 0..N : r[k] = m1[k] + Sum(m1_sol, g)[k]
        BY <2>1, <4>2, FluxesAdd
      <4>4. \A k \in 0..N : m1[k] \in Int /\ m1_sol[k] \in Int /\ g[k] \in Int
        BY <2>1 DEF Profiles
      <4> HIDE DEF f, r
      <4> QED BY <4>1, <4>2, <4>3, <4>4
    <3>4. Tallied(f, column, above, fallen)
      BY <3>2
    <3> HIDE DEF f, r
    <3>5. Tallied(r, column', above', fallen')
      BY <1>4, <3>3, <3>4, TallyFalls
    <3> QED BY <2>1, <3>1, <3>2, <3>5 DEF OnlySolidToAdd, Complete, RainToAdd, SolidToAdd, BothToAdd, r, Sum
  <2> QED BY <1>4, <2>2, <2>3, <2>4 DEF FallStep
<1>5. CASE OtherStep
  <2>1. Goes /\ at'.level = 1 /\ Turns(Doing, Doing') /\ Named(Doing)
    BY <1>5 DEF OtherStep, Goes
  <2>2. CASE Doing.name \in {"fields_update", "dynamics"}
    <3>1. Outside(Doing')
      BY <2>1, <2>2 DEF Turns, OutsideNames
    <3> QED BY <3>1 DEF Outside, Complete, RainToAdd, SolidToAdd, BothToAdd
  <2>3. CASE Doing.name = "accumulate"
    <3>1. /\ UNCHANGED <<column, m1_sol, fallen, above>>
          /\ m1' = IF Doing.of THEN Sum(m1, m1_rain) ELSE Sum(Sum(m1, m1_rain), m1_sol)
      BY <1>5, <2>3 DEF OtherStep
    <3>2. OnlyComplete(Doing')
      BY <2>1, <2>3 DEF Turns
    <3>3. Tallied(m1', column, above, fallen)
      <4>1. CASE Doing.of = TRUE
        BY <2>3, <3>1, <4>1 DEF RainToAdd
      <4>2. CASE Doing.of = FALSE
        BY <2>3, <3>1, <4>2 DEF BothToAdd
      <4> QED BY <2>1, <2>3, <4>1, <4>2 DEF Named
    <3> QED BY <3>1, <3>2, <3>3 DEF OnlyComplete, Complete, RainToAdd, SolidToAdd, BothToAdd
  <2> QED BY <1>5, <2>2, <2>3 DEF OtherStep
<1> QED BY <1>1, <1>2, <1>3, <1>4, <1>5, StepsSorted

LEMMA FluxStutters ==
  ASSUME FluxIsBooked, UNCHANGED vars
  PROVE  FluxIsBooked'
  BY DEF FluxIsBooked, vars, Tallied, Sum, Doing, Complete, RainToAdd, SolidToAdd, BothToAdd

(* Where the flux is complete, every level's is what the levels above have *)
(* lost since the microphysics began, and the last one's is what has       *)
(* reached the ground.                                                     *)
THEOREM FluxIsTheWaterFallen == Spec => []MomentumFluxIsTheWaterFallen
<1>1. Init => FluxIsBooked
  BY FluxBegins
<1>2. TypeOK /\ FluxIsBooked /\ [Next]_vars => FluxIsBooked'
  BY FluxKept, FluxStutters
<1>3. FluxIsBooked => MomentumFluxIsTheWaterFallen
  <2>1. Levels \subseteq 0..N
    BY LevelsAre
  <2> QED BY <2>1 DEF FluxIsBooked, MomentumFluxIsTheWaterFallen, Complete, Tallied
<1> QED BY <1>1, <1>2, <1>3, TypesHold, PTL DEF Spec

-----------------------------------------------------------------------------
(* What the repairs promise, in the terms of the steps. *)
Promises ==
  /\ at.step >= 16 => CondensatesIn(column)
  /\ at.step \in 16..28 => GraupelIn(column)
  /\ at.step = 16 /\ at.level = 1 =>
       /\ \A k \in 1..(N - 1) : column[k].qv >= 0
       /\ column[N].qv < 0 => column[N - 1].qv <= 0
  /\ Doing.name = "m_loop" /\ Doing.of = 1 /\ at.level = 1 => SparedTo(column)
  /\ Doing.name = "dynamics" => AllPresent(column)

LEMMA PromisesBegin ==
  ASSUME Init
  PROVE  Promises
<1>1. Doing = CoreIs[1]
  <2>1. 1 \in 1..15
    OBVIOUS
  <2> QED BY <2>1, ProgramIs DEF Init, Doing
<1>2. Doing.name = "fix_tracer" /\ at.step = 1
  BY <1>1 DEF CoreIs, Step, Init
<1> QED BY <1>2 DEF Promises

LEMMA PromisesKept ==
  ASSUME TypeOK, Promises, Next
  PROVE  Promises'
<1>0. Goes
  BY StepsSorted DEF CellStep, SpeciesStep, MixStep, InitStep, FallStep, OtherStep
<1>1. at'.step >= 16 => CondensatesIn(column')
  <2> SUFFICES ASSUME at'.step >= 16
               PROVE  CondensatesIn(column')
    OBVIOUS
  <2>1. CASE InitStep
    BY <2>1 DEF InitStep
  <2>2. CASE ~ InitStep
    <3>1. Doing.name # "fields_init"
      BY <2>2, StepsSorted
         DEF CellStep, SpeciesStep, MixStep, FallStep, OtherStep, CellNames, FixNames
    <3>2. at.step >= 16 /\ Doing.name \in LateNames /\ CondensatesIn(column)
      BY <1>0, <3>1 DEF Goes, Promises
    <3>3. CASE CellStep
      BY <3>2, <3>3 DEF CellStep, LateNames, CellNames
    <3>4. CASE SpeciesStep
      BY <3>2, <3>4 DEF SpeciesStep, LateNames, CellNames, FixNames
    <3>5. CASE MixStep
      BY <3>2, <3>5 DEF MixStep, LateNames, CellNames
    <3>6. CASE \E f : FallStep(f)
      BY <3>2, <3>6 DEF FallStep
    <3>7. CASE OtherStep
      <4>1. Doing.name # "dynamics"
        <5>1. Doing.name = "dynamics" => at'.step < 16
          BY <1>0, <3>7 DEF Goes, OtherStep
        <5>2. ~ (at'.step < 16)
          <6>1. at'.step \in Int
            BY <3>7, ProgramIs DEF OtherStep, Places
          <6> QED BY <6>1
        <5> QED BY <5>1, <5>2
      <4> QED BY <3>2, <3>7, <4>1 DEF OtherStep
    <3> QED BY <2>2, <3>3, <3>4, <3>5, <3>6, <3>7, StepsSorted
  <2> QED BY <2>1, <2>2
<1>g. at'.step \in 16..28 => GraupelIn(column')
  <2> SUFFICES ASSUME at'.step \in 16..28
               PROVE  GraupelIn(column')
    OBVIOUS
  <2>1. CASE InitStep
    BY <2>1 DEF InitStep
  <2>2. CASE ~ InitStep
    <3>1. Doing.name # "fields_init"
      BY <2>2, StepsSorted
         DEF CellStep, SpeciesStep, MixStep, FallStep, OtherStep, CellNames, FixNames
    <3>2. at.step \in 16..28 /\ Doing.name # "subgrid_z_proc" /\ Doing.name \in LateNames /\ GraupelIn(column)
      BY <1>0, <3>1 DEF Goes, Promises
    <3>3. CASE CellStep
      BY <3>2, <3>3 DEF CellStep, LateNames, CellNames
    <3>4. CASE SpeciesStep
      BY <3>2, <3>4 DEF SpeciesStep, LateNames, CellNames, FixNames
    <3>5. CASE MixStep
      BY <3>2, <3>5 DEF MixStep, LateNames, CellNames
    <3>6. CASE \E f : FallStep(f)
      BY <3>2, <3>6 DEF FallStep
    <3>7. CASE OtherStep
      <4>1. Doing.name # "dynamics"
        <5>1. Doing.name = "dynamics" => at'.step < 16
          BY <1>0, <3>7 DEF Goes, OtherStep
        <5> QED BY <5>1
      <4> QED BY <3>2, <3>7, <4>1 DEF OtherStep
    <3> QED BY <2>2, <3>3, <3>4, <3>5, <3>6, <3>7, StepsSorted
  <2> QED BY <2>1, <2>2
<1>2. at'.step = 16 /\ at'.level = 1 =>
        /\ \A k \in 1..(N - 1) : column'[k].qv >= 0
        /\ column'[N].qv < 0 => column'[N - 1].qv <= 0
  <2> SUFFICES ASSUME at'.step = 16, at'.level = 1
               PROVE  /\ \A k \in 1..(N - 1) : column'[k].qv >= 0
                      /\ column'[N].qv < 0 => column'[N - 1].qv <= 0
    OBVIOUS
  <2>1. Doing.name = "fields_init"
    BY <1>0 DEF Goes
  <2>2. InitStep
    BY <2>1, StepsSorted DEF CellStep, SpeciesStep, MixStep, FallStep, OtherStep, CellNames, FixNames
  <2> QED BY <2>2 DEF InitStep
<1>3. Doing'.name = "m_loop" /\ Doing'.of = 1 /\ at'.level = 1 => SparedTo(column')
  <2> SUFFICES ASSUME Doing'.name = "m_loop", Doing'.of = 1, at'.level = 1
               PROVE  SparedTo(column')
    OBVIOUS
  <2>1. Doing.name = "fix_water_vapor_down"
    BY <1>0 DEF Goes, Turns
  <2>2. SpeciesStep
    BY <2>1, StepsSorted DEF CellStep, MixStep, InitStep, FallStep, OtherStep, CellNames
  <2> QED BY <2>1, <2>2 DEF SpeciesStep
<1>4. Doing'.name = "dynamics" => AllPresent(column')
  <2> SUFFICES ASSUME Doing'.name = "dynamics"
               PROVE  AllPresent(column')
    OBVIOUS
  <2>1. Doing.name = "fill_gfs_delp" \/ Doing' = Doing
    BY <1>0 DEF Goes, Turns
  <2>2. CASE Doing.name = "fill_gfs_delp"
    <3>1. SpeciesStep
      BY <2>2, StepsSorted DEF CellStep, MixStep, InitStep, FallStep, OtherStep, CellNames
    <3> QED BY <2>2, <3>1 DEF SpeciesStep
  <2>3. CASE Doing' = Doing
    <3>1. Doing.name = "dynamics"
      BY <2>3
    <3>2. OtherStep
      BY <3>1, StepsSorted DEF CellStep, SpeciesStep, MixStep, InitStep, FallStep, CellNames, FixNames
    <3>3. Turns(Doing, Doing')
      BY <3>2 DEF OtherStep, Goes
    <3> QED BY <3>1, <3>3 DEF Turns
  <2> QED BY <2>1, <2>2, <2>3
<1> QED BY <1>1, <1>g, <1>2, <1>3, <1>4 DEF Promises, CondensatesIn, GraupelIn, SparedTo, AllPresent

LEMMA PromisesStutter ==
  ASSUME Promises, UNCHANGED vars
  PROVE  Promises'
  BY DEF Promises, vars, CondensatesIn, GraupelIn, SparedTo, AllPresent, Doing

LEMMA PromisesSuffice ==
  ASSUME TypeOK, Promises
  PROVE  NothingBelowZero
<1>1. Len(CoreSteps) = 15 /\ N \in Levels /\ N - 1 \in Levels /\ N \in Nat /\ Levels = 1..N
  BY CoreStepsAre, LevelsAre
<1>2. at.step \in Int
  BY ProgramIs DEF TypeOK, Places
<1>3. \A k \in Levels : k \in 1..(N - 1) \/ k = N
  BY <1>1
<1>4. \A k \in Levels : column[k].qv \in Int
  BY CellsAre DEF TypeOK, WaterColumns
<1>5. at.step \in Len(CoreSteps) + 1..Len(Program) => CondensatesArePresent
  <2> SUFFICES ASSUME at.step \in Len(CoreSteps) + 1..Len(Program), NEW k \in Levels
               PROVE  /\ \A s \in {"qr", "qi", "qs"} : column[k][s] >= 0
                      /\ column[k].ql >= -Overdraw[k]
    BY DEF CondensatesArePresent
  <2>1. at.step >= 16
    BY <1>1, <1>2
  <2>2. Sound(column[k], Overdraw[k])
    BY <2>1 DEF Promises, CondensatesIn
  <2> QED BY <2>2 DEF Sound
<1>9. at.step - Len(CoreSteps) \in 1..Len(MicrophysicsStep) - 1 => \A k \in Levels : column[k].qg >= 0
  <2>1. Len(MicrophysicsStep) = 14
    BY MicrophysicsSteps
  <2> QED BY <1>1, <1>2, <2>1 DEF Promises, GraupelIn, Firm
<1>6. at.step = Len(CoreSteps) + 1 /\ at.level = 1 =>
        VapourBelowZero \subseteq {N} /\ (VapourBelowZero = {N} => column[N - 1].qv <= 0)
  <2> SUFFICES ASSUME at.step = 16, at.level = 1
               PROVE  VapourBelowZero \subseteq {N} /\ (VapourBelowZero = {N} => column[N - 1].qv <= 0)
    BY <1>1
  <2>1. /\ \A k \in 1..(N - 1) : column[k].qv >= 0
        /\ column[N].qv < 0 => column[N - 1].qv <= 0
    BY DEF Promises
  <2> QED BY <1>3, <1>4, <2>1 DEF VapourBelowZero
<1>7. Doing = Step("m_loop", 1) /\ at.level = 1 =>
        VapourBelowZero \subseteq {N} /\ (VapourBelowZero = {N} => \A k \in Levels : column[k].qv <= 0)
  <2> SUFFICES ASSUME Doing = Step("m_loop", 1), at.level = 1
               PROVE  VapourBelowZero \subseteq {N} /\ (VapourBelowZero = {N} => \A k \in Levels : column[k].qv <= 0)
    OBVIOUS
  <2>1. SparedTo(column)
    BY DEF Promises, Step
  <2> QED BY <1>1, <1>3, <1>4, <2>1 DEF VapourBelowZero, SparedTo
<1>8. Doing.name = "dynamics" => VapourBelowZero = {}
  BY <1>4 DEF Promises, AllPresent, VapourBelowZero
<1> QED BY <1>5, <1>6, <1>7, <1>8, <1>9 DEF NothingBelowZero

(* In the microphysics rain, cloud ice and snow are never below zero,      *)
(* cloud water never by more than one rate can overdraw it, graupel not    *)
(* before the first subgrid_z_proc; and the three repairs of the vapour    *)
(* leave what they promise.                                                *)
THEOREM NothingIsBelowZero == Spec => []NothingBelowZero
<1>1. Init => Promises
  BY PromisesBegin
<1>2. TypeOK /\ Promises /\ [Next]_vars => Promises'
  BY PromisesKept, PromisesStutter
<1>3. TypeOK /\ Promises => NothingBelowZero
  BY PromisesSuffice
<1> QED BY <1>1, <1>2, <1>3, TypesHold, PTL DEF Spec
=============================================================================
