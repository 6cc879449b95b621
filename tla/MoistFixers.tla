----------------------------- MODULE MoistFixers -----------------------------
(***************************************************************************)
(* What repairs water that advection, remapping or the physics left below  *)
(* zero: within a cell by borrowing from other species (neg_adj3, the      *)
(* saturation adjustment, the start of the microphysics), and within a     *)
(* column by borrowing from other levels (fillz, fillq, the vapour fixes). *)
(* A column operator takes the masses of one species, level by level.      *)
(***************************************************************************)
EXTENDS WaterColumn

Total(q) == LET sum[j \in 0..N] == IF j = 0 THEN 0 ELSE sum[j - 1] + q[j] IN sum[N]

(* The debt of the top level is taken from the second. *)
TopPaid(q) == [q EXCEPT ![2] = @ + Lesser(q[1], 0), ![1] = Greater(@, 0)]

-----------------------------------------------------------------------------
(* fillz, on the way down: what level k becomes, and what it has borrowed  *)
(* from above and from below.                                              *)
FixedInterior(a) ==
  LET level[k \in 1..N - 1] ==
        IF k = 1 THEN [q |-> a[1], upper |-> 0, lower |-> 0, fixed |-> FALSE]
        ELSE LET q == a[k] - level[k - 1].lower
                 above == level[k - 1].q
                 upper == IF q < 0 /\ above > 0 THEN Lesser(above, -q) ELSE 0
                 lower == IF q + upper < 0 /\ a[k + 1] > 0 THEN Lesser(a[k + 1], -(q + upper)) ELSE 0
             IN [q |-> q + upper + lower, upper |-> upper, lower |-> lower, fixed |-> q < 0]
  IN level

(* A mutation: what the level below lent is never taken from it. *)
RepaidForgotten(q) ==
  LET level == FixedInterior(TopPaid(q))
  IN [k \in Levels |-> IF k = N THEN q[N] ELSE level[k].q]

(* Then the lenders pay, and the bottom borrows from the level above it. *)
Repaid(q) ==
  LET level == FixedInterior(TopPaid(q))
      paid == [k \in Levels |-> IF k = N THEN q[N] - level[N - 1].lower
                                ELSE level[k].q - (IF k < N - 1 THEN level[k + 1].upper ELSE 0)]
      dup == IF paid[N] < 0 /\ paid[N - 1] > 0 THEN Lesser(paid[N - 1], -paid[N]) ELSE 0
  IN [paid EXCEPT ![N] = @ + dup, ![N - 1] = @ - dup]

(* zfix: some level was below zero, or the bottom could borrow. *)
NeededFixing(q) ==
  LET level == FixedInterior(TopPaid(q))
      bottom == q[N] - level[N - 1].lower
  IN \/ \E k \in 2..N - 1 : level[k].fixed
     \/ bottom < 0 /\ level[N - 1].q > 0

(* The columns fix_tracer may leave: where debts remain below the top and  *)
(* the levels below the top can pay them, each pays its share.             *)
FixTracer(q) ==
  LET dm == Repaid(q)
      sum0 == Total(dm) - dm[1]
      Shares == [2..N -> 0..Greater(sum0, 0)]
  IN IF NeededFixing(q) /\ sum0 > 0
     THEN {[k \in Levels |-> IF k = 1 THEN dm[1] ELSE share[k]] :
             share \in {s \in Shares : /\ \A k \in 2..N : s[k] <= Greater(dm[k], 0)
                                       /\ Total([k \in Levels |-> IF k = 1 THEN 0 ELSE s[k]]) = sum0}}
     ELSE {dm}

-----------------------------------------------------------------------------
(* neg_adj3: cloud ice and snow share what they have.  Graupel then        *)
(* borrows from snow, ice, rain, cloud water and vapour; what it borrows   *)
(* from rain is taken from the cloud water.                                *)
IceSharesWithSnow(c) ==
  LET sum == c.qi + c.qs
  IN  IF sum <= 0 THEN [c EXCEPT !.qi = 0, !.qs = 0, !.qg = @ + sum]
      ELSE IF c.qi < 0 THEN [c EXCEPT !.qi = 0, !.qs = sum]
      ELSE IF c.qs < 0 THEN [c EXCEPT !.qs = 0, !.qi = sum] ELSE c

GraupelBorrows(c, from, most) ==
  IF c.qg < 0 THEN Move(c, from, "qg", Lesser(most, -c.qg)) ELSE c

FromSnow(c)       == GraupelBorrows(c, "qs", c.qs)
FromIce(c)        == GraupelBorrows(c, "qi", c.qi)
FromRain(c)       == IF c.qr > 0 THEN GraupelBorrows(c, "ql", c.qr) ELSE c
FromCloudWater(c) == IF c.ql > 0 THEN GraupelBorrows(c, "ql", c.ql) ELSE c
FromVapour(c)     == IF c.qv > 0 THEN GraupelBorrows(c, "qv", c.qv) ELSE c

FixNegativeIce(c) ==
  FromVapour(FromCloudWater(FromRain(FromIce(FromSnow(IceSharesWithSnow(c))))))

(* Rain borrows from cloud water, graupel, ice with snow, and vapour; all  *)
(* but a thousandth of the vapour, which is less than the unit.            *)
FixNegativeLiq(c) ==
  LET sum == c.ql + c.qr
      graupel == Lesser(Greater(c.qg, 0), -sum)
      short == sum + graupel
      ice == IF c.qr < 0 THEN Lesser(c.qi + c.qs, -short) ELSE 0
      snow == Lesser(ice, c.qs)
      paid == [c EXCEPT !.ql = 0, !.qr = short + ice, !.qg = @ - graupel,
                        !.qs = @ - snow, !.qi = @ + snow - ice]
  IN IF sum > 0
     THEN IF c.qr < 0 THEN [c EXCEPT !.qr = 0, !.ql = sum]
          ELSE IF c.ql < 0 THEN [c EXCEPT !.ql = 0, !.qr = sum] ELSE c
     ELSE IF paid.qr < 0 /\ paid.qv > 0 THEN Move(paid, "qv", "qr", Lesser(paid.qv, -paid.qr)) ELSE paid

FixNegWater(c) == FixNegativeLiq(FixNegativeIce(c))

-----------------------------------------------------------------------------
(* fillq: levels below zero are filled from the bottom up, as long as the  *)
(* column has that much; then as much is taken from the bottom up.         *)
FillQ(q) ==
  LET have == Total([k \in Levels |-> Greater(q[k], 0)])
      filling[k \in 1..N + 1] ==
        IF k = N + 1 THEN [sum1 |-> have, sum2 |-> 0, dq |-> 0]
        ELSE LET below == filling[k + 1]
                 dq == IF q[k] < 0 THEN Lesser(below.sum1, -q[k]) ELSE 0
             IN [sum1 |-> below.sum1 - dq, sum2 |-> below.sum2 + dq, dq |-> dq]
      taking[k \in 1..N + 1] ==
        IF k = N + 1 THEN [sum2 |-> filling[1].sum2, dq |-> 0]
        ELSE LET owed == taking[k + 1].sum2
                 dq == IF q[k] > 0 /\ filling[1].sum1 > 0 /\ owed > 0 THEN Lesser(owed, q[k]) ELSE 0
             IN [sum2 |-> owed - dq, dq |-> dq]
  IN [k \in Levels |-> q[k] + filling[k].dq - taking[k].dq]

(* fix_water_vapor_down, on the way down: a level pays the debt of the one *)
(* above, borrows from it, and hands on what it still owes.                *)
HandedDown(a) ==
  LET level[k \in 1..N - 1] ==
        IF k = 1 THEN [q |-> a[1], upper |-> 0, lower |-> 0]
        ELSE LET q == a[k] + level[k - 1].lower
                 above == level[k - 1].q
                 upper == IF q < 0 /\ above > 0 THEN Lesser(above, -q) ELSE 0
             IN [q |-> Greater(q + upper, 0), upper |-> upper, lower |-> Lesser(q + upper, 0)]
  IN level

(* A debt handed down is never above zero, so the bottom takes none over.  *)
(* What the bottom owes itself is then taken from the levels above, the    *)
(* nearest first.                                                          *)
FixWaterVaporDown(q) ==
  LET level == HandedDown(TopPaid(q))
      lent == [k \in 1..N - 1 |-> level[k].q - (IF k < N - 1 THEN level[k + 1].upper ELSE 0)]
      bottom == q[N] + (IF level[N - 1].lower > 0 THEN level[N - 1].lower ELSE 0)
      raised[k \in 1..N] ==
        IF k = N THEN [bottom |-> bottom, dq |-> 0]
        ELSE LET below == raised[k + 1].bottom
                 dq == IF below < 0 /\ lent[k] > 0 THEN Lesser(lent[k], -below) ELSE 0
             IN [bottom |-> below + dq, dq |-> dq]
  IN [k \in Levels |-> IF k = N THEN raised[1].bottom ELSE lent[k] - raised[k].dq]

-----------------------------------------------------------------------------
(* The start of the microphysics: each species hands its debt to the next. *)
HandOn(c, from, to) == IF c[from] < 0 THEN Move(c, from, to, c[from]) ELSE c

(* A mutation: rain pays before graupel has borrowed from it. *)
FixRainTooEarly(c) ==
  HandOn(HandOn(HandOn(HandOn(HandOn(c, "qi", "qs"), "qs", "qg"), "qr", "ql"), "qg", "qr"),
         "ql", "qv")

FixNegativeSpecies(c) ==
  HandOn(HandOn(HandOn(HandOn(HandOn(c, "qi", "qs"), "qs", "qg"), "qg", "qr"), "qr", "ql"),
         "ql", "qv")

(* Vapour hands its debt down; the bottom borrows from the level above. *)
FixWaterVapor(q) ==
  LET down[k \in Levels] == IF k = 1 THEN q[1] ELSE q[k] + Lesser(down[k - 1], 0)
      paid == [k \in Levels |-> IF k < N THEN Greater(down[k], 0) ELSE down[N]]
      dq == IF paid[N] < 0 /\ paid[N - 1] > 0 THEN Lesser(-paid[N], paid[N - 1]) ELSE 0
  IN [paid EXCEPT ![N] = @ + dq, ![N - 1] = @ - dq]

(* Before the tendencies: debts go up to the top, from there down again,   *)
(* and what then is below zero is set to zero.  The code weights the vapour *)
(* with the thickness of each level, which is one here.                    *)
FillGfsDelp(q) ==
  LET up[k \in Levels] == IF k = N THEN q[N] ELSE q[k] + Lesser(up[k + 1], 0)
      clipped == [k \in Levels |-> IF k = 1 THEN up[1] ELSE Greater(up[k], 0)]
      down[k \in Levels] == IF k = 1 THEN clipped[1] ELSE clipped[k] + Lesser(down[k - 1], 0)
  IN [k \in Levels |-> Greater(down[k], 0)]
=============================================================================
