----------------------------- MODULE WaterColumn -----------------------------
(***************************************************************************)
(* The water of one column of the atmosphere: six species in each of N     *)
(* levels, the first one at the top.  An amount is a mass, the mixing      *)
(* ratio times the thickness of its level, and a whole number of a unit    *)
(* above the thresholds of the code (QRMIN, QCMIN, q_min).  Temperatures   *)
(* are not followed: what depends on one happens or does not, and a rate   *)
(* is any amount up to the bound the code puts on it.                      *)
(***************************************************************************)
EXTENDS Integers, Sequences

CONSTANT N

(* The stencils treat the top, the bottom and the levels between apart. *)
ASSUME ColumnAssumption == N \in Nat /\ N >= 3

Levels == 1..N

(* vapour; cloud water and rain; cloud ice, snow and graupel *)
Species == {"qv", "ql", "qr", "qi", "qs", "qg"}

Lesser(a, b) == IF a < b THEN a ELSE b
Greater(a, b) == IF a > b THEN a ELSE b
Dim(a, b) == Greater(a - b, 0)

(* Any part of an amount, and nothing of what is not there. *)
PartOf(a) == 0..Greater(a, 0)

Water(c) == c.qv + c.ql + c.qr + c.qi + c.qs + c.qg

(* The water of the levels down to k. *)
WaterDownTo(column, k) ==
  LET sum[j \in 0..N] == IF j = 0 THEN 0 ELSE sum[j - 1] + Water(column[j]) IN sum[k]

(* The mass of a species that is below zero, over the column. *)
BelowZero(column, s) ==
  LET sum[j \in 0..N] == IF j = 0 THEN 0 ELSE sum[j - 1] + Dim(0, column[j][s]) IN sum[N]

-----------------------------------------------------------------------------
(* A stencil that follows the heat capacity of a cell sums its liquid and  *)
(* its solid water once and then corrects the sums with every exchange:    *)
(* q_liq and q_sol of the code.  A cell at work carries the two sums.      *)
Tally(c) == [liq |-> c.ql + c.qr, sol |-> c.qi + c.qs + c.qg]

AtWork(c) == [s \in Species \cup {"liq", "sol"} |-> IF s \in Species THEN c[s] ELSE Tally(c)[s]]
Book(w) == [liq |-> w.liq, sol |-> w.sol]
Cell(w) == [s \in Species |-> w[s]]

Move(w, from, to, n) == [w EXCEPT ![from] = @ - n, ![to] = @ + n]
Booked(w, liquid, solid) == [w EXCEPT !.liq = @ + liquid, !.sol = @ + solid]

(* Liquid water of one species that freezes into another. *)
Freezing(w, from, to) == {Booked(Move(w, from, to, n), -n, n) : n \in PartOf(w[from])}

(* Ice that melts: up to its limit into cloud water, the rest into rain. *)
Melting(w, from) ==
  UNION {{Booked(Move(Move(w, from, "ql", t), from, "qr", n - t), n, -n) : t \in 0..n} :
           n \in PartOf(w[from])}

(* Vapour that becomes ice of one kind, or the reverse. *)
Depositing(w, ice, n) == Booked(Move(w, "qv", ice, n), 0, n)
=============================================================================
