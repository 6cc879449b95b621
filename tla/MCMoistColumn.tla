--------------------------- MODULE MCMoistColumn ---------------------------
(***************************************************************************)
(* A column of three levels, all of them in the sponge, two microphysics   *)
(* steps in a physics step.  The dynamics leave at most MaxUnits units of  *)
(* water, and at most one unit below zero.  The middle level may be        *)
(* overdrawn by a unit at a time, and may be in the deepest cold.          *)
(***************************************************************************)
EXTENDS MoistColumn

CONSTANT MaxUnits

MCOverdraw == [k \in Levels |-> IF k = 2 THEN 1 ELSE 0]

DryCell == [s \in Species |-> 0]
DryColumn == [k \in Levels |-> DryCell]

(* A unit more, or less, of one species in one level. *)
Changed(columns, n) ==
  {[c EXCEPT ![k][s] = @ + n] : c \in columns, k \in Levels, s \in Species}

MCColumns ==
  LET wet[n \in 0..MaxUnits] == IF n = 0 THEN {DryColumn} ELSE Changed(wet[n - 1], 1)
      positive == UNION {wet[n] : n \in 0..MaxUnits}
  IN positive \cup Changed(positive, -1)
=============================================================================
