------------------------ MODULE SaturationAdjustment ------------------------
(***************************************************************************)
(* The fast saturation adjustment of one cell, called by the vertical      *)
(* remapping: what may happen to the cell, process by process, in the      *)
(* order of the stencil.  Each process maps a cell at work to the cells it *)
(* may leave; a rate is any amount up to its bound, nothing included.      *)
(***************************************************************************)
EXTENDS WaterColumn

(* What a process may make of a set of cells. *)
Each(Process(_), cells) == UNION {Process(w) : w \in cells}

-----------------------------------------------------------------------------
(* Water below zero is taken from a neighbouring species. *)
IceWithSnow(w) == {IF w.qi < 0 THEN Move(w, "qi", "qs", w.qi) ELSE w}

FixNegativeSnow(w) ==
  {IF w.qs < 0 THEN Move(w, "qs", "qg", w.qs)
   ELSE IF w.qg < 0 THEN Move(w, "qs", "qg", Lesser(-w.qg, Greater(w.qs, 0))) ELSE w}

FixNegativeCloudWater(w) ==
  {IF w.ql < 0 THEN Move(w, "qr", "ql", Lesser(-w.ql, Greater(w.qr, 0)))
   ELSE IF w.qr < 0 THEN Move(w, "ql", "qr", Lesser(-w.qr, Greater(w.ql, 0))) ELSE w}

GraupelWithIce(w) == {IF w.qg < 0 THEN Move(w, "qi", "qg", Lesser(-w.qg, Greater(w.qi, 0))) ELSE w}

-----------------------------------------------------------------------------
(* Melting and freezing. *)
MeltCloudIce(w) == {Booked(Move(w, "qi", "ql", n), n, -n) : n \in PartOf(w.qi)}

CompleteFreezing(w) == Freezing(w, "ql", "qi")
HomogenousFreezing(w) == Freezing(w, "ql", "qi")
HeterogeneousFreezing(w) == Freezing(w, "ql", "qi")

(* A mutation: the rain that freezes stays in the liquid sum. *)
MakeGraupelUnbooked(w) == {Booked(Move(w, "qr", "qg", n), 0, n) : n \in PartOf(w.qr)}
MakeGraupel(w) == Freezing(w, "qr", "qg")

MeltSnow(w) == Melting(w, "qs")

-----------------------------------------------------------------------------
(* Vapour condenses, or cloud water evaporates.  The evaporation is limited *)
(* by the cloud water there is; where that is still below zero the limit   *)
(* is what happens, and vapour fills it up, whatever vapour there is.      *)
VapourAdjusted(w) ==
  {Booked(Move(w, "qv", "ql", n), n, 0) :
     n \in PartOf(w.qv) \cup (IF w.ql < 0 THEN {-w.ql} ELSE {-e : e \in 0..w.ql})}

Autoconversion(w) == {Move(w, "ql", "qr", n) : n \in PartOf(w.ql)}

Sublimation(w) == {Depositing(w, "qi", n) : n \in (-w.qi)..Greater(w.qv, 0)}

IceToSnow(w) == {Move(w, "qi", "qs", n) : n \in PartOf(w.qi)}

-----------------------------------------------------------------------------
(* The stencil.  On the last remapping of a step the vapour is adjusted a  *)
(* second time, which adds nothing to what one adjustment may do.  The two *)
(* sums are taken at the start and make q_con, the condensates that the    *)
(* virtual temperature is computed with, near the end.                     *)
Repaired(w) ==
  Each(FixNegativeCloudWater, Each(FixNegativeSnow, Each(MeltCloudIce, IceWithSnow(w))))

Condensed(w) == Each(VapourAdjusted, Each(VapourAdjusted, CompleteFreezing(w)))

FrozenAndMelted(w) ==
  Each(MeltSnow, Each(MakeGraupel, Each(HeterogeneousFreezing, HomogenousFreezing(w))))

SatAdjust(w) ==
  Each(IceToSnow, Each(GraupelWithIce, Each(Sublimation, Each(Autoconversion,
    Each(FrozenAndMelted, Each(Condensed, Repaired(w)))))))
=============================================================================
