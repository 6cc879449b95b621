---------------------------- MODULE Microphysics ----------------------------
(***************************************************************************)
(* The microphysics of one cell: what may happen to its water, process by  *)
(* process, in the order of the stencils.  Processes map a cell at work to *)
(* the cells they may leave; a rate is any amount up to the bound the code *)
(* puts on it, nothing included.  Where the code puts none, the rate is    *)
(* given how much it may take beyond what there is.                        *)
(***************************************************************************)
EXTENDS SaturationAdjustment

(* The threshold of DepositVapour in units, which may be less than one. *)
CONSTANT VapourLimit

ASSUME VapourLimitAssumption == VapourLimit \in Nat

-----------------------------------------------------------------------------
(* Warm rain.  Evaporation asks for air drier than the subgrid range and   *)
(* accretion for air moister than it, so only one of them happens.         *)
RevapRacc(w) ==
  IF w.qr > 0
  THEN {Move(w, "qr", "qv", e) : e \in 0..w.qr} \cup {Move(w, "ql", "qr", a) : a \in PartOf(w.ql)}
  ELSE {w}

(* With subgrid variability nothing keeps the sink below the cloud water   *)
(* there is.  Where there is none, nothing happens.                        *)
AutoconvNoSubgridVar(w) == {Move(w, "ql", "qr", n) : n \in PartOf(w.ql)}
AutoconvSubgridVar(w, beyond) ==
  IF w.ql > 0 THEN {Move(w, "ql", "qr", n) : n \in 0..w.ql + beyond} ELSE {w}
Autoconv(w, beyond) == AutoconvNoSubgridVar(w) \cup AutoconvSubgridVar(w, beyond)

(* Cloud ice melts before it falls. *)
MeltBeforeFall(w) == Melting(w, "qi")

-----------------------------------------------------------------------------
(* Cloud ice melts where it is warm, and cloud water freezes where it is   *)
(* cold: into cloud ice as far as that is short of its limit, then snow.   *)
PimltPihom(w) ==
  Melting(w, "qi") \cup
    UNION {{Booked(Move(Move(w, "ql", "qi", t), "ql", "qs", n - t), -n, n) : t \in 0..n} :
             n \in PartOf(w.ql)}

(* Above the melting point. *)
SnowMelts(w) == Melting(w, "qs")
GraupelMelts(w) == {Booked(Move(w, "qg", "qr", n), n, -n) : n \in PartOf(w.qg)}

(* Below it.  Of the cloud ice some becomes snow, some of the rest graupel *)
(* where there is some.                                                    *)
IceToSnowGraupel(w) ==
  UNION {{Move(Move(w, "qi", "qs", s), "qi", "qg", g) :
            g \in IF w.qg > 0 THEN PartOf(w.qi - s) ELSE {0}} : s \in PartOf(w.qi)}

RainToSnowGraupel(w) ==
  UNION {{Booked(Move(Move(w, "qr", "qs", s), "qr", "qg", n - s), -n, n) :
            s \in IF w.qs > 0 THEN 0..n ELSE {0}} : n \in PartOf(w.qr)}

SnowToGraupel(w) == {Move(w, "qs", "qg", n) : n \in PartOf(w.qs)}

GraupelAccretes(w) ==
  IF w.qg > 0
  THEN UNION {{Booked(Move(Move(w, "qr", "qg", r), "ql", "qg", c), -(r + c), r + c) :
                 c \in PartOf(w.ql)} : r \in PartOf(w.qr)}
  ELSE {w}

(* icloud and the first part of icloud_main; thin air is left alone. *)
ColdProcesses(w) ==
  Each(GraupelAccretes, Each(SnowToGraupel, Each(RainToSnowGraupel, IceToSnowGraupel(w))))
WarmProcesses(w) == Each(GraupelMelts, SnowMelts(w))
IcePhase(w) ==
  LET begun == PimltPihom(w) IN begun \cup Each(WarmProcesses, begun) \cup Each(ColdProcesses, begun)

-----------------------------------------------------------------------------
(* subgrid_z_proc, with sums of its own.  In the deepest cold the vapour is *)
(* to become cloud ice at once.  The code takes what the vapour lacks of   *)
(* the threshold, not what it has above.                                   *)
DepositVapour(w) == {Depositing(w, "qi", Dim(VapourLimit, w.qv))}

(* Dry air takes all its cloud, and the cell is done with: the two sums    *)
(* are not corrected, and are not read again.                              *)
CloudFree(c) == [c EXCEPT !.qv = @ + c.ql + c.qi, !.ql = 0, !.qi = 0]
EvaporateClouds(w) == {CloudFree(w)}

(* As in the saturation adjustment: cloud water that is below zero is      *)
(* filled up where the air is not saturated.                               *)
VapourCloudWater(w) ==
  {Booked(Move(w, "ql", "qv", n), -n, 0) :
     n \in {-c : c \in PartOf(w.qv)} \cup (IF w.ql < 0 THEN {w.ql} ELSE 0..w.ql)}

FreezeCloudWater(w) == Freezing(w, "ql", "qi")

(* Left to the saturation adjustment where that is on. *)
BiggMechanism(w) == Freezing(w, "ql", "qi")

IceDeposits(w) == {Depositing(w, "qi", n) : n \in (-w.qi)..Greater(w.qv, 0)}

SnowSublimates(w) ==
  IF w.qs > 0 THEN {Depositing(w, "qs", n) : n \in (-w.qs)..Greater(w.qv, 0)} ELSE {w}

(* What sublimates is a share of the graupel where there is vapour, and    *)
(* may be more than all of it where the vapour is below zero.  What is     *)
(* deposited is limited by the liquid water of the cell, which is taken    *)
(* from the graupel where that is below zero.                              *)
GraupelSublimates(w, beyond) ==
  LET most == w.qg + (IF w.qv < 0 THEN beyond ELSE 0)
      liquid == w.ql + w.qr
      deposits == IF w.qv <= 0 THEN {} ELSE IF liquid < 0 THEN {liquid} ELSE 0..Lesser(w.qv, liquid)
  IN IF w.qg > 0 THEN {Depositing(w, "qg", n) : n \in (-most)..0 \cup deposits} ELSE {w}

RainEvaporates(w) == {Booked(Move(w, "qr", "qv", n), -n, 0) : n \in PartOf(w.qr)}

WithIceAndSnow(w) ==
  Each(SnowSublimates, Each(IceDeposits, Each(BiggMechanism, Each(FreezeCloudWater, VapourCloudWater(w)))))

VapourExchange(w, beyond) ==
  Each(RainEvaporates, UNION {GraupelSublimates(u, beyond) : u \in WithIceAndSnow(w)})

SubgridZProc(w, beyond) == {w} \cup EvaporateClouds(w) \cup VapourExchange(w, beyond)
SubgridZProcInDeepCold(w, beyond) == SubgridZProc(w, beyond) \cup DepositVapour(w)
=============================================================================
