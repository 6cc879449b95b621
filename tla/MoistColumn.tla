----------------------------- MODULE MoistColumn -----------------------------
(***************************************************************************)
(* The water of a column through a physics time step: the dynamical core   *)
(* leaves some column, the vertical remapping and the end of the core      *)
(* repair and adjust it, subgrid mixing stirs it, the microphysics lets it *)
(* change phase and fall, and what the physics leaves is repaired once     *)
(* more.  A stencil that treats cells one by one goes level by level here; *)
(* one that crosses levels is a step of its own.                           *)
(***************************************************************************)
EXTENDS Microphysics, MoistFixers

CONSTANTS
  Columns,  \* columns as advection and remapping may leave them
  Sponge,   \* how many levels, from the top, the subgrid mixing stirs
  Kmp,      \* the level from which on the saturation is adjusted
  NTimes,   \* microphysics steps in a physics step
  DeepCold, \* levels that may be colder than T_MIN
  Overdraw  \* by level, what a rate without a limit may take beyond what there is

ASSUME MoistAssumption ==
  /\ Columns \subseteq [Levels -> [Species -> Int]]
  /\ Sponge \in 3..N
  /\ Kmp \in Levels
  /\ NTimes \in Nat \ {0}
  /\ DeepCold \subseteq Levels
  /\ Overdraw \in [Levels -> Nat]

VARIABLES
  column,   \* the six amounts of each level
  book,     \* the sums of the cell treated last, as its stencil kept them
  h0,       \* what the level below hands up in the subgrid mixing
  m1,       \* what has fallen through the bottom of each level: moves momentum
  m1_rain,  \* the part of the rain in a warm_rain that is not over
  m1_sol,   \* the part of ice, snow and graupel in the last sedimentation
  fallen,   \* what reached the ground: rain, snow, graupel and ice together
  above,    \* history: the water down to each level as the microphysics began
  at        \* the step of the program, and the level it has come to

vars == <<column, book, h0, m1, m1_rain, m1_sol, fallen, above, at>>

NoBook == [liq |-> 0, sol |-> 0]
NoFlux == [k \in 0..N |-> 0]
Nothing == [s \in Species |-> 0]

-----------------------------------------------------------------------------
(* The steps, in order. *)
Step(name, of) == [name |-> name, of |-> of]

(* Remapping and the end of the dynamical core, then the mixing. *)
CoreSteps ==
  [i \in 1..6 |-> Step("fix_tracer", <<"qv", "ql", "qr", "qi", "qs", "qg">>[i])]
  \o <<Step("satadjust", "all"), Step("fix_neg_water", "all"), Step("fillq", "qg"),
       Step("fillq", "qr"), Step("fix_water_vapor_down", "qv"), Step("m_loop", 1),
       Step("m_loop", 2), Step("m_loop", 3), Step("fields_init", "all")>>

(* A call of the warm_rain stencil, the first in a step or the second. *)
WarmRain(isFirst) ==
  <<Step("revap_racc", isFirst), Step("rain_falls", isFirst), Step("autoconv", isFirst),
    Step("accumulate", isFirst)>>

MicrophysicsStep ==
  WarmRain(TRUE)
  \o <<Step("melt_before_fall", "all"), Step("ice_falls", "qi"), Step("snow_falls", "qs"),
       Step("graupel_falls", "qg")>>
  \o WarmRain(FALSE)
  \o <<Step("icloud", "all"), Step("subgrid_z_proc", "all")>>

Program ==
  LET repeated[n \in 0..NTimes] == IF n = 0 THEN <<>> ELSE repeated[n - 1] \o MicrophysicsStep
  IN CoreSteps \o repeated[NTimes]
     \o <<Step("fields_update", "all"), Step("fill_gfs_delp", "qv"), Step("dynamics", "all")>>

Doing == Program[at.step]
NextStep == at' = [step |-> 1 + (at.step % Len(Program)), level |-> 1]
NextLevel(last) == IF at.level = last THEN NextStep ELSE at' = [at EXCEPT !.level = @ + 1]

(* One species of the column, and the column with it replaced. *)
Of(s) == [k \in Levels |-> column[k][s]]
With(s, q) == [k \in Levels |-> [column[k] EXCEPT ![s] = q[k]]]

-----------------------------------------------------------------------------
(* A stencil that treats the levels apart.  One that follows the heat      *)
(* capacity keeps a book.                                                  *)
AtEachLevel(name, Process(_)) ==
  /\ Doing.name = name
  /\ \E w \in Process(AtWork(column[at.level])) : column' = [column EXCEPT ![at.level] = Cell(w)]
  /\ book' = NoBook
  /\ NextLevel(N)
  /\ UNCHANGED <<h0, m1, m1_rain, m1_sol, fallen, above>>

WithABook(name, Process(_)) ==
  /\ Doing.name = name
  /\ \E w \in Process(AtWork(column[at.level])) :
       column' = [column EXCEPT ![at.level] = Cell(w)] /\ book' = Book(w)
  /\ NextLevel(N)
  /\ UNCHANGED <<h0, m1, m1_rain, m1_sol, fallen, above>>

(* A stencil that moves one species between levels. *)
AlongTheColumn(name, Fixed(_)) ==
  /\ Doing.name = name
  /\ \E q \in Fixed(Of(Doing.of)) : column' = With(Doing.of, q)
  /\ book' = NoBook
  /\ NextStep
  /\ UNCHANGED <<h0, m1, m1_rain, m1_sol, fallen, above>>

-----------------------------------------------------------------------------
(* The end of the dynamical core. *)
FixTracers == AlongTheColumn("fix_tracer", FixTracer)
SatAdjustHere(w) == IF at.level >= Kmp THEN SatAdjust(w) ELSE {w}
SatAdjust3d == WithABook("satadjust", SatAdjustHere)

NegWater(w) == {FixNegWater(w)}
AdjustNegative == AtEachLevel("fix_neg_water", NegWater)

Filled(q) == {FillQ(q)}
FillSpecies == AlongTheColumn("fillq", Filled)

VapourDown(q) == {FixWaterVaporDown(q)}
AdjustVapour == AlongTheColumn("fix_water_vapor_down", VapourDown)

(* Subgrid mixing, from the bottom up.  Two levels that are unstable move  *)
(* towards one mixing ratio; neither leaves the range of the two.          *)
Mixed(here, up) ==
  LET least == Lesser(0, Lesser(here, up)) IN (least - up)..(here - least)

Fluxes(here, up) ==
  {[qv |-> v, ql |-> l, qr |-> r, qi |-> i, qs |-> s, qg |-> g] :
     v \in Mixed(here.qv, up.qv), l \in Mixed(here.ql, up.ql), r \in Mixed(here.qr, up.qr),
     i \in Mixed(here.qi, up.qi), s \in Mixed(here.qs, up.qs), g \in Mixed(here.qg, up.qg)}

(* The lowest level hands up a flux, those between take it in and hand up  *)
(* their own, and the top level takes it in.                               *)
Mixes(k, h) ==
  /\ Doing.name = "m_loop"
  /\ column' = [column EXCEPT ![k] = [s \in Species |-> @[s] + h0[s] - h[s]]]
  /\ h0' = h
  /\ book' = NoBook
  /\ NextLevel(Sponge)
  /\ UNCHANGED <<m1, m1_rain, m1_sol, fallen, above>>

MixLowest ==
  /\ at.level = 1
  /\ \E h \in Fluxes(column[Sponge], column[Sponge - 1]) : Mixes(Sponge, h)

MixBetween ==
  LET k == Sponge + 1 - at.level
      here == [s \in Species |-> column[k][s] + h0[s]]
  IN /\ at.level \in 2..Sponge - 1
     /\ \E h \in Fluxes(here, column[k - 1]) : Mixes(k, h)

MixTop == at.level = Sponge /\ Mixes(1, Nothing)

-----------------------------------------------------------------------------
(* The microphysics begins.  Its copy of the column is repaired: first     *)
(* each cell, then the vapour.  The tendency of the cloud ice was set to   *)
(* zero just before, so the limit on ice from other schemes takes nothing. *)
FieldsInit ==
  LET repaired == [k \in Levels |-> FixNegativeSpecies(column[k])]
      vapour == FixWaterVapor([k \in Levels |-> repaired[k].qv])
  IN /\ Doing.name = "fields_init"
     /\ column' = [k \in Levels |-> [repaired[k] EXCEPT !.qv = vapour[k]]]
     /\ above' = [k \in 0..N |-> WaterDownTo(column', k)]
     /\ m1' = NoFlux
     /\ fallen' = 0
     /\ book' = NoBook
     /\ NextStep
     /\ UNCHANGED <<h0, m1_rain, m1_sol>>

(* What may pass the bottom of each level: a part of what came from above  *)
(* and what was there, of either sign.  Where nothing is to fall, nothing  *)
(* does.                                                                   *)
ShareOf(a) == Lesser(a, 0)..Greater(a, 0)

Falling(q) ==
  LET most == Total([k \in Levels |-> Greater(q[k], 0)])
      least == Total([k \in Levels |-> Lesser(q[k], 0)])
  IN IF \E k \in Levels : q[k] > 0
     THEN {f \in [0..N -> least..most] :
             f[0] = 0 /\ \A k \in Levels : f[k] \in ShareOf(f[k - 1] + q[k])}
     ELSE {NoFlux}

Fallen(s, f) == With(s, [k \in Levels |-> column[k][s] + f[k - 1] - f[k]])

RevapRaccHalf == AtEachLevel("revap_racc", RevapRacc)

RainFalls ==
  /\ Doing.name = "rain_falls"
  /\ \E f \in Falling(Of("qr")) :
       /\ column' = Fallen("qr", f)
       /\ m1_rain' = f
       /\ fallen' = fallen + f[N]
  /\ book' = NoBook
  /\ NextStep
  /\ UNCHANGED <<h0, m1, m1_sol, above>>

(* The second half of the evaporation, then the conversion of cloud water. *)
AutoconvHere(w) == Autoconv(w, Overdraw[at.level])
RevapAutoconv(w) == Each(AutoconvHere, RevapRacc(w))
AutoconvHalf == AtEachLevel("autoconv", RevapAutoconv)

Sum(f, g) == [k \in 0..N |-> f[k] + g[k]]

(* A mutation: what sedimented before is counted in both calls. *)
AccumulateTwice ==
  /\ Doing.name = "accumulate"
  /\ m1' = Sum(Sum(m1, m1_rain), m1_sol)
  /\ m1_rain' = NoFlux
  /\ book' = NoBook
  /\ NextStep
  /\ UNCHANGED <<column, h0, m1_sol, fallen, above>>

(* The end of warm_rain, whose flux is a temporary of the call.  The       *)
(* second call adds what fell in between.                                  *)
Accumulate ==
  /\ Doing.name = "accumulate"
  /\ m1' = IF Doing.of THEN Sum(m1, m1_rain) ELSE Sum(Sum(m1, m1_rain), m1_sol)
  /\ m1_rain' = NoFlux
  /\ book' = NoBook
  /\ NextStep
  /\ UNCHANGED <<column, h0, m1_sol, fallen, above>>

-----------------------------------------------------------------------------
(* Sedimentation: cloud ice starts the flux, snow and graupel add to it. *)
MeltBeforeFalling == WithABook("melt_before_fall", MeltBeforeFall)

IceFalls ==
  /\ Doing.name = "ice_falls"
  /\ \E f \in Falling(Of("qi")) :
       /\ column' = Fallen("qi", f)
       /\ m1_sol' = f
       /\ fallen' = fallen + f[N]
  /\ book' = NoBook
  /\ NextStep
  /\ UNCHANGED <<h0, m1, m1_rain, above>>

FallsToo(name) ==
  /\ Doing.name = name
  /\ \E f \in Falling(Of(Doing.of)) :
       /\ column' = Fallen(Doing.of, f)
       /\ m1_sol' = Sum(m1_sol, f)
       /\ fallen' = fallen + f[N]
  /\ book' = NoBook
  /\ NextStep
  /\ UNCHANGED <<h0, m1, m1_rain, above>>

SnowFalls == FallsToo("snow_falls")
GraupelFalls == FallsToo("graupel_falls")

Icloud == WithABook("icloud", IcePhase)
SubgridHere(w) ==
  LET beyond == Overdraw[at.level]
  IN IF at.level \in DeepCold THEN SubgridZProcInDeepCold(w, beyond) ELSE SubgridZProc(w, beyond)
Subgrid == WithABook("subgrid_z_proc", SubgridHere)

-----------------------------------------------------------------------------
(* The tendencies carry the change of every amount to the physics state.   *)
(* What the microphysics kept for itself is set anew before it is read     *)
(* again, and is forgotten here.                                           *)
FieldsUpdate ==
  /\ Doing.name = "fields_update"
  /\ m1' = NoFlux /\ m1_sol' = NoFlux
  /\ fallen' = 0 /\ above' = NoFlux /\ book' = NoBook
  /\ NextStep
  /\ UNCHANGED <<column, h0, m1_rain>>

GfsFilled(q) == {FillGfsDelp(q)}
FillGfs == AlongTheColumn("fill_gfs_delp", GfsFilled)

(* The next step of the dynamics leaves some column. *)
Dynamics ==
  /\ Doing.name = "dynamics"
  /\ column' \in Columns
  /\ book' = NoBook
  /\ NextStep
  /\ UNCHANGED <<h0, m1, m1_rain, m1_sol, fallen, above>>

Init ==
  /\ column \in Columns
  /\ book = NoBook /\ h0 = Nothing
  /\ m1 = NoFlux /\ m1_rain = NoFlux /\ m1_sol = NoFlux
  /\ fallen = 0 /\ above = NoFlux
  /\ at = [step |-> 1, level |-> 1]

Next ==
  \/ FixTracers \/ SatAdjust3d \/ AdjustNegative \/ FillSpecies \/ AdjustVapour
  \/ MixLowest \/ MixBetween \/ MixTop \/ FieldsInit \/ RevapRaccHalf \/ RainFalls \/ AutoconvHalf \/ Accumulate
  \/ MeltBeforeFalling \/ IceFalls \/ SnowFalls \/ GraupelFalls \/ Icloud \/ Subgrid
  \/ FieldsUpdate \/ FillGfs \/ Dynamics

Spec == Init /\ [][Next]_vars

-----------------------------------------------------------------------------
Everywhere == WaterDownTo(column, N) + Water(h0)

(* Water is made by three of the repairs alone, and there never more than  *)
(* the species had below zero: fillq stops where the column's water ends,  *)
(* and the two vapour repairs forgive a debt.  Every other stencil, the    *)
(* mixing on its way up and the fall through the bottom included, keeps    *)
(* the water of the column and the ground to the last unit.                *)
OnlyFixersMakeWater ==
  [][LET before == Everywhere + (IF Doing.name = "fields_init" THEN 0 ELSE fallen)
         after == Everywhere' + (IF Doing.name = "fields_update" THEN fallen ELSE fallen')
         made == after - before
     IN \/ Doing.name = "dynamics"
        \/ /\ Doing.name \in {"fillq", "fix_water_vapor_down", "fill_gfs_delp"}
           /\ 0 <= made /\ made <= BelowZero(column, Doing.of)
        \/ made = 0]_vars

(* Each stencil that corrects the sums of liquid and solid water with every *)
(* exchange (the heat capacity, and so the temperature, follow from them)  *)
(* ends with the sums of the cell it leaves.  The one exception is the     *)
(* evaporation of all clouds at once: there the sums stay those of the     *)
(* cell as it was, and nothing else has changed in it.                     *)
BooksBalance ==
  [][Doing.name \in {"satadjust", "melt_before_fall", "icloud", "subgrid_z_proc"} =>
       \/ book' = Tally(column'[at.level])
       \/ /\ Doing.name = "subgrid_z_proc"
          /\ column'[at.level] = CloudFree(column[at.level])
          /\ book' = Tally(column[at.level])]_vars

(* The flux that carries momentum down is the water that has fallen: where *)
(* it is complete, after the second warm_rain of each microphysics step,   *)
(* every level's flux is what the levels above have lost since the start,  *)
(* and that of the last level is what reached the ground.                  *)
MomentumFluxIsTheWaterFallen ==
  Doing.name \in {"icloud", "subgrid_z_proc", "fields_update"} =>
    /\ \A k \in Levels : m1[k] = above[k] - WaterDownTo(column, k)
    /\ m1[N] = fallen

(* What the repairs promise, and how much of it the microphysics keeps.    *)
(* In it rain, cloud ice and snow are never below zero; cloud water is     *)
(* overdrawn once and never again before it is made up for, in any number  *)
(* of passes; graupel is not below zero before the first subgrid_z_proc.   *)
(* As it begins, the vapour is below zero in the last level only, and only *)
(* where the level above has none left; at the end of the core it is there *)
(* only where no level has any; and after the physics no vapour is below   *)
(* zero at all.                                                            *)
CondensatesArePresent ==
  \A k \in Levels :
    /\ \A s \in {"qr", "qi", "qs"} : column[k][s] >= 0
    /\ column[k].ql >= -Overdraw[k]

VapourBelowZero == {k \in Levels : column[k].qv < 0}

NothingBelowZero ==
  /\ at.step \in Len(CoreSteps) + 1..Len(Program) => CondensatesArePresent
  /\ at.step - Len(CoreSteps) \in 1..Len(MicrophysicsStep) - 1 =>
       \A k \in Levels : column[k].qg >= 0
  /\ at.step = Len(CoreSteps) + 1 /\ at.level = 1 =>
       VapourBelowZero \subseteq {N} /\ (VapourBelowZero = {N} => column[N - 1].qv <= 0)
  /\ Doing = Step("m_loop", 1) /\ at.level = 1 =>
       VapourBelowZero \subseteq {N} /\ (VapourBelowZero = {N} => \A k \in Levels : column[k].qv <= 0)
  /\ Doing.name = "dynamics" => VapourBelowZero = {}
=============================================================================
