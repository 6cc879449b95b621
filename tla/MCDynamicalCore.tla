--------------------------- MODULE MCDynamicalCore ---------------------------
(***************************************************************************)
(* The dynamics of a rank in each of the sixteen places it can have in a   *)
(* tile, on each of the three kinds of level, with a few sets of options   *)
(* that between them take every branch the program has with a damping of   *)
(* the divergence of an order above zero, as d_sw needs.                   *)
(***************************************************************************)
EXTENDS DynamicalCore, HaloValidity

Base ==
  [ nord |-> 3, dddmp |-> TRUE, del2cubed |-> TRUE, old_omega |-> FALSE,
    breed_vortex |-> FALSE, rf_fast |-> TRUE, sat_adjust |-> TRUE, nf_omega |-> 1,
    c2l_ord |-> 4, k_split |-> 1, n_split |-> 2, physics |-> "full" ]

Options ==
  { Base,
    [Base EXCEPT !.nord = 2, !.dddmp = FALSE, !.breed_vortex = TRUE, !.c2l_ord = 2,
                 !.n_split = 1, !.k_split = 2, !.old_omega = TRUE, !.physics = "adjust"],
    [Base EXCEPT !.nord = 1, !.del2cubed = FALSE, !.rf_fast = FALSE, !.sat_adjust = FALSE,
                 !.nf_omega = 0, !.physics = "dry"] }

Levels == {"top", "third", "rest"}

RankConfigs ==
  {[edges |-> edges, level |-> level] @@ options :
     edges \in SUBSET {"w", "e", "s", "n"}, level \in Levels, options \in Options}

RankPrograms == [c \in RankConfigs |-> TimeStep(c)] @@ << >>

(* What the physics and the diagnostics read. *)
HandedOver == Prognostic \cup {"ua", "va", "omga", "pe", "peln", "pk", "pkz", "ps", "q_con"}

OwnedFields == HandedOver \cup Tendencies \cup UNION {HaloUpdaters[x].fields : x \in DOMAIN HaloUpdaters}
OwnCells == [f \in OwnedFields |-> Interior(f)] @@ << >>

(* A name for the value of each, which TLC computes once. *)
MCConfigs == RankConfigs
MCPrograms == RankPrograms
MCInteriors == OwnCells
MCUpdaters == HaloUpdaters
MCGiven == Prognostic \cup Tendencies
MCResults == HandedOver
=============================================================================
