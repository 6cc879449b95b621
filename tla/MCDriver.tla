------------------------------- MODULE MCDriver -------------------------------
(* Three ranks make two steps, twice over or from what the first run left. *)
EXTENDS Driver
=============================================================================
