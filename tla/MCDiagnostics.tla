---------------------------- MODULE MCDiagnostics ----------------------------
(* Three ranks, variables that sort before and after "time", and two fields *)
(* of the grid.                                                             *)
EXTENDS Diagnostics

MCNames == <<"ua", "delp">>
MCSortedNames == <<"delp", "time", "ua">>
=============================================================================
