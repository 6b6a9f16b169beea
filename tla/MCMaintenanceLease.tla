-------------------------- MODULE MCMaintenanceLease --------------------------
(***************************************************************************)
(* Instances of MaintenanceLease for TLC: a local Server's upgrade and one *)
(* of a Runner joined to it.                                               *)
(***************************************************************************)
EXTENDS MaintenanceLease, TLC

CONSTANTS local, joined, r1

MCScope == (local :> AllRuntimes) @@ (joined :> r1)
=============================================================================
