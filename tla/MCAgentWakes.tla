----------------------------- MODULE MCAgentWakes -----------------------------
(* The instances of AgentWakes that TLC checks. *)
EXTENDS AgentWakes, TLC

SourceSymmetry == Permutations(Sources)
=============================================================================
