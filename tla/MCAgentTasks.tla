----------------------------- MODULE MCAgentTasks -----------------------------
(* A task with two attempts, carried out by one Runner. *)
EXTENDS AgentTasks, TLC

MCRuns == 1..MaxAttempts
CallerSymmetry == Permutations(Callers)
=============================================================================
