----------------------------- MODULE MCJobRegistry -----------------------------
(***************************************************************************)
(* Instances of JobRegistry for TLC.  A process reports one value of every *)
(* class the registry tells apart.                                         *)
(***************************************************************************)
EXTENDS JobRegistry, TLC

CONSTANTS i1, i2, i3, j1, j2

Rep(st, ces, started) == [st |-> st, ces |-> ces, started |-> started]

MCReports == {Rep("running", "none", TRUE), Rep("completed", "completed", TRUE),
              Rep("failed", "not_started", FALSE)}

(* A terminal report without an execution state violates the protocol. *)
MCReportsWithViolation == MCReports \cup {Rep("failed", "none", TRUE)}

MCSmallReports == {Rep("running", "none", TRUE), Rep("failed", "not_started", FALSE)}

MCSymmetry == Permutations(Instances)
=============================================================================
