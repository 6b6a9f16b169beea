------------------------------ MODULE RunReports ------------------------------
(***************************************************************************)
(* What is said of a CodingAgentRun: the snapshots that Runner, Server and *)
(* store exchange, when one is true, and how a later one is merged.        *)
(* waiting_permission is running.  pi is the provider instance, which is   *)
(* new with every Runner process and is named by that process's number.    *)
(***************************************************************************)
EXTENDS Integers

Definitive == {"completed", "failed", "cancelled"}
Terminal == Definitive \cup {"lost"}
RunState == {"starting", "running"} \cup Terminal
ExecutionState == {"not_started", "outcome_unknown", "started", "completed"}

Snapshots(revs, procs) == [st : RunState, ex : ExecutionState, rev : revs, pi : procs]
Snap(st, ex, rev, p) == [st |-> st, ex |-> ex, rev |-> rev, pi |-> p]

(* A report is true of a prompt that was handed over so often and answered *)
(* so: not_started only of one never handed over, completed only of one    *)
(* answered that way, and lost when neither is known.                      *)
TrueReport(s, prompted, answered) ==
    s.st \in Terminal =>
        /\ s.ex = "not_started" => prompted = 0
        /\ s.ex = "completed" => answered = s.st
        /\ s.st = "completed" => s.ex = "completed"
        /\ IF s.st = "lost" THEN s.ex = "outcome_unknown" ELSE s.ex \in {"not_started", "completed"}

(* validate_coding_agent_run_transition, for a higher revision. *)
MayFollow(a, b) ==
    /\ a.st \notin Definitive
    /\ a.st = "lost" => b.st \in Terminal
    /\ b.st = "starting" => a.st = "starting"
    /\ CASE a.ex = "not_started" -> TRUE
         [] a.ex = "outcome_unknown" -> b.ex = "not_started" => b.st \in {"failed", "cancelled"}
         [] a.ex = "started" -> b.ex \in {"started", "completed"} \/ (b.ex = "outcome_unknown" /\ b.st = "lost")
         [] a.ex = "completed" -> FALSE

(* Mutant: the newest arrival is the truth, whatever its revision. *)
MergeAnyRevision(a, b) == IF a.pi # b.pi THEN "conflict" ELSE "advance"

(* merge_coding_agent_run_snapshot. *)
Merge(a, b) ==
    CASE a.pi # b.pi -> "conflict"
      [] a.pi = b.pi /\ b.rev < a.rev -> "stale"
      [] a.pi = b.pi /\ b.rev = a.rev -> IF a = b THEN "replay" ELSE "conflict"
      [] a.pi = b.pi /\ b.rev > a.rev -> IF MayFollow(a, b) THEN "advance" ELSE "conflict"
=============================================================================
