----------------------------- MODULE JobLifecycle -----------------------------
(***************************************************************************)
(* The vocabulary of a Runner Job: its wire lifecycle, the recovery phase  *)
(* the Server overlays on it, what is known about the execution of its     *)
(* command, and who may see the record.  "absent" stands for a job id that *)
(* is not in jobs_by_id.                                                   *)
(***************************************************************************)

TerminalStates ==
    {"completed", "failed", "stopped", "timeout", "timed_out", "lost", "cancelled"}

RunnerActiveStates == {"agent_queued", "running", "stop_requested"}

ActiveStates == {"queued", "started"} \cup RunnerActiveStates

Lifecycle == TerminalStates \cup ActiveStates

IsTerminal(st) == st \in TerminalStates

IsRunnerActive(st) == st \in RunnerActiveStates

IsActive(st) == st \in ActiveStates

(* JobRecoveryPhase, with "none" for a job that never was in recovery. *)
RecoveryPhase == {"none", "recovering", "reconciled", "lost_after_reconcile"}

(* ShellCommandExecutionState, with "none" for a state not known yet. *)
ExecutionState == {"none", "not_started", "completed", "timed_out", "outcome_unknown"}

(* ShellJobVisibility. *)
Visibility == {"public", "hidden_until_handoff", "cleanup_pending"}

(***************************************************************************)
(* The execution states a structured job may report with a lifecycle value *)
(* (validate_command_execution_state).  started says whether the Server    *)
(* has already recorded a start of the command.                            *)
(***************************************************************************)
ValidExecutionState(st, ces, started) ==
    CASE ces = "none"            -> ~ IsTerminal(st)
      [] ces = "not_started"     -> ~ started /\ st \in {"failed", "stopped", "cancelled", "lost"}
      [] ces = "outcome_unknown" -> st \in {"failed", "lost"}
      [] ces = "timed_out"       -> st \in {"timeout", "timed_out"}
      [] ces = "completed"       -> st \in {"completed", "failed", "stopped", "cancelled"}

=============================================================================
