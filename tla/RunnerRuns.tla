------------------------------ MODULE RunnerRuns ------------------------------
(***************************************************************************)
(* What a Runner promises of its coding-agent runs, whatever happens to    *)
(* its threads, its disk and its processes: a prompt is handed over at     *)
(* most once, only by the process that admitted the run, and every         *)
(* terminal report is true.  CodingAgentRun implements this; AgentTasks    *)
(* builds on it.                                                           *)
(***************************************************************************)
EXTENDS RunReports

CONSTANTS
    Runs,       \* run ids
    None,       \* no report
    Endings,    \* the definitive ends that are told apart
    MaxProcs,   \* bound: Runner processes, one after the other
    MaxRev      \* bound: revision up to which a turn reports progress

VARIABLES
    proc,       \* the Runner process
    rep,        \* the report of a run, as inventory and observe give it
    owner,      \* the process that admitted a run; 0 no record, -1 unreadable
    prompts,    \* prompts handed over, per run id
    answer      \* what the agent answered

runVars == <<proc, rep, owner, prompts, answer>>

RunsInit ==
    /\ proc = 1
    /\ rep = [r \in Runs |-> None]
    /\ owner = [r \in Runs |-> 0]
    /\ prompts = [r \in Runs |-> 0]
    /\ answer = [r \in Runs |-> "none"]

Live(r) == rep[r] # None /\ rep[r].st \notin Terminal
True(r, s) == TrueReport(s, prompts[r], answer[r])
Ends(r, rev) == {s \in [st : Endings \cup {"lost"}, ex : ExecutionState, rev : {rev}, pi : {owner[r]}] : True(r, s)}

(* A run id without a record is admitted. *)
Admit(r) ==
    /\ rep[r] = None /\ owner[r] = 0
    /\ rep' = [rep EXCEPT ![r] = Snap("starting", "not_started", 0, proc)]
    /\ owner' = [owner EXCEPT ![r] = proc]
    /\ UNCHANGED <<proc, prompts, answer>>

(* The record of an admission that failed stays behind. *)
Residue(r) ==
    /\ rep[r] = None /\ owner[r] = 0
    /\ \E p \in {proc, -1} : owner' = [owner EXCEPT ![r] = p]
    /\ UNCHANGED <<proc, rep, prompts, answer>>

(* A run id with a record and without a report is reported from it. *)
Readmit(r) ==
    /\ rep[r] = None /\ owner[r] > 0
    /\ rep' = [rep EXCEPT ![r] = Snap("starting", "not_started", 0, owner[r])]
    /\ UNCHANGED <<proc, owner, prompts, answer>>

(* A run that goes on has a new revision: at the gate, when its prompt is  *)
(* written, and with every progress of its turn.                           *)
Advance(r) ==
    /\ Live(r)
    /\ \/ rep[r].st = "starting" /\ rep' = [rep EXCEPT ![r] = Snap("running", "outcome_unknown", 1, @.pi)]
       \/ /\ rep[r].st = "running" /\ prompts[r] > 0 /\ (rep[r].ex = "started" => rep[r].rev < MaxRev)
          /\ rep' = [rep EXCEPT ![r].ex = "started", ![r].rev = @ + 1]
    /\ UNCHANGED <<proc, owner, prompts, answer>>

HandOver(r) ==
    /\ Live(r) /\ rep[r].st = "running" /\ owner[r] = proc /\ prompts[r] = 0
    /\ prompts' = [prompts EXCEPT ![r] = 1]
    /\ UNCHANGED <<proc, rep, owner, answer>>

Reply(r, o) ==
    /\ Live(r) /\ prompts[r] > 0 /\ answer[r] = "none"
    /\ answer' = [answer EXCEPT ![r] = o]
    /\ UNCHANGED <<proc, rep, owner, prompts>>

End(r) ==
    /\ Live(r)
    /\ rep' \in {[rep EXCEPT ![r] = s] : s \in Ends(r, rep[r].rev + 2)}
    /\ UNCHANGED <<proc, owner, prompts, answer>>

(* Retention is over. *)
Forget(R) ==
    /\ R # {} /\ \A r \in R : rep[r] # None /\ ~Live(r)
    /\ rep' = [r \in Runs |-> IF r \in R THEN None ELSE rep[r]]
    /\ owner' = [r \in Runs |-> IF r \in R THEN 0 ELSE owner[r]]
    /\ prompts' = [r \in Runs |-> IF r \in R THEN 0 ELSE prompts[r]]
    /\ answer' = [r \in Runs |-> IF r \in R THEN "none" ELSE answer[r]]
    /\ UNCHANGED proc

(* The next process reports no run that still goes on, and counts the      *)
(* revisions of those it found from 0.                                     *)
NextProcess ==
    /\ proc < MaxProcs /\ proc' = proc + 1
    /\ rep' \in [Runs -> (UNION {Ends(r, 0) : r \in Runs}) \cup {None}]
    /\ \A r \in Runs : rep'[r] # None => owner[r] > 0 /\ rep'[r] \in Ends(r, 0)
    /\ UNCHANGED <<owner, prompts, answer>>

RunsNext ==
    \/ \E r \in Runs :
          \/ Admit(r) \/ Residue(r) \/ Readmit(r) \/ Advance(r) \/ HandOver(r) \/ End(r)
          \/ \E o \in Endings : Reply(r, o)
    \/ \E R \in SUBSET Runs : Forget(R)
    \/ NextProcess

RunsSpec == RunsInit /\ [][RunsNext]_runVars
=============================================================================
