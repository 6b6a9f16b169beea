------------------------------ MODULE AgentTasks ------------------------------
(***************************************************************************)
(* An Agent Task that is carried out by coding-agent runs: the durable     *)
(* task, its attempts and the binding of each attempt to a run (store),    *)
(* the Server's own view of the runs and the registry's inventory (both    *)
(* lost when the Server restarts), the handlers that dispatch and          *)
(* reconcile, and the Runner (RunnerRuns).                                 *)
(*                                                                         *)
(* One task is modelled; the run of attempt n is run n, since its id is    *)
(* derived from the attempt.  A store operation is one transaction.  The   *)
(* lease of an attempt may lapse at any moment; a renewed lease is one     *)
(* that has not lapsed yet.  Retention on the Runner is left out.          *)
(***************************************************************************)
EXTENDS RunnerRuns, FiniteSets

CONSTANTS
    Callers,        \* handlers of start and reconcile calls in the Server
    MaxAttempts,    \* bound: attempts of the task
    MaxCalls        \* bound: calls of the handlers

ASSUME TaskAssumption ==
    /\ MaxAttempts \in Nat \ {0} /\ Runs = 1..MaxAttempts
    /\ MaxProcs \in Nat \ {0} /\ MaxRev \in Nat /\ MaxCalls \in Nat
    /\ Endings \subseteq Definitive

VARIABLES
    task,   \* the task: its state, its latest attempt
    att,    \* the state of each attempt
    bind,   \* wc_agent_task_coding_runs: the binding of each attempt, or None
    sb,     \* ServerRunBinding of each run, or None
    reg,    \* the Runner process the registry knows; 0 none
    inv,    \* the run inventory of its registration
    wire,   \* starts that were polled and that the process has not handled
    call,   \* the handlers
    calls   \* calls so far

storeVars == <<task, att, bind>>
serverVars == <<sb, reg, inv>>
taskVars == <<runVars, storeVars, serverVars, wire, call, calls>>

Revs == 0..(MaxRev + 4)
Snapshot == Snapshots(Revs, 1..MaxProcs)
Binding == [ds : {"prepared", "not_started", "outcome_unknown", "bound", "terminal"},
            pi : 1..MaxProcs, s : Snapshot \cup {None}]
ServerBinding == [s : Snapshot, inst : 1..MaxProcs]

(* A missing report or binding is not a report or a binding. *)
ASSUME NoneAssumption == None \notin Snapshot \cup Binding \cup ServerBinding

CallPc == {"idle", "view", "prepared", "claimed", "enqueue", "queued", "sent", "answered",
           "lost_queued", "lost_sent", "run", "not_started", "reconcile", "observed", "ended", "asked"}

TypeOK ==
    /\ task \in [st : {"ready", "active", "reported", "succeeded", "failed"}, latest : 0..MaxAttempts]
    /\ att \in [Runs -> {"none", "active", "lapsed", "expired", "reported", "succeeded", "failed"}]
    /\ bind \in [Runs -> Binding \cup {None}]
    /\ sb \in [Runs -> ServerBinding \cup {None}]
    /\ reg \in 0..MaxProcs
    /\ inv \in [Runs -> Snapshot \cup {None}]
    /\ wire \subseteq Runs /\ calls \in 0..MaxCalls
    /\ call \in [Callers -> [pc : CallPc, n : 0..MaxAttempts, p : 0..MaxProcs,
                             s : Snapshot \cup {None}]]

Idle == [pc |-> "idle", n |-> 0, p |-> 0, s |-> None]

Init ==
    /\ RunsInit
    /\ task = [st |-> "ready", latest |-> 0]
    /\ att = [n \in Runs |-> "none"]
    /\ bind = [n \in Runs |-> None]
    /\ sb = [r \in Runs |-> None]
    /\ reg = 0 /\ inv = [r \in Runs |-> None]
    /\ wire = {} /\ calls = 0
    /\ call = [c \in Callers |-> Idle]
-----------------------------------------------------------------------------
(***************************************************************************)
(* The store: attempts.                                                    *)
(***************************************************************************)
TaskOver == task.st \in {"reported", "succeeded", "failed"}

(* Mutant: a binding whose outcome is unknown does not block. *)
BlocksReplacementBound(n) == n \in Runs /\ bind[n] # None /\ bind[n].ds = "bound"

BlocksReplacement(n) == n \in Runs /\ bind[n] # None /\ bind[n].ds \in {"outcome_unknown", "bound"}

(* require_current_attempt. *)
Current(n) == ~TaskOver /\ task.latest = n /\ att[n] = "active"

LeaseLapses(n) ==
    /\ att[n] = "active" /\ att' = [att EXCEPT ![n] = "lapsed"]
    /\ UNCHANGED <<runVars, task, bind, serverVars, wire, call, calls>>

(* materialize_expired_latest_attempt, when nothing blocks. *)
Materialized == [n \in Runs |-> IF n = task.latest /\ att[n] = "lapsed" THEN "expired" ELSE att[n]]

Replaceable ==
    /\ ~TaskOver /\ ~BlocksReplacement(task.latest)
    /\ task.latest # 0 => att[task.latest] # "active"

StartAttempt ==
    /\ Replaceable /\ task.latest < MaxAttempts
    /\ att' = [Materialized EXCEPT ![task.latest + 1] = "active"]
    /\ task' = [task EXCEPT !.st = "active", !.latest = @ + 1]
    /\ UNCHANGED <<runVars, bind, serverVars, wire, call, calls>>

(* Assigning another Agent: a start then asks for that one. *)
Reassign ==
    /\ Replaceable
    /\ att' = Materialized /\ task' = [task EXCEPT !.st = "ready"]
    /\ UNCHANGED <<runVars, bind, serverVars, wire, call, calls>>

(* Assigning the same Agent again only materializes, whatever is bound. *)
AssignAgain ==
    /\ ~TaskOver /\ Materialized # att
    /\ att' = Materialized
    /\ task' = IF BlocksReplacement(task.latest) THEN task ELSE [task EXCEPT !.st = "ready"]
    /\ UNCHANGED <<runVars, bind, serverVars, wire, call, calls>>

(* The Agent reports the end of its attempt itself, however it went. *)
CompleteAttempt(n) ==
    /\ Current(n)
    /\ att' = [att EXCEPT ![n] = "reported"]
    /\ task' = [task EXCEPT !.st = "reported"]
    /\ UNCHANGED <<runVars, bind, serverVars, wire, call, calls>>
-----------------------------------------------------------------------------
(***************************************************************************)
(* The Server's view of a run.                                             *)
(***************************************************************************)
(* bind and merge_bound_snapshot: what becomes of binding b, or conflict. *)
BindServer(b, s, inst) ==
    IF b = None THEN [b |-> [s |-> s, inst |-> inst], ok |-> TRUE]
    ELSE CASE Merge(b.s, s) = "conflict" -> [b |-> b, ok |-> FALSE]
           [] Merge(b.s, s) = "advance" -> [b |-> [s |-> s, inst |-> inst], ok |-> TRUE]
           [] OTHER -> [b |-> b, ok |-> TRUE]

(* Mutant: what ended is marked again. *)
MarkLostAgain(b) == [b EXCEPT !.s = Snap("lost", "outcome_unknown", @.rev + 1, @.pi)]

(* Mutant: a run last seen not to have started is taken not to have. *)
MarkLostAsSeen(b) ==
    IF b.s.st \in Terminal THEN b
    ELSE [b EXCEPT !.s = IF @.ex = "not_started" THEN Snap("failed", "not_started", @.rev + 1, @.pi)
                         ELSE Snap("lost", "outcome_unknown", @.rev + 1, @.pi)]

MarkLost(b) ==
    IF b.s.st \in Terminal THEN b
    ELSE [b EXCEPT !.s = Snap("lost", "outcome_unknown", @.rev + 1, @.pi)]

Kept(b) == [b |-> b, ok |-> TRUE]

(* reconcile_run: from the inventory the Runner registered with, or from   *)
(* its having been replaced.                                               *)
ReconcileRun(r) ==
    LET b == sb[r] s == inv[r]
    IN  CASE b = None /\ s = None -> Kept(None)
          [] b = None /\ s # None -> BindServer(None, s, reg)
          [] b # None /\ s # None ->
                IF s.pi # b.s.pi \/ (reg # b.inst /\ s.st \notin Terminal)
                THEN Kept(MarkLost(b)) ELSE BindServer(b, s, reg)
          [] b # None /\ s = None ->
                IF reg \notin {0, b.inst} THEN Kept(MarkLost(b)) ELSE Kept(b)

SetBinding(r, b) == sb' = [sb EXCEPT ![r] = b]

(* prune_server_runs_locked. *)
PruneBinding(r) ==
    /\ sb[r] # None /\ sb[r].s.st \in Terminal
    /\ SetBinding(r, None)
    /\ UNCHANGED <<runVars, storeVars, reg, inv, wire, call, calls>>

(* The current process registers, for the first time or again. *)
Register ==
    /\ reg' = proc /\ inv' = rep
    /\ UNCHANGED <<runVars, storeVars, sb, wire, call, calls>>

ServerRestart ==
    /\ sb' = [r \in Runs |-> None]
    /\ reg' = 0 /\ inv' = [r \in Runs |-> None]
    /\ call' = [c \in Callers |-> Idle]
    /\ UNCHANGED <<runVars, storeVars, wire, calls>>
-----------------------------------------------------------------------------
(***************************************************************************)
(* start_agent_task_coding_run.                                            *)
(***************************************************************************)
At(c, pc) == call[c].pc = pc
Goto(c, pc) == call' = [call EXCEPT ![c].pc = pc]
GotoWith(c, pc, s) == call' = [call EXCEPT ![c].pc = pc, ![c].s = s]
Begins(c, pc, n, p, s) ==
    /\ calls < MaxCalls /\ calls' = calls + 1
    /\ At(c, "idle") /\ call' = [call EXCEPT ![c] = [pc |-> pc, n |-> n, p |-> p, s |-> s]]
Leave(c) == call' = [call EXCEPT ![c] = Idle]

(* The start context, and the Runner's view with its provider instance. *)
StartCall(c, n) ==
    /\ Current(n) /\ reg # 0 /\ Begins(c, "view", n, reg, None)
    /\ UNCHANGED <<runVars, storeVars, serverVars, wire>>

Prepare(c) ==
    LET n == call[c].n b == bind[n] p == call[c].p
        fits == b # None => b.pi = p \/ b.ds \in {"prepared", "not_started"}
    IN  /\ At(c, "view")
        /\ IF Current(n) /\ fits
           THEN /\ bind' = [bind EXCEPT ![n] = IF b = None THEN [ds |-> "prepared", pi |-> p, s |-> None]
                                               ELSE [b EXCEPT !.pi = p]]
                /\ Goto(c, "prepared")
           ELSE Leave(c) /\ bind' = bind
        /\ UNCHANGED <<runVars, task, att, serverVars, wire, calls>>

MayDispatch(b) == b.ds \in {"prepared", "not_started"}

(* Mutant: the claim does not fence the dispatch. *)
ClaimUnfenced(c) ==
    LET n == call[c].n
    IN  /\ At(c, "prepared")
        /\ IF Current(n) THEN Goto(c, IF MayDispatch(bind[n]) THEN "claimed" ELSE "reconcile")
                         ELSE Leave(c)
        /\ bind' = bind
        /\ UNCHANGED <<runVars, task, att, serverVars, wire, calls>>

(* claim_agent_task_coding_run_dispatch: one caller gets the dispatch. *)
Claim(c) ==
    LET n == call[c].n
    IN  /\ At(c, "prepared")
        /\ \/ /\ Current(n) /\ MayDispatch(bind[n])
              /\ bind' = [bind EXCEPT ![n].ds = "outcome_unknown"] /\ Goto(c, "claimed")
           \/ Current(n) /\ ~MayDispatch(bind[n]) /\ bind' = bind /\ Goto(c, "reconcile")
           \/ ~Current(n) /\ bind' = bind /\ Leave(c)
        /\ UNCHANGED <<runVars, task, att, serverVars, wire, calls>>

(* Dispatch looks for the run first. *)
LookFirst(c) ==
    LET q == ReconcileRun(call[c].n)
    IN  /\ At(c, "claimed")
        /\ SetBinding(call[c].n, q.b)
        /\ \/ ~q.ok /\ Leave(c)
           \/ q.ok /\ q.b = None /\ Goto(c, "enqueue")
           \/ q.ok /\ q.b # None /\ GotoWith(c, "run", q.b.s)
        /\ UNCHANGED <<runVars, storeVars, reg, inv, wire, calls>>

(* enqueue_coding_agent: the exact process, or not_started (also when the  *)
(* Runner is offline or the queue refuses).                                *)
Enqueue(c) ==
    /\ At(c, "enqueue")
    /\ \/ reg = call[c].p /\ Goto(c, "queued")
       \/ Goto(c, "not_started")
    /\ UNCHANGED <<runVars, storeVars, serverVars, wire, calls>>

(* A poll: the dispatch fence once more. *)
Poll(c) ==
    /\ At(c, "queued") /\ reg = proc
    /\ \/ reg = call[c].p /\ wire' = wire \cup {call[c].n} /\ Goto(c, "sent")
       \/ reg # call[c].p /\ wire' = wire /\ Goto(c, "not_started")
    /\ UNCHANGED <<runVars, storeVars, serverVars, calls>>

(* The waiter is failed, or times out. *)
Drained(c) ==
    /\ \/ At(c, "queued") /\ Goto(c, "not_started")
       \/ At(c, "sent") /\ Leave(c)
    /\ UNCHANGED <<runVars, storeVars, serverVars, wire, calls>>

TimedOut(c) ==
    /\ \/ At(c, "queued") /\ Goto(c, "lost_queued")
       \/ At(c, "sent") /\ Goto(c, "lost_sent")
    /\ UNCHANGED <<runVars, storeVars, serverVars, wire, calls>>

(* start_waiter_lost_typed. *)
WaiterLost(c) ==
    LET q == ReconcileRun(call[c].n)
    IN  /\ At(c, "lost_queued") \/ At(c, "lost_sent")
        /\ SetBinding(call[c].n, q.b)
        /\ \/ q.ok /\ q.b # None /\ GotoWith(c, "run", q.b.s)
           \/ q.ok /\ q.b = None /\ At(c, "lost_queued") /\ Goto(c, "not_started")
           \/ (~q.ok \/ (q.b = None /\ At(c, "lost_sent"))) /\ Leave(c)
        /\ UNCHANGED <<runVars, storeVars, reg, inv, wire, calls>>

(* The Runner's answer reaches the handler that waits for it, or nobody. *)
Answers(r, pc, s) ==
    \/ call' = call
    \/ \E c \in Callers : /\ At(c, "sent") /\ call[c].n = r
                          /\ call' = [call EXCEPT ![c] = IF pc = "idle" THEN Idle
                                                         ELSE [@ EXCEPT !.pc = pc, !.s = s]]

(* The Runner handles a start: admitted, known, refused or unreadable. *)
Handle(r) ==
    /\ r \in wire /\ wire' = wire \ {r}
    /\ \/ (Admit(r) \/ Readmit(r)) /\ Answers(r, "answered", rep'[r])
       \/ rep[r] # None /\ Answers(r, "answered", rep[r]) /\ UNCHANGED runVars
       \/ rep[r] = None /\ Answers(r, "not_started", None) /\ UNCHANGED runVars
       \/ Residue(r) /\ Answers(r, "not_started", None)
       \/ owner[r] = -1 /\ Answers(r, "idle", None) /\ UNCHANGED runVars
    /\ UNCHANGED <<storeVars, serverVars, calls>>

(* The answer names another process's run, cannot be merged, or is bound. *)
BindAnswer(c) ==
    LET n == call[c].n
        q == BindServer(sb[n], call[c].s, call[c].p)
    IN  /\ At(c, "answered")
        /\ \/ call[c].s.pi # call[c].p /\ Leave(c) /\ sb' = sb
           \/ /\ call[c].s.pi = call[c].p /\ SetBinding(n, q.b)
              /\ IF q.ok THEN GotoWith(c, "run", q.b.s) ELSE Leave(c)
        /\ UNCHANGED <<runVars, storeVars, reg, inv, wire, calls>>

RecordNotStarted(c) ==
    /\ At(c, "not_started") /\ Leave(c)
    /\ bind' = [bind EXCEPT ![call[c].n].ds = IF @ = "outcome_unknown" THEN "not_started" ELSE @]
    /\ UNCHANGED <<runVars, task, att, serverVars, wire, calls>>
-----------------------------------------------------------------------------
(***************************************************************************)
(* Observations and the end of the task.                                   *)
(***************************************************************************)
(* coding_agent_observe and coding_agent_cancel: reconcile, ask the process*)
(* of the binding (p), and merge its answer, unless it was replaced.       *)
ObserveAsks(c, r) ==
    LET q == ReconcileRun(r)
    IN  /\ q.ok /\ q.b # None
        /\ SetBinding(r, q.b)
        /\ reg = q.b.inst /\ proc = reg /\ rep[r] # None /\ rep[r].pi = q.b.s.pi
        /\ Begins(c, "asked", r, q.b.inst, rep[r])
        /\ UNCHANGED <<runVars, storeVars, reg, inv, wire>>

ObserveAnswered(c) ==
    LET n == call[c].n
    IN  /\ At(c, "asked") /\ Leave(c)
        /\ SetBinding(n, IF reg = call[c].p THEN BindServer(sb[n], call[c].s, reg).b ELSE sb[n])
        /\ UNCHANGED <<runVars, storeVars, reg, inv, wire, calls>>

(* merge_agent_task_coding_run_observation. *)
StoreMerge(b, s) ==
    IF b.pi # s.pi THEN "conflict" ELSE IF b.s = None THEN "advance" ELSE Merge(b.s, s)

Observed(b, s) ==
    IF StoreMerge(b, s) # "advance" THEN b
    ELSE [b EXCEPT !.s = s, !.ds = IF s.st = "lost" \/ s.ex = "outcome_unknown"
                                   THEN "outcome_unknown" ELSE "bound"]

(* Mutant: a run that was lost is taken to have ended. *)
EndedOrLost(b) == b.s.st \in Terminal

Ended(b) == b.s.st \in Definitive

(* The run that start found or dispatched is recorded. *)
RecordRun(c) ==
    /\ At(c, "run") /\ Leave(c)
    /\ bind' = [bind EXCEPT ![call[c].n] = Observed(@, call[c].s)]
    /\ UNCHANGED <<runVars, task, att, serverVars, wire, calls>>

(* reconcile_agent_task_coding_run, called for an attempt with a binding. *)
ReconcileCall(c, n) ==
    /\ bind[n] # None /\ Begins(c, "reconcile", n, 0, None)
    /\ UNCHANGED <<runVars, storeVars, serverVars, wire>>

Reconcile(c) ==
    LET n == call[c].n
        q == ReconcileRun(n)
    IN  /\ At(c, "reconcile")
        /\ SetBinding(n, q.b)
        /\ IF q.ok THEN GotoWith(c, "observed", IF q.b = None THEN None ELSE q.b.s) ELSE Leave(c)
        /\ UNCHANGED <<runVars, storeVars, reg, inv, wire, calls>>

(* The run is not to be found: a bound one becomes unknown.  Or it is: the *)
(* observation is recorded, and one that is recorded and definitive is     *)
(* taken on to the end of the task.                                        *)
RecordObserved(c) ==
    LET n == call[c].n s == call[c].s b == bind[n]
    IN  /\ At(c, "observed")
        /\ \/ /\ s = None /\ Leave(c)
              /\ bind' = [bind EXCEPT ![n].ds = IF @ = "bound" THEN "outcome_unknown" ELSE @]
           \/ /\ s # None /\ bind' = [bind EXCEPT ![n] = Observed(b, s)]
              /\ IF /\ StoreMerge(b, s) # "conflict"
                    /\ bind'[n].s.rev = s.rev /\ Ended(bind'[n])
                 THEN Goto(c, "ended") ELSE Leave(c)
        /\ UNCHANGED <<runVars, task, att, serverVars, wire, calls>>

(* terminalize_agent_task_coding_run. *)
Terminalize(c) ==
    LET n == call[c].n s == call[c].s
        b == Observed(bind[n], s)
        o == IF b.s.st = "completed" THEN "succeeded" ELSE "failed"
    IN  /\ At(c, "ended") /\ Leave(c)
        /\ IF /\ task.latest = n /\ ~TaskOver
              /\ StoreMerge(bind[n], s) \in {"advance", "replay"} /\ Ended(b)
           THEN /\ task' = [task EXCEPT !.st = o]
                /\ att' = [att EXCEPT ![n] = o]
                /\ bind' = [bind EXCEPT ![n] = [b EXCEPT !.ds = "terminal"]]
           ELSE UNCHANGED storeVars
        /\ UNCHANGED <<runVars, serverVars, wire, calls>>
-----------------------------------------------------------------------------
RunnerAlone ==
    /\ \/ \E r \in Runs : Advance(r) \/ HandOver(r) \/ End(r) \/ \E o \in Endings : Reply(r, o)
       \/ NextProcess
    /\ wire' = IF proc' = proc THEN wire ELSE {}
    /\ UNCHANGED <<storeVars, serverVars, call, calls>>

Next ==
    \/ RunnerAlone \/ StartAttempt \/ Reassign \/ AssignAgain
    \/ Register \/ ServerRestart
    \/ \E n \in Runs :
          \/ LeaseLapses(n) \/ PruneBinding(n) \/ Handle(n) \/ CompleteAttempt(n)
          \/ \E c \in Callers : StartCall(c, n) \/ ReconcileCall(c, n) \/ ObserveAsks(c, n)
    \/ \E c \in Callers :
          \/ Prepare(c) \/ Claim(c) \/ LookFirst(c) \/ Enqueue(c) \/ Poll(c)
          \/ Drained(c) \/ TimedOut(c) \/ WaiterLost(c) \/ BindAnswer(c)
          \/ RecordNotStarted(c) \/ RecordRun(c) \/ Reconcile(c) \/ RecordObserved(c)
          \/ Terminalize(c) \/ ObserveAnswered(c)

Spec == Init /\ [][Next]_taskVars
-----------------------------------------------------------------------------
(* At most one attempt of a task ever has its prompt handed to an agent,   *)
(* over lapsed leases, replaced attempts, retried and racing dispatches,   *)
(* and restarts of Server and Runner.                                      *)
OneExecution == Cardinality({n \in Runs : prompts[n] > 0}) <= 1

(* A binding that may still be dispatched, or that lets its attempt be     *)
(* replaced, is one whose prompt was not handed over and will not be: no   *)
(* start of it waits, travels or runs, but the one of its single claimant. *)
Unsettled(n) == Live(n) \/ n \in wire \/ \E c \in Callers : call[c].n = n /\ call[c].pc \in {"queued", "sent", "enqueue"}

DispatchableIsUntouched ==
    \A n \in Runs : (bind[n] = None \/ bind[n].ds \in {"prepared", "not_started"}) =>
        prompts[n] = 0 /\ ~Unsettled(n)

(* What the Server and the store believe of a run that they believe ended  *)
(* is true of it.                                                          *)
BeliefsAreTrue ==
    \A n \in Runs :
        /\ sb[n] # None => TrueReport(sb[n].s, prompts[n], answer[n])
        /\ bind[n] # None /\ bind[n].s # None => TrueReport(bind[n].s, prompts[n], answer[n])

(* A task that its run ended, ended the way the agent answered, or its run *)
(* never started.                                                          *)
OutcomeIsReal ==
    /\ task.st = "succeeded" => answer[task.latest] = "completed"
    /\ task.st = "failed" => answer[task.latest] \in {"failed", "cancelled"} \/ prompts[task.latest] = 0

(* What the store has observed of a run only moves forward, in whatever    *)
(* order registrations, answers and reconciliations deliver their reports, *)
(* and a definitive end stays.                                             *)
ObservationsAdvance ==
    [][\A n \in Runs : bind[n] # None /\ bind[n].s # None =>
          /\ bind'[n].s.rev >= bind[n].s.rev
          /\ Ended(bind[n]) => bind'[n].s = bind[n].s]_taskVars

(* The definitive end of the run of the current attempt is not passed over *)
(* by a reconciliation that finds it in the Runner's inventory: the call   *)
(* takes the report on, and ends the task with it.                         *)
EndIsNotPassedOver ==
    [][\A c \in Callers :
          LET n == call[c].n
              left == call'[c].pc = "idle"
          IN  n = task.latest /\ ~TaskOver /\ reg' # 0 =>
                /\ At(c, "reconcile") /\ ~At(c, "reconcile")' /\ inv[n] # None /\ inv[n].st \in Definitive
                      => ~left /\ call'[c].s.st \in Definitive
                /\ At(c, "observed") /\ call[c].s # None /\ call[c].s.st \in Definitive => ~left]_taskVars
-----------------------------------------------------------------------------
(***************************************************************************)
(* The inductive invariant.                                                *)
(***************************************************************************)
RunsInv ==
    /\ proc \in 1..MaxProcs /\ rep \in [Runs -> Snapshot \cup {None}]
    /\ owner \in [Runs -> -1..MaxProcs] /\ \A r \in Runs : owner[r] <= proc
    /\ prompts \in [Runs -> {0, 1}] /\ answer \in [Runs -> Endings \cup {"none"}]
    /\ \A r \in Runs : Live(r) /\ rep[r].ex # "started" => rep[r].rev <= 1
    /\ \A r \in Runs : inv[r] # None => reg # 0

(* A run that this process may still prompt. *)
Young(r) == owner[r] = proc /\ (rep[r] = None \/ Live(r))

(* The ends that may be told of a run: of a young one only that it is      *)
(* lost, which is what the Server says when it gives it up.                *)
EndsOf(r) == IF Young(r) THEN {"lost"} ELSE Terminal

(* A report, if it is one, of a run that process o admitted and that may   *)
(* have these ends: it is true, and stays true.                            *)
Faithful(s, o, ends, p, a) ==
    s # None =>
        /\ s.pi = o /\ TrueReport(s, p, a)
        /\ s.st \in Terminal => s.st \in ends
        /\ s.st \notin Terminal => s.rev <= MaxRev + 2

Says(r, s) == Faithful(s, owner[r], EndsOf(r), prompts[r], answer[r])

(* Whatever is said of a run, on the Runner, in the registry, by a handler,*)
(* by the Server or in the store.                                          *)
SaidInv ==
    \A r \in Runs :
        /\ Says(r, rep[r]) /\ Says(r, inv[r])
        /\ sb[r] # None => Says(r, sb[r].s)
        /\ bind[r] # None => Says(r, bind[r].s)
        /\ \A c \in Callers : call[c].n = r => Says(r, call[c].s)

CallInv(k) ==
    /\ k.pc # "idle" => k.n \in Runs
    /\ k.pc \notin {"idle", "reconcile", "observed", "ended"} => k.p # 0
    /\ k.pc \in {"answered", "run", "ended", "asked"} => k.s # None
    /\ k.pc \notin {"idle", "view", "asked"} => bind[k.n] # None

(* Nothing of a run has begun. *)
Untouched(n) == prompts[n] = 0 /\ ~Live(n) /\ n \notin wire

Dispatching(c, n) ==
    call[c].n = n /\ call[c].pc \in {"claimed", "enqueue", "queued", "sent", "answered",
                                     "lost_queued", "lost_sent", "not_started"}

(* An attempt that may be dispatched or was replaced is untouched and in   *)
(* nobody's hands; a dispatch has one claimant, and what it has not sent   *)
(* yet, or was not taken in, has not begun.                                *)
ClaimInv ==
    /\ \A n \in Runs : bind[n] = None \/ MayDispatch(bind[n]) \/ n # task.latest =>
          Untouched(n) /\ \A c \in Callers : ~Dispatching(c, n)
    /\ \A n \in Runs, c, d \in Callers : Dispatching(c, n) /\ Dispatching(d, n) => c = d
    /\ \A c \in Callers : call[c].pc \in {"claimed", "enqueue", "queued", "lost_queued", "not_started"} =>
          Untouched(call[c].n)
    /\ \A n \in wire : prompts[n] = 0 /\ ~Live(n)

(* A task that its run ended has the report of that end. *)
EndInv ==
    /\ \A n \in Runs : bind[n] # None /\ bind[n].ds = "terminal" => TaskOver
    /\ task.st \in {"succeeded", "failed"} =>
          /\ task.latest \in Runs /\ bind[task.latest] # None /\ bind[task.latest].s # None
          /\ Ended(bind[task.latest]) /\ (task.st = "succeeded" <=> bind[task.latest].s.st = "completed")

TasksInv ==
    /\ TypeOK /\ RunsInv /\ SaidInv
    /\ \A c \in Callers : CallInv(call[c])
    /\ ClaimInv /\ EndInv
=============================================================================
