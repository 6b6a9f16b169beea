------------------------------ MODULE JobRegistry ------------------------------
(***************************************************************************)
(* The Server's registry of Runner Jobs, for one Runner identity           *)
(* (client_id) whose lease is contended by several Runner processes        *)
(* (instances).  Every handler of the registry runs under one mutex, so    *)
(* every handler is one action.                                            *)
(*                                                                         *)
(* The code only ever compares times through now - t, so the model keeps   *)
(* ages and lets Tick advance all of them: idle is now - last_seen, and a  *)
(* job's age is now - recovering_since while it recovers and               *)
(* now - terminal_observed_at once it is terminal.                         *)
(*                                                                         *)
(* Runner processes are the environment: a process reports, in any order   *)
(* and any number of times, any of Reports about the jobs whose start it   *)
(* was handed.                                                             *)
(***************************************************************************)
EXTENDS Integers, Sequences, FiniteSets, JobLifecycle

CONSTANTS
    Instances,        \* runner_instance_ids of the Runner processes
    NoInstance,       \* no process holds the lease
    ReconInstances,   \* processes with the JobStateReconciliation feature
    ResultInstances,  \* processes that answer a job start with /result
    Jobs,             \* job ids
    HiddenJobs,       \* jobs admitted hidden, for a structured tool call
    DetachedJobs,     \* run_detached_process jobs: they outlive the process
    InputJobs,        \* jobs whose start carries input that may go stale
    ProjectJobs,      \* jobs of the project that may be unregistered
    Reports,          \* [st, ces, started] a process may report of a job
    MaxSeq,           \* bound on update_seq
    MaxStops,         \* bound on stop requests per job
    MaxFence,         \* bound on concurrent project unregistrations
    QueueLimit,       \* MAX_QUEUED_REQUESTS_PER_RUNNER
    MaxRetired,       \* MAX_RETIRED_INSTANCES_PER_RUNNER
    PassCap,          \* RECOVERY_SWEEP_PASS_CAP
    OnlineWindow,     \* RUNNER_ONLINE_WINDOW_SECS, in ticks
    Grace,            \* job_recovery_grace_secs, in ticks
    Retention         \* JOB_TERMINAL_RETENTION_SECS, in ticks

Report == [st : RunnerActiveStates \cup TerminalStates, ces : ExecutionState, started : BOOLEAN]

ASSUME ConstantsAssumption ==
    /\ NoInstance \notin Instances
    /\ ReconInstances \subseteq Instances /\ ResultInstances \subseteq Instances
    /\ HiddenJobs \subseteq Jobs /\ DetachedJobs \subseteq Jobs
    /\ InputJobs \subseteq Jobs /\ ProjectJobs \subseteq Jobs
    /\ Reports \subseteq Report
    /\ {MaxSeq, MaxStops, MaxFence, QueueLimit, MaxRetired, PassCap} \subseteq Nat \ {0}
    /\ {OnlineWindow, Grace, Retention} \subseteq Nat \ {0}

VARIABLES
    inst,        \* the instance that holds the lease (runners), or NoInstance
    idle,        \* now - last_seen of the runner record
    retired,     \* retired_instances: tombstones, oldest first
    suppress,    \* projected_structured_terminal_suppressions: ticks to live
    jobs,        \* jobs_by_id
    pending,     \* keys of pending_by_id
    dispatched,  \* the pending requests handed to the Runner
    queue,       \* queues_by_runner: place of a request, growing to the front, or 0
    stops,       \* stop requests made so far for a job (names fresh ids)
    intents,     \* cleanup_intents
    fence,       \* unregistering_projects: running unregistrations
    allocated,   \* job ids ever drawn (allocate_job_id draws fresh ones)
    handed       \* the instance a job's start was handed to, or NoInstance

lease == <<inst, idle, retired, suppress>>
requests == <<pending, dispatched, queue>>
history == <<stops, allocated, handed>>
vars == <<lease, jobs, requests, intents, fence, history>>
-----------------------------------------------------------------------------
(***************************************************************************)
(* Records and request ids.  A job has one start request and up to         *)
(* MaxStops stop requests; request_to_job is the field job of an id.       *)
(***************************************************************************)
JobRecord == [lc : Lifecycle \cup {"absent"}, inst : Instances \cup {NoInstance},
              started : BOOLEAN, seq : Nat, phase : RecoveryPhase, age : Nat,
              ces : ExecutionState, vis : Visibility]

Absent == [lc |-> "absent", inst |-> NoInstance, started |-> FALSE, seq |-> 0,
           phase |-> "none", age |-> 0, ces |-> "none", vis |-> "public"]

Start(j) == [op |-> "start", job |-> j, n |-> 0]
Stop(j, k) == [op |-> "stop", job |-> j, n |-> k]

Request == {Start(j) : j \in Jobs} \cup {Stop(j, k) : j \in Jobs, k \in 1 .. MaxStops}

Present(r) == r.lc # "absent"
RecoveryActive(r) == IsRunnerActive(r.lc) /\ r.phase = "recovering"
RecoveryExpired(r) == RecoveryActive(r) /\ r.age >= Grace

Online == inst # NoInstance /\ idle <= OnlineWindow

Queued == {r \in Request : queue[r] > 0}

RequestsOf(J) == {r \in Request : r.job \in J}

(* The instance may speak of the job: it was handed its start, or the job  *)
(* runs in a detached supervisor that a later process adopts.              *)
Knows(i, j) == handed[j] = i \/ (j \in DetachedJobs /\ handed[j] # NoInstance)

MinOf(a, b) == IF a <= b THEN a ELSE b
-----------------------------------------------------------------------------
(***************************************************************************)
(* Transitions of one job record.                                          *)
(***************************************************************************)
(* Mutant: every disconnect restarts the grace. *)
BeginJobRecoveryAgain(r) ==
    IF IsTerminal(r.lc) \/ r.lc \in {"queued", "absent"} THEN r
    ELSE [r EXCEPT !.phase = "recovering", !.age = 0]

BeginJobRecovery(r) ==
    IF IsTerminal(r.lc) \/ r.lc \in {"queued", "absent"} THEN r
    ELSE [r EXCEPT !.phase = "recovering",
                   !.age = IF r.phase = "recovering" THEN r.age ELSE 0]

(* Mutant: started_at is not looked at. *)
LostExecutionStateUnstarted(r) == "not_started"

LostExecutionState(r) == IF r.started THEN "outcome_unknown" ELSE "not_started"

(* reconciled: the reason implies lost_after_reconcile. *)
MarkJobLost(r, reconciled) ==
    IF IsTerminal(r.lc) \/ ~ Present(r) THEN r
    ELSE [r EXCEPT !.lc = "lost", !.age = 0, !.ces = LostExecutionState(r),
                   !.phase = IF reconciled THEN "lost_after_reconcile" ELSE "none"]

(* refresh_job_status_locked: what every read of a job does to it first. *)
Refreshed(r) ==
    CASE ~ IsRunnerActive(r.lc)                    -> r
      [] RecoveryExpired(r)                        -> MarkJobLost(r, TRUE)
      [] RecoveryActive(r) /\ ~ RecoveryExpired(r) -> r
      [] ~ RecoveryActive(r) /\ IsRunnerActive(r.lc) ->
            IF Online THEN r
            ELSE IF inst \in ReconInstances THEN BeginJobRecovery(r)
            ELSE MarkJobLost(r, FALSE)

(* A job reaches a terminal state of its own. *)
Ended(r, st) == [r EXCEPT !.lc = st, !.age = IF IsTerminal(r.lc) THEN r.age ELSE 0]

(* remove_cleanup_terminal_jobs_locked, for one record. *)
WithoutCleanupTerminal(r) ==
    IF r.vis = "cleanup_pending" /\ IsTerminal(r.lc) THEN Absent ELSE r
-----------------------------------------------------------------------------
(***************************************************************************)
(* The request queue.                                                      *)
(***************************************************************************)
EnsureDispatchSupported == Online /\ Cardinality(Queued) < QueueLimit

(* push_back: everything that waits moves one place towards the front. *)
Enqueue(r) ==
    /\ EnsureDispatchSupported
    /\ queue' = [q \in Request |->
                    IF q = r THEN 1 ELSE IF queue[q] > 0 THEN queue[q] + 1 ELSE 0]
    /\ pending' = pending \cup {r}
    /\ dispatched' = dispatched

(* Mutant: the queue keeps the ids of retired requests. *)
RetireFromPendingOnly(R) ==
    /\ pending' = pending \ R
    /\ dispatched' = dispatched \ R
    /\ queue' = queue

(* retire_job_request_locked, for a set of requests. *)
Retire(R) ==
    /\ pending' = pending \ R
    /\ dispatched' = dispatched \ R
    /\ queue' = [r \in Request |-> IF r \in R THEN 0 ELSE queue[r]]

(* The pending record goes, the queue is left alone. *)
DropPending(R) ==
    /\ pending' = pending \ R
    /\ dispatched' = dispatched \ R
    /\ queue' = queue
-----------------------------------------------------------------------------
(***************************************************************************)
(* Tool calls of the Server.                                               *)
(***************************************************************************)
StartJob(j) ==
    /\ j \notin allocated
    /\ j \in ProjectJobs => fence = 0
    /\ Enqueue(Start(j))
    /\ jobs' = [jobs EXCEPT ![j] =
                  [Absent EXCEPT !.lc = "queued", !.inst = inst,
                                 !.vis = IF j \in HiddenJobs THEN "hidden_until_handoff"
                                         ELSE "public"]]
    /\ allocated' = allocated \cup {j}
    /\ UNCHANGED <<lease, intents, fence, stops, handed>>

(* get_job, job_log, list_jobs and the other reads. *)
RefreshJob(j) ==
    /\ Present(jobs[j])
    /\ jobs' = [jobs EXCEPT ![j] = Refreshed(jobs[j])]
    /\ UNCHANGED <<lease, requests, intents, fence, history>>

(* The shared stop delivery of stop_job and of the hidden cleanup. *)
RequestStop(j, r) ==
    /\ stops[j] < MaxStops
    /\ stops' = [stops EXCEPT ![j] = @ + 1]
    /\ Enqueue(Stop(j, stops[j] + 1))
    /\ jobs' = [jobs EXCEPT ![j] = [r EXCEPT !.lc = "stop_requested"]]

StopJob(j) ==
    LET r == Refreshed(jobs[j])
    IN  /\ r.vis = "public" /\ ~ RecoveryActive(r)
        /\ \/ /\ r.lc = "queued"
              /\ Retire({Start(j)})
              /\ jobs' = [jobs EXCEPT ![j] =
                            [Ended(r, "stopped") EXCEPT !.ces = "not_started"]]
              /\ stops' = stops
           \/ r.lc \in {"agent_queued", "running"} /\ RequestStop(j, r)
        /\ UNCHANGED <<lease, intents, fence, allocated, handed>>

(* promote_hidden_job and, with retain, retain_terminal_job_logs. *)
PublishHiddenJob(j, retain) ==
    LET r == Refreshed(jobs[j])
        publish == \/ ~ IsTerminal(r.lc) \/ retain
                   \/ r.ces = "outcome_unknown"
    IN  /\ r.vis = "hidden_until_handoff"
        /\ retain => IsTerminal(r.lc)
        /\ jobs' = [jobs EXCEPT ![j] = IF publish THEN [r EXCEPT !.vis = "public"] ELSE r]
        /\ UNCHANGED <<lease, requests, intents, fence, history>>

(* The structured tool call is dropped before its handoff. *)
RecordHiddenCleanupIntent(j) ==
    /\ jobs[j].vis = "hidden_until_handoff" /\ j \notin intents
    /\ intents' = intents \cup {j}
    /\ UNCHANGED <<lease, jobs, requests, fence, history>>

(* Mutant: the record goes, its queued start stays. *)
CancelQueuedRecordOnly(j) ==
    /\ UNCHANGED requests
    /\ jobs' = [jobs EXCEPT ![j] = Absent]

CancelQueued(j) ==
    /\ Retire({Start(j)})
    /\ jobs' = [jobs EXCEPT ![j] = Absent]

(* One intent of process_hidden_cleanup_intents. *)
CancelHiddenJob(j) ==
    LET r == Refreshed(jobs[j])
        private == [r EXCEPT !.vis = "cleanup_pending"]
    IN  /\ j \in intents
        /\ \/ /\ ~ Present(r) \/ r.vis = "public"
              /\ intents' = intents \ {j}
              /\ jobs' = [jobs EXCEPT ![j] = r]
              /\ UNCHANGED <<requests, stops>>
           \/ /\ r.vis # "public" /\ r.lc = "queued"
              /\ intents' = intents \ {j}
              /\ CancelQueued(j)
              /\ stops' = stops
           \/ /\ r.vis # "public" /\ IsTerminal(r.lc)
              /\ intents' = intents \ {j}
              /\ jobs' = [jobs EXCEPT ![j] = Absent]
              /\ UNCHANGED <<requests, stops>>
           \/ /\ r.vis # "public" /\ (RecoveryActive(r) \/ r.lc = "stop_requested")
              /\ intents' = intents \ {j}
              /\ jobs' = [jobs EXCEPT ![j] = private]
              /\ UNCHANGED <<requests, stops>>
           \/ /\ r.vis # "public" /\ r.lc \in {"agent_queued", "running"} /\ ~ RecoveryActive(r)
              /\ \/ intents' = intents \ {j} /\ RequestStop(j, private)
                 \/ /\ ~ EnsureDispatchSupported
                    /\ intents' = intents
                    /\ jobs' = [jobs EXCEPT ![j] = private]
                    /\ UNCHANGED <<requests, stops>>
        /\ UNCHANGED <<lease, fence, allocated, handed>>

(* remove_projected_hidden_terminal_job_record: the initiating call has    *)
(* returned the terminal result itself.                                    *)
RemoveProjectedHiddenJob(j) ==
    /\ jobs[j].vis = "hidden_until_handoff" /\ IsTerminal(jobs[j].lc)
    /\ suppress' = [suppress EXCEPT ![j] = IF jobs[j].inst = inst THEN Retention ELSE @]
    /\ jobs' = [jobs EXCEPT ![j] = Absent]
    /\ Retire({Start(j)})
    /\ UNCHANGED <<inst, idle, retired, intents, fence, history>>

(* Mutant: jobs that still wait in the queue are not counted. *)
DispatchedProjectJobs(records) == {j \in ProjectJobs : IsRunnerActive(records[j].lc)}

ActiveProjectJobs(records) == {j \in ProjectJobs : IsActive(records[j].lc)}

BeginProjectUnregister ==
    LET refreshed == [j \in Jobs |-> IF j \in ProjectJobs THEN Refreshed(jobs[j]) ELSE jobs[j]]
    IN  /\ fence < MaxFence
        /\ jobs' = refreshed
        /\ fence' = IF ActiveProjectJobs(refreshed) = {} THEN fence + 1 ELSE fence
        /\ UNCHANGED <<lease, requests, intents, history>>

EndProjectUnregister ==
    /\ fence > 0
    /\ fence' = fence - 1
    /\ UNCHANGED <<lease, jobs, requests, intents, history>>
-----------------------------------------------------------------------------
(***************************************************************************)
(* Messages of a Runner process.  live says that a message arrives by the  *)
(* connection that holds the transport lease (or by polling); a message of *)
(* an older connection of the same process is applied but proves nothing   *)
(* about the current one.                                                  *)
(***************************************************************************)
Seen(live) ==
    /\ idle' = IF live THEN 0 ELSE idle
    /\ UNCHANGED <<inst, retired, suppress>>

(* Ping, pong and every accepted message without another effect. *)
TouchRunner(i) ==
    /\ i = inst
    /\ Seen(TRUE)
    /\ UNCHANGED <<jobs, requests, intents, fence, history>>

(***************************************************************************)
(* poll_checked pops requests from the front until one can be handed out.  *)
(* Requests without a pending record are skipped; starts in stale, whose   *)
(* input is no longer valid, fail their job; a stop is forgotten as soon   *)
(* as it is handed out.                                                    *)
(***************************************************************************)
Takeable(stale) ==
    {r \in Queued : r \in pending /\ ~ (r.op = "start" /\ r.job \in stale)}

(* The jobs among popped whose stale start is rejected. *)
Rejected(popped, stale) == {j \in stale : Start(j) \in popped \cap pending}

RejectedRecord(r) == IF Present(r) THEN [Ended(r, "failed") EXCEPT !.ces = "not_started"] ELSE r

PopFromQueue(popped) == queue' = [r \in Request |-> IF r \in popped THEN 0 ELSE queue[r]]

Poll(i, stale, first) ==
    LET popped == {r \in Queued : queue[r] >= queue[first]}
        failed == Rejected(popped, stale)
    IN  /\ i = inst
        /\ first \in Takeable(stale)
        /\ \A r \in Takeable(stale) : queue[r] <= queue[first]
        /\ Seen(TRUE)
        /\ PopFromQueue(popped)
        /\ pending' = pending \ ({Start(j) : j \in failed} \cup {r \in {first} : r.op = "stop"})
        /\ dispatched' = dispatched \cup {r \in {first} : r.op = "start"}
        /\ handed' = [j \in Jobs |-> IF first = Start(j) THEN i ELSE handed[j]]
        /\ jobs' = [j \in Jobs |->
                      IF j \in failed THEN RejectedRecord(jobs[j])
                      ELSE IF first = Start(j) /\ jobs[j].lc = "queued"
                      THEN [jobs[j] EXCEPT !.lc = "agent_queued"]
                      ELSE jobs[j]]
        /\ UNCHANGED <<intents, fence, stops, allocated>>

PollEmpty(i, stale) ==
    LET failed == Rejected(Queued, stale)
    IN  /\ i = inst
        /\ Takeable(stale) = {}
        /\ Seen(TRUE)
        /\ PopFromQueue(Queued)
        /\ pending' = pending \ {Start(j) : j \in failed}
        /\ dispatched' = dispatched
        /\ jobs' = [j \in Jobs |-> IF j \in failed THEN RejectedRecord(jobs[j]) ELSE jobs[j]]
        /\ UNCHANGED <<intents, fence, history>>

(* The record after an accepted update (update_job_checked). *)
Updated(r, rep, seq) ==
    LET recovering == RecoveryActive(r)
        valid == ValidExecutionState(rep.st, rep.ces, r.started)
        started == \/ r.started
                   \/ /\ rep.ces # "not_started"
                      /\ rep.st \in {"running", "completed", "failed", "stopped", "timeout"}
    IN  IF ~ valid
        THEN [Ended(r, "failed") EXCEPT !.ces = LostExecutionState(r), !.seq = seq]
        ELSE [r EXCEPT !.lc = rep.st, !.started = started, !.seq = seq,
                       !.phase = IF recovering THEN "reconciled" ELSE r.phase,
                       !.age = IF IsTerminal(rep.st) \/ recovering THEN 0 ELSE r.age,
                       !.ces = IF IsTerminal(rep.st) THEN rep.ces ELSE r.ces]

UpdateJob(i, j, rep, seq, snapshot, live) ==
    LET r == jobs[j]
        sequenced == i \in ReconInstances
        updated == Updated(r, rep, IF sequenced THEN seq ELSE r.seq)
    IN  /\ i = inst /\ Knows(i, j)
        /\ Present(r) /\ r.inst = i /\ ~ IsTerminal(r.lc)
        /\ snapshot => sequenced
        /\ RecoveryActive(r) /\ sequenced => snapshot
        /\ sequenced => seq > r.seq
        /\ Seen(live)
        /\ jobs' = [jobs EXCEPT ![j] = WithoutCleanupTerminal(updated)]
        /\ IF IsTerminal(updated.lc) THEN DropPending({Start(j)}) ELSE UNCHANGED requests
        /\ UNCHANGED <<intents, fence, history>>

(* complete_checked for a job-backed request. *)
CompleteJob(i, j, success, live) ==
    /\ i = inst /\ i \in ResultInstances /\ handed[j] = i
    /\ Start(j) \in pending
    /\ Seen(live)
    /\ DropPending({Start(j)})
    /\ jobs' = IF Present(jobs[j])
               THEN [jobs EXCEPT ![j] = Ended(jobs[j], IF success THEN "completed" ELSE "failed")]
               ELSE jobs
    /\ UNCHANGED <<intents, fence, history>>

(* reconcile_disconnect_checked, for the transport that holds the lease. *)
Disconnect ==
    LET affected == {j \in Jobs : jobs[j].lc = "queued" \/ IsRunnerActive(jobs[j].lc)}
    IN  /\ inst # NoInstance
        /\ idle' = OnlineWindow + 1
        /\ jobs' = [j \in Jobs |->
                      IF j \notin affected THEN jobs[j]
                      ELSE IF inst \in ReconInstances /\ jobs[j].lc # "queued"
                      THEN BeginJobRecovery(jobs[j])
                      ELSE MarkJobLost(jobs[j], FALSE)]
        /\ Retire(pending \cup {Start(j) : j \in affected})
        /\ UNCHANGED <<inst, retired, suppress, intents, fence, history>>
-----------------------------------------------------------------------------
(***************************************************************************)
(* Registration with a complete inventory of the process's jobs.  inv maps *)
(* the jobs the process retains to [rep, seq] snapshots.                   *)
(***************************************************************************)
Inventories(i) ==
    UNION {[J -> [rep : Reports, seq : 1 .. MaxSeq]] :
              J \in IF i \in ReconInstances THEN SUBSET {j \in Jobs : Knows(i, j)} ELSE {{}}}

TransferAllowed(j) == j \in DetachedJobs

(* validate_snapshot *)
ValidSnapshot(rep) ==
    /\ ValidExecutionState(rep.st, rep.ces, rep.started)
    /\ rep.st \in {"running", "stop_requested"} => rep.started

(* validate_inventory and preflight_inventory_locked: one bad snapshot     *)
(* refuses the registration as a whole.                                    *)
PreflightInventory(i, inv) ==
    \A j \in DOMAIN inv :
        /\ ValidSnapshot(inv[j].rep)
        /\ Present(jobs[j]) /\ jobs[j].inst # i =>
              /\ TransferAllowed(j)
              /\ IsTerminal(jobs[j].lc) \/ inv[j].seq >= jobs[j].seq

(* record_from_snapshot and apply_snapshot. *)
FromSnapshot(r, i, snapshot) ==
    [r EXCEPT !.lc = snapshot.rep.st, !.inst = i, !.started = snapshot.rep.started,
              !.seq = snapshot.seq, !.phase = "reconciled", !.age = 0,
              !.ces = snapshot.rep.ces]

(* Mutant: terminal records are not spared. *)
SnapshotAppliesToTerminal(r, i, snapshot) ==
    \/ snapshot.seq > r.seq
    \/ snapshot.seq = r.seq /\ (RecoveryActive(r) \/ r.inst # i)

(* Mutant: a detached transfer at an equal sequence number is skipped. *)
SnapshotAppliesNoTransfer(r, i, snapshot) ==
    /\ ~ IsTerminal(r.lc)
    /\ \/ snapshot.seq > r.seq
       \/ snapshot.seq = r.seq /\ RecoveryActive(r)

SnapshotApplies(r, i, snapshot) ==
    /\ ~ IsTerminal(r.lc)
    /\ \/ snapshot.seq > r.seq
       \/ snapshot.seq = r.seq /\ (RecoveryActive(r) \/ r.inst # i)

(* Mutant: jobs that still wait in the queue are not terminated. *)
ReplacedRunningJobs(i, inv) ==
    IF inst \in {i, NoInstance} THEN {}
    ELSE {j \in Jobs : /\ jobs[j].inst = inst
                       /\ IsRunnerActive(jobs[j].lc)
                       /\ ~ (TransferAllowed(j) /\ j \in DOMAIN inv)}

(* Jobs of the replaced process that terminate_instance_jobs_locked loses. *)
ReplacedJobs(i, inv) ==
    IF inst \in {i, NoInstance} THEN {}
    ELSE {j \in Jobs : /\ jobs[j].inst = inst
                       /\ jobs[j].lc = "queued" \/ IsRunnerActive(jobs[j].lc)
                       /\ ~ (TransferAllowed(j) /\ j \in DOMAIN inv)}

ExpiredRecoveries == {j \in Jobs : RecoveryExpired(jobs[j])}

(* A pass of expire_recovering_jobs_locked takes up to PassCap of them. *)
SweepPasses(expired) ==
    {X \in SUBSET expired : Cardinality(X) = MinOf(PassCap, Cardinality(expired))}

(* Active jobs of this process that its complete inventory does not name. *)
MissingJobs(i, inv) ==
    {j \in Jobs : jobs[j].inst = i /\ IsRunnerActive(jobs[j].lc) /\ j \notin DOMAIN inv}

(* Mutant: suppressions are not consulted. *)
NeverSuppressed(j, i) == FALSE

(* suppresses_projected_structured_terminal: the process that reconnects   *)
(* still remembers a result its tool call has already returned.            *)
Suppressed(j, i) == inst = i /\ suppress[j] > 0

(***************************************************************************)
(* What reconcile_inventory_locked makes of the record r of a job.         *)
(***************************************************************************)
Reconciled(j, r, i, inv) ==
    IF j \notin DOMAIN inv
    THEN IF r.inst = i /\ IsRunnerActive(r.lc) THEN MarkJobLost(r, TRUE) ELSE r
    ELSE IF Present(r)
    THEN IF SnapshotApplies(r, i, inv[j]) THEN FromSnapshot(r, i, inv[j]) ELSE r
    ELSE IF IsTerminal(inv[j].rep.st) /\ Suppressed(j, i) THEN r
    ELSE FromSnapshot(Absent, i, inv[j])

(* A reconciled terminal snapshot also ends the job's start request. *)
EndedBySnapshot(j, r, i, inv) ==
    /\ j \in DOMAIN inv /\ IsTerminal(inv[j].rep.st)
    /\ IF Present(r) THEN SnapshotApplies(r, i, inv[j])
       ELSE ~ Suppressed(j, i)

(* Mutant: a first registration buries the instance that is not there. *)
TombstonesOfNobody(i) ==
    IF inst = i THEN retired ELSE Append(retired, inst)

Tombstones(i) ==
    IF inst \in {i, NoInstance} THEN retired
    ELSE LET longer == Append(retired, inst)
         IN  IF Len(longer) > MaxRetired THEN Tail(longer) ELSE longer

(* Mutant: the scan of the tombstones starts past the oldest. *)
NotLaterRetired(i) == \A n \in 2 .. Len(retired) : retired[n] # i

NotRetired(i) == \A n \in 1 .. Len(retired) : retired[n] # i

Register(i, inv, expired) ==
    LET replaced == ReplacedJobs(i, inv)
        lost == [j \in Jobs |-> IF j \in replaced THEN MarkJobLost(jobs[j], TRUE) ELSE jobs[j]]
        kept == [j \in Jobs |-> IF inst \in {i, NoInstance} THEN lost[j]
                                ELSE WithoutCleanupTerminal(lost[j])]
        aged == [j \in Jobs |-> IF j \in expired THEN MarkJobLost(kept[j], TRUE) ELSE kept[j]]
        swept == [j \in Jobs |-> IF expired = {} THEN aged[j] ELSE WithoutCleanupTerminal(aged[j])]
        recon == i \in ReconInstances
    IN  /\ NotRetired(i)
        /\ PreflightInventory(i, inv)
        /\ expired \in SweepPasses(IF recon THEN ExpiredRecoveries \ replaced ELSE {})
        /\ inst' = i
        /\ idle' = 0
        /\ retired' = Tombstones(i)
        /\ suppress' = IF inst = i THEN suppress ELSE [j \in Jobs |-> 0]
        /\ jobs' = [j \in Jobs |->
                      IF recon THEN WithoutCleanupTerminal(Reconciled(j, swept[j], i, inv))
                      ELSE kept[j]]
        /\ Retire(RequestsOf(replaced \cup expired \cup (IF recon THEN MissingJobs(i, inv) ELSE {}))
                    \cup {Start(j) : j \in {k \in Jobs : recon /\ EndedBySnapshot(k, swept[k], i, inv)}})
        /\ UNCHANGED <<intents, fence, history>>
-----------------------------------------------------------------------------
(***************************************************************************)
(* The periodic sweep, the passing of time and a restart of the Server.    *)
(***************************************************************************)
RetentionExpired ==
    {j \in Jobs : jobs[j].vis = "public" /\ IsTerminal(jobs[j].lc) /\ jobs[j].age >= Retention}

(* recovery_timeout_sweep; its cleanup intents are CancelHiddenJob steps. *)
RecoveryTimeoutSweep(expired, pruned) ==
    LET aged == [j \in Jobs |-> IF j \in expired THEN MarkJobLost(jobs[j], TRUE) ELSE jobs[j]]
        swept == [j \in Jobs |-> IF expired = {} THEN aged[j] ELSE WithoutCleanupTerminal(aged[j])]
    IN  /\ expired \in SweepPasses(ExpiredRecoveries)
        /\ pruned \in SweepPasses(RetentionExpired)
        /\ expired \cup pruned # {}
        /\ jobs' = [j \in Jobs |-> IF j \in pruned THEN Absent ELSE swept[j]]
        /\ Retire(RequestsOf(expired \cup pruned))
        /\ intents' = intents \ pruned
        /\ UNCHANGED <<lease, fence, history>>

Aged(r) ==
    CASE RecoveryActive(r)  -> [r EXCEPT !.age = MinOf(r.age + 1, Grace)]
      [] IsTerminal(r.lc)   -> [r EXCEPT !.age = MinOf(r.age + 1, Retention)]
      [] OTHER              -> r

(* Ages saturate where no comparison can tell them apart any more. *)
Tick ==
    /\ idle' = MinOf(idle + 1, OnlineWindow + 1)
    /\ jobs' = [j \in Jobs |-> Aged(jobs[j])]
    /\ suppress' = [j \in Jobs |-> IF suppress[j] > 0 THEN suppress[j] - 1 ELSE 0]
    /\ UNCHANGED <<inst, retired, requests, intents, fence, history>>

(* The registry lives in memory only; the Runner processes go on. *)
Restart ==
    /\ inst' = NoInstance /\ idle' = 0 /\ retired' = <<>>
    /\ suppress' = [j \in Jobs |-> 0]
    /\ jobs' = [j \in Jobs |-> Absent]
    /\ pending' = {} /\ dispatched' = {} /\ queue' = [r \in Request |-> 0]
    /\ intents' = {} /\ fence' = 0
    /\ UNCHANGED history
-----------------------------------------------------------------------------
Init ==
    /\ inst = NoInstance /\ idle = 0 /\ retired = <<>>
    /\ suppress = [j \in Jobs |-> 0]
    /\ jobs = [j \in Jobs |-> Absent]
    /\ pending = {} /\ dispatched = {} /\ queue = [r \in Request |-> 0]
    /\ intents = {} /\ fence = 0
    /\ stops = [j \in Jobs |-> 0] /\ allocated = {}
    /\ handed = [j \in Jobs |-> NoInstance]

Next ==
    \/ \E j \in Jobs : StartJob(j)
    \/ \E j \in Jobs : RefreshJob(j)
    \/ \E j \in Jobs : StopJob(j)
    \/ \E j \in Jobs, retain \in BOOLEAN : PublishHiddenJob(j, retain)
    \/ \E j \in Jobs : RecordHiddenCleanupIntent(j)
    \/ \E j \in Jobs : CancelHiddenJob(j)
    \/ \E j \in Jobs : RemoveProjectedHiddenJob(j)
    \/ BeginProjectUnregister
    \/ EndProjectUnregister
    \/ \E i \in Instances : TouchRunner(i)
    \/ \E i \in Instances, stale \in SUBSET InputJobs :
          PollEmpty(i, stale) \/ \E first \in Request : Poll(i, stale, first)
    \/ \E i \in Instances, j \in Jobs, rep \in Reports, seq \in 1 .. MaxSeq,
          snapshot \in BOOLEAN, live \in BOOLEAN : UpdateJob(i, j, rep, seq, snapshot, live)
    \/ \E i \in Instances, j \in Jobs, success \in BOOLEAN, live \in BOOLEAN :
          CompleteJob(i, j, success, live)
    \/ Disconnect
    \/ \E i \in Instances, expired \in SUBSET Jobs : \E inv \in Inventories(i) :
          Register(i, inv, expired)
    \/ \E expired \in SUBSET Jobs, pruned \in SUBSET Jobs : RecoveryTimeoutSweep(expired, pruned)
    \/ Tick
    \/ Restart

Spec == Init /\ [][Next]_vars

Sweep ==
    \E expired \in SUBSET Jobs, pruned \in SUBSET Jobs : RecoveryTimeoutSweep(expired, pruned)

(* Time passes, and the Server spawns the sweep on a fixed interval. *)
Fairness == WF_vars(Tick) /\ WF_vars(Sweep)

FairSpec == Spec /\ Fairness
-----------------------------------------------------------------------------
(***************************************************************************)
(* Properties.                                                             *)
(***************************************************************************)

(* Every variable has the type the registry's declarations give it. *)
TypeOK ==
    /\ inst \in Instances \cup {NoInstance}
    /\ idle \in Nat
    /\ retired \in Seq(Instances)
    /\ suppress \in [Jobs -> Nat]
    /\ jobs \in [Jobs -> JobRecord]
    /\ pending \subseteq Request
    /\ dispatched \subseteq Request
    /\ queue \in [Request -> Nat]
    /\ stops \in [Jobs -> 0 .. MaxStops]
    /\ intents \subseteq Jobs
    /\ fence \in 0 .. MaxFence
    /\ allocated \subseteq Jobs
    /\ handed \in [Jobs -> Instances \cup {NoInstance}]

(* A start waits in the queue exactly while its job is queued, and what    *)
(* waits in the queue was never handed out: a job the Server reports as    *)
(* stopped, failed, lost or cleaned up before its dispatch can never start *)
(* afterwards, and a queued job can still be polled.                       *)
QueueIsDispatchable ==
    /\ dispatched \subseteq pending
    /\ Queued = pending \ dispatched
    /\ \A j \in Jobs : Start(j) \in Queued <=> jobs[j].lc = "queued"

(* Every job that is still active belongs to the process that holds the    *)
(* lease: replacement, reconciliation and detached transfer leave no job   *)
(* behind that nobody may report on any more.                              *)
LeaseOwnsActiveJobs ==
    \A j \in Jobs : IsActive(jobs[j].lc) => inst # NoInstance /\ jobs[j].inst = inst

(* A process that was replaced does not hold the lease. *)
RetiredNeverHoldsLease ==
    \A n \in 1 .. Len(retired) : retired[n] # inst

(* A job the Server calls not_started was never seen to start: neither     *)
(* losing it nor an update nor a snapshot turns a start it recorded into   *)
(* not_started.                                                            *)
NotStartedWasNotSeenToStart ==
    \A j \in Jobs : jobs[j].ces = "not_started" => ~ jobs[j].started

(* A job's start is handed out once in its life, to the process that held  *)
(* the lease when it was admitted, while the Server reports it as queued.  *)
StartHandedOnce ==
    [][\A j \in Jobs : Start(j) \in dispatched' \ dispatched =>
          /\ handed[j] = NoInstance
          /\ jobs[j].lc = "queued"
          /\ jobs[j].inst = inst /\ handed'[j] = inst]_vars

(* "Terminal class is server-authoritative once accepted": a terminal      *)
(* record keeps its lifecycle value until it is removed.  (A record under  *)
(* cleanup can be removed and rebuilt in one registration.)                *)
TerminalIsFinal ==
    [][\A j \in Jobs :
          IsTerminal(jobs[j].lc) /\ jobs[j].vis # "cleanup_pending" /\ Present(jobs'[j])
             => jobs'[j].lc = jobs[j].lc]_vars

(* No message and no inventory takes a job back to an earlier update_seq.  *)
UpdateSeqMonotone ==
    [][\A j \in Jobs :
          Present(jobs[j]) /\ jobs[j].vis # "cleanup_pending" /\ Present(jobs'[j])
             => jobs'[j].seq >= jobs[j].seq]_vars

(* The recovery deadline of a job is never moved: repeated disconnects,    *)
(* stale reads and reconnects without the job do not restart its grace.    *)
RecoveryDeadlineFixed ==
    [][\A j \in Jobs : RecoveryActive(jobs[j]) /\ RecoveryActive(jobs'[j])
          => jobs'[j].age >= jobs[j].age]_vars

(* Nothing of a project is handed to the Runner while the project is being *)
(* unregistered.                                                           *)
FencedProjectNotDispatched ==
    [][fence > 0 => \A j \in ProjectJobs : handed'[j] = handed[j]]_vars

(* The terminal result of a hidden job that its tool call already returned *)
(* does not come back as a job when the same process reconnects.           *)
ProjectedResultStaysGone ==
    [][\A j \in Jobs : suppress[j] > 0 /\ ~ Present(jobs[j]) => ~ IsTerminal(jobs'[j].lc)]_vars

(* A job in recovery leaves it: reconciled, ended or lost. *)
RecoveryEnds ==
    \A j \in Jobs : RecoveryActive(jobs[j]) ~> ~ RecoveryActive(jobs[j])
-----------------------------------------------------------------------------
(***************************************************************************)
(* The inductive invariant behind the safety properties.                   *)
(***************************************************************************)

(* Two waiting requests never share a place in the queue. *)
QueuePlaces ==
    \A q \in Request, r \in Request : queue[q] > 0 /\ queue[q] = queue[r] => q = r

(* Only a job that was handed out has a history: a queued job never was in *)
(* recovery, an unfinished one has no outcome, and no recovery is older    *)
(* than its grace.                                                         *)
RecordsConsistent ==
    \A j \in Jobs :
        /\ jobs[j].lc # "started"
        /\ jobs[j].lc = "queued" =>
              handed[j] = NoInstance /\ jobs[j].phase = "none" /\ ~ jobs[j].started
        /\ ~ IsTerminal(jobs[j].lc) => jobs[j].ces = "none"
        /\ RecoveryActive(jobs[j]) => jobs[j].age <= Grace

(* Ids that were not drawn yet are not in use. *)
FreshIds ==
    /\ \A j \in Jobs \ allocated :
          jobs[j].lc = "absent" /\ handed[j] = NoInstance /\ Start(j) \notin pending
    /\ \A j \in Jobs, k \in 1 .. MaxStops : Stop(j, k) \in pending => k <= stops[j]

(* What every step of the registry preserves: the safety invariants with   *)
(* the facts about queue places, records and fresh ids that carry them.    *)
RegistryInv ==
    /\ TypeOK
    /\ QueueIsDispatchable
    /\ QueuePlaces
    /\ LeaseOwnsActiveJobs
    /\ RetiredNeverHoldsLease
    /\ NotStartedWasNotSeenToStart
    /\ RecordsConsistent
    /\ FreshIds
=============================================================================
