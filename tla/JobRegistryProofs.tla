--------------------------- MODULE JobRegistryProofs ---------------------------
(***************************************************************************)
(* Proofs about JobRegistry, for every set of jobs, of processes and of    *)
(* reports, and for every value of the bounds.                             *)
(***************************************************************************)
EXTENDS JobRegistry, SequenceTheorems, TLAPS
-----------------------------------------------------------------------------
(***************************************************************************)
(* The transitions of a record yield records.                              *)
(***************************************************************************)
LEMMA AbsentType == Absent \in JobRecord
BY DEF Absent, JobRecord, RecoveryPhase, ExecutionState, Visibility

LEMMA RecoveryType ==
    ASSUME NEW r \in JobRecord
    PROVE  BeginJobRecovery(r) \in JobRecord
BY DEF BeginJobRecovery, JobRecord, RecoveryPhase

LEMMA LostType ==
    ASSUME NEW r \in JobRecord, NEW b \in BOOLEAN
    PROVE  MarkJobLost(r, b) \in JobRecord
<1>1. LostExecutionState(r) \in ExecutionState
  BY DEF LostExecutionState, ExecutionState
<1>2. ASSUME NEW e \in ExecutionState, NEW p \in RecoveryPhase
      PROVE  [r EXCEPT !.lc = "lost", !.age = 0, !.ces = e, !.phase = p] \in JobRecord
  BY DEF JobRecord, Lifecycle, TerminalStates
<1> QED BY <1>1, <1>2 DEF MarkJobLost, RecoveryPhase

LEMMA CleanupType ==
    ASSUME NEW r \in JobRecord
    PROVE  WithoutCleanupTerminal(r) \in JobRecord
BY AbsentType DEF WithoutCleanupTerminal

LEMMA EndedType ==
    ASSUME NEW r \in JobRecord, NEW st \in Lifecycle
    PROVE  Ended(r, st) \in JobRecord
BY DEF Ended, JobRecord

LEMMA UpdatedType ==
    ASSUME NEW r \in JobRecord, NEW rep \in Report, NEW seq \in Nat
    PROVE  Updated(r, rep, seq) \in JobRecord
<1>1. "failed" \in Lifecycle
  BY DEF Lifecycle, TerminalStates
<1>2. LostExecutionState(r) \in ExecutionState
  BY DEF LostExecutionState, ExecutionState
<1>3. [Ended(r, "failed") EXCEPT !.ces = LostExecutionState(r), !.seq = seq] \in JobRecord
  BY <1>1, <1>2, EndedType DEF JobRecord
<1>4. ASSUME NEW st \in Lifecycle, NEW started \in BOOLEAN, NEW p \in RecoveryPhase,
             NEW age \in Nat, NEW ces \in ExecutionState
      PROVE  [r EXCEPT !.lc = st, !.started = started, !.seq = seq, !.phase = p,
                       !.age = age, !.ces = ces] \in JobRecord
  BY DEF JobRecord
<1>5. rep.st \in Lifecycle /\ rep.ces \in ExecutionState
  BY DEF Report, Lifecycle, ActiveStates
<1>6. r.phase \in RecoveryPhase /\ r.age \in Nat /\ r.ces \in ExecutionState
  BY DEF JobRecord
<1>7. "reconciled" \in RecoveryPhase
  BY DEF RecoveryPhase
<1> QED BY <1>3, <1>4, <1>5, <1>6, <1>7 DEF Updated

LEMMA SnapshotType ==
    ASSUME NEW r \in JobRecord, NEW i \in Instances, NEW rep \in Report, NEW seq \in Nat
    PROVE  FromSnapshot(r, i, [rep |-> rep, seq |-> seq]) \in JobRecord
<1>1. ASSUME NEW st \in Lifecycle, NEW started \in BOOLEAN, NEW ces \in ExecutionState
      PROVE  [r EXCEPT !.lc = st, !.inst = i, !.started = started, !.seq = seq,
                       !.phase = "reconciled", !.age = 0, !.ces = ces] \in JobRecord
  BY DEF JobRecord, RecoveryPhase
<1>2. rep.st \in Lifecycle /\ rep.ces \in ExecutionState /\ rep.started \in BOOLEAN
  BY DEF Report, Lifecycle, ActiveStates
<1> QED BY <1>1, <1>2 DEF FromSnapshot

LEMMA AgedType ==
    ASSUME NEW r \in JobRecord
    PROVE  Aged(r) \in JobRecord
<1>1. ASSUME NEW n \in Nat PROVE [r EXCEPT !.age = n] \in JobRecord
  BY DEF JobRecord
<1>2. r.age \in Nat
  BY DEF JobRecord
<1>3. MinOf(r.age + 1, Grace) \in Nat /\ MinOf(r.age + 1, Retention) \in Nat
  BY <1>2, ConstantsAssumption DEF MinOf, ConstantsAssumption
<1> QED BY <1>1, <1>3 DEF Aged

(* What a read does to a record (refresh_job_status_locked). *)
LEMMA RefreshCases ==
    ASSUME NEW r
    PROVE  /\ Refreshed(r) \in {r, BeginJobRecovery(r), MarkJobLost(r, TRUE), MarkJobLost(r, FALSE)}
           /\ ~ IsRunnerActive(r.lc) => Refreshed(r) = r
           /\ RecoveryActive(r) => Refreshed(r) \in {r, MarkJobLost(r, TRUE)}
<1>1. CASE ~ IsRunnerActive(r.lc)
  BY <1>1 DEF Refreshed, RecoveryActive, RecoveryExpired
<1>2. CASE IsRunnerActive(r.lc) /\ RecoveryExpired(r)
  BY <1>2 DEF Refreshed, RecoveryActive, RecoveryExpired
<1>3. CASE IsRunnerActive(r.lc) /\ RecoveryActive(r) /\ ~ RecoveryExpired(r)
  BY <1>3 DEF Refreshed, RecoveryActive, RecoveryExpired
<1>4. CASE IsRunnerActive(r.lc) /\ ~ RecoveryActive(r)
  BY <1>4 DEF Refreshed, RecoveryActive, RecoveryExpired
<1> QED BY <1>1, <1>2, <1>3, <1>4

(***************************************************************************)
(* What the transitions of a record keep.                                  *)
(***************************************************************************)
LEMMA RecoveryFacts ==
    ASSUME NEW r \in JobRecord
    PROVE  LET s == BeginJobRecovery(r)
           IN  /\ s.lc = r.lc /\ s.inst = r.inst /\ s.seq = r.seq /\ s.vis = r.vis
               /\ s.started = r.started /\ s.ces = r.ces
               /\ IsTerminal(r.lc) => s = r
               /\ RecoveryActive(r) => s.age = r.age
BY DEF BeginJobRecovery, JobRecord, RecoveryActive

LEMMA LostFacts ==
    ASSUME NEW r \in JobRecord, NEW b \in BOOLEAN
    PROVE  LET s == MarkJobLost(r, b)
           IN  /\ s.lc = IF IsActive(r.lc) THEN "lost" ELSE r.lc
               /\ s.inst = r.inst /\ s.seq = r.seq /\ s.vis = r.vis
               /\ s.started = r.started
               /\ ~ IsActive(r.lc) => s = r
               /\ IsActive(r.lc) => s.ces = LostExecutionState(r)
<1>1. CASE IsTerminal(r.lc) \/ ~ Present(r)
  BY <1>1 DEF MarkJobLost, IsActive, IsTerminal, Present, TerminalStates, ActiveStates,
              RunnerActiveStates
<1>2. CASE ~ IsTerminal(r.lc) /\ Present(r)
  <2>1. IsActive(r.lc)
    BY <1>2 DEF JobRecord, Lifecycle, IsTerminal, IsActive, Present
  <2>2. MarkJobLost(r, b) = [r EXCEPT !.lc = "lost", !.age = 0, !.ces = LostExecutionState(r),
                      !.phase = IF b THEN "lost_after_reconcile" ELSE "none"]
    BY <1>2 DEF MarkJobLost
  <2> QED BY <2>1, <2>2 DEF JobRecord
<1> QED BY <1>1, <1>2

LEMMA StatesDisjoint ==
    ASSUME NEW st
    PROVE  /\ IsTerminal(st) => ~ IsActive(st) /\ st # "absent"
           /\ IsRunnerActive(st) => IsActive(st) /\ st \notin {"queued", "absent"}
           /\ IsActive("queued") /\ IsTerminal("lost") /\ ~ IsActive("absent")
BY DEF IsTerminal, IsActive, IsRunnerActive, TerminalStates, ActiveStates, RunnerActiveStates

LEMMA RefreshFacts ==
    ASSUME NEW r \in JobRecord
    PROVE  LET s == Refreshed(r)
           IN  /\ s.lc = r.lc \/ (IsRunnerActive(r.lc) /\ s.lc = "lost")
               /\ s.inst = r.inst /\ s.seq = r.seq /\ s.vis = r.vis
               /\ s.started = r.started
               /\ ~ IsRunnerActive(r.lc) => s = r
               /\ RecoveryActive(r) /\ RecoveryActive(s) => s.age = r.age
<1>1. CASE ~ IsRunnerActive(r.lc)
  BY <1>1, RefreshCases
<1>2. CASE IsRunnerActive(r.lc) /\ RecoveryActive(r)
  <2>1. Refreshed(r) \in {r, MarkJobLost(r, TRUE)}
    BY <1>2, RefreshCases
  <2> QED BY <1>2, <2>1, LostFacts, StatesDisjoint DEF RecoveryActive
<1>3. CASE IsRunnerActive(r.lc) /\ ~ RecoveryActive(r)
  <2>1. CASE Refreshed(r) = r
    BY <1>3, <2>1
  <2>2. CASE Refreshed(r) = BeginJobRecovery(r)
    BY <1>3, <2>2, RecoveryFacts
  <2>3. CASE Refreshed(r) = MarkJobLost(r, TRUE)
    BY <1>3, <2>3, LostFacts, StatesDisjoint
  <2>4. CASE Refreshed(r) = MarkJobLost(r, FALSE)
    BY <1>3, <2>4, LostFacts, StatesDisjoint
  <2> QED BY <2>1, <2>2, <2>3, <2>4, RefreshCases
<1> QED BY <1>1, <1>2, <1>3

LEMMA RefreshType ==
    ASSUME NEW r \in JobRecord
    PROVE  Refreshed(r) \in JobRecord
BY RefreshCases, RecoveryType, LostType
-----------------------------------------------------------------------------
(***************************************************************************)
(* Type correctness.                                                       *)
(***************************************************************************)
LEMMA RequestIds ==
    ASSUME NEW j \in Jobs
    PROVE  /\ Start(j) \in Request
           /\ \A k \in 1 .. MaxStops : Stop(j, k) \in Request
BY DEF Request

LEMMA RetireType ==
    ASSUME TypeOK, NEW R, Retire(R) \/ DropPending(R) \/ UNCHANGED requests
    PROVE  pending' \subseteq Request /\ dispatched' \subseteq Request /\ queue' \in [Request -> Nat]
BY DEF TypeOK, Retire, DropPending, requests

LEMMA EnqueueType ==
    ASSUME TypeOK, NEW r \in Request, Enqueue(r)
    PROVE  pending' \subseteq Request /\ dispatched' \subseteq Request /\ queue' \in [Request -> Nat]
BY DEF TypeOK, Enqueue

LEMMA StopLifecycle ==
    /\ {"queued", "stop_requested", "agent_queued", "failed", "stopped", "completed"} \subseteq Lifecycle
    /\ {"not_started"} \subseteq ExecutionState
    /\ {"public", "hidden_until_handoff", "cleanup_pending"} \subseteq Visibility
BY DEF Lifecycle, ActiveStates, RunnerActiveStates, TerminalStates, ExecutionState, Visibility

LEMMA FieldTypes ==
    ASSUME NEW r \in JobRecord
    PROVE  /\ \A st \in Lifecycle : [r EXCEPT !.lc = st] \in JobRecord
           /\ \A v \in Visibility : [r EXCEPT !.vis = v] \in JobRecord
           /\ \A e \in ExecutionState : [r EXCEPT !.ces = e] \in JobRecord
           /\ \A st \in Lifecycle, i \in Instances \cup {NoInstance}, v \in Visibility :
                 [r EXCEPT !.lc = st, !.inst = i, !.vis = v] \in JobRecord
BY DEF JobRecord

LEMMA StopStepType ==
    ASSUME TypeOK, NEW j \in Jobs, NEW r \in JobRecord, RequestStop(j, r)
    PROVE  /\ pending' \subseteq Request /\ dispatched' \subseteq Request
           /\ queue' \in [Request -> Nat]
           /\ stops' \in [Jobs -> 0 .. MaxStops]
           /\ jobs' \in [Jobs -> JobRecord]
<1>1. stops[j] + 1 \in 1 .. MaxStops
  BY ConstantsAssumption DEF TypeOK, RequestStop, ConstantsAssumption
<1>2. Stop(j, stops[j] + 1) \in Request
  BY <1>1, RequestIds
<1>3. pending' \subseteq Request /\ dispatched' \subseteq Request /\ queue' \in [Request -> Nat]
  BY <1>2, EnqueueType DEF RequestStop
<1>4. stops' \in [Jobs -> 0 .. MaxStops]
  BY <1>1, ConstantsAssumption DEF TypeOK, RequestStop, ConstantsAssumption
<1>5. jobs' \in [Jobs -> JobRecord]
  BY FieldTypes, StopLifecycle DEF TypeOK, RequestStop
<1> QED BY <1>3, <1>4, <1>5

LEMMA StartJobType ==
    ASSUME TypeOK, NEW j \in Jobs, StartJob(j)
    PROVE  TypeOK'
<1>1. pending' \subseteq Request /\ dispatched' \subseteq Request /\ queue' \in [Request -> Nat]
  BY EnqueueType, RequestIds DEF StartJob
<1>2. jobs' \in [Jobs -> JobRecord]
  BY AbsentType, FieldTypes, StopLifecycle DEF StartJob, TypeOK
<1> QED BY <1>1, <1>2 DEF TypeOK, StartJob, lease

LEMMA StopJobType ==
    ASSUME TypeOK, NEW j \in Jobs, StopJob(j)
    PROVE  TypeOK'
<1> DEFINE r == Refreshed(jobs[j])
<1>1. r \in JobRecord
  BY RefreshType DEF TypeOK
<1>2. CASE RequestStop(j, r)
  BY <1>1, <1>2, StopStepType DEF StopJob, TypeOK, lease
<1>3. CASE /\ Retire({Start(j)})
           /\ jobs' = [jobs EXCEPT ![j] = [Ended(r, "stopped") EXCEPT !.ces = "not_started"]]
           /\ stops' = stops
  <2>1. pending' \subseteq Request /\ dispatched' \subseteq Request /\ queue' \in [Request -> Nat]
    BY <1>3, RetireType
  <2>2. jobs' \in [Jobs -> JobRecord]
    BY <1>1, <1>3, EndedType, FieldTypes, StopLifecycle DEF TypeOK
  <2> QED BY <1>3, <2>1, <2>2 DEF TypeOK, StopJob, lease
<1> QED BY <1>2, <1>3 DEF StopJob

LEMMA CancelHiddenType ==
    ASSUME TypeOK, NEW j \in Jobs, CancelHiddenJob(j)
    PROVE  TypeOK'
<1> DEFINE r == Refreshed(jobs[j])
           private == [r EXCEPT !.vis = "cleanup_pending"]
<1>1. r \in JobRecord /\ private \in JobRecord
  BY RefreshType, FieldTypes, StopLifecycle DEF TypeOK
<1>2. intents' \subseteq Jobs
  BY DEF CancelHiddenJob, CancelQueued, TypeOK
<1>3. CASE RequestStop(j, private)
  BY <1>1, <1>2, <1>3, StopStepType DEF CancelHiddenJob, CancelQueued, TypeOK, lease
<1>4. CASE /\ stops' = stops
           /\ Retire({Start(j)}) \/ UNCHANGED requests
           /\ jobs' \in {[jobs EXCEPT ![j] = r], [jobs EXCEPT ![j] = Absent],
                         [jobs EXCEPT ![j] = private]}
  <2>1. pending' \subseteq Request /\ dispatched' \subseteq Request /\ queue' \in [Request -> Nat]
    BY <1>4, RetireType
  <2>2. jobs' \in [Jobs -> JobRecord]
    BY <1>1, <1>4, AbsentType DEF TypeOK
  <2> QED BY <1>2, <1>4, <2>1, <2>2 DEF TypeOK, CancelHiddenJob, lease
<1> HIDE DEF r, private
<1> QED BY <1>3, <1>4 DEF CancelHiddenJob, CancelQueued, r, private

LEMMA HandoffType ==
    ASSUME TypeOK, NEW j \in Jobs, NEW retain \in BOOLEAN,
           \/ RefreshJob(j) \/ PublishHiddenJob(j, retain)
           \/ RecordHiddenCleanupIntent(j) \/ RemoveProjectedHiddenJob(j)
    PROVE  TypeOK'
<1>1. Refreshed(jobs[j]) \in JobRecord
  BY RefreshType DEF TypeOK
<1>2. CASE RefreshJob(j)
  BY <1>1, <1>2 DEF RefreshJob, TypeOK, lease, requests, history
<1>3. CASE PublishHiddenJob(j, retain)
  <2>1. [Refreshed(jobs[j]) EXCEPT !.vis = "public"] \in JobRecord
    BY <1>1, FieldTypes, StopLifecycle
  <2> QED BY <1>1, <1>3, <2>1 DEF PublishHiddenJob, TypeOK, lease, requests, history
<1>4. CASE RecordHiddenCleanupIntent(j)
  BY <1>4 DEF RecordHiddenCleanupIntent, TypeOK, lease, requests, history
<1>5. CASE RemoveProjectedHiddenJob(j)
  <2>1. pending' \subseteq Request /\ dispatched' \subseteq Request /\ queue' \in [Request -> Nat]
    BY <1>5, RetireType DEF RemoveProjectedHiddenJob
  <2>2. suppress' \in [Jobs -> Nat]
    BY <1>5, ConstantsAssumption DEF RemoveProjectedHiddenJob, TypeOK, ConstantsAssumption
  <2> QED BY <1>5, <2>1, <2>2, AbsentType DEF RemoveProjectedHiddenJob, TypeOK, history
<1> QED BY <1>2, <1>3, <1>4, <1>5

LEMMA UnregisterType ==
    ASSUME TypeOK, BeginProjectUnregister \/ EndProjectUnregister
    PROVE  TypeOK'
<1>1. CASE BeginProjectUnregister
  <2>1. jobs' \in [Jobs -> JobRecord]
    BY <1>1, RefreshType DEF BeginProjectUnregister, TypeOK
  <2>2. fence' \in 0 .. MaxFence
    BY <1>1, ConstantsAssumption DEF BeginProjectUnregister, TypeOK, ConstantsAssumption
  <2> QED BY <1>1, <2>1, <2>2 DEF BeginProjectUnregister, TypeOK, lease, requests, history
<1>2. CASE EndProjectUnregister
  BY <1>2, ConstantsAssumption
     DEF EndProjectUnregister, TypeOK, lease, requests, history, ConstantsAssumption
<1> QED BY <1>1, <1>2

LEMMA TouchType ==
    ASSUME TypeOK, NEW i \in Instances, TouchRunner(i)
    PROVE  TypeOK'
<1>1. idle' \in Nat /\ UNCHANGED <<inst, retired, suppress>>
  BY DEF TouchRunner, Seen, TypeOK
<1> QED BY <1>1 DEF TouchRunner, TypeOK, requests, history

LEMMA RejectedType ==
    ASSUME NEW r \in JobRecord
    PROVE  RejectedRecord(r) \in JobRecord
BY EndedType, FieldTypes, StopLifecycle DEF RejectedRecord

LEMMA PollEmptyType ==
    ASSUME TypeOK, NEW i \in Instances, NEW stale \in SUBSET InputJobs, PollEmpty(i, stale)
    PROVE  TypeOK'
<1>1. idle' \in Nat /\ UNCHANGED <<inst, retired, suppress>>
  BY DEF PollEmpty, Seen, TypeOK
<1>2. jobs' \in [Jobs -> JobRecord]
  BY RejectedType DEF PollEmpty, TypeOK
<1>3. queue' \in [Request -> Nat] /\ pending' \subseteq Request /\ dispatched' \subseteq Request
  BY DEF PollEmpty, PopFromQueue, TypeOK
<1> QED BY <1>1, <1>2, <1>3 DEF PollEmpty, TypeOK, history

LEMMA PollType ==
    ASSUME TypeOK, NEW i \in Instances, NEW stale \in SUBSET InputJobs, NEW first \in Request,
           Poll(i, stale, first)
    PROVE  TypeOK'
<1>1. idle' \in Nat /\ UNCHANGED <<inst, retired, suppress>>
  BY DEF Poll, Seen, TypeOK
<1>2. jobs' \in [Jobs -> JobRecord]
  BY RejectedType, FieldTypes, StopLifecycle DEF Poll, TypeOK
<1>3. queue' \in [Request -> Nat] /\ pending' \subseteq Request /\ dispatched' \subseteq Request
  BY DEF Poll, PopFromQueue, TypeOK
<1>4. handed' \in [Jobs -> Instances \cup {NoInstance}]
  BY DEF Poll, TypeOK
<1> QED BY <1>1, <1>2, <1>3, <1>4 DEF Poll, TypeOK

LEMMA UpdateType ==
    ASSUME TypeOK, NEW i \in Instances, NEW j \in Jobs, NEW rep \in Reports,
           NEW seq \in 1 .. MaxSeq, NEW snapshot \in BOOLEAN, NEW live \in BOOLEAN,
           UpdateJob(i, j, rep, seq, snapshot, live)
    PROVE  TypeOK'
<1> DEFINE updated == Updated(jobs[j], rep, IF i \in ReconInstances THEN seq ELSE jobs[j].seq)
<1>1. (IF i \in ReconInstances THEN seq ELSE jobs[j].seq) \in Nat
  BY ConstantsAssumption DEF TypeOK, JobRecord, ConstantsAssumption
<1>2. updated \in JobRecord
  BY <1>1, UpdatedType, ConstantsAssumption DEF TypeOK, ConstantsAssumption
<1>3. jobs' \in [Jobs -> JobRecord]
  BY <1>2, CleanupType DEF UpdateJob, TypeOK
<1>4. pending' \subseteq Request /\ dispatched' \subseteq Request /\ queue' \in [Request -> Nat]
  <2>1. DropPending({Start(j)}) \/ UNCHANGED requests
    BY DEF UpdateJob
  <2> QED BY <2>1, RetireType
<1>5. idle' \in Nat /\ UNCHANGED <<inst, retired, suppress>>
  BY DEF UpdateJob, Seen, TypeOK
<1> QED BY <1>3, <1>4, <1>5 DEF UpdateJob, TypeOK, history

LEMMA CompleteType ==
    ASSUME TypeOK, NEW i \in Instances, NEW j \in Jobs, NEW success \in BOOLEAN,
           NEW live \in BOOLEAN, CompleteJob(i, j, success, live)
    PROVE  TypeOK'
<1>1. jobs' \in [Jobs -> JobRecord]
  BY EndedType, StopLifecycle DEF CompleteJob, TypeOK
<1>2. pending' \subseteq Request /\ dispatched' \subseteq Request /\ queue' \in [Request -> Nat]
  BY RetireType DEF CompleteJob
<1>3. idle' \in Nat /\ UNCHANGED <<inst, retired, suppress>>
  BY DEF CompleteJob, Seen, TypeOK
<1> QED BY <1>1, <1>2, <1>3 DEF CompleteJob, TypeOK, history

LEMMA DisconnectType ==
    ASSUME TypeOK, Disconnect
    PROVE  TypeOK'
<1>1. jobs' \in [Jobs -> JobRecord]
  BY RecoveryType, LostType DEF Disconnect, TypeOK
<1>2. pending' \subseteq Request /\ dispatched' \subseteq Request /\ queue' \in [Request -> Nat]
  BY RetireType DEF Disconnect
<1>3. idle' \in Nat
  BY ConstantsAssumption DEF Disconnect, ConstantsAssumption
<1> QED BY <1>1, <1>2, <1>3 DEF Disconnect, TypeOK, history

LEMMA MissingAndReconciled ==
    ASSUME TypeOK, NEW i \in Instances, NEW inv \in Inventories(i), NEW j \in Jobs,
           NEW r \in JobRecord
    PROVE  Reconciled(j, r, i, inv) \in JobRecord
<1>1. CASE j \in DOMAIN inv
  <2>1. inv[j] \in [rep : Reports, seq : 1 .. MaxSeq]
    BY <1>1 DEF Inventories
  <2>2. PICK rep \in Report, seq \in Nat : inv[j] = [rep |-> rep, seq |-> seq]
    BY <2>1, ConstantsAssumption DEF ConstantsAssumption
  <2>3. FromSnapshot(r, i, inv[j]) \in JobRecord /\ FromSnapshot(Absent, i, inv[j]) \in JobRecord
    BY <2>2, SnapshotType, AbsentType
  <2> QED BY <1>1, <2>3 DEF Reconciled
<1>2. CASE j \notin DOMAIN inv
  BY <1>2, LostType DEF Reconciled
<1> QED BY <1>1, <1>2

LEMMA TombstoneType ==
    ASSUME TypeOK, NEW i \in Instances
    PROVE  Tombstones(i) \in Seq(Instances)
<1>1. CASE inst \in {i, NoInstance}
  BY <1>1 DEF Tombstones, TypeOK
<1>2. CASE inst \notin {i, NoInstance}
  <2>1. inst \in Instances /\ retired \in Seq(Instances)
    BY <1>2 DEF TypeOK
  <2>2. ASSUME NEW s \in Seq(Instances), NEW x \in Instances
        PROVE  Append(s, x) \in Seq(Instances) /\ Tail(Append(s, x)) \in Seq(Instances)
    <3>1. Append(s, x) \in Seq(Instances) /\ Append(s, x) # << >>
      BY AppendProperties
    <3> QED BY <3>1, HeadTailProperties
  <2> QED BY <1>2, <2>1, <2>2 DEF Tombstones
<1> QED BY <1>1, <1>2

LEMMA RegisterType ==
    ASSUME TypeOK, NEW i \in Instances, NEW inv \in Inventories(i), NEW expired \in SUBSET Jobs,
           Register(i, inv, expired)
    PROVE  TypeOK'
<1> DEFINE lost == [j \in Jobs |-> IF j \in ReplacedJobs(i, inv) THEN MarkJobLost(jobs[j], TRUE)
                                   ELSE jobs[j]]
           kept == [j \in Jobs |-> IF inst \in {i, NoInstance} THEN lost[j]
                                   ELSE WithoutCleanupTerminal(lost[j])]
           aged == [j \in Jobs |-> IF j \in expired THEN MarkJobLost(kept[j], TRUE) ELSE kept[j]]
           swept == [j \in Jobs |-> IF expired = {} THEN aged[j]
                                    ELSE WithoutCleanupTerminal(aged[j])]
<1>1. lost \in [Jobs -> JobRecord]
  BY LostType DEF TypeOK
<1>2. kept \in [Jobs -> JobRecord]
  <2> HIDE DEF lost
  <2> QED BY <1>1, CleanupType
<1>3. aged \in [Jobs -> JobRecord]
  <2> HIDE DEF kept
  <2> QED BY <1>2, LostType
<1>4. swept \in [Jobs -> JobRecord]
  <2> HIDE DEF aged
  <2> QED BY <1>3, CleanupType
<1>5. jobs' = [j \in Jobs |->
                 IF i \in ReconInstances
                 THEN WithoutCleanupTerminal(Reconciled(j, swept[j], i, inv)) ELSE kept[j]]
  BY DEF Register
<1>6. jobs' \in [Jobs -> JobRecord]
  <2> HIDE DEF kept, swept
  <2>1. \A j \in Jobs : WithoutCleanupTerminal(Reconciled(j, swept[j], i, inv)) \in JobRecord
    BY <1>4, MissingAndReconciled, CleanupType
  <2> QED BY <1>2, <1>5, <2>1
<1>7. retired' \in Seq(Instances)
  BY TombstoneType DEF Register
<1>8. pending' \subseteq Request /\ dispatched' \subseteq Request /\ queue' \in [Request -> Nat]
  <2>1. \E R : Retire(R)
    BY DEF Register
  <2> QED BY <2>1, RetireType
<1>9. suppress' \in [Jobs -> Nat] /\ idle' \in Nat /\ inst' \in Instances
  BY DEF Register, TypeOK
<1> QED BY <1>6, <1>7, <1>8, <1>9 DEF Register, TypeOK, history

LEMMA SweepType ==
    ASSUME TypeOK, NEW expired \in SUBSET Jobs, NEW pruned \in SUBSET Jobs,
           RecoveryTimeoutSweep(expired, pruned)
    PROVE  TypeOK'
<1>1. \A j \in Jobs : MarkJobLost(jobs[j], TRUE) \in JobRecord
  BY LostType DEF TypeOK
<1>2. \A j \in Jobs : WithoutCleanupTerminal(MarkJobLost(jobs[j], TRUE)) \in JobRecord
                      /\ WithoutCleanupTerminal(jobs[j]) \in JobRecord
  BY <1>1, CleanupType DEF TypeOK
<1>3. jobs' \in [Jobs -> JobRecord]
  BY <1>1, <1>2, AbsentType DEF RecoveryTimeoutSweep, TypeOK
<1>4. pending' \subseteq Request /\ dispatched' \subseteq Request /\ queue' \in [Request -> Nat]
  BY RetireType DEF RecoveryTimeoutSweep
<1> QED BY <1>3, <1>4 DEF RecoveryTimeoutSweep, TypeOK, lease, history

LEMMA TickType ==
    ASSUME TypeOK, Tick \/ Restart
    PROVE  TypeOK'
<1>1. CASE Tick
  <2>1. jobs' \in [Jobs -> JobRecord]
    BY <1>1, AgedType DEF Tick, TypeOK
  <2>2. idle' \in Nat
    BY <1>1, ConstantsAssumption DEF Tick, TypeOK, MinOf, ConstantsAssumption
  <2>3. suppress' \in [Jobs -> Nat]
    BY <1>1 DEF Tick, TypeOK
  <2> QED BY <1>1, <2>1, <2>2, <2>3 DEF Tick, TypeOK, requests, history
<1>2. CASE Restart
  <2>1. fence' \in 0 .. MaxFence
    BY <1>2, ConstantsAssumption DEF Restart, ConstantsAssumption
  <2>2. retired' \in Seq(Instances) /\ queue' \in [Request -> Nat]
    BY <1>2 DEF Restart
  <2> QED BY <1>2, <2>1, <2>2, AbsentType DEF Restart, TypeOK, history
<1> QED BY <1>1, <1>2

LEMMA InitType == Init => TypeOK
BY AbsentType, ConstantsAssumption DEF Init, TypeOK, ConstantsAssumption

LEMMA TypeStep == TypeOK /\ [Next]_vars => TypeOK'
<1> SUFFICES ASSUME TypeOK, [Next]_vars PROVE TypeOK'
  OBVIOUS
<1>1. CASE \E j \in Jobs : StartJob(j)
  BY <1>1, StartJobType
<1>2. CASE \E j \in Jobs : StopJob(j)
  BY <1>2, StopJobType
<1>3. CASE \E j \in Jobs : CancelHiddenJob(j)
  BY <1>3, CancelHiddenType
<1>4. CASE \/ \E j \in Jobs : RefreshJob(j)
           \/ \E j \in Jobs, retain \in BOOLEAN : PublishHiddenJob(j, retain)
           \/ \E j \in Jobs : RecordHiddenCleanupIntent(j)
           \/ \E j \in Jobs : RemoveProjectedHiddenJob(j)
  BY <1>4, HandoffType
<1>5. CASE BeginProjectUnregister \/ EndProjectUnregister
  BY <1>5, UnregisterType
<1>6. CASE \/ \E i \in Instances : TouchRunner(i)
           \/ \E i \in Instances, stale \in SUBSET InputJobs :
                 PollEmpty(i, stale) \/ \E first \in Request : Poll(i, stale, first)
  BY <1>6, TouchType, PollEmptyType, PollType
<1>7. CASE \E i \in Instances, j \in Jobs, rep \in Reports, seq \in 1 .. MaxSeq,
              snapshot \in BOOLEAN, live \in BOOLEAN : UpdateJob(i, j, rep, seq, snapshot, live)
  BY <1>7, UpdateType
<1>8. CASE \E i \in Instances, j \in Jobs, success \in BOOLEAN, live \in BOOLEAN :
              CompleteJob(i, j, success, live)
  BY <1>8, CompleteType
<1>9. CASE Disconnect
  BY <1>9, DisconnectType
<1>10. CASE \E i \in Instances, expired \in SUBSET Jobs : \E inv \in Inventories(i) :
              Register(i, inv, expired)
  BY <1>10, RegisterType
<1>11. CASE \E expired \in SUBSET Jobs, pruned \in SUBSET Jobs : RecoveryTimeoutSweep(expired, pruned)
  BY <1>11, SweepType
<1>12. CASE Tick \/ Restart
  BY <1>12, TickType
<1>13. CASE vars' = vars
  BY <1>13 DEF vars, lease, requests, history, TypeOK
<1> QED BY <1>1, <1>2, <1>3, <1>4, <1>5, <1>6, <1>7, <1>8, <1>9, <1>10, <1>11, <1>12, <1>13
         DEF Next

(* Every variable of the registry keeps its type. *)
THEOREM TypeCorrect == Spec => []TypeOK
  BY InitType, TypeStep, PTL DEF Spec
=============================================================================
