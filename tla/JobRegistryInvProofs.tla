-------------------------- MODULE JobRegistryInvProofs --------------------------
(***************************************************************************)
(* The inductive invariant RegistryInv of JobRegistry and the safety       *)
(* properties that follow from it, for every value of the constants.       *)
(*                                                                         *)
(* RegistryInv splits into a part about the request queue, which the       *)
(* queue operations keep whatever handler calls them, and a part about     *)
(* single records (GoodRecord), which the record transitions keep.  A      *)
(* handler then only has to say which records stop being queued, and that  *)
(* it retires the start of exactly those.                                  *)
(***************************************************************************)
EXTENDS JobRegistryProofs

(* What RegistryInv says of one record, when the process l holds the lease. *)
GoodRecord(r, l) ==
    /\ r.lc # "started"
    /\ r.lc = "queued" => r.phase = "none" /\ ~ r.started
    /\ ~ IsTerminal(r.lc) => r.ces = "none"
    /\ RecoveryActive(r) => r.age <= Grace
    /\ r.ces = "not_started" => ~ r.started
    /\ IsActive(r.lc) => l # NoInstance /\ r.inst = l

(* What RegistryInv says of the records and the job ids. *)
RecordsInv ==
    /\ \A j \in Jobs : GoodRecord(jobs[j], inst)
    /\ \A j \in Jobs : jobs[j].lc = "queued" => handed[j] = NoInstance
    /\ \A j \in Jobs \ allocated : jobs[j].lc = "absent" /\ handed[j] = NoInstance

(* What RegistryInv says of the requests. *)
RequestsInv ==
    /\ QueueIsDispatchable
    /\ QueuePlaces
    /\ \A j \in Jobs \ allocated : Start(j) \notin pending
    /\ \A j \in Jobs, k \in 1 .. MaxStops : Stop(j, k) \in pending => k <= stops[j]

LEMMA InvParts ==
    RegistryInv <=> TypeOK /\ RetiredNeverHoldsLease /\ RecordsInv /\ RequestsInv
BY DEF RegistryInv, RecordsInv, RequestsInv, GoodRecord, LeaseOwnsActiveJobs,
       NotStartedWasNotSeenToStart, RecordsConsistent, FreshIds
-----------------------------------------------------------------------------
(***************************************************************************)
(* The queue operations keep RequestsInv.                                  *)
(***************************************************************************)
LEMMA RequestsDistinct ==
    ASSUME NEW j \in Jobs, NEW m \in Jobs, NEW k
    PROVE  /\ Start(j) = Start(m) => j = m
           /\ Start(j) # Stop(m, k)
           /\ Start(j).op = "start" /\ Start(j).job = j
           /\ Stop(j, k).op = "stop" /\ Stop(j, k).job = j /\ Stop(j, k).n = k
BY DEF Start, Stop

LEMMA RetireKeepsQueue ==
    ASSUME TypeOK, RequestsInv, NEW R, Retire(R),
           \A j \in Jobs : jobs'[j].lc = "queued" <=> jobs[j].lc = "queued" /\ Start(j) \notin R,
           UNCHANGED <<stops, allocated>>
    PROVE  RequestsInv'
<1>1. dispatched' \subseteq pending'
  BY DEF RequestsInv, QueueIsDispatchable, Retire
<1>2. Queued' = Queued \ R
  BY DEF Queued, Retire, TypeOK
<1>3. Queued' = pending' \ dispatched'
  BY <1>2 DEF RequestsInv, QueueIsDispatchable, Retire
<1>4. \A j \in Jobs : Start(j) \in Queued' <=> jobs'[j].lc = "queued"
  BY <1>2 DEF RequestsInv, QueueIsDispatchable
<1>5. QueuePlaces'
  BY DEF RequestsInv, QueuePlaces, Retire, TypeOK
<1> QED BY <1>1, <1>3, <1>4, <1>5 DEF RequestsInv, QueueIsDispatchable, Retire

LEMMA SameQueue ==
    ASSUME RequestsInv, UNCHANGED requests, UNCHANGED <<stops, allocated>>,
           \A j \in Jobs : jobs'[j].lc = "queued" <=> jobs[j].lc = "queued"
    PROVE  RequestsInv'
BY DEF RequestsInv, QueueIsDispatchable, QueuePlaces, Queued, requests

LEMMA DropKeepsQueue ==
    ASSUME TypeOK, RequestsInv, NEW m \in Jobs, DropPending({Start(m)}), jobs[m].lc # "queued",
           \A j \in Jobs : jobs'[j].lc = "queued" <=> jobs[j].lc = "queued",
           UNCHANGED <<stops, allocated>>
    PROVE  RequestsInv'
<1>1. Queued' = Queued
  BY DEF Queued, DropPending
<1>2. Start(m) \notin Queued
  BY DEF RequestsInv, QueueIsDispatchable
<1>3. dispatched' \subseteq pending' /\ Queued' = pending' \ dispatched'
  BY <1>1, <1>2 DEF RequestsInv, QueueIsDispatchable, DropPending
<1>4. \A j \in Jobs : Start(j) \in Queued' <=> jobs'[j].lc = "queued"
  BY <1>1 DEF RequestsInv, QueueIsDispatchable
<1>5. QueuePlaces'
  BY DEF RequestsInv, QueuePlaces, DropPending
<1> QED BY <1>3, <1>4, <1>5 DEF RequestsInv, QueueIsDispatchable, DropPending

LEMMA EnqueueKeepsQueue ==
    ASSUME TypeOK, RequestsInv, NEW r \in Request, Enqueue(r), r \notin pending,
           \A j \in Jobs : jobs'[j].lc = "queued" <=> jobs[j].lc = "queued" \/ r = Start(j),
           allocated \subseteq allocated',
           \A j \in Jobs : r = Start(j) => j \in allocated',
           \A j \in Jobs : stops[j] <= stops'[j],
           \A j \in Jobs, k \in 1 .. MaxStops : r = Stop(j, k) => k <= stops'[j],
           stops' \in [Jobs -> 0 .. MaxStops]
    PROVE  RequestsInv'
<1>1. Queued' = Queued \cup {r}
  BY DEF Queued, Enqueue, TypeOK
<1>2. dispatched' \subseteq pending' /\ Queued' = pending' \ dispatched'
  BY <1>1 DEF RequestsInv, QueueIsDispatchable, Enqueue
<1>3. \A j \in Jobs : Start(j) \in Queued' <=> jobs'[j].lc = "queued"
  BY <1>1 DEF RequestsInv, QueueIsDispatchable
<1>4. QueuePlaces'
  <2>1. SUFFICES ASSUME NEW p \in Request, NEW q \in Request, p # q, queue'[p] > 0
                 PROVE  queue'[p] # queue'[q]
    BY DEF QueuePlaces
  <2>2. queue[p] \in Nat /\ queue[q] \in Nat
    BY DEF TypeOK
  <2>3. queue[p] > 0 => queue[p] # queue[q]
    BY <2>1 DEF RequestsInv, QueuePlaces
  <2>4. \A t \in Request : queue'[t] = IF t = r THEN 1 ELSE IF queue[t] > 0 THEN queue[t] + 1 ELSE 0
    BY DEF Enqueue
  <2>5. CASE p = r
    <3>1. queue'[p] = 1 /\ ((queue'[q] = queue[q] + 1 /\ queue[q] > 0) \/ queue'[q] = 0)
      BY <2>1, <2>4, <2>5
    <3> QED BY <2>2, <3>1
  <2>6. CASE p # r
    <3>1. queue'[p] = queue[p] + 1 /\ queue[p] > 0
      BY <2>1, <2>4, <2>6
    <3>2. queue'[q] \in {0, 1} \/ queue'[q] = queue[q] + 1
      BY <2>4
    <3> QED BY <2>2, <2>3, <3>1, <3>2
  <2> QED BY <2>5, <2>6
<1>5. \A j \in Jobs \ allocated' : Start(j) \notin pending'
  BY DEF RequestsInv, Enqueue
<1>6. ASSUME NEW j \in Jobs, NEW k \in 1 .. MaxStops, Stop(j, k) \in pending'
      PROVE  k <= stops'[j]
  <2>1. CASE Stop(j, k) \in pending
    <3>1. k <= stops[j] /\ stops[j] <= stops'[j]
      BY <2>1 DEF RequestsInv
    <3>2. stops[j] \in Int /\ stops'[j] \in Int /\ k \in Int
      BY DEF TypeOK
    <3> QED BY <3>1, <3>2
  <2>2. CASE Stop(j, k) = r
    BY <2>2
  <2> QED BY <1>6, <2>1, <2>2 DEF Enqueue
<1> QED BY <1>2, <1>3, <1>4, <1>5, <1>6 DEF RequestsInv, QueueIsDispatchable
-----------------------------------------------------------------------------
(***************************************************************************)
(* The record transitions keep GoodRecord.                                 *)
(***************************************************************************)
LEMMA GoodAbsent ==
    ASSUME NEW l
    PROVE  GoodRecord(Absent, l)
BY DEF GoodRecord, Absent, IsTerminal, IsActive, RecoveryActive, IsRunnerActive, TerminalStates,
       ActiveStates, RunnerActiveStates

(* A terminal record is good whoever holds the lease. *)
LEMMA GoodTerminal ==
    ASSUME NEW r \in JobRecord, NEW l, IsTerminal(r.lc), r.ces = "not_started" => ~ r.started
    PROVE  GoodRecord(r, l)
<1>1. ~ IsActive(r.lc) /\ ~ IsRunnerActive(r.lc) /\ r.lc \notin {"queued", "started"}
  BY DEF IsTerminal, IsActive, IsRunnerActive, TerminalStates, ActiveStates, RunnerActiveStates
<1> QED BY <1>1 DEF GoodRecord, RecoveryActive

LEMMA GoodRecovery ==
    ASSUME NEW r \in JobRecord, NEW l, GoodRecord(r, l)
    PROVE  GoodRecord(BeginJobRecovery(r), l)
<1>1. CASE IsTerminal(r.lc) \/ r.lc \in {"queued", "absent"}
  BY <1>1 DEF BeginJobRecovery
<1>2. CASE ~ (IsTerminal(r.lc) \/ r.lc \in {"queued", "absent"})
  <2> DEFINE s == BeginJobRecovery(r)
  <2>1. /\ s.lc = r.lc /\ s.inst = r.inst /\ s.ces = r.ces /\ s.started = r.started
        /\ s.age = IF r.phase = "recovering" THEN r.age ELSE 0
    BY <1>2 DEF BeginJobRecovery, JobRecord
  <2>2. r.phase = "recovering" => RecoveryActive(r)
    BY <1>2 DEF GoodRecord, RecoveryActive, JobRecord, Lifecycle, ActiveStates, IsTerminal,
                IsRunnerActive
  <2>3. s.age <= Grace
    BY <2>1, <2>2, ConstantsAssumption DEF GoodRecord, ConstantsAssumption
  <2> HIDE DEF s
  <2>4. GoodRecord(s, l)
    BY <1>2, <2>1, <2>3 DEF GoodRecord
  <2> QED BY <2>4 DEF s
<1> QED BY <1>1, <1>2

LEMMA GoodLost ==
    ASSUME NEW r \in JobRecord, NEW l, NEW b \in BOOLEAN,
           r.ces = "not_started" => ~ r.started,
           ~ IsActive(r.lc) => GoodRecord(r, l)
    PROVE  GoodRecord(MarkJobLost(r, b), l)
<1>1. CASE ~ IsActive(r.lc)
  BY <1>1, LostFacts
<1>2. CASE IsActive(r.lc)
  <2>1. MarkJobLost(r, b).lc = "lost" /\ MarkJobLost(r, b).started = r.started
        /\ MarkJobLost(r, b).ces = LostExecutionState(r)
    BY <1>2, LostFacts
  <2>2. LostExecutionState(r) = "not_started" => ~ r.started
    BY DEF LostExecutionState
  <2> QED BY <2>1, <2>2, GoodTerminal, LostType, StatesDisjoint
<1> QED BY <1>1, <1>2

LEMMA GoodRefreshed ==
    ASSUME NEW r \in JobRecord, NEW l, GoodRecord(r, l)
    PROVE  GoodRecord(Refreshed(r), l)
<1>1. r.ces = "not_started" => ~ r.started
  BY DEF GoodRecord
<1> QED BY <1>1, RefreshCases, GoodRecovery, GoodLost

LEMMA GoodCleanup ==
    ASSUME NEW r, NEW l, GoodRecord(r, l)
    PROVE  GoodRecord(WithoutCleanupTerminal(r), l)
BY GoodAbsent DEF WithoutCleanupTerminal

-----------------------------------------------------------------------------
(***************************************************************************)
(* Steps that change records without admitting a job.                      *)
(***************************************************************************)
LEMMA RecordsFollow ==
    ASSUME RecordsInv, UNCHANGED <<inst, allocated, handed>>,
           \A j \in Jobs : /\ GoodRecord(jobs'[j], inst)
                           /\ jobs'[j].lc = "queued" => jobs[j].lc = "queued"
                           /\ jobs[j].lc = "absent" => jobs'[j].lc = "absent"
    PROVE  RecordsInv'
<1>1. \A j \in Jobs : GoodRecord(jobs'[j], inst')
  OBVIOUS
<1>2. (\A j \in Jobs : GoodRecord(jobs[j], inst))' <=> \A j \in Jobs : GoodRecord(jobs'[j], inst')
  BY DEF GoodRecord, RecoveryActive
<1>3. \A j \in Jobs : jobs'[j].lc = "queued" => handed'[j] = NoInstance
  BY DEF RecordsInv
<1>4. \A j \in Jobs \ allocated' : jobs'[j].lc = "absent" /\ handed'[j] = NoInstance
  BY DEF RecordsInv
<1> QED BY <1>1, <1>2, <1>3, <1>4 DEF RecordsInv

LEMMA RecordFollows ==
    ASSUME TypeOK, RecordsInv, UNCHANGED <<inst, allocated, handed>>,
           NEW m \in Jobs, NEW s, jobs' = [jobs EXCEPT ![m] = s],
           GoodRecord(s, inst),
           s.lc = "queued" => jobs[m].lc = "queued",
           jobs[m].lc = "absent" => s.lc = "absent"
    PROVE  RecordsInv' /\ jobs'[m] = s /\ \A j \in Jobs : j # m => jobs'[j] = jobs[j]
<1>1. jobs'[m] = s /\ \A j \in Jobs : j # m => jobs'[j] = jobs[j]
  BY DEF TypeOK
<1>2. \A j \in Jobs : /\ GoodRecord(jobs'[j], inst)
                      /\ jobs'[j].lc = "queued" => jobs[j].lc = "queued"
                      /\ jobs[j].lc = "absent" => jobs'[j].lc = "absent"
  BY <1>1 DEF RecordsInv
<1> QED BY <1>1, <1>2, RecordsFollow

(* The step keeps RegistryInv once it keeps the parts. *)
LEMMA LeaseKept ==
    ASSUME RetiredNeverHoldsLease, UNCHANGED <<inst, retired>>
    PROVE  RetiredNeverHoldsLease'
BY DEF RetiredNeverHoldsLease

(* What a handler that reads a job first knows of the refreshed record. *)
LEMMA RefreshedRecord ==
    ASSUME TypeOK, RecordsInv, NEW m \in Jobs
    PROVE  LET r == Refreshed(jobs[m])
           IN  /\ r \in JobRecord /\ GoodRecord(r, inst)
               /\ r.lc = "queued" <=> jobs[m].lc = "queued"
               /\ r.lc = "absent" <=> jobs[m].lc = "absent"
               /\ r.vis = jobs[m].vis
               /\ IsActive(r.lc) => IsActive(jobs[m].lc)
<1>1. jobs[m] \in JobRecord /\ GoodRecord(jobs[m], inst)
  BY DEF TypeOK, RecordsInv
<1>2. Refreshed(jobs[m]).lc = jobs[m].lc \/ (IsRunnerActive(jobs[m].lc) /\ Refreshed(jobs[m]).lc = "lost")
  BY <1>1, RefreshFacts
<1>3. Refreshed(jobs[m]).vis = jobs[m].vis
  BY <1>1, RefreshFacts
<1> QED BY <1>1, <1>2, <1>3, GoodRefreshed, RefreshType, StatesDisjoint

LEMMA RefreshJobInv ==
    ASSUME TypeOK, RecordsInv, RequestsInv, NEW m \in Jobs, RefreshJob(m)
    PROVE  RecordsInv' /\ RequestsInv'
<1>1. jobs' = [jobs EXCEPT ![m] = Refreshed(jobs[m])] /\ UNCHANGED <<inst, allocated, handed, stops>>
      /\ UNCHANGED requests
  BY DEF RefreshJob, lease, history
<1>2. RecordsInv' /\ jobs'[m] = Refreshed(jobs[m]) /\ \A j \in Jobs : j # m => jobs'[j] = jobs[j]
  BY <1>1, RefreshedRecord, RecordFollows
<1>3. RequestsInv'
  BY <1>1, <1>2, RefreshedRecord, SameQueue
<1> QED BY <1>2, <1>3

(* A job that ends before its start was handed out. *)
LEMMA NotStartedRecord ==
    ASSUME NEW r \in JobRecord, NEW l, GoodRecord(r, l), r.lc = "queued",
           NEW st \in {"stopped", "failed"}
    PROVE  LET s == [Ended(r, st) EXCEPT !.ces = "not_started"]
           IN  GoodRecord(s, l) /\ s.lc = st /\ s \in JobRecord
<1> DEFINE s == [Ended(r, st) EXCEPT !.ces = "not_started"]
<1>1. ~ r.started /\ r.started \in BOOLEAN
  BY DEF GoodRecord, JobRecord
<1>2. st \in Lifecycle /\ "not_started" \in ExecutionState /\ IsTerminal(st)
  BY DEF Lifecycle, TerminalStates, ExecutionState, IsTerminal
<1>3. Ended(r, st) \in JobRecord
  BY <1>2, EndedType
<1>4. Ended(r, st).started = r.started /\ Ended(r, st).lc = st
  BY DEF Ended, JobRecord
<1>5. s \in JobRecord /\ s.lc = st /\ s.started = r.started
  BY <1>2, <1>3, <1>4, FieldTypes DEF JobRecord
<1> HIDE DEF s
<1>6. GoodRecord(s, l)
  BY <1>1, <1>2, <1>5, GoodTerminal
<1> QED BY <1>5, <1>6 DEF s

(* A job that is asked to stop. *)
LEMMA StopRequestedRecord ==
    ASSUME NEW r \in JobRecord, NEW l, GoodRecord(r, l), r.lc \in {"agent_queued", "running"}
    PROVE  LET s == [r EXCEPT !.lc = "stop_requested"]
           IN  GoodRecord(s, l) /\ s.lc = "stop_requested"
<1> DEFINE s == [r EXCEPT !.lc = "stop_requested"]
<1>1. /\ s.lc = "stop_requested" /\ s.phase = r.phase /\ s.ces = r.ces /\ s.age = r.age
      /\ s.started = r.started /\ s.inst = r.inst
  BY DEF JobRecord
<1>2. ~ IsTerminal(r.lc) /\ IsActive(r.lc) /\ IsRunnerActive(r.lc) /\ ~ IsTerminal("stop_requested")
  BY DEF IsTerminal, IsActive, IsRunnerActive, TerminalStates, ActiveStates, RunnerActiveStates
<1>3. r.started \in BOOLEAN
  BY DEF JobRecord
<1> HIDE DEF s
<1>4. GoodRecord(s, l)
  BY <1>1, <1>2, <1>3 DEF GoodRecord, RecoveryActive
<1> QED BY <1>1, <1>4 DEF s

LEMMA RequestStopInv ==
    ASSUME TypeOK, RecordsInv, RequestsInv, NEW m \in Jobs, NEW r \in JobRecord,
           RequestStop(m, r), GoodRecord(r, inst), r.lc \in {"agent_queued", "running"},
           jobs[m].lc \notin {"queued", "absent"},
           UNCHANGED <<inst, allocated, handed>>
    PROVE  RecordsInv' /\ RequestsInv'
<1> DEFINE s == [r EXCEPT !.lc = "stop_requested"]
<1>1. GoodRecord(s, inst) /\ s.lc = "stop_requested"
  BY StopRequestedRecord
<1>2. jobs' = [jobs EXCEPT ![m] = s]
  BY DEF RequestStop
<1> HIDE DEF s
<1>3. RecordsInv' /\ jobs'[m] = s /\ \A j \in Jobs : j # m => jobs'[j] = jobs[j]
  BY <1>1, <1>2, RecordFollows
<1> DEFINE k == stops[m] + 1
<1>4. stops[m] \in Nat /\ k \in 1 .. MaxStops
  BY ConstantsAssumption DEF TypeOK, RequestStop, ConstantsAssumption
<1>5. stops' = [stops EXCEPT ![m] = k] /\ stops' \in [Jobs -> 0 .. MaxStops]
  BY <1>4, ConstantsAssumption DEF TypeOK, RequestStop, ConstantsAssumption
<1>6. \A j \in Jobs : stops[j] <= stops'[j]
  <2> TAKE j \in Jobs
  <2>1. stops[j] \in Int /\ stops'[j] = IF j = m THEN k ELSE stops[j]
    BY <1>5 DEF TypeOK
  <2> QED BY <1>4, <2>1
<1>7. Enqueue(Stop(m, k))
  BY DEF RequestStop
<1>8. Stop(m, k) \in Request
  BY <1>4, RequestIds
<1>9. Stop(m, k) \notin pending
  <2>1. Stop(m, k) \in pending => k <= stops[m]
    BY <1>4 DEF RequestsInv
  <2> QED BY <1>4, <2>1
<1>10. stops'[m] = k
  BY <1>5 DEF TypeOK
<1> HIDE DEF k
<1>11. \A j \in Jobs, n \in 1 .. MaxStops : Stop(m, k) = Stop(j, n) => n <= stops'[j]
  <2> SUFFICES ASSUME NEW j \in Jobs, NEW n \in 1 .. MaxStops, Stop(m, k) = Stop(j, n)
               PROVE  n <= stops'[j]
    OBVIOUS
  <2>1. m = j /\ k = n
    BY RequestsDistinct
  <2> QED BY <1>10, <2>1
<1>12. \A j \in Jobs : Stop(m, k) # Start(j)
  BY RequestsDistinct
<1>13. \A j \in Jobs : jobs'[j].lc = "queued" <=> jobs[j].lc = "queued" \/ Stop(m, k) = Start(j)
  BY <1>1, <1>3, <1>12
<1>14. RequestsInv'
  BY <1>5, <1>6, <1>7, <1>8, <1>9, <1>11, <1>12, <1>13, EnqueueKeepsQueue
<1> QED BY <1>3, <1>14

LEMMA StopJobInv ==
    ASSUME TypeOK, RecordsInv, RequestsInv, NEW m \in Jobs, StopJob(m)
    PROVE  RecordsInv' /\ RequestsInv'
<1> DEFINE r == Refreshed(jobs[m])
<1>1. /\ r \in JobRecord /\ GoodRecord(r, inst)
      /\ r.lc = "queued" <=> jobs[m].lc = "queued"
      /\ r.lc = "absent" <=> jobs[m].lc = "absent"
  BY RefreshedRecord
<1>2. UNCHANGED <<inst, allocated, handed>>
  BY DEF StopJob, lease
<1>3. CASE /\ r.lc = "queued" /\ Retire({Start(m)})
           /\ jobs' = [jobs EXCEPT ![m] = [Ended(r, "stopped") EXCEPT !.ces = "not_started"]]
           /\ stops' = stops
  <2> DEFINE s == [Ended(r, "stopped") EXCEPT !.ces = "not_started"]
  <2>1. GoodRecord(s, inst) /\ s.lc = "stopped"
    <3> HIDE DEF r
    <3> QED BY <1>1, <1>3, NotStartedRecord
  <2>2. jobs' = [jobs EXCEPT ![m] = s]
    BY <1>3
  <2> HIDE DEF s, r
  <2>3. RecordsInv' /\ jobs'[m] = s /\ \A j \in Jobs : j # m => jobs'[j] = jobs[j]
    BY <1>1, <1>2, <1>3, <2>1, <2>2, RecordFollows
  <2>4. \A j \in Jobs : jobs'[j].lc = "queued" <=> jobs[j].lc = "queued" /\ Start(j) \notin {Start(m)}
    BY <1>3, <2>1, <2>3, RequestsDistinct
  <2>5. RequestsInv'
    BY <1>2, <1>3, <2>4, RetireKeepsQueue
  <2> QED BY <2>3, <2>5
<1>4. CASE r.lc \in {"agent_queued", "running"} /\ RequestStop(m, r)
  <2> HIDE DEF r
  <2> QED BY <1>1, <1>2, <1>4, RequestStopInv
<1> QED BY <1>3, <1>4 DEF StopJob

LEMMA StartJobInv ==
    ASSUME TypeOK, RecordsInv, RequestsInv, NEW m \in Jobs, StartJob(m)
    PROVE  RecordsInv' /\ RequestsInv'
<1> DEFINE s == [Absent EXCEPT !.lc = "queued", !.inst = inst,
                               !.vis = IF m \in HiddenJobs THEN "hidden_until_handoff" ELSE "public"]
<1>1. /\ s.lc = "queued" /\ s.inst = inst /\ s.phase = "none" /\ s.ces = "none" /\ s.started = FALSE
  BY DEF Absent
<1>2. inst # NoInstance
  BY DEF StartJob, Enqueue, EnsureDispatchSupported, Online
<1>3. ~ IsTerminal("queued") /\ ~ IsRunnerActive("queued")
  BY DEF IsTerminal, IsRunnerActive, TerminalStates, RunnerActiveStates
<1>4. jobs' = [jobs EXCEPT ![m] = s]
  BY DEF StartJob
<1> HIDE DEF s
<1>5. GoodRecord(s, inst)
  BY <1>1, <1>2, <1>3 DEF GoodRecord, RecoveryActive
<1>6. jobs'[m] = s /\ \A j \in Jobs : j # m => jobs'[j] = jobs[j]
  BY <1>4 DEF TypeOK
<1>7. m \notin allocated /\ allocated' = allocated \cup {m} /\ UNCHANGED <<inst, handed, stops>>
  BY DEF StartJob, lease
<1>8. jobs[m].lc = "absent" /\ handed[m] = NoInstance
  BY <1>7 DEF RecordsInv
<1>9. \A j \in Jobs : GoodRecord(jobs'[j], inst')
  BY <1>5, <1>6, <1>7 DEF RecordsInv
<1>10. (\A j \in Jobs : GoodRecord(jobs[j], inst))' <=> \A j \in Jobs : GoodRecord(jobs'[j], inst')
  BY DEF GoodRecord, RecoveryActive
<1>11. \A j \in Jobs : jobs'[j].lc = "queued" => handed'[j] = NoInstance
  BY <1>6, <1>7, <1>8 DEF RecordsInv
<1>12. \A j \in Jobs \ allocated' : jobs'[j].lc = "absent" /\ handed'[j] = NoInstance
  BY <1>6, <1>7 DEF RecordsInv
<1>13. RecordsInv'
  BY <1>9, <1>10, <1>11, <1>12 DEF RecordsInv
<1>14. Start(m) \in Request /\ Start(m) \notin pending /\ Enqueue(Start(m))
  BY <1>7, RequestIds DEF RequestsInv, StartJob
<1>15. \A j \in Jobs : jobs'[j].lc = "queued" <=> jobs[j].lc = "queued" \/ Start(m) = Start(j)
  BY <1>1, <1>6, RequestsDistinct
<1>16. \A j \in Jobs : Start(m) = Start(j) => j \in allocated'
  BY <1>7, RequestsDistinct
<1>17. stops' \in [Jobs -> 0 .. MaxStops] /\ \A j \in Jobs : stops[j] <= stops'[j]
  BY <1>7, ConstantsAssumption DEF TypeOK, ConstantsAssumption
<1>18. \A j \in Jobs, k \in 1 .. MaxStops : Start(m) # Stop(j, k)
  BY RequestsDistinct
<1>19. RequestsInv'
  BY <1>7, <1>14, <1>15, <1>16, <1>17, <1>18, EnqueueKeepsQueue
<1> QED BY <1>13, <1>19

(* A change of visibility leaves a record good. *)
LEMMA VisibilityRecord ==
    ASSUME NEW r \in JobRecord, NEW l, GoodRecord(r, l), NEW v \in Visibility
    PROVE  LET s == [r EXCEPT !.vis = v]
           IN  GoodRecord(s, l) /\ s.lc = r.lc /\ s \in JobRecord
<1> DEFINE s == [r EXCEPT !.vis = v]
<1>1. /\ s.lc = r.lc /\ s.phase = r.phase /\ s.ces = r.ces /\ s.age = r.age
      /\ s.started = r.started /\ s.inst = r.inst /\ r.started \in BOOLEAN
  BY DEF JobRecord
<1>2. s \in JobRecord
  BY FieldTypes
<1> HIDE DEF s
<1>3. GoodRecord(s, l)
  BY <1>1 DEF GoodRecord, RecoveryActive
<1> QED BY <1>1, <1>2, <1>3 DEF s

LEMMA PublishInv ==
    ASSUME TypeOK, RecordsInv, RequestsInv, NEW m \in Jobs, NEW retain \in BOOLEAN,
           PublishHiddenJob(m, retain)
    PROVE  RecordsInv' /\ RequestsInv'
<1> DEFINE r == Refreshed(jobs[m])
           s == [r EXCEPT !.vis = "public"]
<1>1. /\ r \in JobRecord /\ GoodRecord(r, inst)
      /\ r.lc = "queued" <=> jobs[m].lc = "queued"
      /\ r.lc = "absent" <=> jobs[m].lc = "absent"
  BY RefreshedRecord
<1>2. jobs' = [jobs EXCEPT ![m] = r] \/ jobs' = [jobs EXCEPT ![m] = s]
  BY DEF PublishHiddenJob
<1>3. UNCHANGED <<inst, allocated, handed, stops>> /\ UNCHANGED requests
  BY DEF PublishHiddenJob, lease, history
<1>4. GoodRecord(s, inst) /\ s.lc = r.lc
  <2> HIDE DEF r
  <2> QED BY <1>1, VisibilityRecord DEF Visibility
<1> HIDE DEF r, s
<1>5. PICK t \in {r, s} : jobs' = [jobs EXCEPT ![m] = t]
  BY <1>2
<1>6. RecordsInv' /\ jobs'[m] = t /\ \A j \in Jobs : j # m => jobs'[j] = jobs[j]
  BY <1>1, <1>3, <1>4, <1>5, RecordFollows
<1>7. RequestsInv'
  BY <1>1, <1>3, <1>4, <1>6, SameQueue
<1> QED BY <1>6, <1>7

LEMMA CancelInv ==
    ASSUME TypeOK, RecordsInv, RequestsInv, NEW m \in Jobs, CancelHiddenJob(m)
    PROVE  RecordsInv' /\ RequestsInv'
<1> DEFINE r == Refreshed(jobs[m])
           private == [r EXCEPT !.vis = "cleanup_pending"]
<1>1. /\ r \in JobRecord /\ GoodRecord(r, inst)
      /\ r.lc = "queued" <=> jobs[m].lc = "queued"
      /\ r.lc = "absent" <=> jobs[m].lc = "absent"
  BY RefreshedRecord
<1>2. GoodRecord(private, inst) /\ private.lc = r.lc /\ private \in JobRecord
  <2> HIDE DEF r
  <2> QED BY <1>1, VisibilityRecord DEF Visibility
<1>3. UNCHANGED <<inst, allocated, handed>>
  BY DEF CancelHiddenJob, lease
<1>4. \/ jobs' = [jobs EXCEPT ![m] = r] /\ UNCHANGED <<requests, stops>>
      \/ r.lc = "queued" /\ Retire({Start(m)}) /\ jobs' = [jobs EXCEPT ![m] = Absent] /\ stops' = stops
      \/ IsTerminal(r.lc) /\ jobs' = [jobs EXCEPT ![m] = Absent] /\ UNCHANGED <<requests, stops>>
      \/ jobs' = [jobs EXCEPT ![m] = private] /\ UNCHANGED <<requests, stops>>
      \/ r.lc \in {"agent_queued", "running"} /\ RequestStop(m, private)
  BY DEF CancelHiddenJob, CancelQueued
<1>5. GoodRecord(Absent, inst) /\ Absent.lc = "absent"
  BY GoodAbsent DEF Absent
<1> HIDE DEF r, private
<1>6. CASE jobs' = [jobs EXCEPT ![m] = r] /\ UNCHANGED <<requests, stops>>
  <2>1. RecordsInv' /\ jobs'[m] = r /\ \A j \in Jobs : j # m => jobs'[j] = jobs[j]
    BY <1>1, <1>3, <1>6, RecordFollows
  <2>2. RequestsInv'
    BY <1>1, <1>3, <1>6, <2>1, SameQueue
  <2> QED BY <2>1, <2>2
<1>7. CASE r.lc = "queued" /\ Retire({Start(m)}) /\ jobs' = [jobs EXCEPT ![m] = Absent] /\ stops' = stops
  <2>1. RecordsInv' /\ jobs'[m] = Absent /\ \A j \in Jobs : j # m => jobs'[j] = jobs[j]
    BY <1>1, <1>3, <1>5, <1>7, RecordFollows
  <2>2. \A j \in Jobs : jobs'[j].lc = "queued" <=> jobs[j].lc = "queued" /\ Start(j) \notin {Start(m)}
    BY <1>5, <2>1, RequestsDistinct
  <2>3. RequestsInv'
    BY <1>3, <1>7, <2>2, RetireKeepsQueue
  <2> QED BY <2>1, <2>3
<1>8. CASE IsTerminal(r.lc) /\ jobs' = [jobs EXCEPT ![m] = Absent] /\ UNCHANGED <<requests, stops>>
  <2>1. RecordsInv' /\ jobs'[m] = Absent /\ \A j \in Jobs : j # m => jobs'[j] = jobs[j]
    BY <1>1, <1>3, <1>5, <1>8, RecordFollows
  <2>2. r.lc # "queued"
    BY <1>8, StatesDisjoint
  <2>3. RequestsInv'
    BY <1>1, <1>3, <1>5, <1>8, <2>1, <2>2, SameQueue
  <2> QED BY <2>1, <2>3
<1>9. CASE jobs' = [jobs EXCEPT ![m] = private] /\ UNCHANGED <<requests, stops>>
  <2>1. RecordsInv' /\ jobs'[m] = private /\ \A j \in Jobs : j # m => jobs'[j] = jobs[j]
    BY <1>1, <1>2, <1>3, <1>9, RecordFollows
  <2>2. RequestsInv'
    BY <1>1, <1>2, <1>3, <1>9, <2>1, SameQueue
  <2> QED BY <2>1, <2>2
<1>10. CASE r.lc \in {"agent_queued", "running"} /\ RequestStop(m, private)
  BY <1>1, <1>2, <1>3, <1>10, RequestStopInv
<1> QED BY <1>4, <1>6, <1>7, <1>8, <1>9, <1>10

LEMMA RemoveProjectedInv ==
    ASSUME TypeOK, RecordsInv, RequestsInv, NEW m \in Jobs, RemoveProjectedHiddenJob(m)
    PROVE  RecordsInv' /\ RequestsInv'
<1>1. GoodRecord(Absent, inst) /\ Absent.lc = "absent"
  BY GoodAbsent DEF Absent
<1>2. jobs[m].lc # "queued"
  BY StatesDisjoint DEF RemoveProjectedHiddenJob
<1>3. jobs' = [jobs EXCEPT ![m] = Absent] /\ UNCHANGED <<inst, allocated, handed, stops>>
      /\ Retire({Start(m)})
  BY DEF RemoveProjectedHiddenJob, history
<1>4. RecordsInv' /\ jobs'[m] = Absent /\ \A j \in Jobs : j # m => jobs'[j] = jobs[j]
  BY <1>1, <1>3, RecordFollows
<1>5. \A j \in Jobs : jobs'[j].lc = "queued" <=> jobs[j].lc = "queued" /\ Start(j) \notin {Start(m)}
  BY <1>1, <1>2, <1>4, RequestsDistinct
<1>6. RequestsInv'
  BY <1>3, <1>5, RetireKeepsQueue
<1> QED BY <1>4, <1>6

LEMMA UnregisterInv ==
    ASSUME TypeOK, RecordsInv, RequestsInv, BeginProjectUnregister
    PROVE  RecordsInv' /\ RequestsInv'
<1>1. \A j \in Jobs : jobs'[j] \in {jobs[j], Refreshed(jobs[j])}
  BY DEF BeginProjectUnregister
<1>2. UNCHANGED <<inst, allocated, handed, stops>> /\ UNCHANGED requests
  BY DEF BeginProjectUnregister, lease, history
<1>3. \A j \in Jobs : /\ GoodRecord(jobs'[j], inst)
                      /\ jobs'[j].lc = "queued" <=> jobs[j].lc = "queued"
                      /\ jobs'[j].lc = "absent" <=> jobs[j].lc = "absent"
  <2> TAKE j \in Jobs
  <2>1. GoodRecord(jobs[j], inst)
    BY DEF RecordsInv
  <2> QED BY <1>1, <2>1, RefreshedRecord
<1>4. RecordsInv'
  BY <1>2, <1>3, RecordsFollow
<1>5. RequestsInv'
  BY <1>2, <1>3, SameQueue
<1> QED BY <1>4, <1>5

(* Steps that leave jobs, requests and the holder of the lease alone. *)
LEMMA IdleInv ==
    ASSUME TypeOK, RecordsInv, RequestsInv, UNCHANGED <<inst, jobs, requests, history>>
    PROVE  RecordsInv' /\ RequestsInv'
<1>1. UNCHANGED <<inst, jobs, allocated, handed, stops>> /\ UNCHANGED requests
  BY DEF history
<1>2. RecordsInv'
  BY <1>1, RecordsFollow DEF RecordsInv
<1>3. RequestsInv'
  BY <1>1, SameQueue
<1> QED BY <1>2, <1>3

-----------------------------------------------------------------------------
(***************************************************************************)
(* Messages of a Runner process.                                           *)
(***************************************************************************)
LEMMA RejectedGood ==
    ASSUME NEW r \in JobRecord, NEW l, GoodRecord(r, l), r.lc = "queued"
    PROVE  GoodRecord(RejectedRecord(r), l) /\ RejectedRecord(r).lc = "failed"
<1>1. RejectedRecord(r) = [Ended(r, "failed") EXCEPT !.ces = "not_started"]
  BY DEF RejectedRecord, Present
<1> QED BY <1>1, NotStartedRecord

(* A start that is handed out leaves its job good. *)
LEMMA HandedRecord ==
    ASSUME NEW r \in JobRecord, NEW l, GoodRecord(r, l), r.lc = "queued"
    PROVE  LET s == [r EXCEPT !.lc = "agent_queued"]
           IN  GoodRecord(s, l) /\ s.lc = "agent_queued"
<1> DEFINE s == [r EXCEPT !.lc = "agent_queued"]
<1>1. /\ s.lc = "agent_queued" /\ s.phase = r.phase /\ s.ces = r.ces /\ s.started = r.started
      /\ s.inst = r.inst /\ r.started \in BOOLEAN
  BY DEF JobRecord
<1>2. ~ IsTerminal("queued") /\ IsActive("queued")
  BY DEF IsTerminal, IsActive, TerminalStates, ActiveStates
<1> HIDE DEF s
<1>3. GoodRecord(s, l)
  BY <1>1, <1>2 DEF GoodRecord, RecoveryActive
<1> QED BY <1>1, <1>3 DEF s

(* The requests after a poll that pops the set popped, of which R are      *)
(* forgotten and D is handed out.                                          *)
LEMMA PopKeepsQueue ==
    ASSUME TypeOK, RequestsInv, NEW popped \in SUBSET Queued, NEW R \in SUBSET popped,
           NEW D \in SUBSET popped, popped = R \cup D, R \cap D = {},
           PopFromQueue(popped), pending' = pending \ R, dispatched' = dispatched \cup D,
           \A j \in Jobs : jobs'[j].lc = "queued" <=> jobs[j].lc = "queued" /\ Start(j) \notin popped,
           UNCHANGED <<stops, allocated>>
    PROVE  RequestsInv'
<1>1. Queued' = Queued \ popped
  BY DEF Queued, PopFromQueue, TypeOK
<1>2. dispatched \subseteq pending /\ Queued = pending \ dispatched
  BY DEF RequestsInv, QueueIsDispatchable
<1>3. dispatched' \subseteq pending'
  BY <1>2
<1>4. Queued' = pending' \ dispatched'
  BY <1>1, <1>2
<1>5. \A j \in Jobs : Start(j) \in Queued' <=> jobs'[j].lc = "queued"
  BY <1>1 DEF RequestsInv, QueueIsDispatchable
<1>6. QueuePlaces'
  BY DEF RequestsInv, QueuePlaces, PopFromQueue, TypeOK
<1> QED BY <1>3, <1>4, <1>5, <1>6 DEF RequestsInv, QueueIsDispatchable

LEMMA RequestShape ==
    ASSUME NEW r \in Request
    PROVE  \/ r.op = "start" /\ r.job \in Jobs /\ r = Start(r.job)
           \/ r.op = "stop" /\ r.job \in Jobs /\ \A j \in Jobs : r # Start(j)
BY DEF Request, Start, Stop

LEMMA PollEmptyInv ==
    ASSUME TypeOK, RecordsInv, RequestsInv, NEW i \in Instances, NEW stale \in SUBSET InputJobs,
           PollEmpty(i, stale)
    PROVE  RecordsInv' /\ RequestsInv'
<1> DEFINE failed == Rejected(Queued, stale)
           R == {Start(j) : j \in failed}
<1>1. failed \subseteq Jobs
  BY ConstantsAssumption DEF ConstantsAssumption, Rejected
<1>2. Queued \subseteq pending /\ Queued \subseteq Request
  BY DEF RequestsInv, QueueIsDispatchable, Queued
<1>3. R \subseteq Queued
  BY DEF Rejected
<1>4. Queued \subseteq R
  <2> SUFFICES ASSUME NEW r \in Queued PROVE r \in R
    OBVIOUS
  <2>1. r \notin Takeable(stale)
    BY DEF PollEmpty
  <2>2. r.op = "start" /\ r.job \in stale
    BY <1>2, <2>1 DEF Takeable
  <2>3. r = Start(r.job)
    BY <1>2, <2>2, RequestShape
  <2>4. r.job \in failed
    BY <1>2, <2>2, <2>3 DEF Rejected
  <2> QED BY <2>3, <2>4
<1>5. \A j \in Jobs : j \in failed <=> jobs[j].lc = "queued"
  <2> TAKE j \in Jobs
  <2>1. j \in failed <=> Start(j) \in R
    BY <1>1, RequestsDistinct
  <2>2. Start(j) \in Queued <=> jobs[j].lc = "queued"
    BY DEF RequestsInv, QueueIsDispatchable
  <2> QED BY <1>3, <1>4, <2>1, <2>2
<1>6. \A j \in Jobs : jobs'[j] = IF j \in failed THEN RejectedRecord(jobs[j]) ELSE jobs[j]
  BY DEF PollEmpty
<1>7. UNCHANGED <<inst, allocated, handed, stops>>
  BY DEF PollEmpty, Seen, history
<1>8. PopFromQueue(Queued) /\ pending' = pending \ R /\ dispatched' = dispatched
  BY DEF PollEmpty
<1> HIDE DEF failed, R
<1>9. \A j \in Jobs : /\ GoodRecord(jobs'[j], inst) /\ jobs'[j].lc # "queued"
                      /\ jobs[j].lc = "absent" => jobs'[j].lc = "absent"
  <2> TAKE j \in Jobs
  <2>1. jobs[j] \in JobRecord /\ GoodRecord(jobs[j], inst)
    BY DEF TypeOK, RecordsInv
  <2> QED BY <1>5, <1>6, <2>1, RejectedGood
<1>10. RecordsInv'
  BY <1>7, <1>9, RecordsFollow
<1>11. \A j \in Jobs : jobs'[j].lc = "queued" <=> jobs[j].lc = "queued" /\ Start(j) \notin Queued
  BY <1>9 DEF RequestsInv, QueueIsDispatchable
<1>12. R = Queued
  BY <1>3, <1>4
<1>13. Queued = R \cup {} /\ R \cap {} = {} /\ dispatched' = dispatched \cup {}
  BY <1>8, <1>12
<1>14. RequestsInv'
  BY <1>3, <1>7, <1>8, <1>11, <1>13, PopKeepsQueue
<1> QED BY <1>10, <1>14

LEMMA PollInv ==
    ASSUME TypeOK, RecordsInv, RequestsInv, NEW i \in Instances, NEW stale \in SUBSET InputJobs,
           NEW first \in Request, Poll(i, stale, first)
    PROVE  RecordsInv' /\ RequestsInv'
<1> DEFINE popped == {r \in Queued : queue[r] >= queue[first]}
           failed == Rejected(popped, stale)
           F == {Start(j) : j \in failed}
           R == F \cup {r \in {first} : r.op = "stop"}
           D == {r \in {first} : r.op = "start"}
<1>1. failed \subseteq Jobs /\ \A j \in failed : j \in stale
  BY ConstantsAssumption DEF ConstantsAssumption, Rejected
<1>2. Queued \subseteq pending /\ Queued \subseteq Request
  BY DEF RequestsInv, QueueIsDispatchable, Queued
<1>3. first \in Queued /\ ~ (first.op = "start" /\ first.job \in stale)
  BY DEF Poll, Takeable
<1>4. first \in popped
  BY <1>3 DEF TypeOK
<1>5. F \subseteq popped /\ first \notin F
  <2>1. F \subseteq popped
    BY DEF Rejected
  <2>2. \A j \in failed : Start(j) # first
    BY <1>1, <1>3, RequestsDistinct
  <2> QED BY <2>1, <2>2
<1>6. popped \subseteq F \cup {first}
  <2> SUFFICES ASSUME NEW r \in popped, r # first PROVE r \in F
    OBVIOUS
  <2>1. r \in Queued /\ r \in Request /\ r \in pending /\ queue[r] >= queue[first]
    BY <1>2
  <2>2. queue[r] \in Nat /\ queue[first] \in Nat /\ queue[r] > 0
    BY <2>1 DEF TypeOK, Queued
  <2>3. queue[r] # queue[first]
    BY <2>1, <2>2 DEF RequestsInv, QueuePlaces
  <2>4. r \notin Takeable(stale)
    BY <2>1, <2>2, <2>3 DEF Poll
  <2>5. r.op = "start" /\ r.job \in stale
    BY <2>1, <2>4 DEF Takeable
  <2>6. r = Start(r.job)
    BY <2>1, <2>5, RequestShape
  <2>7. r.job \in failed
    BY <2>1, <2>5, <2>6 DEF Rejected
  <2> QED BY <2>6, <2>7
<1>7. popped = R \cup D /\ R \cap D = {}
  <2>1. first.op = "start" \/ first.op = "stop"
    BY RequestShape
  <2>2. first.op = "start" => first.op # "stop"
    OBVIOUS
  <2>3. popped = F \cup {first}
    BY <1>4, <1>5, <1>6
  <2> HIDE DEF popped, F
  <2> QED BY <1>5, <2>1, <2>2, <2>3
<1>8. \A j \in Jobs : Start(j) \in popped <=> j \in failed \/ first = Start(j)
  <2> TAKE j \in Jobs
  <2>1. Start(j) \in F <=> j \in failed
    <3> HIDE DEF failed
    <3> QED BY <1>1, RequestsDistinct
  <2> HIDE DEF popped, F
  <2> QED BY <1>4, <1>5, <1>6, <2>1
<1>9. \A j \in Jobs : Start(j) \in popped => jobs[j].lc = "queued"
  BY DEF RequestsInv, QueueIsDispatchable
<1>10. \A j \in Jobs : jobs'[j] = IF j \in failed THEN RejectedRecord(jobs[j])
                                 ELSE IF first = Start(j) /\ jobs[j].lc = "queued"
                                 THEN [jobs[j] EXCEPT !.lc = "agent_queued"] ELSE jobs[j]
  BY DEF Poll
<1>11. \A j \in Jobs : handed'[j] = IF first = Start(j) THEN i ELSE handed[j]
  BY DEF Poll
<1>12. UNCHANGED <<inst, allocated, stops>>
  BY DEF Poll, Seen
<1>13. PopFromQueue(popped) /\ pending' = pending \ R /\ dispatched' = dispatched \cup D
  BY DEF Poll
<1>14. popped \subseteq Queued
  OBVIOUS
<1> HIDE DEF popped, failed, F, R, D
<1>15. \A j \in Jobs : /\ GoodRecord(jobs'[j], inst)
                       /\ jobs'[j].lc = "queued" <=> jobs[j].lc = "queued" /\ Start(j) \notin popped
                       /\ jobs[j].lc = "absent" => jobs'[j].lc = "absent" /\ Start(j) # first
  <2> TAKE j \in Jobs
  <2>1. jobs[j] \in JobRecord /\ GoodRecord(jobs[j], inst)
    BY DEF TypeOK, RecordsInv
  <2>2. CASE j \in failed
    BY <1>4, <1>8, <1>9, <1>10, <2>1, <2>2, RejectedGood
  <2>3. CASE j \notin failed /\ first = Start(j)
    BY <1>8, <1>9, <1>10, <2>1, <2>3, HandedRecord
  <2>4. CASE j \notin failed /\ first # Start(j)
    BY <1>8, <1>10, <2>1, <2>4
  <2> QED BY <2>2, <2>3, <2>4
<1>16. (\A j \in Jobs : GoodRecord(jobs[j], inst))' <=> \A j \in Jobs : GoodRecord(jobs'[j], inst')
  BY DEF GoodRecord, RecoveryActive
<1>17. \A j \in Jobs : jobs'[j].lc = "queued" => handed'[j] = NoInstance
  BY <1>4, <1>11, <1>15 DEF RecordsInv
<1>18. \A j \in Jobs \ allocated' : jobs'[j].lc = "absent" /\ handed'[j] = NoInstance
  BY <1>11, <1>12, <1>15 DEF RecordsInv
<1>19. RecordsInv'
  BY <1>12, <1>15, <1>16, <1>17, <1>18 DEF RecordsInv
<1>20. RequestsInv'
  BY <1>7, <1>12, <1>13, <1>14, <1>15, PopKeepsQueue
<1> QED BY <1>19, <1>20

(* The states a Runner reports. *)
LEMMA ReportedStates ==
    ASSUME NEW rep \in Report
    PROVE  /\ rep.st \in Lifecycle /\ rep.st \notin {"queued", "started", "absent"}
           /\ IsRunnerActive(rep.st) \/ IsTerminal(rep.st)
           /\ rep.ces \in ExecutionState /\ rep.started \in BOOLEAN
BY DEF Report, Lifecycle, ActiveStates, RunnerActiveStates, TerminalStates, IsRunnerActive, IsTerminal

LEMMA GoodUpdated ==
    ASSUME NEW r \in JobRecord, NEW l \in Instances, GoodRecord(r, l), Present(r),
           ~ IsTerminal(r.lc), r.inst = l, NEW rep \in Report, NEW seq \in Nat
    PROVE  GoodRecord(Updated(r, rep, seq), l) /\ Updated(r, rep, seq).lc \notin {"queued", "absent"}
<1> DEFINE s == Updated(r, rep, seq)
<1>1. s \in JobRecord
  BY UpdatedType
<1>2. l # NoInstance
  BY ConstantsAssumption DEF ConstantsAssumption
<1>3. CASE ~ ValidExecutionState(rep.st, rep.ces, r.started)
  <2> DEFINE e == Ended(r, "failed")
  <2>1. e \in JobRecord /\ e.lc = "failed" /\ e.started = r.started
    BY EndedType, StopLifecycle DEF Ended, JobRecord
  <2>2. s = [e EXCEPT !.ces = LostExecutionState(r), !.seq = seq]
    BY <1>3 DEF Updated
  <2> HIDE DEF e
  <2>3. s.lc = "failed" /\ s.started = r.started /\ s.ces = LostExecutionState(r)
    BY <2>1, <2>2 DEF JobRecord
  <2>4. LostExecutionState(r) = "not_started" => ~ r.started
    BY DEF LostExecutionState
  <2>5. IsTerminal("failed")
    BY DEF IsTerminal, TerminalStates
  <2> HIDE DEF s
  <2>6. GoodRecord(s, l)
    BY <1>1, <2>3, <2>4, <2>5, GoodTerminal
  <2> QED BY <2>3, <2>6 DEF s
<1>4. CASE ValidExecutionState(rep.st, rep.ces, r.started)
  <2> DEFINE started == \/ r.started
                        \/ /\ rep.ces # "not_started"
                           /\ rep.st \in {"running", "completed", "failed", "stopped", "timeout"}
             phase == IF RecoveryActive(r) THEN "reconciled" ELSE r.phase
             ces == IF IsTerminal(rep.st) THEN rep.ces ELSE r.ces
             age == IF IsTerminal(rep.st) \/ RecoveryActive(r) THEN 0 ELSE r.age
  <2>1. s = [r EXCEPT !.lc = rep.st, !.started = started, !.seq = seq, !.phase = phase,
                      !.age = age, !.ces = ces]
    BY <1>4 DEF Updated
  <2>2. s.lc = rep.st /\ s.started = started /\ s.phase = phase /\ s.ces = ces /\ s.inst = r.inst
    <3> HIDE DEF s, started, phase, ces, age
    <3> QED BY <2>1 DEF JobRecord
  <2>3. s.phase # "recovering"
    <3>1. r.phase = "recovering" => RecoveryActive(r)
      BY DEF GoodRecord, RecoveryActive, JobRecord, Lifecycle, ActiveStates, IsTerminal,
             IsRunnerActive, Present
    <3> QED BY <2>2, <3>1
  <2>4. rep.ces = "not_started" => ~ r.started
    BY <1>4 DEF ValidExecutionState
  <2>5. r.ces = "none"
    BY DEF GoodRecord
  <2>6. s.ces = "not_started" => ~ s.started
    <3>1. s.ces = "not_started" => rep.ces = "not_started"
      BY <2>2, <2>5
    <3>2. rep.ces = "not_started" => ~ started
      BY <2>4
    <3> QED BY <2>2, <3>1, <3>2
  <2>7. s.lc \notin {"queued", "started", "absent"}
    BY <2>2, ReportedStates
  <2>8. ~ IsTerminal(s.lc) => s.ces = "none"
    BY <2>2, <2>5
  <2>9. s.inst = l
    BY <2>2
  <2> HIDE DEF s
  <2>10. GoodRecord(s, l)
    BY <1>2, <2>3, <2>6, <2>7, <2>8, <2>9 DEF GoodRecord, RecoveryActive
  <2> QED BY <2>7, <2>10 DEF s
<1> QED BY <1>3, <1>4

LEMMA HandedOutNotQueued ==
    ASSUME RecordsInv, NEW i \in Instances, NEW m \in Jobs, Knows(i, m)
    PROVE  jobs[m].lc # "queued" /\ m \in allocated
<1>1. handed[m] # NoInstance
  BY ConstantsAssumption DEF Knows, ConstantsAssumption
<1> QED BY <1>1 DEF RecordsInv

LEMMA UpdateInv ==
    ASSUME TypeOK, RecordsInv, RequestsInv, NEW i \in Instances, NEW m \in Jobs, NEW rep \in Reports,
           NEW seq \in 1 .. MaxSeq, NEW snapshot \in BOOLEAN, NEW live \in BOOLEAN,
           UpdateJob(i, m, rep, seq, snapshot, live)
    PROVE  RecordsInv' /\ RequestsInv'
<1> DEFINE r == jobs[m]
           n == IF i \in ReconInstances THEN seq ELSE r.seq
           updated == Updated(r, rep, n)
           s == WithoutCleanupTerminal(updated)
<1>1. r \in JobRecord /\ GoodRecord(r, inst) /\ n \in Nat /\ rep \in Report
  BY ConstantsAssumption DEF TypeOK, RecordsInv, ConstantsAssumption, JobRecord
<1>2. i = inst /\ Knows(i, m) /\ Present(r) /\ r.inst = i /\ ~ IsTerminal(r.lc)
  BY DEF UpdateJob
<1>3. GoodRecord(updated, inst) /\ updated.lc \notin {"queued", "absent"}
  <2> HIDE DEF r, n
  <2> QED BY <1>1, <1>2, GoodUpdated
<1>4. jobs' = [jobs EXCEPT ![m] = s] /\ UNCHANGED <<inst, allocated, handed, stops>>
  BY DEF UpdateJob, Seen, history
<1>5. IF IsTerminal(updated.lc) THEN DropPending({Start(m)}) ELSE UNCHANGED requests
  BY DEF UpdateJob
<1>6. r.lc \notin {"queued", "absent"}
  BY <1>2, HandedOutNotQueued DEF Present
<1>7. GoodRecord(s, inst) /\ s.lc # "queued"
  <2>1. Absent.lc # "queued"
    BY DEF Absent
  <2> HIDE DEF updated
  <2> QED BY <1>3, <2>1, GoodCleanup DEF WithoutCleanupTerminal
<1> HIDE DEF s, updated, n
<1>8. RecordsInv' /\ jobs'[m] = s /\ \A j \in Jobs : j # m => jobs'[j] = jobs[j]
  BY <1>4, <1>6, <1>7, RecordFollows
<1>9. \A j \in Jobs : jobs'[j].lc = "queued" <=> jobs[j].lc = "queued"
  BY <1>6, <1>7, <1>8
<1>10. RequestsInv'
  BY <1>4, <1>5, <1>6, <1>9, DropKeepsQueue, SameQueue
<1> QED BY <1>8, <1>10

LEMMA CompleteInv ==
    ASSUME TypeOK, RecordsInv, RequestsInv, NEW i \in Instances, NEW m \in Jobs,
           NEW success \in BOOLEAN, NEW live \in BOOLEAN, CompleteJob(i, m, success, live)
    PROVE  RecordsInv' /\ RequestsInv'
<1> DEFINE st == IF success THEN "completed" ELSE "failed"
           s == Ended(jobs[m], st)
<1>1. jobs[m] \in JobRecord /\ GoodRecord(jobs[m], inst) /\ st \in Lifecycle /\ IsTerminal(st)
  BY StopLifecycle DEF TypeOK, RecordsInv, IsTerminal, TerminalStates
<1>2. Knows(i, m)
  BY DEF CompleteJob, Knows
<1>3. jobs[m].lc # "queued"
  BY <1>2, HandedOutNotQueued
<1>4. s \in JobRecord /\ s.lc = st /\ s.started = jobs[m].started /\ s.ces = jobs[m].ces
  <2> HIDE DEF st
  <2> QED BY <1>1, EndedType DEF Ended, JobRecord
<1>5. DropPending({Start(m)}) /\ UNCHANGED <<inst, allocated, handed, stops>>
  BY DEF CompleteJob, Seen, history
<1>6. jobs' = (IF Present(jobs[m]) THEN [jobs EXCEPT ![m] = s] ELSE jobs)
  BY DEF CompleteJob
<1> HIDE DEF s, st
<1>7. GoodRecord(s, inst)
  BY <1>1, <1>4, GoodTerminal DEF GoodRecord
<1>8. s.lc # "queued"
  BY <1>1, <1>4, StatesDisjoint
<1>9. CASE Present(jobs[m])
  <2>1. RecordsInv' /\ jobs'[m] = s /\ \A j \in Jobs : j # m => jobs'[j] = jobs[j]
    BY <1>5, <1>6, <1>7, <1>8, <1>9, RecordFollows DEF Present
  <2>2. RequestsInv'
    BY <1>3, <1>5, <1>8, <2>1, DropKeepsQueue
  <2> QED BY <2>1, <2>2
<1>10. CASE ~ Present(jobs[m])
  <2>1. jobs' = jobs
    BY <1>6, <1>10
  <2>2. RecordsInv'
    BY <1>5, <2>1, RecordsFollow DEF RecordsInv
  <2>3. RequestsInv'
    BY <1>3, <1>5, <2>1, DropKeepsQueue
  <2> QED BY <2>2, <2>3
<1> QED BY <1>9, <1>10

LEMMA DisconnectInv ==
    ASSUME TypeOK, RecordsInv, RequestsInv, Disconnect
    PROVE  RecordsInv' /\ RequestsInv'
<1> DEFINE affected == {j \in Jobs : jobs[j].lc = "queued" \/ IsRunnerActive(jobs[j].lc)}
           R == pending \cup {Start(j) : j \in affected}
<1>1. \A j \in Jobs : jobs'[j] \in {jobs[j], BeginJobRecovery(jobs[j]), MarkJobLost(jobs[j], FALSE)}
  BY DEF Disconnect
<1>2. \A j \in Jobs : jobs[j].lc = "queued" => jobs'[j] = MarkJobLost(jobs[j], FALSE)
  BY DEF Disconnect
<1>3. Retire(R) /\ UNCHANGED <<inst, allocated, handed, stops>>
  BY DEF Disconnect, history
<1>4. \A j \in Jobs : /\ GoodRecord(jobs'[j], inst) /\ jobs'[j].lc # "queued"
                      /\ jobs[j].lc = "absent" => jobs'[j].lc = "absent"
  <2> TAKE j \in Jobs
  <2>1. jobs[j] \in JobRecord /\ GoodRecord(jobs[j], inst)
    BY DEF TypeOK, RecordsInv
  <2>2. jobs[j].ces = "not_started" => ~ jobs[j].started
    BY <2>1 DEF GoodRecord
  <2>3. GoodRecord(BeginJobRecovery(jobs[j]), inst) /\ GoodRecord(MarkJobLost(jobs[j], FALSE), inst)
    BY <2>1, <2>2, GoodRecovery, GoodLost
  <2>4. BeginJobRecovery(jobs[j]).lc = jobs[j].lc
    BY <2>1, RecoveryFacts
  <2>5. MarkJobLost(jobs[j], FALSE).lc = IF IsActive(jobs[j].lc) THEN "lost" ELSE jobs[j].lc
    BY <2>1, LostFacts
  <2> QED BY <1>1, <1>2, <2>1, <2>3, <2>4, <2>5, StatesDisjoint
<1>5. RecordsInv'
  BY <1>3, <1>4, RecordsFollow
<1>6. \A j \in Jobs : jobs[j].lc = "queued" => Start(j) \in R
  OBVIOUS
<1> HIDE DEF R
<1>7. RequestsInv'
  BY <1>3, <1>4, <1>6, RetireKeepsQueue
<1> QED BY <1>5, <1>7

-----------------------------------------------------------------------------
(***************************************************************************)
(* Registration.  A record is carried through the loss of replaced jobs    *)
(* and the expiry of recoveries either inactive, or untouched under the    *)
(* same process, or untouched on its way to the process that adopts it.    *)
(***************************************************************************)
KeptRecord(j, i, inv) ==
    LET lost == IF j \in ReplacedJobs(i, inv) THEN MarkJobLost(jobs[j], TRUE) ELSE jobs[j]
    IN  IF inst \in {i, NoInstance} THEN lost ELSE WithoutCleanupTerminal(lost)

SweptRecord(r, late, nothing) ==
    LET aged == IF late THEN MarkJobLost(r, TRUE) ELSE r
    IN  IF nothing THEN aged ELSE WithoutCleanupTerminal(aged)

Carried(j, r, i, inv) ==
    /\ r \in JobRecord
    /\ \/ ~ IsActive(r.lc) /\ GoodRecord(r, i)
       \/ r = jobs[j] /\ inst = i
       \/ r = jobs[j] /\ IsActive(r.lc) /\ j \in DOMAIN inv /\ r.inst # i
    /\ jobs[j].lc = "absent" => r.lc = "absent"

LEMMA RegisteredRecords ==
    ASSUME NEW i \in Instances, NEW inv \in Inventories(i), NEW expired \in SUBSET Jobs,
           Register(i, inv, expired), NEW j \in Jobs
    PROVE  jobs'[j] = IF i \in ReconInstances
                      THEN WithoutCleanupTerminal(
                             Reconciled(j, SweptRecord(KeptRecord(j, i, inv), j \in expired,
                                                       expired = {}), i, inv))
                      ELSE KeptRecord(j, i, inv)
BY DEF Register, KeptRecord, SweptRecord

(* An inactive record is good whoever holds the lease. *)
LEMMA InactiveGood ==
    ASSUME NEW r, NEW l, NEW k, GoodRecord(r, k), ~ IsActive(r.lc)
    PROVE  GoodRecord(r, l)
BY DEF GoodRecord

LEMMA LostCarried ==
    ASSUME NEW j \in Jobs, NEW r \in JobRecord, NEW i, NEW inv,
           r.ces = "not_started" => ~ r.started,
           ~ IsActive(r.lc) => GoodRecord(r, i),
           jobs[j].lc = "absent" => r.lc = "absent"
    PROVE  Carried(j, MarkJobLost(r, TRUE), i, inv)
<1>1. MarkJobLost(r, TRUE) \in JobRecord /\ GoodRecord(MarkJobLost(r, TRUE), i)
  BY LostType, GoodLost
<1>2. MarkJobLost(r, TRUE).lc = IF IsActive(r.lc) THEN "lost" ELSE r.lc
  BY LostFacts
<1> QED BY <1>1, <1>2, StatesDisjoint DEF Carried

LEMMA CleanupCarried ==
    ASSUME NEW j \in Jobs, NEW r, NEW i, NEW inv, Carried(j, r, i, inv)
    PROVE  Carried(j, WithoutCleanupTerminal(r), i, inv)
<1>1. CASE WithoutCleanupTerminal(r) = r
  BY <1>1
<1>2. CASE WithoutCleanupTerminal(r) = Absent
  <2>1. Absent.lc = "absent"
    BY DEF Absent
  <2> QED BY <1>2, <2>1, AbsentType, GoodAbsent, StatesDisjoint DEF Carried
<1> QED BY <1>1, <1>2 DEF WithoutCleanupTerminal

LEMMA KeptCarried ==
    ASSUME TypeOK, RecordsInv, NEW i \in Instances, NEW inv \in Inventories(i), NEW j \in Jobs
    PROVE  Carried(j, KeptRecord(j, i, inv), i, inv)
<1>1. jobs[j] \in JobRecord /\ GoodRecord(jobs[j], inst)
  BY DEF TypeOK, RecordsInv
<1>2. jobs[j].ces = "not_started" => ~ jobs[j].started
  BY <1>1 DEF GoodRecord
<1>3. ~ IsActive(jobs[j].lc) => GoodRecord(jobs[j], i)
  BY <1>1, InactiveGood
<1>4. CASE j \in ReplacedJobs(i, inv)
  <2>1. Carried(j, MarkJobLost(jobs[j], TRUE), i, inv)
    BY <1>1, <1>2, <1>3, LostCarried
  <2> QED BY <1>4, <2>1, CleanupCarried DEF KeptRecord
<1>5. CASE j \notin ReplacedJobs(i, inv)
  <2>1. CASE ~ IsActive(jobs[j].lc) \/ inst = i
    <3>1. Carried(j, jobs[j], i, inv)
      BY <1>1, <1>3, <2>1 DEF Carried
    <3> QED BY <1>5, <3>1, CleanupCarried DEF KeptRecord
  <2>2. CASE IsActive(jobs[j].lc) /\ inst # i
    <3>1. inst # NoInstance /\ jobs[j].inst = inst /\ jobs[j].lc # "started"
      BY <1>1, <2>2 DEF GoodRecord
    <3>2. jobs[j].lc = "queued" \/ IsRunnerActive(jobs[j].lc)
      BY <2>2, <3>1 DEF IsActive, ActiveStates, IsRunnerActive
    <3>3. j \in DOMAIN inv
      BY <1>5, <2>2, <3>1, <3>2 DEF ReplacedJobs
    <3>4. Carried(j, jobs[j], i, inv)
      BY <1>1, <2>2, <3>1, <3>3, StatesDisjoint DEF Carried
    <3> QED BY <1>5, <3>4, CleanupCarried DEF KeptRecord
  <2> QED BY <2>1, <2>2
<1> QED BY <1>4, <1>5

LEMMA SweptCarried ==
    ASSUME TypeOK, RecordsInv, NEW i \in Instances, NEW inv \in Inventories(i), NEW j \in Jobs,
           NEW r, Carried(j, r, i, inv), NEW late \in BOOLEAN, NEW nothing \in BOOLEAN
    PROVE  Carried(j, SweptRecord(r, late, nothing), i, inv)
<1>1. jobs[j] \in JobRecord /\ GoodRecord(jobs[j], inst)
  BY DEF TypeOK, RecordsInv
<1>2. r \in JobRecord /\ (r.ces = "not_started" => ~ r.started)
  BY <1>1 DEF Carried, GoodRecord
<1>3. ~ IsActive(r.lc) => GoodRecord(r, i)
  BY <1>1, InactiveGood DEF Carried
<1>4. Carried(j, MarkJobLost(r, TRUE), i, inv)
  BY <1>2, <1>3, LostCarried DEF Carried
<1>5. Carried(j, IF late THEN MarkJobLost(r, TRUE) ELSE r, i, inv)
  BY <1>4
<1> QED BY <1>5, CleanupCarried DEF SweptRecord

LEMMA GoodSnapshot ==
    ASSUME NEW r \in JobRecord, NEW i \in Instances, NEW rep \in Report, NEW seq \in Nat,
           ValidSnapshot(rep)
    PROVE  LET s == FromSnapshot(r, i, [rep |-> rep, seq |-> seq])
           IN  GoodRecord(s, i) /\ s.lc \notin {"queued", "absent"} /\ s \in JobRecord
<1> DEFINE s == FromSnapshot(r, i, [rep |-> rep, seq |-> seq])
<1>1. s.lc = rep.st /\ s.inst = i /\ s.phase = "reconciled" /\ s.ces = rep.ces /\ s.started = rep.started
  BY DEF FromSnapshot, JobRecord
<1>2. s \in JobRecord
  BY SnapshotType
<1>3. i # NoInstance
  BY ConstantsAssumption DEF ConstantsAssumption
<1>4. rep.ces = "not_started" => ~ rep.started
  BY DEF ValidSnapshot, ValidExecutionState
<1>5. ~ IsTerminal(rep.st) => rep.ces = "none"
  BY ReportedStates DEF ValidSnapshot, ValidExecutionState, ExecutionState, IsTerminal, TerminalStates
<1>6. s.lc \notin {"queued", "started", "absent"}
  BY <1>1, ReportedStates
<1> HIDE DEF s
<1>7. GoodRecord(s, i)
  BY <1>1, <1>3, <1>4, <1>5, <1>6 DEF GoodRecord, RecoveryActive
<1> QED BY <1>2, <1>6, <1>7 DEF s

LEMMA InventoryEntry ==
    ASSUME NEW i \in Instances, NEW inv \in Inventories(i), NEW j \in DOMAIN inv
    PROVE  /\ j \in Jobs /\ Knows(i, j) /\ i \in ReconInstances
           /\ \E rep \in Report, seq \in Nat : inv[j] = [rep |-> rep, seq |-> seq]
<1>1. PICK J \in (IF i \in ReconInstances THEN SUBSET {k \in Jobs : Knows(i, k)} ELSE {{}}) :
         inv \in [J -> [rep : Reports, seq : 1 .. MaxSeq]]
  BY DEF Inventories
<1>2. j \in J /\ inv[j] \in [rep : Reports, seq : 1 .. MaxSeq]
  BY <1>1
<1>3. j \in Jobs /\ Knows(i, j) /\ i \in ReconInstances
  BY <1>1, <1>2
<1>4. \E rep \in Report, seq \in Nat : inv[j] = [rep |-> rep, seq |-> seq]
  BY <1>2, ConstantsAssumption DEF ConstantsAssumption
<1> QED BY <1>3, <1>4

LEMMA ReconciledGood ==
    ASSUME TypeOK, RecordsInv, NEW i \in Instances, NEW inv \in Inventories(i), NEW j \in Jobs,
           PreflightInventory(i, inv), NEW r, Carried(j, r, i, inv)
    PROVE  LET t == Reconciled(j, r, i, inv)
           IN  /\ GoodRecord(t, i) /\ t \in JobRecord
               /\ t.lc = "queued" => inst = i /\ jobs[j].lc = "queued"
               /\ r.lc = "absent" /\ j \notin DOMAIN inv => t.lc = "absent"
               /\ r.lc = "queued" /\ j \notin DOMAIN inv => t = r
<1> DEFINE t == Reconciled(j, r, i, inv)
<1>1. jobs[j] \in JobRecord /\ GoodRecord(jobs[j], inst)
  BY DEF TypeOK, RecordsInv
<1>2. r \in JobRecord /\ (r.ces = "not_started" => ~ r.started)
  BY <1>1 DEF Carried, GoodRecord
<1>3. ~ IsActive(r.lc) => GoodRecord(r, i)
  BY <1>1, InactiveGood DEF Carried
<1>4. IsActive(r.lc) => r = jobs[j] /\ (inst = i \/ (j \in DOMAIN inv /\ r.inst # i))
  BY DEF Carried
<1>5. inst = i /\ r = jobs[j] => GoodRecord(r, i)
  BY <1>1
<1>6. CASE j \notin DOMAIN inv
  <2>1. GoodRecord(r, i) /\ (r.lc = "queued" => inst = i /\ jobs[j].lc = "queued")
    BY <1>3, <1>4, <1>5, <1>6, StatesDisjoint
  <2>2. CASE r.inst = i /\ IsRunnerActive(r.lc)
    <3>1. t = MarkJobLost(r, TRUE)
      BY <1>6, <2>2 DEF Reconciled
    <3>2. GoodRecord(MarkJobLost(r, TRUE), i) /\ MarkJobLost(r, TRUE) \in JobRecord
      BY <1>2, <1>3, GoodLost, LostType
    <3>3. MarkJobLost(r, TRUE).lc = "lost"
      BY <1>2, <2>2, LostFacts, StatesDisjoint
    <3> QED BY <2>2, <3>1, <3>2, <3>3, StatesDisjoint
  <2>3. CASE ~ (r.inst = i /\ IsRunnerActive(r.lc))
    <3>1. t = r
      BY <1>6, <2>3 DEF Reconciled
    <3> QED BY <1>2, <2>1, <3>1
  <2> QED BY <2>2, <2>3
<1>7. CASE j \in DOMAIN inv
  <2>1. Knows(i, j)
    BY <1>7, InventoryEntry
  <2>2. jobs[j].lc # "queued"
    BY <2>1, HandedOutNotQueued
  <2>3. r.lc # "queued"
    BY <1>4, <2>2, StatesDisjoint
  <2>4. PICK rep \in Report, seq \in Nat : inv[j] = [rep |-> rep, seq |-> seq]
    BY <1>7, InventoryEntry
  <2>5. ValidSnapshot(rep)
    <3>1. ValidSnapshot(inv[j].rep)
      BY <1>7 DEF PreflightInventory
    <3> QED BY <2>4, <3>1
  <2>6. CASE t = r /\ GoodRecord(r, i)
    BY <1>2, <1>7, <2>3, <2>6
  <2>7. CASE t = FromSnapshot(r, i, inv[j]) \/ t = FromSnapshot(Absent, i, inv[j])
    <3>1. GoodRecord(t, i) /\ t.lc \notin {"queued", "absent"} /\ t \in JobRecord
      BY <1>2, <2>4, <2>5, <2>7, GoodSnapshot, AbsentType
    <3> QED BY <1>7, <3>1
  <2>8. t \in {r, FromSnapshot(r, i, inv[j]), FromSnapshot(Absent, i, inv[j])}
    BY <1>7 DEF Reconciled
  <2>9. t = r => GoodRecord(r, i) \/ t = FromSnapshot(r, i, inv[j])
    <3>1. CASE ~ IsActive(r.lc) \/ inst = i
      BY <1>3, <1>4, <1>5, <3>1
    <3>2. CASE IsActive(r.lc) /\ inst # i
      <4>1. Present(jobs[j]) /\ jobs[j].inst # i /\ ~ IsTerminal(jobs[j].lc) /\ r = jobs[j]
        BY <1>4, <3>2, StatesDisjoint DEF Present
      <4>2. inv[j].seq >= jobs[j].seq
        BY <1>7, <4>1 DEF PreflightInventory
      <4>3. inv[j].seq \in Nat /\ jobs[j].seq \in Nat
        BY <1>1, <2>4 DEF JobRecord
      <4>4. SnapshotApplies(r, i, inv[j])
        BY <4>1, <4>2, <4>3 DEF SnapshotApplies
      <4> QED BY <1>7, <4>1, <4>4 DEF Reconciled
    <3> QED BY <3>1, <3>2
  <2> QED BY <2>6, <2>7, <2>8, <2>9
<1> QED BY <1>6, <1>7

LEMMA CleanupRecord ==
    ASSUME NEW r
    PROVE  /\ WithoutCleanupTerminal(r).lc = "queued" => WithoutCleanupTerminal(r) = r
           /\ r.lc \in {"queued", "absent"} => WithoutCleanupTerminal(r).lc = r.lc
BY StatesDisjoint DEF WithoutCleanupTerminal, Absent

(* A queued job that is neither replaced nor named by the inventory stays  *)
(* queued.                                                                 *)
LEMMA QueuedKept ==
    ASSUME NEW i \in Instances, NEW inv \in Inventories(i), NEW j \in Jobs, NEW expired,
           jobs[j].lc = "queued", j \notin ReplacedJobs(i, inv), j \notin expired
    PROVE  /\ KeptRecord(j, i, inv) = jobs[j]
           /\ SweptRecord(KeptRecord(j, i, inv), j \in expired, expired = {}) = jobs[j]
<1>1. WithoutCleanupTerminal(jobs[j]) = jobs[j]
  BY StatesDisjoint DEF WithoutCleanupTerminal
<1> QED BY <1>1 DEF KeptRecord, SweptRecord

(* The requests a registration retires. *)
LEMMA RegisterRetires ==
    ASSUME NEW i \in Instances, NEW inv \in Inventories(i), NEW expired \in SUBSET Jobs,
           Register(i, inv, expired)
    PROVE  \E missing \in SUBSET Jobs, ended \in SUBSET Jobs :
              /\ Retire(RequestsOf(ReplacedJobs(i, inv) \cup expired \cup missing)
                          \cup {Start(j) : j \in ended})
              /\ \A j \in missing : IsRunnerActive(jobs[j].lc)
              /\ \A j \in ended : j \in DOMAIN inv
<1> DEFINE lost == [j \in Jobs |-> IF j \in ReplacedJobs(i, inv) THEN MarkJobLost(jobs[j], TRUE)
                                   ELSE jobs[j]]
           kept == [j \in Jobs |-> IF inst \in {i, NoInstance} THEN lost[j]
                                   ELSE WithoutCleanupTerminal(lost[j])]
           aged == [j \in Jobs |-> IF j \in expired THEN MarkJobLost(kept[j], TRUE) ELSE kept[j]]
           swept == [j \in Jobs |-> IF expired = {} THEN aged[j]
                                    ELSE WithoutCleanupTerminal(aged[j])]
           missing == IF i \in ReconInstances THEN MissingJobs(i, inv) ELSE {}
           ended == {k \in Jobs : i \in ReconInstances /\ EndedBySnapshot(k, swept[k], i, inv)}
<1>1. Retire(RequestsOf(ReplacedJobs(i, inv) \cup expired \cup missing) \cup {Start(j) : j \in ended})
  BY DEF Register
<1> HIDE DEF swept
<1>2. ended \subseteq Jobs /\ \A j \in ended : j \in DOMAIN inv
  BY DEF EndedBySnapshot
<1>3. missing \subseteq Jobs /\ \A j \in missing : IsRunnerActive(jobs[j].lc)
  BY DEF MissingJobs
<1> HIDE DEF missing, ended
<1> QED BY <1>1, <1>2, <1>3

LEMMA RegisterInv ==
    ASSUME TypeOK, RecordsInv, RequestsInv, NEW i \in Instances, NEW inv \in Inventories(i),
           NEW expired \in SUBSET Jobs, Register(i, inv, expired)
    PROVE  RecordsInv' /\ RequestsInv'
<1>1. PICK missing \in SUBSET Jobs, ended \in SUBSET Jobs :
              /\ Retire(RequestsOf(ReplacedJobs(i, inv) \cup expired \cup missing)
                          \cup {Start(j) : j \in ended})
              /\ \A j \in missing : IsRunnerActive(jobs[j].lc)
              /\ \A j \in ended : j \in DOMAIN inv
  BY RegisterRetires
<1>2. inst' = i /\ UNCHANGED <<allocated, handed, stops>> /\ PreflightInventory(i, inv)
  BY DEF Register, history
<1>3. \A j \in expired : IsRunnerActive(jobs[j].lc)
  BY DEF Register, SweepPasses, ExpiredRecoveries, RecoveryExpired, RecoveryActive
<1> DEFINE R == RequestsOf(ReplacedJobs(i, inv) \cup expired \cup missing) \cup {Start(j) : j \in ended}
           kept(j) == KeptRecord(j, i, inv)
           swept(j) == SweptRecord(kept(j), j \in expired, expired = {})
<1>4. \A j \in Jobs : jobs'[j] = IF i \in ReconInstances
                                 THEN WithoutCleanupTerminal(Reconciled(j, swept(j), i, inv))
                                 ELSE kept(j)
  BY RegisteredRecords
<1>5. \A j \in Jobs : j \in ReplacedJobs(i, inv) \/ j \in expired => Start(j) \in R
  BY RequestsDistinct, RequestIds DEF RequestsOf
<1>6. \A j \in Jobs : Start(j) \in R =>
         j \in ReplacedJobs(i, inv) \/ j \in expired \/ j \in missing \/ j \in ended
  BY RequestsDistinct DEF RequestsOf
<1> HIDE DEF R
<1>7. ASSUME NEW j \in Jobs
      PROVE  /\ GoodRecord(jobs'[j], i)
             /\ jobs'[j].lc = "queued" => inst = i /\ jobs[j].lc = "queued"
             /\ jobs[j].lc = "absent" /\ j \notin DOMAIN inv => jobs'[j].lc = "absent"
             /\ jobs[j].lc = "queued" /\ j \notin ReplacedJobs(i, inv) => jobs'[j].lc = "queued"
  <2>1. Carried(j, kept(j), i, inv) /\ Carried(j, swept(j), i, inv)
    <3>1. Carried(j, kept(j), i, inv)
      BY KeptCarried
    <3>2. (j \in expired) \in BOOLEAN /\ (expired = {}) \in BOOLEAN
      OBVIOUS
    <3>3. \A late \in BOOLEAN, nothing \in BOOLEAN :
             Carried(j, SweptRecord(kept(j), late, nothing), i, inv)
      <4> HIDE DEF kept
      <4> QED BY <3>1, SweptCarried
    <3> QED BY <3>1, <3>2, <3>3, Zenon
  <2>2. jobs[j].lc = "queued" /\ j \notin ReplacedJobs(i, inv) =>
           kept(j) = jobs[j] /\ swept(j) = jobs[j] /\ j \notin DOMAIN inv
    <3> SUFFICES ASSUME jobs[j].lc = "queued", j \notin ReplacedJobs(i, inv)
                 PROVE  kept(j) = jobs[j] /\ swept(j) = jobs[j] /\ j \notin DOMAIN inv
      OBVIOUS
    <3>1. j \notin expired
      BY <1>3, StatesDisjoint
    <3>2. j \notin DOMAIN inv
      BY InventoryEntry, HandedOutNotQueued
    <3> QED BY <3>1, <3>2, QueuedKept
  <2>3. CASE i \in ReconInstances
    <3> DEFINE t == Reconciled(j, swept(j), i, inv)
    <3> HIDE DEF swept, kept
    <3>1. /\ GoodRecord(t, i)
          /\ t.lc = "queued" => inst = i /\ jobs[j].lc = "queued"
          /\ swept(j).lc = "absent" /\ j \notin DOMAIN inv => t.lc = "absent"
          /\ swept(j).lc = "queued" /\ j \notin DOMAIN inv => t = swept(j)
      BY <1>2, <2>1, ReconciledGood
    <3>2. jobs'[j] = WithoutCleanupTerminal(t)
      BY <1>4, <2>3
    <3>3. jobs[j].lc = "absent" => swept(j).lc = "absent"
      BY <2>1 DEF Carried
    <3> HIDE DEF t
    <3> QED BY <2>2, <3>1, <3>2, <3>3, GoodCleanup, CleanupRecord
  <2>4. CASE i \notin ReconInstances
    <3>1. j \notin DOMAIN inv
      BY <2>4, InventoryEntry
    <3>2. jobs'[j] = kept(j)
      BY <1>4, <2>4
    <3>3. GoodRecord(jobs[j], inst)
      BY DEF RecordsInv
    <3> HIDE DEF kept, swept
    <3>4. \/ ~ IsActive(kept(j).lc) /\ GoodRecord(kept(j), i)
          \/ kept(j) = jobs[j] /\ inst = i
      BY <2>1, <3>1 DEF Carried
    <3>5. GoodRecord(kept(j), i)
      BY <3>3, <3>4
    <3>6. kept(j).lc = "queued" => inst = i /\ jobs[j].lc = "queued"
      BY <3>4, StatesDisjoint
    <3>7. jobs[j].lc = "absent" => kept(j).lc = "absent"
      BY <2>1 DEF Carried
    <3> QED BY <2>2, <3>2, <3>5, <3>6, <3>7
  <2> QED BY <2>3, <2>4
<1>8. \A j \in Jobs : GoodRecord(jobs'[j], inst')
  BY <1>2, <1>7
<1>9. (\A j \in Jobs : GoodRecord(jobs[j], inst))' <=> \A j \in Jobs : GoodRecord(jobs'[j], inst')
  BY DEF GoodRecord, RecoveryActive
<1>10. \A j \in Jobs : jobs'[j].lc = "queued" => handed'[j] = NoInstance
  BY <1>2, <1>7 DEF RecordsInv
<1>11. \A j \in Jobs \ allocated' : jobs'[j].lc = "absent" /\ handed'[j] = NoInstance
  <2> TAKE j \in Jobs \ allocated'
  <2>1. j \notin allocated /\ jobs[j].lc = "absent" /\ handed[j] = NoInstance
    BY <1>2 DEF RecordsInv
  <2>2. j \notin DOMAIN inv
    BY <2>1, InventoryEntry, HandedOutNotQueued
  <2> QED BY <1>2, <1>7, <2>1, <2>2
<1>12. RecordsInv'
  BY <1>8, <1>9, <1>10, <1>11 DEF RecordsInv
<1>13. \A j \in Jobs : jobs'[j].lc = "queued" <=> jobs[j].lc = "queued" /\ Start(j) \notin R
  <2> TAKE j \in Jobs
  <2>1. ASSUME jobs'[j].lc = "queued" PROVE jobs[j].lc = "queued" /\ Start(j) \notin R
    <3>1. inst = i /\ jobs[j].lc = "queued"
      BY <1>7, <2>1
    <3>2. j \notin ReplacedJobs(i, inv)
      BY <3>1 DEF ReplacedJobs
    <3>3. j \notin expired /\ j \notin missing
      BY <1>1, <1>3, <3>1, StatesDisjoint
    <3>4. j \notin ended
      BY <1>1, <3>1, InventoryEntry, HandedOutNotQueued
    <3> QED BY <1>6, <3>1, <3>2, <3>3, <3>4
  <2>2. ASSUME jobs[j].lc = "queued", Start(j) \notin R PROVE jobs'[j].lc = "queued"
    BY <1>5, <1>7, <2>2
  <2> QED BY <2>1, <2>2
<1>14. RequestsInv'
  BY <1>1, <1>2, <1>13, RetireKeepsQueue DEF R
<1> QED BY <1>12, <1>14

-----------------------------------------------------------------------------
(***************************************************************************)
(* The sweep, the passing of time, a restart, and the first state.         *)
(***************************************************************************)
LEMMA SweepInv ==
    ASSUME TypeOK, RecordsInv, RequestsInv, NEW expired \in SUBSET Jobs, NEW pruned \in SUBSET Jobs,
           RecoveryTimeoutSweep(expired, pruned)
    PROVE  RecordsInv' /\ RequestsInv'
<1> DEFINE R == RequestsOf(expired \cup pruned)
<1>1. \A j \in expired : IsRunnerActive(jobs[j].lc)
  BY DEF RecoveryTimeoutSweep, SweepPasses, ExpiredRecoveries, RecoveryExpired, RecoveryActive
<1>2. \A j \in pruned : IsTerminal(jobs[j].lc)
  BY DEF RecoveryTimeoutSweep, SweepPasses, RetentionExpired
<1>3. Retire(R) /\ UNCHANGED <<inst, allocated, handed, stops>>
  BY DEF RecoveryTimeoutSweep, lease, history
<1>4. \A j \in Jobs : Start(j) \in R => jobs[j].lc # "queued"
  BY <1>1, <1>2, RequestsDistinct, StatesDisjoint DEF RequestsOf
<1>5. \A j \in Jobs : jobs'[j] \in {Absent, jobs[j], WithoutCleanupTerminal(jobs[j]),
                                    MarkJobLost(jobs[j], TRUE),
                                    WithoutCleanupTerminal(MarkJobLost(jobs[j], TRUE))}
                      /\ (j \notin expired /\ j \notin pruned =>
                             jobs'[j] \in {jobs[j], WithoutCleanupTerminal(jobs[j])})
  BY DEF RecoveryTimeoutSweep
<1>6. Absent.lc = "absent"
  BY DEF Absent
<1> HIDE DEF R
<1>7. \A j \in Jobs : /\ GoodRecord(jobs'[j], inst)
                      /\ jobs'[j].lc = "queued" <=> jobs[j].lc = "queued"
                      /\ jobs[j].lc = "absent" => jobs'[j].lc = "absent"
  <2> TAKE j \in Jobs
  <2>1. jobs[j] \in JobRecord /\ GoodRecord(jobs[j], inst)
    BY DEF TypeOK, RecordsInv
  <2>2. jobs[j].ces = "not_started" => ~ jobs[j].started
    BY <2>1 DEF GoodRecord
  <2> DEFINE lost == MarkJobLost(jobs[j], TRUE)
  <2>3. GoodRecord(lost, inst)
    BY <2>1, <2>2, GoodLost
  <2>4. lost.lc = IF IsActive(jobs[j].lc) THEN "lost" ELSE jobs[j].lc
    BY <2>1, LostFacts
  <2> HIDE DEF lost
  <2>5. GoodRecord(jobs'[j], inst)
    <3>1. /\ GoodRecord(Absent, inst)
          /\ GoodRecord(WithoutCleanupTerminal(jobs[j]), inst)
          /\ GoodRecord(WithoutCleanupTerminal(lost), inst)
      BY <2>1, <2>3, GoodAbsent, GoodCleanup
    <3> QED BY <1>5, <2>1, <2>3, <3>1 DEF lost
  <2>6. jobs[j].lc = "absent" => jobs'[j].lc = "absent"
    BY <1>5, <1>6, <2>4, CleanupRecord, StatesDisjoint DEF lost
  <2>7. jobs[j].lc = "queued" => jobs'[j].lc = "queued"
    BY <1>1, <1>2, <1>5, CleanupRecord, StatesDisjoint
  <2>8. jobs'[j].lc = "queued" => jobs[j].lc = "queued"
    BY <1>5, <1>6, <2>4, CleanupRecord, StatesDisjoint DEF lost
  <2> QED BY <2>5, <2>6, <2>7, <2>8
<1>8. RecordsInv'
  BY <1>3, <1>7, RecordsFollow
<1>9. RequestsInv'
  BY <1>3, <1>4, <1>7, RetireKeepsQueue
<1> QED BY <1>8, <1>9

LEMMA GoodAged ==
    ASSUME NEW r \in JobRecord, NEW l, GoodRecord(r, l)
    PROVE  GoodRecord(Aged(r), l) /\ Aged(r).lc = r.lc
<1>1. r.age \in Nat /\ Grace \in Nat /\ r.started \in BOOLEAN
  BY ConstantsAssumption DEF JobRecord, ConstantsAssumption
<1>2. ASSUME NEW n \in Nat, RecoveryActive(r) => n <= Grace
      PROVE  GoodRecord([r EXCEPT !.age = n], l) /\ [r EXCEPT !.age = n].lc = r.lc
  <2> DEFINE s == [r EXCEPT !.age = n]
  <2>1. /\ s.lc = r.lc /\ s.phase = r.phase /\ s.ces = r.ces /\ s.age = n
        /\ s.started = r.started /\ s.inst = r.inst
    BY DEF JobRecord
  <2> HIDE DEF s
  <2>2. GoodRecord(s, l)
    BY <1>1, <1>2, <2>1 DEF GoodRecord, RecoveryActive
  <2> QED BY <2>1, <2>2 DEF s
<1>3. CASE RecoveryActive(r)
  <2>1. MinOf(r.age + 1, Grace) \in Nat /\ MinOf(r.age + 1, Grace) <= Grace
    BY <1>1 DEF MinOf
  <2>2. ~ IsTerminal(r.lc)
    BY <1>3, StatesDisjoint DEF RecoveryActive
  <2> QED BY <1>2, <1>3, <2>1, <2>2 DEF Aged
<1>4. CASE ~ RecoveryActive(r) /\ IsTerminal(r.lc)
  <2>1. MinOf(r.age + 1, Retention) \in Nat
    BY <1>1, ConstantsAssumption DEF MinOf, ConstantsAssumption
  <2> QED BY <1>2, <1>4, <2>1 DEF Aged
<1>5. CASE ~ RecoveryActive(r) /\ ~ IsTerminal(r.lc)
  BY <1>5 DEF Aged
<1> QED BY <1>3, <1>4, <1>5

LEMMA TickInv ==
    ASSUME TypeOK, RecordsInv, RequestsInv, Tick
    PROVE  RecordsInv' /\ RequestsInv'
<1>1. \A j \in Jobs : jobs'[j] = Aged(jobs[j])
  BY DEF Tick
<1>2. \A j \in Jobs : GoodRecord(jobs'[j], inst) /\ jobs'[j].lc = jobs[j].lc
  BY <1>1, GoodAged DEF TypeOK, RecordsInv
<1>3. UNCHANGED <<inst, allocated, handed, stops>> /\ UNCHANGED requests
  BY DEF Tick, history
<1>4. RecordsInv'
  BY <1>2, <1>3, RecordsFollow
<1>5. RequestsInv'
  BY <1>2, <1>3, SameQueue
<1> QED BY <1>4, <1>5

LEMMA RestartInv ==
    ASSUME TypeOK, RecordsInv, RequestsInv, Restart
    PROVE  RecordsInv' /\ RequestsInv' /\ RetiredNeverHoldsLease'
<1>1. \A j \in Jobs : jobs'[j] = Absent
  BY DEF Restart
<1>2. Absent.lc = "absent"
  BY DEF Absent
<1>3. \A j \in Jobs : GoodRecord(jobs'[j], inst')
  BY <1>1, GoodAbsent
<1>4. (\A j \in Jobs : GoodRecord(jobs[j], inst))' <=> \A j \in Jobs : GoodRecord(jobs'[j], inst')
  BY DEF GoodRecord, RecoveryActive
<1>5. RecordsInv'
  BY <1>1, <1>2, <1>3, <1>4 DEF RecordsInv, Restart, history
<1>6. Queued' = {} /\ pending' = {} /\ dispatched' = {}
  BY DEF Queued, Restart
<1>7. QueuePlaces'
  BY DEF QueuePlaces, Restart
<1>8. RequestsInv'
  BY <1>1, <1>2, <1>6, <1>7 DEF RequestsInv, QueueIsDispatchable
<1>9. RetiredNeverHoldsLease'
  BY DEF RetiredNeverHoldsLease, Restart
<1> QED BY <1>5, <1>8, <1>9

LEMMA FirstState ==
    ASSUME Init
    PROVE  RecordsInv /\ RequestsInv /\ RetiredNeverHoldsLease
<1>1. \A j \in Jobs : jobs[j] = Absent
  BY DEF Init
<1>2. Absent.lc = "absent"
  BY DEF Absent
<1>3. RecordsInv
  BY <1>1, <1>2, GoodAbsent DEF RecordsInv, Init
<1>4. Queued = {} /\ pending = {} /\ dispatched = {}
  BY DEF Queued, Init
<1>5. QueuePlaces
  BY DEF QueuePlaces, Init
<1>6. RequestsInv
  BY <1>1, <1>2, <1>4, <1>5 DEF RequestsInv, QueueIsDispatchable
<1>7. RetiredNeverHoldsLease
  BY DEF RetiredNeverHoldsLease, Init
<1> QED BY <1>3, <1>6, <1>7

(* The lease moves only by registration, which refuses a tombstoned        *)
(* process and buries the one it replaces.                                 *)
LEMMA RegisterLease ==
    ASSUME TypeOK, RetiredNeverHoldsLease, NEW i \in Instances, NEW inv \in Inventories(i),
           NEW expired \in SUBSET Jobs, Register(i, inv, expired)
    PROVE  RetiredNeverHoldsLease'
<1>1. inst' = i /\ retired' = Tombstones(i) /\ \A n \in 1 .. Len(retired) : retired[n] # i
  BY DEF Register, NotRetired
<1>2. CASE inst \in {i, NoInstance}
  BY <1>1, <1>2 DEF Tombstones, RetiredNeverHoldsLease
<1>3. CASE inst \notin {i, NoInstance}
  <2> DEFINE longer == Append(retired, inst)
  <2>1. inst \in Instances /\ retired \in Seq(Instances)
    BY <1>3 DEF TypeOK
  <2>2. /\ longer \in Seq(Instances) /\ longer # << >>
        /\ Len(longer) = Len(retired) + 1 /\ Len(retired) \in Nat
        /\ \A n \in 1 .. Len(retired) : longer[n] = retired[n]
        /\ longer[Len(retired) + 1] = inst
    BY <2>1, AppendProperties
  <2>3. retired' = IF Len(longer) > MaxRetired THEN Tail(longer) ELSE longer
    BY <1>1, <1>3 DEF Tombstones
  <2> HIDE DEF longer
  <2>4. \A n \in 1 .. Len(longer) : longer[n] # i
    <3> TAKE n \in 1 .. Len(longer)
    <3>1. n \in 1 .. Len(retired) \/ n = Len(retired) + 1
      BY <2>2
    <3> QED BY <1>1, <1>3, <2>2, <3>1
  <2>5. Len(Tail(longer)) = Len(longer) - 1 /\ \A n \in 1 .. Len(Tail(longer)) : Tail(longer)[n] = longer[n + 1]
    BY <2>2, HeadTailProperties
  <2>6. \A n \in 1 .. Len(Tail(longer)) : Tail(longer)[n] # i
    <3> TAKE n \in 1 .. Len(Tail(longer))
    <3>1. n + 1 \in 1 .. Len(longer)
      BY <2>2, <2>5
    <3> QED BY <2>4, <2>5, <3>1
  <2> QED BY <1>1, <2>3, <2>4, <2>6 DEF RetiredNeverHoldsLease
<1> QED BY <1>2, <1>3

-----------------------------------------------------------------------------
(***************************************************************************)
(* The invariant.                                                          *)
(***************************************************************************)
LEMMA PartsStep ==
    ASSUME TypeOK, RecordsInv, RequestsInv, RetiredNeverHoldsLease, [Next]_vars
    PROVE  RecordsInv' /\ RequestsInv' /\ RetiredNeverHoldsLease'
<1>1. CASE \E j \in Jobs : StartJob(j)
  BY <1>1, StartJobInv, LeaseKept DEF StartJob, lease
<1>2. CASE \E j \in Jobs : RefreshJob(j)
  BY <1>2, RefreshJobInv, LeaseKept DEF RefreshJob, lease
<1>3. CASE \E j \in Jobs : StopJob(j)
  BY <1>3, StopJobInv, LeaseKept DEF StopJob, lease
<1>4. CASE \E j \in Jobs, retain \in BOOLEAN : PublishHiddenJob(j, retain)
  BY <1>4, PublishInv, LeaseKept DEF PublishHiddenJob, lease
<1>5. CASE \E j \in Jobs : RecordHiddenCleanupIntent(j)
  BY <1>5, IdleInv, LeaseKept DEF RecordHiddenCleanupIntent, lease
<1>6. CASE \E j \in Jobs : CancelHiddenJob(j)
  BY <1>6, CancelInv, LeaseKept DEF CancelHiddenJob, lease
<1>7. CASE \E j \in Jobs : RemoveProjectedHiddenJob(j)
  BY <1>7, RemoveProjectedInv, LeaseKept DEF RemoveProjectedHiddenJob
<1>8. CASE BeginProjectUnregister
  BY <1>8, UnregisterInv, LeaseKept DEF BeginProjectUnregister, lease
<1>9. CASE EndProjectUnregister
  BY <1>9, IdleInv, LeaseKept DEF EndProjectUnregister, lease
<1>10. CASE \E i \in Instances : TouchRunner(i)
  BY <1>10, IdleInv, LeaseKept DEF TouchRunner, Seen
<1>11. CASE \E i \in Instances, stale \in SUBSET InputJobs :
               PollEmpty(i, stale) \/ \E first \in Request : Poll(i, stale, first)
  <2>1. PICK i \in Instances, stale \in SUBSET InputJobs :
               PollEmpty(i, stale) \/ \E first \in Request : Poll(i, stale, first)
    BY <1>11
  <2>2. CASE PollEmpty(i, stale)
    BY <2>2, PollEmptyInv, LeaseKept DEF PollEmpty, Seen
  <2>3. CASE \E first \in Request : Poll(i, stale, first)
    BY <2>3, PollInv, LeaseKept DEF Poll, Seen
  <2> QED BY <2>1, <2>2, <2>3
<1>12. CASE \E i \in Instances, j \in Jobs, rep \in Reports, seq \in 1 .. MaxSeq,
              snapshot \in BOOLEAN, live \in BOOLEAN : UpdateJob(i, j, rep, seq, snapshot, live)
  <2>1. PICK i \in Instances, j \in Jobs, rep \in Reports, seq \in 1 .. MaxSeq,
              snapshot \in BOOLEAN, live \in BOOLEAN : UpdateJob(i, j, rep, seq, snapshot, live)
    BY <1>12
  <2>2. UNCHANGED <<inst, retired>>
    BY <2>1 DEF UpdateJob, Seen
  <2> QED BY <2>1, <2>2, UpdateInv, LeaseKept
<1>13. CASE \E i \in Instances, j \in Jobs, success \in BOOLEAN, live \in BOOLEAN :
              CompleteJob(i, j, success, live)
  BY <1>13, CompleteInv, LeaseKept DEF CompleteJob, Seen
<1>14. CASE Disconnect
  BY <1>14, DisconnectInv, LeaseKept DEF Disconnect
<1>15. CASE \E i \in Instances, expired \in SUBSET Jobs : \E inv \in Inventories(i) :
              Register(i, inv, expired)
  BY <1>15, RegisterInv, RegisterLease
<1>16. CASE \E expired \in SUBSET Jobs, pruned \in SUBSET Jobs : RecoveryTimeoutSweep(expired, pruned)
  BY <1>16, SweepInv, LeaseKept DEF RecoveryTimeoutSweep, lease
<1>17. CASE Tick
  BY <1>17, TickInv, LeaseKept DEF Tick
<1>18. CASE Restart
  BY <1>18, RestartInv
<1>19. CASE vars' = vars
  BY <1>19, IdleInv, LeaseKept DEF vars, lease
<1> QED BY <1>1, <1>2, <1>3, <1>4, <1>5, <1>6, <1>7, <1>8, <1>9, <1>10, <1>11, <1>12, <1>13, <1>14,
           <1>15, <1>16, <1>17, <1>18, <1>19 DEF Next

LEMMA InvInit == Init => RegistryInv
BY InitType, FirstState, InvParts

LEMMA InvStep == RegistryInv /\ [Next]_vars => RegistryInv'
<1> SUFFICES ASSUME RegistryInv, [Next]_vars PROVE RegistryInv'
  OBVIOUS
<1>1. TypeOK /\ RetiredNeverHoldsLease /\ RecordsInv /\ RequestsInv
  BY InvParts
<1>2. TypeOK' /\ RecordsInv' /\ RequestsInv' /\ RetiredNeverHoldsLease'
  BY <1>1, TypeStep, PartsStep
<1>3. (TypeOK /\ RetiredNeverHoldsLease /\ RecordsInv /\ RequestsInv => RegistryInv)'
  BY InvParts, PTL
<1> QED BY <1>2, <1>3

(* RegistryInv is an invariant of the registry. *)
THEOREM RegistryInvariant == Spec => []RegistryInv
BY InvInit, InvStep, PTL DEF Spec

(* A start is dispatchable exactly while its job is queued, whatever       *)
(* handlers interleave (QueueIsDispatchable).                              *)
THEOREM QueueSafe == Spec => []QueueIsDispatchable
<1>1. RegistryInv => QueueIsDispatchable
  BY DEF RegistryInv
<1> QED BY <1>1, RegistryInvariant, PTL

(* No active job is orphaned: each one belongs to the process that holds   *)
(* the lease (LeaseOwnsActiveJobs).                                        *)
THEOREM NoOrphans == Spec => []LeaseOwnsActiveJobs
<1>1. RegistryInv => LeaseOwnsActiveJobs
  BY DEF RegistryInv
<1> QED BY <1>1, RegistryInvariant, PTL

(* A replaced process whose tombstone is kept never holds the lease again  *)
(* (RetiredNeverHoldsLease).                                               *)
THEOREM LeaseSafe == Spec => []RetiredNeverHoldsLease
<1>1. RegistryInv => RetiredNeverHoldsLease
  BY DEF RegistryInv
<1> QED BY <1>1, RegistryInvariant, PTL

(* What the Server calls not_started it never recorded a start of          *)
(* (NotStartedWasNotSeenToStart).                                          *)
THEOREM NotStartedSound == Spec => []NotStartedWasNotSeenToStart
<1>1. RegistryInv => NotStartedWasNotSeenToStart
  BY DEF RegistryInv
<1> QED BY <1>1, RegistryInvariant, PTL
=============================================================================
