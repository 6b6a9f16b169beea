-------------------------- MODULE JobRegistryStepProofs --------------------------
(***************************************************************************)
(* What a step of JobRegistry never does: the action properties of the     *)
(* registry, from its invariant RegistryInv.                               *)
(***************************************************************************)
EXTENDS JobRegistryInvProofs
-----------------------------------------------------------------------------
(***************************************************************************)
(* A start is handed out once.                                             *)
(***************************************************************************)
HandedOnce(j) ==
    Start(j) \in dispatched' \ dispatched =>
        /\ handed[j] = NoInstance
        /\ jobs[j].lc = "queued"
        /\ jobs[j].inst = inst /\ handed'[j] = inst

LEMMA PollHandsOnce ==
    ASSUME RegistryInv, NEW i \in Instances, NEW stale \in SUBSET InputJobs, NEW first \in Request,
           Poll(i, stale, first), NEW j \in Jobs
    PROVE  HandedOnce(j)
<1> SUFFICES ASSUME Start(j) \in dispatched' \ dispatched
             PROVE  /\ handed[j] = NoInstance
                    /\ jobs[j].lc = "queued"
                    /\ jobs[j].inst = inst /\ handed'[j] = inst
  BY DEF HandedOnce
<1>1. first = Start(j)
  BY DEF Poll
<1>2. jobs[j].lc = "queued"
  BY <1>1 DEF Poll, Takeable, RegistryInv, QueueIsDispatchable
<1>3. handed[j] = NoInstance
  BY <1>2 DEF RegistryInv, RecordsConsistent
<1>4. jobs[j].inst = inst
  BY <1>2, StatesDisjoint DEF RegistryInv, LeaseOwnsActiveJobs
<1>5. handed'[j] = inst
  BY <1>1 DEF Poll
<1> QED BY <1>2, <1>3, <1>4, <1>5

LEMMA OnlyPollHands ==
    ASSUME [Next]_vars,
           ~ (\E i \in Instances, stale \in SUBSET InputJobs :
                 PollEmpty(i, stale) \/ \E first \in Request : Poll(i, stale, first))
    PROVE  dispatched' \subseteq dispatched
<1>1. CASE \E j \in Jobs : StartJob(j)
  BY <1>1 DEF StartJob, Enqueue
<1>2. CASE \E j \in Jobs : RefreshJob(j)
  BY <1>2 DEF RefreshJob, requests
<1>3. CASE \E j \in Jobs : StopJob(j)
  BY <1>3 DEF StopJob, Retire, RequestStop, Enqueue
<1>4. CASE \E j \in Jobs, retain \in BOOLEAN : PublishHiddenJob(j, retain)
  BY <1>4 DEF PublishHiddenJob, requests
<1>5. CASE \E j \in Jobs : RecordHiddenCleanupIntent(j)
  BY <1>5 DEF RecordHiddenCleanupIntent, requests
<1>6. CASE \E j \in Jobs : CancelHiddenJob(j)
  BY <1>6 DEF CancelHiddenJob, CancelQueued, Retire, RequestStop, Enqueue, requests
<1>7. CASE \E j \in Jobs : RemoveProjectedHiddenJob(j)
  BY <1>7 DEF RemoveProjectedHiddenJob, Retire
<1>8. CASE BeginProjectUnregister \/ EndProjectUnregister
  BY <1>8 DEF BeginProjectUnregister, EndProjectUnregister, requests
<1>9. CASE \E i \in Instances : TouchRunner(i)
  BY <1>9 DEF TouchRunner, requests
<1>10. CASE \E i \in Instances, j \in Jobs, rep \in Reports, seq \in 1 .. MaxSeq,
              snapshot \in BOOLEAN, live \in BOOLEAN : UpdateJob(i, j, rep, seq, snapshot, live)
  <2>1. PICK i \in Instances, j \in Jobs, rep \in Reports, seq \in 1 .. MaxSeq,
              snapshot \in BOOLEAN, live \in BOOLEAN : UpdateJob(i, j, rep, seq, snapshot, live)
    BY <1>10
  <2>2. DropPending({Start(j)}) \/ UNCHANGED requests
    BY <2>1 DEF UpdateJob
  <2> QED BY <2>2 DEF DropPending, requests
<1>11. CASE \E i \in Instances, j \in Jobs, success \in BOOLEAN, live \in BOOLEAN :
              CompleteJob(i, j, success, live)
  BY <1>11 DEF CompleteJob, DropPending
<1>12. CASE Disconnect
  BY <1>12 DEF Disconnect, Retire
<1>13. CASE \E i \in Instances, expired \in SUBSET Jobs : \E inv \in Inventories(i) :
              Register(i, inv, expired)
  BY <1>13, RegisterRetires DEF Retire
<1>14. CASE \E expired \in SUBSET Jobs, pruned \in SUBSET Jobs : RecoveryTimeoutSweep(expired, pruned)
  BY <1>14 DEF RecoveryTimeoutSweep, Retire
<1>15. CASE Tick
  BY <1>15 DEF Tick, requests
<1>16. CASE Restart
  BY <1>16 DEF Restart
<1>17. CASE vars' = vars
  BY <1>17 DEF vars, requests
<1> QED BY <1>1, <1>2, <1>3, <1>4, <1>5, <1>6, <1>7, <1>8, <1>9, <1>10, <1>11, <1>12, <1>13, <1>14,
           <1>15, <1>16, <1>17 DEF Next

(* The start of a job is handed out at most once, to the process that held *)
(* the lease when the job was admitted, and only while the Server reports  *)
(* the job as queued (StartHandedOnce).                                    *)
THEOREM StartOnce == Spec => StartHandedOnce
<1>1. RegistryInv /\ [Next]_vars => [\A j \in Jobs : HandedOnce(j)]_vars
  <2> SUFFICES ASSUME RegistryInv, [Next]_vars PROVE \A j \in Jobs : HandedOnce(j)
    OBVIOUS
  <2>1. CASE \E i \in Instances, stale \in SUBSET InputJobs :
                 PollEmpty(i, stale) \/ \E first \in Request : Poll(i, stale, first)
    <3>1. PICK i \in Instances, stale \in SUBSET InputJobs :
                 PollEmpty(i, stale) \/ \E first \in Request : Poll(i, stale, first)
      BY <2>1
    <3>2. CASE PollEmpty(i, stale)
      BY <3>2 DEF PollEmpty, HandedOnce
    <3>3. CASE \E first \in Request : Poll(i, stale, first)
      BY <3>3, PollHandsOnce
    <3> QED BY <3>1, <3>2, <3>3
  <2>2. CASE ~ \E i \in Instances, stale \in SUBSET InputJobs :
                 PollEmpty(i, stale) \/ \E first \in Request : Poll(i, stale, first)
    BY <2>2, OnlyPollHands DEF HandedOnce
  <2> QED BY <2>1, <2>2
<1>2. [\A j \in Jobs : HandedOnce(j)]_vars =>
      [\A j \in Jobs : Start(j) \in dispatched' \ dispatched =>
          /\ handed[j] = NoInstance
          /\ jobs[j].lc = "queued"
          /\ jobs[j].inst = inst /\ handed'[j] = inst]_vars
  BY DEF HandedOnce
<1> QED BY <1>1, <1>2, RegistryInvariant, PTL DEF Spec, StartHandedOnce

-----------------------------------------------------------------------------
(***************************************************************************)
(* A record never changes its terminal class, goes back in update_seq or   *)
(* moves its recovery deadline.                                            *)
(***************************************************************************)
Final(r, s) ==
    IsTerminal(r.lc) /\ r.vis # "cleanup_pending" /\ Present(s) => s.lc = r.lc

Monotone(r, s) ==
    /\ Present(r) /\ r.vis # "cleanup_pending" /\ Present(s) => s.seq >= r.seq
    /\ RecoveryActive(r) /\ RecoveryActive(s) => s.age >= r.age

Sound(r, s) == Final(r, s) /\ Monotone(r, s)

LEMMA SoundSame ==
    ASSUME NEW r \in JobRecord
    PROVE  Sound(r, r) /\ Sound(r, Absent)
<1>1. r.seq \in Nat /\ r.age \in Nat
  BY DEF JobRecord
<1>2. ~ Present(Absent) /\ ~ RecoveryActive(Absent)
  BY DEF Present, Absent, RecoveryActive
<1> QED BY <1>1, <1>2 DEF Sound, Final, Monotone

(* What is lost, and what is refreshed, keeps its sequence number. *)
LEMMA SoundLost ==
    ASSUME NEW r \in JobRecord, NEW b \in BOOLEAN
    PROVE  Sound(r, MarkJobLost(r, b))
<1>1. CASE ~ IsActive(r.lc)
  BY <1>1, LostFacts, SoundSame
<1>2. CASE IsActive(r.lc)
  <2>1. MarkJobLost(r, b).lc = "lost" /\ MarkJobLost(r, b).seq = r.seq /\ r.seq \in Nat
    BY <1>2, LostFacts DEF JobRecord
  <2>2. ~ IsTerminal(r.lc) /\ ~ IsRunnerActive("lost")
    BY <1>2, StatesDisjoint
  <2> QED BY <2>1, <2>2 DEF Sound, Final, Monotone, RecoveryActive
<1> QED BY <1>1, <1>2

LEMMA SoundRecovery ==
    ASSUME NEW r \in JobRecord
    PROVE  Sound(r, BeginJobRecovery(r))
<1>1. r.seq \in Nat /\ r.age \in Nat
  BY DEF JobRecord
<1> QED BY <1>1, RecoveryFacts DEF Sound, Final, Monotone

LEMMA SoundRefreshed ==
    ASSUME NEW r \in JobRecord
    PROVE  Sound(r, Refreshed(r))
BY RefreshCases, SoundSame, SoundLost, SoundRecovery

LEMMA SoundCleanup ==
    ASSUME NEW r \in JobRecord, NEW s, Sound(r, s)
    PROVE  Sound(r, WithoutCleanupTerminal(s))
BY SoundSame DEF WithoutCleanupTerminal

(* A record that is not terminal may take any lifecycle value, as long as  *)
(* it leaves recovery or keeps its deadline.                               *)
LEMMA SoundActive ==
    ASSUME NEW r \in JobRecord, NEW s, ~ IsTerminal(r.lc), s.seq \in Nat, s.seq >= r.seq,
           ~ RecoveryActive(r) \/ ~ RecoveryActive(s)
    PROVE  Sound(r, s)
BY DEF Sound, Final, Monotone

LEMMA SoundVisibility ==
    ASSUME NEW r \in JobRecord, NEW s \in JobRecord, Sound(r, s), NEW v \in Visibility
    PROVE  Sound(r, [s EXCEPT !.vis = v])
<1> DEFINE t == [s EXCEPT !.vis = v]
<1>1. t.lc = s.lc /\ t.seq = s.seq /\ t.age = s.age /\ t.phase = s.phase
  BY DEF JobRecord
<1> HIDE DEF t
<1>2. Sound(r, t)
  BY <1>1 DEF Sound, Final, Monotone, Present, RecoveryActive
<1> QED BY <1>2 DEF t

LEMMA SoundUpdated ==
    ASSUME NEW r \in JobRecord, ~ IsTerminal(r.lc), NEW rep \in Report, NEW seq \in Nat, seq >= r.seq
    PROVE  Sound(r, Updated(r, rep, seq))
<1> DEFINE s == Updated(r, rep, seq)
<1>1. CASE ~ ValidExecutionState(rep.st, rep.ces, r.started)
  <2> DEFINE e == Ended(r, "failed")
  <2>1. e \in JobRecord /\ e.lc = "failed"
    BY EndedType, StopLifecycle DEF Ended, JobRecord
  <2>2. s = [e EXCEPT !.ces = LostExecutionState(r), !.seq = seq]
    BY <1>1 DEF Updated
  <2> HIDE DEF e
  <2>3. s.lc = "failed" /\ s.seq = seq
    BY <2>1, <2>2 DEF JobRecord
  <2>4. ~ RecoveryActive(s)
    BY <2>3 DEF RecoveryActive, IsRunnerActive, RunnerActiveStates
  <2> HIDE DEF s
  <2>5. Sound(r, s)
    BY <2>3, <2>4, SoundActive
  <2> QED BY <2>5 DEF s
<1>2. CASE ValidExecutionState(rep.st, rep.ces, r.started)
  <2> DEFINE started == \/ r.started
                        \/ /\ rep.ces # "not_started"
                           /\ rep.st \in {"running", "completed", "failed", "stopped", "timeout"}
             phase == IF RecoveryActive(r) THEN "reconciled" ELSE r.phase
             ces == IF IsTerminal(rep.st) THEN rep.ces ELSE r.ces
             age == IF IsTerminal(rep.st) \/ RecoveryActive(r) THEN 0 ELSE r.age
  <2>1. s = [r EXCEPT !.lc = rep.st, !.started = started, !.seq = seq, !.phase = phase,
                      !.age = age, !.ces = ces]
    BY <1>2 DEF Updated
  <2>2. s.seq = seq /\ s.phase = phase
    <3> HIDE DEF s, started, phase, ces, age
    <3> QED BY <2>1 DEF JobRecord
  <2>3. ~ RecoveryActive(r) \/ ~ RecoveryActive(s)
    BY <2>2 DEF RecoveryActive
  <2> HIDE DEF s
  <2>4. Sound(r, s)
    BY <2>2, <2>3, SoundActive
  <2> QED BY <2>4 DEF s
<1> QED BY <1>1, <1>2

LEMMA SoundAged ==
    ASSUME NEW r \in JobRecord, RecoveryActive(r) => r.age <= Grace
    PROVE  Sound(r, Aged(r))
<1>1. r.age \in Nat /\ r.seq \in Nat /\ Grace \in Nat /\ Retention \in Nat
  BY ConstantsAssumption DEF JobRecord, ConstantsAssumption
<1>2. ASSUME NEW n \in Nat, RecoveryActive(r) => n >= r.age
      PROVE  Sound(r, [r EXCEPT !.age = n])
  <2> DEFINE s == [r EXCEPT !.age = n]
  <2>1. s.lc = r.lc /\ s.seq = r.seq /\ s.age = n /\ s.vis = r.vis
    BY DEF JobRecord
  <2> HIDE DEF s
  <2>2. Sound(r, s)
    BY <1>1, <1>2, <2>1 DEF Sound, Final, Monotone
  <2> QED BY <2>2 DEF s
<1>3. CASE RecoveryActive(r)
  <2>1. MinOf(r.age + 1, Grace) \in Nat /\ MinOf(r.age + 1, Grace) >= r.age
    BY <1>1, <1>3 DEF MinOf
  <2>2. ~ IsTerminal(r.lc)
    BY <1>3, StatesDisjoint DEF RecoveryActive
  <2> QED BY <1>2, <1>3, <2>1, <2>2 DEF Aged
<1>4. CASE ~ RecoveryActive(r) /\ IsTerminal(r.lc)
  <2>1. MinOf(r.age + 1, Retention) \in Nat
    BY <1>1 DEF MinOf
  <2> QED BY <1>2, <1>4, <2>1 DEF Aged
<1>5. CASE ~ RecoveryActive(r) /\ ~ IsTerminal(r.lc)
  BY <1>5, SoundSame DEF Aged
<1> QED BY <1>3, <1>4, <1>5

(***************************************************************************)
(* A registration traces a record: it is untouched, lost, or removed under *)
(* cleanup before the inventory is applied.                                *)
(***************************************************************************)
Traced(r, s) ==
    \/ s = r
    \/ s = MarkJobLost(r, TRUE)
    \/ s = Absent /\ r.vis = "cleanup_pending"

LEMMA TracedLost ==
    ASSUME NEW r \in JobRecord, NEW s, Traced(r, s)
    PROVE  Traced(r, MarkJobLost(s, TRUE))
<1>1. CASE s = r
  BY <1>1 DEF Traced
<1>2. CASE s = MarkJobLost(r, TRUE)
  <2>1. s \in JobRecord /\ ~ IsActive(s.lc)
    BY <1>2, LostType, LostFacts, StatesDisjoint
  <2>2. MarkJobLost(s, TRUE) = s
    BY <2>1, LostFacts
  <2> QED BY <1>2, <2>2 DEF Traced
<1>3. CASE s = Absent /\ r.vis = "cleanup_pending"
  <2>1. MarkJobLost(Absent, TRUE) = Absent
    BY DEF MarkJobLost, Present, Absent
  <2> QED BY <1>3, <2>1 DEF Traced
<1> QED BY <1>1, <1>2, <1>3 DEF Traced

LEMMA TracedCleanup ==
    ASSUME NEW r \in JobRecord, NEW s, Traced(r, s)
    PROVE  Traced(r, WithoutCleanupTerminal(s))
<1>1. s.vis = r.vis \/ s = Absent
  BY LostFacts DEF Traced
<1>2. Absent.vis # "cleanup_pending"
  BY DEF Absent
<1> QED BY <1>1, <1>2 DEF Traced, WithoutCleanupTerminal

LEMMA RegisterTraces ==
    ASSUME TypeOK, NEW i, NEW inv, NEW j \in Jobs
    PROVE  /\ Traced(jobs[j], KeptRecord(j, i, inv))
           /\ \A late \in BOOLEAN, nothing \in BOOLEAN :
                 Traced(jobs[j], SweptRecord(KeptRecord(j, i, inv), late, nothing))
<1>1. jobs[j] \in JobRecord
  BY DEF TypeOK
<1>2. Traced(jobs[j], jobs[j])
  BY DEF Traced
<1>3. Traced(jobs[j], KeptRecord(j, i, inv))
  BY <1>1, <1>2, TracedLost, TracedCleanup DEF KeptRecord
<1>4. ASSUME NEW late \in BOOLEAN, NEW nothing \in BOOLEAN
      PROVE  Traced(jobs[j], SweptRecord(KeptRecord(j, i, inv), late, nothing))
  BY <1>1, <1>3, TracedLost, TracedCleanup DEF SweptRecord
<1> QED BY <1>3, <1>4

LEMMA SoundTraced ==
    ASSUME NEW r \in JobRecord, NEW s, Traced(r, s)
    PROVE  Sound(r, s)
BY SoundSame, SoundLost DEF Traced

LEMMA SnapshotFields ==
    ASSUME NEW r \in JobRecord, NEW i \in Instances, NEW rep \in Report, NEW seq \in Nat
    PROVE  LET t == FromSnapshot(r, i, [rep |-> rep, seq |-> seq])
           IN  t.seq = seq /\ ~ RecoveryActive(t)
BY DEF FromSnapshot, RecoveryActive, JobRecord

LEMMA SoundReconciled ==
    ASSUME NEW i \in Instances, NEW inv \in Inventories(i), NEW j \in Jobs,
           NEW r \in JobRecord, NEW s, Traced(r, s)
    PROVE  Sound(r, Reconciled(j, s, i, inv))
<1> DEFINE t == Reconciled(j, s, i, inv)
<1>1. s \in JobRecord
  BY AbsentType, LostType DEF Traced
<1>2. CASE j \notin DOMAIN inv
  <2>1. t = s \/ t = MarkJobLost(s, TRUE)
    BY <1>2 DEF Reconciled
  <2> QED BY <2>1, TracedLost, SoundTraced
<1>3. CASE j \in DOMAIN inv
  <2>1. PICK rep \in Report, seq \in Nat : inv[j] = [rep |-> rep, seq |-> seq]
    BY <1>3, InventoryEntry
  <2>2. CASE Present(s) /\ SnapshotApplies(s, i, inv[j])
    <3>1. t = FromSnapshot(s, i, inv[j])
      BY <1>3, <2>2 DEF Reconciled
    <3>2. t.seq = seq /\ ~ RecoveryActive(t)
      BY <1>1, <2>1, <3>1, SnapshotFields
    <3>3. ~ IsTerminal(s.lc) /\ seq >= s.seq
      <4>1. s.seq \in Nat /\ inv[j].seq = seq
        BY <1>1, <2>1 DEF JobRecord
      <4> QED BY <2>2, <4>1 DEF SnapshotApplies
    <3>4. s = r
      <4>1. IsActive(r.lc) => MarkJobLost(r, TRUE).lc = "lost"
        BY LostFacts
      <4>2. ~ IsActive(r.lc) => MarkJobLost(r, TRUE) = r
        BY LostFacts
      <4>3. s # Absent
        BY <2>2 DEF Present, Absent
      <4> QED BY <3>3, <4>1, <4>2, <4>3, StatesDisjoint DEF Traced
    <3> HIDE DEF t
    <3>5. Sound(r, t)
      BY <3>2, <3>3, <3>4, SoundActive
    <3> QED BY <3>5 DEF t
  <2>3. CASE ~ Present(s) /\ t = FromSnapshot(Absent, i, inv[j])
    <3>1. ~ RecoveryActive(t)
      BY <2>1, <2>3, SnapshotFields, AbsentType
    <3>2. r.vis = "cleanup_pending" \/ (~ Present(r) /\ ~ IsTerminal(r.lc))
      <4>1. CASE s = Absent /\ r.vis = "cleanup_pending"
        BY <4>1
      <4>2. CASE s = r
        BY <2>3, <4>2, StatesDisjoint DEF Present
      <4>3. CASE s = MarkJobLost(r, TRUE)
        BY <2>3, <4>3, LostFacts, StatesDisjoint DEF Present
      <4> QED BY <4>1, <4>2, <4>3 DEF Traced
    <3> HIDE DEF t
    <3>3. Sound(r, t)
      BY <3>1, <3>2 DEF Sound, Final, Monotone
    <3> QED BY <3>3 DEF t
  <2>4. CASE t = s
    BY <2>4, SoundTraced
  <2> QED BY <1>3, <2>2, <2>3, <2>4 DEF Reconciled
<1> QED BY <1>2, <1>3

LEMMA RegisterSound ==
    ASSUME TypeOK, NEW i \in Instances, NEW inv \in Inventories(i), NEW expired \in SUBSET Jobs,
           Register(i, inv, expired), NEW j \in Jobs
    PROVE  Sound(jobs[j], jobs'[j])
<1> DEFINE kept == KeptRecord(j, i, inv)
           swept == SweptRecord(kept, j \in expired, expired = {})
<1>1. jobs[j] \in JobRecord
  BY DEF TypeOK
<1>2. jobs'[j] = IF i \in ReconInstances THEN WithoutCleanupTerminal(Reconciled(j, swept, i, inv))
                 ELSE kept
  BY RegisteredRecords
<1>3. Traced(jobs[j], kept) /\ Traced(jobs[j], swept)
  <2>1. (j \in expired) \in BOOLEAN /\ (expired = {}) \in BOOLEAN
    OBVIOUS
  <2> QED BY <2>1, RegisterTraces, Zenon
<1> HIDE DEF kept, swept
<1>4. Sound(jobs[j], kept) /\ Sound(jobs[j], Reconciled(j, swept, i, inv))
  BY <1>1, <1>3, SoundTraced, SoundReconciled
<1> QED BY <1>1, <1>2, <1>4, SoundCleanup

LEMMA SoundOne ==
    ASSUME TypeOK, NEW m \in Jobs, NEW s, jobs' = [jobs EXCEPT ![m] = s], Sound(jobs[m], s),
           NEW j \in Jobs
    PROVE  Sound(jobs[j], jobs'[j])
<1>1. jobs[j] \in JobRecord /\ jobs'[j] = IF j = m THEN s ELSE jobs[j]
  BY DEF TypeOK
<1> QED BY <1>1, SoundSame

LEMMA SoundNotStarted ==
    ASSUME NEW r \in JobRecord, r.lc = "queued", NEW st \in {"stopped", "failed"}
    PROVE  Sound(r, [Ended(r, st) EXCEPT !.ces = "not_started"])
<1> DEFINE s == [Ended(r, st) EXCEPT !.ces = "not_started"]
<1>1. st \in Lifecycle
  BY DEF Lifecycle, TerminalStates
<1>2. Ended(r, st) \in JobRecord /\ Ended(r, st).seq = r.seq
  BY <1>1, EndedType DEF Ended, JobRecord
<1>3. s.seq = r.seq /\ r.seq \in Nat
  BY <1>2 DEF JobRecord
<1>4. ~ IsTerminal(r.lc) /\ ~ RecoveryActive(r)
  BY DEF IsTerminal, TerminalStates, RecoveryActive, IsRunnerActive, RunnerActiveStates
<1> HIDE DEF s
<1>5. Sound(r, s)
  BY <1>3, <1>4, SoundActive
<1> QED BY <1>5 DEF s

(* A stop request is recorded on a refreshed record out of recovery. *)
LEMMA SoundStop ==
    ASSUME NEW r \in JobRecord, NEW s \in JobRecord, Sound(r, s),
           s.lc \in {"agent_queued", "running"}, ~ RecoveryActive(s)
    PROVE  Sound(r, [s EXCEPT !.lc = "stop_requested"])
<1> DEFINE t == [s EXCEPT !.lc = "stop_requested"]
<1>1. t.lc = "stop_requested" /\ t.seq = s.seq /\ t.phase = s.phase
  BY DEF JobRecord
<1>2. ~ RecoveryActive(t)
  BY <1>1 DEF RecoveryActive, IsRunnerActive, RunnerActiveStates
<1>3. ~ IsTerminal(s.lc) /\ Present(s)
  BY DEF IsTerminal, TerminalStates, Present
<1> HIDE DEF t
<1>4. Sound(r, t)
  BY <1>1, <1>2, <1>3 DEF Sound, Final, Monotone
<1> QED BY <1>4 DEF t

LEMMA StopSound ==
    ASSUME TypeOK, NEW m \in Jobs, StopJob(m), NEW j \in Jobs
    PROVE  Sound(jobs[j], jobs'[j])
<1> DEFINE r == Refreshed(jobs[m])
<1>1. jobs[m] \in JobRecord /\ r \in JobRecord /\ Sound(jobs[m], r)
  BY RefreshType, SoundRefreshed DEF TypeOK
<1>2. ~ RecoveryActive(r)
  BY DEF StopJob
<1>3. CASE r.lc = "queued" /\ jobs' = [jobs EXCEPT ![m] = [Ended(r, "stopped") EXCEPT !.ces = "not_started"]]
  <2>1. r = jobs[m]
    BY <1>1, <1>3, RefreshFacts, StatesDisjoint
  <2> HIDE DEF r
  <2>2. Sound(jobs[m], [Ended(r, "stopped") EXCEPT !.ces = "not_started"])
    BY <1>1, <1>3, <2>1, SoundNotStarted
  <2> QED BY <1>3, <2>2, SoundOne
<1>4. CASE r.lc \in {"agent_queued", "running"} /\ RequestStop(m, r)
  <2> HIDE DEF r
  <2>1. Sound(jobs[m], [r EXCEPT !.lc = "stop_requested"])
    BY <1>1, <1>2, <1>4, SoundStop
  <2> QED BY <1>4, <2>1, SoundOne DEF RequestStop
<1> QED BY <1>3, <1>4 DEF StopJob

LEMMA PublishSound ==
    ASSUME TypeOK, NEW m \in Jobs, NEW retain \in BOOLEAN, PublishHiddenJob(m, retain), NEW j \in Jobs
    PROVE  Sound(jobs[j], jobs'[j])
<1> DEFINE r == Refreshed(jobs[m])
<1>1. jobs[m] \in JobRecord /\ r \in JobRecord /\ Sound(jobs[m], r)
  BY RefreshType, SoundRefreshed DEF TypeOK
<1>2. jobs' = [jobs EXCEPT ![m] = r] \/ jobs' = [jobs EXCEPT ![m] = [r EXCEPT !.vis = "public"]]
  BY DEF PublishHiddenJob
<1> HIDE DEF r
<1>3. Sound(jobs[m], [r EXCEPT !.vis = "public"])
  BY <1>1, SoundVisibility DEF Visibility
<1> QED BY <1>1, <1>2, <1>3, SoundOne

LEMMA CancelSound ==
    ASSUME TypeOK, NEW m \in Jobs, CancelHiddenJob(m), NEW j \in Jobs
    PROVE  Sound(jobs[j], jobs'[j])
<1> DEFINE r == Refreshed(jobs[m])
           private == [r EXCEPT !.vis = "cleanup_pending"]
<1>1. jobs[m] \in JobRecord /\ r \in JobRecord /\ Sound(jobs[m], r)
  BY RefreshType, SoundRefreshed DEF TypeOK
<1>2. \/ jobs' = [jobs EXCEPT ![m] = r]
      \/ jobs' = [jobs EXCEPT ![m] = Absent]
      \/ jobs' = [jobs EXCEPT ![m] = private]
      \/ r.lc \in {"agent_queued", "running"} /\ ~ RecoveryActive(r) /\ RequestStop(m, private)
  BY DEF CancelHiddenJob, CancelQueued
<1>3. /\ Sound(jobs[m], private) /\ private \in JobRecord
      /\ private.lc = r.lc /\ private.phase = r.phase
  <2> HIDE DEF r
  <2>1. Sound(jobs[m], private) /\ private \in JobRecord
    BY <1>1, SoundVisibility, FieldTypes DEF Visibility
  <2>2. private.lc = r.lc /\ private.phase = r.phase
    BY <1>1 DEF JobRecord
  <2> QED BY <2>1, <2>2
<1> HIDE DEF r, private
<1>4. CASE r.lc \in {"agent_queued", "running"} /\ ~ RecoveryActive(r) /\ RequestStop(m, private)
  <2>1. ~ RecoveryActive(private)
    BY <1>3, <1>4 DEF RecoveryActive
  <2>2. Sound(jobs[m], [private EXCEPT !.lc = "stop_requested"])
    BY <1>1, <1>3, <1>4, <2>1, SoundStop
  <2> QED BY <1>4, <2>2, SoundOne DEF RequestStop
<1>5. Sound(jobs[m], Absent)
  BY <1>1, SoundSame
<1> QED BY <1>1, <1>2, <1>3, <1>4, <1>5, SoundOne

LEMMA PollSound ==
    ASSUME RegistryInv, NEW i \in Instances, NEW stale \in SUBSET InputJobs,
           PollEmpty(i, stale) \/ (\E first \in Request : Poll(i, stale, first)), NEW j \in Jobs
    PROVE  Sound(jobs[j], jobs'[j])
<1>1. jobs[j] \in JobRecord
  BY DEF RegistryInv, TypeOK
<1>2. \/ jobs'[j] = jobs[j]
      \/ jobs'[j] = RejectedRecord(jobs[j]) /\ Start(j) \in Queued
      \/ jobs'[j] = [jobs[j] EXCEPT !.lc = "agent_queued"] /\ jobs[j].lc = "queued"
  BY DEF Poll, PollEmpty, Rejected
<1>3. CASE jobs'[j] = RejectedRecord(jobs[j]) /\ Start(j) \in Queued
  <2>1. jobs[j].lc = "queued"
    BY <1>3 DEF RegistryInv, QueueIsDispatchable
  <2>2. RejectedRecord(jobs[j]) = [Ended(jobs[j], "failed") EXCEPT !.ces = "not_started"]
    BY <2>1 DEF RejectedRecord, Present
  <2> QED BY <1>1, <1>3, <2>1, <2>2, SoundNotStarted
<1>4. CASE jobs'[j] = [jobs[j] EXCEPT !.lc = "agent_queued"] /\ jobs[j].lc = "queued"
  <2>1. jobs'[j].seq = jobs[j].seq /\ jobs[j].seq \in Nat
    BY <1>1, <1>4 DEF JobRecord
  <2>2. ~ IsTerminal(jobs[j].lc) /\ ~ RecoveryActive(jobs[j])
    BY <1>4 DEF IsTerminal, TerminalStates, RecoveryActive, IsRunnerActive, RunnerActiveStates
  <2> QED BY <1>1, <2>1, <2>2, SoundActive
<1> QED BY <1>1, <1>2, <1>3, <1>4, SoundSame

LEMMA UpdateSound ==
    ASSUME TypeOK, NEW i \in Instances, NEW m \in Jobs, NEW rep \in Reports,
           NEW seq \in 1 .. MaxSeq, NEW snapshot \in BOOLEAN, NEW live \in BOOLEAN,
           UpdateJob(i, m, rep, seq, snapshot, live), NEW j \in Jobs
    PROVE  Sound(jobs[j], jobs'[j])
<1> DEFINE n == IF i \in ReconInstances THEN seq ELSE jobs[m].seq
<1>1. jobs[m] \in JobRecord /\ jobs[m].seq \in Nat /\ n \in Nat /\ rep \in Report
  <2>1. jobs[m] \in JobRecord
    BY DEF TypeOK
  <2>2. jobs[m].seq \in Nat
    BY <2>1 DEF JobRecord
  <2>3. rep \in Report
    BY ConstantsAssumption DEF ConstantsAssumption
  <2> QED BY <2>1, <2>2, <2>3
<1>2. n >= jobs[m].seq
  BY <1>1 DEF UpdateJob
<1>3. ~ IsTerminal(jobs[m].lc) /\ jobs' = [jobs EXCEPT ![m] = WithoutCleanupTerminal(Updated(jobs[m], rep, n))]
  BY DEF UpdateJob
<1> HIDE DEF n
<1>4. Sound(jobs[m], WithoutCleanupTerminal(Updated(jobs[m], rep, n)))
  BY <1>1, <1>2, <1>3, SoundUpdated, SoundCleanup
<1> QED BY <1>3, <1>4, SoundOne

(* A /result for a job changes its lifecycle value only. *)
LEMMA CompleteMonotone ==
    ASSUME TypeOK, NEW i \in Instances, NEW m \in Jobs, NEW success \in BOOLEAN,
           NEW live \in BOOLEAN, CompleteJob(i, m, success, live), NEW j \in Jobs
    PROVE  Monotone(jobs[j], jobs'[j])
<1> DEFINE st == IF success THEN "completed" ELSE "failed"
           s == Ended(jobs[m], st)
<1>1. jobs[j] \in JobRecord /\ jobs[m] \in JobRecord /\ jobs[m].seq \in Nat
  BY DEF TypeOK, JobRecord
<1>2. Monotone(jobs[j], jobs[j])
  BY <1>1, SoundSame DEF Sound
<1>3. s.seq = jobs[m].seq /\ s.lc = st
  <2> HIDE DEF st
  <2> QED BY <1>1 DEF Ended, JobRecord
<1>4. ~ RecoveryActive(s)
  BY <1>3 DEF RecoveryActive, IsRunnerActive, RunnerActiveStates
<1>5. jobs'[j] = jobs[j] \/ (j = m /\ jobs'[j] = s)
  BY DEF CompleteJob, TypeOK
<1> HIDE DEF s
<1> QED BY <1>1, <1>2, <1>3, <1>4, <1>5 DEF Monotone

(* Every step but a /result is sound for every record. *)
LEMMA StepSound ==
    ASSUME RegistryInv, [Next]_vars, NEW j \in Jobs,
           ~ \E i \in Instances, m \in Jobs, success \in BOOLEAN, live \in BOOLEAN :
                CompleteJob(i, m, success, live)
    PROVE  Sound(jobs[j], jobs'[j])
<1>1. TypeOK /\ jobs[j] \in JobRecord
  BY DEF RegistryInv, TypeOK
<1>2. CASE \E m \in Jobs : StartJob(m)
  <2>1. PICK m \in Jobs : StartJob(m)
    BY <1>2
  <2>2. jobs[m].lc = "absent"
    BY <2>1 DEF RegistryInv, FreshIds, StartJob
  <2>3. ~ IsTerminal("absent") /\ ~ IsRunnerActive("absent")
    BY DEF IsTerminal, IsRunnerActive, TerminalStates, RunnerActiveStates
  <2>4. \A s : Sound(jobs[m], s)
    BY <2>2, <2>3 DEF Sound, Final, Monotone, Present, RecoveryActive
  <2> QED BY <1>1, <2>1, <2>4, SoundOne DEF StartJob
<1>3. CASE \E m \in Jobs : RefreshJob(m)
  <2>1. PICK m \in Jobs : RefreshJob(m)
    BY <1>3
  <2>2. Sound(jobs[m], Refreshed(jobs[m]))
    BY <1>1, SoundRefreshed DEF TypeOK
  <2> QED BY <1>1, <2>1, <2>2, SoundOne DEF RefreshJob
<1>4. CASE \E m \in Jobs : StopJob(m)
  BY <1>1, <1>4, StopSound
<1>5. CASE \E m \in Jobs, retain \in BOOLEAN : PublishHiddenJob(m, retain)
  BY <1>1, <1>5, PublishSound
<1>6. CASE \E m \in Jobs : CancelHiddenJob(m)
  BY <1>1, <1>6, CancelSound
<1>7. CASE \E m \in Jobs : RemoveProjectedHiddenJob(m)
  <2>1. PICK m \in Jobs : RemoveProjectedHiddenJob(m)
    BY <1>7
  <2>2. Sound(jobs[m], Absent)
    BY <1>1, SoundSame DEF TypeOK
  <2> QED BY <1>1, <2>1, <2>2, SoundOne DEF RemoveProjectedHiddenJob
<1>8. CASE BeginProjectUnregister
  <2>1. jobs'[j] \in {jobs[j], Refreshed(jobs[j])}
    BY <1>8 DEF BeginProjectUnregister
  <2> QED BY <1>1, <2>1, SoundSame, SoundRefreshed
<1>9. CASE \E i \in Instances, stale \in SUBSET InputJobs :
               PollEmpty(i, stale) \/ \E first \in Request : Poll(i, stale, first)
  BY <1>9, PollSound
<1>10. CASE \E i \in Instances, m \in Jobs, rep \in Reports, seq \in 1 .. MaxSeq,
              snapshot \in BOOLEAN, live \in BOOLEAN : UpdateJob(i, m, rep, seq, snapshot, live)
  BY <1>1, <1>10, UpdateSound
<1>11. CASE Disconnect
  <2>1. jobs'[j] \in {jobs[j], BeginJobRecovery(jobs[j]), MarkJobLost(jobs[j], FALSE)}
    BY <1>11 DEF Disconnect
  <2> QED BY <1>1, <2>1, SoundSame, SoundRecovery, SoundLost
<1>12. CASE \E i \in Instances, expired \in SUBSET Jobs : \E inv \in Inventories(i) :
              Register(i, inv, expired)
  BY <1>1, <1>12, RegisterSound
<1>13. CASE \E expired \in SUBSET Jobs, pruned \in SUBSET Jobs : RecoveryTimeoutSweep(expired, pruned)
  <2>1. jobs'[j] \in {Absent, jobs[j], WithoutCleanupTerminal(jobs[j]), MarkJobLost(jobs[j], TRUE),
                      WithoutCleanupTerminal(MarkJobLost(jobs[j], TRUE))}
    BY <1>13 DEF RecoveryTimeoutSweep
  <2>2. Sound(jobs[j], jobs[j]) /\ Sound(jobs[j], MarkJobLost(jobs[j], TRUE)) /\ Sound(jobs[j], Absent)
    BY <1>1, SoundSame, SoundLost
  <2> QED BY <1>1, <2>1, <2>2, SoundCleanup
<1>14. CASE Tick
  <2>1. jobs'[j] = Aged(jobs[j])
    BY <1>14 DEF Tick
  <2>2. RecoveryActive(jobs[j]) => jobs[j].age <= Grace
    BY DEF RegistryInv, RecordsConsistent
  <2> QED BY <1>1, <2>1, <2>2, SoundAged
<1>15. CASE Restart
  <2>1. jobs'[j] = Absent
    BY <1>15 DEF Restart
  <2> QED BY <1>1, <2>1, SoundSame
<1>16. CASE \/ \E m \in Jobs : RecordHiddenCleanupIntent(m)
            \/ EndProjectUnregister
            \/ \E i \in Instances : TouchRunner(i)
            \/ vars' = vars
  <2>1. jobs' = jobs
    BY <1>16 DEF RecordHiddenCleanupIntent, EndProjectUnregister, TouchRunner, vars
  <2> QED BY <1>1, <2>1, SoundSame
<1> QED BY <1>2, <1>3, <1>4, <1>5, <1>6, <1>7, <1>8, <1>9, <1>10, <1>11, <1>12, <1>13, <1>14, <1>15,
           <1>16 DEF Next

LEMMA StepMonotone ==
    ASSUME RegistryInv, [Next]_vars, NEW j \in Jobs
    PROVE  Monotone(jobs[j], jobs'[j])
<1>1. CASE \E i \in Instances, m \in Jobs, success \in BOOLEAN, live \in BOOLEAN :
              CompleteJob(i, m, success, live)
  BY <1>1, CompleteMonotone DEF RegistryInv
<1>2. CASE ~ \E i \in Instances, m \in Jobs, success \in BOOLEAN, live \in BOOLEAN :
                CompleteJob(i, m, success, live)
  BY <1>2, StepSound DEF Sound
<1> QED BY <1>1, <1>2

(* No disconnect, read, reconnect or update restarts the grace of a job    *)
(* that recovers (RecoveryDeadlineFixed).                                  *)
THEOREM DeadlineFixed == Spec => RecoveryDeadlineFixed
<1>1. RegistryInv /\ [Next]_vars =>
         [\A j \in Jobs : RecoveryActive(jobs[j]) /\ RecoveryActive(jobs'[j])
             => jobs'[j].age >= jobs[j].age]_vars
  BY StepMonotone DEF Monotone
<1>2. RegistryInv /\ [Next]_vars =>
         [\A j \in Jobs : RecoveryActive(jobs[j]) /\ RecoveryActive(jobs[j])'
             => jobs'[j].age >= jobs[j].age]_vars
  BY <1>1 DEF RecoveryActive
<1> QED BY <1>1, <1>2, RegistryInvariant, PTL DEF Spec, RecoveryDeadlineFixed

(* No message and no inventory takes a job back to an earlier update_seq   *)
(* (UpdateSeqMonotone).                                                    *)
THEOREM SeqMonotone == Spec => UpdateSeqMonotone
<1>1. RegistryInv /\ [Next]_vars =>
         [\A j \in Jobs :
             Present(jobs[j]) /\ jobs[j].vis # "cleanup_pending" /\ Present(jobs'[j])
                => jobs'[j].seq >= jobs[j].seq]_vars
  BY StepMonotone DEF Monotone
<1> QED BY <1>1, RegistryInvariant, PTL DEF Spec, UpdateSeqMonotone

(* Where no process answers a job start with /result, a terminal state is  *)
(* final (TerminalIsFinal).  With such a process it is not.                *)
THEOREM TerminalFinal ==
    ASSUME ResultInstances = {}
    PROVE  Spec => TerminalIsFinal
<1>1. ASSUME RegistryInv, [Next]_vars
      PROVE  [\A j \in Jobs :
                IsTerminal(jobs[j].lc) /\ jobs[j].vis # "cleanup_pending" /\ Present(jobs'[j])
                   => jobs'[j].lc = jobs[j].lc]_vars
  <2>1. ~ \E i \in Instances, m \in Jobs, success \in BOOLEAN, live \in BOOLEAN :
            CompleteJob(i, m, success, live)
    BY DEF CompleteJob
  <2> QED BY <1>1, <2>1, StepSound DEF Sound, Final
<1>2. RegistryInv /\ [Next]_vars =>
         [\A j \in Jobs :
             IsTerminal(jobs[j].lc) /\ jobs[j].vis # "cleanup_pending" /\ Present(jobs'[j])
                => jobs'[j].lc = jobs[j].lc]_vars
  BY <1>1
<1> QED BY <1>2, RegistryInvariant, PTL DEF Spec, TerminalIsFinal

-----------------------------------------------------------------------------
(***************************************************************************)
(* Where records come from.  A record that a step leaves behind is the one *)
(* that was there, unless the job was started or a process registered:     *)
(* nothing else makes a job queued, hidden or another process's.           *)
(***************************************************************************)
Follows(r, s) ==
    Present(s) =>
        /\ Present(r) /\ s.inst = r.inst
        /\ s.vis # "public" => r.vis # "public"
        /\ s.lc = "queued" => r.lc = "queued"

(* What an inventory makes of a record. *)
Adopted(r, s, i) ==
    /\ s.inst = i /\ s.lc # "queued"
    /\ s.vis # "public" => Present(r) /\ r.vis # "public"

LEMMA FollowsSame ==
    ASSUME NEW r
    PROVE  Follows(r, r) /\ Follows(r, Absent)
BY DEF Follows, Present, Absent

LEMMA FollowsLost ==
    ASSUME NEW r \in JobRecord, NEW b \in BOOLEAN
    PROVE  Follows(r, MarkJobLost(r, b))
<1>1. CASE ~ IsActive(r.lc)
  BY <1>1, LostFacts, FollowsSame
<1>2. CASE IsActive(r.lc)
  <2> DEFINE s == MarkJobLost(r, b)
  <2>1. s.lc = "lost" /\ s.inst = r.inst /\ s.vis = r.vis
    BY <1>2, LostFacts
  <2>2. Present(r)
    BY <1>2, StatesDisjoint DEF Present
  <2> HIDE DEF s
  <2>3. Follows(r, s)
    BY <2>1, <2>2 DEF Follows
  <2> QED BY <2>3 DEF s
<1> QED BY <1>1, <1>2

LEMMA FollowsRecovery ==
    ASSUME NEW r \in JobRecord
    PROVE  Follows(r, BeginJobRecovery(r))
BY RecoveryFacts DEF Follows, Present

LEMMA FollowsRefreshed ==
    ASSUME NEW r \in JobRecord
    PROVE  Follows(r, Refreshed(r))
BY RefreshCases, FollowsSame, FollowsLost, FollowsRecovery

LEMMA FollowsCleanup ==
    ASSUME NEW r, NEW s, Follows(r, s)
    PROVE  Follows(r, WithoutCleanupTerminal(s))
BY FollowsSame DEF WithoutCleanupTerminal

(* A present record keeps its process under every field that a handler     *)
(* rewrites.                                                               *)
LEMMA FollowsFields ==
    ASSUME NEW r \in JobRecord, Present(r)
    PROVE  /\ \A st : st # "queued" => Follows(r, [r EXCEPT !.lc = st])
           /\ \A st, e : st # "queued" => Follows(r, [Ended(r, st) EXCEPT !.ces = e])
           /\ \A st : st # "queued" => Follows(r, Ended(r, st))
           /\ \A v : v = "public" \/ r.vis # "public" => Follows(r, [r EXCEPT !.vis = v])
           /\ \A n : Follows(r, [r EXCEPT !.age = n])
<1>1. ASSUME NEW st, st # "queued"
      PROVE  Follows(r, [r EXCEPT !.lc = st])
  BY <1>1 DEF Follows, JobRecord
<1>2. ASSUME NEW st, st # "queued", NEW n, NEW e
      PROVE  /\ Follows(r, [r EXCEPT !.lc = st, !.age = n])
             /\ Follows(r, [[r EXCEPT !.lc = st, !.age = n] EXCEPT !.ces = e])
  BY <1>2 DEF Follows, JobRecord
<1>3. ASSUME NEW v, v = "public" \/ r.vis # "public"
      PROVE  Follows(r, [r EXCEPT !.vis = v])
  BY <1>3 DEF Follows, JobRecord
<1>4. ASSUME NEW n
      PROVE  Follows(r, [r EXCEPT !.age = n])
  BY DEF Follows, JobRecord
<1>5. ASSUME NEW st, st # "queued", NEW e
      PROVE  Follows(r, Ended(r, st)) /\ Follows(r, [Ended(r, st) EXCEPT !.ces = e])
  <2> DEFINE n == IF IsTerminal(r.lc) THEN r.age ELSE 0
  <2>1. Ended(r, st) = [r EXCEPT !.lc = st, !.age = n]
    BY DEF Ended
  <2> HIDE DEF n
  <2>2. Follows(r, [r EXCEPT !.lc = st, !.age = n])
    BY <1>2, <1>5
  <2>3. Follows(r, [[r EXCEPT !.lc = st, !.age = n] EXCEPT !.ces = e])
    BY <1>2, <1>5
  <2> QED BY <2>1, <2>2, <2>3, Zenon
<1> QED BY <1>1, <1>3, <1>4, <1>5

LEMMA FollowsUpdated ==
    ASSUME NEW r \in JobRecord, Present(r), NEW rep \in Report, NEW seq \in Nat
    PROVE  Follows(r, Updated(r, rep, seq))
<1>1. rep.st # "queued"
  BY ReportedStates
<1>2. CASE ~ ValidExecutionState(rep.st, rep.ces, r.started)
  <2>1. Updated(r, rep, seq) = [Ended(r, "failed") EXCEPT !.ces = LostExecutionState(r), !.seq = seq]
    BY <1>2 DEF Updated
  <2> DEFINE e == LostExecutionState(r)
  <2> HIDE DEF e
  <2>2. Ended(r, "failed") \in JobRecord
    BY EndedType, StopLifecycle
  <2> DEFINE f == Ended(r, "failed")
             s == [f EXCEPT !.ces = e, !.seq = seq]
  <2>3. Follows(r, f)
    BY FollowsFields
  <2> HIDE DEF f
  <2>4. s.lc = f.lc /\ s.inst = f.inst /\ s.vis = f.vis
    BY <2>2 DEF JobRecord, f
  <2> HIDE DEF s
  <2>5. Follows(r, s)
    BY <2>3, <2>4 DEF Follows, Present
  <2> QED BY <2>1, <2>5 DEF e, f, s
<1>3. CASE ValidExecutionState(rep.st, rep.ces, r.started)
  <2> DEFINE started == \/ r.started
                        \/ /\ rep.ces # "not_started"
                           /\ rep.st \in {"running", "completed", "failed", "stopped", "timeout"}
             phase == IF RecoveryActive(r) THEN "reconciled" ELSE r.phase
             ces == IF IsTerminal(rep.st) THEN rep.ces ELSE r.ces
             age == IF IsTerminal(rep.st) \/ RecoveryActive(r) THEN 0 ELSE r.age
             s == [r EXCEPT !.lc = rep.st, !.started = started, !.seq = seq, !.phase = phase,
                            !.age = age, !.ces = ces]
  <2>1. Updated(r, rep, seq) = s
    BY <1>3 DEF Updated
  <2>2. s.inst = r.inst /\ s.vis = r.vis /\ s.lc = rep.st
    <3> HIDE DEF started, phase, ces, age
    <3> QED BY DEF JobRecord
  <2> HIDE DEF s
  <2>3. Follows(r, s)
    BY <1>1, <2>2 DEF Follows
  <2> QED BY <2>1, <2>3
<1> QED BY <1>2, <1>3

LEMMA FollowsTraced ==
    ASSUME NEW r \in JobRecord, NEW s, Traced(r, s)
    PROVE  Follows(r, s)
BY FollowsSame, FollowsLost DEF Traced

(* A registration carries a record on or takes it from the inventory.      *)
LEMMA ReconciledFollows ==
    ASSUME NEW i \in Instances, NEW inv \in Inventories(i), NEW j \in Jobs,
           NEW r \in JobRecord, NEW s, Traced(r, s)
    PROVE  LET t == Reconciled(j, s, i, inv)
           IN  Follows(r, t) \/ (j \in DOMAIN inv /\ Adopted(r, t, i))
<1> DEFINE t == Reconciled(j, s, i, inv)
<1>1. s \in JobRecord /\ Follows(r, s)
  BY AbsentType, LostType, FollowsTraced DEF Traced
<1>2. CASE j \notin DOMAIN inv
  <2>1. t = s \/ t = MarkJobLost(s, TRUE)
    BY <1>2 DEF Reconciled
  <2>2. Follows(s, s) /\ Follows(s, MarkJobLost(s, TRUE))
    BY <1>1, FollowsSame, FollowsLost
  <2> HIDE DEF t
  <2>3. Follows(r, t)
    BY <1>1, <2>1, <2>2 DEF Follows
  <2> QED BY <2>3 DEF t
<1>3. CASE j \in DOMAIN inv
  <2>1. PICK rep \in Report, seq \in Nat : inv[j] = [rep |-> rep, seq |-> seq]
    BY <1>3, InventoryEntry
  <2>2. rep.st # "queued"
    BY DEF Report, RunnerActiveStates, TerminalStates
  <2>3. ASSUME NEW u \in JobRecord
        PROVE  LET v == FromSnapshot(u, i, inv[j]) IN v.inst = i /\ v.lc # "queued" /\ v.vis = u.vis
    BY <2>1, <2>2 DEF FromSnapshot, JobRecord
  <2>4. CASE t = s
    BY <1>1, <2>4
  <2>5. CASE Present(s) /\ t = FromSnapshot(s, i, inv[j])
    <3>1. t.inst = i /\ t.lc # "queued" /\ t.vis = s.vis
      BY <1>1, <2>3, <2>5
    <3> HIDE DEF t
    <3>2. Adopted(r, t, i)
      BY <1>1, <2>5, <3>1 DEF Follows, Adopted
    <3> QED BY <1>3, <3>2 DEF t
  <2>6. CASE t = FromSnapshot(Absent, i, inv[j])
    <3>1. t.inst = i /\ t.lc # "queued" /\ t.vis = "public"
      BY <2>3, <2>6, AbsentType DEF Absent
    <3> HIDE DEF t
    <3>2. Adopted(r, t, i)
      BY <3>1 DEF Adopted
    <3> QED BY <1>3, <3>2 DEF t
  <2> QED BY <1>3, <2>4, <2>5, <2>6 DEF Reconciled
<1> QED BY <1>2, <1>3

LEMMA RegisterFollows ==
    ASSUME TypeOK, NEW i \in Instances, NEW inv \in Inventories(i), NEW expired \in SUBSET Jobs,
           Register(i, inv, expired), NEW j \in Jobs
    PROVE  Follows(jobs[j], jobs'[j]) \/ (j \in DOMAIN inv /\ Adopted(jobs[j], jobs'[j], i))
<1> DEFINE kept == KeptRecord(j, i, inv)
           swept == SweptRecord(kept, j \in expired, expired = {})
           t == Reconciled(j, swept, i, inv)
<1>1. jobs[j] \in JobRecord
  BY DEF TypeOK
<1>2. jobs'[j] = IF i \in ReconInstances THEN WithoutCleanupTerminal(t) ELSE kept
  BY RegisteredRecords
<1>3. Traced(jobs[j], kept) /\ Traced(jobs[j], swept)
  <2>1. (j \in expired) \in BOOLEAN /\ (expired = {}) \in BOOLEAN
    OBVIOUS
  <2> QED BY <2>1, RegisterTraces, Zenon
<1> HIDE DEF kept, swept
<1>4. Follows(jobs[j], kept) /\ (Follows(jobs[j], t) \/ (j \in DOMAIN inv /\ Adopted(jobs[j], t, i)))
  BY <1>1, <1>3, FollowsTraced, ReconciledFollows
<1> HIDE DEF t
<1>5. WithoutCleanupTerminal(t) = t \/ Follows(jobs[j], WithoutCleanupTerminal(t))
  BY FollowsSame DEF WithoutCleanupTerminal
<1> QED BY <1>2, <1>4, <1>5, FollowsCleanup

LEMMA FollowsOne ==
    ASSUME TypeOK, NEW m \in Jobs, NEW s, jobs' = [jobs EXCEPT ![m] = s], Follows(jobs[m], s),
           NEW j \in Jobs
    PROVE  Follows(jobs[j], jobs'[j])
<1>1. jobs'[j] = IF j = m THEN s ELSE jobs[j]
  BY DEF TypeOK
<1> QED BY <1>1, FollowsSame

LEMMA StopFollows ==
    ASSUME TypeOK, NEW m \in Jobs, StopJob(m), NEW j \in Jobs
    PROVE  Follows(jobs[j], jobs'[j])
<1> DEFINE r == Refreshed(jobs[m])
<1>1. r \in JobRecord /\ Follows(jobs[m], r)
  BY RefreshType, FollowsRefreshed DEF TypeOK
<1>2. \/ r.lc = "queued" /\ jobs' = [jobs EXCEPT ![m] = [Ended(r, "stopped") EXCEPT !.ces = "not_started"]]
      \/ r.lc \in {"agent_queued", "running"} /\ jobs' = [jobs EXCEPT ![m] = [r EXCEPT !.lc = "stop_requested"]]
  BY DEF StopJob, RequestStop
<1> HIDE DEF r
<1>3. Present(r)
  BY <1>2 DEF Present
<1>4. Follows(r, [Ended(r, "stopped") EXCEPT !.ces = "not_started"]) /\ Follows(r, [r EXCEPT !.lc = "stop_requested"])
  BY <1>1, <1>3, FollowsFields
<1>5. \A s : Follows(r, s) => Follows(jobs[m], s)
  BY <1>1 DEF Follows
<1> QED BY <1>2, <1>4, <1>5, FollowsOne

LEMMA PublishFollows ==
    ASSUME TypeOK, NEW m \in Jobs, NEW retain \in BOOLEAN, PublishHiddenJob(m, retain), NEW j \in Jobs
    PROVE  Follows(jobs[j], jobs'[j])
<1> DEFINE r == Refreshed(jobs[m])
<1>1. r \in JobRecord /\ Follows(jobs[m], r)
  BY RefreshType, FollowsRefreshed DEF TypeOK
<1>2. jobs' = [jobs EXCEPT ![m] = r] \/ jobs' = [jobs EXCEPT ![m] = [r EXCEPT !.vis = "public"]]
  BY DEF PublishHiddenJob
<1> HIDE DEF r
<1>3. Follows(r, [r EXCEPT !.vis = "public"])
  BY <1>1 DEF Follows, JobRecord, Present
<1>4. \A s : Follows(r, s) => Follows(jobs[m], s)
  BY <1>1 DEF Follows
<1> QED BY <1>1, <1>2, <1>3, <1>4, FollowsOne

LEMMA CancelFollows ==
    ASSUME TypeOK, NEW m \in Jobs, CancelHiddenJob(m), NEW j \in Jobs
    PROVE  Follows(jobs[j], jobs'[j])
<1> DEFINE r == Refreshed(jobs[m])
           private == [r EXCEPT !.vis = "cleanup_pending"]
           asked == [private EXCEPT !.lc = "stop_requested"]
<1>1. r \in JobRecord /\ Follows(jobs[m], r)
  BY RefreshType, FollowsRefreshed DEF TypeOK
<1>2. \/ jobs' = [jobs EXCEPT ![m] = r]
      \/ jobs' = [jobs EXCEPT ![m] = Absent]
      \/ r.vis # "public" /\ jobs' = [jobs EXCEPT ![m] = private]
      \/ r.vis # "public" /\ r.lc \in {"agent_queued", "running"} /\ jobs' = [jobs EXCEPT ![m] = asked]
  BY DEF CancelHiddenJob, CancelQueued, RequestStop
<1> HIDE DEF r
<1>3. r.vis # "public" => Follows(r, private)
  BY <1>1 DEF Follows, JobRecord, Present
<1>4. r.vis # "public" /\ r.lc \in {"agent_queued", "running"} => Follows(r, asked)
  BY <1>1 DEF Follows, JobRecord, Present
<1> HIDE DEF private, asked
<1>5. \A s : Follows(r, s) => Follows(jobs[m], s)
  BY <1>1 DEF Follows
<1>6. Follows(jobs[m], Absent)
  BY FollowsSame
<1> QED BY <1>1, <1>2, <1>3, <1>4, <1>5, <1>6, FollowsOne

LEMMA PollFollows ==
    ASSUME TypeOK, NEW i \in Instances, NEW stale \in SUBSET InputJobs,
           PollEmpty(i, stale) \/ (\E first \in Request : Poll(i, stale, first)), NEW j \in Jobs
    PROVE  Follows(jobs[j], jobs'[j])
<1>1. jobs[j] \in JobRecord
  BY DEF TypeOK
<1>2. jobs'[j] \in {jobs[j], RejectedRecord(jobs[j])} \/
      (jobs'[j] = [jobs[j] EXCEPT !.lc = "agent_queued"] /\ jobs[j].lc = "queued")
  BY DEF Poll, PollEmpty
<1>3. Follows(jobs[j], RejectedRecord(jobs[j]))
  BY <1>1, FollowsSame, FollowsFields DEF RejectedRecord
<1>4. jobs[j].lc = "queued" => Follows(jobs[j], [jobs[j] EXCEPT !.lc = "agent_queued"])
  BY <1>1, FollowsFields DEF Present
<1> QED BY <1>2, <1>3, <1>4, FollowsSame

LEMMA UpdateFollows ==
    ASSUME TypeOK, NEW i \in Instances, NEW m \in Jobs, NEW rep \in Reports,
           NEW seq \in 1 .. MaxSeq, NEW snapshot \in BOOLEAN, NEW live \in BOOLEAN,
           UpdateJob(i, m, rep, seq, snapshot, live), NEW j \in Jobs
    PROVE  Follows(jobs[j], jobs'[j])
<1> DEFINE n == IF i \in ReconInstances THEN seq ELSE jobs[m].seq
<1>1. jobs[m] \in JobRecord /\ jobs[m].seq \in Nat /\ n \in Nat /\ rep \in Report
  <2>1. jobs[m] \in JobRecord
    BY DEF TypeOK
  <2>2. jobs[m].seq \in Nat
    BY <2>1 DEF JobRecord
  <2>3. rep \in Report
    BY ConstantsAssumption DEF ConstantsAssumption
  <2> QED BY <2>1, <2>2, <2>3
<1>2. Present(jobs[m]) /\ jobs' = [jobs EXCEPT ![m] = WithoutCleanupTerminal(Updated(jobs[m], rep, n))]
  BY DEF UpdateJob
<1> HIDE DEF n
<1>3. Follows(jobs[m], WithoutCleanupTerminal(Updated(jobs[m], rep, n)))
  BY <1>1, <1>2, FollowsUpdated, FollowsCleanup
<1> QED BY <1>2, <1>3, FollowsOne

LEMMA CompleteFollows ==
    ASSUME TypeOK, NEW i \in Instances, NEW m \in Jobs, NEW success \in BOOLEAN,
           NEW live \in BOOLEAN, CompleteJob(i, m, success, live), NEW j \in Jobs
    PROVE  Follows(jobs[j], jobs'[j])
<1> DEFINE st == IF success THEN "completed" ELSE "failed"
<1>1. jobs[m] \in JobRecord /\ st # "queued"
  BY DEF TypeOK
<1>2. jobs' = jobs \/ (Present(jobs[m]) /\ jobs' = [jobs EXCEPT ![m] = Ended(jobs[m], st)])
  BY DEF CompleteJob
<1> HIDE DEF st
<1>3. Present(jobs[m]) => Follows(jobs[m], Ended(jobs[m], st))
  BY <1>1, FollowsFields
<1> QED BY <1>2, <1>3, FollowsOne, FollowsSame

LEMMA AgedFollows ==
    ASSUME NEW r \in JobRecord
    PROVE  Follows(r, Aged(r))
<1>1. ~ Present(r) => Aged(r) = r
  BY StatesDisjoint DEF Aged, RecoveryActive, Present
<1>2. Aged(r) = r \/ \E n \in {MinOf(r.age + 1, Grace), MinOf(r.age + 1, Retention)} : Aged(r) = [r EXCEPT !.age = n]
  BY DEF Aged
<1> QED BY <1>1, <1>2, FollowsSame, FollowsFields

(* Every step, for a job it does not start and no process registers.       *)
LEMMA StepFollows ==
    ASSUME RegistryInv, [Next]_vars, NEW j \in Jobs, ~ StartJob(j),
           ~ \E i \in Instances, expired \in SUBSET Jobs : \E inv \in Inventories(i) :
                Register(i, inv, expired)
    PROVE  Follows(jobs[j], jobs'[j])
<1>1. TypeOK /\ jobs[j] \in JobRecord
  BY DEF RegistryInv, TypeOK
<1>2. CASE \E m \in Jobs : StartJob(m)
  <2>1. PICK m \in Jobs : StartJob(m)
    BY <1>2
  <2>2. jobs'[j] = jobs[j]
    BY <1>1, <2>1 DEF StartJob, TypeOK
  <2> QED BY <2>2, FollowsSame
<1>3. CASE \E m \in Jobs : RefreshJob(m)
  <2>1. PICK m \in Jobs : RefreshJob(m)
    BY <1>3
  <2>2. Follows(jobs[m], Refreshed(jobs[m]))
    BY <1>1, FollowsRefreshed DEF TypeOK
  <2> QED BY <1>1, <2>1, <2>2, FollowsOne DEF RefreshJob
<1>4. CASE \E m \in Jobs : StopJob(m)
  BY <1>1, <1>4, StopFollows
<1>5. CASE \E m \in Jobs, retain \in BOOLEAN : PublishHiddenJob(m, retain)
  BY <1>1, <1>5, PublishFollows
<1>6. CASE \E m \in Jobs : CancelHiddenJob(m)
  BY <1>1, <1>6, CancelFollows
<1>7. CASE \E m \in Jobs : RemoveProjectedHiddenJob(m)
  <2>1. PICK m \in Jobs : RemoveProjectedHiddenJob(m)
    BY <1>7
  <2>2. Follows(jobs[m], Absent)
    BY FollowsSame
  <2> QED BY <1>1, <2>1, <2>2, FollowsOne DEF RemoveProjectedHiddenJob
<1>8. CASE BeginProjectUnregister
  <2>1. jobs'[j] \in {jobs[j], Refreshed(jobs[j])}
    BY <1>8 DEF BeginProjectUnregister
  <2> QED BY <1>1, <2>1, FollowsSame, FollowsRefreshed
<1>9. CASE \E i \in Instances, stale \in SUBSET InputJobs :
               PollEmpty(i, stale) \/ \E first \in Request : Poll(i, stale, first)
  BY <1>1, <1>9, PollFollows
<1>10. CASE \E i \in Instances, m \in Jobs, rep \in Reports, seq \in 1 .. MaxSeq,
              snapshot \in BOOLEAN, live \in BOOLEAN : UpdateJob(i, m, rep, seq, snapshot, live)
  BY <1>1, <1>10, UpdateFollows
<1>11. CASE \E i \in Instances, m \in Jobs, success \in BOOLEAN, live \in BOOLEAN :
              CompleteJob(i, m, success, live)
  BY <1>1, <1>11, CompleteFollows
<1>12. CASE Disconnect
  <2>1. jobs'[j] \in {jobs[j], BeginJobRecovery(jobs[j]), MarkJobLost(jobs[j], FALSE)}
    BY <1>12 DEF Disconnect
  <2> QED BY <1>1, <2>1, FollowsSame, FollowsRecovery, FollowsLost
<1>13. CASE \E expired \in SUBSET Jobs, pruned \in SUBSET Jobs : RecoveryTimeoutSweep(expired, pruned)
  <2>1. jobs'[j] \in {Absent, jobs[j], WithoutCleanupTerminal(jobs[j]), MarkJobLost(jobs[j], TRUE),
                      WithoutCleanupTerminal(MarkJobLost(jobs[j], TRUE))}
    BY <1>13 DEF RecoveryTimeoutSweep
  <2>2. Follows(jobs[j], jobs[j]) /\ Follows(jobs[j], MarkJobLost(jobs[j], TRUE)) /\ Follows(jobs[j], Absent)
    BY <1>1, FollowsSame, FollowsLost
  <2> QED BY <1>1, <2>1, <2>2, FollowsCleanup
<1>14. CASE Tick
  <2>1. jobs'[j] = Aged(jobs[j])
    BY <1>14 DEF Tick
  <2> QED BY <1>1, <2>1, AgedFollows
<1>15. CASE Restart
  <2>1. jobs'[j] = Absent
    BY <1>15 DEF Restart
  <2> QED BY <2>1, FollowsSame
<1>16. CASE \/ \E m \in Jobs : RecordHiddenCleanupIntent(m)
            \/ EndProjectUnregister
            \/ \E i \in Instances : TouchRunner(i)
            \/ vars' = vars
  <2>1. jobs' = jobs
    BY <1>16 DEF RecordHiddenCleanupIntent, EndProjectUnregister, TouchRunner, vars
  <2> QED BY <2>1, FollowsSame
<1> QED BY <1>2, <1>3, <1>4, <1>5, <1>6, <1>7, <1>8, <1>9, <1>10, <1>11, <1>12, <1>13, <1>14, <1>15,
           <1>16 DEF Next

(***************************************************************************)
(* Who hands a start out, raises the fence and suppresses a result.        *)
(***************************************************************************)
Hands(j) == \E i \in Instances, stale \in SUBSET InputJobs : Poll(i, stale, Start(j))

StepFrame(j) ==
    /\ handed'[j] = handed[j] \/ Hands(j)
    /\ fence' > 0 => fence > 0 \/ BeginProjectUnregister
    /\ suppress'[j] > 0 => inst' = inst /\ (suppress[j] > 0 \/ RemoveProjectedHiddenJob(j))

LEMMA PlainFrame ==
    ASSUME UNCHANGED <<handed, fence, inst, suppress>>, NEW j \in Jobs
    PROVE  StepFrame(j)
BY DEF StepFrame

LEMMA PollFrame ==
    ASSUME TypeOK, NEW i \in Instances, NEW stale \in SUBSET InputJobs, NEW first \in Request,
           Poll(i, stale, first), NEW j \in Jobs
    PROVE  StepFrame(j)
<1>1. UNCHANGED <<fence, inst, suppress>>
  BY DEF Poll, Seen
<1>2. CASE first = Start(j)
  BY <1>1, <1>2 DEF StepFrame, Hands
<1>3. CASE first # Start(j)
  <2>1. handed'[j] = handed[j]
    BY <1>3 DEF Poll
  <2> QED BY <1>1, <2>1 DEF StepFrame
<1> QED BY <1>2, <1>3

LEMMA RegisterFrame ==
    ASSUME TypeOK, NEW i \in Instances, NEW inv, NEW expired \in SUBSET Jobs,
           Register(i, inv, expired), NEW j \in Jobs
    PROVE  StepFrame(j)
<1>1. /\ UNCHANGED <<handed, fence>> /\ inst' = i
      /\ suppress' = IF inst = i THEN suppress ELSE [k \in Jobs |-> 0]
  BY DEF Register, history
<1> QED BY <1>1 DEF StepFrame

LEMMA FrameStep ==
    ASSUME TypeOK, [Next]_vars, NEW j \in Jobs
    PROVE  StepFrame(j)
<1>1. fence \in Nat /\ suppress \in [Jobs -> Nat]
  BY ConstantsAssumption DEF TypeOK, ConstantsAssumption
<1>2. CASE \/ \E m \in Jobs : StartJob(m) \/ RefreshJob(m) \/ StopJob(m)
           \/ \E m \in Jobs, retain \in BOOLEAN : PublishHiddenJob(m, retain)
           \/ \E m \in Jobs : RecordHiddenCleanupIntent(m) \/ CancelHiddenJob(m)
  <2>1. UNCHANGED <<handed, fence, inst, suppress>>
    BY <1>2 DEF StartJob, RefreshJob, StopJob, PublishHiddenJob, RecordHiddenCleanupIntent,
                CancelHiddenJob, lease, history
  <2> QED BY <2>1, PlainFrame
<1>3. CASE \E m \in Jobs : RemoveProjectedHiddenJob(m)
  <2>1. PICK m \in Jobs : RemoveProjectedHiddenJob(m)
    BY <1>3
  <2>2. UNCHANGED <<handed, fence, inst>>
    BY <2>1 DEF RemoveProjectedHiddenJob, history
  <2>3. j # m => suppress'[j] = suppress[j]
    BY <1>1, <2>1 DEF RemoveProjectedHiddenJob
  <2> QED BY <2>1, <2>2, <2>3 DEF StepFrame
<1>4. CASE BeginProjectUnregister
  <2>1. UNCHANGED <<handed, inst, suppress>>
    BY <1>4 DEF BeginProjectUnregister, lease, history
  <2> QED BY <1>4, <2>1 DEF StepFrame
<1>5. CASE EndProjectUnregister
  <2>1. UNCHANGED <<handed, inst, suppress>> /\ fence > 0
    BY <1>5 DEF EndProjectUnregister, lease, history
  <2> QED BY <2>1 DEF StepFrame
<1>6. CASE \E i \in Instances : TouchRunner(i)
  <2>1. UNCHANGED <<handed, fence, inst, suppress>>
    BY <1>6 DEF TouchRunner, Seen, history
  <2> QED BY <2>1, PlainFrame
<1>7. CASE \E i \in Instances, stale \in SUBSET InputJobs :
               PollEmpty(i, stale) \/ \E first \in Request : Poll(i, stale, first)
  <2>1. PICK i \in Instances, stale \in SUBSET InputJobs :
               PollEmpty(i, stale) \/ \E first \in Request : Poll(i, stale, first)
    BY <1>7
  <2>2. CASE PollEmpty(i, stale)
    <3>1. UNCHANGED <<handed, fence, inst, suppress>>
      BY <2>2 DEF PollEmpty, Seen, history
    <3> QED BY <3>1, PlainFrame
  <2>3. CASE \E first \in Request : Poll(i, stale, first)
    BY <2>3, PollFrame
  <2> QED BY <2>1, <2>2, <2>3
<1>8. CASE \/ \E i \in Instances, m \in Jobs, rep \in Reports, seq \in 1 .. MaxSeq,
                 snapshot \in BOOLEAN, live \in BOOLEAN : UpdateJob(i, m, rep, seq, snapshot, live)
           \/ \E i \in Instances, m \in Jobs, success \in BOOLEAN, live \in BOOLEAN :
                 CompleteJob(i, m, success, live)
           \/ Disconnect
  <2>1. ASSUME NEW i \in Instances, NEW m \in Jobs, NEW rep \in Reports, NEW seq \in 1 .. MaxSeq,
               NEW snapshot \in BOOLEAN, NEW live \in BOOLEAN, UpdateJob(i, m, rep, seq, snapshot, live)
        PROVE  UNCHANGED <<handed, fence, inst, suppress>>
    BY <2>1 DEF UpdateJob, Seen, history
  <2>2. ASSUME NEW i \in Instances, NEW m \in Jobs, NEW success \in BOOLEAN, NEW live \in BOOLEAN,
               CompleteJob(i, m, success, live)
        PROVE  UNCHANGED <<handed, fence, inst, suppress>>
    BY <2>2 DEF CompleteJob, Seen, history
  <2>3. Disconnect => UNCHANGED <<handed, fence, inst, suppress>>
    BY DEF Disconnect, history
  <2>4. UNCHANGED <<handed, fence, inst, suppress>>
    BY <1>8, <2>1, <2>2, <2>3
  <2> QED BY <2>4, PlainFrame
<1>9. CASE \E i \in Instances, expired \in SUBSET Jobs : \E inv \in Inventories(i) :
              Register(i, inv, expired)
  BY <1>9, RegisterFrame
<1>10. CASE \/ \E expired \in SUBSET Jobs, pruned \in SUBSET Jobs : RecoveryTimeoutSweep(expired, pruned)
            \/ vars' = vars
  <2>1. UNCHANGED <<handed, fence, inst, suppress>>
    BY <1>10 DEF RecoveryTimeoutSweep, lease, history, vars
  <2> QED BY <2>1, PlainFrame
<1>11. CASE Tick
  <2>1. UNCHANGED <<handed, fence, inst>>
    BY <1>11 DEF Tick, history
  <2>2. suppress'[j] > 0 => suppress[j] > 0
    BY <1>11 DEF Tick
  <2> QED BY <2>1, <2>2 DEF StepFrame
<1>12. CASE Restart
  <2>1. handed' = handed /\ fence' = 0 /\ suppress'[j] = 0
    BY <1>12 DEF Restart, history
  <2> QED BY <2>1 DEF StepFrame
<1> QED BY <1>2, <1>3, <1>4, <1>5, <1>6, <1>7, <1>8, <1>9, <1>10, <1>11, <1>12 DEF Next

(* The start of a queued job only is handed out, to the process the job is *)
(* recorded for.                                                           *)
LEMMA HandsQueued ==
    ASSUME RegistryInv, NEW j \in Jobs, Hands(j)
    PROVE  jobs[j].lc = "queued" /\ jobs[j].inst = inst /\ handed'[j] = inst /\ inst' = inst
<1>1. PICK i \in Instances, stale \in SUBSET InputJobs : Poll(i, stale, Start(j))
  BY DEF Hands
<1>2. jobs[j].lc = "queued"
  BY <1>1 DEF Poll, Takeable, RegistryInv, QueueIsDispatchable
<1>3. jobs[j].inst = inst
  BY <1>2, StatesDisjoint DEF RegistryInv, LeaseOwnsActiveJobs
<1> QED BY <1>1, <1>2, <1>3 DEF Poll, Seen

-----------------------------------------------------------------------------
(***************************************************************************)
(* Project unregistration.                                                 *)
(***************************************************************************)
(* While a project is being unregistered, no job of it waits for dispatch. *)
FencedIsQuiet == fence > 0 => \A j \in ProjectJobs : jobs[j].lc # "queued"

(* Only StartJob makes a job queued. *)
LEMMA QueuedBefore ==
    ASSUME RegistryInv, [Next]_vars, NEW j \in Jobs, ~ StartJob(j), jobs'[j].lc = "queued"
    PROVE  jobs[j].lc = "queued"
<1>1. CASE \E i \in Instances, expired \in SUBSET Jobs : \E inv \in Inventories(i) :
              Register(i, inv, expired)
  BY <1>1, RegisterFollows DEF RegistryInv, Follows, Adopted, Present
<1>2. CASE ~ \E i \in Instances, expired \in SUBSET Jobs : \E inv \in Inventories(i) :
                Register(i, inv, expired)
  BY <1>2, StepFollows DEF Follows, Present
<1> QED BY <1>1, <1>2

LEMMA QuietStep ==
    ASSUME RegistryInv, FencedIsQuiet, [Next]_vars
    PROVE  FencedIsQuiet'
<1> SUFFICES ASSUME fence' > 0, NEW j \in ProjectJobs, jobs'[j].lc = "queued"
             PROVE  FALSE
  BY DEF FencedIsQuiet
<1>1. j \in Jobs /\ TypeOK
  BY ConstantsAssumption DEF ConstantsAssumption, RegistryInv
<1>2. CASE fence > 0
  <2>1. ~ StartJob(j)
    BY <1>2 DEF StartJob
  <2>2. jobs[j].lc = "queued"
    BY <1>1, <2>1, QueuedBefore
  <2> QED BY <1>2, <2>2 DEF FencedIsQuiet
<1>3. CASE ~ (fence > 0)
  <2>1. BeginProjectUnregister
    BY <1>1, <1>3, FrameStep DEF StepFrame
  <2> DEFINE refreshed == [k \in Jobs |-> IF k \in ProjectJobs THEN Refreshed(jobs[k]) ELSE jobs[k]]
  <2>2. jobs' = refreshed /\ ActiveProjectJobs(refreshed) = {}
    BY <1>3, <2>1 DEF BeginProjectUnregister
  <2> HIDE DEF refreshed
  <2>3. ~ IsActive(jobs'[j].lc)
    BY <2>2 DEF ActiveProjectJobs
  <2> QED BY <2>3, StatesDisjoint
<1> QED BY <1>2, <1>3

(* While a project is being unregistered, no start of it is handed to the  *)
(* Runner (FencedProjectNotDispatched).                                    *)
THEOREM FencedNotDispatched == Spec => FencedProjectNotDispatched
<1>1. Init => FencedIsQuiet
  BY DEF Init, FencedIsQuiet
<1>2. RegistryInv /\ FencedIsQuiet /\ [Next]_vars => FencedIsQuiet'
  BY QuietStep
<1>3. RegistryInv /\ FencedIsQuiet /\ [Next]_vars =>
         [fence > 0 => \A j \in ProjectJobs : handed'[j] = handed[j]]_vars
  <2> SUFFICES ASSUME RegistryInv, FencedIsQuiet, [Next]_vars, fence > 0, NEW j \in ProjectJobs
               PROVE  handed'[j] = handed[j]
    OBVIOUS
  <2>1. j \in Jobs /\ TypeOK
    BY ConstantsAssumption DEF ConstantsAssumption, RegistryInv
  <2>2. jobs[j].lc # "queued"
    BY DEF FencedIsQuiet
  <2> QED BY <2>1, <2>2, FrameStep, HandsQueued DEF StepFrame
<1> QED BY <1>1, <1>2, <1>3, RegistryInvariant, PTL DEF Spec, FencedProjectNotDispatched

-----------------------------------------------------------------------------
(***************************************************************************)
(* Results that were returned already.                                     *)
(***************************************************************************)
(* A suppression concerns a hidden job and the process that still holds    *)
(* the lease: no other process was handed its start.  What makes this true *)
(* of the record when its result is projected is that a record belongs to  *)
(* the process its start was handed to, unless it is a detached one.       *)
OwnedRecord(j) ==
    /\ Present(jobs[j]) /\ jobs[j].vis # "public" => j \in HiddenJobs
    /\ Present(jobs[j]) /\ j \notin DetachedJobs /\ handed[j] # NoInstance => jobs[j].inst = handed[j]

SuppressedForOwner(j) ==
    suppress[j] > 0 => j \in HiddenJobs /\ handed[j] \in {NoInstance, inst}

ProjectionInv == \A j \in Jobs : OwnedRecord(j) /\ SuppressedForOwner(j)

LEMMA OwnedStep ==
    ASSUME RegistryInv, NEW j \in Jobs, OwnedRecord(j), [Next]_vars
    PROVE  OwnedRecord(j)'
<1>1. TypeOK /\ StepFrame(j)
  BY FrameStep DEF RegistryInv
<1>2. CASE StartJob(j)
  <2>1. jobs'[j] = [Absent EXCEPT !.lc = "queued", !.inst = inst,
                                  !.vis = IF j \in HiddenJobs THEN "hidden_until_handoff" ELSE "public"]
    BY <1>1, <1>2 DEF StartJob, TypeOK
  <2>2. jobs'[j].vis # "public" => j \in HiddenJobs
    BY <2>1 DEF Absent
  <2>3. handed'[j] = NoInstance
    BY <1>2 DEF StartJob, RegistryInv, FreshIds
  <2> QED BY <2>2, <2>3 DEF OwnedRecord
<1>3. CASE \E i \in Instances, expired \in SUBSET Jobs : \E inv \in Inventories(i) :
              Register(i, inv, expired)
  <2>1. PICK i \in Instances, expired \in SUBSET Jobs : \E inv \in Inventories(i) :
              Register(i, inv, expired)
    BY <1>3
  <2>2. PICK inv \in Inventories(i) : Register(i, inv, expired)
    BY <2>1
  <2>3. handed' = handed
    BY <2>2 DEF Register, history
  <2>4. CASE Follows(jobs[j], jobs'[j])
    BY <2>3, <2>4 DEF OwnedRecord, Follows, Present
  <2>5. CASE j \in DOMAIN inv /\ Adopted(jobs[j], jobs'[j], i)
    <3>1. j \notin DetachedJobs => handed[j] = i
      BY <2>5, InventoryEntry DEF Knows
    <3> QED BY <2>3, <2>5, <3>1 DEF OwnedRecord, Adopted
  <2> QED BY <1>1, <2>2, <2>4, <2>5, RegisterFollows
<1>4. CASE ~ StartJob(j) /\ ~ \E i \in Instances, expired \in SUBSET Jobs : \E inv \in Inventories(i) :
                Register(i, inv, expired)
  <2>1. Follows(jobs[j], jobs'[j])
    BY <1>4, StepFollows
  <2>2. CASE handed'[j] = handed[j]
    BY <2>1, <2>2 DEF OwnedRecord, Follows, Present
  <2>3. CASE Hands(j)
    BY <2>1, <2>3, HandsQueued DEF OwnedRecord, Follows, Present
  <2> QED BY <1>1, <2>2, <2>3 DEF StepFrame
<1> QED BY <1>2, <1>3, <1>4

LEMMA SuppressedStep ==
    ASSUME HiddenJobs \cap DetachedJobs = {}, RegistryInv, NEW j \in Jobs, OwnedRecord(j),
           SuppressedForOwner(j), [Next]_vars
    PROVE  SuppressedForOwner(j)'
<1> SUFFICES ASSUME suppress'[j] > 0
             PROVE  j \in HiddenJobs /\ handed'[j] \in {NoInstance, inst'}
  BY DEF SuppressedForOwner
<1>1. TypeOK /\ StepFrame(j)
  BY FrameStep DEF RegistryInv
<1>2. inst' = inst
  BY <1>1 DEF StepFrame
<1>3. j \in HiddenJobs /\ handed[j] \in {NoInstance, inst}
  <2>1. CASE suppress[j] > 0
    BY <2>1 DEF SuppressedForOwner
  <2>2. CASE ~ (suppress[j] > 0) /\ RemoveProjectedHiddenJob(j)
    <3>1. jobs[j].inst = inst
      BY <1>1, <2>2 DEF RemoveProjectedHiddenJob, TypeOK
    <3>2. jobs[j].vis = "hidden_until_handoff" /\ Present(jobs[j])
      BY <2>2, StatesDisjoint DEF RemoveProjectedHiddenJob, Present
    <3> QED BY <3>1, <3>2 DEF OwnedRecord
  <2> QED BY <1>1, <2>1, <2>2 DEF StepFrame
<1>4. CASE handed'[j] = handed[j]
  BY <1>2, <1>3, <1>4
<1>5. CASE Hands(j)
  BY <1>2, <1>3, <1>5, HandsQueued
<1> QED BY <1>1, <1>4, <1>5 DEF StepFrame

(* An inventory does not bring a suppressed result back. *)
LEMMA RegisterKeepsGone ==
    ASSUME HiddenJobs \cap DetachedJobs = {}, TypeOK, NEW j \in Jobs, SuppressedForOwner(j),
           suppress[j] > 0, ~ Present(jobs[j]),
           NEW i \in Instances, NEW inv \in Inventories(i), NEW expired \in SUBSET Jobs,
           Register(i, inv, expired)
    PROVE  ~ IsTerminal(jobs'[j].lc)
<1> DEFINE kept == KeptRecord(j, i, inv)
           swept == SweptRecord(kept, j \in expired, expired = {})
           t == Reconciled(j, swept, i, inv)
<1>1. jobs[j] \in JobRecord /\ ~ IsTerminal(jobs[j].lc)
  BY StatesDisjoint DEF TypeOK, Present
<1>2. jobs'[j] = IF i \in ReconInstances THEN WithoutCleanupTerminal(t) ELSE kept
  BY RegisteredRecords
<1>3. Traced(jobs[j], kept) /\ Traced(jobs[j], swept)
  <2>1. (j \in expired) \in BOOLEAN /\ (expired = {}) \in BOOLEAN
    OBVIOUS
  <2> QED BY <2>1, RegisterTraces, Zenon
<1> HIDE DEF kept, swept
<1>4. ASSUME NEW s, Traced(jobs[j], s)
      PROVE  ~ Present(s) /\ ~ IsTerminal(s.lc)
  <2>1. MarkJobLost(jobs[j], TRUE) = jobs[j]
    BY DEF MarkJobLost
  <2>2. ~ Present(Absent) /\ ~ IsTerminal(Absent.lc)
    BY DEF Present, Absent, IsTerminal, TerminalStates
  <2> QED BY <1>1, <1>4, <2>1, <2>2 DEF Traced
<1>5. ~ IsTerminal(t.lc)
  <2>1. CASE j \notin DOMAIN inv
    <3>1. ~ IsRunnerActive(swept.lc)
      BY <1>3, <1>4, StatesDisjoint DEF Present
    <3>2. t = swept
      BY <2>1, <3>1 DEF Reconciled
    <3> QED BY <1>3, <1>4, <3>2
  <2>2. CASE j \in DOMAIN inv
    <3>1. inst = i
      <4>1. j \in HiddenJobs /\ handed[j] \in {NoInstance, inst}
        BY DEF SuppressedForOwner
      <4>2. handed[j] = i
        BY <2>2, <4>1, InventoryEntry DEF Knows
      <4> QED BY <4>1, <4>2, ConstantsAssumption DEF ConstantsAssumption
    <3>2. Suppressed(j, i)
      BY <3>1 DEF Suppressed
    <3>3. t = IF IsTerminal(inv[j].rep.st) THEN swept ELSE FromSnapshot(Absent, i, inv[j])
      BY <1>3, <1>4, <2>2, <3>2 DEF Reconciled
    <3>4. FromSnapshot(Absent, i, inv[j]).lc = inv[j].rep.st
      BY DEF FromSnapshot, Absent
    <3> QED BY <1>3, <1>4, <3>3, <3>4
  <2> QED BY <2>1, <2>2
<1>6. \A s : ~ IsTerminal(s.lc) => WithoutCleanupTerminal(s) = s
  BY DEF WithoutCleanupTerminal
<1> HIDE DEF t
<1> QED BY <1>2, <1>3, <1>4, <1>5, <1>6

(* A terminal result that a tool call has returned does not come back as a *)
(* job when its process reconnects (ProjectedResultStaysGone), since jobs  *)
(* admitted hidden are not detached: run_detached_process starts its jobs  *)
(* public.                                                                 *)
THEOREM ProjectedGone ==
    ASSUME HiddenJobs \cap DetachedJobs = {}
    PROVE  Spec => ProjectedResultStaysGone
<1>1. Init => ProjectionInv
  BY DEF Init, ProjectionInv, OwnedRecord, SuppressedForOwner, Absent, Present
<1>2. RegistryInv /\ ProjectionInv /\ [Next]_vars => ProjectionInv'
  BY OwnedStep, SuppressedStep DEF ProjectionInv
<1>3. RegistryInv /\ ProjectionInv /\ [Next]_vars =>
         [\A j \in Jobs : suppress[j] > 0 /\ ~ Present(jobs[j]) => ~ IsTerminal(jobs'[j].lc)]_vars
  <2> SUFFICES ASSUME RegistryInv, ProjectionInv, [Next]_vars, NEW j \in Jobs,
                      suppress[j] > 0, ~ Present(jobs[j])
               PROVE  ~ IsTerminal(jobs'[j].lc)
    OBVIOUS
  <2>1. TypeOK /\ SuppressedForOwner(j)
    BY DEF RegistryInv, ProjectionInv
  <2>2. CASE StartJob(j)
    <3>1. jobs'[j].lc = "queued"
      BY <2>1, <2>2 DEF StartJob, TypeOK, Absent
    <3> QED BY <3>1 DEF IsTerminal, TerminalStates
  <2>3. CASE \E i \in Instances, expired \in SUBSET Jobs : \E inv \in Inventories(i) :
                Register(i, inv, expired)
    BY <2>1, <2>3, RegisterKeepsGone
  <2>4. CASE ~ StartJob(j) /\ ~ \E i \in Instances, expired \in SUBSET Jobs :
                \E inv \in Inventories(i) : Register(i, inv, expired)
    <3>1. ~ Present(jobs'[j])
      BY <2>4, StepFollows DEF Follows
    <3> QED BY <3>1, StatesDisjoint DEF Present
  <2> QED BY <2>2, <2>3, <2>4
<1> QED BY <1>1, <1>2, <1>3, RegistryInvariant, PTL DEF Spec, ProjectedResultStaysGone
=============================================================================
