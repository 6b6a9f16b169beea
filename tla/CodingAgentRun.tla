---------------------------- MODULE CodingAgentRun ----------------------------
(***************************************************************************)
(* The Runner's coding-agent manager: admission of a Run, its worker       *)
(* thread up to and past the prompt gate, cancellation, the terminal       *)
(* commit (durable before live), shutdown, retention, and recovery after a *)
(* restart of the Runner process.                                          *)
(*                                                                         *)
(* A RunEntry is an object: the map names at most one per run id, and its  *)
(* worker thread keeps it alive when the map no longer does.  A permission *)
(* pause, an event and a note of progress are all one new revision.  Time  *)
(* is not measured: a deadline may pass, and retention may elapse, at any  *)
(* moment.                                                                 *)
(***************************************************************************)
EXTENDS RunReports, FiniteSets

CONSTANTS
    Runs,           \* run ids
    MaxEntries,     \* bound: RunEntry objects of a run id alive at a time
    None,           \* no entry, no record, no pending commit
    Unreadable,     \* a Run directory without a usable state
    MaxConcurrent,  \* max_concurrent_runs
    MaxProcs,       \* bound: Runner processes, one after the other
    MaxRev,         \* bound: revision up to which a turn reports progress
    Expires,        \* whether STORE_RETENTION_SECS may elapse
    SweepRaces,     \* whether a start may come between the two locks of a sweep
    RemovalFails    \* whether removing an expired record may fail

ASSUME RunAssumption ==
    /\ MaxConcurrent \in Nat \ {0} /\ MaxProcs \in Nat \ {0} /\ MaxEntries \in Nat \ {0}
    /\ MaxRev \in Nat /\ Expires \in BOOLEAN /\ SweepRaces \in BOOLEAN /\ RemovalFails \in BOOLEAN

VARIABLES
    proc,       \* the Runner process: its instance id and its providers' ids
    accepting,  \* the accepting flag and how far stop_accepting is
    disk,       \* the durable record of a run
    runs,       \* the map from run ids to entries: a slot, or 0
    entry,      \* the entries
    sweep,      \* expired run ids that inventory collected and not yet removed
    prompts,    \* history: session/prompt frames handed to a writer, per run id
    answer      \* history: what the agent answered to the prompt of a run id

history == <<prompts, answer>>
runnerVars == <<proc, accepting, disk, runs, entry, sweep, prompts, answer>>

Snapshot == Snapshots(0..(MaxRev + 4), 1..MaxProcs)

(* A DurableRunRecord and its dispatch phase. *)
Record == [phase : {"before", "may", "terminal"}, st : RunState,
           ex : ExecutionState, pi : 1..MaxProcs]

(* The worker thread.  It holds the prompt gate in Gated.  none: there is  *)
(* no worker, or it is done but for a pending commit.                      *)
Gated == {"persist", "refused", "fenced", "handoff"}
Prompted == {"writing", "turn"}
WorkerPc == {"none", "setup"} \cup Gated \cup Prompted

Outcome == [st : Terminal, ex : ExecutionState]

Entry == [snap : Snapshot, pc : WorkerPc, cancel : BOOLEAN,
          commit : Outcome \cup {None}, old : BOOLEAN]

Entries == Runs \X (1..MaxEntries)

(* What is absent is a value of its own. *)
ASSUME AbsentAssumption ==
    /\ None \notin Entry \cup Record \cup Outcome \cup Snapshot
    /\ Unreadable \notin Record \cup {None}

(* yes; flagged: stop_accepting cleared the flag and waits for admission,  *)
(* which one start may hold; closing: it cancels; no: it has returned.     *)
Accepting == {"yes", "flagged", "closing", "no"}

RunnerTypeOK ==
    /\ proc \in 1..MaxProcs
    /\ accepting \in Accepting
    /\ disk \in [Runs -> Record \cup {None, Unreadable}]
    /\ runs \in [Runs -> 0..MaxEntries]
    /\ entry \in [Entries -> Entry \cup {None}]
    /\ sweep \subseteq Runs
    /\ prompts \in [Runs -> Nat]
    /\ answer \in [Runs -> {"none"} \cup Definitive]

RunnerInit ==
    /\ proc = 1 /\ accepting = "yes"
    /\ disk = [r \in Runs |-> None]
    /\ runs = [r \in Runs |-> 0]
    /\ entry = [e \in Entries |-> None]
    /\ sweep = {}
    /\ prompts = [r \in Runs |-> 0]
    /\ answer = [r \in Runs |-> "none"]

Alive(e) == entry[e] # None
IsTerminal(e) == entry[e].snap.st \in Terminal
Known(r) == runs[r] # 0
Of(r) == <<r, runs[r]>>
Readable(d) == d \notin {None, Unreadable}

Rec(phase, st, ex, p) == [phase |-> phase, st |-> st, ex |-> ex, pi |-> p]
Out(st, ex) == [st |-> st, ex |-> ex]
NewEntry(s, pc) == [snap |-> s, pc |-> pc, cancel |-> FALSE, commit |-> None, old |-> FALSE]

(* Mutant: a revision before the first. *)
RecordSnapshotEarlier(d) == Snap(d.st, d.ex, -1, d.pi)

(* DurableRunRecord::snapshot(0): the revision is not part of the record. *)
RecordSnapshot(d) == Snap(d.st, d.ex, 0, d.pi)

(* An entry that neither the map nor a worker nor a commit holds is freed. *)
Collected(ents, map) ==
    [e \in Entries |->
        IF ents[e] # None /\ ents[e].pc = "none" /\ ents[e].commit = None /\ map[e[1]] # e[2]
        THEN None ELSE ents[e]]

FirstFree(ents, r) ==
    {s \in 1..MaxEntries : ents[<<r, s>>] = None /\ \A t \in 1..(s - 1) : ents[<<r, t>>] # None}
-----------------------------------------------------------------------------
(***************************************************************************)
(* Retention.  cleanup_expired collects the expired terminal entries and   *)
(* removes them, and their records, under a second lock.  start calls it   *)
(* first, under the admission lock; inventory without that lock.  The      *)
(* removal of a directory may fail, and may leave it without its state.    *)
(* (An entry may age right after start's own call: to the rest of start it *)
(* is as if it were fresh, so the call is a step of its own.)              *)
(***************************************************************************)
Age(e) ==
    /\ Expires /\ Alive(e) /\ IsTerminal(e) /\ ~entry[e].old
    /\ entry' = [entry EXCEPT ![e].old = TRUE]
    /\ UNCHANGED <<proc, accepting, disk, runs, sweep, history>>

Expired == {r \in Runs : Known(r) /\ entry[Of(r)].old}

(* The history of a run id ends with its record. *)
Remove(R) ==
    /\ \E left \in [R -> IF RemovalFails THEN {"gone", "kept", "unreadable"} ELSE {"gone"}] :
          LET gone == {r \in R : left[r] = "gone"}
          IN  /\ disk' = [r \in Runs |-> IF r \notin R \/ left[r] = "kept" THEN disk[r]
                                        ELSE IF r \in gone THEN None ELSE Unreadable]
              /\ prompts' = [r \in Runs |-> IF r \in gone THEN 0 ELSE prompts[r]]
              /\ answer' = [r \in Runs |-> IF r \in gone THEN "none" ELSE answer[r]]
    /\ runs' = [r \in Runs |-> IF r \in R THEN 0 ELSE runs[r]]
    /\ entry' = Collected(entry, runs')

SweepCollect ==
    /\ sweep = {} /\ Expired # {}
    /\ sweep' = Expired
    /\ UNCHANGED <<proc, accepting, disk, runs, entry, history>>

SweepRemove ==
    /\ sweep # {} /\ Remove(sweep)
    /\ sweep' = {}
    /\ UNCHANGED <<proc, accepting>>

(* start holds admission, and its look at the flag is behind it. *)
Admitting == accepting \in {"yes", "flagged"} /\ (SweepRaces \/ sweep = {})

StartCleans ==
    /\ Admitting /\ Expired # {} /\ Remove(Expired)
    /\ UNCHANGED <<proc, accepting, sweep>>
-----------------------------------------------------------------------------
(***************************************************************************)
(* start, from the admission lock to its release.                          *)
(***************************************************************************)
ActiveRuns == {r \in Runs : Known(r) /\ ~IsTerminal(Of(r))}

StartFinishes == accepting' = IF accepting = "flagged" THEN "closing" ELSE accepting

(* The run is already admitted: its snapshot is the answer. *)
StartKnown(r) ==
    /\ Admitting /\ Known(r)
    /\ StartFinishes /\ UNCHANGED <<proc, disk, runs, entry, sweep, history>>

(* Answered with not_started: the Runner stops, the provider is another    *)
(* process's, the Project or the environment changed, or there is no       *)
(* capacity.                                                               *)
StartRefused(r) ==
    /\ \/ accepting # "yes" /\ accepting' = accepting
       \/ Admitting /\ ~Known(r) /\ StartFinishes
    /\ UNCHANGED <<proc, disk, runs, entry, sweep, history>>

Admissible(r, p) == Admitting /\ ~Known(r) /\ p = proc /\ Cardinality(ActiveRuns) < MaxConcurrent

Insert(r, s, pc) ==
    \E k \in FirstFree(entry, r) :
        /\ runs' = [runs EXCEPT ![r] = k]
        /\ entry' = [entry EXCEPT ![<<r, k>>] = NewEntry(s, pc)]

(* A record without an entry is the answer. *)
StartRecorded(r, p) ==
    /\ Admissible(r, p) /\ Readable(disk[r])
    /\ Insert(r, RecordSnapshot(disk[r]), "none")
    /\ StartFinishes /\ UNCHANGED <<proc, disk, sweep, history>>

(* A record that cannot be read is answered with outcome_unknown. *)
StartUnreadable(r, p) ==
    /\ Admissible(r, p) /\ disk[r] = Unreadable
    /\ StartFinishes /\ UNCHANGED <<proc, disk, runs, entry, sweep, history>>

FirstRecord == Rec("before", "starting", "not_started", proc)

StartNew(r, p) ==
    /\ Admissible(r, p) /\ disk[r] = None
    /\ disk' = [disk EXCEPT ![r] = FirstRecord]
    /\ Insert(r, RecordSnapshot(FirstRecord), "setup")
    /\ StartFinishes /\ UNCHANGED <<proc, sweep, history>>

(* The first record cannot be written, answered with not_started.  What    *)
(* was written is removed again, as far as that succeeds.                  *)
StartWriteFails(r, p) ==
    /\ Admissible(r, p) /\ disk[r] = None
    /\ \E d \in {None, Unreadable, FirstRecord} : disk' = [disk EXCEPT ![r] = d]
    /\ StartFinishes /\ UNCHANGED <<proc, runs, entry, sweep, history>>
-----------------------------------------------------------------------------
(***************************************************************************)
(* commit_terminal_transition: the terminal record is written before the   *)
(* terminal snapshot is published.  A write that fails, which may or may   *)
(* not have replaced the record, is published as uncertain.                *)
(***************************************************************************)
(* Mutant: an outcome that could not be written is published as it is. *)
UncertainAsWanted(st, ex) == Out(st, ex)

Uncertain(st, ex) ==
    IF ex = "not_started" THEN Out("failed", "not_started") ELSE Out("lost", "outcome_unknown")

Commit(e, st, ex, pc, cancel) ==
    LET written == [disk EXCEPT ![e[1]] = Rec("terminal", st, ex, entry[e].snap.pi)]
        Pending(c) == [entry EXCEPT ![e].commit = c, ![e].pc = pc, ![e].cancel = cancel]
    IN  /\ Alive(e) /\ ~IsTerminal(e) /\ entry[e].commit = None
        /\ \/ disk' = written /\ entry' = Pending(Out(st, ex))
           \/ disk' \in {disk, written} /\ entry' = Pending(Uncertain(st, ex))

Publish(e) ==
    /\ Alive(e) /\ entry[e].commit # None
    /\ LET c == entry[e].commit
           s == entry[e].snap
       IN  entry' = Collected([entry EXCEPT ![e].commit = None,
                                            ![e].snap = Snap(c.st, c.ex, s.rev + 2, s.pi)], runs)
    /\ UNCHANGED <<proc, accepting, disk, runs, sweep, history>>
-----------------------------------------------------------------------------
(***************************************************************************)
(* run_turn.                                                               *)
(***************************************************************************)
(* The worker of e is at pc and nobody is committing the end of the run. *)
At(e, pcs) == Alive(e) /\ entry[e].pc \in pcs /\ entry[e].commit = None

Step(e, ent) ==
    /\ entry' = [entry EXCEPT ![e] = ent]
    /\ UNCHANGED <<proc, accepting, disk, runs, sweep, history>>

(* Spawning the agent, initialize, session/new or its configuration fails, *)
(* the deadline passes before the barrier or behind it, the barrier could  *)
(* not be written, or the writer refuses the frame.                        *)
SetupFails(e) ==
    /\ At(e, {"setup", "refused", "fenced", "handoff"})
    /\ Commit(e, "failed", "not_started", "none", entry[e].cancel)
    /\ UNCHANGED <<proc, accepting, runs, sweep, history>>

(* The Runner stops, or the run is cancelled, before the prompt: seen      *)
(* before the barrier, or behind it.                                       *)
Interrupted(e) ==
    /\ \/ At(e, {"setup"}) /\ (accepting # "yes" \/ entry[e].cancel)
       \/ At(e, {"fenced"}) /\ accepting # "yes"
    /\ Commit(e, "cancelled", "not_started", "none", TRUE)
    /\ UNCHANGED <<proc, accepting, runs, sweep, history>>

(* Mutant: the worker only looks up when the Runner stops. *)
WorkerLeavesAtStop(e) ==
    /\ At(e, {"setup"}) /\ IsTerminal(e) /\ accepting # "yes"
    /\ entry' = Collected([entry EXCEPT ![e].pc = "none"], runs)
    /\ UNCHANGED <<proc, accepting, disk, runs, sweep, history>>

(* Somebody else ended the run: the worker leaves. *)
WorkerLeaves(e) ==
    /\ At(e, {"setup"}) /\ IsTerminal(e)
    /\ entry' = Collected([entry EXCEPT ![e].pc = "none"], runs)
    /\ UNCHANGED <<proc, accepting, disk, runs, sweep, history>>

(* The gate is taken and the run may go on: the live half of persist_phase. *)
EnterGate(e) ==
    /\ At(e, {"setup"}) /\ ~IsTerminal(e) /\ ~entry[e].cancel /\ accepting = "yes"
    /\ Step(e, [entry[e] EXCEPT !.pc = "persist",
                   !.snap = Snap("running", "outcome_unknown", @.rev + 1, @.pi)])

Barrier(e, ex) == [disk EXCEPT ![e[1]] = Rec("may", "running", ex, entry[e].snap.pi)]

(* Mutant: the prompt is not kept back by a barrier that was not written. *)
PersistUnchecked(e) ==
    /\ At(e, {"persist"})
    /\ disk' \in {disk, Barrier(e, "outcome_unknown")}
    /\ entry' = [entry EXCEPT ![e].pc = "fenced"]
    /\ UNCHANGED <<proc, accepting, runs, sweep, history>>

(* The durable half. *)
Persist(e) ==
    /\ At(e, {"persist"})
    /\ \/ disk' = Barrier(e, "outcome_unknown") /\ entry' = [entry EXCEPT ![e].pc = "fenced"]
       \/ disk' \in {disk, Barrier(e, "outcome_unknown")} /\ entry' = [entry EXCEPT ![e].pc = "refused"]
    /\ UNCHANGED <<proc, accepting, runs, sweep, history>>

PassFence(e) ==
    /\ At(e, {"fenced"}) /\ accepting = "yes"
    /\ Step(e, [entry[e] EXCEPT !.pc = "handoff"])

(* start_frame takes the prompt, and the gate is released. *)
Handoff(e) ==
    /\ At(e, {"handoff"})
    /\ entry' = [entry EXCEPT ![e].pc = "writing"]
    /\ prompts' = [prompts EXCEPT ![e[1]] = @ + 1]
    /\ UNCHANGED <<proc, accepting, disk, runs, sweep, answer>>

(* The prompt is written; its record is refreshed, as far as that succeeds. *)
Written(e) ==
    /\ At(e, {"writing"})
    /\ disk' \in {disk, Barrier(e, "started")}
    /\ entry' = [entry EXCEPT ![e].pc = "turn",
                              ![e].snap = Snap(@.st, "started", @.rev + 1, @.pi)]
    /\ UNCHANGED <<proc, accepting, runs, sweep, history>>

(* An event, or a pause for a permission. *)
Progress(e) ==
    /\ At(e, {"turn"}) /\ entry[e].snap.rev < MaxRev
    /\ Step(e, [entry[e] EXCEPT !.snap.rev = @ + 1])

(* The answer to the prompt: a stop reason or an error. *)
Answered(e, o) ==
    /\ At(e, {"turn"})
    /\ answer' = [answer EXCEPT ![e[1]] = o]
    /\ Commit(e, o, "completed", "none", entry[e].cancel)
    /\ UNCHANGED <<proc, accepting, runs, sweep, prompts>>

(* The write is uncertain, the agent is gone, the transport broke or the   *)
(* answer to a cancel did not come in time.                                *)
TurnLost(e) ==
    /\ At(e, Prompted)
    /\ Commit(e, "lost", "outcome_unknown", "none", entry[e].cancel)
    /\ UNCHANGED <<proc, accepting, runs, sweep, history>>
-----------------------------------------------------------------------------
(***************************************************************************)
(* request_cancel waits for the gate and for a pending commit.  Before the *)
(* prompt, and for an entry without a worker, it commits; behind it, it    *)
(* leaves a flag.                                                          *)
(***************************************************************************)
(* Mutant: cancelled as not_started whatever the gate says. *)
RequestCancelUngated(e) ==
    /\ Alive(e) /\ entry[e].commit = None /\ entry[e].pc \notin Gated
    /\ ~IsTerminal(e)
    /\ Commit(e, "cancelled", "not_started", "none", TRUE)

RequestCancel(e) ==
    /\ Alive(e) /\ entry[e].commit = None /\ entry[e].pc \notin Gated
    /\ \/ IsTerminal(e) /\ UNCHANGED <<disk, entry>>
       \/ /\ ~IsTerminal(e) /\ entry[e].pc \in Prompted
          /\ entry' = [entry EXCEPT ![e].cancel = TRUE]
          /\ disk' = disk
       \/ entry[e].pc \notin Prompted /\ Commit(e, "cancelled", "not_started", entry[e].pc, TRUE)

Cancel(r) ==
    /\ Known(r) /\ RequestCancel(Of(r))
    /\ UNCHANGED <<proc, accepting, runs, sweep, history>>
-----------------------------------------------------------------------------
(***************************************************************************)
(* stop_accepting: the flag, the admission lock, one cancel after another. *)
(***************************************************************************)
StopFlag ==
    /\ accepting = "yes" /\ accepting' = "flagged"
    /\ UNCHANGED <<proc, disk, runs, entry, sweep, history>>

StopFence ==
    /\ accepting = "flagged" /\ accepting' = "closing"
    /\ UNCHANGED <<proc, disk, runs, entry, sweep, history>>

StopCancel(r) ==
    /\ accepting = "closing" /\ Known(r) /\ ~IsTerminal(Of(r)) /\ ~entry[Of(r)].cancel
    /\ RequestCancel(Of(r))
    /\ UNCHANGED <<proc, accepting, runs, sweep, history>>

(* Mutant: stop_accepting returns without cancelling. *)
StopDoneAtOnce ==
    /\ accepting = "closing" /\ accepting' = "no"
    /\ UNCHANGED <<proc, disk, runs, entry, sweep, history>>

StopDone ==
    /\ accepting = "closing"
    /\ \A r \in Runs : Known(r) => IsTerminal(Of(r)) \/ entry[Of(r)].cancel
    /\ accepting' = "no"
    /\ UNCHANGED <<proc, disk, runs, entry, sweep, history>>
-----------------------------------------------------------------------------
(***************************************************************************)
(* A Runner process ends, at any moment, and the next one recovers.        *)
(***************************************************************************)
(* Mutant: recovery does not ask whether the barrier was written. *)
RecoveredUnasked(d) ==
    IF d.phase = "terminal" THEN d ELSE Rec("terminal", "failed", "not_started", d.pi)

Recovered(d) ==
    CASE d.phase = "terminal" -> d
      [] d.phase = "may" -> Rec("terminal", "lost", "outcome_unknown", d.pi)
      [] d.phase = "before" -> Rec("terminal", "failed", "not_started", d.pi)

NewProcess == proc < MaxProcs /\ proc' = proc + 1 /\ sweep' = {}

(* Mutant: the runs that had not ended are taken up again. *)
RestartResumes ==
    /\ NewProcess /\ accepting' = "yes"
    /\ runs' = [r \in Runs |-> IF Readable(disk[r]) THEN 1 ELSE 0]
    /\ entry' = [e \in Entries |->
                    IF Readable(disk[e[1]]) /\ e[2] = 1
                    THEN NewEntry(RecordSnapshot(disk[e[1]]), IF disk[e[1]].phase = "terminal" THEN "none" ELSE "setup")
                    ELSE None]
    /\ UNCHANGED <<disk, history>>

Restart ==
    /\ NewProcess /\ accepting' = "yes"
    /\ disk' = [r \in Runs |-> IF Readable(disk[r]) THEN Recovered(disk[r]) ELSE disk[r]]
    /\ runs' = [r \in Runs |-> IF Readable(disk[r]) THEN 1 ELSE 0]
    /\ entry' = [e \in Entries |->
                    IF Readable(disk[e[1]]) /\ e[2] = 1
                    THEN NewEntry(RecordSnapshot(Recovered(disk[e[1]])), "none") ELSE None]
    /\ UNCHANGED history

(* A record cannot be rewritten: the process runs without coding agents. *)
RestartFails ==
    /\ NewProcess /\ accepting' = "no"
    /\ \E R \in SUBSET {r \in Runs : Readable(disk[r])} :
          disk' = [r \in Runs |-> IF r \in R THEN Recovered(disk[r]) ELSE disk[r]]
    /\ runs' = [r \in Runs |-> 0]
    /\ entry' = [e \in Entries |-> None]
    /\ UNCHANGED history
-----------------------------------------------------------------------------
(* The worker's own steps; each is finite and under a deadline. *)
Worker(e) ==
    \/ SetupFails(e) \/ Interrupted(e) \/ WorkerLeaves(e) \/ EnterGate(e)
    \/ Persist(e) \/ PassFence(e) \/ Handoff(e) \/ Written(e)
    \/ TurnLost(e) \/ \E o \in Definitive : Answered(e, o)

(* What the Runner does by itself, without a request of the Server. *)
RunnerStep ==
    \/ \E e \in Entries : Worker(e) \/ Progress(e) \/ Publish(e) \/ Age(e)
    \/ SweepCollect \/ SweepRemove \/ StartCleans
    \/ StopFlag \/ StopFence \/ StopDone
    \/ \E r \in Runs : StopCancel(r)
    \/ Restart \/ RestartFails

Request(r, p) ==
    \/ StartKnown(r) \/ StartRefused(r) \/ StartRecorded(r, p)
    \/ StartUnreadable(r, p) \/ StartNew(r, p) \/ StartWriteFails(r, p)
    \/ Cancel(r)

RunnerNext == RunnerStep \/ \E r \in Runs, p \in 1..MaxProcs : Request(r, p)

RunnerSpec ==
    /\ RunnerInit /\ [][RunnerNext]_runnerVars
    /\ \A e \in Entries : WF_runnerVars(Worker(e) \/ Progress(e)) /\ WF_runnerVars(Publish(e))
-----------------------------------------------------------------------------
(***************************************************************************)
(* Properties.                                                             *)
(***************************************************************************)
(* The prompt of a run id is handed to an agent at most once, over cancels,*)
(* replayed starts, failed writes and restarts of the Runner, as long as   *)
(* its record is retained.                                                 *)
PromptedAtMostOnce == \A r \in Runs : prompts[r] <= 1

(* What the Runner says of a run, live or on disk, is true: not_started    *)
(* only of a prompt that was never handed over, and a definitive end       *)
(* behind the prompt only when the agent answered it so.                   *)
ReportsAreTrue ==
    \A r \in Runs :
        /\ Known(r) => TrueReport(entry[Of(r)].snap, prompts[r], answer[r])
        /\ Readable(disk[r]) => TrueReport(disk[r], prompts[r], answer[r])

(* A prompt that may have been handed over is on record before it is: no   *)
(* crash between the two can make recovery call it not_started.            *)
BarrierBeforePrompt ==
    \A r \in Runs : prompts[r] > 0 /\ Readable(disk[r]) =>
        disk[r].phase # "before" /\ disk[r].ex # "not_started"

(* What the agent answered is reported only when it is on disk: no crash   *)
(* takes back an answer that the Server may have seen.                     *)
AnswerIsDurable ==
    \A r \in Runs : Known(r) /\ entry[Of(r)].snap.ex = "completed" =>
        disk[r] = Rec("terminal", entry[Of(r)].snap.st, "completed", entry[Of(r)].snap.pi)

(* Once stop_accepting has returned, this process hands over no prompt. *)
NoPromptAfterStop ==
    [][accepting = "no" => \A r \in Runs : prompts'[r] <= prompts[r]]_runnerVars

(* A worker is not stuck: the run it works on ends, or its process does. *)
RunEnds ==
    \A e \in Entries : (Alive(e) /\ entry[e].pc # "none") ~> (Alive(e) => entry[e].pc = "none")

(* Replaying the start of a run id cannot dispatch its prompt twice: a run *)
(* id never has two turns at once that both got the prompt and that both   *)
(* are still going.                                                        *)
Turns(r) == {s \in 1..MaxEntries : Alive(<<r, s>>) /\ entry[<<r, s>>].pc \in Prompted}

OneTurnPerRun == \A r \in Runs : Cardinality(Turns(r)) <= 1

(* The manager implements what the Server builds on: see RunnerRuns. *)
Owner(r) == IF disk[r] = None THEN 0 ELSE IF disk[r] = Unreadable THEN -1 ELSE disk[r].pi

Promise ==
    INSTANCE RunnerRuns WITH
        rep <- [r \in Runs |-> IF Known(r) THEN entry[Of(r)].snap ELSE None],
        owner <- [r \in Runs |-> Owner(r)],
        Endings <- Definitive

KeepsPromise == Promise!RunsSpec
-----------------------------------------------------------------------------
(***************************************************************************)
(* The inductive invariant, for Runners whose sweeps no start interrupts   *)
(* and whose removals succeed.  It speaks of one run at a time: d is its   *)
(* record, p and a what is true of its prompt, n its entry.                *)
(***************************************************************************)
Going(n) == n.snap.st \notin Terminal

(* A record is true, names its stage, and is there once the prompt is out. *)
Sound(d, p, a) ==
    /\ p \in {0, 1} /\ (p = 0 => a = "none")
    /\ p = 1 => Readable(d) /\ d.phase # "before" /\ d.ex # "not_started"
    /\ Readable(d) =>
          /\ d.phase = "before" => d.st = "starting" /\ d.ex = "not_started"
          /\ d.phase = "may" => d.st = "running" /\ d.ex \in {"outcome_unknown", "started"}
          /\ d.phase = "terminal" => d.st \in Terminal
          /\ TrueReport(d, p, a)

(* What holds between the worker's steps while nobody ends the run. *)
Working(n, d, p, a) ==
    /\ a = "none" /\ d.phase # "terminal"
    /\ n.pc \in {"none", "setup"} =>
          n.snap.st = "starting" /\ n.snap.ex = "not_started" /\ n.snap.rev = 0 /\ p = 0 /\ d.phase = "before"
    /\ n.pc \in Gated =>
          /\ n.snap.st = "running" /\ n.snap.ex = "outcome_unknown" /\ n.snap.rev = 1 /\ p = 0
          /\ n.pc = "persist" => d.phase = "before"
          /\ n.pc \in {"fenced", "handoff"} => d.phase = "may"
    /\ n.pc \in Prompted =>
          /\ n.snap.st = "running" /\ p = 1 /\ d.phase = "may"
          /\ n.pc = "writing" => n.snap.ex = "outcome_unknown" /\ n.snap.rev = 1
          /\ n.pc = "turn" => n.snap.ex = "started" /\ n.snap.rev >= 2

(* An end, pending or published, is true, and durable if it is an answer. *)
Ended(c, n, d, p, a) ==
    /\ c.st \in Terminal /\ TrueReport(c, p, a)
    /\ c.ex = "completed" => d = Rec("terminal", c.st, "completed", n.snap.pi)

Stage(n, d, p, a) ==
    /\ n.snap.pi = d.pi
    /\ Going(n) => n.snap.ex # "completed" /\ n.snap.rev <= MaxRev + 2 /\ ~n.old
    /\ Going(n) /\ n.commit = None => Working(n, d, p, a) /\ (n.cancel => n.pc \in Prompted)
    /\ n.commit # None => Going(n) /\ Ended(n.commit, n, d, p, a)
    /\ ~Going(n) => Ended(n.snap, n, d, p, a)
    /\ ~Going(n) \/ n.commit # None => n.pc \in {"none", "setup"}

(* The worker of an ended run that has not noticed yet. *)
Leaving(n) == ~Going(n) /\ n.commit = None /\ n.pc = "setup"

RunInv(r) ==
    /\ Sound(disk[r], prompts[r], answer[r])
    /\ Known(r) =>
          /\ Alive(Of(r)) /\ Readable(disk[r])
          /\ Stage(entry[Of(r)], disk[r], prompts[r], answer[r])
          /\ Going(entry[Of(r)]) => entry[Of(r)].snap.pi = proc
          /\ accepting = "no" => ~Going(entry[Of(r)]) \/ entry[Of(r)].cancel
    /\ \A k \in 1..MaxEntries : Alive(<<r, k>>) /\ k # runs[r] => Leaving(entry[<<r, k>>])
    /\ ~Known(r) /\ accepting # "no" /\ Readable(disk[r]) => disk[r].phase = "before" /\ disk[r].pi = proc
    /\ r \in sweep => Known(r) /\ entry[Of(r)].old

RunnerInv == RunnerTypeOK /\ \A r \in Runs : RunInv(r)

(***************************************************************************)
(* What holds of any Runner.  Whatever its sweeps and removals do, an      *)
(* entry and a record are each at a stage; a run keeps its one prompt and  *)
(* its answer if no start interrupts a sweep.                              *)
(***************************************************************************)
Filed(d) == IF d.phase = "terminal" THEN d.st \in Terminal ELSE d.st \notin Terminal /\ d.ex # "completed"

Staged(n) ==
    /\ n.commit # None => Going(n)
    /\ Going(n) => ~n.old /\ n.snap.ex # "completed" /\ n.snap.rev <= MaxRev + 2
    /\ Going(n) /\ n.commit = None /\ n.pc = "setup" => n.snap.rev = 0
    /\ n.pc \in Gated \cup {"writing"} => n.snap.rev = 1
    /\ n.pc \in Gated \cup Prompted => Going(n) /\ n.commit = None
    /\ n.cancel /\ Going(n) /\ n.commit = None => n.pc \in Prompted

(* The worker has yet to hand over the prompt. *)
Awaiting(n) == Going(n) /\ n.commit = None /\ n.pc \in {"setup"} \cup Gated

(* An entry n of the map fits its record and its prompts so far. *)
Fits(n, d, p) ==
    /\ n.snap.pi = d.pi
    /\ Awaiting(n) => p = 0
    /\ n.commit # None /\ n.commit.ex = "completed" => d = Rec("terminal", n.commit.st, "completed", d.pi)
    /\ n.snap.ex = "completed" => d = Rec("terminal", n.snap.st, "completed", d.pi)

Retained(r) ==
    /\ prompts[r] \in {0, 1} /\ (prompts[r] = 1 => disk[r] # None)
    /\ Known(r) =>
          /\ Alive(Of(r)) /\ Readable(disk[r]) /\ Fits(entry[Of(r)], disk[r], prompts[r])
          /\ accepting = "no" => ~Going(entry[Of(r)]) \/ entry[Of(r)].cancel
    /\ \A k \in 1..MaxEntries : Alive(<<r, k>>) /\ k # runs[r] => Leaving(entry[<<r, k>>])
    /\ r \in sweep => Known(r) /\ entry[Of(r)].old

AnyRunnerInv ==
    /\ RunnerTypeOK
    /\ \A e \in Entries : Alive(e) => Staged(entry[e])
    /\ \A r \in Runs : Readable(disk[r]) => Filed(disk[r])
    /\ ~SweepRaces => \A r \in Runs : Retained(r)
=============================================================================
