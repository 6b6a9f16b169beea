------------------------- MODULE CodingAgentRunProofs -------------------------
EXTENDS CodingAgentRun, TLAPS
(***************************************************************************)
(* Proofs about the manager of coding-agent runs, for any runs, entries,   *)
(* processes and revisions, crashes and failing writes included.           *)
(*                                                                         *)
(* What they suppose of a Runner.  ~SweepRaces: no start comes between the *)
(* two halves of a sweep, which removes by name what it has collected.     *)
(* ~RemovalFails: the removal of an expired run succeeds.  A removal that  *)
(* keeps the record drops the entry all the same, and a later start of     *)
(* that run finds a record that it did not leave itself.  The types need   *)
(* neither.  That a run has one prompt, that its answer lasts, and that    *)
(* nothing is prompted after the stop need only ~SweepRaces.  That reports *)
(* are true, that the barrier comes first and that the manager keeps its   *)
(* promise need both; the run coding_run_retention shows what goes wrong   *)
(* without them.  Liveness (RunEnds) is left to TLC.                       *)
(*                                                                         *)
(* There are two arguments.  RunnerInv (CodingAgentRun) says of each run   *)
(* how its entry, its record, its prompt and its answer fit together at    *)
(* each point of its worker: every step of a worker changes one run on the *)
(* map (LiveStep); the other steps insert, remove or recover entries.  The *)
(* truth of reports follows, and each step of the refinement of            *)
(* RunnerRuns.  AnyRunnerInv, at the end, says less and supposes less: how *)
(* far an entry and a record each are, and how many prompts fit that.      *)
(***************************************************************************)

(***************************************************************************)
(* Values.                                                                 *)
(***************************************************************************)
(* A slot of a run is named by the run and a number. *)
LEMMA Slots ==
    /\ \A e \in Entries : e[1] \in Runs /\ e[2] \in 1 .. MaxEntries /\ e = <<e[1], e[2]>>
    /\ \A r \in Runs, k \in 1 .. MaxEntries : <<r, k>> \in Entries
    BY DEF Entries

(* An entry is never the absent value, and a record neither. *)
LEMMA Present ==
    /\ \A n \in Entry : n # None
    /\ \A d \in Record : d # None /\ d # Unreadable /\ Readable(d)
    /\ \A o \in Outcome : o # None
    /\ \A s \in Snapshot : s # None
    BY AbsentAssumption DEF Readable

(* The fields of an entry of the manager's map are typed. *)
LEMMA EntryParts ==
    ASSUME NEW n \in Entry
    PROVE  /\ n.snap \in Snapshot /\ n.pc \in WorkerPc /\ n.cancel \in BOOLEAN
           /\ n.commit \in Outcome \cup {None} /\ n.old \in BOOLEAN
           /\ n.snap.st \in RunState /\ n.snap.ex \in ExecutionState
           /\ n.snap.rev \in 0 .. (MaxRev + 4) /\ n.snap.pi \in 1 .. MaxProcs
    BY DEF Entry, Snapshot, Snapshots

(* The fields of a record on disk are typed. *)
LEMMA RecordParts ==
    ASSUME NEW d \in Record
    PROVE  /\ d.phase \in {"before", "may", "terminal"} /\ d.st \in RunState
           /\ d.ex \in ExecutionState /\ d.pi \in 1 .. MaxProcs
    BY DEF Record

(* A record that put_run writes is a record with those fields. *)
LEMMA RecParts ==
    ASSUME NEW ph \in {"before", "may", "terminal"}, NEW st \in RunState,
           NEW ex \in ExecutionState, NEW p \in 1 .. MaxProcs
    PROVE  /\ Rec(ph, st, ex, p) \in Record
           /\ Rec(ph, st, ex, p).phase = ph /\ Rec(ph, st, ex, p).st = st
           /\ Rec(ph, st, ex, p).ex = ex /\ Rec(ph, st, ex, p).pi = p
    BY DEF Record, Rec

(* A snapshot with typed fields is a snapshot. *)
LEMMA SnapParts ==
    ASSUME NEW st \in RunState, NEW ex \in ExecutionState,
           NEW v \in 0 .. (MaxRev + 4), NEW p \in 1 .. MaxProcs
    PROVE  /\ Snap(st, ex, v, p) \in Snapshot
           /\ Snap(st, ex, v, p).st = st /\ Snap(st, ex, v, p).ex = ex
           /\ Snap(st, ex, v, p).rev = v /\ Snap(st, ex, v, p).pi = p
    BY DEF Snapshot, Snapshots, Snap

(* The entry that an admission or a recovery inserts. *)
LEMMA NewEntryParts ==
    ASSUME NEW s \in Snapshot, NEW w \in WorkerPc
    PROVE  /\ NewEntry(s, w) \in Entry
           /\ NewEntry(s, w).snap = s /\ NewEntry(s, w).pc = w /\ NewEntry(s, w).cancel = FALSE
           /\ NewEntry(s, w).commit = None /\ NewEntry(s, w).old = FALSE
    BY DEF Entry, NewEntry

(* A terminal commit that waits for its write is an outcome. *)
LEMMA OutParts ==
    ASSUME NEW st \in Terminal, NEW ex \in ExecutionState
    PROVE  Out(st, ex) \in Outcome /\ Out(st, ex).st = st /\ Out(st, ex).ex = ex
    BY DEF Out, Outcome

(* The step of one run on the map: its entry, record, prompt and answer    *)
(* change, nothing else does, and the new ones fit together. Every step of *)
(* a worker is one.                                                        *)
LEMMA LiveStep ==
    ASSUME RunnerInv, NEW r \in Runs, Known(r),
           NEW n \in Entry, NEW d \in Record, NEW p \in Nat, NEW a \in {"none"} \cup Definitive,
           entry' = [entry EXCEPT ![Of(r)] = n], disk' = [disk EXCEPT ![r] = d],
           prompts' = [prompts EXCEPT ![r] = p], answer' = [answer EXCEPT ![r] = a],
           UNCHANGED <<proc, accepting, runs, sweep>>,
           Sound(d, p, a), Stage(n, d, p, a),
           n.snap.pi = entry[Of(r)].snap.pi, Going(n) => Going(entry[Of(r)]),
           entry[Of(r)].cancel => n.cancel, entry[Of(r)].old => n.old
    PROVE  RunnerInv'
<1>1. runs[r] \in 1 .. MaxEntries /\ Of(r) \in Entries /\ Of(r) = <<r, runs[r]>>
    BY Slots DEF RunnerInv, RunnerTypeOK, Known, Of
<1>2. RunnerTypeOK'
    BY <1>1 DEF RunnerInv, RunnerTypeOK
<1>3. ASSUME NEW q \in Runs PROVE RunInv(q)'
    <2>1. RunInv(q) /\ RunInv(r) /\ RunnerTypeOK
        BY DEF RunnerInv
    <2>2. \A k \in 1 .. MaxEntries : <<q, k>> # Of(r) => entry'[<<q, k>>] = entry[<<q, k>>]
        BY <1>1, Slots, <2>1 DEF RunnerTypeOK
    <2>3. runs[q] \in 0 .. MaxEntries
        BY <2>1 DEF RunnerTypeOK
    <2>4. CASE q = r
        <3>1. entry'[Of(r)] = n /\ Of(r)' = Of(r) /\ disk'[r] = d /\ prompts'[r] = p /\ answer'[r] = a
            BY <1>1, <2>1 DEF RunnerTypeOK, Of
        <3>2. \A k \in 1 .. MaxEntries : k # runs[r] => entry'[<<r, k>>] = entry[<<r, k>>]
            BY <2>2, <2>4, <1>1
        <3> HIDE DEF RunnerInv
        <3>3. n # None /\ Readable(d)
            BY Present
        <3> QED BY <2>1, <2>4, <3>1, <3>2, <3>3, <1>1 DEF RunInv, Known, Alive, Of
    <2>5. CASE q # r
        <3>1. \A k \in 1 .. MaxEntries : entry'[<<q, k>>] = entry[<<q, k>>]
            BY <2>2, <2>5, <1>1
        <3>2. disk'[q] = disk[q] /\ prompts'[q] = prompts[q] /\ answer'[q] = answer[q]
            BY <2>5, <2>1 DEF RunnerTypeOK
        <3>3. Known(q) => entry'[Of(q)] = entry[Of(q)]
            BY <3>1, <2>3 DEF Known, Of
        <3> QED BY <2>1, <2>5, <3>1, <3>2, <3>3 DEF RunInv, Known, Alive, Of
    <2> QED BY <2>4, <2>5
<1> QED BY <1>2, <1>3 DEF RunnerInv


(***************************************************************************)
(* Where the entries are.                                                  *)
(***************************************************************************)
(* An entry is the one its run's name finds, or one whose run has ended    *)
(* and whose worker has yet to notice.                                     *)
LEMMA OnMap ==
    ASSUME RunnerInv, NEW e \in Entries, Alive(e)
    PROVE  /\ e[1] \in Runs /\ entry[e] \in Entry
           /\ \/ Known(e[1]) /\ e = Of(e[1])
              \/ e[2] # runs[e[1]] /\ Leaving(entry[e])
<1>1. e[1] \in Runs /\ e[2] \in 1 .. MaxEntries /\ e = <<e[1], e[2]>>
    BY Slots
<1>2. RunInv(e[1]) /\ entry[e] \in Entry \cup {None}
    BY <1>1 DEF RunnerInv, RunnerTypeOK
<1>3. CASE e[2] = runs[e[1]]
    BY <1>1, <1>2, <1>3 DEF Known, Of, Alive
<1>4. CASE e[2] # runs[e[1]]
    <2>1. Alive(<<e[1], e[2]>>) => Leaving(entry[<<e[1], e[2]>>])
        BY <1>1, <1>2, <1>4 DEF RunInv
    <2> QED BY <1>1, <1>2, <1>4, <2>1 DEF Alive
<1> QED BY <1>3, <1>4

(* What the invariant says of a run that the map knows. *)
LEMMA OfKnown ==
    ASSUME RunnerInv, NEW r \in Runs, Known(r)
    PROVE  /\ Of(r) \in Entries /\ Alive(Of(r)) /\ entry[Of(r)] \in Entry /\ disk[r] \in Record
           /\ Sound(disk[r], prompts[r], answer[r])
           /\ Stage(entry[Of(r)], disk[r], prompts[r], answer[r])
           /\ prompts[r] \in Nat /\ answer[r] \in {"none"} \cup Definitive
<1>1. Of(r) \in Entries
    BY Slots DEF RunnerInv, RunnerTypeOK, Known, Of
<1>2. RunInv(r) /\ disk[r] \in Record \cup {None, Unreadable} /\ entry[Of(r)] \in Entry \cup {None}
    BY <1>1 DEF RunnerInv, RunnerTypeOK
<1>3. prompts[r] \in Nat /\ answer[r] \in {"none"} \cup Definitive
    BY DEF RunnerInv, RunnerTypeOK
<1> QED BY <1>1, <1>2, <1>3 DEF RunInv, Alive, Readable

(* An entry outside the map changes, or is freed. *)
LEMMA OffMapStep ==
    ASSUME RunnerInv, NEW e \in Entries, e[2] # runs[e[1]], NEW n,
           n = None \/ (n \in Entry /\ Leaving(n)),
           entry' = [entry EXCEPT ![e] = n],
           UNCHANGED <<proc, accepting, disk, runs, sweep, prompts, answer>>
    PROVE  RunnerInv'
<1>1. RunnerTypeOK'
    BY DEF RunnerInv, RunnerTypeOK
<1>2. ASSUME NEW q \in Runs PROVE RunInv(q)'
    <2>1. RunInv(q) /\ entry \in [Entries -> Entry \cup {None}]
        BY DEF RunnerInv, RunnerTypeOK
    <2>2. \A k \in 1 .. MaxEntries : entry'[<<q, k>>] = IF <<q, k>> = e THEN n ELSE entry[<<q, k>>]
        BY <2>1, Slots
    <2>3. runs[q] \in 0 .. MaxEntries
        BY DEF RunnerInv, RunnerTypeOK
    <2>4. Known(q) => entry'[Of(q)] = entry[Of(q)]
        BY <2>2, <2>3 DEF Known, Of
    <2>5. \A k \in 1 .. MaxEntries : Alive(<<q, k>>)' /\ k # runs[q] => Leaving(entry'[<<q, k>>])
        BY <2>1, <2>2 DEF RunInv, Alive
    <2> QED BY <2>1, <2>4, <2>5 DEF RunInv, Known, Alive, Of
<1> QED BY <1>1, <1>2 DEF RunnerInv

(* Collecting takes nothing that the map or a worker holds. *)
LEMMA NothingToCollect ==
    ASSUME RunnerInv, NEW r \in Runs, Known(r), NEW n \in Entry
    PROVE  Collected([entry EXCEPT ![Of(r)] = n], runs) = [entry EXCEPT ![Of(r)] = n]
<1> DEFINE ents == [entry EXCEPT ![Of(r)] = n]
<1>1. entry \in [Entries -> Entry \cup {None}] /\ Of(r) \in Entries
    BY OfKnown DEF RunnerInv, RunnerTypeOK
<1>2. ents \in [Entries -> Entry \cup {None}]
    BY <1>1
<1>3. ASSUME NEW e \in Entries, ents[e] # None, runs[e[1]] # e[2] PROVE ents[e].pc # "none"
    <2>1. e # Of(r)
        BY <1>3, Slots DEF Of
    <2>2. ents[e] = entry[e]
        BY <1>1, <2>1
    <2>3. Leaving(entry[e])
        BY <1>3, <2>2, OnMap, Slots DEF Alive, Of
    <2> QED BY <2>2, <2>3 DEF Leaving
<1>4. \A e \in Entries : (IF ents[e] # None /\ ents[e].pc = "none" /\ ents[e].commit = None /\ runs[e[1]] # e[2]
                          THEN None ELSE ents[e]) = ents[e]
    BY <1>3
<1>5. Collected(ents, runs) = [e \in Entries |-> ents[e]]
    BY <1>4 DEF Collected
<1>6. [e \in Entries |-> ents[e]] = ents
    BY <1>2
<1> QED BY <1>5, <1>6

(***************************************************************************)
(* The end of a run.                                                       *)
(***************************************************************************)
(* What is published of an end, written or not, is true. *)
LEMMA PendingEnd ==
    ASSUME NEW st \in Terminal, NEW ex \in ExecutionState, NEW p, NEW b,
           TrueReport(Out(st, ex), p, b), NEW c \in {Out(st, ex), Uncertain(st, ex)}
    PROVE  /\ c \in Outcome /\ c # None /\ c.st \in Terminal /\ TrueReport(c, p, b)
           /\ c.ex = "completed" => c # Uncertain(st, ex) /\ ex = "completed" /\ c.st = st
<1>1. Out(st, ex) \in Outcome /\ Out(st, ex).st = st /\ Out(st, ex).ex = ex
    BY OutParts
<1>2. CASE ex = "not_started"
    <2>1. Uncertain(st, ex) = Out("failed", "not_started")
        BY <1>2 DEF Uncertain
    <2>2. /\ Uncertain(st, ex) \in Outcome
          /\ Uncertain(st, ex).st = "failed" /\ Uncertain(st, ex).ex = "not_started"
        BY <2>1, OutParts DEF Terminal, Definitive, ExecutionState
    <2>3. p = 0
        BY <1>1, <1>2 DEF TrueReport
    <2> QED BY <1>1, <1>2, <2>2, <2>3, Present DEF TrueReport, Terminal, Definitive
<1>3. CASE ex # "not_started"
    <2>1. Uncertain(st, ex) = Out("lost", "outcome_unknown")
        BY <1>3 DEF Uncertain
    <2>2. /\ Uncertain(st, ex) \in Outcome
          /\ Uncertain(st, ex).st = "lost" /\ Uncertain(st, ex).ex = "outcome_unknown"
        BY <2>1, OutParts DEF Terminal, Definitive, ExecutionState
    <2> QED BY <1>1, <1>3, <2>2, Present DEF TrueReport, Terminal, Definitive
<1> QED BY <1>2, <1>3

(* The record of a run that goes on is true, whatever the answer is, and   *)
(* so is the terminal record that replaces it.                             *)
LEMMA CommittedRecord ==
    ASSUME NEW d \in Record, NEW p, p \in {0, 1}, NEW a, Sound(d, p, a), d.phase # "terminal",
           NEW st \in Terminal, NEW ex \in ExecutionState, NEW b, p = 0 => b = "none",
           TrueReport(Out(st, ex), p, b), NEW f \in {d, Rec("terminal", st, ex, d.pi)}
    PROVE  f \in Record /\ f.pi = d.pi /\ Sound(f, p, b)
<1>1. d.pi \in 1 .. MaxProcs /\ st \in RunState
    BY RecordParts DEF RunState
<1>2. Rec("terminal", st, ex, d.pi) \in Record /\ Rec("terminal", st, ex, d.pi).pi = d.pi
    BY <1>1, RecParts
<1>3. CASE f = d
    <2>1. d.phase \in {"before", "may"} /\ d.st \notin Terminal
        BY RecordParts, Present DEF Sound, Terminal, Definitive
    <2> QED BY <1>3, <2>1 DEF Sound, TrueReport
<1>4. CASE f = Rec("terminal", st, ex, d.pi)
    <2>1. f.phase = "terminal" /\ f.st = st /\ f.ex = ex /\ Readable(f)
        BY <1>1, <1>2, <1>4, RecParts, Present
    <2>2. Out(st, ex).st = st /\ Out(st, ex).ex = ex
        BY OutParts
    <2>3. TrueReport(f, p, b)
        BY <2>1, <2>2 DEF TrueReport
    <2> QED BY <1>2, <1>4, <2>1, <2>2, <2>3 DEF Sound, TrueReport
<1> QED BY <1>3, <1>4

(* Somebody commits the end st, ex of e; b is then the answer. *)
Ending(e, st, ex, w, cn, b) ==
    /\ e \in Entries /\ st \in Terminal /\ ex \in ExecutionState
    /\ w \in {"none", "setup"} /\ cn \in BOOLEAN /\ b \in {"none"} \cup Definitive
    /\ Commit(e, st, ex, w, cn) /\ (entry[e].cancel => cn)
    /\ (prompts[e[1]] = 0 => b = "none") /\ TrueReport(Out(st, ex), prompts[e[1]], b)
    /\ answer' = [answer EXCEPT ![e[1]] = b]
    /\ UNCHANGED <<proc, accepting, runs, sweep, prompts>>

(* A commit that begins, written or not, leaves a true pending end. *)
LEMMA CommitStep ==
    ASSUME RunnerInv, NEW e, NEW st, NEW ex, NEW w, NEW cn, NEW b, Ending(e, st, ex, w, cn, b)
    PROVE  RunnerInv'
<1> USE DEF Ending
<1> DEFINE r == e[1]
           n == entry[e]
           W == Rec("terminal", st, ex, n.snap.pi)
<1>1. Alive(e) /\ Going(n) /\ n.commit = None
    BY DEF Commit, IsTerminal, Going
<1>2. r \in Runs /\ Known(r) /\ e = Of(r)
    BY <1>1, OnMap DEF Leaving
<1>3. /\ n \in Entry /\ disk[r] \in Record /\ Sound(disk[r], prompts[r], answer[r])
      /\ Stage(n, disk[r], prompts[r], answer[r]) /\ prompts[r] \in Nat /\ answer[r] \in {"none"} \cup Definitive
    BY <1>2, OfKnown
<1>4. /\ disk \in [Runs -> Record \cup {None, Unreadable}] /\ entry \in [Entries -> Entry \cup {None}]
      /\ prompts \in [Runs -> Nat]
    BY DEF RunnerInv, RunnerTypeOK
<1>5. PICK c, f :
        /\ \/ f = W /\ c = Out(st, ex)
           \/ f \in {disk[r], W} /\ c = Uncertain(st, ex)
        /\ disk' = [disk EXCEPT ![r] = f]
        /\ entry' = [entry EXCEPT ![e].commit = c, ![e].pc = w, ![e].cancel = cn]
    <2>1. CASE disk' = disk
        <3>1. disk' = [disk EXCEPT ![r] = disk[r]]
            BY <1>2, <1>4, <2>1
        <3> QED BY <2>1, <3>1 DEF Commit
    <2>2. CASE disk' # disk
        BY <2>2 DEF Commit
    <2> QED BY <2>1, <2>2
<1> DEFINE m == [n EXCEPT !.commit = c, !.pc = w, !.cancel = cn]
<1>6. entry' = [entry EXCEPT ![e] = m]
    BY <1>3, <1>4, <1>5 DEF Entry
<1>7. prompts' = [prompts EXCEPT ![r] = prompts[r]]
    BY <1>2, <1>4
<1>8. /\ m \in Entry /\ f \in Record /\ Sound(f, prompts[r], b) /\ Stage(m, f, prompts[r], b)
      /\ m.snap = n.snap /\ m.cancel = cn /\ m.old = n.old
    <2>1. \/ f = Rec("terminal", st, ex, n.snap.pi) /\ c = Out(st, ex)
          \/ f \in {disk[r], Rec("terminal", st, ex, n.snap.pi)} /\ c = Uncertain(st, ex)
        BY <1>5
    <2>2. (prompts[r] = 0 => b = "none") /\ TrueReport(Out(st, ex), prompts[r], b)
        OBVIOUS
    <2>3. c \in Outcome
        BY <2>1, <2>2, PendingEnd
    <2>4. m \in Entry /\ m.snap = n.snap /\ m.commit = c /\ m.pc = w /\ m.cancel = cn /\ m.old = n.old
        BY <1>3, <2>3 DEF Entry, WorkerPc
    <2>5. Working(n, disk[r], prompts[r], answer[r]) /\ n.snap.pi = disk[r].pi
        BY <1>1, <1>3 DEF Stage
    <2>6. disk[r].phase # "terminal" /\ prompts[r] \in {0, 1}
        BY <1>3, <2>5 DEF Working, Sound
    <2>7. f \in Record /\ f.pi = n.snap.pi /\ Sound(f, prompts[r], b)
        BY <1>3, <2>1, <2>2, <2>5, <2>6, CommittedRecord
    <2>8. /\ c # None /\ c.st \in Terminal /\ TrueReport(c, prompts[r], b)
          /\ c.ex = "completed" => f = Rec("terminal", c.st, "completed", n.snap.pi)
        BY <2>1, <2>2, PendingEnd
    <2>9. Ended(c, m, f, prompts[r], b)
        BY <2>4, <2>8 DEF Ended
    <2>10. Going(n) /\ n.snap.ex # "completed" /\ n.snap.rev <= MaxRev + 2 /\ ~n.old
        BY <1>1, <1>3 DEF Stage
    <2>11. m.snap.pi = f.pi /\ Going(m) /\ m.snap.ex # "completed" /\ m.snap.rev <= MaxRev + 2 /\ ~m.old
           /\ m.commit = c /\ m.pc \in {"none", "setup"}
        BY <2>4, <2>7, <2>10 DEF Going
    <2> HIDE DEF n, r, m
    <2>12. Stage(m, f, prompts[r], b)
        BY <2>8, <2>9, <2>11 DEF Stage
    <2> QED BY <2>4, <2>7, <2>12
<1>9. Going(m) => Going(n)
    BY <1>8 DEF Going
<1>10. n = entry[Of(r)] /\ entry' = [entry EXCEPT ![Of(r)] = m] /\ answer' = [answer EXCEPT ![r] = b]
    BY <1>2, <1>6
<1>11. m.snap.pi = entry[Of(r)].snap.pi /\ (Going(m) => Going(entry[Of(r)]))
       /\ (entry[Of(r)].cancel => m.cancel) /\ (entry[Of(r)].old => m.old)
    BY <1>2, <1>8, <1>9
<1>12. disk' = [disk EXCEPT ![r] = f]
    BY <1>5
<1> HIDE DEF m, n, r
<1> QED BY <1>2, <1>3, <1>7, <1>8, <1>10, <1>11, <1>12, LiveStep

(* What is true of an entry that is in the map. *)
LEMMA LiveEntry ==
    ASSUME RunnerInv, NEW e \in Entries, Alive(e), ~Leaving(entry[e]) \/ e[2] = runs[e[1]]
    PROVE  /\ e[1] \in Runs /\ Known(e[1]) /\ e = Of(e[1])
           /\ entry[e] \in Entry /\ disk[e[1]] \in Record
           /\ Sound(disk[e[1]], prompts[e[1]], answer[e[1]])
           /\ Stage(entry[e], disk[e[1]], prompts[e[1]], answer[e[1]])
           /\ prompts[e[1]] \in Nat /\ answer[e[1]] \in {"none"} \cup Definitive
    BY OnMap, OfKnown

(* An entry changes, and nothing of what is true of its prompt. *)
LEMMA EntryStep ==
    ASSUME RunnerInv, NEW e \in Entries, Alive(e), ~Leaving(entry[e]) \/ e[2] = runs[e[1]], NEW m \in Entry, NEW d \in Record,
           entry' = [entry EXCEPT ![e] = m], disk' = [disk EXCEPT ![e[1]] = d],
           UNCHANGED <<proc, accepting, runs, sweep, prompts, answer>>,
           Sound(d, prompts[e[1]], answer[e[1]]), Stage(m, d, prompts[e[1]], answer[e[1]]),
           m.snap.pi = entry[e].snap.pi, Going(m) => Going(entry[e]),
           entry[e].cancel => m.cancel, entry[e].old => m.old
    PROVE  RunnerInv'
<1> DEFINE r == e[1]
<1>1. r \in Runs /\ Known(r) /\ e = Of(r)
    BY LiveEntry
<1>2. prompts \in [Runs -> Nat] /\ answer \in [Runs -> {"none"} \cup Definitive]
    BY DEF RunnerInv, RunnerTypeOK
<1>3. prompts' = [prompts EXCEPT ![r] = prompts[r]] /\ answer' = [answer EXCEPT ![r] = answer[r]]
    BY <1>1, <1>2
<1>4. prompts[r] \in Nat /\ answer[r] \in {"none"} \cup Definitive
    BY <1>1, <1>2
<1>5. /\ entry' = [entry EXCEPT ![Of(r)] = m]
      /\ m.snap.pi = entry[Of(r)].snap.pi /\ (Going(m) => Going(entry[Of(r)]))
      /\ entry[Of(r)].cancel => m.cancel
      /\ entry[Of(r)].old => m.old
      /\ disk' = [disk EXCEPT ![r] = d]
      /\ Sound(d, prompts[r], answer[r]) /\ Stage(m, d, prompts[r], answer[r])
    BY <1>1
<1> HIDE DEF r
<1> QED BY <1>1, <1>3, <1>4, <1>5, LiveStep

(* A step that writes nothing rewrites a record as it is. *)
LEMMA SameRecord ==
    ASSUME RunnerInv, NEW r \in Runs, UNCHANGED disk
    PROVE  disk' = [disk EXCEPT ![r] = disk[r]]
    BY DEF RunnerInv, RunnerTypeOK

(* publish_terminal: the pending end of a run becomes its snapshot. *)
LEMMA PublishStep ==
    ASSUME RunnerInv, NEW e \in Entries, Publish(e)
    PROVE  RunnerInv'
<1> DEFINE r == e[1]
           n == entry[e]
           c == n.commit
           m == [n EXCEPT !.commit = None, !.snap = Snap(c.st, c.ex, n.snap.rev + 2, n.snap.pi)]
<1>1. Alive(e) /\ c # None
    BY DEF Publish
<1>2. /\ r \in Runs /\ Known(r) /\ e = Of(r) /\ n \in Entry /\ disk[r] \in Record
      /\ Sound(disk[r], prompts[r], answer[r]) /\ Stage(n, disk[r], prompts[r], answer[r])
    BY <1>1, LiveEntry DEF Leaving
<1>3. /\ Going(n) /\ Ended(c, n, disk[r], prompts[r], answer[r])
      /\ n.snap.rev <= MaxRev + 2 /\ n.snap.pi = disk[r].pi /\ n.pc \in {"none", "setup"}
    BY <1>1, <1>2 DEF Stage
<1>4. c \in Outcome /\ c.st \in Terminal /\ c.ex \in ExecutionState /\ c.st \in RunState
    BY <1>1, <1>2, EntryParts DEF Outcome, RunState
<1>5. /\ n.snap.rev + 2 \in 0 .. (MaxRev + 4) /\ n.snap.pi \in 1 .. MaxProcs
      /\ n.pc \in WorkerPc /\ n.cancel \in BOOLEAN /\ n.old \in BOOLEAN
    <2>1. n.snap.rev \in 0 .. (MaxRev + 4)
        BY <1>2, EntryParts
    <2> HIDE DEF n
    <2> QED BY <1>2, <1>3, <2>1, EntryParts, RunAssumption
<1>6. /\ Snap(c.st, c.ex, n.snap.rev + 2, n.snap.pi) \in Snapshot
      /\ Snap(c.st, c.ex, n.snap.rev + 2, n.snap.pi).st = c.st
      /\ Snap(c.st, c.ex, n.snap.rev + 2, n.snap.pi).ex = c.ex
      /\ Snap(c.st, c.ex, n.snap.rev + 2, n.snap.pi).pi = n.snap.pi
    BY <1>4, <1>5, SnapParts
<1>7. /\ m \in Entry /\ m.snap = Snap(c.st, c.ex, n.snap.rev + 2, n.snap.pi)
      /\ m.commit = None /\ m.pc = n.pc /\ m.cancel = n.cancel /\ m.old = n.old
    BY <1>2, <1>6 DEF Entry
<1>8. entry' = [entry EXCEPT ![e] = m]
    <2>1. [entry EXCEPT ![e].commit = None, ![e].snap = Snap(c.st, c.ex, n.snap.rev + 2, n.snap.pi)]
            = [entry EXCEPT ![e] = m]
        BY <1>2 DEF RunnerInv, RunnerTypeOK, Entry
    <2>2. entry' = Collected([entry EXCEPT ![e] = m], runs)
        BY <2>1 DEF Publish
    <2> HIDE DEF n, m
    <2> QED BY <1>2, <1>7, <2>2, NothingToCollect
<1> HIDE DEF c
<1>9. Stage(m, disk[r], prompts[r], answer[r]) /\ ~Going(m)
    <2>1. ~Going(m)
        BY <1>4, <1>6, <1>7 DEF Going
    <2>2. Ended(m.snap, m, disk[r], prompts[r], answer[r])
        BY <1>3, <1>6, <1>7 DEF Ended, TrueReport
    <2> QED BY <1>3, <1>6, <1>7, <2>1, <2>2 DEF Stage
<1>10. m.snap.pi = n.snap.pi
    BY <1>6, <1>7
<1>11. UNCHANGED <<proc, accepting, disk, runs, sweep, prompts, answer>>
    BY DEF Publish, history
<1>12. disk' = [disk EXCEPT ![r] = disk[r]]
    BY <1>2, <1>11, SameRecord
<1>13. ~Leaving(n)
    BY <1>3 DEF Leaving
<1> HIDE DEF m
<1> QED BY <1>1, <1>2, <1>7, <1>8, <1>9, <1>10, <1>11, <1>12, <1>13, EntryStep

(* The entry of an ended run passes its retention period. *)
LEMMA AgeStep ==
    ASSUME RunnerInv, NEW e \in Entries, Age(e)
    PROVE  RunnerInv'
<1> DEFINE r == e[1]
           n == entry[e]
           m == [n EXCEPT !.old = TRUE]
<1>1. Alive(e) /\ ~Going(n) /\ entry' = [entry EXCEPT ![e].old = TRUE]
      /\ UNCHANGED <<proc, accepting, disk, runs, sweep, prompts, answer>>
    BY DEF Age, IsTerminal, Going, history
<1>2. n \in Entry
    BY <1>1, OnMap
<1>3. /\ m \in Entry /\ m.snap = n.snap /\ m.commit = n.commit /\ m.pc = n.pc /\ m.cancel = n.cancel
      /\ m.old = TRUE
    BY <1>2 DEF Entry
<1>4. entry' = [entry EXCEPT ![e] = m]
    BY <1>1, <1>2 DEF RunnerInv, RunnerTypeOK, Entry
<1> HIDE DEF m
<1>5. ~Going(m)
    BY <1>1, <1>3 DEF Going
<1>6. CASE e[2] = runs[e[1]]
    <2>1. /\ r \in Runs /\ disk[r] \in Record /\ Sound(disk[r], prompts[r], answer[r])
          /\ Stage(n, disk[r], prompts[r], answer[r])
        BY <1>1, <1>6, LiveEntry
    <2>2. Stage(m, disk[r], prompts[r], answer[r])
        BY <1>1, <1>3, <1>5, <2>1 DEF Stage, Ended
    <2>3. disk' = [disk EXCEPT ![r] = disk[r]]
        BY <1>1, <2>1, SameRecord
    <2>4. Alive(e) /\ m \in Entry /\ m.snap.pi = n.snap.pi /\ (n.cancel => m.cancel) /\ (n.old => m.old)
        BY <1>1, <1>3
    <2>5. UNCHANGED <<proc, accepting, runs, sweep, prompts, answer>>
        BY <1>1
    <2> QED BY <1>4, <1>5, <1>6, <2>1, <2>2, <2>3, <2>4, <2>5, EntryStep
<1>7. CASE e[2] # runs[e[1]]
    <2>1. Leaving(m)
        BY <1>1, OnMap, <1>3, <1>5, <1>7 DEF Leaving, Of
    <2> QED BY <1>1, <1>3, <1>4, <1>7, <2>1, OffMapStep
<1> QED BY <1>6, <1>7

(* The worker of a run that nobody ends. *)
LEMMA AtWork ==
    ASSUME RunnerInv, NEW e \in Entries, Alive(e), Going(entry[e]), entry[e].commit = None
    PROVE  /\ e[1] \in Runs /\ entry[e] \in Entry /\ disk[e[1]] \in Record /\ ~Leaving(entry[e])
           /\ Working(entry[e], disk[e[1]], prompts[e[1]], answer[e[1]])
           /\ entry[e].snap.ex # "completed" /\ entry[e].snap.rev <= MaxRev + 2 /\ ~entry[e].old
           /\ entry[e].cancel => entry[e].pc \in Prompted
           /\ Sound(disk[e[1]], prompts[e[1]], answer[e[1]])
           /\ entry[e].snap.pi = disk[e[1]].pi /\ prompts[e[1]] \in {0, 1}
           /\ entry[e].snap \in Snapshot /\ entry[e].snap.pi \in 1 .. MaxProcs
           /\ entry[e].snap.st \in RunState /\ entry[e].snap.ex \in ExecutionState
           /\ entry[e].snap.rev \in 0 .. (MaxRev + 4)
<1>1. ~Leaving(entry[e])
    BY DEF Leaving
<1>2. /\ e[1] \in Runs /\ entry[e] \in Entry /\ disk[e[1]] \in Record
      /\ Sound(disk[e[1]], prompts[e[1]], answer[e[1]])
      /\ Stage(entry[e], disk[e[1]], prompts[e[1]], answer[e[1]])
    BY <1>1, LiveEntry
<1>3. prompts[e[1]] \in {0, 1}
    BY <1>2 DEF Sound
<1>4. /\ Working(entry[e], disk[e[1]], prompts[e[1]], answer[e[1]])
      /\ entry[e].snap.ex # "completed" /\ entry[e].snap.rev <= MaxRev + 2 /\ ~entry[e].old
      /\ entry[e].cancel => entry[e].pc \in Prompted
      /\ entry[e].snap.pi = disk[e[1]].pi
    BY <1>2 DEF Stage
<1> QED BY <1>1, <1>2, <1>3, <1>4, EntryParts

(* A worker behind the gate works on a run that has not ended. *)
LEMMA AtGate ==
    ASSUME RunnerInv, NEW e \in Entries, At(e, Gated \cup Prompted)
    PROVE  Alive(e) /\ Going(entry[e]) /\ entry[e].commit = None
<1>1. Alive(e) /\ entry[e].commit = None /\ entry[e].pc \in Gated \cup Prompted
    BY DEF At
<1>2. ~Leaving(entry[e])
    BY <1>1 DEF Leaving, Gated, Prompted
<1>3. Stage(entry[e], disk[e[1]], prompts[e[1]], answer[e[1]])
    BY <1>1, <1>2, LiveEntry
<1>4. Going(entry[e])
    BY <1>1, <1>3 DEF Stage, Gated, Prompted
<1> QED BY <1>1, <1>4

(* The next stage of a run that goes on. *)
LEMMA NextStage ==
    ASSUME RunnerInv, NEW e \in Entries, Alive(e), Going(entry[e]), entry[e].commit = None,
           NEW m \in Entry, NEW d \in Record,
           entry' = [entry EXCEPT ![e] = m], disk' = [disk EXCEPT ![e[1]] = d],
           UNCHANGED <<proc, accepting, runs, sweep, prompts, answer>>,
           m.commit = None, m.old = entry[e].old, entry[e].cancel => m.cancel,
           m.cancel => m.pc \in Prompted,
           Going(m), m.snap.pi = entry[e].snap.pi, m.snap.ex # "completed", m.snap.rev <= MaxRev + 2,
           d.pi = disk[e[1]].pi, Sound(d, prompts[e[1]], answer[e[1]]),
           Working(m, d, prompts[e[1]], answer[e[1]])
    PROVE  RunnerInv'
<1>1. ~Leaving(entry[e]) /\ ~entry[e].old /\ entry[e].snap.pi = disk[e[1]].pi
    BY AtWork
<1>2. Stage(m, d, prompts[e[1]], answer[e[1]])
    BY <1>1 DEF Stage
<1> QED BY <1>1, <1>2, EntryStep

(* The worker passes its setup and enters the prompt gate: the snapshot    *)
(* says running and outcome_unknown from here.                             *)
LEMMA EnterGateStep ==
    ASSUME RunnerInv, NEW e \in Entries, EnterGate(e)
    PROVE  RunnerInv'
<1> DEFINE n == entry[e]
           S == Snap("running", "outcome_unknown", n.snap.rev + 1, n.snap.pi)
           m == [n EXCEPT !.pc = "persist", !.snap = S]
<1>1. /\ Alive(e) /\ Going(n) /\ n.commit = None /\ n.pc = "setup" /\ ~n.cancel
      /\ UNCHANGED <<proc, accepting, disk, runs, sweep, prompts, answer>>
      /\ entry' = [entry EXCEPT ![e] = m]
    BY DEF EnterGate, At, Step, IsTerminal, Going, history
<1>2. /\ e[1] \in Runs /\ n \in Entry /\ disk[e[1]] \in Record
      /\ Sound(disk[e[1]], prompts[e[1]], answer[e[1]])
      /\ Working(n, disk[e[1]], prompts[e[1]], answer[e[1]]) /\ n.snap.pi \in 1 .. MaxProcs
    BY <1>1, AtWork
<1>3. n.snap.rev = 0 /\ prompts[e[1]] = 0 /\ answer[e[1]] = "none" /\ disk[e[1]].phase = "before"
    BY <1>1, <1>2 DEF Working
<1>4. S \in Snapshot /\ S.st = "running" /\ S.ex = "outcome_unknown" /\ S.rev = 1 /\ S.pi = n.snap.pi
    <2>1. n.snap.rev + 1 \in 0 .. (MaxRev + 4) /\ n.snap.rev + 1 = 1
        BY <1>3, RunAssumption
    <2>2. "running" \in RunState /\ "outcome_unknown" \in ExecutionState
        BY DEF RunState, ExecutionState
    <2> HIDE DEF n
    <2> QED BY <1>2, <2>1, <2>2, SnapParts
<1>5. m \in Entry /\ m.snap = S /\ m.pc = "persist" /\ m.commit = None /\ m.old = n.old /\ m.cancel = n.cancel
    <2> HIDE DEF S
    <2> QED BY <1>1, <1>2, <1>4 DEF Entry, WorkerPc, Gated
<1>6. Going(m) /\ m.snap.rev <= MaxRev + 2
    BY <1>4, <1>5, RunAssumption DEF Going, Terminal, Definitive
<1>7. Working(m, disk[e[1]], prompts[e[1]], answer[e[1]])
    <2> HIDE DEF m, S
    <2> QED BY <1>3, <1>4, <1>5 DEF Working, Gated, Prompted
<1>8. disk' = [disk EXCEPT ![e[1]] = disk[e[1]]]
    BY <1>1, <1>2, SameRecord
<1>9. /\ (n.cancel => m.cancel) /\ (m.cancel => m.pc \in Prompted)
      /\ m.snap.pi = n.snap.pi /\ m.snap.ex # "completed"
    BY <1>1, <1>4, <1>5
<1> HIDE DEF m
<1> QED BY <1>1, <1>2, <1>5, <1>6, <1>7, <1>8, <1>9, NextStage

(* The barrier in the place of a record of the same run. *)
LEMMA BarrierRecord ==
    ASSUME NEW d \in Record, NEW p, NEW a, Sound(d, p, a),
           NEW ex \in {"outcome_unknown", "started"}, NEW f \in {d, Rec("may", "running", ex, d.pi)}
    PROVE  /\ f \in Record /\ f.pi = d.pi /\ Sound(f, p, a)
           /\ f # d => f.phase = "may"
           /\ f = Rec("may", "running", ex, d.pi) => f.phase = "may"
<1>1. d.pi \in 1 .. MaxProcs
    BY RecordParts
<1>2. LET g == Rec("may", "running", ex, d.pi)
      IN g \in Record /\ g.phase = "may" /\ g.st = "running" /\ g.ex = ex /\ g.pi = d.pi /\ Readable(g)
    BY <1>1, RecParts, Present DEF RunState, ExecutionState
<1>3. Sound(Rec("may", "running", ex, d.pi), p, a)
    BY <1>2 DEF Sound, TrueReport, Terminal, Definitive
<1> QED BY <1>2, <1>3

(* Behind the gate the barrier record is written, or its write fails and   *)
(* the run ends without a prompt.                                          *)
LEMMA PersistStep ==
    ASSUME RunnerInv, NEW e \in Entries, Persist(e)
    PROVE  RunnerInv'
<1> DEFINE n == entry[e]
           B == Rec("may", "running", "outcome_unknown", n.snap.pi)
<1>1. Alive(e) /\ Going(n) /\ n.commit = None /\ n.pc = "persist"
      /\ UNCHANGED <<proc, accepting, runs, sweep, prompts, answer>>
    <2>1. At(e, Gated \cup Prompted)
        BY DEF Persist, At, Gated
    <2> QED BY <2>1, AtGate DEF Persist, At, history
<1>2. /\ e[1] \in Runs /\ n \in Entry /\ disk[e[1]] \in Record /\ n.snap.pi = disk[e[1]].pi
      /\ Sound(disk[e[1]], prompts[e[1]], answer[e[1]]) /\ ~n.cancel
      /\ Working(n, disk[e[1]], prompts[e[1]], answer[e[1]]) /\ n.snap.rev <= MaxRev + 2
    BY <1>1, AtWork DEF Prompted
<1>3. PICK w \in {"fenced", "refused"}, f \in {disk[e[1]], B} :
        /\ disk' = [disk EXCEPT ![e[1]] = f] /\ (w = "fenced" => f = B)
        /\ entry' = [entry EXCEPT ![e].pc = w]
    <2>1. disk = [disk EXCEPT ![e[1]] = disk[e[1]]]
        BY <1>2 DEF RunnerInv, RunnerTypeOK
    <2>2. CASE disk' = [disk EXCEPT ![e[1]] = B] /\ entry' = [entry EXCEPT ![e].pc = "fenced"]
        BY <2>2, Zenon
    <2>3. CASE disk' = [disk EXCEPT ![e[1]] = B] /\ entry' = [entry EXCEPT ![e].pc = "refused"]
        BY <2>3, Zenon
    <2>4. CASE disk' = disk /\ entry' = [entry EXCEPT ![e].pc = "refused"]
        BY <2>1, <2>4, Zenon
    <2> QED BY <2>2, <2>3, <2>4 DEF Persist, Barrier
<1> DEFINE m == [n EXCEPT !.pc = w]
<1>4. m \in Entry /\ m.snap = n.snap /\ m.pc = w /\ m.commit = None /\ m.old = n.old /\ m.cancel = n.cancel
    BY <1>1, <1>2, <1>3 DEF Entry, WorkerPc, Gated
<1>5. entry' = [entry EXCEPT ![e] = m]
    BY <1>2, <1>3 DEF RunnerInv, RunnerTypeOK, Entry
<1>6. f \in Record /\ f.pi = disk[e[1]].pi /\ Sound(f, prompts[e[1]], answer[e[1]])
      /\ (f # disk[e[1]] => f.phase = "may") /\ (w = "fenced" => f.phase = "may")
    BY <1>2, <1>3, BarrierRecord
<1>7. Working(m, f, prompts[e[1]], answer[e[1]])
    <2> HIDE DEF m, B
    <2>1. /\ n.snap.st = "running" /\ n.snap.ex = "outcome_unknown" /\ n.snap.rev = 1
          /\ prompts[e[1]] = 0 /\ answer[e[1]] = "none" /\ f.phase # "terminal"
        BY <1>1, <1>2, <1>6 DEF Working, Gated
    <2> QED BY <1>3, <1>4, <1>6, <2>1 DEF Working, Gated, Prompted
<1>8. /\ (n.cancel => m.cancel) /\ (m.cancel => m.pc \in Prompted) /\ Going(m)
      /\ m.snap.pi = n.snap.pi /\ m.snap.ex # "completed" /\ m.snap.rev <= MaxRev + 2
    BY <1>1, <1>2, <1>4 DEF Going, Working, Gated
<1> HIDE DEF m
<1>9. disk' = [disk EXCEPT ![e[1]] = f]
    BY <1>3
<1> QED BY <1>1, <1>4, <1>5, <1>6, <1>7, <1>8, <1>9, NextStage

(* With the barrier on disk the worker looks at cancellation and at the    *)
(* stop of the manager once more.                                          *)
LEMMA PassFenceStep ==
    ASSUME RunnerInv, NEW e \in Entries, PassFence(e)
    PROVE  RunnerInv'
<1> DEFINE n == entry[e]
           m == [n EXCEPT !.pc = "handoff"]
<1>1. /\ Alive(e) /\ Going(n) /\ n.commit = None /\ n.pc = "fenced"
      /\ UNCHANGED <<proc, accepting, disk, runs, sweep, prompts, answer>>
      /\ entry' = [entry EXCEPT ![e] = m]
    <2>1. At(e, Gated \cup Prompted)
        BY DEF PassFence, At, Gated
    <2> QED BY <2>1, AtGate DEF PassFence, Step, At, history
<1>2. /\ e[1] \in Runs /\ n \in Entry /\ disk[e[1]] \in Record
      /\ Sound(disk[e[1]], prompts[e[1]], answer[e[1]]) /\ ~n.cancel
      /\ Working(n, disk[e[1]], prompts[e[1]], answer[e[1]]) /\ n.snap.rev <= MaxRev + 2
      /\ n.snap.ex # "completed"
    BY <1>1, AtWork DEF Prompted
<1>3. m \in Entry /\ m.snap = n.snap /\ m.pc = "handoff" /\ m.commit = None /\ m.old = n.old /\ m.cancel = n.cancel
    BY <1>1, <1>2 DEF Entry, WorkerPc, Gated
<1>4. Working(m, disk[e[1]], prompts[e[1]], answer[e[1]])
    <2> HIDE DEF m
    <2> QED BY <1>1, <1>2, <1>3 DEF Working, Gated, Prompted
<1>5. /\ (n.cancel => m.cancel) /\ (m.cancel => m.pc \in Prompted) /\ Going(m)
      /\ m.snap.pi = n.snap.pi /\ m.snap.ex # "completed" /\ m.snap.rev <= MaxRev + 2
    BY <1>1, <1>2, <1>3 DEF Going
<1>6. disk' = [disk EXCEPT ![e[1]] = disk[e[1]]]
    BY <1>1, <1>2, SameRecord
<1> HIDE DEF m
<1> QED BY <1>1, <1>2, <1>3, <1>4, <1>5, <1>6, NextStage

(* A frame of the agent during the turn raises the revision. *)
LEMMA ProgressStep ==
    ASSUME RunnerInv, NEW e \in Entries, Progress(e)
    PROVE  RunnerInv'
<1> DEFINE n == entry[e]
           m == [n EXCEPT !.snap.rev = @ + 1]
<1>1. /\ Alive(e) /\ Going(n) /\ n.commit = None /\ n.pc = "turn" /\ n.snap.rev < MaxRev
      /\ UNCHANGED <<proc, accepting, disk, runs, sweep, prompts, answer>>
      /\ entry' = [entry EXCEPT ![e] = m]
    <2>1. At(e, Gated \cup Prompted)
        BY DEF Progress, At, Prompted
    <2> QED BY <2>1, AtGate DEF Progress, Step, At, history
<1>2. /\ e[1] \in Runs /\ n \in Entry /\ disk[e[1]] \in Record
      /\ Sound(disk[e[1]], prompts[e[1]], answer[e[1]])
      /\ Working(n, disk[e[1]], prompts[e[1]], answer[e[1]])
      /\ n.snap.ex # "completed" /\ n.snap.rev \in 0 .. (MaxRev + 4)
    BY <1>1, AtWork
<1>3. n.snap.rev + 1 \in 0 .. (MaxRev + 4) /\ n.snap.rev + 1 <= MaxRev + 2
    <2> HIDE DEF n
    <2> QED BY <1>1, <1>2, RunAssumption
<1>4. /\ m \in Entry /\ m.pc = "turn" /\ m.commit = None /\ m.old = n.old /\ m.cancel = n.cancel
      /\ m.snap.st = n.snap.st /\ m.snap.ex = n.snap.ex /\ m.snap.pi = n.snap.pi /\ m.snap.rev = n.snap.rev + 1
    BY <1>1, <1>2, <1>3 DEF Entry, Snapshot, Snapshots
<1>5. Working(m, disk[e[1]], prompts[e[1]], answer[e[1]])
    <2>1. n.snap.rev >= 2 /\ n.snap.st = "running" /\ prompts[e[1]] = 1 /\ disk[e[1]].phase = "may"
          /\ n.snap.ex = "started" /\ answer[e[1]] = "none"
        BY <1>1, <1>2 DEF Working, Prompted
    <2>2. m.snap.rev >= 2
        BY <1>2, <1>4, <2>1, RunAssumption
    <2> HIDE DEF m
    <2> QED BY <1>4, <2>1, <2>2 DEF Working, Gated, Prompted
<1>6. /\ (n.cancel => m.cancel) /\ (m.cancel => m.pc \in Prompted) /\ Going(m)
      /\ m.snap.pi = n.snap.pi /\ m.snap.ex # "completed" /\ m.snap.rev <= MaxRev + 2
    BY <1>1, <1>2, <1>3, <1>4 DEF Going, Prompted
<1>7. disk' = [disk EXCEPT ![e[1]] = disk[e[1]]]
    BY <1>1, <1>2, SameRecord
<1> HIDE DEF m
<1> QED BY <1>1, <1>2, <1>4, <1>5, <1>6, <1>7, NextStage

(* The prompt's write returns: the turn is on, or the pipe broke. *)
LEMMA WrittenStep ==
    ASSUME RunnerInv, NEW e \in Entries, Written(e)
    PROVE  RunnerInv'
<1> DEFINE n == entry[e]
           B == Rec("may", "running", "started", n.snap.pi)
           S == Snap(n.snap.st, "started", n.snap.rev + 1, n.snap.pi)
           m == [n EXCEPT !.pc = "turn", !.snap = S]
<1>1. /\ Alive(e) /\ Going(n) /\ n.commit = None /\ n.pc = "writing"
      /\ UNCHANGED <<proc, accepting, runs, sweep, prompts, answer>>
    <2>1. At(e, Gated \cup Prompted)
        BY DEF Written, At, Prompted
    <2> QED BY <2>1, AtGate DEF Written, At, history
<1>2. /\ e[1] \in Runs /\ n \in Entry /\ disk[e[1]] \in Record /\ n.snap.pi = disk[e[1]].pi
      /\ Sound(disk[e[1]], prompts[e[1]], answer[e[1]]) /\ n.snap.pi \in 1 .. MaxProcs
      /\ Working(n, disk[e[1]], prompts[e[1]], answer[e[1]])
    BY <1>1, AtWork
<1>3. PICK f \in {disk[e[1]], B} : disk' = [disk EXCEPT ![e[1]] = f]
    <2>1. disk = [disk EXCEPT ![e[1]] = disk[e[1]]]
        BY <1>2 DEF RunnerInv, RunnerTypeOK
    <2>2. disk' = disk \/ disk' = [disk EXCEPT ![e[1]] = B]
        BY DEF Written, Barrier
    <2> QED BY <2>1, <2>2, Zenon
<1>4. f \in Record /\ f.pi = disk[e[1]].pi /\ Sound(f, prompts[e[1]], answer[e[1]])
      /\ (f # disk[e[1]] => f.phase = "may")
    BY <1>2, <1>3, BarrierRecord
<1>5. /\ n.snap.st = "running" /\ n.snap.rev = 1 /\ prompts[e[1]] = 1 /\ answer[e[1]] = "none"
      /\ disk[e[1]].phase = "may" /\ f.phase = "may"
    BY <1>1, <1>2, <1>4 DEF Working, Prompted
<1>6. S \in Snapshot /\ S.st = "running" /\ S.ex = "started" /\ S.rev = 2 /\ S.pi = n.snap.pi
    <2>1. n.snap.rev + 1 \in 0 .. (MaxRev + 4) /\ n.snap.rev + 1 = 2 /\ n.snap.st \in RunState
        BY <1>5, RunAssumption DEF RunState
    <2>2. "started" \in ExecutionState
        BY DEF ExecutionState
    <2>3. n.snap.st = "running"
        BY <1>5
    <2> HIDE DEF n
    <2> QED BY <1>2, <2>1, <2>2, <2>3, SnapParts
<1>7. entry' = [entry EXCEPT ![e] = m]
    BY <1>2 DEF Written, RunnerInv, RunnerTypeOK, Entry
<1>8. m \in Entry /\ m.snap = S /\ m.pc = "turn" /\ m.commit = None /\ m.old = n.old /\ m.cancel = n.cancel
    <2> HIDE DEF S
    <2> QED BY <1>1, <1>2, <1>6 DEF Entry, WorkerPc, Prompted
<1>9. Working(m, f, prompts[e[1]], answer[e[1]])
    <2> HIDE DEF m, S
    <2> QED BY <1>5, <1>6, <1>8 DEF Working, Gated, Prompted
<1>10. /\ (n.cancel => m.cancel) /\ (m.cancel => m.pc \in Prompted) /\ Going(m)
       /\ m.snap.pi = n.snap.pi /\ m.snap.ex # "completed" /\ m.snap.rev <= MaxRev + 2
    <2> HIDE DEF m, S
    <2> QED BY <1>6, <1>8, RunAssumption DEF Going, Prompted, Terminal, Definitive
<1> HIDE DEF m
<1> QED BY <1>1, <1>3, <1>4, <1>7, <1>8, <1>9, <1>10, NextStage

(* The prompt goes to the agent: the first one of the run, with the        *)
(* barrier on disk and nobody having cancelled.                            *)
LEMMA HandoffStep ==
    ASSUME RunnerInv, NEW e \in Entries, Handoff(e)
    PROVE  /\ RunnerInv'
           /\ Going(entry[e]) /\ ~entry[e].cancel /\ Known(e[1]) /\ e = Of(e[1])
<1> DEFINE n == entry[e]
           r == e[1]
           m == [n EXCEPT !.pc = "writing"]
<1>1. /\ Alive(e) /\ Going(n) /\ n.commit = None /\ n.pc = "handoff"
      /\ UNCHANGED <<proc, accepting, disk, runs, sweep, answer>>
      /\ prompts' = [prompts EXCEPT ![r] = prompts[r] + 1]
    <2>1. At(e, Gated \cup Prompted)
        BY DEF Handoff, At, Gated
    <2> QED BY <2>1, AtGate DEF Handoff, At, history
<1>2. /\ r \in Runs /\ n \in Entry /\ disk[r] \in Record /\ n.snap.pi = disk[r].pi
      /\ Sound(disk[r], prompts[r], answer[r]) /\ ~n.cancel /\ ~n.old /\ ~Leaving(n)
      /\ Working(n, disk[r], prompts[r], answer[r])
    BY <1>1, AtWork DEF Prompted
<1>3. Known(r) /\ e = Of(r) /\ answer[r] \in {"none"} \cup Definitive
    BY <1>1, <1>2, LiveEntry
<1>4. /\ n.snap.st = "running" /\ n.snap.ex = "outcome_unknown" /\ n.snap.rev = 1
      /\ prompts[r] = 0 /\ answer[r] = "none" /\ disk[r].phase = "may"
    BY <1>1, <1>2 DEF Working, Gated
<1>5. m \in Entry /\ m.snap = n.snap /\ m.pc = "writing" /\ m.commit = None /\ m.old = n.old /\ m.cancel = n.cancel
    BY <1>1, <1>2 DEF Entry, WorkerPc, Prompted
<1>6. entry' = [entry EXCEPT ![Of(r)] = m]
    BY <1>2, <1>3 DEF Handoff, RunnerInv, RunnerTypeOK, Entry
<1>7. Sound(disk[r], 1, answer[r])
    BY <1>2, <1>4, Present DEF Sound, TrueReport, Terminal, Definitive
<1>8. prompts[r] + 1 = 1 /\ 1 \in Nat
    BY <1>4
<1> HIDE DEF m
<1>9. Stage(m, disk[r], 1, answer[r])
    <2>1. Working(m, disk[r], 1, answer[r])
        BY <1>4, <1>5 DEF Working, Gated, Prompted
    <2> QED BY <1>2, <1>4, <1>5, <2>1, RunAssumption DEF Stage, Going, Prompted, Terminal, Definitive
<1>10. disk' = [disk EXCEPT ![r] = disk[r]] /\ answer' = [answer EXCEPT ![r] = answer[r]]
    BY <1>1, <1>2, SameRecord DEF RunnerInv, RunnerTypeOK
<1>11. m.snap.pi = entry[Of(r)].snap.pi /\ (Going(m) => Going(entry[Of(r)]))
       /\ (entry[Of(r)].cancel => m.cancel) /\ (entry[Of(r)].old => m.old)
    BY <1>3, <1>5 DEF Going
<1>12. prompts' = [prompts EXCEPT ![r] = 1] /\ UNCHANGED <<proc, accepting, runs, sweep>>
    BY <1>1, <1>8
<1>13. RunnerInv'
    <2> HIDE DEF r, n
    <2> QED BY <1>2, <1>3, <1>5, <1>6, <1>7, <1>8, <1>9, <1>10, <1>11, <1>12, LiveStep
<1> QED BY <1>1, <1>2, <1>3, <1>13

(* The steps of start and stop_accepting that leave the runs alone. *)
LEMMA QuietStep ==
    ASSUME RunnerInv, UNCHANGED <<proc, disk, runs, entry, prompts, answer>>,
           accepting' \in Accepting, sweep' \in SUBSET Runs,
           \A r \in sweep' : Known(r) /\ entry[Of(r)].old,
           accepting = "no" => accepting' = "no",
           accepting' = "no" => \A r \in Runs : Known(r) => ~Going(entry[Of(r)]) \/ entry[Of(r)].cancel
    PROVE  RunnerInv'
<1>1. RunnerTypeOK'
    BY DEF RunnerInv, RunnerTypeOK
<1>2. ASSUME NEW q \in Runs PROVE RunInv(q)'
    <2>1. RunInv(q)
        BY DEF RunnerInv
    <2>2. Known(q)' = Known(q) /\ Of(q)' = Of(q) /\ \A e \in Entries : Alive(e)' = Alive(e)
        BY DEF Known, Of, Alive
    <2> QED BY <2>1, <2>2 DEF RunInv, Known, Alive, Of
<1> QED BY <1>1, <1>2 DEF RunnerInv

(* A step that changes nothing keeps the invariant. *)
LEMMA Stutter ==
    ASSUME RunnerInv, UNCHANGED runnerVars
    PROVE  RunnerInv'
<1>1. accepting' \in Accepting /\ sweep' \in SUBSET Runs /\ \A r \in Runs : RunInv(r)
    BY DEF RunnerInv, RunnerTypeOK, runnerVars, history
<1>2. \A r \in sweep' : Known(r) /\ entry[Of(r)].old
    BY <1>1 DEF RunInv, runnerVars, history
<1>3. accepting' = "no" => \A r \in Runs : Known(r) => ~Going(entry[Of(r)]) \/ entry[Of(r)].cancel
    BY <1>1 DEF RunInv, runnerVars, history
<1> QED BY <1>1, <1>2, <1>3, QuietStep DEF runnerVars, history

(* A worker ends its run: at setup or behind the gate without a prompt, or *)
(* behind its prompt.                                                      *)
LEMMA WorkerCommits ==
    ASSUME RunnerInv, NEW e \in Entries, Alive(e), NEW st \in Terminal, NEW ex \in ExecutionState,
           NEW w \in {"none", "setup"}, NEW cn \in BOOLEAN, Commit(e, st, ex, w, cn), entry[e].cancel => cn,
           \/ entry[e].pc \notin Prompted /\ st \in {"failed", "cancelled"} /\ ex = "not_started"
           \/ st = "lost" /\ ex = "outcome_unknown",
           UNCHANGED <<proc, accepting, runs, sweep, prompts, answer>>
    PROVE  RunnerInv'
<1>1. Going(entry[e]) /\ entry[e].commit = None
    BY DEF Commit, IsTerminal, Going
<1>2. /\ e[1] \in Runs /\ entry[e] \in Entry
      /\ Working(entry[e], disk[e[1]], prompts[e[1]], answer[e[1]]) /\ Sound(disk[e[1]], prompts[e[1]], answer[e[1]])
    BY <1>1, AtWork
<1>3. answer[e[1]] = "none" /\ answer[e[1]] \in {"none"} \cup Definitive
    BY <1>2 DEF Working
<1>4. answer' = [answer EXCEPT ![e[1]] = "none"]
    BY <1>2, <1>3 DEF RunnerInv, RunnerTypeOK
<1>5. entry[e].pc \notin Prompted => prompts[e[1]] = 0
    BY <1>2, EntryParts DEF Working, WorkerPc
<1>6. TrueReport(Out(st, ex), prompts[e[1]], "none")
    BY <1>5, OutParts DEF TrueReport
<1>7. Ending(e, st, ex, w, cn, "none")
    BY <1>4, <1>6 DEF Ending
<1> QED BY <1>7, CommitStep

(* The worker's setup fails before the gate: the run fails, not started. *)
LEMMA SetupFailsStep ==
    ASSUME RunnerInv, NEW e \in Entries, SetupFails(e)
    PROVE  RunnerInv'
<1>1. Alive(e) /\ entry[e].pc \notin Prompted /\ Commit(e, "failed", "not_started", "none", entry[e].cancel)
    BY DEF SetupFails, At, Prompted
<1>2. entry[e].cancel \in BOOLEAN
    BY <1>1, OnMap, EntryParts
<1>3. UNCHANGED <<proc, accepting, runs, sweep, prompts, answer>>
    BY DEF SetupFails, history
<1>4. "failed" \in Terminal /\ "not_started" \in ExecutionState
    BY DEF Terminal, Definitive, ExecutionState
<1> QED BY <1>1, <1>2, <1>3, <1>4, WorkerCommits

(* A cancellation or the stop of the manager reaches the worker: the run   *)
(* is cancelled, and lost if its prompt is out.                            *)
LEMMA InterruptedStep ==
    ASSUME RunnerInv, NEW e \in Entries, Interrupted(e)
    PROVE  RunnerInv'
<1>1. Alive(e) /\ entry[e].pc \notin Prompted /\ Commit(e, "cancelled", "not_started", "none", TRUE)
    BY DEF Interrupted, At, Prompted
<1>2. UNCHANGED <<proc, accepting, runs, sweep, prompts, answer>>
    BY DEF Interrupted, history
<1>3. "cancelled" \in Terminal /\ "not_started" \in ExecutionState /\ TRUE \in BOOLEAN
    BY DEF Terminal, Definitive, ExecutionState
<1> QED BY <1>1, <1>2, <1>3, WorkerCommits

(* The agent goes away during the turn: the run is lost. *)
LEMMA TurnLostStep ==
    ASSUME RunnerInv, NEW e \in Entries, TurnLost(e)
    PROVE  RunnerInv'
<1>1. Alive(e) /\ Commit(e, "lost", "outcome_unknown", "none", entry[e].cancel)
    BY DEF TurnLost, At
<1>2. entry[e].cancel \in BOOLEAN
    BY <1>1, OnMap, EntryParts
<1>3. UNCHANGED <<proc, accepting, runs, sweep, prompts, answer>>
    BY DEF TurnLost, history
<1>4. "lost" \in Terminal /\ "outcome_unknown" \in ExecutionState
    BY DEF Terminal, Definitive, ExecutionState
<1> QED BY <1>1, <1>2, <1>3, <1>4, WorkerCommits

(* The agent ends the turn: its answer is on disk before the snapshot      *)
(* tells it.                                                               *)
LEMMA AnsweredStep ==
    ASSUME RunnerInv, NEW e \in Entries, NEW o \in Definitive, Answered(e, o)
    PROVE  RunnerInv'
<1>1. /\ Alive(e) /\ entry[e].pc = "turn" /\ Commit(e, o, "completed", "none", entry[e].cancel)
      /\ UNCHANGED <<proc, accepting, runs, sweep, prompts>> /\ answer' = [answer EXCEPT ![e[1]] = o]
    BY DEF Answered, At
<1>2. Going(entry[e]) /\ entry[e].commit = None
    BY <1>1 DEF Commit, IsTerminal, Going
<1>3. entry[e] \in Entry /\ Working(entry[e], disk[e[1]], prompts[e[1]], answer[e[1]])
    BY <1>1, <1>2, AtWork
<1>4. prompts[e[1]] = 1
    BY <1>1, <1>3 DEF Working, Prompted
<1>5. entry[e].cancel \in BOOLEAN
    BY <1>3, EntryParts
<1>6. o \in Terminal /\ "completed" \in ExecutionState /\ o # "lost"
    BY DEF Terminal, Definitive, ExecutionState
<1>7. TrueReport(Out(o, "completed"), prompts[e[1]], o)
    BY <1>6, OutParts DEF TrueReport
<1>8. Ending(e, o, "completed", "none", entry[e].cancel, o)
    BY <1>1, <1>4, <1>5, <1>6, <1>7 DEF Ending
<1> QED BY <1>8, CommitStep

(* A worker whose run has ended returns, and its entry goes if the map has *)
(* lost it.                                                                *)
LEMMA WorkerLeavesStep ==
    ASSUME RunnerInv, NEW e \in Entries, WorkerLeaves(e)
    PROVE  RunnerInv' /\ (\A r \in Runs : Known(r) => entry'[Of(r)] # None /\ entry'[Of(r)].snap = entry[Of(r)].snap)
<1> DEFINE r == e[1]
           n == entry[e]
           m == [n EXCEPT !.pc = "none"]
<1>1. /\ Alive(e) /\ ~Going(n) /\ n.commit = None /\ n.pc = "setup"
      /\ UNCHANGED <<proc, accepting, disk, runs, sweep, prompts, answer>>
    BY DEF WorkerLeaves, At, IsTerminal, Going, history
<1>2. n \in Entry /\ r \in Runs
    BY <1>1, OnMap
<1>3. /\ m \in Entry /\ m.snap = n.snap /\ m.commit = None /\ m.pc = "none" /\ m.cancel = n.cancel
      /\ m.old = n.old
    BY <1>1, <1>2 DEF Entry, WorkerPc
<1>4. entry \in [Entries -> Entry \cup {None}]
    BY DEF RunnerInv, RunnerTypeOK
<1>5. entry' = Collected([entry EXCEPT ![e] = m], runs)
    <2>1. [entry EXCEPT ![e].pc = "none"] = [entry EXCEPT ![e] = m]
        BY <1>2, <1>4 DEF Entry
    <2> QED BY <2>1 DEF WorkerLeaves
<1>6. \A q \in Runs : Known(q) => Of(q) \in Entries /\ entry[Of(q)] # None
    BY OfKnown DEF Alive
<1> HIDE DEF m
<1>7. CASE e[2] = runs[r]
    <2>1. /\ Known(r) /\ e = Of(r) /\ disk[r] \in Record /\ Sound(disk[r], prompts[r], answer[r])
          /\ Stage(n, disk[r], prompts[r], answer[r])
        BY <1>1, <1>7, LiveEntry
    <2>2. entry' = [entry EXCEPT ![e] = m]
        BY <1>2, <1>3, <1>5, <2>1, NothingToCollect
    <2>3. ~Going(m)
        BY <1>1, <1>3 DEF Going
    <2>4. Stage(m, disk[r], prompts[r], answer[r])
        BY <1>1, <1>3, <2>1, <2>3 DEF Stage, Ended
    <2>5. disk' = [disk EXCEPT ![r] = disk[r]]
        BY <1>1, <1>2, SameRecord
    <2>6. RunnerInv'
        BY <1>1, <1>3, <1>7, <2>1, <2>2, <2>3, <2>4, <2>5, EntryStep
    <2>7. \A q \in Runs : Known(q) => entry'[Of(q)] # None /\ entry'[Of(q)].snap = entry[Of(q)].snap
        BY <1>3, <1>4, <1>6, <2>2, Present
    <2> QED BY <2>6, <2>7
<1>8. CASE e[2] # runs[r]
    <2> DEFINE ents == [entry EXCEPT ![e] = m]
    <2>1. \A f \in Entries : f # e /\ entry[f] # None /\ runs[f[1]] # f[2] => entry[f].pc # "none"
        <3> SUFFICES ASSUME NEW f \in Entries, entry[f] # None, runs[f[1]] # f[2]
                     PROVE  entry[f].pc # "none"
            OBVIOUS
        <3>1. Leaving(entry[f])
            BY OnMap, Slots DEF Alive, Of
        <3> QED BY <3>1 DEF Leaving
    <2>2. ents \in [Entries -> Entry \cup {None}] /\ ents[e] = m /\ \A f \in Entries : f # e => ents[f] = entry[f]
        BY <1>3, <1>4
    <2>3. m # None
        BY <1>3, Present
    <2>4. \A f \in Entries :
            (IF ents[f] # None /\ ents[f].pc = "none" /\ ents[f].commit = None /\ runs[f[1]] # f[2]
             THEN None ELSE ents[f]) = (IF f = e THEN None ELSE entry[f])
        <3> SUFFICES ASSUME NEW f \in Entries
                     PROVE  (IF ents[f] # None /\ ents[f].pc = "none" /\ ents[f].commit = None /\ runs[f[1]] # f[2]
                             THEN None ELSE ents[f]) = (IF f = e THEN None ELSE entry[f])
            OBVIOUS
        <3>1. CASE f = e
            BY <1>3, <1>8, <2>2, <2>3, <3>1
        <3>2. CASE f # e
            <4> HIDE DEF ents
            <4> QED BY <2>1, <2>2, <3>2
        <3> QED BY <3>1, <3>2
    <2>5. entry' = [f \in Entries |-> IF f = e THEN None ELSE entry[f]]
        BY <1>5, <2>4 DEF Collected
    <2>6. entry' = [entry EXCEPT ![e] = None]
        BY <1>4, <2>5
    <2>7. RunnerInv'
        BY <1>1, <1>8, <2>6, OffMapStep
    <2>8. \A q \in Runs : Known(q) => entry'[Of(q)] = entry[Of(q)]
        BY <1>4, <1>6, <1>8, <2>6 DEF Of
    <2> QED BY <1>6, <2>7, <2>8
<1> QED BY <1>7, <1>8

(* A cancel, of the Server or of stop_accepting. *)
LEMMA RequestCancelStep ==
    ASSUME RunnerInv, NEW e \in Entries, RequestCancel(e),
           UNCHANGED <<proc, accepting, runs, sweep, prompts, answer>>
    PROVE  RunnerInv'
<1> DEFINE n == entry[e]
           m == [n EXCEPT !.cancel = TRUE]
<1>1. Alive(e) /\ n.commit = None /\ n.pc \notin Gated
    BY DEF RequestCancel
<1>2. n \in Entry /\ e[1] \in Runs
    BY <1>1, OnMap
<1>3. CASE UNCHANGED <<disk, entry>>
    BY <1>3, Stutter DEF runnerVars, history
<1>4. CASE /\ ~IsTerminal(e) /\ n.pc \in Prompted
           /\ entry' = [entry EXCEPT ![e].cancel = TRUE] /\ disk' = disk
    <2>1. Going(n) /\ entry' = [entry EXCEPT ![e] = m]
        BY <1>2, <1>4 DEF IsTerminal, Going, RunnerInv, RunnerTypeOK, Entry
    <2>2. /\ m \in Entry /\ m.snap = n.snap /\ m.commit = None /\ m.pc = n.pc /\ m.cancel = TRUE
          /\ m.old = n.old
        BY <1>1, <1>2 DEF Entry
    <2>3. /\ disk[e[1]] \in Record /\ Working(n, disk[e[1]], prompts[e[1]], answer[e[1]])
          /\ n.snap.ex # "completed" /\ n.snap.rev <= MaxRev + 2 /\ Sound(disk[e[1]], prompts[e[1]], answer[e[1]])
        BY <1>1, <2>1, AtWork
    <2>4. disk' = [disk EXCEPT ![e[1]] = disk[e[1]]]
        BY <1>2, <1>4, SameRecord
    <2> HIDE DEF m
    <2>5. Working(m, disk[e[1]], prompts[e[1]], answer[e[1]])
        BY <2>2, <2>3 DEF Working
    <2>6. Going(m)
        BY <2>1, <2>2 DEF Going
    <2>7. (n.cancel => m.cancel) /\ (m.cancel => m.pc \in Prompted) /\ m.snap.pi = n.snap.pi
          /\ m.snap.ex # "completed" /\ m.snap.rev <= MaxRev + 2
        BY <1>4, <2>2, <2>3
    <2> QED BY <1>1, <2>1, <2>2, <2>3, <2>4, <2>5, <2>6, <2>7, NextStage
<1>5. CASE n.pc \notin Prompted /\ Commit(e, "cancelled", "not_started", n.pc, TRUE)
    <2>1. n.pc \in {"none", "setup"}
        BY <1>1, <1>2, <1>5, EntryParts DEF WorkerPc
    <2>2. "cancelled" \in Terminal /\ "not_started" \in ExecutionState /\ TRUE \in BOOLEAN
        BY DEF Terminal, Definitive, ExecutionState
    <2> QED BY <1>1, <1>5, <2>1, <2>2, WorkerCommits
<1> QED BY <1>3, <1>4, <1>5 DEF RequestCancel

(***************************************************************************)
(* start, the sweep and stop_accepting.                                    *)
(***************************************************************************)
(* What a removal that succeeds leaves: neither entry nor record of the    *)
(* runs removed; others are untouched.                                     *)
LEMMA Removed ==
    ASSUME RunnerInv, ~RemovalFails, NEW R \in SUBSET Runs, Remove(R)
    PROVE  /\ disk' = [r \in Runs |-> IF r \in R THEN None ELSE disk[r]]
           /\ prompts' = [r \in Runs |-> IF r \in R THEN 0 ELSE prompts[r]]
           /\ answer' = [r \in Runs |-> IF r \in R THEN "none" ELSE answer[r]]
           /\ runs' = [r \in Runs |-> IF r \in R THEN 0 ELSE runs[r]]
           /\ entry' = Collected(entry, runs')
<1>1. PICK left \in [R -> {"gone"}] :
          LET gone == {r \in R : left[r] = "gone"}
          IN  /\ disk' = [r \in Runs |-> IF r \notin R \/ left[r] = "kept" THEN disk[r]
                                         ELSE IF r \in gone THEN None ELSE Unreadable]
              /\ prompts' = [r \in Runs |-> IF r \in gone THEN 0 ELSE prompts[r]]
              /\ answer' = [r \in Runs |-> IF r \in gone THEN "none" ELSE answer[r]]
    BY DEF Remove
<1>2. \A r \in R : left[r] = "gone"
    OBVIOUS
<1>3. {r \in R : left[r] = "gone"} = R
    BY <1>2
<1>4. disk' = [r \in Runs |-> IF r \in R THEN None ELSE disk[r]]
    BY <1>1, <1>2
<1>5. /\ prompts' = [r \in Runs |-> IF r \in R THEN 0 ELSE prompts[r]]
      /\ answer' = [r \in Runs |-> IF r \in R THEN "none" ELSE answer[r]]
    BY <1>1, <1>3
<1>6. runs' = [r \in Runs |-> IF r \in R THEN 0 ELSE runs[r]] /\ entry' = Collected(entry, runs')
    BY DEF Remove
<1> QED BY <1>4, <1>5, <1>6

(* Expired runs are removed; their workers, where they have one, leave.    *)
LEMMA RemoveStep ==
    ASSUME RunnerInv, ~RemovalFails, NEW R \in SUBSET Runs,
           \A r \in R : Known(r) /\ entry[Of(r)].old, Remove(R),
           UNCHANGED <<proc, accepting>>, sweep' \in {{}, sweep}, R \cap sweep' = {}
    PROVE  RunnerInv'
<1>1. /\ \A r \in Runs : /\ disk'[r] = IF r \in R THEN None ELSE disk[r]
                         /\ prompts'[r] = IF r \in R THEN 0 ELSE prompts[r]
                         /\ answer'[r] = IF r \in R THEN "none" ELSE answer[r]
                         /\ runs'[r] = IF r \in R THEN 0 ELSE runs[r]
      /\ disk' \in [Runs -> Record \cup {None, Unreadable}] /\ prompts' \in [Runs -> Nat]
      /\ answer' \in [Runs -> {"none"} \cup Definitive] /\ runs' \in [Runs -> 0 .. MaxEntries]
      /\ entry' = Collected(entry, runs')
    BY Removed, RunAssumption DEF RunnerInv, RunnerTypeOK
<1>2. entry \in [Entries -> Entry \cup {None}] /\ sweep' \subseteq Runs
    BY DEF RunnerInv, RunnerTypeOK
<1>3. \A e \in Entries : entry'[e] = IF entry[e] # None /\ entry[e].pc = "none" /\ entry[e].commit = None
                                          /\ runs'[e[1]] # e[2] THEN None ELSE entry[e]
    BY <1>1 DEF Collected
<1>4. entry' \in [Entries -> Entry \cup {None}]
    <2>1. entry' = [e \in Entries |-> entry'[e]]
        BY <1>1 DEF Collected
    <2>2. \A e \in Entries : entry'[e] \in Entry \cup {None}
        BY <1>2, <1>3
    <2> QED BY <2>1, <2>2
<1>5. RunnerTypeOK'
    BY <1>1, <1>2, <1>4 DEF RunnerInv, RunnerTypeOK
<1>6. ASSUME NEW q \in Runs, q \notin R PROVE RunInv(q)'
    <2>1. RunInv(q) /\ runs'[q] = runs[q] /\ disk'[q] = disk[q] /\ prompts'[q] = prompts[q] /\ answer'[q] = answer[q]
        BY <1>1, <1>6 DEF RunnerInv
    <2>2. ASSUME NEW k \in 1 .. MaxEntries PROVE entry'[<<q, k>>] = entry[<<q, k>>]
        <3>1. <<q, k>> \in Entries
            BY Slots
        <3>2. entry[<<q, k>>] # None /\ runs[q] # k => entry[<<q, k>>].pc = "setup"
            BY <2>1 DEF RunInv, Alive, Leaving
        <3> QED BY <1>3, <2>1, <3>1, <3>2
    <2>3. Known(q) => entry'[Of(q)] = entry[Of(q)]
        BY <2>2 DEF Known, Of, RunnerInv, RunnerTypeOK
    <2>4. Known(q)' = Known(q) /\ Of(q)' = Of(q)
        BY <2>1 DEF Known, Of
    <2>5. q \in sweep' => q \in sweep
        OBVIOUS
    <2> QED BY <2>1, <2>2, <2>3, <2>4, <2>5 DEF RunInv, Alive
<1>7. ASSUME NEW q \in R PROVE RunInv(q)'
    <2>1. /\ Known(q) /\ entry[Of(q)] \in Entry /\ Alive(Of(q)) /\ Stage(entry[Of(q)], disk[q], prompts[q], answer[q])
          /\ entry[Of(q)].old /\ RunInv(q)
        BY OfKnown DEF RunnerInv
    <2>2. ~Going(entry[Of(q)]) /\ entry[Of(q)].commit = None /\ entry[Of(q)].pc \in {"none", "setup"}
        BY <2>1 DEF Stage
    <2>3. disk'[q] = None /\ prompts'[q] = 0 /\ answer'[q] = "none" /\ runs'[q] = 0
        BY <1>1
    <2>4. ASSUME NEW k \in 1 .. MaxEntries, entry'[<<q, k>>] # None PROVE Leaving(entry'[<<q, k>>])
        <3>1. <<q, k>> \in Entries /\ runs'[q] # k
            BY <2>3, Slots
        <3>2. entry'[<<q, k>>] = entry[<<q, k>>] /\ ~(entry[<<q, k>>].pc = "none" /\ entry[<<q, k>>].commit = None)
            BY <1>3, <2>4, <3>1
        <3>3. CASE k = runs[q]
            BY <2>2, <3>2, <3>3 DEF Of, Leaving
        <3>4. CASE k # runs[q]
            BY <2>1, <2>4, <3>2, <3>4 DEF RunInv, Alive
        <3> QED BY <3>3, <3>4
    <2>5. ~Known(q)' /\ ~Readable(disk'[q])
        BY <2>3 DEF Known, Readable
    <2>6. Sound(disk'[q], prompts'[q], answer'[q])
        BY <2>3, <2>5 DEF Sound
    <2>7. q \notin sweep'
        OBVIOUS
    <2> QED BY <2>4, <2>5, <2>6, <2>7 DEF RunInv, Alive
<1> QED BY <1>5, <1>6, <1>7 DEF RunnerInv

(* A run gets an entry: its record is new, or was left by a start of this  *)
(* process that failed.                                                    *)
LEMMA InsertStep ==
    ASSUME RunnerInv, NEW r \in Runs, ~Known(r), r \notin sweep, NEW w \in {"none", "setup"},
           NEW d \in Record, d.phase = "before", d.pi = proc,
           Sound(d, prompts[r], answer[r]),
           Insert(r, RecordSnapshot(d), w), disk' = [disk EXCEPT ![r] = d],
           accepting # "no", accepting' \in Accepting \ {"no"},
           UNCHANGED <<proc, sweep, prompts, answer>>
    PROVE  RunnerInv'
<1> DEFINE S == RecordSnapshot(d)
           m == NewEntry(S, w)
<1>1. PICK k \in 1 .. MaxEntries : /\ entry[<<r, k>>] = None /\ runs' = [runs EXCEPT ![r] = k]
                                   /\ entry' = [entry EXCEPT ![<<r, k>>] = m]
    BY DEF Insert, FirstFree
<1>2. Readable(d) /\ d.st = "starting" /\ d.ex = "not_started" /\ d.pi \in 1 .. MaxProcs
      /\ prompts[r] = 0 /\ answer[r] = "none"
    BY RecordParts, Present DEF Sound
<1>3. S \in Snapshot /\ S.st = "starting" /\ S.ex = "not_started" /\ S.rev = 0 /\ S.pi = d.pi
    <2>1. "starting" \in RunState /\ "not_started" \in ExecutionState /\ 0 \in 0 .. (MaxRev + 4)
        BY RunAssumption DEF RunState, ExecutionState
    <2> QED BY <1>2, <2>1, SnapParts DEF RecordSnapshot
<1> HIDE DEF S
<1>4. m \in Entry /\ m.snap = S /\ m.pc = w /\ m.cancel = FALSE /\ m.commit = None /\ m.old = FALSE
    <2>1. w \in WorkerPc
        BY DEF WorkerPc
    <2> QED BY <1>3, <2>1, NewEntryParts
<1> HIDE DEF m
<1>5. Stage(m, d, prompts[r], answer[r])
    <2>1. Working(m, d, prompts[r], answer[r])
        BY <1>2, <1>3, <1>4 DEF Working, Gated, Prompted
    <2> QED BY <1>2, <1>3, <1>4, <2>1, RunAssumption DEF Stage, Going, Terminal, Definitive
<1>6. RunnerTypeOK'
    <2>1. RunnerTypeOK
        BY DEF RunnerInv
    <2>2. disk' \in [Runs -> Record \cup {None, Unreadable}] /\ runs' \in [Runs -> 0 .. MaxEntries]
        BY <1>1, <2>1, RunAssumption DEF RunnerTypeOK
    <2>3. entry' \in [Entries -> Entry \cup {None}]
        BY <1>1, <1>4, <2>1 DEF RunnerTypeOK
    <2> QED BY <2>1, <2>2, <2>3 DEF RunnerTypeOK
<1>7. ASSUME NEW q \in Runs PROVE RunInv(q)'
    <2>1. RunInv(q) /\ entry \in [Entries -> Entry \cup {None}] /\ runs \in [Runs -> 0 .. MaxEntries]
          /\ disk \in [Runs -> Record \cup {None, Unreadable}]
        BY DEF RunnerInv, RunnerTypeOK
    <2>2. CASE q = r
        <3>1. runs'[r] = k /\ entry'[<<r, k>>] = m /\ disk'[r] = d /\ Of(r)' = <<r, k>> /\ Known(r)'
            BY <1>1, <2>1, Slots DEF Of, Known
        <3>2. \A j \in 1 .. MaxEntries : j # k => entry'[<<r, j>>] = entry[<<r, j>>]
            BY <1>1, <2>1, Slots
        <3>3. \A j \in 1 .. MaxEntries : Alive(<<r, j>>)' /\ j # k => Leaving(entry'[<<r, j>>])
            BY <2>1, <2>2, <3>2 DEF RunInv, Alive, Known
        <3>4. m # None /\ Going(m)
            BY <1>3, <1>4, Present DEF Going, Terminal, Definitive
        <3> QED BY <1>2, <1>3, <1>4, <1>5, <2>2, <3>1, <3>3, <3>4 DEF RunInv, Alive
    <2>3. CASE q # r
        <3>1. \A j \in 1 .. MaxEntries : entry'[<<q, j>>] = entry[<<q, j>>]
            BY <1>1, <2>1, <2>3, Slots
        <3>2. runs'[q] = runs[q] /\ disk'[q] = disk[q] /\ Known(q)' = Known(q) /\ Of(q)' = Of(q)
            BY <1>1, <2>1, <2>3 DEF Known, Of
        <3>3. Known(q) => entry'[Of(q)] = entry[Of(q)]
            BY <2>1, <3>1 DEF Known, Of
        <3> QED BY <2>1, <2>3, <3>1, <3>2, <3>3 DEF RunInv, Alive
    <2> QED BY <2>2, <2>3
<1> QED BY <1>6, <1>7 DEF RunnerInv

(* The first record of a run that has none. *)
LEMMA NewRecord ==
    ASSUME RunnerInv, NEW r \in Runs, disk[r] = None
    PROVE  /\ FirstRecord \in Record /\ FirstRecord.phase = "before" /\ FirstRecord.pi = proc
           /\ \A d \in {None, Unreadable, FirstRecord} :
                 Sound(d, prompts[r], answer[r]) /\ (Readable(d) => d.phase = "before" /\ d.pi = proc)
<1>1. FirstRecord \in Record /\ FirstRecord.phase = "before" /\ FirstRecord.pi = proc
      /\ FirstRecord.st = "starting" /\ FirstRecord.ex = "not_started"
    <2>1. proc \in 1 .. MaxProcs /\ "starting" \in RunState /\ "not_started" \in ExecutionState
        BY DEF RunnerInv, RunnerTypeOK, RunState, ExecutionState
    <2> QED BY <2>1, RecParts DEF FirstRecord
<1>2. Sound(None, prompts[r], answer[r])
    BY DEF RunnerInv, RunInv
<1>3. prompts[r] = 0 /\ answer[r] = "none"
    BY <1>2 DEF Sound, Readable
<1> QED BY <1>1, <1>3 DEF Sound, Readable, TrueReport, Terminal, Definitive

(* A start leaves a record, or part of one, without an entry. *)
LEMMA ResidueStep ==
    ASSUME RunnerInv, NEW r \in Runs, ~Known(r), disk[r] = None,
           NEW d \in {None, Unreadable, FirstRecord}, disk' = [disk EXCEPT ![r] = d],
           accepting # "no", accepting' \in Accepting \ {"no"},
           UNCHANGED <<proc, runs, entry, sweep, prompts, answer>>
    PROVE  RunnerInv'
<1>1. FirstRecord \in Record /\ Sound(d, prompts[r], answer[r]) /\ (Readable(d) => d.phase = "before" /\ d.pi = proc)
    BY NewRecord
<1>2. RunnerTypeOK'
    BY <1>1 DEF RunnerInv, RunnerTypeOK
<1>3. ASSUME NEW q \in Runs PROVE RunInv(q)'
    <2>1. RunInv(q) /\ disk \in [Runs -> Record \cup {None, Unreadable}]
        BY DEF RunnerInv, RunnerTypeOK
    <2>2. Known(q)' = Known(q) /\ Of(q)' = Of(q) /\ \A e \in Entries : Alive(e)' = Alive(e)
        BY DEF Known, Of, Alive
    <2>3. CASE q = r
        <3>1. disk'[r] = d
            BY <2>1
        <3> QED BY <1>1, <2>1, <2>2, <2>3, <3>1 DEF RunInv, Alive
    <2>4. CASE q # r
        <3>1. disk'[q] = disk[q]
            BY <2>1, <2>4
        <3> QED BY <2>1, <2>2, <2>4, <3>1 DEF RunInv, Alive
    <2> QED BY <2>3, <2>4
<1> QED BY <1>2, <1>3 DEF RunnerInv

(* A start that gets past its checks finds the manager accepting. *)
LEMMA Admission ==
    ASSUME RunnerInv, Admitting, StartFinishes
    PROVE  accepting \in {"yes", "flagged"} /\ accepting # "no" /\ accepting' \in Accepting \ {"no"}
    BY DEF RunnerInv, RunnerTypeOK, Admitting, StartFinishes, Accepting

(* A start that answers from the map, or is refused, leaves the runs       *)
(* alone.                                                                  *)
LEMMA QuietStartStep ==
    ASSUME RunnerInv, UNCHANGED <<proc, disk, runs, entry, sweep, prompts, answer>>,
           \/ accepting' \in Accepting \ {"no"} /\ accepting # "no"
           \/ accepting' = accepting
    PROVE  RunnerInv'
<1>1. /\ \A r \in sweep' : Known(r) /\ entry[Of(r)].old
      /\ accepting' = "no" => \A r \in Runs : Known(r) => ~Going(entry[Of(r)]) \/ entry[Of(r)].cancel
      /\ accepting' \in Accepting /\ sweep' \in SUBSET Runs
    BY DEF RunnerInv, RunnerTypeOK, RunInv
<1> QED BY <1>1, QuietStep

(* start and cancel, whatever they find. *)
LEMMA RequestStep ==
    ASSUME RunnerInv, ~SweepRaces, NEW r \in Runs, NEW p \in 1 .. MaxProcs, Request(r, p)
    PROVE  RunnerInv'
<1>1. RunInv(r) /\ (~Known(r) => r \notin sweep)
    BY DEF RunnerInv, RunInv
<1>2. CASE StartKnown(r)
    BY <1>2, Admission, QuietStartStep DEF StartKnown, history
<1>3. CASE StartRefused(r)
    BY <1>3, Admission, QuietStartStep DEF StartRefused, history
<1>4. CASE StartUnreadable(r, p)
    BY <1>4, Admission, QuietStartStep DEF StartUnreadable, Admissible, history
<1>5. CASE StartRecorded(r, p)
    <2>1. /\ ~Known(r) /\ Readable(disk[r]) /\ Insert(r, RecordSnapshot(disk[r]), "none")
          /\ UNCHANGED <<proc, disk, sweep, prompts, answer>>
          /\ accepting # "no" /\ accepting' \in Accepting \ {"no"}
        BY <1>5, Admission DEF StartRecorded, Admissible, history
    <2>2. disk[r] \in Record /\ Sound(disk[r], prompts[r], answer[r])
          /\ disk[r].phase = "before" /\ disk[r].pi = proc
        BY <1>1, <2>1 DEF RunnerInv, RunnerTypeOK, RunInv, Readable
    <2>3. disk' = [disk EXCEPT ![r] = disk[r]]
        BY <2>1, SameRecord
    <2>4. "none" \in {"none", "setup"}
        OBVIOUS
    <2> QED BY <1>1, <2>1, <2>2, <2>3, <2>4, InsertStep
<1>6. CASE StartNew(r, p)
    <2>1. /\ ~Known(r) /\ disk[r] = None /\ Insert(r, RecordSnapshot(FirstRecord), "setup")
          /\ disk' = [disk EXCEPT ![r] = FirstRecord]
          /\ UNCHANGED <<proc, sweep, prompts, answer>>
          /\ accepting # "no" /\ accepting' \in Accepting \ {"no"}
        BY <1>6, Admission DEF StartNew, Admissible, history
    <2>2. FirstRecord \in Record /\ FirstRecord.phase = "before" /\ FirstRecord.pi = proc
          /\ Sound(FirstRecord, prompts[r], answer[r])
        BY <1>1, <2>1, NewRecord
    <2>3. "setup" \in {"none", "setup"}
        OBVIOUS
    <2> QED BY <1>1, <2>1, <2>2, <2>3, InsertStep
<1>7. CASE StartWriteFails(r, p)
    <2>1. /\ ~Known(r) /\ disk[r] = None
          /\ UNCHANGED <<proc, runs, entry, sweep, prompts, answer>>
          /\ accepting # "no" /\ accepting' \in Accepting \ {"no"}
        BY <1>7, Admission DEF StartWriteFails, Admissible, history
    <2>2. PICK d \in {None, Unreadable, FirstRecord} : disk' = [disk EXCEPT ![r] = d]
        BY <1>7 DEF StartWriteFails
    <2> QED BY <2>1, <2>2, ResidueStep
<1>8. CASE Cancel(r)
    <2>1. Of(r) \in Entries /\ RequestCancel(Of(r)) /\ UNCHANGED <<proc, accepting, runs, sweep, prompts, answer>>
        BY <1>8, OfKnown DEF Cancel, history
    <2> QED BY <2>1, RequestCancelStep
<1> QED BY <1>2, <1>3, <1>4, <1>5, <1>6, <1>7, <1>8 DEF Request

(* The sweep collects the runs past their retention. *)
LEMMA SweepCollectStep ==
    ASSUME RunnerInv, SweepCollect
    PROVE  RunnerInv'
<1>1. UNCHANGED <<proc, disk, runs, entry, prompts, answer>> /\ sweep' = Expired /\ accepting' = accepting
    BY DEF SweepCollect, history
<1>2. /\ \A r \in sweep' : Known(r) /\ entry[Of(r)].old
      /\ accepting' \in Accepting /\ sweep' \in SUBSET Runs
      /\ accepting' = "no" => \A r \in Runs : Known(r) => ~Going(entry[Of(r)]) \/ entry[Of(r)].cancel
    BY <1>1 DEF RunnerInv, RunnerTypeOK, RunInv, Expired
<1> QED BY <1>1, <1>2, QuietStep

(* The sweep removes what it collected: still those entries, as no start   *)
(* came between.                                                           *)
LEMMA SweepRemoveStep ==
    ASSUME RunnerInv, ~RemovalFails, SweepRemove
    PROVE  RunnerInv'
<1>1. /\ sweep \in SUBSET Runs /\ \A r \in sweep : Known(r) /\ entry[Of(r)].old
      /\ Remove(sweep) /\ sweep' = {} /\ UNCHANGED <<proc, accepting>>
    BY DEF SweepRemove, RunnerInv, RunnerTypeOK, RunInv
<1> QED BY <1>1, RemoveStep

(* A start that finds the manager full removes expired runs itself. *)
LEMMA StartCleansStep ==
    ASSUME RunnerInv, ~SweepRaces, ~RemovalFails, StartCleans
    PROVE  RunnerInv'
<1>1. /\ Expired \in SUBSET Runs /\ \A r \in Expired : Known(r) /\ entry[Of(r)].old
      /\ Remove(Expired) /\ sweep' = {} /\ sweep' = sweep /\ UNCHANGED <<proc, accepting>>
    BY DEF StartCleans, Admitting, Expired
<1> QED BY <1>1, RemoveStep

(* stop_accepting sets its flag, takes the gate, and returns with every    *)
(* run ended or cancelled.                                                 *)
LEMMA StopStep ==
    ASSUME RunnerInv, StopFlag \/ StopFence \/ StopDone
    PROVE  RunnerInv'
<1>1. CASE StopFlag \/ StopFence
    <2>1. UNCHANGED <<proc, disk, runs, entry, sweep, prompts, answer>>
          /\ accepting # "no" /\ accepting' \in Accepting \ {"no"}
        BY <1>1 DEF StopFlag, StopFence, Accepting, history
    <2> QED BY <2>1, QuietStartStep
<1>2. CASE StopDone
    <2>1. UNCHANGED <<proc, disk, runs, entry, sweep, prompts, answer>> /\ accepting' = "no"
        BY <1>2 DEF StopDone, history
    <2>2. \A r \in Runs : Known(r) => ~Going(entry[Of(r)]) \/ entry[Of(r)].cancel
        BY <1>2 DEF StopDone, IsTerminal, Going
    <2>3. \A r \in sweep' : Known(r) /\ entry[Of(r)].old
        BY <2>1 DEF RunnerInv, RunnerTypeOK, RunInv
    <2>4. sweep' \in SUBSET Runs /\ accepting' \in Accepting
        BY <2>1 DEF RunnerInv, RunnerTypeOK, Accepting
    <2> QED BY <2>1, <2>2, <2>3, <2>4, QuietStep
<1> QED BY <1>1, <1>2

(* stop_accepting cancels a run. *)
LEMMA StopCancelStep ==
    ASSUME RunnerInv, NEW r \in Runs, StopCancel(r)
    PROVE  RunnerInv'
<1>1. Of(r) \in Entries /\ RequestCancel(Of(r)) /\ UNCHANGED <<proc, accepting, runs, sweep, prompts, answer>>
    BY OfKnown DEF StopCancel, history
<1> QED BY <1>1, RequestCancelStep

(***************************************************************************)
(* The next process.                                                       *)
(***************************************************************************)
(* Recovery ends every run that was not, and says of none more than is so. *)
LEMMA RecoveredRecord ==
    ASSUME NEW d \in Record, NEW p, NEW a, Sound(d, p, a)
    PROVE  /\ Recovered(d) \in Record /\ Recovered(d).phase = "terminal" /\ Recovered(d).pi = d.pi
           /\ Recovered(d).st \in Terminal /\ Sound(Recovered(d), p, a)
<1>1. Readable(d) /\ d.pi \in 1 .. MaxProcs /\ d.phase \in {"before", "may", "terminal"}
    BY Present, RecordParts
<1>2. CASE d.phase = "terminal"
    <2>1. Recovered(d) = d
        BY <1>2 DEF Recovered
    <2> QED BY <1>1, <1>2, <2>1 DEF Sound
<1>3. CASE d.phase = "may"
    <2>1. Recovered(d) = Rec("terminal", "lost", "outcome_unknown", d.pi)
        BY <1>3 DEF Recovered
    <2>2. "lost" \in RunState /\ "outcome_unknown" \in ExecutionState /\ "lost" \in Terminal
        BY DEF RunState, ExecutionState, Terminal
    <2>3. /\ Recovered(d) \in Record /\ Recovered(d).phase = "terminal" /\ Recovered(d).pi = d.pi
          /\ Recovered(d).st = "lost" /\ Recovered(d).ex = "outcome_unknown"
        BY <1>1, <2>1, <2>2, RecParts
    <2>4. Readable(Recovered(d))
        BY <2>3, Present
    <2> QED BY <1>1, <2>2, <2>3, <2>4 DEF Sound, TrueReport
<1>4. CASE d.phase = "before"
    <2>1. Recovered(d) = Rec("terminal", "failed", "not_started", d.pi)
        BY <1>4 DEF Recovered
    <2>2. "failed" \in RunState /\ "not_started" \in ExecutionState /\ "failed" \in Terminal
        BY DEF RunState, ExecutionState, Terminal, Definitive
    <2>3. /\ Recovered(d) \in Record /\ Recovered(d).phase = "terminal" /\ Recovered(d).pi = d.pi
          /\ Recovered(d).st = "failed" /\ Recovered(d).ex = "not_started"
        BY <1>1, <2>1, <2>2, RecParts
    <2>4. p = 0
        BY <1>1, <1>4 DEF Sound
    <2> QED BY <1>1, <2>2, <2>3, <2>4 DEF Sound, TrueReport
<1> QED BY <1>1, <1>2, <1>3, <1>4

(* What is reported of a record that has ended. *)
LEMMA RecoveredEntry ==
    ASSUME NEW d \in Record, NEW p, NEW a, Sound(d, p, a), d.phase = "terminal"
    PROVE  LET m == NewEntry(RecordSnapshot(d), "none")
           IN  /\ m \in Entry /\ ~Going(m) /\ Stage(m, d, p, a)
               /\ m.snap = Snap(d.st, d.ex, 0, d.pi)
<1> DEFINE S == RecordSnapshot(d)
           m == NewEntry(S, "none")
<1>1. d.pi \in 1 .. MaxProcs /\ d.st \in RunState /\ d.ex \in ExecutionState /\ 0 \in 0 .. (MaxRev + 4)
    BY RecordParts, RunAssumption
<1>2. S \in Snapshot /\ S.st = d.st /\ S.ex = d.ex /\ S.rev = 0 /\ S.pi = d.pi /\ S = Snap(d.st, d.ex, 0, d.pi)
    BY <1>1, SnapParts DEF RecordSnapshot
<1>3. d.st \in Terminal /\ TrueReport(d, p, a)
    BY Present DEF Sound
<1> HIDE DEF S
<1>4. m \in Entry /\ m.snap = S /\ m.pc = "none" /\ m.cancel = FALSE /\ m.commit = None /\ m.old = FALSE
    <2>1. "none" \in WorkerPc
        BY DEF WorkerPc
    <2> QED BY <1>2, <2>1, NewEntryParts
<1> HIDE DEF m
<1>5. ~Going(m)
    BY <1>2, <1>3, <1>4 DEF Going
<1>6. Ended(m.snap, m, d, p, a)
    <2>1. d = Rec("terminal", d.st, d.ex, d.pi)
        BY DEF Record, Rec
    <2>2. TrueReport(S, p, a)
        BY <1>2, <1>3 DEF TrueReport
    <2> QED BY <1>2, <1>3, <1>4, <2>1, <2>2 DEF Ended
<1>7. Stage(m, d, p, a)
    BY <1>2, <1>4, <1>5, <1>6 DEF Stage
<1> QED BY <1>2, <1>4, <1>5, <1>7 DEF m, S

(* The next process has the next number. *)
LEMMA NextNumber ==
    ASSUME RunnerInv, NewProcess
    PROVE  proc' \in 1 .. MaxProcs /\ proc' = proc + 1
    BY RunAssumption DEF RunnerInv, RunnerTypeOK, NewProcess

(* A restart drops the entries and recovers the runs on disk. *)
LEMMA RestartStep ==
    ASSUME RunnerInv, Restart
    PROVE  RunnerInv'
<1>1. /\ accepting' = "yes" /\ sweep' = {} /\ UNCHANGED <<prompts, answer>>
      /\ disk' = [r \in Runs |-> IF Readable(disk[r]) THEN Recovered(disk[r]) ELSE disk[r]]
      /\ runs' = [r \in Runs |-> IF Readable(disk[r]) THEN 1 ELSE 0]
      /\ entry' = [e \in Entries |->
                    IF Readable(disk[e[1]]) /\ e[2] = 1
                    THEN NewEntry(RecordSnapshot(Recovered(disk[e[1]])), "none") ELSE None]
    BY DEF Restart, NewProcess, history
<1>5. proc' \in 1 .. MaxProcs
    BY NextNumber DEF Restart
<1>2. ASSUME NEW r \in Runs, Readable(disk[r])
      PROVE  LET d == Recovered(disk[r])
                 m == NewEntry(RecordSnapshot(d), "none")
             IN  /\ d \in Record /\ d.phase = "terminal" /\ Sound(d, prompts[r], answer[r])
                 /\ m \in Entry /\ ~Going(m) /\ Stage(m, d, prompts[r], answer[r])
    <2>1. disk[r] \in Record /\ Sound(disk[r], prompts[r], answer[r])
        BY <1>2 DEF RunnerInv, RunnerTypeOK, RunInv, Readable
    <2> QED BY <2>1, RecoveredRecord, RecoveredEntry
<1>3. RunnerTypeOK'
    <2>1. disk' \in [Runs -> Record \cup {None, Unreadable}]
        BY <1>1, <1>2 DEF RunnerInv, RunnerTypeOK
    <2>2. entry' \in [Entries -> Entry \cup {None}]
        BY <1>1, <1>2, Slots
    <2>3. runs' \in [Runs -> 0 .. MaxEntries]
        BY <1>1, RunAssumption
    <2> QED BY <1>1, <1>5, <2>1, <2>2, <2>3 DEF RunnerInv, RunnerTypeOK, Accepting
<1>4. ASSUME NEW r \in Runs PROVE RunInv(r)'
    <2>1. Sound(disk[r], prompts[r], answer[r])
        BY DEF RunnerInv, RunInv
    <2>2. CASE Readable(disk[r])
        <3> DEFINE d == Recovered(disk[r])
                   m == NewEntry(RecordSnapshot(d), "none")
        <3>1. /\ d \in Record /\ d.phase = "terminal" /\ Sound(d, prompts[r], answer[r])
              /\ m \in Entry /\ ~Going(m) /\ Stage(m, d, prompts[r], answer[r])
            BY <1>2, <2>2
        <3>2. disk'[r] = d /\ runs'[r] = 1 /\ 1 \in 1 .. MaxEntries
            BY <1>1, <2>2, RunAssumption
        <3>3. \A k \in 1 .. MaxEntries : entry'[<<r, k>>] = IF k = 1 THEN m ELSE None
            BY <1>1, <2>2, Slots
        <3> HIDE DEF d, m
        <3>4. Known(r)' /\ Of(r)' = <<r, 1>> /\ entry'[<<r, 1>>] = m /\ m # None /\ Readable(d)
            BY <3>1, <3>2, <3>3, Present DEF Known, Of
        <3> QED BY <1>1, <3>1, <3>2, <3>3, <3>4 DEF RunInv, Alive
    <2>3. CASE ~Readable(disk[r])
        <3>1. disk'[r] = disk[r] /\ runs'[r] = 0 /\ \A k \in 1 .. MaxEntries : entry'[<<r, k>>] = None
            BY <1>1, <2>3, Slots
        <3> QED BY <1>1, <2>1, <2>3, <3>1 DEF RunInv, Alive, Known
    <2> QED BY <2>2, <2>3
<1> QED BY <1>3, <1>4 DEF RunnerInv

(* A recovery that fails to rewrite a record leaves the manager closed. *)
LEMMA RestartFailsStep ==
    ASSUME RunnerInv, RestartFails
    PROVE  RunnerInv'
<1>1. PICK R \in SUBSET {r \in Runs : Readable(disk[r])} :
          disk' = [r \in Runs |-> IF r \in R THEN Recovered(disk[r]) ELSE disk[r]]
    BY DEF RestartFails
<1>2. /\ accepting' = "no" /\ sweep' = {} /\ UNCHANGED <<prompts, answer>>
      /\ runs' = [r \in Runs |-> 0] /\ entry' = [e \in Entries |-> None]
    BY DEF RestartFails, NewProcess, history
<1>6. proc' \in 1 .. MaxProcs
    BY NextNumber DEF RestartFails
<1>3. ASSUME NEW r \in Runs
      PROVE  disk'[r] \in Record \cup {None, Unreadable} /\ Sound(disk'[r], prompts[r], answer[r])
    <2>1. disk[r] \in Record \cup {None, Unreadable} /\ Sound(disk[r], prompts[r], answer[r])
        BY DEF RunnerInv, RunnerTypeOK, RunInv
    <2>2. r \in R => disk[r] \in Record
        BY <2>1 DEF Readable
    <2> QED BY <1>1, <2>1, <2>2, RecoveredRecord
<1>4. RunnerTypeOK'
    <2>1. disk' \in [Runs -> Record \cup {None, Unreadable}]
        BY <1>1, <1>3
    <2> QED BY <1>2, <1>6, <2>1, RunAssumption DEF RunnerInv, RunnerTypeOK, Accepting
<1>5. ASSUME NEW r \in Runs PROVE RunInv(r)'
    <2>1. runs'[r] = 0 /\ \A k \in 1 .. MaxEntries : entry'[<<r, k>>] = None
        BY <1>2, Slots
    <2> QED BY <1>2, <1>3, <2>1 DEF RunInv, Alive, Known
<1> QED BY <1>4, <1>5 DEF RunnerInv

(***************************************************************************)
(* The invariant.                                                          *)
(***************************************************************************)
LEMMA RunnerInvInit == RunnerInit => RunnerInv
<1> SUFFICES ASSUME RunnerInit PROVE RunnerInv
    OBVIOUS
<1>1. RunnerTypeOK
    BY RunAssumption DEF RunnerInit, RunnerTypeOK, Accepting
<1>2. ASSUME NEW r \in Runs PROVE RunInv(r)
    <2>1. \A k \in 1 .. MaxEntries : entry[<<r, k>>] = None
        BY Slots DEF RunnerInit
    <2> QED BY <2>1 DEF RunnerInit, RunInv, Known, Alive, Sound, Readable
<1> QED BY <1>1, <1>2 DEF RunnerInv

(* Every step of the manager keeps the invariant. *)
LEMMA RunnerInvNext ==
    ASSUME ~SweepRaces, ~RemovalFails, RunnerInv, [RunnerNext]_runnerVars
    PROVE  RunnerInv'
<1>1. CASE UNCHANGED runnerVars
    BY <1>1, Stutter
<1>2. ASSUME NEW e \in Entries, Worker(e) PROVE RunnerInv'
    BY <1>2, SetupFailsStep, InterruptedStep, WorkerLeavesStep, EnterGateStep, PersistStep, PassFenceStep,
       HandoffStep, WrittenStep, TurnLostStep, AnsweredStep DEF Worker
<1>3. CASE RunnerStep
    BY <1>2, <1>3, ProgressStep, PublishStep, AgeStep, SweepCollectStep, SweepRemoveStep, StartCleansStep,
       StopStep, StopCancelStep, RestartStep, RestartFailsStep DEF RunnerStep
<1>4. CASE \E r \in Runs, p \in 1 .. MaxProcs : Request(r, p)
    BY <1>4, RequestStep
<1> QED BY <1>1, <1>3, <1>4 DEF RunnerNext

(* The manager's entries, its records on disk, and what the agents got and *)
(* answered fit together, for any runs, entries and processes, if no start *)
(* comes between the two halves of a sweep and removals succeed.           *)
THEOREM RunnerInvariant ==
    ASSUME ~SweepRaces, ~RemovalFails
    PROVE  RunnerSpec => []RunnerInv
<1>1. RunnerInv /\ [RunnerNext]_runnerVars => RunnerInv'
    BY RunnerInvNext
<1> QED BY <1>1, RunnerInvInit, PTL DEF RunnerSpec

(* The invariant makes what is said of a run true, live and on disk. *)
LEMMA InvGivesTruth ==
    ASSUME RunnerInv
    PROVE  ReportsAreTrue /\ BarrierBeforePrompt
<1> SUFFICES ASSUME NEW r \in Runs
             PROVE  /\ Known(r) => TrueReport(entry[Of(r)].snap, prompts[r], answer[r])
                    /\ Readable(disk[r]) => TrueReport(disk[r], prompts[r], answer[r])
                    /\ prompts[r] > 0 /\ Readable(disk[r]) =>
                          disk[r].phase # "before" /\ disk[r].ex # "not_started"
    BY DEF ReportsAreTrue, BarrierBeforePrompt
<1>1. Sound(disk[r], prompts[r], answer[r])
    BY DEF RunnerInv, RunInv
<1>2. prompts[r] \in {0, 1}
    BY <1>1 DEF Sound
<1>3. Readable(disk[r]) => TrueReport(disk[r], prompts[r], answer[r])
                           /\ (prompts[r] = 1 => disk[r].phase # "before" /\ disk[r].ex # "not_started")
    BY <1>1 DEF Sound
<1>4. ASSUME Known(r) PROVE TrueReport(entry[Of(r)].snap, prompts[r], answer[r])
    <2>1. Stage(entry[Of(r)], disk[r], prompts[r], answer[r])
        BY <1>4, OfKnown
    <2>2. CASE Going(entry[Of(r)])
        BY <2>2 DEF Going, TrueReport
    <2>3. CASE ~Going(entry[Of(r)])
        BY <2>1, <2>3 DEF Stage, Ended
    <2> QED BY <2>2, <2>3
<1> QED BY <1>2, <1>3, <1>4

(* What the Runner says of a run, live or on disk, is true. *)
THEOREM TrueReports ==
    ASSUME ~SweepRaces, ~RemovalFails
    PROVE  RunnerSpec => []ReportsAreTrue
    BY InvGivesTruth, RunnerInvariant, PTL

(* A prompt that may be out is on record, whenever the Runner dies. *)
THEOREM BarrierFirst ==
    ASSUME ~SweepRaces, ~RemovalFails
    PROVE  RunnerSpec => []BarrierBeforePrompt
    BY InvGivesTruth, RunnerInvariant, PTL

(***************************************************************************)
(* The manager implements RunnerRuns.                                      *)
(***************************************************************************)
(* What the manager reports of a run; all reports, and who owns what. *)
Report(r) == IF Known(r) THEN entry[Of(r)].snap ELSE None
Reports == [r \in Runs |-> Report(r)]
Owners == [r \in Runs |-> Owner(r)]

(* A step that no report, record or prompt shows. *)
Unseen == UNCHANGED <<proc, prompts, answer>> /\ \A r \in Runs : Report(r)' = Report(r) /\ Owner(r)' = Owner(r)

(* A step that nothing shows is a stutter of RunnerRuns. *)
LEMMA UnseenStutters ==
    ASSUME Unseen
    PROVE  UNCHANGED Promise!runVars
<1>1. [r \in Runs |-> Report(r)]' = [r \in Runs |-> Report(r)] /\ [r \in Runs |-> Owner(r)]' = [r \in Runs |-> Owner(r)]
    BY DEF Unseen
<1> QED BY <1>1 DEF Unseen, Promise!runVars, Report

(* Who admitted a known run is who its entry and its record say. *)
LEMMA KnownReport ==
    ASSUME RunnerInv, NEW r \in Runs, Known(r)
    PROVE  /\ Report(r) = entry[Of(r)].snap /\ Report(r) \in Snapshot /\ Report(r) # None
           /\ Owner(r) = disk[r].pi /\ Owner(r) = Report(r).pi /\ Owner(r) > 0
           /\ Report(r).st \notin Terminal <=> Going(entry[Of(r)])
<1>1. entry[Of(r)] \in Entry /\ disk[r] \in Record /\ Stage(entry[Of(r)], disk[r], prompts[r], answer[r])
    BY OfKnown
<1>2. entry[Of(r)].snap \in Snapshot /\ entry[Of(r)].snap # None
    BY <1>1, EntryParts, Present
<1>3. Owner(r) = disk[r].pi /\ disk[r].pi \in 1 .. MaxProcs
    BY <1>1, Present, RecordParts DEF Owner
<1> QED BY <1>1, <1>2, <1>3 DEF Report, Stage, Going

(* An entry is rewritten without its snapshot, its record by the same      *)
(* process.                                                                *)
LEMMA SnapKept ==
    ASSUME RunnerInv, UNCHANGED <<runs>>, \A r \in Runs : Owner(r)' = Owner(r),
           \A r \in Runs : Known(r) => entry'[Of(r)].snap = entry[Of(r)].snap
    PROVE  \A r \in Runs : Report(r)' = Report(r) /\ Owner(r)' = Owner(r)
    BY DEF Report, Known, Of

(* A record rewritten for a live entry keeps the process that owns the     *)
(* run.                                                                    *)
LEMMA OwnerKept ==
    ASSUME RunnerInv, NEW e \in Entries, Alive(e), ~Leaving(entry[e]),
           NEW ph \in {"before", "may", "terminal"}, NEW st \in RunState, NEW ex \in ExecutionState,
           disk' \in {disk, [disk EXCEPT ![e[1]] = Rec(ph, st, ex, entry[e].snap.pi)]}
    PROVE  \A r \in Runs : Owner(r)' = Owner(r)
<1> DEFINE d == Rec(ph, st, ex, entry[e].snap.pi)
<1>1. /\ disk[e[1]] \in Record /\ entry[e].snap.pi = disk[e[1]].pi /\ disk[e[1]].pi \in 1 .. MaxProcs
    BY LiveEntry, RecordParts DEF Stage
<1>2. d \in Record /\ d.pi = disk[e[1]].pi
    BY <1>1, RecParts
<1> HIDE DEF d
<1>3. disk \in [Runs -> Record \cup {None, Unreadable}]
    BY DEF RunnerInv, RunnerTypeOK
<1>4. disk' = disk \/ disk' = [disk EXCEPT ![e[1]] = d]
    BY DEF d
<1>5. \A r \in Runs : disk'[r] = disk[r] \/ (r = e[1] /\ disk'[r] = d)
    BY <1>3, <1>4
<1> QED BY <1>1, <1>2, <1>5, Present DEF Owner

(* A terminal commit is not seen before it is published. *)
LEMMA CommitUnseen ==
    ASSUME RunnerInv, NEW e \in Entries, NEW st \in Terminal, NEW ex \in ExecutionState, NEW w, NEW cn,
           Commit(e, st, ex, w, cn), UNCHANGED runs
    PROVE  \A r \in Runs : Report(r)' = Report(r) /\ Owner(r)' = Owner(r)
<1>1. Alive(e) /\ ~Leaving(entry[e])
    BY DEF Commit, IsTerminal, Leaving, Going
<1>2. "terminal" \in {"before", "may", "terminal"} /\ st \in RunState
    BY DEF RunState
<1>3. disk' \in {disk, [disk EXCEPT ![e[1]] = Rec("terminal", st, ex, entry[e].snap.pi)]}
    BY DEF Commit
<1>4. \A r \in Runs : Owner(r)' = Owner(r)
    BY <1>1, <1>2, <1>3, OwnerKept
<1>5. entry[e] \in Entry /\ entry \in [Entries -> Entry \cup {None}]
    BY <1>1, OnMap DEF RunnerInv, RunnerTypeOK
<1>6. PICK c : entry' = [entry EXCEPT ![e].commit = c, ![e].pc = w, ![e].cancel = cn]
    BY DEF Commit
<1>7. \A f \in Entries : entry'[f].snap = entry[f].snap
    BY <1>5, <1>6 DEF Entry
<1> QED BY <1>4, <1>7, SnapKept, OfKnown

(* Initially the manager has no runs. *)
LEMMA InitKeepsPromise ==
    ASSUME RunnerInit
    PROVE  Promise!RunsInit
<1>1. \A r \in Runs : ~Known(r) /\ disk[r] = None
    BY DEF RunnerInit, Known
<1>2. [r \in Runs |-> IF Known(r) THEN entry[Of(r)].snap ELSE None] = [r \in Runs |-> None]
    BY <1>1
<1>3. [r \in Runs |-> Owner(r)] = [r \in Runs |-> 0]
    BY <1>1 DEF Owner
<1> QED BY <1>2, <1>3 DEF RunnerInit, Promise!RunsInit

(* The steps of a worker that change no snapshot are not seen. *)
LEMMA WorkerKeepsPromise ==
    ASSUME RunnerInv, NEW e \in Entries,
           SetupFails(e) \/ Interrupted(e) \/ WorkerLeaves(e) \/ Persist(e) \/ PassFence(e) \/ TurnLost(e) \/ Age(e)
    PROVE  Unseen
<1>1. CASE SetupFails(e) \/ Interrupted(e) \/ TurnLost(e)
    <2>1. {"failed", "cancelled", "lost"} \subseteq Terminal /\ {"not_started", "outcome_unknown"} \subseteq ExecutionState
        BY DEF Terminal, Definitive, ExecutionState
    <2> QED BY <1>1, <2>1, CommitUnseen DEF SetupFails, Interrupted, TurnLost, history, Unseen
<1>2. CASE WorkerLeaves(e)
    <2>1. \A r \in Runs : Known(r) => entry'[Of(r)].snap = entry[Of(r)].snap
        BY <1>2, WorkerLeavesStep
    <2>2. UNCHANGED <<proc, disk, runs, prompts, answer>>
        BY <1>2 DEF WorkerLeaves, history
    <2>3. \A r \in Runs : Owner(r)' = Owner(r)
        BY <2>2 DEF Owner
    <2> QED BY <2>1, <2>2, <2>3, SnapKept DEF Unseen
<1>3. CASE Persist(e)
    <2>1. Alive(e) /\ Going(entry[e]) /\ ~Leaving(entry[e]) /\ entry[e] \in Entry
        <3>1. At(e, Gated \cup Prompted)
            BY <1>3 DEF Persist, At, Gated
        <3> QED BY <3>1, AtGate, AtWork
    <2>2. "may" \in {"before", "may", "terminal"} /\ "running" \in RunState /\ "outcome_unknown" \in ExecutionState
        BY DEF RunState, ExecutionState
    <2>3. disk' \in {disk, [disk EXCEPT ![e[1]] = Rec("may", "running", "outcome_unknown", entry[e].snap.pi)]}
        BY <1>3 DEF Persist, Barrier
    <2>4. \A r \in Runs : Owner(r)' = Owner(r)
        BY <2>1, <2>2, <2>3, OwnerKept
    <2>5. \A f \in Entries : entry'[f].snap = entry[f].snap
        BY <1>3, <2>1 DEF Persist, RunnerInv, RunnerTypeOK, Entry
    <2>6. UNCHANGED <<proc, runs, prompts, answer>>
        BY <1>3 DEF Persist, history
    <2> QED BY <2>4, <2>5, <2>6, SnapKept, OfKnown DEF Unseen
<1>4. CASE PassFence(e) \/ Age(e)
    <2>1. entry[e] \in Entry
        BY <1>4, OnMap DEF PassFence, At, Age
    <2>2. UNCHANGED <<proc, disk, runs, prompts, answer>>
        BY <1>4 DEF PassFence, Step, Age, history
    <2>3. \A f \in Entries : entry'[f].snap = entry[f].snap
        BY <1>4, <2>1 DEF PassFence, Step, Age, RunnerInv, RunnerTypeOK, Entry
    <2>4. \A r \in Runs : Owner(r)' = Owner(r)
        BY <2>2 DEF Owner
    <2> QED BY <2>2, <2>3, <2>4, SnapKept, OfKnown DEF Unseen
<1> QED BY <1>1, <1>2, <1>3, <1>4

(* A cancel is not seen: it marks the entry or commits an end that a later *)
(* step publishes.                                                         *)
LEMMA CancelKeepsPromise ==
    ASSUME RunnerInv, NEW r \in Runs, Cancel(r) \/ StopCancel(r)
    PROVE  Unseen
<1> DEFINE e == Of(r)
<1>1. e \in Entries /\ RequestCancel(e) /\ UNCHANGED <<proc, runs, prompts, answer>> /\ entry[e] \in Entry
    BY OfKnown DEF Cancel, StopCancel, history
<1> HIDE DEF e
<1>2. CASE disk' = disk /\ entry' \in {entry, [entry EXCEPT ![e].cancel = TRUE]}
    <2>1. \A f \in Entries : entry'[f].snap = entry[f].snap
        BY <1>1, <1>2 DEF RunnerInv, RunnerTypeOK, Entry
    <2>2. \A q \in Runs : Owner(q)' = Owner(q)
        BY <1>2 DEF Owner
    <2> QED BY <1>1, <2>1, <2>2, SnapKept, OfKnown DEF Unseen
<1>3. CASE Commit(e, "cancelled", "not_started", entry[e].pc, TRUE)
    <2>1. "cancelled" \in Terminal /\ "not_started" \in ExecutionState
        BY DEF Terminal, Definitive, ExecutionState
    <2> QED BY <1>1, <1>3, <2>1, CommitUnseen DEF Unseen
<1> QED BY <1>1, <1>2, <1>3 DEF RequestCancel

(* One entry has a new snapshot. *)
LEMMA OneReport ==
    ASSUME RunnerInv, UNCHANGED runs, NEW e \in Entries, Alive(e), ~Leaving(entry[e]),
           NEW s, entry'[e].snap = s, \A f \in Entries : f # e => entry'[f] = entry[f]
    PROVE  /\ e[1] \in Runs /\ Known(e[1]) /\ Report(e[1]) = entry[e].snap
           /\ Reports' = [Reports EXCEPT ![e[1]] = s]
<1>1. e[1] \in Runs /\ Known(e[1]) /\ e = Of(e[1])
    BY LiveEntry
<1>2. \A r \in Runs : Known(r)' = Known(r) /\ Of(r)' = Of(r)
    BY DEF Known, Of
<1>3. Report(e[1])' = s /\ Report(e[1]) = entry[e].snap
    BY <1>1, <1>2 DEF Report
<1>4. \A r \in Runs : r # e[1] => Report(r)' = Report(r)
    <2> SUFFICES ASSUME NEW r \in Runs, r # e[1] PROVE Report(r)' = Report(r)
        OBVIOUS
    <2>1. Of(r) # e
        BY <1>1 DEF Of
    <2>2. Known(r) => Of(r) \in Entries
        BY OfKnown
    <2> QED BY <1>2, <2>1, <2>2 DEF Report
<1> QED BY <1>1, <1>3, <1>4 DEF Reports

(* A step that keeps every record's owner keeps the map of owners. *)
LEMMA OwnersKept ==
    ASSUME \A r \in Runs : Owner(r)' = Owner(r)
    PROVE  Owners' = Owners
    BY DEF Owners

(* The words of the promise are those of the reports. *)
LEMMA SameWords ==
    /\ Promise!Terminal = Terminal /\ Promise!ExecutionState = ExecutionState
    /\ \A st, ex, v, p : Promise!Snap(st, ex, v, p) = Snap(st, ex, v, p)
    /\ \A s, p, a : Promise!TrueReport(s, p, a) <=> TrueReport(s, p, a)
    BY DEF Promise!Terminal, Terminal, Promise!Definitive, Definitive, Promise!ExecutionState, ExecutionState,
           Promise!Snap, Snap, Promise!TrueReport, TrueReport

(* A run at the gate has a new report. *)
LEMMA AtGateAdvances ==
    ASSUME NEW r \in Runs, Report(r) # None, Report(r).st = "starting", UNCHANGED <<proc, prompts, answer>>, Owners' = Owners,
           Reports' = [Reports EXCEPT ![r] = Snap("running", "outcome_unknown", 1, Report(r).pi)]
    PROVE  Promise!Advance(r)
<1>1. Reports[r] = Report(r) /\ Owners[r] = Owner(r)
    BY DEF Reports, Owners
<1> QED BY <1>1, SameWords DEF Reports, Report, Owners, Promise!Live, Promise!Advance, Terminal, Definitive

(* A turn that goes on has a new report. *)
LEMMA TurnAdvances ==
    ASSUME NEW r \in Runs, Report(r) # None, Report(r).st = "running", prompts[r] > 0,
           Report(r).ex = "started" => Report(r).rev < MaxRev, UNCHANGED <<proc, prompts, answer>>, Owners' = Owners,
           Reports' = [Reports EXCEPT ![r].ex = "started", ![r].rev = Report(r).rev + 1]
    PROVE  Promise!Advance(r)
<1>1. Reports[r] = Report(r) /\ Owners[r] = Owner(r)
    BY DEF Reports, Owners
<1> QED BY <1>1, SameWords DEF Reports, Report, Owners, Promise!Live, Promise!Advance, Terminal, Definitive

(* A prompt is handed over by the process that admitted its run. *)
LEMMA PromptHandedOver ==
    ASSUME NEW r \in Runs, Report(r) # None, Report(r).st = "running", Owner(r) = proc, prompts[r] = 0,
           prompts' = [prompts EXCEPT ![r] = 1], UNCHANGED <<proc, answer>>, Reports' = Reports, Owners' = Owners
    PROVE  Promise!HandOver(r)
<1>1. Reports[r] = Report(r) /\ Owners[r] = Owner(r)
    BY DEF Reports, Owners
<1> QED BY <1>1, SameWords DEF Reports, Report, Owners, Promise!Live, Promise!HandOver, Terminal, Definitive

(* The agent answers. *)
LEMMA AnswerArrives ==
    ASSUME NEW r \in Runs, NEW o, Report(r) # None, Report(r).st \notin Terminal, prompts[r] > 0, answer[r] = "none",
           answer' = [answer EXCEPT ![r] = o], UNCHANGED <<proc, prompts>>, Reports' = Reports, Owners' = Owners
    PROVE  Promise!Reply(r, o)
<1>1. Reports[r] = Report(r) /\ Owners[r] = Owner(r)
    BY DEF Reports, Owners
<1> QED BY <1>1, SameWords DEF Reports, Report, Owners, Promise!Live, Promise!Reply

(* A run id without a record is admitted. *)
LEMMA RunAdmitted ==
    ASSUME NEW r \in Runs, Report(r) = None, Owner(r) = 0, UNCHANGED <<proc, prompts, answer>>,
           Owners' = [Owners EXCEPT ![r] = proc],
           Reports' = [Reports EXCEPT ![r] = Snap("starting", "not_started", 0, proc)]
    PROVE  Promise!Admit(r)
<1>1. Reports[r] = Report(r) /\ Owners[r] = Owner(r)
    BY DEF Reports, Owners
<1> QED BY <1>1, SameWords DEF Reports, Report, Owners, Promise!Live, Promise!Admit

(* A start that failed leaves a record. *)
LEMMA ResidueLeft ==
    ASSUME NEW r \in Runs, Report(r) = None, Owner(r) = 0, UNCHANGED <<proc, prompts, answer>>, Reports' = Reports,
           NEW w \in {proc, -1}, Owners' = [Owners EXCEPT ![r] = w]
    PROVE  Promise!Residue(r)
<1>1. Reports[r] = Report(r) /\ Owners[r] = Owner(r)
    BY DEF Reports, Owners
<1> QED BY <1>1, SameWords DEF Reports, Report, Owners, Promise!Live, Promise!Residue

(* A run id is reported from its record. *)
LEMMA RunReadmitted ==
    ASSUME NEW r \in Runs, Report(r) = None, Owner(r) > 0, UNCHANGED <<proc, prompts, answer>>, Owners' = Owners,
           Reports' = [Reports EXCEPT ![r] = Snap("starting", "not_started", 0, Owner(r))]
    PROVE  Promise!Readmit(r)
<1>1. Reports[r] = Report(r) /\ Owners[r] = Owner(r)
    BY DEF Reports, Owners
<1> QED BY <1>1, SameWords DEF Reports, Report, Owners, Promise!Live, Promise!Readmit

(* A run ends with a true report. *)
LEMMA RunEnded ==
    ASSUME NEW r \in Runs, Report(r) # None, Report(r).st \notin Terminal, UNCHANGED <<proc, prompts, answer>>, Owners' = Owners,
           NEW s \in [st : Terminal, ex : ExecutionState, rev : {Report(r).rev + 2}, pi : {Owner(r)}],
           TrueReport(s, prompts[r], answer[r]), Reports' = [Reports EXCEPT ![r] = s]
    PROVE  Promise!End(r)
<1>1. Reports[r] = Report(r) /\ Owners[r] = Owner(r)
    BY DEF Reports, Owners
<1> QED BY <1>1, SameWords DEF Reports, Report, Owners, Promise!Live, Promise!End, Promise!Ends, Promise!True, Terminal

(* Retention ends for runs that have ended. *)
LEMMA RunsForgotten ==
    ASSUME NEW R \in SUBSET Runs, R # {}, \A r \in R : Report(r) # None /\ Report(r).st \in Terminal,
           UNCHANGED proc,
           \A r \in Runs : Report(r)' = (IF r \in R THEN None ELSE Report(r))
                           /\ Owner(r)' = (IF r \in R THEN 0 ELSE Owner(r)),
           prompts' = [r \in Runs |-> IF r \in R THEN 0 ELSE prompts[r]],
           answer' = [r \in Runs |-> IF r \in R THEN "none" ELSE answer[r]]
    PROVE  Promise!Forget(R)
<1>1. \A r \in R : Reports[r] = Report(r)
    BY DEF Reports
<1>2. /\ Reports' = [r \in Runs |-> IF r \in R THEN None ELSE Reports[r]]
      /\ Owners' = [r \in Runs |-> IF r \in R THEN 0 ELSE Owners[r]]
    BY DEF Reports, Owners
<1>3. \A r \in R : Reports[r] # None /\ ~Promise!Live(r)
    BY <1>1, SameWords DEF Reports, Report, Promise!Live
<1> QED BY <1>2, <1>3 DEF Reports, Report, Owners, Promise!Forget

(* The next process reports what it recovered. *)
LEMMA ProcessReplaced ==
    ASSUME proc < MaxProcs, proc' = proc + 1, UNCHANGED <<prompts, answer>>, Owners' = Owners,
           \A r \in Runs : Report(r)' # None =>
               /\ Owner(r) > 0
               /\ Report(r)' \in [st : Terminal, ex : ExecutionState, rev : {0}, pi : {Owner(r)}]
               /\ TrueReport(Report(r)', prompts[r], answer[r])
    PROVE  Promise!NextProcess
<1>1. \A r \in Runs : Reports'[r] = Report(r)' /\ Owners[r] = Owner(r)
    BY DEF Reports, Owners
<1>2. \A r \in Runs : Reports'[r] # None => Owners[r] > 0 /\ Reports'[r] \in Promise!Ends(r, 0)
    BY <1>1, SameWords DEF Owners, Promise!Ends, Promise!True, Terminal
<1>3. Reports' \in [Runs -> (UNION {Promise!Ends(r, 0) : r \in Runs}) \cup {None}]
    <2>1. Reports' = [r \in Runs |-> Reports'[r]]
        BY DEF Reports
    <2>2. \A r \in Runs : Reports'[r] \in (UNION {Promise!Ends(q, 0) : q \in Runs}) \cup {None}
        BY <1>2
    <2> HIDE DEF Reports
    <2> QED BY <2>1, <2>2
<1> QED BY <1>2, <1>3 DEF Reports, Report, Owners, Promise!NextProcess

(* Entering the prompt gate advances the run. *)
LEMMA EnterGateAdvances ==
    ASSUME RunnerInv, NEW e \in Entries, EnterGate(e)
    PROVE  Promise!Advance(e[1])
<1> DEFINE n == entry[e]
           S == Snap("running", "outcome_unknown", n.snap.rev + 1, n.snap.pi)
<1>1. /\ Alive(e) /\ Going(n) /\ n.commit = None /\ n.pc = "setup" /\ UNCHANGED <<proc, disk, runs, prompts, answer>>
      /\ entry' = [entry EXCEPT ![e] = [n EXCEPT !.pc = "persist", !.snap = S]]
    BY DEF EnterGate, At, Step, IsTerminal, Going, history
<1>2. n \in Entry /\ ~Leaving(n) /\ Working(n, disk[e[1]], prompts[e[1]], answer[e[1]])
    BY <1>1, AtWork
<1>3. n.snap.rev = 0 /\ n.snap.st = "starting"
    BY <1>1, <1>2 DEF Working
<1>4. S = Snap("running", "outcome_unknown", 1, n.snap.pi)
    BY <1>3
<1> HIDE DEF S
<1>5. entry'[e].snap = S /\ \A f \in Entries : f # e => entry'[f] = entry[f]
    BY <1>1, <1>2 DEF RunnerInv, RunnerTypeOK, Entry
<1>6. e[1] \in Runs /\ Known(e[1]) /\ Report(e[1]) = n.snap /\ Reports' = [Reports EXCEPT ![e[1]] = S]
    BY <1>1, <1>2, <1>5, OneReport
<1>7. Owners' = Owners
    BY <1>1 DEF Owners, Owner
<1>8. Report(e[1]) # None
    BY <1>6, KnownReport
<1>9. Report(e[1]).st = "starting" /\ Reports' = [Reports EXCEPT ![e[1]] = Snap("running", "outcome_unknown", 1, Report(e[1]).pi)]
      /\ UNCHANGED <<proc, prompts, answer>>
    BY <1>1, <1>3, <1>4, <1>6
<1> QED BY <1>6, <1>7, <1>8, <1>9, AtGateAdvances

(* Snapshots with the same fields are the same. *)
LEMMA SameSnapshot ==
    ASSUME NEW s \in Snapshot, NEW t \in Snapshot, s.st = t.st, s.ex = t.ex, s.rev = t.rev, s.pi = t.pi
    PROVE  s = t
    BY DEF Snapshot, Snapshots

(* The snapshot of a turn that goes on, in the words of RunnerRuns. *)
LEMMA StartedSnap ==
    ASSUME NEW s \in Snapshot, NEW v \in 0 .. (MaxRev + 4)
    PROVE  Snap(s.st, "started", v, s.pi) = [s EXCEPT !.ex = "started", !.rev = v]
<1> DEFINE x == Snap(s.st, "started", v, s.pi)
           t == [s EXCEPT !.ex = "started", !.rev = v]
<1>1. x \in Snapshot /\ t \in Snapshot
    BY DEF Snapshot, Snapshots, Snap, ExecutionState
<1>2. x.st = s.st /\ x.ex = "started" /\ x.rev = v /\ x.pi = s.pi
    BY DEF Snap
<1>3. t.st = s.st /\ t.ex = "started" /\ t.rev = v /\ t.pi = s.pi
    BY DEF Snapshot, Snapshots
<1> HIDE DEF x, t
<1>4. x = t
    BY <1>1, <1>2, <1>3, SameSnapshot
<1> QED BY <1>4 DEF x, t

(* The return of the prompt's write and a frame of the agent advance the   *)
(* run.                                                                    *)
LEMMA TurnStepAdvances ==
    ASSUME RunnerInv, NEW e \in Entries, Written(e) \/ Progress(e)
    PROVE  Promise!Advance(e[1])
<1> DEFINE n == entry[e]
           r == e[1]
           S == [n.snap EXCEPT !.ex = "started", !.rev = n.snap.rev + 1]
<1>1. /\ Alive(e) /\ Going(n) /\ n.commit = None /\ n.pc \in Prompted /\ UNCHANGED <<proc, runs, prompts, answer>>
      /\ (n.snap.ex = "started" => n.snap.rev < MaxRev \/ Written(e))
    <2>1. At(e, Gated \cup Prompted)
        BY DEF Written, Progress, At, Prompted
    <2> QED BY <2>1, AtGate DEF Written, Progress, Step, At, Prompted, history
<1>2. /\ n \in Entry /\ ~Leaving(n) /\ Working(n, disk[r], prompts[r], answer[r]) /\ n.snap \in Snapshot
      /\ n.snap.pi \in 1 .. MaxProcs /\ n.snap.rev \in 0 .. (MaxRev + 4) /\ n.snap.rev <= MaxRev + 2
    BY <1>1, AtWork
<1>11. n.snap.rev + 1 \in 0 .. (MaxRev + 4)
    <2> HIDE DEF n
    <2> QED BY <1>2, RunAssumption
<1>3. /\ n.snap.st = "running" /\ prompts[r] = 1 /\ (n.pc = "turn" => n.snap.ex = "started")
      /\ (n.pc = "writing" => n.snap.ex = "outcome_unknown")
    BY <1>1, <1>2 DEF Working, Prompted
<1>4. n.snap.ex = "started" => n.snap.rev < MaxRev
    BY <1>1, <1>3 DEF Written, At
<1>5. entry'[e].snap = S /\ \A f \in Entries : f # e => entry'[f] = entry[f]
    <2>1. CASE Written(e)
        <3>1. entry' = [entry EXCEPT ![e].pc = "turn", ![e].snap = Snap(n.snap.st, "started", n.snap.rev + 1, n.snap.pi)]
            BY <2>1 DEF Written
        <3>2. Snap(n.snap.st, "started", n.snap.rev + 1, n.snap.pi) = S
            BY <1>2, <1>11, StartedSnap
        <3> HIDE DEF S
        <3> QED BY <1>2, <3>1, <3>2 DEF RunnerInv, RunnerTypeOK, Entry
    <2>2. CASE Progress(e)
        <3>1. entry' = [entry EXCEPT ![e] = [n EXCEPT !.snap.rev = n.snap.rev + 1]] /\ n.snap.ex = "started"
            BY <1>3, <2>2 DEF Progress, Step, At
        <3>2. [n EXCEPT !.snap.rev = n.snap.rev + 1].snap = S
            BY <1>2, <3>1 DEF Entry, Snapshot, Snapshots
        <3> HIDE DEF S
        <3> QED BY <1>2, <3>1, <3>2 DEF RunnerInv, RunnerTypeOK
    <2> QED BY <2>1, <2>2
<1> HIDE DEF S
<1>6. r \in Runs /\ Known(r) /\ Report(r) = n.snap /\ Reports' = [Reports EXCEPT ![r] = S]
    BY <1>1, <1>2, <1>5, OneReport
<1>7. Owners' = Owners
    <2>1. "may" \in {"before", "may", "terminal"} /\ "running" \in RunState /\ "started" \in ExecutionState
        BY DEF RunState, ExecutionState
    <2>2. disk' \in {disk, [disk EXCEPT ![e[1]] = Rec("may", "running", "started", entry[e].snap.pi)]}
        BY DEF Written, Progress, Step, Barrier
    <2> QED BY <1>1, <1>2, <2>1, <2>2, OwnerKept, OwnersKept
<1>8. Report(r) # None
    BY <1>6, KnownReport
<1>9. Reports' = [Reports EXCEPT ![r].ex = "started", ![r].rev = Report(r).rev + 1]
    <2>1. Reports[r] = n.snap /\ Reports = [q \in Runs |-> Reports[q]]
        BY <1>6 DEF Reports
    <2> HIDE DEF Reports, n
    <2> QED BY <1>2, <1>6, <2>1 DEF S, Snapshot, Snapshots
<1>10. /\ Report(r).st = "running" /\ prompts[r] > 0 /\ (Report(r).ex = "started" => Report(r).rev < MaxRev)
       /\ UNCHANGED <<proc, prompts, answer>>
    BY <1>1, <1>3, <1>4, <1>6
<1> HIDE DEF r
<1> QED BY <1>6, <1>7, <1>8, <1>9, <1>10, TurnAdvances DEF r

(* Handing over the prompt is RunnerRuns' only prompt. *)
LEMMA HandoffHandsOver ==
    ASSUME RunnerInv, NEW e \in Entries, Handoff(e)
    PROVE  Promise!HandOver(e[1])
<1> DEFINE n == entry[e]
           r == e[1]
<1>1. /\ Alive(e) /\ Going(n) /\ n.commit = None /\ n.pc = "handoff" /\ UNCHANGED <<proc, disk, runs, answer>>
      /\ prompts' = [prompts EXCEPT ![r] = prompts[r] + 1]
    <2>1. At(e, Gated \cup Prompted)
        BY DEF Handoff, At, Gated
    <2> QED BY <2>1, AtGate DEF Handoff, At
<1>2. n \in Entry /\ ~Leaving(n) /\ Working(n, disk[r], prompts[r], answer[r]) /\ r \in Runs
    BY <1>1, AtWork
<1>3. Known(r) /\ e = Of(r) /\ n.snap.pi = proc
    <2>1. Known(r) /\ e = Of(r)
        BY <1>1, <1>2, LiveEntry
    <2> QED BY <1>1, <1>2, <2>1 DEF RunnerInv, RunInv
<1>4. n.snap.st = "running" /\ prompts[r] = 0
    BY <1>1, <1>2 DEF Working, Gated
<1>5. Report(r) # None /\ Report(r).st = "running" /\ Owner(r) = proc
    BY <1>2, <1>3, <1>4, KnownReport
<1>6. prompts' = [prompts EXCEPT ![r] = 1]
    BY <1>1, <1>4
<1>7. \A f \in Entries : entry'[f].snap = entry[f].snap
    BY <1>2 DEF Handoff, RunnerInv, RunnerTypeOK, Entry
<1>8. \A q \in Runs : Owner(q)' = Owner(q)
    BY <1>1 DEF Owner
<1>9. Reports' = Reports /\ Owners' = Owners
    BY <1>1, <1>7, <1>8, SnapKept, OfKnown, OwnersKept DEF Reports
<1>10. UNCHANGED <<proc, answer>>
    BY <1>1
<1> HIDE DEF r
<1> QED BY <1>2, <1>4, <1>5, <1>6, <1>9, <1>10, PromptHandedOver DEF r

(* The agent's end of the turn is RunnerRuns' only answer. *)
LEMMA AnsweredReplies ==
    ASSUME RunnerInv, NEW e \in Entries, NEW o \in Definitive, Answered(e, o)
    PROVE  Promise!Reply(e[1], o)
<1> DEFINE n == entry[e]
           r == e[1]
<1>1. /\ Alive(e) /\ n.pc = "turn" /\ Commit(e, o, "completed", "none", n.cancel)
      /\ UNCHANGED <<proc, runs, prompts>> /\ answer' = [answer EXCEPT ![r] = o]
    BY DEF Answered, At
<1>2. Going(n) /\ n.commit = None
    BY <1>1 DEF Commit, IsTerminal, Going
<1>3. n \in Entry /\ ~Leaving(n) /\ Working(n, disk[r], prompts[r], answer[r]) /\ r \in Runs
    BY <1>1, <1>2, AtWork
<1>4. prompts[r] > 0 /\ answer[r] = "none"
    BY <1>1, <1>3 DEF Working, Prompted
<1>5. Known(r) /\ e = Of(r)
    BY <1>1, <1>3, LiveEntry
<1>6. Report(r) # None /\ Report(r).st \notin Terminal
    BY <1>2, <1>3, <1>5, KnownReport
<1>7. o \in Terminal /\ "completed" \in ExecutionState
    BY DEF Terminal, ExecutionState
<1>8. Reports' = Reports /\ Owners' = Owners
    BY <1>1, <1>7, CommitUnseen DEF Reports, Owners
<1>9. UNCHANGED <<proc, prompts>>
    BY <1>1
<1> HIDE DEF r
<1> QED BY <1>1, <1>3, <1>4, <1>6, <1>8, <1>9, AnswerArrives DEF r

(* Publishing the commit is the end of the run, a true one. *)
LEMMA PublishEndsRun ==
    ASSUME RunnerInv, NEW e \in Entries, Publish(e)
    PROVE  Promise!End(e[1])
<1> DEFINE r == e[1]
           n == entry[e]
           c == n.commit
           S == Snap(c.st, c.ex, n.snap.rev + 2, n.snap.pi)
           m == [n EXCEPT !.commit = None, !.snap = S]
<1>1. Alive(e) /\ c # None /\ UNCHANGED <<proc, disk, runs, prompts, answer>>
    BY DEF Publish, history
<1>2. /\ r \in Runs /\ Known(r) /\ e = Of(r) /\ n \in Entry /\ disk[r] \in Record
      /\ Stage(n, disk[r], prompts[r], answer[r]) /\ ~Leaving(n)
    BY <1>1, LiveEntry DEF Leaving
<1>3. /\ Going(n) /\ Ended(c, n, disk[r], prompts[r], answer[r]) /\ n.snap.rev <= MaxRev + 2
    BY <1>1, <1>2 DEF Stage
<1>4. c \in Outcome /\ c.st \in Terminal /\ c.ex \in ExecutionState /\ c.st \in RunState
    BY <1>1, <1>2, EntryParts DEF Outcome, RunState
<1>5. n.snap.rev + 2 \in 0 .. (MaxRev + 4) /\ n.snap.pi \in 1 .. MaxProcs
    <2>1. n.snap.rev \in 0 .. (MaxRev + 4)
        BY <1>2, EntryParts
    <2> HIDE DEF n
    <2> QED BY <1>2, <1>3, <2>1, EntryParts, RunAssumption
<1>6. S \in Snapshot /\ S.st = c.st /\ S.ex = c.ex /\ S.rev = n.snap.rev + 2 /\ S.pi = n.snap.pi
    BY <1>4, <1>5, SnapParts
<1>7. m \in Entry /\ m.snap = S
    <2> HIDE DEF S
    <2> QED BY <1>2, <1>6 DEF Entry
<1>8. entry' = [entry EXCEPT ![e] = m]
    <2>1. [entry EXCEPT ![e].commit = None, ![e].snap = S] = [entry EXCEPT ![e] = m]
        BY <1>2 DEF RunnerInv, RunnerTypeOK, Entry
    <2>2. entry' = Collected([entry EXCEPT ![e] = m], runs)
        BY <2>1 DEF Publish
    <2> HIDE DEF n, m
    <2> QED BY <1>2, <1>7, <2>2, NothingToCollect
<1> HIDE DEF m, S, c
<1>9. entry'[e].snap = S /\ \A f \in Entries : f # e => entry'[f] = entry[f]
    BY <1>7, <1>8 DEF RunnerInv, RunnerTypeOK
<1>10. Report(r) = n.snap /\ Reports' = [Reports EXCEPT ![r] = S]
    BY <1>1, <1>2, <1>9, OneReport
<1>11. Report(r) # None /\ Report(r).st \notin Terminal /\ Owner(r) = n.snap.pi
    BY <1>2, <1>3, <1>10, KnownReport
<1>12. S \in [st : Terminal, ex : ExecutionState, rev : {Report(r).rev + 2}, pi : {Owner(r)}]
    BY <1>4, <1>6, <1>10, <1>11 DEF Snapshot, Snapshots
<1>13. TrueReport(S, prompts[r], answer[r])
    BY <1>3, <1>6 DEF Ended, TrueReport
<1>14. Owners' = Owners
    BY <1>1 DEF Owners, Owner
<1>15. UNCHANGED <<proc, prompts, answer>>
    BY <1>1
<1> HIDE DEF r
<1> QED BY <1>2, <1>10, <1>11, <1>12, <1>13, <1>14, <1>15, RunEnded DEF r

(* A removal forgets ended runs and their records together. *)
LEMMA RemovalForgets ==
    ASSUME RunnerInv, ~RemovalFails, NEW R \in SUBSET Runs, R # {},
           \A r \in R : Known(r) /\ entry[Of(r)].old, Remove(R), UNCHANGED proc
    PROVE  Promise!Forget(R)
<1>1. /\ \A r \in Runs : disk'[r] = (IF r \in R THEN None ELSE disk[r]) /\ runs'[r] = (IF r \in R THEN 0 ELSE runs[r])
      /\ prompts' = [r \in Runs |-> IF r \in R THEN 0 ELSE prompts[r]]
      /\ answer' = [r \in Runs |-> IF r \in R THEN "none" ELSE answer[r]]
      /\ entry' = Collected(entry, runs')
    BY Removed
<1>2. ASSUME NEW r \in R PROVE Report(r) # None /\ Report(r).st \in Terminal
    <2>1. Stage(entry[Of(r)], disk[r], prompts[r], answer[r]) /\ Known(r) /\ entry[Of(r)].old
        BY OfKnown
    <2>2. ~Going(entry[Of(r)])
        BY <2>1 DEF Stage
    <2> QED BY <2>1, <2>2, KnownReport
<1>3. ASSUME NEW r \in Runs
      PROVE  Report(r)' = (IF r \in R THEN None ELSE Report(r)) /\ Owner(r)' = (IF r \in R THEN 0 ELSE Owner(r))
    <2>1. CASE r \in R
        BY <1>1, <2>1 DEF Report, Known, Owner
    <2>2. CASE r \notin R
        <3>1. disk'[r] = disk[r] /\ runs'[r] = runs[r]
            BY <1>1, <2>2
        <3>2. Known(r) => Of(r) \in Entries /\ entry'[Of(r)] = entry[Of(r)]
            <4> SUFFICES ASSUME Known(r) PROVE Of(r) \in Entries /\ entry'[Of(r)] = entry[Of(r)]
                OBVIOUS
            <4>1. Of(r) \in Entries /\ runs'[Of(r)[1]] = Of(r)[2]
                BY <3>1, OfKnown DEF Of
            <4> QED BY <1>1, <4>1 DEF Collected
        <3> QED BY <2>2, <3>1, <3>2 DEF Report, Known, Of, Owner
    <2> QED BY <2>1, <2>2
<1> QED BY <1>1, <1>2, <1>3, RunsForgotten

(* A run gets an entry. *)
LEMMA Inserted ==
    ASSUME RunnerInv, NEW r \in Runs, ~Known(r), NEW s \in Snapshot, NEW w \in WorkerPc, Insert(r, s, w)
    PROVE  Report(r) = None /\ Reports' = [Reports EXCEPT ![r] = s]
<1>1. PICK k \in 1 .. MaxEntries : /\ entry[<<r, k>>] = None /\ runs' = [runs EXCEPT ![r] = k]
                                   /\ entry' = [entry EXCEPT ![<<r, k>>] = NewEntry(s, w)]
    BY DEF Insert, FirstFree
<1>2. runs \in [Runs -> 0 .. MaxEntries] /\ entry \in [Entries -> Entry \cup {None}] /\ <<r, k>> \in Entries
    BY Slots DEF RunnerInv, RunnerTypeOK
<1>3. NewEntry(s, w).snap = s
    BY NewEntryParts
<1> DEFINE m == NewEntry(s, w)
<1> HIDE DEF m
<1>4. Report(r)' = s
    <2>1. runs'[r] = k /\ entry'[<<r, k>>] = m
        BY <1>1, <1>2 DEF m
    <2> QED BY <1>3, <2>1 DEF Report, Known, Of, m
<1>5. ASSUME NEW q \in Runs, q # r PROVE Report(q)' = Report(q)
    <2>1. runs'[q] = runs[q] /\ <<q, runs[q]>> # <<r, k>>
        BY <1>1, <1>2, <1>5
    <2>2. Known(q) => entry'[<<q, runs[q]>>] = entry[<<q, runs[q]>>]
        BY <1>1, <1>2, <2>1, OfKnown DEF Of
    <2> QED BY <2>1, <2>2 DEF Report, Known, Of
<1>6. Report(r) = None
    BY DEF Report
<1> QED BY <1>4, <1>5, <1>6 DEF Reports

(* A start that leaves the runs alone is not seen. *)
LEMMA QuietStartUnseen ==
    ASSUME UNCHANGED <<proc, disk, runs, entry, prompts, answer>>
    PROVE  Unseen
    BY DEF Unseen, Report, Known, Of, Owner

(* A start admits a run, admits it again over a record that says not       *)
(* started, leaves a record without a run, or is not seen.                 *)
LEMMA StartKeepsPromise ==
    ASSUME RunnerInv, NEW r \in Runs, NEW p \in 1 .. MaxProcs, Request(r, p)
    PROVE  Unseen \/ Promise!Admit(r) \/ Promise!Readmit(r) \/ Promise!Residue(r)
<1>1. RunInv(r) /\ disk \in [Runs -> Record \cup {None, Unreadable}] /\ proc \in 1 .. MaxProcs
    BY DEF RunnerInv, RunnerTypeOK
<1>2. CASE StartKnown(r) \/ StartRefused(r) \/ StartUnreadable(r, p)
    BY <1>2, QuietStartUnseen DEF StartKnown, StartRefused, StartUnreadable, history
<1>3. CASE StartRecorded(r, p)
    <2>1. /\ ~Known(r) /\ Readable(disk[r]) /\ Insert(r, RecordSnapshot(disk[r]), "none")
          /\ UNCHANGED <<proc, disk, prompts, answer>> /\ accepting # "no"
        BY <1>3 DEF StartRecorded, Admissible, Admitting, history
    <2>2. disk[r] \in Record /\ disk[r].st = "starting" /\ disk[r].ex = "not_started" /\ disk[r].pi \in 1 .. MaxProcs
        BY <1>1, <2>1, RecordParts DEF RunInv, Readable, Sound
    <2>3. RecordSnapshot(disk[r]) = Snap("starting", "not_started", 0, Owner(r)) /\ Owner(r) > 0
          /\ Owner(r) = disk[r].pi
        BY <2>1, <2>2 DEF RecordSnapshot, Owner, Readable
    <2>4. RecordSnapshot(disk[r]) \in Snapshot /\ "none" \in WorkerPc
        <3>1. "starting" \in RunState /\ "not_started" \in ExecutionState /\ 0 \in 0 .. (MaxRev + 4)
            BY RunAssumption DEF RunState, ExecutionState
        <3> QED BY <2>2, <3>1, SnapParts DEF RecordSnapshot, WorkerPc
    <2>5. Report(r) = None /\ Reports' = [Reports EXCEPT ![r] = RecordSnapshot(disk[r])]
        BY <2>1, <2>4, Inserted
    <2>6. Owners' = Owners /\ UNCHANGED <<proc, prompts, answer>>
        BY <2>1 DEF Owners, Owner
    <2> QED BY <2>3, <2>5, <2>6, RunReadmitted
<1>4. CASE StartNew(r, p)
    <2>1. /\ ~Known(r) /\ disk[r] = None /\ Insert(r, RecordSnapshot(FirstRecord), "setup")
          /\ disk' = [disk EXCEPT ![r] = FirstRecord] /\ UNCHANGED <<proc, prompts, answer>>
        BY <1>4 DEF StartNew, Admissible, history
    <2>2. RecordSnapshot(FirstRecord) = Snap("starting", "not_started", 0, proc)
        BY DEF RecordSnapshot, FirstRecord, Rec
    <2>3. RecordSnapshot(FirstRecord) \in Snapshot /\ "setup" \in WorkerPc
        <3>1. "starting" \in RunState /\ "not_started" \in ExecutionState /\ 0 \in 0 .. (MaxRev + 4)
            BY RunAssumption DEF RunState, ExecutionState
        <3> QED BY <1>1, <2>2, <3>1, SnapParts DEF WorkerPc
    <2>4. Report(r) = None /\ Reports' = [Reports EXCEPT ![r] = RecordSnapshot(FirstRecord)]
        BY <2>1, <2>3, Inserted
    <2>5. Owner(r) = 0 /\ Owners' = [Owners EXCEPT ![r] = proc]
        <3>1. FirstRecord \in Record /\ FirstRecord.pi = proc
            BY <2>1, NewRecord
        <3>2. \A q \in Runs : Owner(q)' = IF q = r THEN proc ELSE Owner(q)
            BY <1>1, <2>1, <3>1, Present DEF Owner
        <3> QED BY <2>1, <3>2 DEF Owners, Owner
    <2> QED BY <2>1, <2>2, <2>4, <2>5, RunAdmitted
<1>5. CASE StartWriteFails(r, p)
    <2>1. ~Known(r) /\ disk[r] = None /\ UNCHANGED <<proc, runs, entry, prompts, answer>>
        BY <1>5 DEF StartWriteFails, Admissible, history
    <2>2. PICK d \in {None, Unreadable, FirstRecord} : disk' = [disk EXCEPT ![r] = d]
        BY <1>5 DEF StartWriteFails
    <2>3. CASE d = None
        <3>1. disk' = disk
            BY <1>1, <2>1, <2>2, <2>3
        <3> QED BY <2>1, <3>1, QuietStartUnseen
    <2>4. CASE d # None
        <3>1. FirstRecord \in Record /\ FirstRecord.pi = proc
            BY <2>1, NewRecord
        <3> DEFINE w == IF d = Unreadable THEN -1 ELSE proc
        <3>2. \A q \in Runs : Owner(q)' = IF q = r THEN w ELSE Owner(q)
            BY <1>1, <2>2, <2>4, <3>1, Present DEF Owner
        <3>3. w \in {proc, -1} /\ Owner(r) = 0 /\ Report(r) = None
            BY <2>1 DEF Owner, Report
        <3> HIDE DEF w
        <3>4. Owners' = [Owners EXCEPT ![r] = w]
            BY <3>2 DEF Owners
        <3>5. Reports' = Reports /\ UNCHANGED <<proc, prompts, answer>>
            BY <2>1 DEF Reports, Report, Known, Of
        <3> QED BY <3>3, <3>4, <3>5, ResidueLeft
    <2> QED BY <2>3, <2>4
<1>6. CASE Cancel(r)
    BY <1>6, CancelKeepsPromise
<1> QED BY <1>2, <1>3, <1>4, <1>5, <1>6 DEF Request

(* A restart, whether its recovery succeeds or not, is one step of         *)
(* RunnerRuns: its runs end truly, or are unknown.                         *)
LEMMA RecoveryKeepsPromise ==
    ASSUME RunnerInv, Restart \/ RestartFails
    PROVE  Promise!NextProcess
<1>1. proc < MaxProcs /\ proc' = proc + 1 /\ UNCHANGED <<prompts, answer>>
    BY DEF Restart, RestartFails, NewProcess, history
<1>2. ASSUME NEW r \in Runs, disk[r] \notin {None, Unreadable}
      PROVE  LET d == Recovered(disk[r])
                 m == NewEntry(RecordSnapshot(d), "none")
             IN  /\ disk[r] \in Record /\ d \in Record /\ d.pi = disk[r].pi /\ d.st \in Terminal
                 /\ Sound(d, prompts[r], answer[r]) /\ m.snap = Snap(d.st, d.ex, 0, d.pi)
    <2>1. disk[r] \in Record /\ Sound(disk[r], prompts[r], answer[r])
        BY <1>2 DEF RunnerInv, RunnerTypeOK, RunInv
    <2> QED BY <2>1, RecoveredRecord, RecoveredEntry
<1>3. \A r \in Runs : disk'[r] = disk[r] \/ (disk[r] \notin {None, Unreadable} /\ disk'[r] = Recovered(disk[r]))
    BY DEF Restart, RestartFails, Readable
<1>4. \A r \in Runs : Owner(r)' = Owner(r)
    BY <1>2, <1>3, Present DEF Owner
<1>5. ASSUME NEW r \in Runs, Report(r)' # None
      PROVE  /\ Owner(r) > 0
             /\ Report(r)' \in [st : Terminal, ex : ExecutionState, rev : {0}, pi : {Owner(r)}]
             /\ TrueReport(Report(r)', prompts[r], answer[r])
    <2>1. Restart
        BY <1>5 DEF RestartFails, Report, Known
    <2>2. Readable(disk[r])
        BY <1>5, <2>1 DEF Restart, Report, Known
    <2> DEFINE d == Recovered(disk[r])
               m == NewEntry(RecordSnapshot(d), "none")
    <2>3. /\ disk[r] \in Record /\ d \in Record /\ d.pi = disk[r].pi /\ d.st \in Terminal
          /\ Sound(d, prompts[r], answer[r]) /\ m.snap = Snap(d.st, d.ex, 0, d.pi)
        BY <1>2, <2>2 DEF Readable
    <2>4. <<r, 1>> \in Entries
        BY Slots, RunAssumption
    <2>5. Report(r)' = m.snap
        BY <2>1, <2>2, <2>4 DEF Restart, Report, Known, Of
    <2> HIDE DEF m, d
    <2>6. Owner(r) = d.pi /\ d.pi \in 1 .. MaxProcs /\ d.ex \in ExecutionState
        BY <2>2, <2>3, RecordParts DEF Owner, Readable
    <2>7. TrueReport(d, prompts[r], answer[r])
        BY <2>3, Present DEF Sound
    <2> QED BY <2>3, <2>5, <2>6, <2>7 DEF Snap, TrueReport
<1>6. Owners' = Owners
    BY <1>4, OwnersKept
<1> QED BY <1>1, <1>5, <1>6, ProcessReplaced

(* Every step of the manager is a step of the promise, or is not seen. *)
LEMMA StepKeepsPromise ==
    ASSUME ~SweepRaces, ~RemovalFails, RunnerInv, [RunnerNext]_runnerVars
    PROVE  [Promise!RunsNext]_(Promise!runVars)
<1>1. CASE UNCHANGED runnerVars
    BY <1>1, QuietStartUnseen, UnseenStutters DEF runnerVars, history
<1>2. ASSUME NEW e \in Entries, Worker(e) \/ Progress(e) \/ Publish(e) \/ Age(e)
      PROVE  Unseen \/ Promise!RunsNext
    <2>1. e[1] \in Runs
        BY Slots
    <2>2. CASE EnterGate(e) \/ Written(e) \/ Progress(e)
        BY <2>1, <2>2, EnterGateAdvances, TurnStepAdvances DEF Promise!RunsNext
    <2>3. CASE Handoff(e)
        BY <2>1, <2>3, HandoffHandsOver DEF Promise!RunsNext
    <2>4. CASE \E o \in Definitive : Answered(e, o)
        BY <2>1, <2>4, AnsweredReplies DEF Promise!RunsNext
    <2>5. CASE Publish(e)
        BY <2>1, <2>5, PublishEndsRun DEF Promise!RunsNext
    <2> QED BY <1>2, <2>2, <2>3, <2>4, <2>5, WorkerKeepsPromise DEF Worker
<1>3. CASE SweepRemove
    <2>1. sweep \in SUBSET Runs /\ sweep # {} /\ \A r \in sweep : Known(r) /\ entry[Of(r)].old
          /\ Remove(sweep) /\ UNCHANGED proc
        BY <1>3 DEF SweepRemove, RunnerInv, RunnerTypeOK, RunInv
    <2> QED BY <2>1, RemovalForgets DEF Promise!RunsNext
<1>4. CASE StartCleans
    <2>1. Expired \in SUBSET Runs /\ Expired # {} /\ \A r \in Expired : Known(r) /\ entry[Of(r)].old
          /\ Remove(Expired) /\ UNCHANGED proc
        BY <1>4 DEF StartCleans, Expired
    <2> QED BY <2>1, RemovalForgets DEF Promise!RunsNext
<1>5. CASE SweepCollect \/ StopFlag \/ StopFence \/ StopDone
    BY <1>5, QuietStartUnseen, UnseenStutters DEF SweepCollect, StopFlag, StopFence, StopDone, history
<1>6. CASE \E r \in Runs : StopCancel(r)
    BY <1>6, CancelKeepsPromise, UnseenStutters
<1>7. CASE Restart \/ RestartFails
    BY <1>7, RecoveryKeepsPromise DEF Promise!RunsNext
<1>8. CASE \E r \in Runs, p \in 1 .. MaxProcs : Request(r, p)
    BY <1>8, StartKeepsPromise, UnseenStutters DEF Promise!RunsNext
<1> QED BY <1>1, <1>2, <1>3, <1>4, <1>5, <1>6, <1>7, <1>8, UnseenStutters DEF RunnerNext, RunnerStep

(* The manager keeps the promise that the Server builds on. *)
THEOREM RunnerKeepsPromise ==
    ASSUME ~SweepRaces, ~RemovalFails
    PROVE  RunnerSpec => KeepsPromise
<1>1. RunnerInit => Promise!RunsInit
    BY InitKeepsPromise
<1>2. RunnerInv /\ [RunnerNext]_runnerVars => [Promise!RunsNext]_(Promise!runVars)
    BY StepKeepsPromise
<1> QED BY <1>1, <1>2, RunnerInvariant, PTL DEF RunnerSpec, KeepsPromise, Promise!RunsSpec

(***************************************************************************)
(* Any Runner.  AnyRunnerInv (CodingAgentRun) supposes nothing for its     *)
(* types and stages, and only ~SweepRaces for the prompt and the answer of *)
(* a run: removals may fail here.                                          *)
(***************************************************************************)
(* What it says of an entry, on the map or not. *)
LEMMA AnyEntry ==
    ASSUME AnyRunnerInv, NEW e \in Entries, Alive(e)
    PROVE  /\ e[1] \in Runs /\ e[2] \in 1 .. MaxEntries /\ e = <<e[1], e[2]>>
           /\ entry[e] \in Entry /\ Staged(entry[e])
           /\ disk[e[1]] \in Record \cup {None, Unreadable} /\ (Readable(disk[e[1]]) => Filed(disk[e[1]]))
           /\ prompts[e[1]] \in Nat
           /\ ~SweepRaces /\ e[2] = runs[e[1]] =>
                 /\ Readable(disk[e[1]]) /\ disk[e[1]] \in Record
                 /\ Fits(entry[e], disk[e[1]], prompts[e[1]]) /\ prompts[e[1]] \in {0, 1}
           /\ ~SweepRaces /\ e[2] # runs[e[1]] => Leaving(entry[e])
<1>1. e[1] \in Runs /\ e[2] \in 1 .. MaxEntries /\ e = <<e[1], e[2]>>
    BY Slots
<1>2. /\ entry[e] \in Entry /\ Staged(entry[e])
      /\ disk[e[1]] \in Record \cup {None, Unreadable} /\ (Readable(disk[e[1]]) => Filed(disk[e[1]]))
      /\ prompts[e[1]] \in Nat
    BY <1>1 DEF AnyRunnerInv, RunnerTypeOK, Alive
<1>3. ASSUME ~SweepRaces, e[2] = runs[e[1]]
      PROVE  /\ Readable(disk[e[1]]) /\ disk[e[1]] \in Record
             /\ Fits(entry[e], disk[e[1]], prompts[e[1]]) /\ prompts[e[1]] \in {0, 1}
    <2>1. Known(e[1]) /\ Of(e[1]) = e
        BY <1>1, <1>3 DEF Known, Of
    <2> QED BY <1>1, <1>2, <1>3, <2>1 DEF AnyRunnerInv, Retained, Readable
<1>4. ASSUME ~SweepRaces, e[2] # runs[e[1]] PROVE Leaving(entry[e])
    <2>1. Alive(<<e[1], e[2]>>) => Leaving(entry[<<e[1], e[2]>>])
        BY <1>1, <1>4 DEF AnyRunnerInv, Retained
    <2> QED BY <1>1, <2>1
<1> QED BY <1>1, <1>2, <1>3, <1>4

(* What Collected leaves of the entries. *)
LEMMA Collecting ==
    \A ents \in [Entries -> Entry \cup {None}], map \in [Runs -> 0 .. MaxEntries] :
        /\ Collected(ents, map) \in [Entries -> Entry \cup {None}]
        /\ \A e \in Entries :
              /\ Collected(ents, map)[e] \in {None, ents[e]}
              /\ map[e[1]] = e[2] => Collected(ents, map)[e] = ents[e]
              /\ Collected(ents, map)[e] # None /\ map[e[1]] # e[2] => ents[e].pc # "none" \/ ents[e].commit # None
    BY DEF Collected

(* The run of e may go on with entry m, record d and p prompts. *)
Follow(e, m, d, p) ==
    ~SweepRaces =>
       /\ e[2] = runs[e[1]] =>
             /\ p \in {0, 1} /\ Readable(d) /\ Fits(m, d, p)
             /\ Going(m) => Going(entry[e])
             /\ entry[e].cancel => m.cancel
             /\ entry[e].old => m.old
       /\ e[2] # runs[e[1]] =>
             d = disk[e[1]] /\ p = prompts[e[1]] /\ (entry'[e] = None \/ Leaving(m))

(* One entry moves, and with it the record and the prompts of its run. *)
LEMMA EntryMoves ==
    ASSUME AnyRunnerInv, NEW e \in Entries, Alive(e), NEW m \in Entry, Staged(m),
           NEW d \in Record \cup {None, Unreadable}, Readable(d) => Filed(d), NEW p \in Nat,
           \/ entry' = [entry EXCEPT ![e] = m]
           \/ entry' = Collected([entry EXCEPT ![e] = m], runs),
           disk' = [disk EXCEPT ![e[1]] = d], prompts' = [prompts EXCEPT ![e[1]] = p],
           answer' \in [Runs -> {"none"} \cup Definitive],
           UNCHANGED <<proc, accepting, runs, sweep>>,
           Follow(e, m, d, p)
    PROVE  AnyRunnerInv'
<1>0. e[1] \in Runs /\ e[2] \in 1 .. MaxEntries /\ e = <<e[1], e[2]>>
    BY Slots
<1>1. RunnerTypeOK
    BY DEF AnyRunnerInv
<1>2. /\ entry' \in [Entries -> Entry \cup {None}]
      /\ entry'[e] \in {None, m} /\ (e[2] = runs[e[1]] => entry'[e] = m)
      /\ \A f \in Entries : f # e => entry'[f] \in {None, entry[f]} /\ (f[2] = runs[f[1]] => entry'[f] = entry[f])
    <2> DEFINE ents == [entry EXCEPT ![e] = m]
    <2>1. ents \in [Entries -> Entry \cup {None}] /\ ents[e] = m /\ \A f \in Entries : f # e => ents[f] = entry[f]
        BY <1>1 DEF RunnerTypeOK
    <2>2. entry' = ents \/ entry' = Collected(ents, runs)
        OBVIOUS
    <2>3. runs \in [Runs -> 0 .. MaxEntries]
        BY <1>1 DEF RunnerTypeOK
    <2> HIDE DEF ents
    <2> QED BY <2>1, <2>2, <2>3, Collecting
<1>3. RunnerTypeOK'
    BY <1>1, <1>2 DEF RunnerTypeOK
<1>4. \A f \in Entries : Alive(f)' => Staged(entry'[f])
    BY <1>2 DEF AnyRunnerInv, Alive
<1>5. \A r \in Runs : Readable(disk'[r]) => Filed(disk'[r])
    BY <1>1 DEF AnyRunnerInv, RunnerTypeOK
<1>6. ASSUME ~SweepRaces, NEW q \in Runs PROVE Retained(q)'
    <2>1. Retained(q) /\ runs[q] \in 0 .. MaxEntries
        BY <1>1, <1>6 DEF AnyRunnerInv, RunnerTypeOK
    <2>2. Known(q)' = Known(q) /\ Of(q)' = Of(q)
        BY DEF Known, Of
    <2>3. ASSUME NEW k \in 1 .. MaxEntries, Alive(<<q, k>>)', k # runs[q]
          PROVE  Leaving(entry'[<<q, k>>])
        <3>1. <<q, k>> \in Entries
            BY Slots
        <3>2. CASE <<q, k>> = e
            BY <1>2, <1>6, <2>3, <3>2 DEF Follow, Alive
        <3>3. CASE <<q, k>> # e
            BY <1>2, <2>1, <2>3, <3>1, <3>3 DEF Alive, Retained
        <3> QED BY <3>2, <3>3
    <2>4. Of(q) # e /\ Known(q) => entry'[Of(q)] = entry[Of(q)] /\ Of(q) \in Entries
        <3>1. Known(q) => Of(q) \in Entries /\ Of(q)[1] = q /\ Of(q)[2] = runs[q]
            BY <2>1, Slots DEF Known, Of
        <3> QED BY <1>2, <3>1
    <2>5. CASE e[1] = q /\ e[2] = runs[q]
        <3>1. Known(q) /\ Of(q) = e /\ entry'[e] = m /\ disk'[q] = d /\ prompts'[q] = p
            BY <1>0, <1>1, <1>2, <2>5 DEF Known, Of, RunnerTypeOK
        <3>2. /\ p \in {0, 1} /\ Readable(d) /\ Fits(m, d, p) /\ (Going(m) => Going(entry[e]))
              /\ (entry[e].cancel => m.cancel) /\ (entry[e].old => m.old)
            BY <1>6, <2>5 DEF Follow
        <3>3. m # None /\ d # None
            BY <3>2, Present DEF Readable
        <3> QED BY <2>1, <2>2, <2>3, <3>1, <3>2, <3>3 DEF Retained, Alive
    <2>6. CASE ~(e[1] = q /\ e[2] = runs[q])
        <3>1. Known(q) => entry'[Of(q)] = entry[Of(q)]
            BY <1>0, <2>4, <2>6 DEF Of
        <3>2. disk'[q] = disk[q] /\ prompts'[q] = prompts[q]
            BY <1>0, <1>1, <1>6, <2>6 DEF Follow, RunnerTypeOK
        <3> QED BY <2>1, <2>2, <2>3, <3>1, <3>2 DEF Retained, Alive
    <2> QED BY <2>5, <2>6
<1> QED BY <1>3, <1>4, <1>5, <1>6 DEF AnyRunnerInv

(* An entry moves, and nothing else does. *)
LEMMA AloneMoves ==
    ASSUME AnyRunnerInv, NEW e \in Entries, Alive(e), NEW m \in Entry, Staged(m),
           \/ entry' = [entry EXCEPT ![e] = m]
           \/ entry' = Collected([entry EXCEPT ![e] = m], runs),
           UNCHANGED <<proc, accepting, disk, runs, sweep, prompts, answer>>,
           ~SweepRaces /\ e[2] = runs[e[1]] =>
              /\ Fits(m, disk[e[1]], prompts[e[1]]) /\ (Going(m) => Going(entry[e]))
              /\ (entry[e].cancel => m.cancel) /\ (entry[e].old => m.old),
           ~SweepRaces /\ e[2] # runs[e[1]] => entry'[e] = None \/ Leaving(m)
    PROVE  AnyRunnerInv'
<1>1. /\ e[1] \in Runs /\ disk[e[1]] \in Record \cup {None, Unreadable}
      /\ (Readable(disk[e[1]]) => Filed(disk[e[1]])) /\ prompts[e[1]] \in Nat
      /\ ~SweepRaces /\ e[2] = runs[e[1]] => Readable(disk[e[1]]) /\ prompts[e[1]] \in {0, 1}
    BY AnyEntry
<1>2. disk' = [disk EXCEPT ![e[1]] = disk[e[1]]] /\ prompts' = [prompts EXCEPT ![e[1]] = prompts[e[1]]]
      /\ answer' \in [Runs -> {"none"} \cup Definitive]
    BY <1>1 DEF AnyRunnerInv, RunnerTypeOK
<1>3. Follow(e, m, disk[e[1]], prompts[e[1]])
    BY <1>1 DEF Follow
<1> QED BY <1>1, <1>2, <1>3, EntryMoves

(* A commit begins: at a stage that goes on, whether it is written or not. *)
LEMMA AnyCommit ==
    ASSUME AnyRunnerInv, NEW e \in Entries, NEW st \in Terminal, NEW ex \in ExecutionState,
           NEW w \in {"none", "setup"}, NEW cn \in BOOLEAN, Commit(e, st, ex, w, cn), entry[e].cancel => cn,
           UNCHANGED <<proc, accepting, runs, sweep, prompts>>,
           answer' \in [Runs -> {"none"} \cup Definitive]
    PROVE  AnyRunnerInv'
<1> DEFINE r == e[1]
           n == entry[e]
           W == Rec("terminal", st, ex, n.snap.pi)
<1>1. Alive(e) /\ Going(n) /\ n.commit = None
    BY DEF Commit, IsTerminal, Going
<1>2. /\ r \in Runs /\ n \in Entry /\ Staged(n) /\ disk[r] \in Record \cup {None, Unreadable}
      /\ (Readable(disk[r]) => Filed(disk[r])) /\ prompts[r] \in Nat
      /\ ~SweepRaces /\ e[2] = runs[r] =>
            Readable(disk[r]) /\ Fits(n, disk[r], prompts[r]) /\ prompts[r] \in {0, 1}
      /\ ~SweepRaces => e[2] = runs[r]
    BY <1>1, AnyEntry DEF Leaving
<1>3. /\ n.snap.pi \in 1 .. MaxProcs /\ ~n.old /\ n.snap.ex # "completed" /\ n.snap.rev <= MaxRev + 2
      /\ n.snap \in Snapshot /\ n.old \in BOOLEAN
    BY <1>1, <1>2, EntryParts DEF Staged
<1>4. disk \in [Runs -> Record \cup {None, Unreadable}] /\ entry \in [Entries -> Entry \cup {None}]
      /\ prompts \in [Runs -> Nat]
    BY DEF AnyRunnerInv, RunnerTypeOK
<1>5. PICK c, f :
        /\ \/ f = W /\ c = Out(st, ex)
           \/ f \in {disk[r], W} /\ c = Uncertain(st, ex)
        /\ disk' = [disk EXCEPT ![r] = f]
        /\ entry' = [entry EXCEPT ![e].commit = c, ![e].pc = w, ![e].cancel = cn]
    <2>1. CASE disk' = disk
        <3>1. disk' = [disk EXCEPT ![r] = disk[r]]
            BY <1>2, <1>4, <2>1
        <3> QED BY <2>1, <3>1 DEF Commit
    <2>2. CASE disk' # disk
        BY <2>2 DEF Commit
    <2> QED BY <2>1, <2>2
<1>6. W \in Record /\ W.phase = "terminal" /\ W.st = st /\ W.ex = ex /\ W.pi = n.snap.pi
      /\ Filed(W) /\ Readable(W)
    <2>1. st \in RunState
        BY DEF RunState
    <2> QED BY <1>3, <2>1, RecParts, Present DEF Filed
<1>7. /\ c \in Outcome /\ c # None /\ (c.ex = "completed" => f = Rec("terminal", c.st, "completed", n.snap.pi))
      /\ f \in Record \cup {None, Unreadable} /\ (Readable(f) => Filed(f))
      /\ (Readable(disk[r]) => Readable(f))
      /\ (disk[r].pi = n.snap.pi => f.pi = n.snap.pi)
    <2>1. Out(st, ex) \in Outcome /\ Out(st, ex).st = st /\ Out(st, ex).ex = ex
        BY OutParts
    <2>2. Uncertain(st, ex) \in Outcome /\ Uncertain(st, ex).ex # "completed"
        <3>1. /\ "failed" \in Terminal /\ "lost" \in Terminal
              /\ "not_started" \in ExecutionState /\ "outcome_unknown" \in ExecutionState
            BY DEF Terminal, Definitive, ExecutionState
        <3> QED BY <3>1, OutParts DEF Uncertain
    <2> HIDE DEF n
    <2> QED BY <1>2, <1>5, <1>6, <2>1, <2>2, Present
<1> DEFINE m == [n EXCEPT !.commit = c, !.pc = w, !.cancel = cn]
<1>8. entry' = [entry EXCEPT ![e] = m]
    BY <1>2, <1>4, <1>5 DEF Entry
<1>9. m \in Entry /\ m.snap = n.snap /\ m.commit = c /\ m.pc = w /\ m.cancel = cn /\ m.old = n.old
    BY <1>2, <1>7 DEF Entry, WorkerPc
<1> HIDE DEF m
<1>10. Staged(m) /\ Going(m)
    BY <1>1, <1>3, <1>7, <1>9 DEF Staged, Going, Gated, Prompted
<1>11. ~SweepRaces => Fits(m, f, prompts[r]) /\ Readable(f)
    <2> HIDE DEF W
    <2> QED BY <1>2, <1>3, <1>7, <1>9 DEF Fits, Awaiting
<1>12. Follow(e, m, f, prompts[r])
    BY <1>1, <1>2, <1>3, <1>9, <1>10, <1>11 DEF Follow
<1>13. prompts' = [prompts EXCEPT ![r] = prompts[r]] /\ disk' = [disk EXCEPT ![r] = f]
    BY <1>2, <1>4, <1>5
<1> HIDE DEF n
<1> QED BY <1>1, <1>2, <1>7, <1>8, <1>9, <1>10, <1>12, <1>13, EntryMoves

(* The ends that a worker commits. *)
LEMMA AnyWorkerCommits ==
    ASSUME AnyRunnerInv, NEW e \in Entries,
           \/ SetupFails(e) \/ Interrupted(e) \/ TurnLost(e) \/ \E o \in Definitive : Answered(e, o)
    PROVE  AnyRunnerInv'
<1>1. /\ "failed" \in Terminal /\ "cancelled" \in Terminal /\ "lost" \in Terminal
      /\ "not_started" \in ExecutionState /\ "outcome_unknown" \in ExecutionState /\ "completed" \in ExecutionState
      /\ \A o \in Definitive : o \in Terminal
    BY DEF Terminal, Definitive, ExecutionState
<1>2. Alive(e) /\ entry[e].cancel \in BOOLEAN
    <2>1. Alive(e)
        BY DEF SetupFails, Interrupted, TurnLost, Answered, At
    <2> QED BY <2>1, AnyEntry, EntryParts
<1>3. UNCHANGED <<proc, accepting, runs, sweep, prompts>>
    BY DEF SetupFails, Interrupted, TurnLost, Answered, history
<1>4. answer' \in [Runs -> {"none"} \cup Definitive]
    <2>1. answer \in [Runs -> {"none"} \cup Definitive]
        BY DEF AnyRunnerInv, RunnerTypeOK
    <2> QED BY <2>1 DEF SetupFails, Interrupted, TurnLost, Answered, history
<1>5. CASE SetupFails(e)
    BY <1>1, <1>2, <1>3, <1>4, <1>5, AnyCommit DEF SetupFails
<1>6. CASE Interrupted(e)
    BY <1>1, <1>2, <1>3, <1>4, <1>6, AnyCommit DEF Interrupted
<1>7. CASE TurnLost(e)
    BY <1>1, <1>2, <1>3, <1>4, <1>7, AnyCommit DEF TurnLost
<1>8. ASSUME NEW o \in Definitive, Answered(e, o) PROVE AnyRunnerInv'
    BY <1>1, <1>2, <1>3, <1>4, <1>8, AnyCommit DEF Answered
<1> QED BY <1>5, <1>6, <1>7, <1>8

(* publish_terminal. *)
LEMMA AnyPublish ==
    ASSUME AnyRunnerInv, NEW e \in Entries, Publish(e)
    PROVE  AnyRunnerInv'
<1> DEFINE n == entry[e]
           c == n.commit
           S == Snap(c.st, c.ex, n.snap.rev + 2, n.snap.pi)
           m == [n EXCEPT !.commit = None, !.snap = S]
<1>1. Alive(e) /\ c # None /\ UNCHANGED <<proc, accepting, disk, runs, sweep, prompts, answer>>
    BY DEF Publish, history
<1>2. n \in Entry /\ Staged(n)
      /\ (~SweepRaces /\ e[2] = runs[e[1]] => Fits(n, disk[e[1]], prompts[e[1]]))
      /\ (~SweepRaces => e[2] = runs[e[1]])
    BY <1>1, AnyEntry DEF Leaving
<1>3. Going(n) /\ n.snap.rev <= MaxRev + 2 /\ n.pc \notin Gated \cup Prompted /\ ~n.old
    BY <1>1, <1>2 DEF Staged
<1>4. c \in Outcome /\ c.st \in Terminal /\ c.ex \in ExecutionState /\ c.st \in RunState
    BY <1>1, <1>2, EntryParts DEF Outcome, RunState
<1>5. /\ n.snap.rev + 2 \in 0 .. (MaxRev + 4) /\ n.snap.pi \in 1 .. MaxProcs
      /\ n.pc \in WorkerPc /\ n.cancel \in BOOLEAN /\ n.old \in BOOLEAN
    <2>1. n.snap.rev \in 0 .. (MaxRev + 4)
        BY <1>2, EntryParts
    <2> HIDE DEF n
    <2> QED BY <1>2, <1>3, <2>1, EntryParts, RunAssumption
<1>6. S \in Snapshot /\ S.st = c.st /\ S.ex = c.ex /\ S.pi = n.snap.pi
    BY <1>4, <1>5, SnapParts
<1>7. m \in Entry /\ m.snap = S /\ m.commit = None /\ m.pc = n.pc /\ m.cancel = n.cancel /\ m.old = n.old
    <2> HIDE DEF S
    <2> QED BY <1>2, <1>6 DEF Entry
<1>8. entry' = Collected([entry EXCEPT ![e] = m], runs)
    <2>1. [entry EXCEPT ![e].commit = None, ![e].snap = S] = [entry EXCEPT ![e] = m]
        BY <1>2 DEF AnyRunnerInv, RunnerTypeOK, Entry
    <2> QED BY <2>1 DEF Publish
<1> HIDE DEF m, S
<1>9. ~Going(m) /\ Staged(m)
    BY <1>3, <1>4, <1>6, <1>7 DEF Going, Staged, Gated, Prompted
<1>10. ~SweepRaces => Fits(m, disk[e[1]], prompts[e[1]])
    BY <1>1, <1>2, <1>6, <1>7, <1>9 DEF Fits, Awaiting
<1> HIDE DEF n
<1> QED BY <1>1, <1>2, <1>3, <1>7, <1>8, <1>9, <1>10, AloneMoves DEF n

(* The entry of an ended run passes its retention period. *)
LEMMA AnyAge ==
    ASSUME AnyRunnerInv, NEW e \in Entries, Age(e)
    PROVE  AnyRunnerInv'
<1> DEFINE n == entry[e]
           m == [n EXCEPT !.old = TRUE]
<1>1. Alive(e) /\ ~Going(n) /\ entry' = [entry EXCEPT ![e].old = TRUE]
      /\ UNCHANGED <<proc, accepting, disk, runs, sweep, prompts, answer>>
    BY DEF Age, IsTerminal, Going, history
<1>2. /\ n \in Entry /\ Staged(n)
      /\ ~SweepRaces /\ e[2] = runs[e[1]] => Fits(n, disk[e[1]], prompts[e[1]])
      /\ ~SweepRaces /\ e[2] # runs[e[1]] => Leaving(n)
    BY <1>1, AnyEntry
<1>3. /\ m \in Entry /\ m.snap = n.snap /\ m.commit = n.commit /\ m.pc = n.pc /\ m.cancel = n.cancel
      /\ m.old = TRUE
    BY <1>2 DEF Entry
<1>4. entry' = [entry EXCEPT ![e] = m]
    BY <1>1, <1>2 DEF AnyRunnerInv, RunnerTypeOK, Entry
<1> HIDE DEF m
<1>5. ~Going(m) /\ Staged(m) /\ (Leaving(n) => Leaving(m))
    BY <1>1, <1>2, <1>3 DEF Going, Staged, Leaving
<1>6. \A d, p : Fits(n, d, p) => Fits(m, d, p)
    BY <1>1, <1>3, <1>5 DEF Fits, Awaiting
<1> HIDE DEF n
<1> QED BY <1>1, <1>2, <1>3, <1>4, <1>5, <1>6, AloneMoves DEF n

(* A worker whose run has ended returns. *)
LEMMA AnyWorkerLeaves ==
    ASSUME AnyRunnerInv, NEW e \in Entries, WorkerLeaves(e)
    PROVE  AnyRunnerInv'
<1> DEFINE n == entry[e]
           m == [n EXCEPT !.pc = "none"]
<1>1. /\ Alive(e) /\ ~Going(n) /\ n.commit = None /\ n.pc = "setup"
      /\ UNCHANGED <<proc, accepting, disk, runs, sweep, prompts, answer>>
    BY DEF WorkerLeaves, At, IsTerminal, Going, history
<1>2. /\ n \in Entry /\ Staged(n) /\ e[1] \in Runs
      /\ ~SweepRaces /\ e[2] = runs[e[1]] => Fits(n, disk[e[1]], prompts[e[1]])
    BY <1>1, AnyEntry
<1>3. /\ m \in Entry /\ m.snap = n.snap /\ m.commit = None /\ m.pc = "none" /\ m.cancel = n.cancel
      /\ m.old = n.old
    BY <1>1, <1>2 DEF Entry, WorkerPc
<1>4. entry \in [Entries -> Entry \cup {None}] /\ runs \in [Runs -> 0 .. MaxEntries]
    BY DEF AnyRunnerInv, RunnerTypeOK
<1>5. entry' = Collected([entry EXCEPT ![e] = m], runs)
    <2>1. [entry EXCEPT ![e].pc = "none"] = [entry EXCEPT ![e] = m]
        BY <1>2, <1>4 DEF Entry
    <2> QED BY <2>1 DEF WorkerLeaves
<1> HIDE DEF m
<1>6. e[2] # runs[e[1]] => entry'[e] = None
    <2> DEFINE ents == [entry EXCEPT ![e] = m]
    <2>1. ents \in [Entries -> Entry \cup {None}] /\ ents[e] = m
        BY <1>3, <1>4
    <2>2. entry' = Collected(ents, runs)
        BY <1>5
    <2> HIDE DEF ents
    <2> QED BY <1>3, <1>4, <2>1, <2>2, Collecting
<1>7. ~Going(m) /\ Staged(m)
    BY <1>1, <1>2, <1>3 DEF Going, Staged, Gated, Prompted
<1>8. \A d, p : Fits(n, d, p) => Fits(m, d, p)
    BY <1>1, <1>3, <1>7 DEF Fits, Awaiting
<1> HIDE DEF n
<1> QED BY <1>1, <1>2, <1>3, <1>5, <1>6, <1>7, <1>8, AloneMoves DEF n

(* The worker passes its setup and enters the prompt gate. *)
LEMMA AnyEnterGate ==
    ASSUME AnyRunnerInv, NEW e \in Entries, EnterGate(e)
    PROVE  AnyRunnerInv'
<1> DEFINE n == entry[e]
           S == Snap("running", "outcome_unknown", n.snap.rev + 1, n.snap.pi)
           m == [n EXCEPT !.pc = "persist", !.snap = S]
<1>1. /\ Alive(e) /\ Going(n) /\ n.commit = None /\ n.pc = "setup" /\ ~n.cancel
      /\ UNCHANGED <<proc, accepting, disk, runs, sweep, prompts, answer>>
      /\ entry' = [entry EXCEPT ![e] = m]
    BY DEF EnterGate, At, Step, IsTerminal, Going, history
<1>2. /\ n \in Entry /\ Staged(n)
      /\ (~SweepRaces /\ e[2] = runs[e[1]] => Fits(n, disk[e[1]], prompts[e[1]]))
      /\ (~SweepRaces => e[2] = runs[e[1]])
    BY <1>1, AnyEntry DEF Leaving
<1>3. n.snap.rev = 0 /\ n.snap.pi \in 1 .. MaxProcs /\ ~n.old
    BY <1>1, <1>2, EntryParts DEF Staged
<1>4. S \in Snapshot /\ S.st = "running" /\ S.ex = "outcome_unknown" /\ S.rev = 1 /\ S.pi = n.snap.pi
    <2>1. n.snap.rev + 1 \in 0 .. (MaxRev + 4) /\ n.snap.rev + 1 = 1
        BY <1>3, RunAssumption
    <2>2. "running" \in RunState /\ "outcome_unknown" \in ExecutionState
        BY DEF RunState, ExecutionState
    <2> HIDE DEF n
    <2> QED BY <1>3, <2>1, <2>2, SnapParts
<1>5. m \in Entry /\ m.snap = S /\ m.pc = "persist" /\ m.commit = None /\ m.old = n.old /\ m.cancel = n.cancel
    <2> HIDE DEF S
    <2> QED BY <1>1, <1>2, <1>4 DEF Entry, WorkerPc, Gated
<1> HIDE DEF m, S
<1>6. Going(m) /\ Staged(m)
    BY <1>1, <1>3, <1>4, <1>5, RunAssumption DEF Going, Staged, Gated, Prompted, Terminal, Definitive
<1>7. \A d, p : Fits(n, d, p) => Fits(m, d, p)
    BY <1>1, <1>4, <1>5 DEF Fits, Awaiting
<1> HIDE DEF n
<1> QED BY <1>1, <1>2, <1>5, <1>6, <1>7, AloneMoves DEF n

(* A worker behind the gate works on a run of the map that goes on. *)
LEMMA AnyAtGate ==
    ASSUME AnyRunnerInv, NEW e \in Entries, At(e, Gated \cup Prompted)
    PROVE  /\ Alive(e) /\ Going(entry[e]) /\ entry[e].commit = None /\ ~entry[e].old
           /\ entry[e].cancel => entry[e].pc \in Prompted
           /\ entry[e].snap.ex # "completed" /\ entry[e].snap.rev <= MaxRev + 2
           /\ entry[e].pc \in Gated \cup {"writing"} => entry[e].snap.rev = 1
           /\ entry[e] \in Entry /\ e[1] \in Runs /\ e = <<e[1], e[2]>>
           /\ disk[e[1]] \in Record \cup {None, Unreadable} /\ (Readable(disk[e[1]]) => Filed(disk[e[1]]))
           /\ prompts[e[1]] \in Nat
           /\ ~SweepRaces =>
                 /\ e[2] = runs[e[1]] /\ Readable(disk[e[1]])
                 /\ Fits(entry[e], disk[e[1]], prompts[e[1]]) /\ prompts[e[1]] \in {0, 1}
<1>1. Alive(e) /\ entry[e].commit = None /\ entry[e].pc \in Gated \cup Prompted
    BY DEF At
<1>2. Staged(entry[e])
    BY <1>1, AnyEntry
<1>3. Going(entry[e])
    BY <1>1, <1>2 DEF Staged
<1>4. ~Leaving(entry[e])
    BY <1>3 DEF Leaving
<1> QED BY <1>1, <1>2, <1>3, <1>4, AnyEntry DEF Staged

(* A worker goes on behind the gate; its record is the barrier, or as it was. *)
LEMMA AnyGateMoves ==
    ASSUME AnyRunnerInv, NEW e \in Entries, At(e, Gated \cup Prompted),
           NEW m \in Entry, m.commit = None, m.pc \in Gated \cup Prompted,
           m.snap.pi = entry[e].snap.pi, m.snap.ex # "completed", Going(m),
           m.snap.rev <= MaxRev + 2, m.pc \in Gated \cup {"writing"} => m.snap.rev = 1,
           m.old = entry[e].old, entry[e].cancel => m.cancel, m.cancel => m.pc \in Prompted,
           entry[e].pc \in Prompted => m.pc \in Prompted,
           NEW ex \in {"outcome_unknown", "started"}, disk' = disk \/ disk' = Barrier(e, ex),
           NEW p \in Nat, prompts' = [prompts EXCEPT ![e[1]] = p],
           p = prompts[e[1]] \/ (p = prompts[e[1]] + 1 /\ entry[e].pc \in Gated /\ m.pc \in Prompted),
           entry' = [entry EXCEPT ![e] = m], UNCHANGED <<proc, accepting, runs, sweep, answer>>
    PROVE  AnyRunnerInv'
<1> DEFINE n == entry[e]
           r == e[1]
           B == Rec("may", "running", ex, n.snap.pi)
<1>1. /\ Alive(e) /\ Going(n) /\ n.commit = None /\ n \in Entry /\ r \in Runs
      /\ disk[r] \in Record \cup {None, Unreadable} /\ (Readable(disk[r]) => Filed(disk[r]))
      /\ ~SweepRaces => /\ e[2] = runs[r] /\ Readable(disk[r])
                        /\ Fits(n, disk[r], prompts[r]) /\ prompts[r] \in {0, 1}
      /\ n.pc \in Gated \cup Prompted /\ ~n.old
    BY AnyAtGate DEF At
<1>2. n.snap.pi \in 1 .. MaxProcs
    BY <1>1, EntryParts
<1>3. B \in Record /\ Filed(B) /\ Readable(B) /\ B.pi = n.snap.pi
    BY <1>2, RecParts, Present DEF RunState, ExecutionState, Filed, Terminal, Definitive
<1>4. disk \in [Runs -> Record \cup {None, Unreadable}] /\ answer' \in [Runs -> {"none"} \cup Definitive]
    BY DEF AnyRunnerInv, RunnerTypeOK
<1>5. PICK f \in {disk[r], B} : disk' = [disk EXCEPT ![r] = f]
    <2>1. disk = [disk EXCEPT ![r] = disk[r]]
        BY <1>1, <1>4
    <2>2. disk' = disk \/ disk' = [disk EXCEPT ![r] = B]
        BY DEF Barrier
    <2> QED BY <2>1, <2>2, Zenon
<1>6. f \in Record \cup {None, Unreadable} /\ (Readable(f) => Filed(f))
    BY <1>1, <1>3, <1>5
<1>7. Staged(m)
    BY <1>1 DEF Staged, Gated, Prompted
<1>8. ASSUME ~SweepRaces PROVE p \in {0, 1} /\ Readable(f) /\ Fits(m, f, p)
    <2>1. Readable(f) /\ f.pi = n.snap.pi
        BY <1>1, <1>3, <1>5, <1>8 DEF Fits
    <2>2. n.pc \in Gated => prompts[r] = 0
        BY <1>1, <1>8 DEF Fits, Awaiting
    <2>3. p \in {0, 1} /\ (m.pc \in Gated => p = 0)
        BY <1>1, <1>8, <2>2 DEF Gated, Prompted
    <2>4. m.pc \in Gated \/ ~Awaiting(m)
        BY DEF Awaiting, Gated, Prompted
    <2> QED BY <2>1, <2>3, <2>4 DEF Fits
<1>9. Follow(e, m, f, p)
    BY <1>1, <1>8 DEF Follow
<1> HIDE DEF n
<1> QED BY <1>1, <1>4, <1>5, <1>6, <1>7, <1>9, EntryMoves

(* The worker's steps behind the gate. *)
LEMMA AnyGateStep ==
    ASSUME AnyRunnerInv, NEW e \in Entries,
           Persist(e) \/ PassFence(e) \/ Handoff(e) \/ Written(e) \/ Progress(e)
    PROVE  AnyRunnerInv'
<1> DEFINE n == entry[e]
           r == e[1]
<1>1. At(e, Gated \cup Prompted)
    BY DEF Persist, PassFence, Handoff, Written, Progress, At, Gated, Prompted
<1>2. /\ Alive(e) /\ Going(n) /\ n.commit = None /\ n \in Entry /\ r \in Runs /\ ~n.old
      /\ n.cancel => n.pc \in Prompted
      /\ n.snap.ex # "completed" /\ n.snap.rev <= MaxRev + 2
      /\ n.pc \in Gated \cup {"writing"} => n.snap.rev = 1
      /\ prompts[r] \in Nat
    BY <1>1, AnyAtGate
<1>3. /\ n.snap.pi \in 1 .. MaxProcs /\ n.snap.rev \in 0 .. (MaxRev + 4)
      /\ n.snap.st \in RunState /\ n.snap.ex \in ExecutionState /\ n.snap \in Snapshot
    BY <1>2, EntryParts
<1>4. entry \in [Entries -> Entry \cup {None}] /\ prompts = [prompts EXCEPT ![r] = prompts[r]]
      /\ entry[e] = n
    BY <1>2 DEF AnyRunnerInv, RunnerTypeOK
<1>5. "outcome_unknown" \in {"outcome_unknown", "started"} /\ "started" \in {"outcome_unknown", "started"}
    OBVIOUS
<1>6. ASSUME Persist(e) \/ PassFence(e) \/ Handoff(e), NEW w \in {"fenced", "refused", "handoff", "writing"},
             entry' = [entry EXCEPT ![e].pc = w],
             disk' = disk \/ disk' = Barrier(e, "outcome_unknown"),
             NEW p \in Nat, prompts' = [prompts EXCEPT ![r] = p],
             p = prompts[r] \/ (p = prompts[r] + 1 /\ w = "writing"),
             UNCHANGED <<proc, accepting, runs, sweep, answer>>
      PROVE  AnyRunnerInv'
    <2> DEFINE m == [n EXCEPT !.pc = w]
    <2>1. n.pc \in Gated /\ ~n.cancel
        BY <1>2, <1>6 DEF Persist, PassFence, Handoff, At, Gated, Prompted
    <2>2. m \in Entry /\ m.snap = n.snap /\ m.pc = w /\ m.commit = None /\ m.old = n.old /\ m.cancel = n.cancel
        BY <1>2 DEF Entry, WorkerPc, Gated, Prompted
    <2>3. entry' = [entry EXCEPT ![e] = m]
        BY <1>2, <1>4, <1>6 DEF Entry
    <2> HIDE DEF m
    <2>4. /\ m.snap.pi = n.snap.pi /\ m.snap.ex # "completed" /\ Going(m) /\ m.snap.rev <= MaxRev + 2
          /\ m.snap.rev = 1 /\ m.pc \in Gated \cup Prompted /\ ~m.cancel /\ n.pc \notin Prompted
          /\ (w = "writing" => m.pc \in Prompted)
        BY <1>2, <2>1, <2>2 DEF Going, Gated, Prompted
    <2> HIDE DEF n, r
    <2> QED BY <1>1, <1>5, <1>6, <2>1, <2>2, <2>3, <2>4, AnyGateMoves DEF n, r
<1>7. CASE Persist(e)
    <2>1. PICK w \in {"fenced", "refused"} :
            entry' = [entry EXCEPT ![e].pc = w] /\ (disk' = disk \/ disk' = Barrier(e, "outcome_unknown"))
        BY <1>7 DEF Persist
    <2>2. UNCHANGED <<proc, accepting, runs, sweep, prompts, answer>>
        BY <1>7 DEF Persist, history
    <2> HIDE DEF n, r
    <2> QED BY <1>2, <1>4, <1>6, <1>7, <2>1, <2>2
<1>8. CASE PassFence(e)
    <2>1. entry' = [entry EXCEPT ![e].pc = "handoff"]
        <3>1. entry' = [entry EXCEPT ![e] = [n EXCEPT !.pc = "handoff"]]
            BY <1>8 DEF PassFence, Step
        <3> QED BY <1>2, <1>4, <3>1 DEF Entry
    <2>2. UNCHANGED <<proc, accepting, disk, runs, sweep, prompts, answer>>
        BY <1>8 DEF PassFence, Step, history
    <2> HIDE DEF n, r
    <2> QED BY <1>2, <1>4, <1>6, <1>8, <2>1, <2>2
<1>9. CASE Handoff(e)
    <2>1. entry' = [entry EXCEPT ![e].pc = "writing"] /\ prompts' = [prompts EXCEPT ![r] = prompts[r] + 1]
          /\ UNCHANGED <<proc, accepting, disk, runs, sweep, answer>>
        BY <1>9 DEF Handoff
    <2>2. prompts[r] + 1 \in Nat
        BY <1>2
    <2> HIDE DEF n, r
    <2> QED BY <1>2, <1>6, <1>9, <2>1, <2>2
<1>10. CASE Written(e)
    <2> DEFINE S == Snap(n.snap.st, "started", n.snap.rev + 1, n.snap.pi)
               m == [n EXCEPT !.pc = "turn", !.snap = S]
    <2>1. n.pc = "writing" /\ (disk' = disk \/ disk' = Barrier(e, "started"))
          /\ UNCHANGED <<proc, accepting, runs, sweep, prompts, answer>>
          /\ entry' = [entry EXCEPT ![e].pc = "turn", ![e].snap = S]
        BY <1>10 DEF Written, At, history
    <2>2. S \in Snapshot /\ S.st = n.snap.st /\ S.ex = "started" /\ S.rev = 2 /\ S.pi = n.snap.pi
        <3>1. n.snap.rev + 1 \in 0 .. (MaxRev + 4) /\ n.snap.rev + 1 = 2
            BY <1>2, <2>1, RunAssumption
        <3>2. "started" \in ExecutionState
            BY DEF ExecutionState
        <3> HIDE DEF n
        <3> QED BY <1>3, <3>1, <3>2, SnapParts
    <2> HIDE DEF S
    <2>3. m \in Entry /\ m.snap = S /\ m.pc = "turn" /\ m.commit = None /\ m.old = n.old /\ m.cancel = n.cancel
        BY <1>2, <2>2 DEF Entry, WorkerPc, Prompted
    <2>4. entry' = [entry EXCEPT ![e] = m]
        BY <1>2, <1>4, <2>1 DEF Entry
    <2> HIDE DEF m
    <2>5. /\ m.snap.pi = n.snap.pi /\ m.snap.ex # "completed" /\ Going(m) /\ m.snap.rev <= MaxRev + 2
          /\ m.pc \in Prompted /\ m.pc \notin Gated \cup {"writing"}
        BY <1>2, <2>2, <2>3, RunAssumption DEF Going, Gated, Prompted
    <2>6. prompts' = [prompts EXCEPT ![r] = prompts[r]]
        BY <1>4, <2>1
    <2>7. (disk' = disk \/ disk' = Barrier(e, "started")) /\ UNCHANGED <<proc, accepting, runs, sweep, answer>>
        BY <2>1
    <2> HIDE DEF n, r
    <2> QED BY <1>1, <1>2, <1>5, <2>3, <2>4, <2>5, <2>6, <2>7, AnyGateMoves DEF n, r
<1>11. CASE Progress(e)
    <2> DEFINE m == [n EXCEPT !.snap.rev = @ + 1]
    <2>1. n.pc = "turn" /\ n.snap.rev < MaxRev /\ entry' = [entry EXCEPT ![e] = m]
          /\ UNCHANGED <<proc, accepting, disk, runs, sweep, prompts, answer>>
        BY <1>11 DEF Progress, Step, At, history
    <2>2. n.snap.rev + 1 \in 0 .. (MaxRev + 4) /\ n.snap.rev + 1 <= MaxRev + 2
        <3> HIDE DEF n
        <3> QED BY <1>3, <2>1, RunAssumption
    <2>3. /\ m \in Entry /\ m.pc = "turn" /\ m.commit = None /\ m.old = n.old /\ m.cancel = n.cancel
          /\ m.snap.st = n.snap.st /\ m.snap.ex = n.snap.ex /\ m.snap.pi = n.snap.pi /\ m.snap.rev = n.snap.rev + 1
        BY <1>2, <1>3, <2>1, <2>2 DEF Entry, Snapshot, Snapshots
    <2> HIDE DEF m
    <2>4. /\ m.snap.pi = n.snap.pi /\ m.snap.ex # "completed" /\ Going(m) /\ m.snap.rev <= MaxRev + 2
          /\ m.pc \in Prompted /\ m.pc \notin Gated \cup {"writing"}
        BY <1>2, <2>2, <2>3 DEF Going, Gated, Prompted
    <2>5. prompts' = [prompts EXCEPT ![r] = prompts[r]]
        BY <1>4, <2>1
    <2> HIDE DEF n, r
    <2> QED BY <1>1, <1>2, <1>5, <2>1, <2>3, <2>4, <2>5, AnyGateMoves DEF n, r
<1> QED BY <1>7, <1>8, <1>9, <1>10, <1>11

(* A cancel, of the Server or of stop_accepting. *)
LEMMA AnyRequestCancel ==
    ASSUME AnyRunnerInv, NEW e \in Entries, RequestCancel(e),
           UNCHANGED <<proc, accepting, runs, sweep, prompts, answer>>
    PROVE  AnyRunnerInv'
<1> DEFINE n == entry[e]
           m == [n EXCEPT !.cancel = TRUE]
<1>1. Alive(e) /\ n.commit = None /\ n.pc \notin Gated
    BY DEF RequestCancel
<1>2. /\ n \in Entry /\ Staged(n) /\ e[1] \in Runs
      /\ (~SweepRaces /\ e[2] = runs[e[1]] => Fits(n, disk[e[1]], prompts[e[1]]))
      /\ (~SweepRaces /\ e[2] # runs[e[1]] => Leaving(n))
    BY <1>1, AnyEntry
<1>3. CASE UNCHANGED <<disk, entry>>
    <2>1. entry' = [entry EXCEPT ![e] = n]
        BY <1>3 DEF AnyRunnerInv, RunnerTypeOK
    <2> HIDE DEF n
    <2> QED BY <1>1, <1>2, <1>3, <2>1, AloneMoves DEF n
<1>4. CASE /\ ~IsTerminal(e) /\ n.pc \in Prompted
           /\ entry' = [entry EXCEPT ![e].cancel = TRUE] /\ disk' = disk
    <2>1. Going(n) /\ entry' = [entry EXCEPT ![e] = m] /\ ~Leaving(n)
        BY <1>2, <1>4 DEF IsTerminal, Going, AnyRunnerInv, RunnerTypeOK, Entry, Leaving
    <2>2. /\ m \in Entry /\ m.snap = n.snap /\ m.commit = None /\ m.pc = n.pc /\ m.cancel = TRUE
          /\ m.old = n.old
        BY <1>1, <1>2 DEF Entry
    <2> HIDE DEF m
    <2>3. Staged(m) /\ (Going(m) => Going(n)) /\ \A d, p : Fits(n, d, p) => Fits(m, d, p)
        BY <1>1, <1>2, <1>4, <2>1, <2>2 DEF Staged, Going, Fits, Awaiting
    <2> HIDE DEF n
    <2> QED BY <1>1, <1>2, <1>4, <2>1, <2>2, <2>3, AloneMoves DEF n
<1>5. CASE n.pc \notin Prompted /\ Commit(e, "cancelled", "not_started", n.pc, TRUE)
    <2>1. n.pc \in {"none", "setup"}
        BY <1>1, <1>2, <1>5, EntryParts DEF WorkerPc
    <2>2. "cancelled" \in Terminal /\ "not_started" \in ExecutionState /\ TRUE \in BOOLEAN
        BY DEF Terminal, Definitive, ExecutionState
    <2>3. answer' \in [Runs -> {"none"} \cup Definitive]
        BY DEF AnyRunnerInv, RunnerTypeOK
    <2> QED BY <1>5, <2>1, <2>2, <2>3, AnyCommit
<1> QED BY <1>3, <1>4, <1>5 DEF RequestCancel

(* A step of start or stop_accepting that leaves the runs alone. *)
LEMMA AnyQuiet ==
    ASSUME AnyRunnerInv, UNCHANGED <<proc, disk, runs, entry, prompts, answer>>,
           accepting' \in Accepting, sweep' \in SUBSET Runs,
           \A r \in sweep' : r \in sweep \/ (Known(r) /\ entry[Of(r)].old),
           accepting' = "no" => accepting = "no" \/ \A r \in Runs : Known(r) => ~Going(entry[Of(r)]) \/ entry[Of(r)].cancel
    PROVE  AnyRunnerInv'
<1>1. RunnerTypeOK'
    BY DEF AnyRunnerInv, RunnerTypeOK
<1>2. /\ \A e \in Entries : Alive(e)' => Staged(entry'[e])
      /\ \A r \in Runs : Readable(disk'[r]) => Filed(disk'[r])
    BY DEF AnyRunnerInv, Alive
<1>3. ASSUME ~SweepRaces, NEW q \in Runs PROVE Retained(q)'
    <2>1. Retained(q)
        BY <1>3 DEF AnyRunnerInv
    <2>2. Known(q)' = Known(q) /\ Of(q)' = Of(q) /\ \A e \in Entries : Alive(e)' = Alive(e)
        BY DEF Known, Of, Alive
    <2> QED BY <2>1, <2>2 DEF Retained, Known, Alive, Of
<1> QED BY <1>1, <1>2, <1>3 DEF AnyRunnerInv

(* What a removal leaves, whether it succeeds or not. *)
LEMMA AnyRemoved ==
    ASSUME AnyRunnerInv, NEW R \in SUBSET Runs, Remove(R)
    PROVE  /\ \A r \in Runs :
                 /\ r \notin R => disk'[r] = disk[r] /\ prompts'[r] = prompts[r] /\ runs'[r] = runs[r]
                 /\ r \in R => /\ runs'[r] = 0
                               /\ \/ disk'[r] = None /\ prompts'[r] = 0
                                  \/ disk'[r] \in {disk[r], Unreadable} /\ prompts'[r] = prompts[r]
           /\ disk' \in [Runs -> Record \cup {None, Unreadable}] /\ prompts' \in [Runs -> Nat]
           /\ answer' \in [Runs -> {"none"} \cup Definitive] /\ runs' \in [Runs -> 0 .. MaxEntries]
           /\ entry' = Collected(entry, runs')
<1>1. PICK left \in [R -> {"gone", "kept", "unreadable"}] :
          LET gone == {r \in R : left[r] = "gone"}
          IN  /\ disk' = [r \in Runs |-> IF r \notin R \/ left[r] = "kept" THEN disk[r]
                                         ELSE IF r \in gone THEN None ELSE Unreadable]
              /\ prompts' = [r \in Runs |-> IF r \in gone THEN 0 ELSE prompts[r]]
              /\ answer' = [r \in Runs |-> IF r \in gone THEN "none" ELSE answer[r]]
    <2>1. \A left \in [R -> {"gone"}] : left \in [R -> {"gone", "kept", "unreadable"}]
        OBVIOUS
    <2> QED BY <2>1 DEF Remove
<1>2. runs' = [r \in Runs |-> IF r \in R THEN 0 ELSE runs[r]] /\ entry' = Collected(entry, runs')
    BY DEF Remove
<1>3. /\ disk \in [Runs -> Record \cup {None, Unreadable}] /\ prompts \in [Runs -> Nat]
      /\ answer \in [Runs -> {"none"} \cup Definitive] /\ runs \in [Runs -> 0 .. MaxEntries]
    BY DEF AnyRunnerInv, RunnerTypeOK
<1>4. \A r \in Runs : /\ r \notin R => disk'[r] = disk[r] /\ prompts'[r] = prompts[r]
                      /\ r \in R => \/ disk'[r] = None /\ prompts'[r] = 0
                                    \/ disk'[r] \in {disk[r], Unreadable} /\ prompts'[r] = prompts[r]
    BY <1>1
<1>5. disk' \in [Runs -> Record \cup {None, Unreadable}] /\ prompts' \in [Runs -> Nat]
      /\ answer' \in [Runs -> {"none"} \cup Definitive]
    BY <1>1, <1>3
<1>6. runs' \in [Runs -> 0 .. MaxEntries]
    BY <1>2, <1>3, RunAssumption
<1> QED BY <1>2, <1>4, <1>5, <1>6

(* Expired runs are removed; their workers, where they have one, leave. *)
LEMMA AnyRemove ==
    ASSUME AnyRunnerInv, NEW R \in SUBSET Runs, Remove(R),
           ~SweepRaces => (\A r \in R : Known(r) /\ entry[Of(r)].old) /\ R \cap sweep' = {},
           UNCHANGED <<proc, accepting>>, sweep' \in {{}, sweep}
    PROVE  AnyRunnerInv'
<1>1. /\ \A r \in Runs :
            /\ r \notin R => disk'[r] = disk[r] /\ prompts'[r] = prompts[r] /\ runs'[r] = runs[r]
            /\ r \in R => /\ runs'[r] = 0
                          /\ \/ disk'[r] = None /\ prompts'[r] = 0
                             \/ disk'[r] \in {disk[r], Unreadable} /\ prompts'[r] = prompts[r]
      /\ disk' \in [Runs -> Record \cup {None, Unreadable}] /\ prompts' \in [Runs -> Nat]
      /\ answer' \in [Runs -> {"none"} \cup Definitive] /\ runs' \in [Runs -> 0 .. MaxEntries]
      /\ entry' = Collected(entry, runs')
    BY AnyRemoved
<1>2. entry \in [Entries -> Entry \cup {None}] /\ sweep' \subseteq Runs
    BY DEF AnyRunnerInv, RunnerTypeOK
<1>3. /\ entry' \in [Entries -> Entry \cup {None}]
      /\ \A e \in Entries :
            /\ entry'[e] \in {None, entry[e]}
            /\ runs'[e[1]] = e[2] => entry'[e] = entry[e]
            /\ entry'[e] # None /\ runs'[e[1]] # e[2] => entry[e].pc # "none" \/ entry[e].commit # None
    BY <1>1, <1>2, Collecting
<1>4. RunnerTypeOK'
    BY <1>1, <1>2, <1>3 DEF AnyRunnerInv, RunnerTypeOK
<1>5. \A e \in Entries : Alive(e)' => Staged(entry'[e])
    BY <1>3 DEF AnyRunnerInv, Alive
<1>6. \A r \in Runs : Readable(disk'[r]) => Filed(disk'[r])
    BY <1>1 DEF AnyRunnerInv, Readable
<1>7. ASSUME ~SweepRaces, NEW q \in Runs PROVE Retained(q)'
    <2>1. Retained(q) /\ runs[q] \in 0 .. MaxEntries
        BY <1>7 DEF AnyRunnerInv, RunnerTypeOK
    <2>2. CASE q \notin R
        <3>1. runs'[q] = runs[q] /\ disk'[q] = disk[q] /\ prompts'[q] = prompts[q]
            BY <1>1, <2>2
        <3>2. \A k \in 1 .. MaxEntries : /\ entry'[<<q, k>>] \in {None, entry[<<q, k>>]}
                                         /\ k = runs[q] => entry'[<<q, k>>] = entry[<<q, k>>]
            BY <1>3, <3>1, Slots
        <3>3. Known(q) => entry'[Of(q)] = entry[Of(q)]
            BY <2>1, <3>2 DEF Known, Of
        <3>4. Known(q)' = Known(q) /\ Of(q)' = Of(q) /\ (q \in sweep' => q \in sweep)
            BY <3>1 DEF Known, Of
        <3>5. \A k \in 1 .. MaxEntries : Alive(<<q, k>>)' /\ k # runs[q] => Leaving(entry'[<<q, k>>])
            BY <2>1, <3>2 DEF Retained, Alive
        <3> QED BY <2>1, <3>1, <3>3, <3>4, <3>5 DEF Retained, Alive
    <2>3. CASE q \in R
        <3>1. Known(q) /\ entry[Of(q)].old /\ Of(q) \in Entries /\ Alive(Of(q)) /\ Of(q) = <<q, runs[q]>>
            BY <1>7, <2>1, <2>3, Slots DEF Known, Of, Retained
        <3>2. entry[Of(q)] \in Entry /\ Staged(entry[Of(q)])
            BY <3>1, AnyEntry
        <3>3. ~Going(entry[Of(q)]) /\ entry[Of(q)].commit = None /\ entry[Of(q)].pc \in {"none", "setup"}
            BY <3>1, <3>2, EntryParts DEF Staged, WorkerPc
        <3>4. runs'[q] = 0 /\ ~Known(q)'
            BY <1>1, <2>3 DEF Known
        <3>5. ASSUME NEW k \in 1 .. MaxEntries, entry'[<<q, k>>] # None PROVE Leaving(entry'[<<q, k>>])
            <4>1. <<q, k>> \in Entries /\ runs'[q] # k
                BY <3>4, Slots
            <4>2. entry'[<<q, k>>] = entry[<<q, k>>] /\ (entry[<<q, k>>].pc # "none" \/ entry[<<q, k>>].commit # None)
                BY <1>3, <3>5, <4>1
            <4>3. CASE k = runs[q]
                BY <3>1, <3>3, <4>2, <4>3 DEF Leaving
            <4>4. CASE k # runs[q]
                BY <2>1, <3>5, <4>2, <4>4 DEF Retained, Alive
            <4> QED BY <4>3, <4>4
        <3>6. prompts'[q] \in {0, 1} /\ (prompts'[q] = 1 => disk'[q] # None)
            <4>1. Unreadable # None
                BY AbsentAssumption
            <4> QED BY <1>1, <2>1, <2>3, <4>1 DEF Retained
        <3>7. q \notin sweep'
            BY <1>7, <2>3
        <3> QED BY <3>4, <3>5, <3>6, <3>7 DEF Retained, Alive
    <2> QED BY <2>2, <2>3
<1> QED BY <1>4, <1>5, <1>6, <1>7 DEF AnyRunnerInv

(* The entry that an admission or a recovery makes of a record. *)
LEMMA AnyNewEntry ==
    ASSUME NEW d \in Record, Filed(d), NEW w \in {"none", "setup"}
    PROVE  /\ NewEntry(RecordSnapshot(d), w) \in Entry /\ Staged(NewEntry(RecordSnapshot(d), w))
           /\ \A p : (w = "none" \/ p = 0) => Fits(NewEntry(RecordSnapshot(d), w), d, p)
           /\ d.phase = "terminal" => ~Going(NewEntry(RecordSnapshot(d), w))
           /\ NewEntry(RecordSnapshot(d), w) # None
<1> DEFINE S == RecordSnapshot(d)
           m == NewEntry(S, w)
<1>1. d.pi \in 1 .. MaxProcs /\ d.st \in RunState /\ d.ex \in ExecutionState /\ 0 \in 0 .. (MaxRev + 4)
      /\ w \in WorkerPc /\ d = Rec(d.phase, d.st, d.ex, d.pi)
    BY RecordParts, RunAssumption DEF WorkerPc, Record, Rec
<1>2. S \in Snapshot /\ S.st = d.st /\ S.ex = d.ex /\ S.rev = 0 /\ S.pi = d.pi
    BY <1>1, SnapParts DEF RecordSnapshot
<1> HIDE DEF S
<1>3. m \in Entry /\ m.snap = S /\ m.pc = w /\ m.cancel = FALSE /\ m.commit = None /\ m.old = FALSE
    BY <1>1, <1>2, NewEntryParts
<1> HIDE DEF m
<1>4. Staged(m)
    BY <1>2, <1>3, RunAssumption DEF Filed, Staged, Going, Gated, Prompted
<1>5. \A p : (w = "none" \/ p = 0) => Fits(m, d, p)
    <2>1. d.ex = "completed" => d.phase = "terminal"
        BY DEF Filed
    <2>2. w = "none" => ~Awaiting(m)
        BY <1>3 DEF Awaiting, Gated
    <2> QED BY <1>1, <1>2, <1>3, <2>1, <2>2 DEF Fits
<1>6. (d.phase = "terminal" => ~Going(m)) /\ m # None
    BY <1>2, <1>3, Present DEF Filed, Going
<1> QED BY <1>3, <1>4, <1>5, <1>6 DEF m, S

(* A start writes a record, or part of one, and may insert its entry. *)
LEMMA AnyInsert ==
    ASSUME AnyRunnerInv, NEW r \in Runs, ~Known(r), NEW w \in {"none", "setup"},
           NEW d \in Record, Filed(d), w = "setup" => disk[r] = None,
           Insert(r, RecordSnapshot(d), w), disk' = [disk EXCEPT ![r] = d],
           accepting' \in Accepting \ {"no"}, UNCHANGED <<proc, sweep, prompts, answer>>,
           accepting # "no"
    PROVE  AnyRunnerInv'
<1> DEFINE m == NewEntry(RecordSnapshot(d), w)
<1>1. PICK k \in 1 .. MaxEntries : /\ entry[<<r, k>>] = None /\ runs' = [runs EXCEPT ![r] = k]
                                   /\ entry' = [entry EXCEPT ![<<r, k>>] = m]
    BY DEF Insert, FirstFree
<1>2. /\ m \in Entry /\ Staged(m) /\ m # None
      /\ \A p : (w = "none" \/ p = 0) => Fits(m, d, p)
    BY AnyNewEntry
<1> HIDE DEF m
<1>3. /\ entry \in [Entries -> Entry \cup {None}] /\ runs \in [Runs -> 0 .. MaxEntries]
      /\ disk \in [Runs -> Record \cup {None, Unreadable}] /\ RunnerTypeOK
    BY DEF AnyRunnerInv, RunnerTypeOK
<1>4. /\ disk' \in [Runs -> Record \cup {None, Unreadable}] /\ runs' \in [Runs -> 0 .. MaxEntries]
      /\ entry' \in [Entries -> Entry \cup {None}]
    <2>1. entry' \in [Entries -> Entry \cup {None}]
        BY <1>1, <1>2, <1>3
    <2>2. runs' \in [Runs -> 0 .. MaxEntries]
        <3>1. k \in 0 .. MaxEntries
            BY RunAssumption
        <3> QED BY <1>1, <1>3, <3>1
    <2> QED BY <1>3, <2>1, <2>2
<1>5. RunnerTypeOK'
    BY <1>3, <1>4 DEF RunnerTypeOK
<1>6. \A e \in Entries : Alive(e)' => Staged(entry'[e])
    BY <1>1, <1>2, <1>3 DEF AnyRunnerInv, Alive
<1>7. \A q \in Runs : Readable(disk'[q]) => Filed(disk'[q])
    BY <1>3 DEF AnyRunnerInv
<1>8. ASSUME ~SweepRaces, NEW q \in Runs PROVE Retained(q)'
    <2>1. Retained(q)
        BY <1>8 DEF AnyRunnerInv
    <2>2. CASE q = r
        <3>1. runs'[r] = k /\ entry'[<<r, k>>] = m /\ disk'[r] = d /\ Of(r)' = <<r, k>> /\ Known(r)'
            BY <1>1, <1>3, Slots DEF Of, Known
        <3>2. \A j \in 1 .. MaxEntries : j # k => entry'[<<r, j>>] = entry[<<r, j>>]
            BY <1>1, <1>3, Slots
        <3>3. \A j \in 1 .. MaxEntries : Alive(<<r, j>>)' /\ j # k => Leaving(entry'[<<r, j>>])
            BY <2>1, <2>2, <3>2 DEF Retained, Alive, Known
        <3>4. prompts[r] \in {0, 1} /\ (w = "setup" => prompts[r] = 0) /\ r \notin sweep
            BY <2>1, <2>2 DEF Retained
        <3>5. Fits(m, d, prompts[r]) /\ Readable(d) /\ d # None
            BY <1>2, <3>4, Present
        <3> QED BY <1>2, <2>2, <3>1, <3>3, <3>4, <3>5 DEF Retained, Alive
    <2>3. CASE q # r
        <3>1. \A j \in 1 .. MaxEntries : entry'[<<q, j>>] = entry[<<q, j>>]
            BY <1>1, <1>3, <2>3, Slots
        <3>2. runs'[q] = runs[q] /\ disk'[q] = disk[q] /\ Known(q)' = Known(q) /\ Of(q)' = Of(q)
            BY <1>1, <1>3, <2>3 DEF Known, Of
        <3>3. Known(q) => entry'[Of(q)] = entry[Of(q)]
            BY <1>3, <3>1 DEF Known, Of
        <3> QED BY <2>1, <3>1, <3>2, <3>3 DEF Retained, Alive
    <2> QED BY <2>2, <2>3
<1> QED BY <1>5, <1>6, <1>7, <1>8 DEF AnyRunnerInv

(* A start leaves a record, or part of one, without an entry. *)
LEMMA AnyResidue ==
    ASSUME AnyRunnerInv, NEW r \in Runs, ~Known(r), disk[r] = None,
           NEW d \in {None, Unreadable, FirstRecord}, disk' = [disk EXCEPT ![r] = d],
           FirstRecord \in Record, Filed(FirstRecord),
           accepting # "no", accepting' \in Accepting \ {"no"},
           UNCHANGED <<proc, runs, entry, sweep, prompts, answer>>
    PROVE  AnyRunnerInv'
<1>1. disk \in [Runs -> Record \cup {None, Unreadable}] /\ RunnerTypeOK
    BY DEF AnyRunnerInv, RunnerTypeOK
<1>2. RunnerTypeOK'
    BY <1>1 DEF RunnerTypeOK
<1>3. \A e \in Entries : Alive(e)' => Staged(entry'[e])
    BY DEF AnyRunnerInv, Alive
<1>4. \A q \in Runs : Readable(disk'[q]) => Filed(disk'[q])
    BY <1>1 DEF AnyRunnerInv, Readable
<1>5. ASSUME ~SweepRaces, NEW q \in Runs PROVE Retained(q)'
    <2>1. Retained(q)
        BY <1>5 DEF AnyRunnerInv
    <2>2. Known(q)' = Known(q) /\ Of(q)' = Of(q) /\ \A e \in Entries : Alive(e)' = Alive(e)
        BY DEF Known, Of, Alive
    <2>3. q # r => disk'[q] = disk[q]
        BY <1>1
    <2>4. q = r => ~Known(q) /\ prompts[q] # 1
        BY <2>1 DEF Retained
    <2> QED BY <2>1, <2>2, <2>3, <2>4 DEF Retained, Alive, Of
<1> QED BY <1>2, <1>3, <1>4, <1>5 DEF AnyRunnerInv

(* start and cancel, whatever they find. *)
LEMMA AnyRequest ==
    ASSUME AnyRunnerInv, NEW r \in Runs, NEW p \in 1 .. MaxProcs, Request(r, p)
    PROVE  AnyRunnerInv'
<1>0. accepting \in Accepting /\ sweep \in SUBSET Runs /\ proc \in 1 .. MaxProcs
      /\ disk \in [Runs -> Record \cup {None, Unreadable}] /\ runs \in [Runs -> 0 .. MaxEntries]
    BY DEF AnyRunnerInv, RunnerTypeOK
<1>1. Admitting /\ StartFinishes => accepting # "no" /\ accepting' \in Accepting \ {"no"}
    BY DEF Admitting, StartFinishes, Accepting
<1>2. FirstRecord \in Record /\ Filed(FirstRecord)
    <2>1. "starting" \in RunState /\ "not_started" \in ExecutionState
        BY DEF RunState, ExecutionState
    <2> QED BY <1>0, <2>1, RecParts DEF FirstRecord, Filed, Terminal, Definitive
<1>3. CASE StartKnown(r) \/ StartRefused(r) \/ StartUnreadable(r, p)
    <2>1. /\ UNCHANGED <<proc, disk, runs, entry, sweep, prompts, answer>>
          /\ accepting' = accepting \/ accepting' \in Accepting \ {"no"}
        BY <1>1, <1>3 DEF StartKnown, StartRefused, StartUnreadable, Admissible, history
    <2> QED BY <1>0, <2>1, AnyQuiet
<1>4. CASE StartRecorded(r, p)
    <2>1. /\ ~Known(r) /\ Readable(disk[r]) /\ Insert(r, RecordSnapshot(disk[r]), "none")
          /\ UNCHANGED <<proc, disk, sweep, prompts, answer>>
          /\ accepting # "no" /\ accepting' \in Accepting \ {"no"}
        BY <1>1, <1>4 DEF StartRecorded, Admissible, history
    <2>2. disk[r] \in Record /\ Filed(disk[r]) /\ disk[r] # None
        BY <1>0, <2>1 DEF AnyRunnerInv, Readable
    <2>3. disk' = [disk EXCEPT ![r] = disk[r]] /\ "none" \in {"none", "setup"} /\ "none" # "setup"
        BY <1>0, <2>1
    <2> QED BY <2>1, <2>2, <2>3, AnyInsert
<1>5. CASE StartNew(r, p)
    <2>1. /\ ~Known(r) /\ disk[r] = None /\ Insert(r, RecordSnapshot(FirstRecord), "setup")
          /\ disk' = [disk EXCEPT ![r] = FirstRecord]
          /\ UNCHANGED <<proc, sweep, prompts, answer>>
          /\ accepting # "no" /\ accepting' \in Accepting \ {"no"}
        BY <1>1, <1>5 DEF StartNew, Admissible, history
    <2>2. "setup" \in {"none", "setup"}
        OBVIOUS
    <2> QED BY <1>2, <2>1, <2>2, AnyInsert
<1>6. CASE StartWriteFails(r, p)
    <2>1. /\ ~Known(r) /\ disk[r] = None
          /\ UNCHANGED <<proc, runs, entry, sweep, prompts, answer>>
          /\ accepting # "no" /\ accepting' \in Accepting \ {"no"}
        BY <1>1, <1>6 DEF StartWriteFails, Admissible, history
    <2>2. PICK d \in {None, Unreadable, FirstRecord} : disk' = [disk EXCEPT ![r] = d]
        BY <1>6 DEF StartWriteFails
    <2> QED BY <1>2, <2>1, <2>2, AnyResidue
<1>7. CASE Cancel(r)
    <2>1. Of(r) \in Entries /\ RequestCancel(Of(r)) /\ UNCHANGED <<proc, accepting, runs, sweep, prompts, answer>>
        BY <1>0, <1>7, Slots DEF Cancel, Known, Of, history
    <2> QED BY <2>1, AnyRequestCancel
<1> QED BY <1>3, <1>4, <1>5, <1>6, <1>7 DEF Request

(* The sweeps, and stop_accepting. *)
LEMMA AnySweepOrStop ==
    ASSUME AnyRunnerInv,
           \/ SweepCollect \/ SweepRemove \/ StartCleans
           \/ StopFlag \/ StopFence \/ StopDone \/ \E r \in Runs : StopCancel(r)
    PROVE  AnyRunnerInv'
<1>0. accepting \in Accepting /\ sweep \in SUBSET Runs /\ runs \in [Runs -> 0 .. MaxEntries]
      /\ (~SweepRaces => \A r \in sweep : Known(r) /\ entry[Of(r)].old)
      /\ Expired \in SUBSET Runs /\ \A r \in Expired : Known(r) /\ entry[Of(r)].old
    BY DEF AnyRunnerInv, RunnerTypeOK, Retained, Expired
<1>1. CASE SweepCollect
    <2>1. UNCHANGED <<proc, disk, runs, entry, prompts, answer>> /\ sweep' = Expired /\ accepting' = accepting
        BY <1>1 DEF SweepCollect, history
    <2> QED BY <1>0, <2>1, AnyQuiet
<1>2. CASE SweepRemove
    <2>1. Remove(sweep) /\ sweep' = {} /\ UNCHANGED <<proc, accepting>>
        BY <1>2 DEF SweepRemove
    <2> QED BY <1>0, <2>1, AnyRemove
<1>3. CASE StartCleans
    <2>1. Remove(Expired) /\ sweep' = sweep /\ UNCHANGED <<proc, accepting>> /\ (~SweepRaces => sweep = {})
        BY <1>3 DEF StartCleans, Admitting
    <2> QED BY <1>0, <2>1, AnyRemove
<1>4. CASE StopFlag \/ StopFence
    <2>1. UNCHANGED <<proc, disk, runs, entry, sweep, prompts, answer>> /\ accepting' \in Accepting \ {"no"}
        BY <1>4 DEF StopFlag, StopFence, Accepting, history
    <2> QED BY <1>0, <2>1, AnyQuiet
<1>5. CASE StopDone
    <2>1. UNCHANGED <<proc, disk, runs, entry, sweep, prompts, answer>> /\ accepting' = "no"
        BY <1>5 DEF StopDone, history
    <2>2. \A r \in Runs : Known(r) => ~Going(entry[Of(r)]) \/ entry[Of(r)].cancel
        BY <1>5 DEF StopDone, IsTerminal, Going
    <2> QED BY <1>0, <2>1, <2>2, AnyQuiet DEF Accepting
<1>6. ASSUME NEW r \in Runs, StopCancel(r) PROVE AnyRunnerInv'
    <2>1. Of(r) \in Entries /\ RequestCancel(Of(r)) /\ UNCHANGED <<proc, accepting, runs, sweep, prompts, answer>>
        BY <1>0, <1>6, Slots DEF StopCancel, Known, Of, history
    <2> QED BY <2>1, AnyRequestCancel
<1> QED BY <1>1, <1>2, <1>3, <1>4, <1>5, <1>6

(* Recovery ends a record, whatever it is. *)
LEMMA AnyRecovered ==
    ASSUME NEW d \in Record, Filed(d)
    PROVE  Recovered(d) \in Record /\ Filed(Recovered(d)) /\ Recovered(d).phase = "terminal"
<1>1. d.pi \in 1 .. MaxProcs /\ d.phase \in {"before", "may", "terminal"}
    BY RecordParts
<1>2. CASE d.phase = "terminal"
    BY <1>2 DEF Recovered
<1>3. CASE d.phase # "terminal"
    <2>1. PICK st \in {"lost", "failed"}, ex \in {"outcome_unknown", "not_started"} :
            Recovered(d) = Rec("terminal", st, ex, d.pi)
        BY <1>1, <1>3 DEF Recovered
    <2>2. st \in Terminal /\ st \in RunState /\ ex \in ExecutionState
        BY DEF RunState, ExecutionState, Terminal, Definitive
    <2> QED BY <1>1, <2>1, <2>2, RecParts DEF Filed
<1> QED BY <1>2, <1>3

(* A new process, over the records that it can rewrite. *)
LEMMA AnyRestart ==
    ASSUME AnyRunnerInv, Restart \/ RestartFails
    PROVE  AnyRunnerInv'
<1>1. proc' \in 1 .. MaxProcs /\ sweep' = {} /\ UNCHANGED <<prompts, answer>> /\ accepting' \in Accepting
    BY RunAssumption DEF Restart, RestartFails, NewProcess, history, AnyRunnerInv, RunnerTypeOK, Accepting
<1>2. PICK R \in SUBSET {r \in Runs : Readable(disk[r])} :
          /\ disk' = [r \in Runs |-> IF r \in R THEN Recovered(disk[r]) ELSE disk[r]]
          /\ Restart => R = {r \in Runs : Readable(disk[r])}
    <2>1. CASE Restart
        <3> DEFINE All == {r \in Runs : Readable(disk[r])}
        <3>1. \A r \in Runs : r \in All <=> Readable(disk[r])
            OBVIOUS
        <3>2. disk' = [r \in Runs |-> IF Readable(disk[r]) THEN Recovered(disk[r]) ELSE disk[r]]
            BY <2>1 DEF Restart
        <3>3. disk' = [r \in Runs |-> IF r \in All THEN Recovered(disk[r]) ELSE disk[r]]
            BY <3>2, Zenon
        <3> QED BY <3>3
    <2>2. CASE ~Restart
        BY <2>2 DEF RestartFails
    <2> QED BY <2>1, <2>2
<1>3. \A r \in Runs : disk[r] \in Record \cup {None, Unreadable} /\ (Readable(disk[r]) => disk[r] \in Record /\ Filed(disk[r]))
    BY DEF AnyRunnerInv, RunnerTypeOK, Readable
<1>4. ASSUME NEW r \in Runs
      PROVE  /\ disk'[r] \in Record \cup {None, Unreadable} /\ (Readable(disk'[r]) => Filed(disk'[r]))
             /\ Readable(disk'[r]) <=> Readable(disk[r])
             /\ disk'[r] = None <=> disk[r] = None
    <2>1. CASE r \in R
        <3>1. Recovered(disk[r]) \in Record /\ Filed(Recovered(disk[r])) /\ Readable(disk[r])
            BY <1>3, <2>1, AnyRecovered
        <3> QED BY <1>2, <2>1, <3>1, Present DEF Readable
    <2>2. CASE r \notin R
        BY <1>2, <1>3, <2>2
    <2> QED BY <2>1, <2>2
<1>5. disk' \in [Runs -> Record \cup {None, Unreadable}]
    BY <1>2, <1>4
<1> DEFINE N(r) == NewEntry(RecordSnapshot(Recovered(disk[r])), "none")
<1>6. ASSUME NEW r \in Runs, Readable(disk[r])
      PROVE  /\ N(r) \in Entry /\ Staged(N(r)) /\ N(r) # None /\ ~Going(N(r))
             /\ \A p : Fits(N(r), Recovered(disk[r]), p)
    <2>1. Recovered(disk[r]) \in Record /\ Filed(Recovered(disk[r])) /\ Recovered(disk[r]).phase = "terminal"
        BY <1>3, <1>6, AnyRecovered
    <2>2. "none" \in {"none", "setup"}
        OBVIOUS
    <2> QED BY <2>1, <2>2, AnyNewEntry
<1> HIDE DEF N
<1>7. \/ /\ Restart /\ accepting' = "yes"
         /\ runs' = [r \in Runs |-> IF Readable(disk[r]) THEN 1 ELSE 0]
         /\ entry' = [e \in Entries |-> IF Readable(disk[e[1]]) /\ e[2] = 1 THEN N(e[1]) ELSE None]
      \/ runs' = [r \in Runs |-> 0] /\ entry' = [e \in Entries |-> None]
    BY DEF Restart, RestartFails, N
<1>8. /\ runs' \in [Runs -> 0 .. MaxEntries]
      /\ entry' \in [Entries -> Entry \cup {None}]
      /\ \A e \in Entries : Alive(e)' => Staged(entry'[e])
    BY <1>6, <1>7, Slots, RunAssumption DEF Alive
<1>9. RunnerTypeOK'
    BY <1>1, <1>5, <1>8 DEF AnyRunnerInv, RunnerTypeOK
<1>10. ASSUME ~SweepRaces, NEW q \in Runs PROVE Retained(q)'
    <2>1. prompts[q] \in {0, 1} /\ (prompts[q] = 1 => disk[q] # None)
        BY <1>10 DEF AnyRunnerInv, Retained
    <2>2. prompts'[q] \in {0, 1} /\ (prompts'[q] = 1 => disk'[q] # None) /\ q \notin sweep'
        BY <1>1, <1>4, <2>1
    <2>3. \A k \in 1 .. MaxEntries : <<q, k>> \in Entries
        BY Slots
    <2>4. CASE /\ Restart /\ accepting' = "yes" /\ Readable(disk[q])
               /\ runs' = [r \in Runs |-> IF Readable(disk[r]) THEN 1 ELSE 0]
               /\ entry' = [e \in Entries |-> IF Readable(disk[e[1]]) /\ e[2] = 1 THEN N(e[1]) ELSE None]
        <3>1. runs'[q] = 1 /\ disk'[q] = Recovered(disk[q]) /\ 1 \in 1 .. MaxEntries
            BY <1>2, <2>4, RunAssumption
        <3>2. \A k \in 1 .. MaxEntries : entry'[<<q, k>>] = IF k = 1 THEN N(q) ELSE None
            BY <2>3, <2>4
        <3>3. Known(q)' /\ Of(q)' = <<q, 1>> /\ entry'[<<q, 1>>] = N(q)
            BY <3>1, <3>2 DEF Known, Of
        <3>4. Readable(disk'[q]) /\ Fits(N(q), disk'[q], prompts'[q]) /\ N(q) # None
            BY <1>4, <1>6, <2>4, <3>1
        <3> QED BY <2>2, <2>4, <3>1, <3>2, <3>3, <3>4 DEF Retained, Alive
    <2>5. CASE runs'[q] = 0 /\ \A k \in 1 .. MaxEntries : entry'[<<q, k>>] = None
        BY <2>2, <2>5 DEF Retained, Known, Alive
    <2> QED BY <1>7, <2>3, <2>4, <2>5
<1> QED BY <1>4, <1>8, <1>9, <1>10 DEF AnyRunnerInv

(* A Runner starts without records and without entries. *)
LEMMA AnyRunnerInit == RunnerInit => AnyRunnerInv
<1> SUFFICES ASSUME RunnerInit PROVE AnyRunnerInv
    OBVIOUS
<1>1. RunnerTypeOK
    BY RunAssumption DEF RunnerInit, RunnerTypeOK, Accepting
<1>2. \A r \in Runs, k \in 1 .. MaxEntries : entry[<<r, k>>] = None
    BY Slots DEF RunnerInit
<1> QED BY <1>1, <1>2 DEF RunnerInit, AnyRunnerInv, Retained, Known, Alive, Readable

(* Every step of any Runner keeps it. *)
LEMMA AnyRunnerNext ==
    ASSUME AnyRunnerInv, [RunnerNext]_runnerVars
    PROVE  AnyRunnerInv'
<1>1. CASE UNCHANGED runnerVars
    <2>1. UNCHANGED <<proc, accepting, disk, runs, entry, sweep, prompts, answer>>
        BY <1>1 DEF runnerVars, history
    <2>2. accepting \in Accepting /\ sweep \in SUBSET Runs
        BY DEF AnyRunnerInv, RunnerTypeOK
    <2> QED BY <2>1, <2>2, AnyQuiet
<1>2. ASSUME NEW e \in Entries, Worker(e) PROVE AnyRunnerInv'
    BY <1>2, AnyWorkerCommits, AnyWorkerLeaves, AnyEnterGate, AnyGateStep DEF Worker
<1>3. CASE RunnerStep
    BY <1>2, <1>3, AnyGateStep, AnyPublish, AnyAge, AnySweepOrStop, AnyRestart DEF RunnerStep
<1>4. CASE \E r \in Runs, p \in 1 .. MaxProcs : Request(r, p)
    BY <1>4, AnyRequest
<1> QED BY <1>1, <1>3, <1>4 DEF RunnerNext

(* Stages, and the prompt and the answer of a run, of any Runner. *)
THEOREM AnyRunnerInvariant == RunnerSpec => []AnyRunnerInv
<1>1. AnyRunnerInv /\ [RunnerNext]_runnerVars => AnyRunnerInv'
    BY AnyRunnerNext
<1> QED BY <1>1, AnyRunnerInit, PTL DEF RunnerSpec

(* Every part of the state is well typed, over any number of processes,    *)
(* racing sweeps and failing removals included: no revision outgrows the   *)
(* room that a turn leaves for its end.                                    *)
THEOREM RunnerTypeCorrect == RunnerSpec => []RunnerTypeOK
<1>1. AnyRunnerInv => RunnerTypeOK
    BY DEF AnyRunnerInv
<1> QED BY <1>1, AnyRunnerInvariant, PTL

(* Over cancels, replayed starts, failed writes, sweeps, removals that     *)
(* fail and restarts of the Runner, the prompt of a run id is handed over  *)
(* at most once.                                                           *)
THEOREM PromptedOnce ==
    ASSUME ~SweepRaces
    PROVE  RunnerSpec => []PromptedAtMostOnce
<1>1. AnyRunnerInv => PromptedAtMostOnce
    BY DEF AnyRunnerInv, Retained, PromptedAtMostOnce
<1> QED BY <1>1, AnyRunnerInvariant, PTL

(* An answer is reported only when it is on disk. *)
THEOREM DurableAnswer ==
    ASSUME ~SweepRaces
    PROVE  RunnerSpec => []AnswerIsDurable
<1>1. AnyRunnerInv => AnswerIsDurable
    BY DEF AnyRunnerInv, Retained, Fits, AnswerIsDurable
<1> QED BY <1>1, AnyRunnerInvariant, PTL

(* A removal takes back prompts, and hands over none. *)
LEMMA RemovedPrompts ==
    ASSUME AnyRunnerInv, NEW R, Remove(R)
    PROVE  \A r \in Runs : prompts'[r] <= prompts[r]
<1>1. PICK G : prompts' = [r \in Runs |-> IF r \in G THEN 0 ELSE prompts[r]]
    BY DEF Remove
<1> QED BY <1>1 DEF AnyRunnerInv, RunnerTypeOK

(* A step taken after stop_accepting returned hands over no prompt. *)
LEMMA NoPromptStep ==
    ASSUME AnyRunnerInv, ~SweepRaces, [RunnerNext]_runnerVars, accepting = "no"
    PROVE  \A r \in Runs : prompts'[r] <= prompts[r]
<1>1. \A r \in Runs : prompts[r] \in Nat
    BY DEF AnyRunnerInv, RunnerTypeOK
<1>2. CASE UNCHANGED prompts
    BY <1>1, <1>2
<1>3. ASSUME NEW e \in Entries PROVE ~Handoff(e)
    <2> SUFFICES ASSUME Handoff(e) PROVE FALSE
        OBVIOUS
    <2>1. At(e, Gated \cup Prompted) /\ entry[e].pc = "handoff"
        BY DEF Handoff, At, Gated
    <2>2. Going(entry[e]) /\ ~entry[e].cancel /\ e[1] \in Runs /\ e = <<e[1], e[2]>> /\ e[2] = runs[e[1]]
        BY <2>1, AnyAtGate DEF Prompted
    <2>3. Known(e[1]) /\ e = Of(e[1])
        BY <2>2, Slots DEF Known, Of
    <2>4. ~Going(entry[Of(e[1])]) \/ entry[Of(e[1])].cancel
        BY <2>2, <2>3 DEF AnyRunnerInv, Retained
    <2> QED BY <2>2, <2>3, <2>4
<1>4. ASSUME NEW e \in Entries, Worker(e) PROVE UNCHANGED prompts
    BY <1>3, <1>4 DEF Worker, SetupFails, Interrupted, WorkerLeaves, EnterGate, Step, Persist, PassFence, Written,
       TurnLost, Answered, history
<1>5. ASSUME NEW e \in Entries, Progress(e) \/ Publish(e) \/ Age(e) PROVE UNCHANGED prompts
    BY <1>5 DEF Progress, Step, Publish, Age, history
<1>6. CASE SweepRemove \/ StartCleans
    BY <1>6, RemovedPrompts DEF SweepRemove, StartCleans
<1>7. CASE \/ SweepCollect \/ StopFlag \/ StopFence \/ StopDone \/ \E r \in Runs : StopCancel(r)
           \/ Restart \/ RestartFails
    BY <1>2, <1>7 DEF SweepCollect, StopFlag, StopFence, StopDone, StopCancel, Restart, RestartFails, history
<1>8. ASSUME NEW r \in Runs, NEW p \in 1 .. MaxProcs, Request(r, p) PROVE UNCHANGED prompts
    BY <1>8 DEF Request, StartKnown, StartRefused, StartRecorded, StartUnreadable, StartNew, StartWriteFails,
       Cancel, history
<1>9. CASE UNCHANGED runnerVars
    BY <1>2, <1>9 DEF runnerVars, history
<1> QED BY <1>2, <1>4, <1>5, <1>6, <1>7, <1>8, <1>9 DEF RunnerNext, RunnerStep

(* Once stop_accepting has returned, this process hands over no prompt. *)
THEOREM StoppedMeansNoPrompt ==
    ASSUME ~SweepRaces
    PROVE  RunnerSpec => NoPromptAfterStop
<1>1. AnyRunnerInv /\ [RunnerNext]_runnerVars
        => [accepting = "no" => \A r \in Runs : prompts'[r] <= prompts[r]]_runnerVars
    BY NoPromptStep
<1> QED BY <1>1, AnyRunnerInvariant, PTL DEF RunnerSpec, NoPromptAfterStop
=============================================================================
