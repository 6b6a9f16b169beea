---------------------------- MODULE AgentTasksProofs ----------------------------
EXTENDS AgentTasks, FiniteSetTheorems, TLAPS
(***************************************************************************)
(* Proofs about the dispatch of an Agent Task, for any handlers, and any   *)
(* number of attempts, calls, Runner processes and revisions.  Nothing is  *)
(* supposed besides TaskAssumption and NoneAssumption.                     *)
(*                                                                         *)
(* The argument: TasksInv (AgentTasks) says that every report of a run     *)
(* that anybody holds is true of it and stays true (Says: of a run that    *)
(* its process may still prompt nothing ends but that it is lost), and     *)
(* that an attempt whose binding is not dispatchable is in the hands of at *)
(* most one claimant, whose run has not begun until its start is handled.  *)
(* HandlerStep, TaskStep, ServerStep and RunnerStep are the frames of the  *)
(* steps of each part; a run goes on (RunGoes) when nothing that is said   *)
(* of it becomes false.                                                    *)
(***************************************************************************)

(***************************************************************************)
(* Values.                                                                 *)
(***************************************************************************)
(* The fields of a report are typed. *)
LEMMA SnapParts ==
    ASSUME NEW s \in Snapshot
    PROVE  /\ s # None /\ s.st \in RunState /\ s.ex \in ExecutionState /\ s.rev \in Revs /\ s.rev \in Nat
           /\ s.pi \in 1..MaxProcs /\ s.pi # 0
           /\ s = [st |-> s.st, ex |-> s.ex, rev |-> s.rev, pi |-> s.pi]
    BY NoneAssumption, TaskAssumption DEF Snapshot, Snapshots, Revs

(* Snap makes a report. *)
LEMMA SnapMade ==
    ASSUME NEW st \in RunState, NEW ex \in ExecutionState, NEW rev \in Revs, NEW p \in 1..MaxProcs
    PROVE  /\ Snap(st, ex, rev, p) \in Snapshot /\ Snap(st, ex, rev, p) # None
           /\ Snap(st, ex, rev, p).st = st /\ Snap(st, ex, rev, p).ex = ex
           /\ Snap(st, ex, rev, p).rev = rev /\ Snap(st, ex, rev, p).pi = p
    BY NoneAssumption DEF Snapshot, Snapshots, Snap

(* The fields of a binding in the store are typed. *)
LEMMA BindingParts ==
    ASSUME NEW b \in Binding
    PROVE  /\ b # None /\ b.ds \in {"prepared", "not_started", "outcome_unknown", "bound", "terminal"}
           /\ b.pi \in 1..MaxProcs /\ b.s \in Snapshot \cup {None}
           /\ b = [ds |-> b.ds, pi |-> b.pi, s |-> b.s]
    BY NoneAssumption DEF Binding

(* The fields of a binding in the Server are typed. *)
LEMMA ServerBindingParts ==
    ASSUME NEW b \in ServerBinding
    PROVE  b # None /\ b.s \in Snapshot /\ b.inst \in 1..MaxProcs
    BY NoneAssumption DEF ServerBinding

(* What a handler holds. *)
Held == [pc : CallPc, n : 0..MaxAttempts, p : 0..MaxProcs, s : Snapshot \cup {None}]

(* The types of the state, run by run and handler by handler. *)
LEMMA Rows ==
    ASSUME TasksInv
    PROVE  /\ \A n \in Runs : /\ bind[n] \in Binding \cup {None} /\ sb[n] \in ServerBinding \cup {None}
                              /\ inv[n] \in Snapshot \cup {None} /\ rep[n] \in Snapshot \cup {None}
                              /\ owner[n] \in -1..MaxProcs /\ owner[n] <= proc
                              /\ prompts[n] \in {0, 1} /\ answer[n] \in Endings \cup {"none"}
           /\ \A c \in Callers : /\ call[c] \in Held /\ call[c].pc \in CallPc /\ call[c].n \in 0..MaxAttempts
                                 /\ call[c].p \in 0..MaxProcs /\ call[c].s \in Snapshot \cup {None}
           /\ proc \in 1..MaxProcs /\ reg \in 0..MaxProcs /\ proc \in Nat /\ reg \in Nat
           /\ Runs = 1..MaxAttempts /\ MaxAttempts \in Nat /\ MaxProcs \in Nat /\ MaxRev \in Nat
    BY TaskAssumption DEF TasksInv, TypeOK, RunsInv, Held

(***************************************************************************)
(* What is said of a run.                                                  *)
(***************************************************************************)
(* A run that anything is said of was admitted by a process. *)
LEMMA Admitted ==
    ASSUME TasksInv, NEW r \in Runs, NEW s \in Snapshot, Says(r, s)
    PROVE  /\ owner[r] \in 1..MaxProcs /\ s.pi = owner[r] /\ TrueReport(s, prompts[r], answer[r])
           /\ s.st \in Terminal => s.st \in EndsOf(r)
           /\ s.st \notin Terminal => s.rev <= MaxRev + 2
    BY SnapParts DEF Says, Faithful

(* Nothing said is as good as the truth. *)
LEMMA NothingSaid ==
    ASSUME NEW r
    PROVE  Says(r, None)
    BY DEF Says, Faithful

(* A run that the Server gives up is lost, whatever became of it. *)
LEMMA LostSays ==
    ASSUME TasksInv, NEW r \in Runs, NEW s \in Snapshot, Says(r, s), NEW l,
           l.st = "lost", l.ex = "outcome_unknown", l.pi = s.pi
    PROVE  Says(r, l)
<1>1. l.pi = owner[r]
    BY Admitted
<1> QED BY <1>1 DEF Says, Faithful, TrueReport, EndsOf, Terminal, Definitive

(* What the Server makes of its binding of a run. *)
BoundTo(r, q) ==
    /\ q.ok \in BOOLEAN /\ q.b \in ServerBinding \cup {None}
    /\ q.b # None => Says(r, q.b.s)

(* A report of the run that is bound, or merged into the binding, leaves   *)
(* the Server believing what is said of the run.                           *)
LEMMA BindServerSays ==
    ASSUME TasksInv, NEW r \in Runs, NEW b \in ServerBinding \cup {None}, b # None => Says(r, b.s),
           NEW s \in Snapshot, Says(r, s), NEW inst \in 1..MaxProcs,
           NEW q, q = BindServer(b, s, inst)
    PROVE  BoundTo(r, q) /\ q.b # None
<1>1. [s |-> s, inst |-> inst] \in ServerBinding /\ [s |-> s, inst |-> inst] # None
    BY NoneAssumption DEF ServerBinding
<1>2. CASE q.b = b /\ b # None /\ q.ok \in BOOLEAN
    BY <1>2 DEF BoundTo
<1>3. CASE q.b = [s |-> s, inst |-> inst] /\ q.ok
    <2>1. [s |-> s, inst |-> inst].s = s
        OBVIOUS
    <2> QED BY <1>1, <1>3, <2>1 DEF BoundTo
<1>4. \/ q.b = b /\ b # None /\ q.ok \in BOOLEAN
      \/ q.b = [s |-> s, inst |-> inst] /\ q.ok
    <2>1. CASE b = None
        BY <2>1 DEF BindServer
    <2>2. CASE b # None
        <3>1. CASE q = [b |-> b, ok |-> FALSE]
            BY <2>2, <3>1
        <3>2. CASE q = [b |-> [s |-> s, inst |-> inst], ok |-> TRUE]
            BY <3>2
        <3>3. CASE q = [b |-> b, ok |-> TRUE]
            BY <2>2, <3>3
        <3> QED BY <2>2, <3>1, <3>2, <3>3 DEF BindServer
    <2> QED BY <2>1, <2>2
<1> QED BY <1>2, <1>3, <1>4

(* A binding that is given up says that the run is lost. *)
LEMMA MarkLostSays ==
    ASSUME TasksInv, NEW r \in Runs, NEW b \in ServerBinding, Says(r, b.s)
    PROVE  BoundTo(r, Kept(MarkLost(b))) /\ Kept(MarkLost(b)).ok
<1>0. b.s \in Snapshot /\ b.inst \in 1..MaxProcs /\ b = [s |-> b.s, inst |-> b.inst]
    BY DEF ServerBinding
<1>1. CASE b.s.st \in Terminal
    BY <1>1 DEF Kept, MarkLost, BoundTo
<1>2. CASE b.s.st \notin Terminal
    <2> DEFINE l == Snap("lost", "outcome_unknown", b.s.rev + 1, b.s.pi)
    <2>1. b.s.rev \in Nat /\ b.s.rev <= MaxRev + 2 /\ b.s.pi \in 1..MaxProcs
        BY <1>0, <1>2, Admitted, SnapParts
    <2>2. l \in Snapshot
        BY <2>1, SnapMade, TaskAssumption DEF Revs, RunState, ExecutionState, Terminal
    <2>3. Says(r, l)
        <3>1. l.st = "lost" /\ l.ex = "outcome_unknown" /\ l.pi = b.s.pi
            BY DEF Snap
        <3> HIDE DEF l
        <3> QED BY <1>0, <3>1, LostSays
    <2> HIDE DEF l
    <2>4. MarkLost(b) = [b EXCEPT !.s = l]
        BY <1>2 DEF MarkLost, l
    <2>5. [b EXCEPT !.s = l] = [s |-> l, inst |-> b.inst]
        BY <1>0
    <2>6. [s |-> l, inst |-> b.inst] \in ServerBinding
        BY <1>0, <2>2 DEF ServerBinding
    <2> QED BY <2>3, <2>4, <2>5, <2>6 DEF Kept, BoundTo
<1> QED BY <1>1, <1>2

(* What reconcile_run finds is bound to what is said of the run. *)
LEMMA ReconcileRunSays ==
    ASSUME TasksInv, NEW r \in Runs
    PROVE  BoundTo(r, ReconcileRun(r))
<1> DEFINE b == sb[r] s == inv[r]
<1>0. /\ b \in ServerBinding \cup {None} /\ s \in Snapshot \cup {None} /\ Says(r, s)
      /\ b # None => Says(r, b.s)
      /\ s # None => reg \in 1..MaxProcs
    BY Rows DEF TasksInv, SaidInv, RunsInv
<1> HIDE DEF b, s
<1>1. BoundTo(r, Kept(None)) /\ (b # None => BoundTo(r, Kept(b)))
    BY <1>0 DEF BoundTo, Kept
<1>2. b # None => BoundTo(r, Kept(MarkLost(b)))
    BY <1>0, MarkLostSays
<1>3. s # None => BoundTo(r, BindServer(b, s, reg))
    BY <1>0, BindServerSays
<1>4. s # None => BoundTo(r, BindServer(None, s, reg))
    BY <1>0, BindServerSays
<1>5. \/ ReconcileRun(r) = Kept(None)
      \/ s # None /\ ReconcileRun(r) = BindServer(None, s, reg)
      \/ b # None /\ ReconcileRun(r) = Kept(MarkLost(b))
      \/ s # None /\ ReconcileRun(r) = BindServer(b, s, reg)
      \/ b # None /\ ReconcileRun(r) = Kept(b)
    BY DEF ReconcileRun, b, s
<1> QED BY <1>1, <1>2, <1>3, <1>4, <1>5

(***************************************************************************)
(* What the store has observed.                                            *)
(***************************************************************************)
(* A binding goes on: what is observed of its run advances, its end stays. *)
Advances(b, v) ==
    b # None =>
        /\ v # None
        /\ b.s # None => v.s # None /\ v.s.rev >= b.s.rev /\ (Ended(b) => v.s = b.s)

(* A report that advances another is newer, and the other is no end. *)
LEMMA Merging ==
    ASSUME NEW s \in Snapshot, NEW t \in Snapshot, Merge(s, t) = "advance"
    PROVE  s.rev < t.rev /\ s.st \notin Definitive
<1>0. s.rev \in Nat /\ t.rev \in Nat
    BY SnapParts
<1>1. CASE s.pi # t.pi
    BY <1>1 DEF Merge
<1>2. CASE s.pi = t.pi /\ t.rev < s.rev
    BY <1>0, <1>2 DEF Merge
<1>3. CASE s.pi = t.pi /\ t.rev = s.rev
    BY <1>0, <1>3 DEF Merge
<1>4. CASE s.pi = t.pi /\ t.rev > s.rev
    <2>1. MayFollow(s, t)
        BY <1>0, <1>4 DEF Merge
    <2> QED BY <1>0, <1>4, <2>1 DEF MayFollow
<1> QED BY <1>0, <1>1, <1>2, <1>3, <1>4

(* The same for the report of a binding in the store. *)
LEMMA StoreMerging ==
    ASSUME NEW b \in Binding, NEW s \in Snapshot, StoreMerge(b, s) = "advance"
    PROVE  b.s # None => b.s \in Snapshot /\ b.s.rev <= s.rev /\ ~Ended(b)
<1> SUFFICES ASSUME b.s # None PROVE b.s \in Snapshot /\ b.s.rev <= s.rev /\ ~Ended(b)
    OBVIOUS
<1>1. b.s \in Snapshot
    BY BindingParts
<1>2. Merge(b.s, s) = "advance"
    BY DEF StoreMerge
<1>3. b.s.rev \in Nat /\ s.rev \in Nat
    BY <1>1, SnapParts
<1> QED BY <1>1, <1>2, <1>3, Merging DEF Ended

(* A binding that keeps its report advances. *)
LEMMA SameReport ==
    ASSUME NEW b \in Binding \cup {None}, NEW v, v # None, b # None => v.s = b.s
    PROVE  Advances(b, v)
<1> SUFFICES ASSUME b # None, b.s # None PROVE v.s.rev >= b.s.rev
    BY DEF Advances
<1>1. b.s \in Snapshot
    BY BindingParts
<1> QED BY <1>1, SnapParts

(* What is observed of a run is recorded, or the binding stays. *)
LEMMA ObservedGoes ==
    ASSUME NEW r, NEW b \in Binding, Says(r, b.s), NEW s \in Snapshot, Says(r, s),
           NEW v, v = Observed(b, s)
    PROVE  /\ v \in Binding /\ Says(r, v.s) /\ Advances(b, v)
           /\ v.ds = b.ds \/ v.ds \in {"bound", "outcome_unknown"}
           /\ StoreMerge(b, s) = "advance" => v.s = s
           /\ StoreMerge(b, s) # "advance" => v = b
<1>1. CASE StoreMerge(b, s) # "advance"
    <2>1. v = b
        BY <1>1 DEF Observed
    <2> QED BY <1>1, <2>1, BindingParts, SameReport
<1>2. CASE StoreMerge(b, s) = "advance"
    <2> DEFINE ds == IF s.st = "lost" \/ s.ex = "outcome_unknown" THEN "outcome_unknown" ELSE "bound"
    <2>1. ds \in {"bound", "outcome_unknown"}
        OBVIOUS
    <2>2. v = [b EXCEPT !.s = s, !.ds = ds]
        BY <1>2 DEF Observed
    <2> HIDE DEF ds
    <2>3. b \in [ds : {"prepared", "not_started", "outcome_unknown", "bound", "terminal"},
                 pi : 1..MaxProcs, s : Snapshot \cup {None}]
        BY DEF Binding
    <2>4. v \in Binding /\ v.s = s /\ v.ds = ds
        BY <2>1, <2>2, <2>3 DEF Binding
    <2>5. s # None /\ s.rev \in Nat /\ v # None
        BY <2>4, SnapParts, BindingParts
    <2>6. b.s # None => s.rev >= b.s.rev /\ ~Ended(b)
        <3>1. b.s # None => b.s \in Snapshot /\ b.s.rev <= s.rev /\ ~Ended(b)
            BY <1>2, StoreMerging
        <3>2. b.s # None => b.s.rev \in Nat
            BY <3>1, SnapParts
        <3> QED BY <2>5, <3>1, <3>2
    <2>7. Advances(b, v)
        BY <2>4, <2>5, <2>6 DEF Advances
    <2> QED BY <1>2, <2>1, <2>4, <2>7
<1> QED BY <1>1, <1>2

(***************************************************************************)
(* A handler goes on.                                                      *)
(***************************************************************************)
(* The other handlers stay where they are. *)
Goes(c) == call'[c] \in Held /\ call' = [call EXCEPT ![c] = call'[c]]

(* One handler moves, and the handlers keep their types. *)
LEMMA GoesTyped ==
    ASSUME TasksInv, NEW c \in Callers, Goes(c)
    PROVE  call' \in [Callers -> Held] /\ \A d \in Callers \ {c} : call'[d] = call[d]
    BY DEF TasksInv, TypeOK, Held, Goes

(* Where Goto takes a handler. *)
LEMMA Going ==
    ASSUME TasksInv, NEW c \in Callers, NEW pc \in CallPc, Goto(c, pc)
    PROVE  /\ Goes(c) /\ call'[c].pc = pc /\ call'[c].n = call[c].n
           /\ call'[c].p = call[c].p /\ call'[c].s = call[c].s
    BY DEF TasksInv, TypeOK, Held, Goes, Goto

(* Where GotoWith takes a handler. *)
LEMMA GoingWith ==
    ASSUME TasksInv, NEW c \in Callers, NEW pc \in CallPc, NEW s \in Snapshot \cup {None}, GotoWith(c, pc, s)
    PROVE  /\ Goes(c) /\ call'[c].pc = pc /\ call'[c].n = call[c].n
           /\ call'[c].p = call[c].p /\ call'[c].s = s
    BY DEF TasksInv, TypeOK, Held, Goes, GotoWith

(* Where Leave takes a handler. *)
LEMMA Leaving ==
    ASSUME TasksInv, NEW c \in Callers, Leave(c)
    PROVE  Goes(c) /\ call'[c].pc = "idle" /\ call'[c].n = 0 /\ call'[c].s = None
    BY TaskAssumption DEF TasksInv, TypeOK, Held, Goes, Leave, Idle, CallPc

(* Where a call begins. *)
LEMMA Beginning ==
    ASSUME TasksInv, NEW c \in Callers, NEW pc \in CallPc, NEW n \in Runs, NEW p \in 0..MaxProcs,
           NEW s \in Snapshot \cup {None}, Begins(c, pc, n, p, s)
    PROVE  /\ Goes(c) /\ call[c].pc = "idle" /\ calls' \in 0..MaxCalls
           /\ call'[c].pc = pc /\ call'[c].n = n /\ call'[c].p = p /\ call'[c].s = s
<1> DEFINE k == [pc |-> pc, n |-> n, p |-> p, s |-> s]
<1>1. k \in Held /\ k.pc = pc /\ k.n = n /\ k.p = p /\ k.s = s
    BY TaskAssumption DEF Held
<1> HIDE DEF k
<1>2. call' = [call EXCEPT ![c] = k] /\ At(c, "idle") /\ calls < MaxCalls /\ calls' = calls + 1
    BY DEF Begins, k
<1>3. call \in [Callers -> Held] /\ calls \in 0..MaxCalls
    BY DEF TasksInv, TypeOK, Held
<1>4. call'[c] = k
    BY <1>2, <1>3
<1> QED BY <1>1, <1>2, <1>3, <1>4, TaskAssumption DEF Goes, At

Early == {"claimed", "enqueue", "queued", "lost_queued", "not_started"}
Sending == Early \cup {"sent", "answered", "lost_sent"}
Dispatchable(b) == b = None \/ MayDispatch(b)

(* The parts of ClaimInv. *)
LEMMA Claims ==
    ASSUME TasksInv
    PROVE  /\ \A c \in Callers, n \in Runs : Dispatching(c, n) <=> call[c].n = n /\ call[c].pc \in Sending
           /\ \A n \in Runs : Dispatchable(bind[n]) \/ n # task.latest =>
                 Untouched(n) /\ \A c \in Callers : ~Dispatching(c, n)
           /\ \A n \in Runs, c, d \in Callers : Dispatching(c, n) /\ Dispatching(d, n) => c = d
           /\ \A c \in Callers : call[c].pc \in Early => Untouched(call[c].n)
           /\ \A n \in wire : prompts[n] = 0 /\ ~Live(n)
    BY DEF TasksInv, ClaimInv, Dispatchable, Dispatching, Early, Sending

(* The call of c, about run n, goes on. *)
CallGoes(c, n) ==
    /\ Goes(c) /\ call'[c].n \in {0, n} /\ calls' \in 0..MaxCalls
    /\ Says(n, call'[c].s) /\ CallInv(call[c])'

(* The Server's binding of run n changes. *)
ServerGoes(n) ==
    /\ sb' = [sb EXCEPT ![n] = sb'[n]] /\ sb'[n] \in ServerBinding \cup {None}
    /\ sb'[n] # None => Says(n, sb'[n].s)

(* The store's binding of attempt n changes. *)
BindGoes(n) ==
    /\ bind' = [bind EXCEPT ![n] = bind'[n]] /\ bind'[n] \in Binding \cup {None}
    /\ bind'[n] # None => Says(n, bind'[n].s)
    /\ Advances(bind[n], bind'[n])

(* The claim of attempt n is taken, carried on or given back by c. *)
ClaimGoes(c, n) ==
    /\ call'[c].pc \in Sending =>
          /\ ~Dispatchable(bind'[n]) /\ n = task.latest
          /\ Dispatching(c, n) \/ \A d \in Callers : ~Dispatching(d, n)
    /\ call'[c].pc \in Early => Untouched(n) /\ wire' = wire
    /\ Dispatchable(bind'[n]) => Dispatchable(bind[n]) \/ (Untouched(n) /\ Dispatching(c, n))
    /\ \/ wire' = wire
       \/ wire' = wire \cup {n} /\ call'[c].pc = "sent" /\ Dispatching(c, n) /\ Untouched(n)

(* The task and its attempts stay in their types, the latest the latest. *)
TaskGoes ==
    /\ task' \in [st : {"ready", "active", "reported", "succeeded", "failed"}, latest : 0..MaxAttempts]
    /\ att' \in [Runs -> {"none", "active", "lapsed", "expired", "reported", "succeeded", "failed"}]
    /\ task'.latest = task.latest

(* A step of a handler keeps the types and leaves the runs. *)
LEMMA HandlerTypes ==
    ASSUME TasksInv, NEW c \in Callers, NEW n \in Runs, UNCHANGED <<runVars, reg, inv>>,
           CallGoes(c, n), ServerGoes(n), BindGoes(n), ClaimGoes(c, n), TaskGoes
    PROVE  TypeOK' /\ RunsInv'
<1>1. bind' \in [Runs -> Binding \cup {None}] /\ sb' \in [Runs -> ServerBinding \cup {None}]
    BY DEF TasksInv, TypeOK, BindGoes, ServerGoes
<1>2. call' \in [Callers -> Held]
    BY GoesTyped DEF CallGoes
<1>3. wire' \subseteq Runs
    BY DEF TasksInv, TypeOK, ClaimGoes
<1>4. TypeOK'
    BY <1>1, <1>2, <1>3 DEF TasksInv, TypeOK, TaskGoes, CallGoes, Held
<1>5. RunsInv'
    BY DEF TasksInv, RunsInv, runVars, Live
<1> QED BY <1>4, <1>5

(* A step of a handler leaves said what is said of the runs. *)
LEMMA HandlerSays ==
    ASSUME TasksInv, NEW c \in Callers, NEW n \in Runs, UNCHANGED <<runVars, reg, inv>>,
           CallGoes(c, n), ServerGoes(n), BindGoes(n)
    PROVE  SaidInv'
<1> SUFFICES ASSUME NEW r \in Runs
             PROVE  /\ Says(r, rep[r])' /\ Says(r, inv[r])'
                    /\ (sb[r] # None => Says(r, sb[r].s))'
                    /\ (bind[r] # None => Says(r, bind[r].s))'
                    /\ \A d \in Callers : (call[d].n = r => Says(r, call[d].s))'
    BY DEF SaidInv
<1>0. /\ Says(r, rep[r]) /\ Says(r, inv[r])
      /\ sb[r] # None => Says(r, sb[r].s)
      /\ bind[r] # None => Says(r, bind[r].s)
      /\ \A d \in Callers : call[d].n = r => Says(r, call[d].s)
    BY DEF TasksInv, SaidInv
<1>1. owner' = owner /\ prompts' = prompts /\ answer' = answer /\ rep' = rep /\ proc' = proc
    BY DEF runVars
<1>2. EndsOf(r)' = EndsOf(r)
    BY <1>1 DEF EndsOf, Young, Live
<1>3. Says(r, rep[r])' /\ Says(r, inv[r])'
    BY <1>0, <1>1, <1>2 DEF Says
<1>4. (sb[r] # None => Says(r, sb[r].s))'
    <2>1. sb'[r] # None => Says(r, sb'[r].s)
        BY <1>0 DEF Says, ServerGoes, TasksInv, TypeOK
    <2> QED BY <2>1, <1>1, <1>2 DEF Says
<1>5. (bind[r] # None => Says(r, bind[r].s))'
    <2>1. bind'[r] # None => Says(r, bind'[r].s)
        BY <1>0 DEF Says, BindGoes, TasksInv, TypeOK
    <2> QED BY <2>1, <1>1, <1>2 DEF Says
<1>6. ASSUME NEW d \in Callers, call'[d].n = r PROVE Says(r, call[d].s)'
    <2>1. Says(r, call'[d].s)
        <3>1. CASE d = c
            BY <3>1, <1>6, TaskAssumption DEF Says, CallGoes
        <3>2. CASE d # c
            BY <3>2, <1>0, <1>6, GoesTyped DEF Says, CallGoes
        <3> QED BY <3>1, <3>2
    <2> QED BY <2>1, <1>1, <1>2 DEF Says
<1> QED BY <1>3, <1>4, <1>5, <1>6

(* A step of a handler keeps an attempt in the hands of one claimant. *)
LEMMA HandlerClaims ==
    ASSUME TasksInv, NEW c \in Callers, NEW n \in Runs, UNCHANGED runVars,
           CallGoes(c, n), BindGoes(n), ClaimGoes(c, n), TaskGoes
    PROVE  ClaimInv'
<1>0. /\ \A d \in Callers \ {c} : call'[d] = call[d]
      /\ \A m \in Runs \ {n} : bind'[m] = bind[m]
      /\ \A m \in Runs : m # n => (m \in wire' <=> m \in wire)
      /\ \A m \in Runs : prompts'[m] = prompts[m] /\ (Live(m)' <=> Live(m))
      /\ wire' \subseteq Runs /\ wire \subseteq Runs
    BY GoesTyped DEF CallGoes, BindGoes, ClaimGoes, runVars, Live, TasksInv, TypeOK
<1>1. ASSUME NEW d \in Callers, NEW m \in Runs
      PROVE  Dispatching(d, m)' <=> call'[d].n = m /\ call'[d].pc \in Sending
    BY DEF Dispatching, Sending, Early
<1>2. ASSUME NEW d \in Callers, NEW m \in Runs, Dispatching(d, m)'
      PROVE  (d # c /\ Dispatching(d, m)) \/ (d = c /\ m = n /\ call'[c].pc \in Sending)
    <2>1. CASE d = c
        BY <2>1, <1>1, <1>2, TaskAssumption DEF CallGoes
    <2>2. CASE d # c
        BY <2>2, <1>0, <1>1, <1>2, Claims
    <2> QED BY <2>1, <2>2
<1>3. ASSUME NEW m \in Runs, Dispatchable(bind'[m]) \/ m # task.latest
      PROVE  Untouched(m)' /\ \A d \in Callers : ~Dispatching(d, m)'
    <2>1. CASE m # n
        BY <2>1, <1>0, <1>2, <1>3, Claims DEF Untouched
    <2>2. CASE m = n
        <3>1. call'[c].pc \notin Sending /\ wire' = wire
            BY <1>3, <2>2, Claims DEF ClaimGoes, Sending
        <3>2. Untouched(n) /\ \A d \in Callers \ {c} : ~Dispatching(d, n)
            BY <1>3, <2>2, Claims DEF ClaimGoes
        <3> QED BY <1>0, <1>2, <2>2, <3>1, <3>2 DEF Untouched
    <2> QED BY <2>1, <2>2
<1>4. ASSUME NEW m \in Runs, NEW d \in Callers, NEW e \in Callers, Dispatching(d, m)', Dispatching(e, m)'
      PROVE  d = e
    BY <1>2, <1>4, Claims DEF ClaimGoes
<1>5. ASSUME NEW d \in Callers, call'[d].pc \in Early
      PROVE  Untouched(call[d].n)'
    <2>1. CASE d = c
        <3>1. call'[c].n = n
            BY <2>1, <1>5, TaskAssumption DEF CallGoes, CallInv, Early
        <3> QED BY <2>1, <3>1, <1>0, <1>5 DEF ClaimGoes, Untouched
    <2>2. CASE d # c
        <3>1. Untouched(call[d].n) /\ call[d].n \in Runs /\ Dispatching(d, call[d].n)
            BY <2>2, <1>0, <1>5, Claims DEF TasksInv, CallInv, Early, Sending
        <3>2. call[d].n \notin wire'
            BY <3>1, <2>2, Claims DEF ClaimGoes, Untouched
        <3> QED BY <2>2, <3>1, <3>2, <1>0 DEF Untouched
    <2> QED BY <2>1, <2>2
<1>6. ASSUME NEW m \in wire' PROVE prompts'[m] = 0 /\ ~Live(m)'
    BY <1>0, <1>6, Claims DEF ClaimGoes, Untouched
<1> QED BY <1>3, <1>4, <1>5, <1>6 DEF ClaimInv, Dispatchable, Early, TaskGoes

(* The frame of every step of a handler: what its call, the bindings, the  *)
(* claim and the task may do.                                              *)
LEMMA HandlerStep ==
    ASSUME TasksInv, NEW c \in Callers, NEW n \in Runs, UNCHANGED <<runVars, reg, inv>>,
           CallGoes(c, n), ServerGoes(n), BindGoes(n), ClaimGoes(c, n), TaskGoes, EndInv'
    PROVE  TasksInv'
<1>1. ASSUME NEW d \in Callers PROVE CallInv(call[d])'
    <2>1. CASE d = c
        BY <2>1 DEF CallGoes
    <2>2. CASE d # c
        <3>1. call'[d] = call[d] /\ CallInv(call[d]) /\ call[d] \in Held
            BY <2>2, GoesTyped, Rows DEF CallGoes, TasksInv
        <3>2. \A m \in Runs : bind[m] # None => bind'[m] # None
            BY DEF BindGoes, Advances, TasksInv, TypeOK
        <3> QED BY <3>1, <3>2 DEF CallInv
    <2> QED BY <2>1, <2>2
<1> QED BY <1>1, HandlerTypes, HandlerSays, HandlerClaims DEF TasksInv

(***************************************************************************)
(* Handlers that leave the store alone.                                    *)
(***************************************************************************)
(* A binding of the Server that stays goes on. *)
LEMMA SameServer ==
    ASSUME TasksInv, NEW n \in Runs, UNCHANGED sb
    PROVE  ServerGoes(n)
<1>1. sb[n] \in ServerBinding \cup {None} /\ (sb[n] # None => Says(n, sb[n].s)) /\ sb = [sb EXCEPT ![n] = sb[n]]
    BY Rows DEF TasksInv, SaidInv, TypeOK
<1> QED BY <1>1 DEF ServerGoes, Says

(* The Server's binding of a run is set to what it was bound to. *)
LEMMA SetServer ==
    ASSUME TasksInv, NEW n \in Runs, NEW q, BoundTo(n, q), SetBinding(n, q.b)
    PROVE  ServerGoes(n)
<1>1. sb'[n] = q.b
    BY DEF SetBinding, TasksInv, TypeOK
<1> QED BY <1>1 DEF ServerGoes, SetBinding, BoundTo, Says

(* A binding of the store that stays goes on. *)
LEMMA SameBind ==
    ASSUME TasksInv, NEW n \in Runs, UNCHANGED bind
    PROVE  BindGoes(n)
<1>1. bind[n] \in Binding \cup {None} /\ (bind[n] # None => Says(n, bind[n].s)) /\ bind = [bind EXCEPT ![n] = bind[n]]
    BY Rows DEF TasksInv, SaidInv, TypeOK
<1>2. Advances(bind[n], bind[n])
    BY <1>1, SameReport DEF Advances
<1> QED BY <1>1, <1>2 DEF BindGoes, Says

(* A task that stays goes on. *)
LEMMA SameTask ==
    ASSUME TasksInv, UNCHANGED <<task, att>>
    PROVE  TaskGoes
    BY DEF TaskGoes, TasksInv, TypeOK

(* What the task ended with stays. *)
LEMMA EndKept ==
    ASSUME TasksInv, NEW n \in Runs, BindGoes(n), UNCHANGED task,
           bind'[n] # None /\ bind'[n].ds = "terminal" => bind[n] # None /\ bind[n].ds = "terminal"
    PROVE  EndInv'
<1>1. \A m \in Runs \ {n} : bind'[m] = bind[m]
    BY DEF BindGoes, TasksInv, TypeOK
<1>2. \A m \in Runs : bind'[m] # None /\ bind'[m].ds = "terminal" => bind[m] # None /\ bind[m].ds = "terminal"
    BY <1>1
<1>3. ASSUME NEW m \in Runs, bind[m] # None, bind[m].s # None, Ended(bind[m])
      PROVE  bind'[m] # None /\ bind'[m].s = bind[m].s
    BY <1>1, <1>3 DEF BindGoes, Advances
<1>4. TaskOver' <=> TaskOver
    BY DEF TaskOver
<1> QED BY <1>2, <1>3, <1>4 DEF TasksInv, EndInv, Ended

(* What the invariant says of the handler of c. *)
LEMMA CallNow ==
    ASSUME TasksInv, NEW c \in Callers, call[c].pc # "idle"
    PROVE  /\ call[c].n \in Runs /\ CallInv(call[c]) /\ Says(call[c].n, call[c].s) /\ call[c] \in Held
           /\ Dispatching(c, call[c].n) <=> call[c].pc \in Sending
           /\ call[c].pc \in Early => Untouched(call[c].n)
           /\ call[c].pc \in Sending => call[c].n = task.latest /\ ~Dispatchable(bind[call[c].n])
<1>1. CallInv(call[c]) /\ call[c].n \in Runs
    BY DEF TasksInv, CallInv
<1> QED BY <1>1, Claims, Rows DEF TasksInv, SaidInv

(* A call that ends goes on. *)
LEMMA LeaveGoes ==
    ASSUME TasksInv, NEW c \in Callers, NEW n, Leave(c), UNCHANGED calls
    PROVE  CallGoes(c, n) /\ call'[c].pc = "idle"
<1>1. Goes(c) /\ call'[c].pc = "idle" /\ call'[c].n = 0 /\ call'[c].s = None
    BY Leaving
<1> QED BY <1>1, NothingSaid DEF CallGoes, CallInv, Says, TasksInv, TypeOK

(* A call that goes to another point goes on. *)
LEMMA GotoGoes ==
    ASSUME TasksInv, NEW c \in Callers, NEW pc \in CallPc, call[c].pc # "idle", Goto(c, pc), UNCHANGED calls,
           pc \notin {"idle", "reconcile", "observed", "ended"} => call[c].p # 0,
           pc \in {"answered", "run", "ended", "asked"} => call[c].s # None,
           bind'[call[c].n] # None
    PROVE  CallGoes(c, call[c].n) /\ call'[c].pc = pc
<1>1. /\ Goes(c) /\ call'[c].pc = pc /\ call'[c].n = call[c].n
      /\ call'[c].p = call[c].p /\ call'[c].s = call[c].s
    BY Going
<1>2. call[c].n \in Runs /\ Says(call[c].n, call[c].s)
    BY CallNow
<1> QED BY <1>1, <1>2 DEF CallGoes, CallInv, Says, TasksInv, TypeOK

(* A call that goes on with what is said of its run goes on. *)
LEMMA GotoWithGoes ==
    ASSUME TasksInv, NEW c \in Callers, NEW pc \in CallPc, NEW s \in Snapshot \cup {None}, call[c].pc # "idle",
           GotoWith(c, pc, s), UNCHANGED calls, Says(call[c].n, s),
           pc \notin {"idle", "reconcile", "observed", "ended"} => call[c].p # 0,
           pc \in {"answered", "run", "ended", "asked"} => s # None,
           bind'[call[c].n] # None
    PROVE  CallGoes(c, call[c].n) /\ call'[c].pc = pc
<1>1. /\ Goes(c) /\ call'[c].pc = pc /\ call'[c].n = call[c].n
      /\ call'[c].p = call[c].p /\ call'[c].s = s
    BY GoingWith
<1>2. call[c].n \in Runs
    BY CallNow
<1> QED BY <1>1, <1>2 DEF CallGoes, CallInv, Says, TasksInv, TypeOK

(* A call that begins goes on. *)
LEMMA BeginGoes ==
    ASSUME TasksInv, NEW c \in Callers, NEW pc \in {"view", "reconcile", "asked"}, NEW n \in Runs, NEW p \in 0..MaxProcs,
           NEW s \in Snapshot \cup {None}, Begins(c, pc, n, p, s), Says(n, s),
           pc # "reconcile" => p # 0, pc = "asked" => s # None, bind'[n] # None \/ pc # "reconcile"
    PROVE  CallGoes(c, n) /\ call'[c].pc = pc
<1>1. pc \in CallPc
    BY DEF CallPc
<1>2. /\ Goes(c) /\ calls' \in 0..MaxCalls
      /\ call'[c].pc = pc /\ call'[c].n = n /\ call'[c].p = p /\ call'[c].s = s
    BY <1>1, Beginning
<1> QED BY <1>2 DEF CallGoes, CallInv, Says

(* The frame of the handlers that write nothing in the store. *)
LEMMA PlainStep ==
    ASSUME TasksInv, NEW c \in Callers, NEW n \in Runs, UNCHANGED <<runVars, storeVars, reg, inv, wire>>,
           CallGoes(c, n), ServerGoes(n),
           call'[c].pc \in Sending => Dispatching(c, n),
           call'[c].pc \in Early => Untouched(n)
    PROVE  TasksInv'
<1>0. UNCHANGED <<task, att, bind>>
    BY DEF storeVars
<1>1. BindGoes(n) /\ TaskGoes
    BY <1>0, SameBind, SameTask
<1>2. EndInv'
    BY <1>0, <1>1, EndKept
<1>3. ClaimGoes(c, n)
    BY <1>0, Claims DEF ClaimGoes
<1> QED BY <1>1, <1>2, <1>3, HandlerStep

(* A start begins with the current attempt and the process in view. *)
LEMMA StartCallStep ==
    ASSUME TasksInv, NEW c \in Callers, NEW n \in Runs, StartCall(c, n)
    PROVE  TasksInv'
<1>1. CallGoes(c, n) /\ call'[c].pc = "view"
    BY BeginGoes, NothingSaid, Rows DEF StartCall
<1> QED BY <1>1, PlainStep, SameServer DEF StartCall, Sending, Early, serverVars

(* A reconciliation begins with an attempt that has a binding. *)
LEMMA ReconcileCallStep ==
    ASSUME TasksInv, NEW c \in Callers, NEW n \in Runs, ReconcileCall(c, n)
    PROVE  TasksInv'
<1>1. CallGoes(c, n) /\ call'[c].pc = "reconcile"
    BY BeginGoes, NothingSaid, TaskAssumption DEF ReconcileCall, storeVars
<1> QED BY <1>1, PlainStep, SameServer DEF ReconcileCall, Sending, Early, serverVars

(* The claimant looks for the run before it dispatches. *)
LEMMA LookFirstStep ==
    ASSUME TasksInv, NEW c \in Callers, LookFirst(c)
    PROVE  TasksInv'
<1> DEFINE n == call[c].n
           q == ReconcileRun(n)
<1>0. call[c].pc = "claimed" /\ UNCHANGED <<runVars, storeVars, reg, inv, wire, calls>> /\ SetBinding(n, q.b)
    BY DEF LookFirst, At
<1>1. n \in Runs /\ call[c].p # 0 /\ bind[n] # None /\ Dispatching(c, n) /\ Untouched(n)
    BY <1>0, CallNow DEF CallInv, Early, Sending
<1>2. BoundTo(n, q)
    BY <1>1, ReconcileRunSays
<1>3. ServerGoes(n)
    BY <1>0, <1>1, <1>2, SetServer
<1>4. \/ q.b # None /\ GotoWith(c, "run", q.b.s)
      \/ Leave(c)
      \/ Goto(c, "enqueue")
    BY DEF LookFirst
<1>5. q.b # None => q.b.s \in Snapshot /\ Says(n, q.b.s)
    BY <1>2, ServerBindingParts DEF BoundTo
<1> HIDE DEF q
<1>6. bind' = bind
    BY <1>0 DEF storeVars
<1>7. CASE Leave(c)
    BY <1>0, <1>1, <1>3, <1>7, LeaveGoes, PlainStep DEF Sending, Early
<1>8. CASE Goto(c, "enqueue")
    <2>1. CallGoes(c, n) /\ call'[c].pc = "enqueue"
        BY <1>0, <1>1, <1>6, <1>8, GotoGoes DEF CallPc
    <2> QED BY <2>1, <1>0, <1>1, <1>3, PlainStep
<1>9. CASE q.b # None /\ GotoWith(c, "run", q.b.s)
    <2>1. CallGoes(c, n) /\ call'[c].pc = "run"
        BY <1>0, <1>1, <1>5, <1>6, <1>9, GotoWithGoes, SnapParts DEF CallPc
    <2> QED BY <2>1, <1>0, <1>1, <1>3, PlainStep DEF Sending, Early
<1> QED BY <1>4, <1>7, <1>8, <1>9

(* A handler with the claim goes on without a report, or gives up. *)
LEMMA SendingStep ==
    ASSUME TasksInv, NEW c \in Callers, call[c].pc \in Sending,
           UNCHANGED <<runVars, storeVars, serverVars, wire, calls>>,
           \/ Leave(c)
           \/ \E pc \in Sending \ {"answered"} : Goto(c, pc) /\ (pc \in Early => Untouched(call[c].n))
    PROVE  TasksInv'
<1> DEFINE n == call[c].n
<1>1. n \in Runs /\ call[c].p # 0 /\ bind[n] # None /\ Dispatching(c, n) /\ call[c].pc # "idle"
    BY CallNow DEF CallInv, Early, Sending
<1>2. bind' = bind /\ ServerGoes(n) /\ reg' = reg /\ inv' = inv
    BY <1>1, SameServer DEF storeVars, serverVars
<1>3. CASE Leave(c)
    BY <1>1, <1>2, <1>3, LeaveGoes, PlainStep DEF Sending, Early
<1>4. ASSUME NEW pc \in Sending \ {"answered"}, Goto(c, pc), pc \in Early => Untouched(n)
      PROVE  TasksInv'
    <2>1. pc \in CallPc /\ pc \notin {"answered", "run", "ended", "asked"}
        BY <1>4 DEF Sending, Early, CallPc
    <2>2. CallGoes(c, n) /\ call'[c].pc = pc
        BY <1>1, <1>2, <1>4, <2>1, GotoGoes
    <2> QED BY <2>2, <1>1, <1>2, <1>4, PlainStep
<1> QED BY <1>3, <1>4

(* The claimant queues its start, or finds it cannot. *)
LEMMA EnqueueStep ==
    ASSUME TasksInv, NEW c \in Callers, Enqueue(c)
    PROVE  TasksInv'
<1>1. call[c].pc = "enqueue" /\ Untouched(call[c].n)
    BY CallNow DEF Enqueue, At, Early
<1> QED BY <1>1, SendingStep DEF Enqueue, Sending, Early

(* The waiter of a start is failed: a start that was not polled did not    *)
(* start.                                                                  *)
LEMMA DrainedStep ==
    ASSUME TasksInv, NEW c \in Callers, Drained(c)
    PROVE  TasksInv'
<1>1. call[c].pc = "queued" => Untouched(call[c].n)
    BY CallNow DEF Early
<1> QED BY <1>1, SendingStep DEF Drained, At, Sending, Early

(* The waiter of a start times out. *)
LEMMA TimedOutStep ==
    ASSUME TasksInv, NEW c \in Callers, TimedOut(c)
    PROVE  TasksInv'
<1>1. call[c].pc = "queued" => Untouched(call[c].n)
    BY CallNow DEF Early
<1> QED BY <1>1, SendingStep DEF TimedOut, At, Sending, Early

(* A handler looks for the run and goes on with what it finds. *)
LEMMA FoundStep ==
    ASSUME TasksInv, NEW c \in Callers, call[c].pc # "idle", NEW q, BoundTo(call[c].n, q), SetBinding(call[c].n, q.b),
           UNCHANGED <<runVars, storeVars, reg, inv, wire, calls>>, bind[call[c].n] # None, call[c].p # 0,
           q.b # None, GotoWith(c, "run", q.b.s)
    PROVE  TasksInv'
<1> DEFINE n == call[c].n
<1>1. n \in Runs /\ bind' = bind
    BY CallNow DEF storeVars
<1>2. ServerGoes(n)
    BY <1>1, SetServer
<1>3. q.b.s \in Snapshot /\ Says(n, q.b.s) /\ q.b.s # None
    BY ServerBindingParts, SnapParts DEF BoundTo
<1>4. CallGoes(c, n) /\ call'[c].pc = "run"
    BY <1>1, <1>3, GotoWithGoes DEF CallPc
<1> QED BY <1>1, <1>2, <1>4, PlainStep DEF Sending, Early

(* A start whose waiter is lost is looked for in the inventory. *)
LEMMA WaiterLostStep ==
    ASSUME TasksInv, NEW c \in Callers, WaiterLost(c)
    PROVE  TasksInv'
<1> DEFINE n == call[c].n
           q == ReconcileRun(n)
<1>0. /\ call[c].pc \in {"lost_queued", "lost_sent"} /\ SetBinding(n, q.b)
      /\ UNCHANGED <<runVars, storeVars, reg, inv, wire, calls>>
    BY DEF WaiterLost, At
<1>1. /\ n \in Runs /\ call[c].p # 0 /\ bind[n] # None /\ Dispatching(c, n)
      /\ call[c].pc = "lost_queued" => Untouched(n)
    BY <1>0, CallNow DEF CallInv, Early, Sending
<1>2. BoundTo(n, q)
    BY <1>1, ReconcileRunSays
<1>3. ServerGoes(n)
    BY <1>0, <1>1, <1>2, SetServer
<1>4. \/ q.b # None /\ GotoWith(c, "run", q.b.s)
      \/ call[c].pc = "lost_queued" /\ Goto(c, "not_started")
      \/ Leave(c)
    BY DEF WaiterLost, At
<1> HIDE DEF q
<1>6. bind' = bind
    BY <1>0 DEF storeVars
<1>7. CASE Leave(c)
    BY <1>0, <1>1, <1>3, <1>7, LeaveGoes, PlainStep DEF Sending, Early
<1>8. CASE call[c].pc = "lost_queued" /\ Goto(c, "not_started")
    <2>1. CallGoes(c, n) /\ call'[c].pc = "not_started"
        BY <1>0, <1>1, <1>6, <1>8, GotoGoes DEF CallPc
    <2> QED BY <2>1, <1>0, <1>1, <1>3, <1>8, PlainStep
<1>9. CASE q.b # None /\ GotoWith(c, "run", q.b.s)
    BY <1>0, <1>1, <1>2, <1>9, FoundStep
<1> QED BY <1>4, <1>7, <1>8, <1>9

(* The Runner's answer to a start is bound. *)
LEMMA BindAnswerStep ==
    ASSUME TasksInv, NEW c \in Callers, BindAnswer(c)
    PROVE  TasksInv'
<1> DEFINE n == call[c].n
           q == BindServer(sb[n], call[c].s, call[c].p)
<1>0. call[c].pc = "answered" /\ UNCHANGED <<runVars, storeVars, reg, inv, wire, calls>>
    BY DEF BindAnswer, At
<1>1. /\ n \in Runs /\ call[c].p \in 1..MaxProcs /\ bind[n] # None
      /\ call[c].s \in Snapshot /\ Says(n, call[c].s)
    BY <1>0, CallNow DEF CallInv, Held
<1>2. sb[n] \in ServerBinding \cup {None} /\ (sb[n] # None => Says(n, sb[n].s))
    BY <1>1, Rows DEF TasksInv, SaidInv
<1>3. \/ Leave(c) /\ sb' = sb
      \/ SetBinding(n, q.b) /\ (Leave(c) \/ GotoWith(c, "run", q.b.s))
    BY DEF BindAnswer
<1> HIDE DEF q
<1>4. BoundTo(n, q) /\ q.b # None
    BY <1>1, <1>2, BindServerSays DEF q
<1>5. CASE Leave(c) /\ sb' = sb
    BY <1>0, <1>1, <1>5, LeaveGoes, PlainStep, SameServer DEF Sending, Early
<1>6. CASE SetBinding(n, q.b) /\ Leave(c)
    BY <1>0, <1>1, <1>4, <1>6, LeaveGoes, PlainStep, SetServer DEF Sending, Early
<1>7. CASE SetBinding(n, q.b) /\ GotoWith(c, "run", q.b.s)
    BY <1>0, <1>1, <1>4, <1>7, FoundStep
<1> QED BY <1>3, <1>5, <1>6, <1>7

(* A reconciliation looks at the inventory. *)
LEMMA ReconcileStep ==
    ASSUME TasksInv, NEW c \in Callers, Reconcile(c)
    PROVE  TasksInv'
<1> DEFINE n == call[c].n
           q == ReconcileRun(n)
           s == IF q.b = None THEN None ELSE q.b.s
<1>0. /\ call[c].pc = "reconcile" /\ SetBinding(n, q.b)
      /\ UNCHANGED <<runVars, storeVars, reg, inv, wire, calls>>
    BY DEF Reconcile, At
<1>1. n \in Runs /\ bind[n] # None
    BY <1>0, CallNow DEF CallInv
<1>2. BoundTo(n, q)
    BY <1>1, ReconcileRunSays
<1>4. GotoWith(c, "observed", s) \/ Leave(c)
    BY DEF Reconcile
<1>5. s \in Snapshot \cup {None} /\ Says(n, s)
    BY <1>2, ServerBindingParts, NothingSaid DEF BoundTo
<1> HIDE DEF q, s
<1>3. ServerGoes(n)
    BY <1>0, <1>1, <1>2, SetServer
<1>6. bind' = bind
    BY <1>0 DEF storeVars
<1>7. CASE Leave(c)
    BY <1>0, <1>1, <1>3, <1>7, LeaveGoes, PlainStep DEF Sending, Early
<1>8. CASE GotoWith(c, "observed", s)
    <2>1. CallGoes(c, n) /\ call'[c].pc = "observed"
        BY <1>0, <1>1, <1>5, <1>6, <1>8, GotoWithGoes DEF CallPc
    <2> QED BY <2>1, <1>0, <1>1, <1>3, PlainStep DEF Sending, Early
<1> QED BY <1>4, <1>7, <1>8

(* An observe or cancel asks the process of the binding. *)
LEMMA ObserveAsksStep ==
    ASSUME TasksInv, NEW c \in Callers, NEW r \in Runs, ObserveAsks(c, r)
    PROVE  TasksInv'
<1> DEFINE q == ReconcileRun(r)
<1>0. /\ q.b # None /\ SetBinding(r, q.b) /\ rep[r] # None
      /\ Begins(c, "asked", r, q.b.inst, rep[r])
      /\ UNCHANGED <<runVars, storeVars, reg, inv, wire>>
    BY DEF ObserveAsks
<1>1. BoundTo(r, q)
    BY ReconcileRunSays
<1>2. Says(r, rep[r]) /\ rep[r] \in Snapshot
    BY <1>0, Rows DEF TasksInv, SaidInv
<1> HIDE DEF q
<1>3. q.b.inst \in 1..MaxProcs
    BY <1>0, <1>1, ServerBindingParts DEF BoundTo
<1>4. q.b.inst \in 0..MaxProcs /\ q.b.inst # 0
    BY <1>3, TaskAssumption
<1>5. CallGoes(c, r) /\ call'[c].pc = "asked"
    BY <1>0, <1>2, <1>4, BeginGoes
<1> QED BY <1>0, <1>1, <1>5, PlainStep, SetServer DEF Sending, Early

(* The answer to an observe or cancel is merged, unless the process was    *)
(* replaced.                                                               *)
LEMMA ObserveAnsweredStep ==
    ASSUME TasksInv, NEW c \in Callers, ObserveAnswered(c)
    PROVE  TasksInv'
<1> DEFINE n == call[c].n
           q == BindServer(sb[n], call[c].s, reg)
<1>0. call[c].pc = "asked" /\ Leave(c) /\ UNCHANGED <<runVars, storeVars, reg, inv, wire, calls>>
    BY DEF ObserveAnswered, At
<1>1. /\ n \in Runs /\ call[c].p \in 1..MaxProcs
      /\ call[c].s \in Snapshot /\ Says(n, call[c].s)
    BY <1>0, CallNow DEF CallInv, Held
<1>2. sb[n] \in ServerBinding \cup {None} /\ (sb[n] # None => Says(n, sb[n].s))
    BY <1>1, Rows DEF TasksInv, SaidInv
<1>3. CASE reg = call[c].p
    <2>1. SetBinding(n, q.b)
        BY <1>3 DEF ObserveAnswered
    <2> HIDE DEF q
    <2>2. BoundTo(n, q)
        BY <1>1, <1>2, <1>3, BindServerSays DEF q
    <2> QED BY <1>0, <1>1, <2>1, <2>2, LeaveGoes, PlainStep, SetServer DEF Sending, Early
<1>4. CASE reg # call[c].p
    <2>1. sb' = sb
        BY <1>1, <1>4 DEF ObserveAnswered, SetBinding, TasksInv, TypeOK
    <2> QED BY <1>0, <1>1, <2>1, LeaveGoes, PlainStep, SameServer DEF Sending, Early
<1> QED BY <1>3, <1>4

(***************************************************************************)
(* Handlers that write the binding of an attempt.                          *)
(***************************************************************************)
(* A binding of the store with another dispatch state. *)
LEMMA WithState ==
    ASSUME NEW b \in Binding, NEW ds \in {"prepared", "not_started", "outcome_unknown", "bound", "terminal"},
           NEW v, v = [b EXCEPT !.ds = ds]
    PROVE  v \in Binding /\ v.ds = ds /\ v.pi = b.pi /\ v.s = b.s /\ v # None
<1>1. v \in Binding /\ v.ds = ds /\ v.pi = b.pi /\ v.s = b.s
    BY DEF Binding
<1> QED BY <1>1, BindingParts

(* A binding of the store is set to one that goes on. *)
LEMMA SetBind ==
    ASSUME TasksInv, NEW n \in Runs, NEW v \in Binding, bind' = [bind EXCEPT ![n] = v], Says(n, v.s),
           Advances(bind[n], v)
    PROVE  BindGoes(n) /\ bind'[n] = v
<1>1. bind'[n] = v
    BY DEF TasksInv, TypeOK
<1> QED BY <1>1 DEF BindGoes, Says

(* The handler of c writes what leaves the task as it is. *)
LEMMA BindStep ==
    ASSUME TasksInv, NEW c \in Callers, NEW n \in Runs, UNCHANGED <<runVars, task, att, serverVars, wire>>,
           CallGoes(c, n), BindGoes(n),
           bind'[n] # None /\ bind'[n].ds = "terminal" => bind[n] # None /\ bind[n].ds = "terminal",
           call'[c].pc \in Sending =>
              /\ ~Dispatchable(bind'[n]) /\ n = task.latest
              /\ Dispatching(c, n) \/ \A d \in Callers : ~Dispatching(d, n),
           call'[c].pc \in Early => Untouched(n),
           Dispatchable(bind'[n]) => Dispatchable(bind[n]) \/ (Untouched(n) /\ Dispatching(c, n))
    PROVE  TasksInv'
<1>1. ServerGoes(n) /\ TaskGoes /\ UNCHANGED <<reg, inv>>
    BY SameServer, SameTask DEF serverVars
<1>2. EndInv'
    BY EndKept
<1>3. ClaimGoes(c, n)
    BY DEF ClaimGoes
<1> QED BY <1>1, <1>2, <1>3, HandlerStep

(* The prepare writes the binding of the current attempt, when it fits. *)
LEMMA PrepareStep ==
    ASSUME TasksInv, NEW c \in Callers, Prepare(c)
    PROVE  TasksInv' /\ call[c].n \in Runs /\ BindGoes(call[c].n)
<1> DEFINE n == call[c].n
           b == bind[n]
           p == call[c].p
           v == IF b = None THEN [ds |-> "prepared", pi |-> p, s |-> None] ELSE [b EXCEPT !.pi = p]
<1>0. call[c].pc = "view" /\ UNCHANGED <<runVars, task, att, serverVars, wire, calls>>
    BY DEF Prepare, At
<1>1. /\ n \in Runs /\ p \in 1..MaxProcs /\ p # 0
      /\ b \in Binding \cup {None} /\ (b # None => Says(n, b.s))
    BY <1>0, CallNow, Rows, TaskAssumption DEF CallInv, Held, TasksInv, SaidInv
<1>2. \/ Leave(c) /\ bind' = bind
      \/ Goto(c, "prepared") /\ bind' = [bind EXCEPT ![n] = v]
    BY DEF Prepare
<1>3. /\ v \in Binding /\ Says(n, v.s) /\ (b # None => v.ds = b.ds /\ v.s = b.s)
      /\ b = None => v.ds = "prepared" /\ v.s = None
    <2>1. CASE b = None
        BY <1>1, <2>1, NothingSaid DEF Binding
    <2>2. CASE b # None
        <3>1. [b EXCEPT !.pi = p] \in Binding /\ [b EXCEPT !.pi = p].ds = b.ds /\ [b EXCEPT !.pi = p].s = b.s
            BY <1>1, <2>2 DEF Binding
        <3> QED BY <1>1, <2>2, <3>1
    <2> QED BY <2>1, <2>2
<1> HIDE DEF v
<1>4. Advances(b, v)
    BY <1>1, <1>3, SameReport, BindingParts
<1>5. CASE Leave(c) /\ bind' = bind
    <2>1. BindGoes(n)
        BY <1>1, <1>5, SameBind
    <2>2. TasksInv'
        BY <1>0, <1>1, <1>5, <2>1, LeaveGoes, BindStep DEF Sending, Early
    <2> QED BY <1>1, <2>1, <2>2
<1>6. CASE Goto(c, "prepared") /\ bind' = [bind EXCEPT ![n] = v]
    <2>1. BindGoes(n) /\ bind'[n] = v
        BY <1>1, <1>3, <1>4, <1>6, SetBind
    <2>2. v # None
        BY <1>3, BindingParts
    <2>3. CallGoes(c, n) /\ call'[c].pc = "prepared"
        BY <1>0, <1>1, <1>6, <2>1, <2>2, GotoGoes DEF CallPc
    <2>4. Dispatchable(v) => Dispatchable(b)
        BY <1>3, <2>2 DEF Dispatchable, MayDispatch
    <2>5. v.ds = "terminal" => b # None /\ b.ds = "terminal"
        BY <1>3
    <2>6. TasksInv'
        BY <1>0, <1>1, <2>1, <2>3, <2>4, <2>5, BindStep DEF Sending, Early
    <2> QED BY <1>1, <2>1, <2>6
<1> QED BY <1>2, <1>5, <1>6

(* The claim makes one caller the claimant: whoever finds the binding      *)
(* dispatchable takes it out of that state.                                *)
LEMMA ClaimStep ==
    ASSUME TasksInv, NEW c \in Callers, Claim(c)
    PROVE  TasksInv' /\ call[c].n \in Runs /\ BindGoes(call[c].n)
<1> DEFINE n == call[c].n
           b == bind[n]
           v == [b EXCEPT !.ds = "outcome_unknown"]
<1>0. call[c].pc = "prepared" /\ UNCHANGED <<runVars, task, att, serverVars, wire, calls>>
    BY DEF Claim, At
<1>1. n \in Runs /\ call[c].p # 0 /\ b # None /\ b \in Binding /\ Says(n, b.s)
    BY <1>0, CallNow, Rows DEF CallInv, TasksInv, SaidInv
<1>2. \/ Current(n) /\ MayDispatch(b) /\ bind' = [bind EXCEPT ![n].ds = "outcome_unknown"] /\ Goto(c, "claimed")
      \/ bind' = bind /\ Goto(c, "reconcile")
      \/ bind' = bind /\ Leave(c)
    BY DEF Claim
<1>3. CASE bind' = bind /\ Leave(c)
    <2>1. BindGoes(n)
        BY <1>1, <1>3, SameBind
    <2>2. TasksInv'
        BY <1>0, <1>1, <1>3, <2>1, LeaveGoes, BindStep DEF Sending, Early
    <2> QED BY <1>1, <2>1, <2>2
<1>4. CASE bind' = bind /\ Goto(c, "reconcile")
    <2>1. BindGoes(n)
        BY <1>1, <1>4, SameBind
    <2>2. CallGoes(c, n) /\ call'[c].pc = "reconcile"
        BY <1>0, <1>1, <1>4, GotoGoes DEF CallPc
    <2>3. TasksInv'
        BY <1>0, <1>1, <1>4, <2>1, <2>2, BindStep DEF Sending, Early
    <2> QED BY <1>1, <2>1, <2>3
<1>5. CASE Current(n) /\ MayDispatch(b) /\ bind' = [bind EXCEPT ![n].ds = "outcome_unknown"] /\ Goto(c, "claimed")
    <2>1. v \in Binding /\ v.ds = "outcome_unknown" /\ v.s = b.s /\ v # None
        BY <1>1, WithState
    <2>2. bind' = [bind EXCEPT ![n] = v]
        BY <1>1, <1>5 DEF TasksInv, TypeOK
    <2> HIDE DEF v
    <2>3. BindGoes(n) /\ bind'[n] = v
        <3>1. Advances(b, v) /\ Says(n, v.s)
            BY <1>1, <2>1, SameReport
        <3> QED BY <1>1, <2>1, <2>2, <3>1, SetBind
    <2>4. CallGoes(c, n) /\ call'[c].pc = "claimed"
        BY <1>0, <1>1, <1>5, <2>1, <2>3, GotoGoes DEF CallPc
    <2>5. ~Dispatchable(v) /\ n = task.latest
        BY <1>5, <2>1 DEF Dispatchable, MayDispatch, Current
    <2>6. Untouched(n) /\ \A d \in Callers : ~Dispatching(d, n)
        BY <1>1, <1>5, Claims DEF Dispatchable
    <2>7. TasksInv'
        BY <1>0, <1>1, <2>1, <2>3, <2>4, <2>5, <2>6, BindStep
    <2> QED BY <1>1, <2>3, <2>7
<1> QED BY <1>2, <1>3, <1>4, <1>5

(* The claimant gives its claim back: nothing of its run has begun. *)
LEMMA RecordNotStartedStep ==
    ASSUME TasksInv, NEW c \in Callers, RecordNotStarted(c)
    PROVE  TasksInv' /\ call[c].n \in Runs /\ BindGoes(call[c].n)
<1> DEFINE n == call[c].n
           b == bind[n]
           ds == IF b.ds = "outcome_unknown" THEN "not_started" ELSE b.ds
           v == [b EXCEPT !.ds = ds]
<1>0. call[c].pc = "not_started" /\ Leave(c) /\ UNCHANGED <<runVars, task, att, serverVars, wire, calls>>
    BY DEF RecordNotStarted, At
<1>1. /\ n \in Runs /\ b # None /\ b \in Binding /\ Says(n, b.s)
      /\ Dispatching(c, n) /\ Untouched(n)
    BY <1>0, CallNow, Rows DEF CallInv, TasksInv, SaidInv, Sending, Early
<1>2. v \in Binding /\ v.ds = ds /\ v.s = b.s /\ v # None
    BY <1>1, WithState, BindingParts
<1>3. bind' = [bind EXCEPT ![n] = v]
    BY <1>1 DEF RecordNotStarted, TasksInv, TypeOK
<1>4. ds = "terminal" => b.ds = "terminal"
    OBVIOUS
<1> HIDE DEF v, ds
<1>5. BindGoes(n) /\ bind'[n] = v
    <2>1. Advances(b, v) /\ Says(n, v.s)
        BY <1>1, <1>2, SameReport
    <2> QED BY <1>1, <1>2, <1>3, <2>1, SetBind
<1>6. CallGoes(c, n) /\ call'[c].pc = "idle"
    BY <1>0, LeaveGoes
<1>7. TasksInv'
    BY <1>0, <1>1, <1>2, <1>4, <1>5, <1>6, BindStep DEF Sending, Early
<1> QED BY <1>1, <1>5, <1>7

(* An observation of a binding that is not dispatchable keeps it so, and   *)
(* ends no task.                                                           *)
LEMMA ObservedKeeps ==
    ASSUME TasksInv, NEW c \in Callers, NEW n \in Runs, bind[n] # None, NEW s \in Snapshot, Says(n, s),
           NEW v, v = Observed(bind[n], s), bind' = [bind EXCEPT ![n] = v],
           CallGoes(c, n), call'[c].pc \notin Sending,
           UNCHANGED <<runVars, task, att, serverVars, wire>>
    PROVE  TasksInv' /\ BindGoes(n)
<1>1. bind[n] \in Binding /\ Says(n, bind[n].s)
    BY Rows DEF TasksInv, SaidInv
<1>2. /\ v \in Binding /\ Says(n, v.s) /\ Advances(bind[n], v)
      /\ v.ds = bind[n].ds \/ v.ds \in {"bound", "outcome_unknown"}
    BY <1>1, ObservedGoes
<1>3. BindGoes(n) /\ bind'[n] = v
    BY <1>2, SetBind
<1>4. /\ Dispatchable(v) => Dispatchable(bind[n])
      /\ v.ds = "terminal" => bind[n].ds = "terminal"
    BY <1>2, BindingParts DEF Dispatchable, MayDispatch
<1> QED BY <1>3, <1>4, BindStep DEF Sending

(* The run that a start found or dispatched is recorded. *)
LEMMA RecordRunStep ==
    ASSUME TasksInv, NEW c \in Callers, RecordRun(c)
    PROVE  TasksInv' /\ call[c].n \in Runs /\ BindGoes(call[c].n)
<1> DEFINE n == call[c].n
           v == Observed(bind[n], call[c].s)
<1>0. call[c].pc = "run" /\ Leave(c) /\ UNCHANGED <<runVars, task, att, serverVars, wire, calls>>
    BY DEF RecordRun, At
<1>1. n \in Runs /\ bind[n] # None /\ call[c].s \in Snapshot /\ Says(n, call[c].s)
    BY <1>0, CallNow DEF CallInv, Held
<1>2. bind' = [bind EXCEPT ![n] = v]
    BY <1>1 DEF RecordRun, TasksInv, TypeOK
<1> HIDE DEF v
<1>3. v = Observed(bind[n], call[c].s)
    BY DEF v
<1>4. CallGoes(c, n) /\ call'[c].pc = "idle"
    BY <1>0, LeaveGoes
<1> QED BY <1>0, <1>1, <1>2, <1>3, <1>4, ObservedKeeps DEF Sending, Early

(* What a reconciliation found is recorded. *)
LEMMA RecordObservedStep ==
    ASSUME TasksInv, NEW c \in Callers, RecordObserved(c)
    PROVE  TasksInv' /\ call[c].n \in Runs /\ BindGoes(call[c].n)
<1> DEFINE n == call[c].n
           s == call[c].s
           b == bind[n]
<1>0. call[c].pc = "observed" /\ UNCHANGED <<runVars, task, att, serverVars, wire, calls>>
    BY DEF RecordObserved, At
<1>1. n \in Runs /\ b # None /\ b \in Binding /\ Says(n, b.s) /\ s \in Snapshot \cup {None} /\ Says(n, s)
    BY <1>0, CallNow, Rows DEF CallInv, Held, TasksInv, SaidInv
<1>2. CASE s = None
    <2> DEFINE ds == IF b.ds = "bound" THEN "outcome_unknown" ELSE b.ds
               v == [b EXCEPT !.ds = ds]
    <2>1. v \in Binding /\ v.ds = ds /\ v.s = b.s /\ v # None
        BY <1>1, WithState, BindingParts
    <2>2. bind' = [bind EXCEPT ![n] = v] /\ Leave(c)
        BY <1>1, <1>2 DEF RecordObserved, TasksInv, TypeOK
    <2>3. /\ ds = "terminal" => b.ds = "terminal"
          /\ ds \in {"prepared", "not_started"} => b.ds = ds
        OBVIOUS
    <2> HIDE DEF v, ds
    <2>4. BindGoes(n) /\ bind'[n] = v
        <3>1. Advances(b, v) /\ Says(n, v.s)
            BY <1>1, <2>1, SameReport
        <3> QED BY <1>1, <2>1, <2>2, <3>1, SetBind
    <2>5. CallGoes(c, n) /\ call'[c].pc = "idle"
        BY <1>0, <2>2, LeaveGoes
    <2>6. Dispatchable(v) => Dispatchable(b)
        BY <2>1, <2>3 DEF Dispatchable, MayDispatch
    <2>7. TasksInv'
        BY <1>0, <1>1, <2>1, <2>3, <2>4, <2>5, <2>6, BindStep DEF Sending, Early
    <2> QED BY <1>1, <2>4, <2>7
<1>3. CASE s # None
    <2> DEFINE v == Observed(b, s)
    <2>1. bind' = [bind EXCEPT ![n] = v] /\ (Goto(c, "ended") \/ Leave(c))
        BY <1>3 DEF RecordObserved
    <2> HIDE DEF v
    <2>2. v = Observed(b, s)
        BY DEF v
    <2>3. v \in Binding /\ bind'[n] # None
        <3>1. v \in Binding
            BY <1>1, <1>3, <2>2, ObservedGoes
        <3> QED BY <1>1, <2>1, <3>1, BindingParts DEF TasksInv, TypeOK
    <2>4. CallGoes(c, n) /\ call'[c].pc \in {"idle", "ended"}
        <3>1. CASE Leave(c)
            BY <1>0, <3>1, LeaveGoes
        <3>2. CASE Goto(c, "ended")
            BY <1>0, <1>3, <2>3, <3>2, GotoGoes DEF CallPc
        <3> QED BY <2>1, <3>1, <3>2
    <2> QED BY <1>0, <1>1, <1>3, <2>1, <2>2, <2>4, ObservedKeeps DEF Sending, Early
<1> QED BY <1>2, <1>3

(* The start is on its way to the process: nothing else of its run is. *)
LEMMA PollStep ==
    ASSUME TasksInv, NEW c \in Callers, Poll(c)
    PROVE  TasksInv'
<1> DEFINE n == call[c].n
<1>0. call[c].pc = "queued" /\ UNCHANGED <<runVars, storeVars, serverVars, calls>>
    BY DEF Poll, At
<1>1. /\ n \in Runs /\ call[c].p # 0 /\ bind[n] # None /\ Dispatching(c, n) /\ Untouched(n)
      /\ n = task.latest /\ ~Dispatchable(bind[n])
    BY <1>0, CallNow DEF CallInv, Early, Sending
<1>2. CASE wire' = wire /\ Goto(c, "not_started")
    BY <1>0, <1>1, <1>2, SendingStep DEF Sending, Early
<1>3. CASE wire' = wire \cup {n} /\ Goto(c, "sent")
    <2>0. UNCHANGED <<task, att, bind, sb, reg, inv>>
        BY <1>0 DEF storeVars, serverVars
    <2>1. CallGoes(c, n) /\ call'[c].pc = "sent"
        BY <1>0, <1>1, <1>3, <2>0, GotoGoes DEF CallPc
    <2>2. ServerGoes(n) /\ BindGoes(n) /\ TaskGoes
        BY <1>1, <2>0, SameServer, SameBind, SameTask
    <2>3. EndInv'
        BY <1>1, <2>0, <2>2, EndKept
    <2>4. ClaimGoes(c, n)
        BY <1>1, <1>3, <2>0, <2>1 DEF ClaimGoes, Early
    <2> QED BY <1>0, <1>1, <2>0, <2>1, <2>2, <2>3, <2>4, HandlerStep
<1> QED BY <1>2, <1>3 DEF Poll

(* The end of a run that is on the store's record ends the task. *)
LEMMA TerminalizeStep ==
    ASSUME TasksInv, NEW c \in Callers, Terminalize(c)
    PROVE  TasksInv' /\ call[c].n \in Runs /\ BindGoes(call[c].n)
<1> DEFINE n == call[c].n
           s == call[c].s
           b == Observed(bind[n], s)
           o == IF b.s.st = "completed" THEN "succeeded" ELSE "failed"
           v == [b EXCEPT !.ds = "terminal"]
<1>0. call[c].pc = "ended" /\ Leave(c) /\ UNCHANGED <<runVars, serverVars, wire, calls>>
    BY DEF Terminalize, At
<1>1. n \in Runs /\ bind[n] # None /\ bind[n] \in Binding /\ Says(n, bind[n].s) /\ s \in Snapshot /\ Says(n, s)
    BY <1>0, CallNow, Rows DEF CallInv, Held, TasksInv, SaidInv
<1>2. CallGoes(c, n) /\ call'[c].pc = "idle" /\ ServerGoes(n) /\ UNCHANGED <<reg, inv>>
    BY <1>0, <1>1, LeaveGoes, SameServer DEF serverVars
<1>3. \/ UNCHANGED storeVars
      \/ /\ task.latest = n /\ ~TaskOver /\ StoreMerge(bind[n], s) \in {"advance", "replay"} /\ Ended(b)
         /\ task' = [task EXCEPT !.st = o] /\ att' = [att EXCEPT ![n] = o]
         /\ bind' = [bind EXCEPT ![n] = v]
    BY DEF Terminalize
<1>4. CASE UNCHANGED storeVars
    <2>1. BindGoes(n)
        BY <1>1, <1>4, SameBind DEF storeVars
    <2>2. TasksInv'
        BY <1>0, <1>1, <1>2, <1>4, PlainStep DEF Sending, Early
    <2> QED BY <1>1, <2>1, <2>2
<1>5. CASE /\ task.latest = n /\ ~TaskOver /\ StoreMerge(bind[n], s) \in {"advance", "replay"} /\ Ended(b)
           /\ task' = [task EXCEPT !.st = o] /\ att' = [att EXCEPT ![n] = o]
           /\ bind' = [bind EXCEPT ![n] = v]
    <2> HIDE DEF b
    <2>0. b = Observed(bind[n], s)
        BY DEF b
    <2>1. /\ b \in Binding /\ Says(n, b.s) /\ Advances(bind[n], b)
          /\ StoreMerge(bind[n], s) = "advance" => b.s = s
          /\ StoreMerge(bind[n], s) # "advance" => b = bind[n]
        BY <1>1, <2>0, ObservedGoes
    <2>2. b.s # None
        <3>1. CASE StoreMerge(bind[n], s) = "advance"
            BY <1>1, <2>1, <3>1, SnapParts
        <3>2. CASE StoreMerge(bind[n], s) = "replay"
            BY <1>1, <2>1, <3>2 DEF StoreMerge
        <3> QED BY <1>5, <3>1, <3>2
    <2>3. v \in Binding /\ v.ds = "terminal" /\ v.s = b.s /\ v # None
        BY <2>1, WithState
    <2> HIDE DEF v
    <2>4. Says(n, v.s) /\ Advances(bind[n], v)
        BY <2>1, <2>3 DEF Advances
    <2>5. BindGoes(n) /\ bind'[n] = v
        BY <1>1, <1>5, <2>3, <2>4, SetBind
    <2>6. o \in {"succeeded", "failed"} /\ (o = "succeeded" <=> v.s.st = "completed")
        BY <2>3
    <2> HIDE DEF o
    <2>7. /\ task \in [st : {"ready", "active", "reported", "succeeded", "failed"}, latest : 0..MaxAttempts]
          /\ att \in [Runs -> {"none", "active", "lapsed", "expired", "reported", "succeeded", "failed"}]
        BY DEF TasksInv, TypeOK
    <2>8. TaskGoes /\ task'.st = o
        BY <1>5, <2>6, <2>7 DEF TaskGoes
    <2>9. EndInv'
        <3>1. TaskOver'
            BY <2>6, <2>8 DEF TaskOver
        <3>2. Ended(v)
            BY <1>5, <2>3 DEF Ended
        <3> QED BY <1>1, <1>5, <2>2, <2>3, <2>5, <2>6, <2>8, <3>1, <3>2 DEF EndInv, TaskGoes
    <2>10. ClaimGoes(c, n)
        <3>1. ~Dispatchable(v)
            BY <2>3 DEF Dispatchable, MayDispatch
        <3> QED BY <1>0, <1>2, <2>5, <3>1 DEF ClaimGoes, Sending, Early
    <2>11. TasksInv'
        BY <1>0, <1>1, <1>2, <2>5, <2>8, <2>9, <2>10, HandlerStep
    <2> QED BY <1>1, <2>5, <2>11
<1> QED BY <1>3, <1>4, <1>5

(***************************************************************************)
(* The task and its attempts.                                              *)
(***************************************************************************)
(* The frame of the steps of the task: one that is over stays as it is,    *)
(* and an attempt is replaced only when its binding does not block.        *)
LEMMA TaskStep ==
    ASSUME TasksInv, UNCHANGED <<runVars, bind, serverVars, wire, call, calls>>,
           task' \in [st : {"ready", "active", "reported", "succeeded", "failed"}, latest : 0..MaxAttempts],
           att' \in [Runs -> {"none", "active", "lapsed", "expired", "reported", "succeeded", "failed"}],
           task' = task \/ (~TaskOver /\ task'.st \in {"ready", "active", "reported"}),
           \/ task'.latest = task.latest
           \/ ~TaskOver /\ ~BlocksReplacement(task.latest)
    PROVE  TasksInv'
<1>1. TypeOK'
    BY DEF TasksInv, TypeOK, serverVars, runVars
<1>2. RunsInv'
    BY DEF TasksInv, RunsInv, runVars, serverVars, Live
<1>3. SaidInv'
    BY DEF TasksInv, SaidInv, Says, EndsOf, Young, Live, runVars, serverVars
<1>4. \A c \in Callers : CallInv(call[c])'
    BY DEF TasksInv, CallInv
<1>5. ClaimInv'
    <2>1. ASSUME NEW n \in Runs, Dispatchable(bind[n]) \/ n # task'.latest
          PROVE  Untouched(n) /\ \A c \in Callers : ~Dispatching(c, n)
        <3>1. CASE n = task.latest /\ task'.latest # task.latest
            <4>1. bind[n] \in Binding \cup {None} /\ ~(bind[n] # None /\ bind[n].ds = "terminal")
                BY <3>1, Rows DEF TasksInv, EndInv
            <4>2. Dispatchable(bind[n])
                BY <3>1, <4>1, BindingParts DEF BlocksReplacement, Dispatchable, MayDispatch
            <4> QED BY <4>2, Claims
        <3>2. CASE ~(n = task.latest /\ task'.latest # task.latest)
            BY <2>1, <3>2, Claims
        <3> QED BY <3>1, <3>2
    <2>2. \A n \in Runs : Untouched(n)' <=> Untouched(n)
        BY DEF Untouched, Live, runVars
    <2>3. \A n \in Runs, c \in Callers : Dispatching(c, n)' <=> Dispatching(c, n)
        BY DEF Dispatching
    <2>4. \A c \in Callers : call[c].pc \in Early => Untouched(call[c].n)'
        BY <2>2, CallNow DEF Early
    <2>5. \A n \in wire : prompts'[n] = 0 /\ ~Live(n)'
        BY Claims DEF runVars, Live
    <2> QED BY <2>1, <2>2, <2>3, <2>4, <2>5, Claims DEF ClaimInv, Dispatchable, Early
<1>6. EndInv'
    BY DEF TasksInv, EndInv, TaskOver, Ended
<1> QED BY <1>1, <1>2, <1>3, <1>4, <1>5, <1>6 DEF TasksInv

(* What the invariant says of the task and its attempts. *)
LEMMA TaskNow ==
    ASSUME TasksInv
    PROVE  /\ task \in [st : {"ready", "active", "reported", "succeeded", "failed"}, latest : 0..MaxAttempts]
           /\ att \in [Runs -> {"none", "active", "lapsed", "expired", "reported", "succeeded", "failed"}]
           /\ Materialized \in [Runs -> {"none", "active", "lapsed", "expired", "reported", "succeeded", "failed"}]
           /\ MaxAttempts \in Nat /\ Runs = 1..MaxAttempts
    BY TaskAssumption DEF TasksInv, TypeOK, Materialized

(* The lease of an attempt lapses. *)
LEMMA LeaseLapsesStep ==
    ASSUME TasksInv, NEW n \in Runs, LeaseLapses(n)
    PROVE  TasksInv'
<1>1. att' \in [Runs -> {"none", "active", "lapsed", "expired", "reported", "succeeded", "failed"}]
    BY TaskNow DEF LeaseLapses
<1> QED BY <1>1, TaskNow, TaskStep DEF LeaseLapses

(* The next attempt: that of a binding which is not dispatchable is not    *)
(* replaced.                                                               *)
LEMMA StartAttemptStep ==
    ASSUME TasksInv, StartAttempt
    PROVE  TasksInv'
<1>1. att' \in [Runs -> {"none", "active", "lapsed", "expired", "reported", "succeeded", "failed"}]
    BY TaskNow DEF StartAttempt
<1>2. /\ task' \in [st : {"ready", "active", "reported", "succeeded", "failed"}, latest : 0..MaxAttempts]
      /\ task'.st = "active"
    <2>1. task.latest + 1 \in 0..MaxAttempts
        BY TaskNow DEF StartAttempt
    <2>2. task' = [[task EXCEPT !.st = "active"] EXCEPT !.latest = task.latest + 1]
        BY DEF StartAttempt
    <2> QED BY <2>1, <2>2, TaskNow
<1> QED BY <1>1, <1>2, TaskStep DEF StartAttempt, Replaceable

(* The task is assigned to another Agent. *)
LEMMA ReassignStep ==
    ASSUME TasksInv, Reassign
    PROVE  TasksInv'
<1>1. /\ task' \in [st : {"ready", "active", "reported", "succeeded", "failed"}, latest : 0..MaxAttempts]
      /\ task'.st = "ready" /\ task'.latest = task.latest
    BY TaskNow DEF Reassign
<1> QED BY <1>1, TaskNow, TaskStep DEF Reassign, Replaceable

(* The task is assigned to the same Agent again. *)
LEMMA AssignAgainStep ==
    ASSUME TasksInv, AssignAgain
    PROVE  TasksInv'
<1>1. CASE task' = task
    BY <1>1, TaskNow, TaskStep DEF AssignAgain
<1>2. CASE task' = [task EXCEPT !.st = "ready"]
    <2>1. /\ task' \in [st : {"ready", "active", "reported", "succeeded", "failed"}, latest : 0..MaxAttempts]
          /\ task'.st = "ready" /\ task'.latest = task.latest
        BY <1>2, TaskNow
    <2> QED BY <2>1, TaskNow, TaskStep DEF AssignAgain
<1> QED BY <1>1, <1>2 DEF AssignAgain

(* The Agent reports the end of its attempt. *)
LEMMA CompleteAttemptStep ==
    ASSUME TasksInv, NEW n \in Runs, CompleteAttempt(n)
    PROVE  TasksInv'
<1>1. att' \in [Runs -> {"none", "active", "lapsed", "expired", "reported", "succeeded", "failed"}]
    BY TaskNow DEF CompleteAttempt
<1>2. /\ task' \in [st : {"ready", "active", "reported", "succeeded", "failed"}, latest : 0..MaxAttempts]
      /\ task'.st = "reported" /\ task'.latest = task.latest
    BY TaskNow DEF CompleteAttempt
<1> QED BY <1>1, <1>2, TaskStep DEF CompleteAttempt, Current

(***************************************************************************)
(* The Server.                                                             *)
(***************************************************************************)
(* The frame of the steps of the Server's view: what it holds is what is   *)
(* said.                                                                   *)
LEMMA ServerStep ==
    ASSUME TasksInv, UNCHANGED <<runVars, storeVars, wire, calls>>,
           sb' \in [Runs -> ServerBinding \cup {None}], \A r \in Runs : sb'[r] # None => Says(r, sb'[r].s),
           inv' \in [Runs -> Snapshot \cup {None}], \A r \in Runs : Says(r, inv'[r]),
           reg' \in 0..MaxProcs, \A r \in Runs : inv'[r] # None => reg' # 0,
           call' = call \/ call' = [c \in Callers |-> Idle]
    PROVE  TasksInv'
<1>0. Idle \in Held /\ Idle.pc = "idle" /\ Idle.n = 0 /\ Idle.s = None
    BY TaskAssumption DEF Idle, Held, CallPc
<1>1. TypeOK'
    <2>1. call' \in [Callers -> Held]
        BY <1>0 DEF TasksInv, TypeOK, Held
    <2> QED BY <2>1 DEF TasksInv, TypeOK, storeVars, Held
<1>2. RunsInv'
    BY DEF TasksInv, RunsInv, runVars, Live
<1>3. SaidInv'
    <2>1. \A r \in Runs : EndsOf(r)' = EndsOf(r)
        BY DEF EndsOf, Young, Live, runVars
    <2>2. owner' = owner /\ prompts' = prompts /\ answer' = answer /\ rep' = rep /\ bind' = bind
        BY DEF runVars, storeVars
    <2>3. \A r \in Runs : Says(r, inv[r])' /\ (sb[r] # None => Says(r, sb[r].s))'
        BY <2>1, <2>2 DEF Says
    <2>4. \A r \in Runs : Says(r, rep[r])' /\ (bind[r] # None => Says(r, bind[r].s))'
        BY <2>1, <2>2 DEF Says, TasksInv, SaidInv
    <2>5. \A r \in Runs, c \in Callers : (call[c].n = r => Says(r, call[c].s))'
        <3>1. CASE call' = call
            BY <2>1, <2>2, <3>1 DEF Says, TasksInv, SaidInv
        <3>2. CASE call' = [c \in Callers |-> Idle]
            BY <1>0, <3>2, TaskAssumption
        <3> QED BY <3>1, <3>2
    <2> QED BY <2>3, <2>4, <2>5 DEF SaidInv
<1>4. \A c \in Callers : CallInv(call[c])'
    <2>1. CASE call' = call
        BY <2>1 DEF TasksInv, CallInv, storeVars
    <2>2. CASE call' = [c \in Callers |-> Idle]
        BY <1>0, <2>2 DEF CallInv
    <2> QED BY <2>1, <2>2
<1>5. ClaimInv'
    <2>1. \A n \in Runs : Untouched(n)' <=> Untouched(n)
        BY DEF Untouched, Live, runVars
    <2>2. \A n \in Runs, c \in Callers : Dispatching(c, n)' => Dispatching(c, n)
        BY <1>0 DEF Dispatching
    <2>3. \A c \in Callers : call'[c].pc \in Early => Untouched(call'[c].n)
        BY <1>0, Claims DEF Early
    <2>4. \A c \in Callers : call'[c].pc \in Early => Untouched(call[c].n)'
        BY <2>3 DEF Untouched, Live, runVars
    <2>5. \A n \in wire : prompts'[n] = 0 /\ ~Live(n)'
        BY Claims DEF runVars, Live
    <2>6. bind' = bind /\ task' = task
        BY DEF storeVars
    <2> QED BY <2>1, <2>2, <2>4, <2>5, <2>6, Claims DEF ClaimInv, Dispatchable, Early
<1>6. EndInv'
    BY DEF TasksInv, EndInv, TaskOver, Ended, storeVars
<1> QED BY <1>1, <1>2, <1>3, <1>4, <1>5, <1>6 DEF TasksInv

(* What the invariant says of the Server's view. *)
LEMMA ServerNow ==
    ASSUME TasksInv
    PROVE  /\ sb \in [Runs -> ServerBinding \cup {None}] /\ \A r \in Runs : sb[r] # None => Says(r, sb[r].s)
           /\ inv \in [Runs -> Snapshot \cup {None}] /\ \A r \in Runs : Says(r, inv[r])
           /\ reg \in 0..MaxProcs /\ \A r \in Runs : inv[r] # None => reg # 0
    BY DEF TasksInv, TypeOK, SaidInv, RunsInv

(* The Server prunes its binding of a run that ended. *)
LEMMA PruneBindingStep ==
    ASSUME TasksInv, NEW r \in Runs, PruneBinding(r)
    PROVE  TasksInv'
<1>1. sb' = [sb EXCEPT ![r] = None]
    BY DEF PruneBinding, SetBinding
<1>2. sb' \in [Runs -> ServerBinding \cup {None}] /\ \A q \in Runs : sb'[q] # None => sb'[q] = sb[q]
    BY <1>1, ServerNow
<1>3. \A q \in Runs : sb'[q] # None => Says(q, sb'[q].s)
    BY <1>2, ServerNow DEF Says
<1>4. reg' = reg /\ inv' = inv /\ call' = call /\ UNCHANGED <<runVars, storeVars, wire, calls>>
    BY DEF PruneBinding
<1>5. \A q \in Runs : Says(q, inv'[q]) /\ (inv'[q] # None => reg' # 0)
    BY <1>4, ServerNow DEF Says
<1> QED BY <1>2, <1>3, <1>4, <1>5, ServerNow, ServerStep

(* The Runner registers with its reports as inventory. *)
LEMMA RegisterStep ==
    ASSUME TasksInv, Register
    PROVE  TasksInv'
<1>1. reg' = proc /\ inv' = rep /\ sb' = sb /\ call' = call /\ UNCHANGED <<runVars, storeVars, wire, calls>>
    BY DEF Register
<1>2. \A q \in Runs : Says(q, inv'[q]) /\ (sb'[q] # None => Says(q, sb'[q].s))
    BY <1>1, ServerNow DEF TasksInv, SaidInv, Says
<1>3. inv' \in [Runs -> Snapshot \cup {None}] /\ reg' \in 0..MaxProcs /\ reg' # 0
    BY <1>1, TaskAssumption DEF TasksInv, RunsInv
<1> QED BY <1>1, <1>2, <1>3, ServerNow, ServerStep

(* The Server forgets its view and its handlers; the store, the Runner and *)
(* the starts on their way stay.                                           *)
LEMMA ServerRestartStep ==
    ASSUME TasksInv, ServerRestart
    PROVE  TasksInv'
<1>1. /\ sb' = [r \in Runs |-> None] /\ inv' = [r \in Runs |-> None] /\ reg' = 0
      /\ call' = [c \in Callers |-> Idle] /\ UNCHANGED <<runVars, storeVars, wire, calls>>
    BY DEF ServerRestart
<1>2. \A q \in Runs : Says(q, inv'[q]) /\ (sb'[q] # None => Says(q, sb'[q].s))
    BY <1>1, NothingSaid DEF Says
<1>3. sb' \in [Runs -> ServerBinding \cup {None}] /\ inv' \in [Runs -> Snapshot \cup {None}] /\ reg' \in 0..MaxProcs
    BY <1>1, TaskAssumption
<1> QED BY <1>1, <1>2, <1>3, ServerStep

(***************************************************************************)
(* The Runner.                                                             *)
(***************************************************************************)
(* The runs go on: what is said of one stays true, and is said of it.      *)
RunsGo ==
    /\ RunsInv'
    /\ \A r \in Runs, s \in Snapshot : Says(r, s) => Says(r, s)'
    /\ \A r \in Runs : Says(r, rep[r])'

(* One run goes on. *)
RunGoes(r) ==
    /\ proc' = proc
    /\ rep' = [rep EXCEPT ![r] = rep'[r]] /\ rep'[r] \in Snapshot \cup {None}
    /\ owner' = [owner EXCEPT ![r] = owner'[r]] /\ owner'[r] \in -1..MaxProcs /\ owner'[r] <= proc
    /\ prompts' = [prompts EXCEPT ![r] = prompts'[r]] /\ prompts'[r] \in {0, 1}
    /\ answer' = [answer EXCEPT ![r] = answer'[r]] /\ answer'[r] \in Endings \cup {"none"}
    /\ Live(r)' /\ rep'[r].ex # "started" => rep'[r].rev <= 1
    /\ \A s \in Snapshot : Says(r, s) => Says(r, s)'
    /\ Says(r, rep[r])'

(* A run that goes on lets the others be. *)
LEMMA OneRun ==
    ASSUME TasksInv, NEW r \in Runs, RunGoes(r), UNCHANGED <<reg, inv>>
    PROVE  RunsGo
<1>0. /\ rep \in [Runs -> Snapshot \cup {None}] /\ owner \in [Runs -> -1..MaxProcs]
      /\ prompts \in [Runs -> {0, 1}] /\ answer \in [Runs -> Endings \cup {"none"}]
    BY DEF TasksInv, RunsInv
<1>1. ASSUME NEW q \in Runs, q # r
      PROVE  /\ rep'[q] = rep[q] /\ owner'[q] = owner[q] /\ prompts'[q] = prompts[q] /\ answer'[q] = answer[q]
             /\ Live(q)' <=> Live(q)
    BY <1>0, <1>1 DEF RunGoes, Live
<1>2. ASSUME NEW q \in Runs, q # r
      PROVE  EndsOf(q)' = EndsOf(q)
    BY <1>1, <1>2 DEF EndsOf, Young, RunGoes
<1>3. RunsInv'
    <2>1. /\ proc' \in 1..MaxProcs /\ rep' \in [Runs -> Snapshot \cup {None}] /\ owner' \in [Runs -> -1..MaxProcs]
          /\ prompts' \in [Runs -> {0, 1}] /\ answer' \in [Runs -> Endings \cup {"none"}]
        BY <1>0 DEF RunGoes, TasksInv, RunsInv
    <2>2. \A q \in Runs : owner'[q] <= proc'
        BY <1>1 DEF RunGoes, TasksInv, RunsInv
    <2>3. \A q \in Runs : Live(q)' /\ rep'[q].ex # "started" => rep'[q].rev <= 1
        BY <1>1 DEF RunGoes, TasksInv, RunsInv
    <2> QED BY <2>1, <2>2, <2>3 DEF TasksInv, RunsInv
<1>4. ASSUME NEW q \in Runs
      PROVE  Says(q, rep[q])' /\ \A s \in Snapshot : Says(q, s) => Says(q, s)'
    <2>1. CASE q = r
        BY <2>1 DEF RunGoes
    <2>2. CASE q # r
        BY <1>1, <1>2, <2>2 DEF Says, TasksInv, SaidInv
    <2> QED BY <2>1, <2>2
<1> QED BY <1>3, <1>4 DEF RunsGo

(* What the invariant says of a run. *)
LEMMA RunNow ==
    ASSUME TasksInv, NEW r \in Runs
    PROVE  /\ rep \in [Runs -> Snapshot \cup {None}] /\ owner \in [Runs -> -1..MaxProcs]
           /\ prompts \in [Runs -> {0, 1}] /\ answer \in [Runs -> Endings \cup {"none"}]
           /\ proc \in 1..MaxProcs /\ owner[r] \in -1..MaxProcs /\ owner[r] <= proc
           /\ rep[r] \in Snapshot \cup {None} /\ prompts[r] \in {0, 1} /\ answer[r] \in Endings \cup {"none"}
           /\ Says(r, rep[r])
           /\ Live(r) /\ rep[r].ex # "started" => rep[r].rev <= 1
    BY DEF TasksInv, RunsInv, SaidInv

(* A live run is reported by the process that admitted it, or from its     *)
(* record.                                                                 *)
LEMMA LiveRun ==
    ASSUME TasksInv, NEW r \in Runs, Live(r)
    PROVE  /\ rep[r] \in Snapshot /\ rep[r] # None /\ rep[r].st \in {"starting", "running"}
           /\ rep[r].pi = owner[r] /\ owner[r] \in 1..MaxProcs /\ rep[r].rev \in Nat /\ rep[r].rev <= MaxRev + 2
<1>1. rep[r] \in Snapshot /\ Says(r, rep[r]) /\ rep[r].st \notin Terminal
    BY RunNow DEF Live
<1> QED BY <1>1, Admitted, SnapParts DEF RunState

(* A live report, with no end told, is a report for good. *)
LEMMA LiveSays ==
    ASSUME NEW r, NEW s, s # None => s.pi = owner'[r] /\ s.st \in {"starting", "running"} /\ s.rev <= MaxRev + 2
    PROVE  Faithful(s, owner'[r], EndsOf(r)', prompts'[r], answer'[r])
    BY DEF Faithful, TrueReport, Terminal, Definitive

(* An admitted run goes on: nothing was said of it. *)
LEMMA AdmitGoes ==
    ASSUME TasksInv, NEW r \in Runs, Admit(r)
    PROVE  RunGoes(r)
<1> DEFINE s == Snap("starting", "not_started", 0, proc)
<1>0. owner[r] = 0 /\ rep[r] = None /\ rep' = [rep EXCEPT ![r] = s] /\ owner' = [owner EXCEPT ![r] = proc]
      /\ UNCHANGED <<proc, prompts, answer>>
    BY DEF Admit
<1>1. s \in Snapshot /\ s.st = "starting" /\ s.rev = 0 /\ s.pi = proc
    BY SnapMade, RunNow, TaskAssumption DEF Revs, RunState, ExecutionState
<1> HIDE DEF s
<1>2. /\ rep'[r] = s /\ owner'[r] = proc
      /\ prompts'[r] = prompts[r] /\ answer'[r] = answer[r]
    BY <1>0, RunNow
<1>3. \A t \in Snapshot : ~Says(r, t)
    BY <1>0, Admitted
<1>4. Says(r, rep[r])'
    BY <1>1, <1>2, LiveSays, TaskAssumption DEF Says
<1>5. /\ prompts' = [prompts EXCEPT ![r] = prompts'[r]] /\ prompts'[r] \in {0, 1}
      /\ answer' = [answer EXCEPT ![r] = answer'[r]] /\ answer'[r] \in Endings \cup {"none"}
    BY <1>0, RunNow
<1>6. owner'[r] \in -1..MaxProcs /\ owner'[r] <= proc
    BY <1>2, RunNow, TaskAssumption
<1>7. rep'[r].rev <= 1 /\ rep'[r] \in Snapshot \cup {None}
    BY <1>1, <1>2
<1> QED BY <1>0, <1>2, <1>3, <1>4, <1>5, <1>6, <1>7 DEF RunGoes

(* What a failed admission leaves goes on. *)
LEMMA ResidueGoes ==
    ASSUME TasksInv, NEW r \in Runs, Residue(r)
    PROVE  RunGoes(r)
<1>0. owner[r] = 0 /\ rep[r] = None /\ UNCHANGED <<proc, rep, prompts, answer>>
    BY DEF Residue
<1>1. PICK p \in {proc, -1} : owner' = [owner EXCEPT ![r] = p]
    BY DEF Residue
<1>2. owner'[r] = p /\ p \in -1..MaxProcs /\ p <= proc
    BY <1>1, RunNow, TaskAssumption
<1>3. \A t \in Snapshot : ~Says(r, t)
    BY <1>0, Admitted
<1>4. Says(r, rep[r])'
    BY <1>0 DEF Says, Faithful
<1> QED BY <1>0, <1>1, <1>2, <1>3, <1>4, RunNow DEF RunGoes, Live

(* A run that is reported from its record goes on. *)
LEMMA ReadmitGoes ==
    ASSUME TasksInv, NEW r \in Runs, Readmit(r)
    PROVE  RunGoes(r)
<1> DEFINE s == Snap("starting", "not_started", 0, owner[r])
<1>0. owner[r] > 0 /\ rep[r] = None /\ rep' = [rep EXCEPT ![r] = s] /\ UNCHANGED <<proc, owner, prompts, answer>>
    BY DEF Readmit
<1>1. owner[r] \in 1..MaxProcs
    BY <1>0, RunNow, TaskAssumption
<1>2. s \in Snapshot /\ s.st = "starting" /\ s.rev = 0 /\ s.pi = owner[r]
    BY <1>1, SnapMade, TaskAssumption DEF Revs, RunState, ExecutionState
<1> HIDE DEF s
<1>3. rep'[r] = s /\ s # None
    BY <1>0, <1>2, RunNow, SnapParts
<1>4. EndsOf(r)' = EndsOf(r)
    BY <1>0, <1>2, <1>3 DEF EndsOf, Young, Live, Terminal, Definitive
<1>5. \A t \in Snapshot : Says(r, t) => Says(r, t)'
    BY <1>0, <1>4 DEF Says
<1>6. Says(r, rep[r])'
    BY <1>0, <1>2, <1>3, LiveSays, TaskAssumption DEF Says
<1>7. /\ prompts' = [prompts EXCEPT ![r] = prompts'[r]] /\ prompts'[r] \in {0, 1}
      /\ answer' = [answer EXCEPT ![r] = answer'[r]] /\ answer'[r] \in Endings \cup {"none"}
      /\ owner' = [owner EXCEPT ![r] = owner'[r]] /\ owner'[r] \in -1..MaxProcs /\ owner'[r] <= proc
    BY <1>0, RunNow
<1>8. rep'[r].rev <= 1 /\ rep'[r] \in Snapshot \cup {None}
    BY <1>2, <1>3
<1>10. rep' = [rep EXCEPT ![r] = rep'[r]]
    BY <1>0, <1>3
<1>9. proc' = proc
    BY <1>0
<1> QED BY <1>5, <1>6, <1>7, <1>8, <1>9, <1>10 DEF RunGoes

(* A run that makes progress goes on. *)
LEMMA AdvanceGoes ==
    ASSUME TasksInv, NEW r \in Runs, Advance(r)
    PROVE  RunGoes(r) /\ Live(r)
<1>0. Live(r) /\ UNCHANGED <<proc, owner, prompts, answer>>
    BY DEF Advance
<1>1. PICK s \in Snapshot :
          /\ rep' = [rep EXCEPT ![r] = s]
          /\ s.pi = rep[r].pi /\ s.st = "running" /\ s.rev <= MaxRev + 2
          /\ s.ex # "started" => s.rev <= 1
    <2>1. CASE rep[r].st = "starting"
        <3> DEFINE s == Snap("running", "outcome_unknown", 1, rep[r].pi)
        <3>1. /\ s \in Snapshot /\ s.pi = rep[r].pi /\ s.st = "running" /\ s.rev = 1
            BY <1>0, LiveRun, SnapMade, TaskAssumption DEF Revs, RunState, ExecutionState
        <3>2. rep' = [rep EXCEPT ![r] = s]
            BY <2>1, RunNow DEF Advance
        <3> HIDE DEF s
        <3>3. s.rev <= MaxRev + 2 /\ s.rev <= 1
            BY <3>1, TaskAssumption
        <3> QED BY <3>1, <3>2, <3>3
    <2>2. CASE rep[r].st = "running"
        <3> DEFINE s == [rep[r] EXCEPT !.ex = "started", !.rev = rep[r].rev + 1]
        <3>0. rep[r] \in Snapshot /\ rep[r].st = "running" /\ rep[r].rev \in Nat
            BY <1>0, <2>2, LiveRun
        <3>1. rep[r].rev + 1 \in Revs /\ rep[r].rev + 1 <= MaxRev + 2
            <4>1. rep[r].rev <= 1 \/ rep[r].rev < MaxRev
                BY <1>0, <2>2, RunNow DEF Advance
            <4> QED BY <3>0, <4>1, TaskAssumption DEF Revs
        <3>2. s \in Snapshot /\ s.pi = rep[r].pi /\ s.st = "running" /\ s.rev = rep[r].rev + 1 /\ s.ex = "started"
            BY <3>0, <3>1 DEF Snapshot, Snapshots, ExecutionState
        <3>3. rep' = [rep EXCEPT ![r] = s]
            BY <2>2, RunNow DEF Advance
        <3> HIDE DEF s
        <3> QED BY <3>1, <3>2, <3>3
    <2> QED BY <1>0, <2>1, <2>2, LiveRun
<1>2. rep'[r] = s /\ s # None /\ s.pi = owner'[r]
    BY <1>0, <1>1, RunNow, SnapParts, LiveRun
<1>3. EndsOf(r)' = EndsOf(r)
    BY <1>0, <1>1, <1>2 DEF EndsOf, Young, Live, Terminal, Definitive
<1>4. \A t \in Snapshot : Says(r, t) => Says(r, t)'
    BY <1>0, <1>3 DEF Says
<1>5. Says(r, rep[r])'
    BY <1>1, <1>2, LiveSays DEF Says
<1> QED BY <1>0, <1>1, <1>2, <1>4, <1>5, RunNow DEF RunGoes

(* A run whose prompt is handed over goes on: it is young, so that no end  *)
(* was told of it but that it is lost.                                     *)
LEMMA HandOverGoes ==
    ASSUME TasksInv, NEW r \in Runs, HandOver(r)
    PROVE  RunGoes(r) /\ Live(r)
<1>0. Live(r) /\ owner[r] = proc /\ prompts[r] = 0 /\ prompts' = [prompts EXCEPT ![r] = 1]
      /\ UNCHANGED <<proc, rep, owner, answer>>
    BY DEF HandOver
<1>1. prompts'[r] = 1
    BY <1>0, RunNow
<1>2. EndsOf(r) = {"lost"} /\ EndsOf(r)' = {"lost"}
    BY <1>0 DEF EndsOf, Young, Live
<1>3. ASSUME NEW t \in Snapshot \cup {None}, Says(r, t)
      PROVE  Says(r, t)'
    <2>1. t # None /\ t.st \in Terminal => t.st = "lost"
        BY <1>2, <1>3, Admitted
    <2> QED BY <1>0, <1>2, <1>3, <2>1 DEF Says, Faithful, TrueReport
<1>4. /\ rep' = [rep EXCEPT ![r] = rep'[r]] /\ rep'[r] = rep[r]
      /\ owner' = [owner EXCEPT ![r] = owner'[r]] /\ answer' = [answer EXCEPT ![r] = answer'[r]]
      /\ prompts' = [prompts EXCEPT ![r] = prompts'[r]]
    BY <1>0, <1>1, RunNow
<1>5. Says(r, rep[r])'
    BY <1>0, <1>3, RunNow DEF Says
<1> QED BY <1>0, <1>1, <1>3, <1>4, <1>5, RunNow DEF RunGoes, Live

(* A run that is answered goes on: no completed end was told of it. *)
LEMMA ReplyGoes ==
    ASSUME TasksInv, NEW r \in Runs, NEW o \in Endings, Reply(r, o)
    PROVE  RunGoes(r) /\ Live(r)
<1>0. Live(r) /\ answer[r] = "none" /\ answer' = [answer EXCEPT ![r] = o] /\ UNCHANGED <<proc, rep, owner, prompts>>
    BY DEF Reply
<1>1. answer'[r] = o
    BY <1>0, RunNow
<1>2. EndsOf(r)' = EndsOf(r)
    BY <1>0 DEF EndsOf, Young, Live
<1>3. ASSUME NEW t \in Snapshot \cup {None}, Says(r, t)
      PROVE  Says(r, t)'
    <2>1. t # None /\ t.st \in Terminal => t.ex # "completed"
        BY <1>0, <1>3, Admitted DEF TrueReport, Terminal, Definitive
    <2> QED BY <1>0, <1>2, <1>3, <2>1 DEF Says, Faithful, TrueReport
<1>4. /\ rep' = [rep EXCEPT ![r] = rep'[r]] /\ rep'[r] = rep[r]
      /\ owner' = [owner EXCEPT ![r] = owner'[r]] /\ answer' = [answer EXCEPT ![r] = answer'[r]]
      /\ prompts' = [prompts EXCEPT ![r] = prompts'[r]]
    BY <1>0, <1>1, RunNow
<1>5. Says(r, rep[r])'
    BY <1>0, <1>3, RunNow DEF Says
<1> QED BY <1>0, <1>1, <1>3, <1>4, <1>5, RunNow DEF RunGoes, Live

(* An end that a run may have is a report of it. *)
LEMMA EndParts ==
    ASSUME TasksInv, NEW r \in Runs, NEW rev \in Revs, NEW s \in Ends(r, rev), owner[r] > 0
    PROVE  /\ s \in Snapshot /\ s # None /\ s.st \in Terminal /\ s.pi = owner[r] /\ owner[r] \in 1..MaxProcs
           /\ TrueReport(s, prompts[r], answer[r])
<1>1. /\ s.st \in Terminal /\ s.ex \in ExecutionState /\ s.rev = rev /\ s.pi = owner[r]
      /\ s = [st |-> s.st, ex |-> s.ex, rev |-> s.rev, pi |-> s.pi]
      /\ TrueReport(s, prompts[r], answer[r])
    BY TaskAssumption DEF Ends, True, Terminal
<1>2. owner[r] \in 1..MaxProcs
    BY RunNow, TaskAssumption
<1>3. s \in Snapshot
    BY <1>1, <1>2 DEF Snapshot, Snapshots, RunState
<1> QED BY <1>1, <1>2, <1>3, SnapParts

(* A run that ends goes on: its end is true, and stays. *)
LEMMA EndGoes ==
    ASSUME TasksInv, NEW r \in Runs, End(r)
    PROVE  RunGoes(r) /\ Live(r)
<1>0. Live(r) /\ UNCHANGED <<proc, owner, prompts, answer>>
    BY DEF End
<1>1. rep[r].rev + 2 \in Revs /\ owner[r] > 0
    BY <1>0, LiveRun, TaskAssumption DEF Revs
<1>2. PICK s \in Ends(r, rep[r].rev + 2) : rep' = [rep EXCEPT ![r] = s]
    BY DEF End
<1>3. /\ s \in Snapshot /\ s # None /\ s.st \in Terminal /\ s.pi = owner[r]
      /\ TrueReport(s, prompts[r], answer[r])
    BY <1>1, EndParts
<1>4. rep'[r] = s
    BY <1>2, RunNow
<1>5. EndsOf(r)' = Terminal /\ EndsOf(r) \subseteq Terminal
    BY <1>3, <1>4 DEF EndsOf, Young, Live, Terminal
<1>6. ASSUME NEW t \in Snapshot, Says(r, t)
      PROVE  Says(r, t)'
    BY <1>0, <1>5, <1>6 DEF Says, Faithful
<1>7. Says(r, rep[r])'
    BY <1>0, <1>3, <1>4, <1>5 DEF Says, Faithful
<1>8. /\ rep' = [rep EXCEPT ![r] = rep'[r]] /\ ~Live(r)'
      /\ owner' = [owner EXCEPT ![r] = owner'[r]] /\ answer' = [answer EXCEPT ![r] = answer'[r]]
      /\ prompts' = [prompts EXCEPT ![r] = prompts'[r]]
    BY <1>0, <1>2, <1>3, <1>4, RunNow DEF Live
<1> QED BY <1>0, <1>3, <1>4, <1>6, <1>7, <1>8, RunNow DEF RunGoes

(* All runs go on when the next process starts: what it reports ended, and *)
(* no run of the earlier ones can be prompted.                             *)
LEMMA NextProcessGoes ==
    ASSUME TasksInv, NextProcess, UNCHANGED <<reg, inv>>
    PROVE  /\ RunsGo /\ proc' # proc /\ UNCHANGED <<owner, prompts, answer>>
           /\ \A r \in Runs : ~Live(r)'
<1>0. proc < MaxProcs /\ proc' = proc + 1 /\ UNCHANGED <<owner, prompts, answer>>
    BY DEF NextProcess
<1>1. ASSUME NEW r \in Runs, rep'[r] # None
      PROVE  /\ rep'[r] \in Snapshot /\ rep'[r].st \in Terminal /\ rep'[r].pi = owner[r]
             /\ TrueReport(rep'[r], prompts[r], answer[r])
    <2>1. owner[r] > 0 /\ rep'[r] \in Ends(r, 0) /\ 0 \in Revs
        BY <1>1, TaskAssumption DEF NextProcess, Revs
    <2> QED BY <2>1, EndParts
<1>2. \A r \in Runs : ~Live(r)'
    BY <1>1 DEF Live
<1>3. proc \in 1..MaxProcs /\ MaxProcs \in Nat
    BY TaskAssumption DEF TasksInv, RunsInv
<1>4. RunsInv'
    <2>1. rep' \in [Runs -> Snapshot \cup {None}]
        <3>1. \E S : rep' \in [Runs -> S]
            BY DEF NextProcess
        <3> QED BY <1>1, <3>1
    <2>2. proc' \in 1..MaxProcs /\ \A r \in Runs : owner'[r] <= proc'
        BY <1>0, <1>3 DEF TasksInv, RunsInv
    <2> QED BY <1>0, <1>2, <2>1, <2>2 DEF TasksInv, RunsInv
<1>5. ASSUME NEW r \in Runs
      PROVE  EndsOf(r)' = Terminal /\ EndsOf(r) \subseteq Terminal
    <2>1. owner'[r] # proc'
        BY <1>0, <1>3, RunNow
    <2> QED BY <2>1 DEF EndsOf, Young, Terminal
<1>6. ASSUME NEW r \in Runs, NEW t \in Snapshot, Says(r, t)
      PROVE  Says(r, t)'
    BY <1>0, <1>5, <1>6 DEF Says, Faithful
<1>7. ASSUME NEW r \in Runs
      PROVE  Says(r, rep[r])'
    BY <1>0, <1>1, <1>5 DEF Says, Faithful
<1> QED BY <1>0, <1>2, <1>3, <1>4, <1>6, <1>7 DEF RunsGo

(***************************************************************************)
(* The Runner alone, and a start that it handles.                          *)
(***************************************************************************)
(* The frame of the steps of the Runner. *)
LEMMA RunnerStep ==
    ASSUME TasksInv, RunsGo, UNCHANGED <<storeVars, serverVars, calls>>, wire' \subseteq wire,
           call' \in [Callers -> Held], \A c \in Callers : CallInv(call[c])',
           \A c \in Callers, r \in Runs : (call[c].n = r => Says(r, call[c].s))',
           ClaimInv'
    PROVE  TasksInv'
<1>0. task' = task /\ att' = att /\ bind' = bind /\ sb' = sb /\ reg' = reg /\ inv' = inv /\ calls' = calls
    BY DEF storeVars, serverVars
<1>1. TypeOK'
    BY <1>0 DEF TasksInv, TypeOK, Held
<1>2. RunsInv'
    BY DEF RunsGo
<1>3. SaidInv'
    <2>1. ASSUME NEW r \in Runs, NEW s \in Snapshot \cup {None}, Says(r, s)
          PROVE  Says(r, s)'
        BY <2>1 DEF RunsGo, Says, Faithful
    <2>2. ASSUME NEW r \in Runs PROVE Says(r, inv[r])'
        <3>1. Says(r, inv[r]) /\ inv[r] \in Snapshot \cup {None}
            BY Rows DEF TasksInv, SaidInv
        <3> QED BY <1>0, <2>1, <3>1 DEF Says
    <2>3. ASSUME NEW r \in Runs, sb'[r] # None PROVE Says(r, sb[r].s)'
        <3>1. Says(r, sb[r].s) /\ sb[r].s \in Snapshot
            BY <1>0, <2>3, Rows, ServerBindingParts DEF TasksInv, SaidInv
        <3> QED BY <1>0, <2>1, <3>1 DEF Says
    <2>4. ASSUME NEW r \in Runs, bind'[r] # None PROVE Says(r, bind[r].s)'
        <3>1. Says(r, bind[r].s) /\ bind[r].s \in Snapshot \cup {None}
            BY <1>0, <2>4, Rows, BindingParts DEF TasksInv, SaidInv
        <3> QED BY <1>0, <2>1, <3>1 DEF Says
    <2> QED BY <2>2, <2>3, <2>4 DEF SaidInv, RunsGo
<1>4. EndInv'
    BY <1>0 DEF TasksInv, EndInv, TaskOver, Ended
<1> QED BY <1>1, <1>2, <1>3, <1>4 DEF TasksInv

(* The handlers stay where they are. *)
LEMMA SameCalls ==
    ASSUME TasksInv, RunsGo, UNCHANGED <<bind, call>>
    PROVE  /\ call' \in [Callers -> Held] /\ \A c \in Callers : CallInv(call[c])'
           /\ \A c \in Callers, r \in Runs : (call[c].n = r => Says(r, call[c].s))'
<1>1. ASSUME NEW c \in Callers, NEW r \in Runs, call'[c].n = r
      PROVE  Says(r, call[c].s)'
    <2>1. Says(r, call[c].s) /\ call[c].s \in Snapshot \cup {None}
        BY <1>1, Rows DEF TasksInv, SaidInv
    <2>2. (call[c].s)' = call[c].s
        OBVIOUS
    <2>3. call[c].s # None => Says(r, call[c].s)'
        BY <2>1, <2>2 DEF RunsGo, Says
    <2> QED BY <2>2, <2>3 DEF Says, Faithful
<1> QED BY <1>1 DEF TasksInv, TypeOK, Held, CallInv

(* A step of the Runner by itself keeps the invariant. *)
LEMMA RunnerAloneStep ==
    ASSUME TasksInv, RunnerAlone
    PROVE  TasksInv'
<1>0. /\ UNCHANGED <<storeVars, serverVars, call, calls>>
      /\ bind' = bind /\ task' = task /\ reg' = reg /\ inv' = inv
      /\ wire' = (IF proc' = proc THEN wire ELSE {})
    BY DEF RunnerAlone, storeVars, serverVars
<1>1. \/ \E r \in Runs : RunGoes(r) /\ Live(r)
      \/ NextProcess
    BY AdvanceGoes, HandOverGoes, EndGoes, ReplyGoes DEF RunnerAlone
<1>2. RunsGo
    BY <1>0, <1>1, OneRun, NextProcessGoes
<1>3. \A n \in Runs : prompts[n] = 0 /\ ~Live(n) => prompts'[n] = 0 /\ ~Live(n)'
    <2>1. CASE NextProcess
        BY <2>1, <1>0, NextProcessGoes
    <2>2. ASSUME NEW r \in Runs, RunGoes(r), Live(r), NEW n \in Runs, n # r
          PROVE  prompts'[n] = prompts[n] /\ (Live(n)' <=> Live(n))
        BY <2>2 DEF RunGoes, Live, TasksInv, RunsInv
    <2> QED BY <1>1, <2>1, <2>2
<1>4. wire' \subseteq wire
    BY <1>0
<1>5. \A n \in Runs : Untouched(n) => Untouched(n)'
    BY <1>3, <1>4 DEF Untouched
<1>6. ClaimInv'
    <2>1. \A c \in Callers, n \in Runs : Dispatching(c, n)' <=> Dispatching(c, n)
        BY <1>0 DEF Dispatching
    <2>3. ASSUME NEW c \in Callers, call'[c].pc \in Early
          PROVE  Untouched(call[c].n)'
        <3>1. call[c].n \in Runs /\ Untouched(call[c].n)
            BY <1>0, <2>3, CallNow DEF Early
        <3> QED BY <1>0, <1>3, <1>4, <3>1 DEF Untouched
    <2>4. \A n \in wire' : prompts'[n] = 0 /\ ~Live(n)'
        BY <1>3, <1>4, Claims DEF TasksInv, TypeOK
    <2>5. \A n \in Runs : Dispatchable(bind'[n]) \/ n # task'.latest =>
              Untouched(n)' /\ \A c \in Callers : ~Dispatching(c, n)'
        BY <1>0, <1>5, <2>1, Claims
    <2>6. \A n \in Runs, c, d \in Callers : Dispatching(c, n)' /\ Dispatching(d, n)' => c = d
        BY <2>1, Claims
    <2> QED BY <2>3, <2>4, <2>5, <2>6 DEF ClaimInv, Dispatchable, Early
<1> QED BY <1>0, <1>2, <1>4, <1>6, SameCalls, RunnerStep

(* The handler of c stays, or is one that waits for run r and goes to pc.  *)
Answered(c, r, pc) ==
    \/ call'[c] = call[c]
    \/ call[c].pc = "sent" /\ call[c].n = r /\ call'[c].pc = pc /\ (pc = "idle" \/ call'[c].n = r)

(* The answer to a start reaches the handler that waits for it, or nobody. *)
LEMMA AnswerGoes ==
    ASSUME TasksInv, RunsGo, UNCHANGED bind, NEW r \in Runs, NEW pc \in {"answered", "not_started", "idle"},
           NEW s \in Snapshot \cup {None}, Answers(r, pc, s), pc = "answered" => s # None,
           Faithful(s, owner'[r], EndsOf(r)', prompts'[r], answer'[r])
    PROVE  /\ call' \in [Callers -> Held] /\ \A c \in Callers : CallInv(call[c])'
           /\ \A c \in Callers, q \in Runs : (call[c].n = q => Says(q, call[c].s))'
           /\ \A c \in Callers : Answered(c, r, pc)
<1>1. CASE call' = call
    BY <1>1, SameCalls DEF Answered
<1>2. ASSUME NEW c \in Callers, At(c, "sent"), call[c].n = r,
             call' = [call EXCEPT ![c] = IF pc = "idle" THEN Idle ELSE [call[c] EXCEPT !.pc = pc, !.s = s]]
      PROVE  /\ call' \in [Callers -> Held] /\ \A d \in Callers : CallInv(call[d])'
             /\ \A d \in Callers, q \in Runs : (call[d].n = q => Says(q, call[d].s))'
             /\ \A d \in Callers : Answered(d, r, pc)
    <2>1. call \in [Callers -> Held] /\ CallInv(call[c]) /\ call[c].pc = "sent"
        BY <1>2 DEF TasksInv, TypeOK, Held, At
    <2>2. /\ Idle \in Held /\ Idle.pc = "idle" /\ Idle.n = 0 /\ Idle.s = None
          /\ pc \in CallPc
        BY TaskAssumption DEF Idle, Held, CallPc
    <2> DEFINE k == [call[c] EXCEPT !.pc = pc, !.s = s]
    <2>3. k \in Held /\ k.pc = pc /\ k.n = r /\ k.p = call[c].p /\ k.s = s
        BY <1>2, <2>1, <2>2 DEF Held
    <2> HIDE DEF k
    <2>4. call' = [call EXCEPT ![c] = IF pc = "idle" THEN Idle ELSE k]
        BY <1>2 DEF k
    <2>5. /\ call'[c] = IF pc = "idle" THEN Idle ELSE k
          /\ \A d \in Callers \ {c} : call'[d] = call[d]
        BY <2>1, <2>4
    <2>6. call' \in [Callers -> Held]
        BY <2>1, <2>2, <2>3, <2>4
    <2>7. ASSUME NEW d \in Callers PROVE CallInv(call[d])'
        <3>1. CASE d # c
            BY <3>1, <2>5 DEF TasksInv, CallInv
        <3>2. CASE d = c /\ pc = "idle"
            BY <3>2, <2>2, <2>5 DEF CallInv
        <3>3. CASE d = c /\ pc # "idle"
            <4>1. call[c].p # 0 /\ bind[r] # None
                BY <1>2, <2>1 DEF CallInv
            <4> QED BY <3>3, <4>1, <2>3, <2>5 DEF CallInv
        <3> QED BY <3>1, <3>2, <3>3
    <2>8. ASSUME NEW d \in Callers, NEW q \in Runs, call'[d].n = q
          PROVE  Says(q, call[d].s)'
        <3>1. CASE d # c
            <4>1. call'[d] = call[d] /\ Says(q, call[d].s) /\ call[d].s \in Snapshot \cup {None}
                BY <2>5, <2>8, <3>1, Rows DEF TasksInv, SaidInv
            <4>2. call[d].s # None => Says(q, call[d].s)'
                BY <4>1 DEF RunsGo, Says
            <4> QED BY <4>1, <4>2 DEF Says, Faithful
        <3>2. CASE d = c /\ pc = "idle"
            BY <3>2, <2>2, <2>5, <2>8, TaskAssumption
        <3>3. CASE d = c /\ pc # "idle"
            BY <3>3, <2>3, <2>5, <2>8 DEF Says
        <3> QED BY <3>1, <3>2, <3>3
    <2>9. ASSUME NEW d \in Callers PROVE Answered(d, r, pc)
        BY <1>2, <2>1, <2>2, <2>3, <2>5 DEF Answered
    <2> QED BY <2>6, <2>7, <2>8, <2>9
<1> QED BY <1>1, <1>2 DEF Answers

(* A start that is handled leaves its attempt in the hands of its          *)
(* claimant.                                                               *)
LEMMA HandleClaims ==
    ASSUME TasksInv, NEW r \in wire, wire' = wire \ {r}, UNCHANGED <<task, bind, prompts>>,
           \A n \in Runs \ {r} : Live(n)' <=> Live(n),
           NEW pc \in {"answered", "not_started", "idle"}, pc = "not_started" => ~Live(r)',
           \A c \in Callers : Answered(c, r, pc)
    PROVE  ClaimInv'
<1>0. r \in Runs /\ wire \subseteq Runs /\ prompts[r] = 0 /\ ~Untouched(r)
    BY Claims DEF TasksInv, TypeOK, Untouched
<1>1. \A n \in Runs : n # r => (Untouched(n)' <=> Untouched(n))
    BY DEF Untouched
<1>2. ASSUME NEW c \in Callers, NEW n \in Runs, Dispatching(c, n)'
      PROVE  Dispatching(c, n)
    BY <1>2 DEF Answered, Dispatching
<1>3. \A n \in Runs : Dispatchable(bind'[n]) \/ n # task'.latest =>
          Untouched(n)' /\ \A c \in Callers : ~Dispatching(c, n)'
    BY <1>0, <1>1, <1>2, Claims
<1>4. \A n \in Runs, c, d \in Callers : Dispatching(c, n)' /\ Dispatching(d, n)' => c = d
    BY <1>2, Claims
<1>5. ASSUME NEW c \in Callers, call'[c].pc \in Early
      PROVE  Untouched(call[c].n)'
    <2>1. CASE call'[c] = call[c]
        <3>1. call[c].n \in Runs /\ Untouched(call[c].n) /\ call[c].n # r
            BY <1>0, <1>5, <2>1, CallNow DEF Early
        <3> QED BY <2>1, <3>1 DEF Untouched
    <2>2. CASE call'[c] # call[c]
        <3>1. call'[c].pc = pc /\ pc = "not_started" /\ call'[c].n = r
            BY <1>5, <2>2 DEF Answered, Early
        <3> QED BY <1>0, <3>1 DEF Untouched
    <2> QED BY <2>1, <2>2
<1>6. \A n \in wire' : prompts'[n] = 0 /\ ~Live(n)'
    BY <1>0, Claims
<1> QED BY <1>3, <1>4, <1>5, <1>6 DEF ClaimInv, Dispatchable, Early

(* The Runner handles a start. *)
LEMMA HandleStep ==
    ASSUME TasksInv, NEW r \in Runs, Handle(r)
    PROVE  TasksInv'
<1>0. /\ r \in wire /\ wire' = wire \ {r} /\ UNCHANGED <<storeVars, serverVars, calls>>
      /\ task' = task /\ bind' = bind /\ reg' = reg /\ inv' = inv
    BY DEF Handle, storeVars, serverVars
<1>1. ~Live(r)
    BY <1>0, Claims
<1>2. ASSUME UNCHANGED runVars
      PROVE  RunsGo /\ UNCHANGED prompts /\ \A n \in Runs : Live(n)' <=> Live(n)
    <2>1. UNCHANGED <<proc, rep, owner, prompts, answer>>
        BY <1>2 DEF runVars
    <2>2. \A q \in Runs : EndsOf(q)' = EndsOf(q)
        BY <2>1 DEF EndsOf, Young, Live
    <2>3. \A q \in Runs, s \in Snapshot : Says(q, s) => Says(q, s)'
        BY <2>1, <2>2 DEF Says
    <2>4. \A q \in Runs : Says(q, rep[q])'
        BY <2>1, <2>2 DEF Says, TasksInv, SaidInv
    <2>5. RunsInv'
        BY <1>0, <2>1 DEF TasksInv, RunsInv, Live
    <2> QED BY <2>1, <2>3, <2>4, <2>5 DEF RunsGo, Live
<1>3. ASSUME Admit(r) \/ Readmit(r) \/ Residue(r)
      PROVE  RunsGo /\ UNCHANGED prompts /\ \A n \in Runs \ {r} : Live(n)' <=> Live(n)
    <2>1. RunGoes(r)
        BY <1>3, AdmitGoes, ReadmitGoes, ResidueGoes
    <2>2. RunsGo
        BY <1>0, <2>1, OneRun
    <2>3. UNCHANGED prompts
        BY <1>3 DEF Admit, Readmit, Residue
    <2>4. \A n \in Runs \ {r} : Live(n)' <=> Live(n)
        BY <2>1, RunNow DEF RunGoes, Live
    <2> QED BY <2>2, <2>3, <2>4
<1>4. ASSUME NEW pc \in {"answered", "not_started", "idle"}, NEW s \in Snapshot \cup {None}, Answers(r, pc, s),
             pc = "answered" => s # None, Faithful(s, owner'[r], EndsOf(r)', prompts'[r], answer'[r]),
             RunsGo, UNCHANGED prompts, \A n \in Runs \ {r} : Live(n)' <=> Live(n),
             pc = "not_started" => ~Live(r)'
      PROVE  TasksInv'
    <2>1. /\ call' \in [Callers -> Held] /\ \A c \in Callers : CallInv(call[c])'
          /\ \A c \in Callers, q \in Runs : (call[c].n = q => Says(q, call[c].s))'
          /\ \A c \in Callers : Answered(c, r, pc)
        BY <1>0, <1>4, AnswerGoes
    <2>2. ClaimInv'
        BY <1>0, <1>4, <2>1, HandleClaims
    <2>3. wire' \subseteq wire
        BY <1>0
    <2> QED BY <1>0, <1>4, <2>1, <2>2, <2>3, RunnerStep
<1>5. Faithful(None, owner'[r], EndsOf(r)', prompts'[r], answer'[r])
    BY DEF Faithful
<1>6. CASE (Admit(r) \/ Readmit(r)) /\ Answers(r, "answered", rep'[r])
    <2>1. rep'[r] \in Snapshot /\ rep'[r] # None
        <3>1. rep'[r] \in Snapshot \cup {None}
            BY <1>3, <1>6 DEF RunsGo, RunsInv
        <3>2. Snap("starting", "not_started", 0, proc) # None
            BY SnapMade, RunNow, TaskAssumption DEF Revs, RunState, ExecutionState
        <3>3. Readmit(r) => Snap("starting", "not_started", 0, owner[r]) # None /\ rep'[r] = Snap("starting", "not_started", 0, owner[r])
            <4> SUFFICES ASSUME Readmit(r) PROVE /\ Snap("starting", "not_started", 0, owner[r]) # None
                                                 /\ rep'[r] = Snap("starting", "not_started", 0, owner[r])
                OBVIOUS
            <4>1. owner[r] \in 1..MaxProcs /\ rep'[r] = Snap("starting", "not_started", 0, owner[r])
                BY RunNow, TaskAssumption DEF Readmit
            <4> QED BY <4>1, SnapMade, TaskAssumption DEF Revs, RunState, ExecutionState
        <3>4. Admit(r) => rep'[r] = Snap("starting", "not_started", 0, proc)
            BY RunNow DEF Admit
        <3> QED BY <1>6, <3>1, <3>2, <3>3, <3>4
    <2>2. Faithful(rep'[r], owner'[r], EndsOf(r)', prompts'[r], answer'[r])
        BY <1>3, <1>6 DEF RunsGo, Says
    <2> QED BY <1>3, <1>4, <1>6, <2>1, <2>2
<1>7. CASE rep[r] # None /\ Answers(r, "answered", rep[r]) /\ UNCHANGED runVars
    <2>1. rep' = rep /\ rep[r] \in Snapshot
        BY <1>7, RunNow DEF runVars
    <2>2. Faithful(rep[r], owner'[r], EndsOf(r)', prompts'[r], answer'[r])
        BY <1>2, <1>7, <2>1 DEF RunsGo, Says
    <2> QED BY <1>2, <1>4, <1>7, <2>1, <2>2
<1>8. CASE Answers(r, "not_started", None) /\ UNCHANGED runVars
    BY <1>1, <1>2, <1>4, <1>5, <1>8
<1>9. CASE Residue(r) /\ Answers(r, "not_started", None)
    <2>1. ~Live(r)'
        BY <1>9 DEF Residue, Live
    <2> QED BY <1>3, <1>4, <1>5, <1>9, <2>1
<1>10. CASE Answers(r, "idle", None) /\ UNCHANGED runVars
    BY <1>2, <1>4, <1>5, <1>10
<1> QED BY <1>6, <1>7, <1>8, <1>9, <1>10 DEF Handle

(***************************************************************************)
(* The whole.                                                              *)
(***************************************************************************)
(* The invariant holds initially. *)
LEMMA TasksInit == Init => TasksInv
<1> SUFFICES ASSUME Init PROVE TasksInv
    OBVIOUS
<1>0. /\ Idle \in Held /\ Idle.pc = "idle" /\ Idle.n = 0 /\ Idle.s = None
      /\ \A c \in Callers : call[c] = Idle
      /\ \A r \in Runs : rep[r] = None /\ inv[r] = None /\ sb[r] = None /\ bind[r] = None /\ prompts[r] = 0
      /\ task.latest = 0 /\ task.st = "ready" /\ wire = {}
    BY TaskAssumption DEF Init, RunsInit, Idle, Held, CallPc
<1>1. TypeOK
    <2>1. call \in [Callers -> Held]
        BY <1>0 DEF Init
    <2> QED BY <2>1, TaskAssumption DEF Init, TypeOK, Held
<1>2. RunsInv
    BY <1>0, TaskAssumption DEF Init, RunsInit, RunsInv, Live
<1>3. SaidInv
    BY <1>0, NothingSaid, TaskAssumption DEF SaidInv
<1>4. \A c \in Callers : CallInv(call[c])
    BY <1>0 DEF CallInv
<1>5. ClaimInv
    BY <1>0 DEF ClaimInv, Untouched, Live, Dispatching
<1>6. EndInv
    BY <1>0 DEF EndInv
<1> QED BY <1>1, <1>2, <1>3, <1>4, <1>5, <1>6 DEF TasksInv

(* A step that changes nothing keeps the invariant. *)
LEMMA TasksStutter ==
    ASSUME TasksInv, UNCHANGED taskVars
    PROVE  TasksInv'
<1>1. UNCHANGED <<runVars, storeVars, wire, calls, sb, reg, inv, call>>
    BY DEF taskVars, serverVars
<1>2. \A r \in Runs : Says(r, inv'[r]) /\ (sb'[r] # None => Says(r, sb'[r].s)) /\ (inv'[r] # None => reg' # 0)
    BY <1>1, ServerNow DEF Says
<1> QED BY <1>1, <1>2, ServerNow, ServerStep

(* The steps that write a binding of the store. *)
Writes(c) ==
    Prepare(c) \/ Claim(c) \/ RecordNotStarted(c) \/ RecordRun(c) \/ RecordObserved(c) \/ Terminalize(c)

(* Each of them writes the binding of its own attempt, which goes on. *)
LEMMA WritesStep ==
    ASSUME TasksInv, NEW c \in Callers, Writes(c)
    PROVE  TasksInv' /\ call[c].n \in Runs /\ BindGoes(call[c].n)
    BY PrepareStep, ClaimStep, RecordNotStartedStep, RecordRunStep, RecordObservedStep, TerminalizeStep DEF Writes

(* Every step of the store, the Server and the Runner keeps the invariant. *)
LEMMA TasksInvNext ==
    ASSUME TasksInv, [Next]_taskVars
    PROVE  TasksInv'
<1>1. CASE RunnerAlone \/ StartAttempt \/ Reassign \/ AssignAgain \/ Register \/ ServerRestart
    BY <1>1, RunnerAloneStep, StartAttemptStep, ReassignStep, AssignAgainStep, RegisterStep, ServerRestartStep
<1>2. ASSUME NEW n \in Runs, LeaseLapses(n) \/ PruneBinding(n) \/ Handle(n) \/ CompleteAttempt(n)
      PROVE  TasksInv'
    BY <1>2, LeaseLapsesStep, PruneBindingStep, HandleStep, CompleteAttemptStep
<1>3. ASSUME NEW n \in Runs, NEW c \in Callers, StartCall(c, n) \/ ReconcileCall(c, n) \/ ObserveAsks(c, n)
      PROVE  TasksInv'
    BY <1>3, StartCallStep, ReconcileCallStep, ObserveAsksStep
<1>4. ASSUME NEW c \in Callers, Writes(c)
      PROVE  TasksInv'
    BY <1>4, WritesStep
<1>5. ASSUME NEW c \in Callers,
             LookFirst(c) \/ Enqueue(c) \/ Poll(c) \/ Drained(c) \/ TimedOut(c) \/ WaiterLost(c)
      PROVE  TasksInv'
    BY <1>5, LookFirstStep, EnqueueStep, PollStep, DrainedStep, TimedOutStep, WaiterLostStep
<1>6. ASSUME NEW c \in Callers, BindAnswer(c) \/ Reconcile(c) \/ ObserveAnswered(c)
      PROVE  TasksInv'
    BY <1>6, BindAnswerStep, ReconcileStep, ObserveAnsweredStep
<1>7. CASE UNCHANGED taskVars
    BY <1>7, TasksStutter
<1> QED BY <1>1, <1>2, <1>3, <1>4, <1>5, <1>6, <1>7 DEF Next, Writes

(* The inductive invariant holds in every reachable state: how the task,   *)
(* the bindings of its attempts, the Server's view, the handlers, the      *)
(* starts on their way and the runs fit together.                          *)
THEOREM TasksInvariant == Spec => []TasksInv
<1>1. TasksInv /\ [Next]_taskVars => TasksInv'
    BY TasksInvNext
<1> QED BY <1>1, TasksInit, PTL DEF Spec

(* The variables keep their types. *)
THEOREM TypeCorrect == Spec => []TypeOK
<1>1. TasksInv => TypeOK
    BY DEF TasksInv
<1> QED BY <1>1, TasksInvariant, PTL

(* At most one attempt of the task ever has its prompt handed over, over   *)
(* lapsed leases, replaced attempts, racing and retried dispatches, and    *)
(* restarts of Server and Runner.                                          *)
THEOREM PromptedOnce == Spec => []OneExecution
<1>1. TasksInv => OneExecution
    <2> SUFFICES ASSUME TasksInv PROVE Cardinality({n \in Runs : prompts[n] > 0}) <= 1
        BY DEF OneExecution
    <2>1. {n \in Runs : prompts[n] > 0} \subseteq {task.latest}
        BY Claims, Rows DEF Untouched
    <2>2. IsFiniteSet({task.latest}) /\ Cardinality({task.latest}) = 1
        BY FS_Singleton
    <2> QED BY <2>1, <2>2, FS_Subset
<1> QED BY <1>1, TasksInvariant, PTL

(* A binding that may be dispatched, or lets its attempt be replaced, is   *)
(* one whose prompt was not handed over, and no start of it waits, travels *)
(* or runs.                                                                *)
THEOREM DispatchableUntouched == Spec => []DispatchableIsUntouched
<1>1. TasksInv => DispatchableIsUntouched
    <2> SUFFICES ASSUME TasksInv, NEW n \in Runs, Dispatchable(bind[n])
                 PROVE  prompts[n] = 0 /\ ~Unsettled(n)
        BY DEF DispatchableIsUntouched, Dispatchable, MayDispatch
    <2>1. Untouched(n) /\ \A c \in Callers : ~(call[c].n = n /\ call[c].pc \in Sending)
        BY Claims
    <2> QED BY <2>1 DEF Untouched, Unsettled, Sending, Early
<1> QED BY <1>1, TasksInvariant, PTL

(* What the Server and the store believe of a run that they believe ended  *)
(* is true of it, whatever order the reports came in.                      *)
THEOREM BelievedIsTrue == Spec => []BeliefsAreTrue
<1>1. TasksInv => BeliefsAreTrue
    <2> SUFFICES ASSUME TasksInv, NEW n \in Runs
                 PROVE  /\ sb[n] # None => TrueReport(sb[n].s, prompts[n], answer[n])
                        /\ bind[n] # None /\ bind[n].s # None => TrueReport(bind[n].s, prompts[n], answer[n])
        BY DEF BeliefsAreTrue
    <2>1. sb[n] # None => sb[n].s # None
        BY Rows, ServerBindingParts, SnapParts
    <2>2. (sb[n] # None => Says(n, sb[n].s)) /\ (bind[n] # None => Says(n, bind[n].s))
        BY DEF TasksInv, SaidInv
    <2> QED BY <2>1, <2>2 DEF Says, Faithful
<1> QED BY <1>1, TasksInvariant, PTL

(* A task that its run ended has the outcome that the agent answered, or   *)
(* its run never started.                                                  *)
THEOREM OutcomesAreReal == Spec => []OutcomeIsReal
<1>1. TasksInv => OutcomeIsReal
    <2> SUFFICES ASSUME TasksInv, task.st \in {"succeeded", "failed"}
                 PROVE  OutcomeIsReal
        BY DEF OutcomeIsReal
    <2> DEFINE n == task.latest
    <2>1. /\ n \in Runs /\ bind[n] # None /\ bind[n].s # None /\ bind[n].s.st \in Definitive
          /\ task.st = "succeeded" <=> bind[n].s.st = "completed"
        BY DEF TasksInv, EndInv, Ended
    <2>2. TrueReport(bind[n].s, prompts[n], answer[n])
        BY <2>1 DEF TasksInv, SaidInv, Says, Faithful
    <2>3. CASE task.st = "succeeded"
        BY <2>1, <2>2, <2>3 DEF TrueReport, Terminal, Definitive, OutcomeIsReal
    <2>4. CASE task.st = "failed"
        BY <2>1, <2>2, <2>4 DEF TrueReport, Terminal, Definitive, OutcomeIsReal
    <2> QED BY <2>3, <2>4
<1> QED BY <1>1, TasksInvariant, PTL

(* No other step writes a binding of the store. *)
LEMMA BindOrNot ==
    ASSUME TasksInv, [Next]_taskVars
    PROVE  bind' = bind \/ \E n \in Runs : BindGoes(n)
<1>1. CASE RunnerAlone \/ StartAttempt \/ Reassign \/ AssignAgain \/ Register \/ ServerRestart \/ UNCHANGED taskVars
    BY <1>1 DEF RunnerAlone, StartAttempt, Reassign, AssignAgain, Register, ServerRestart, taskVars, storeVars
<1>2. ASSUME NEW n \in Runs, LeaseLapses(n) \/ PruneBinding(n) \/ Handle(n) \/ CompleteAttempt(n)
      PROVE  bind' = bind
    BY <1>2 DEF LeaseLapses, PruneBinding, Handle, CompleteAttempt, storeVars
<1>3. ASSUME NEW n \in Runs, NEW c \in Callers, StartCall(c, n) \/ ReconcileCall(c, n) \/ ObserveAsks(c, n)
      PROVE  bind' = bind
    BY <1>3 DEF StartCall, ReconcileCall, ObserveAsks, storeVars
<1>4. ASSUME NEW c \in Callers, Writes(c)
      PROVE  \E n \in Runs : BindGoes(n)
    BY <1>4, WritesStep
<1>5. ASSUME NEW c \in Callers,
             LookFirst(c) \/ Enqueue(c) \/ Poll(c) \/ Drained(c) \/ TimedOut(c) \/ WaiterLost(c)
             \/ BindAnswer(c) \/ Reconcile(c) \/ ObserveAnswered(c)
      PROVE  bind' = bind
    BY <1>5 DEF LookFirst, Enqueue, Poll, Drained, TimedOut, WaiterLost, BindAnswer, Reconcile, ObserveAnswered, storeVars
<1> QED BY <1>1, <1>2, <1>3, <1>4, <1>5 DEF Next, Writes

(* What the store has observed of a run only moves forward, and a          *)
(* definitive end stays.                                                   *)
THEOREM OnlyForward == Spec => ObservationsAdvance
<1> DEFINE A == \A n \in Runs : bind[n] # None /\ bind[n].s # None =>
                    /\ bind'[n].s.rev >= bind[n].s.rev
                    /\ Ended(bind[n]) => bind'[n].s = bind[n].s
<1>1. ASSUME TasksInv, [Next]_taskVars
      PROVE  A
    <2>1. ASSUME NEW n \in Runs, bind[n] # None, bind'[n] = bind[n]
          PROVE  Advances(bind[n], bind'[n])
        <3>1. bind[n] \in Binding
            BY <1>1, <2>1, Rows
        <3> QED BY <2>1, <3>1, SameReport
    <2>2. ASSUME NEW m \in Runs, BindGoes(m), NEW n \in Runs, bind[n] # None
          PROVE  Advances(bind[n], bind'[n])
        <3>1. CASE n = m
            BY <2>2, <3>1 DEF BindGoes
        <3>2. CASE n # m
            <4>1. bind'[n] = bind[n]
                BY <1>1, <2>2, <3>2 DEF BindGoes, TasksInv, TypeOK
            <4> QED BY <2>1, <2>2, <4>1
        <3> QED BY <3>1, <3>2
    <2>3. \A n \in Runs : bind[n] # None => Advances(bind[n], bind'[n])
        BY <1>1, <2>1, <2>2, BindOrNot
    <2> QED BY <2>3 DEF Advances
<1>2. TasksInv /\ [Next]_taskVars => [A]_taskVars
    BY <1>1
<1> QED BY <1>2, TasksInvariant, PTL DEF Spec, ObservationsAdvance
=============================================================================
