----------------------------- MODULE SyncRequests -----------------------------
(***************************************************************************)
(* Synchronous tool requests (pending requests without a job) of one       *)
(* Runner identity: admission, dispatch, results, the caller's timeout and *)
(* cancellation, and the drain on disconnect, takeover and pruning.  Every *)
(* handler of the registry runs under one mutex and is one action; between *)
(* a caller's timeout and its cancellation everything may happen.          *)
(*                                                                         *)
(* Ordinary requests carry their waiter in the pending record.  Gateway    *)
(* (MCP, Plugin, coding agent) and persistent-shell requests keep theirs   *)
(* in a map of its own.  Fenced requests and gateway requests are checked  *)
(* again when they are dequeued.                                           *)
(*                                                                         *)
(* Any process may register: the tombstones that keep a replaced process   *)
(* out are JobRegistry's, and pruning or eviction forgets them.            *)
(***************************************************************************)
EXTENDS Integers, FiniteSets

CONSTANTS
    Instances,       \* runner_instance_ids of the Runner processes
    NoInstance,      \* no process is registered
    Reqs,            \* request ids
    FencedReqs,      \* ordinary waiter, with a dispatch fence
    ComputerReqs,    \* Computer operations: dropped when nobody waits
    GatewayReqs,     \* typed waiter and exact-provider fence
    PersistentReqs,  \* persistent-shell requests: typed waiter, no fence
    QueueLimit       \* MAX_QUEUED_REQUESTS_PER_RUNNER

ASSUME SyncAssumption ==
    /\ NoInstance \notin Instances
    /\ FencedReqs \subseteq Reqs /\ ComputerReqs \subseteq Reqs
    /\ GatewayReqs \subseteq Reqs /\ PersistentReqs \subseteq Reqs
    /\ (FencedReqs \cup ComputerReqs) \cap (GatewayReqs \cup PersistentReqs) = {}
    /\ GatewayReqs \cap PersistentReqs = {}
    /\ QueueLimit \in Nat \ {0}

VARIABLES
    inst,        \* the registered process, or NoInstance
    online,      \* it was seen within the online window
    offers,      \* the requests whose provider, feature or project it advertises
    pending,     \* keys of pending_by_id
    dispatched,  \* the pending requests handed to the Runner
    queue,       \* queues_by_runner: place of a request, growing to the front, or 0
    stored,      \* keys of the maps of typed waiters
    caller,      \* what the tool call that made the request does
    told,        \* what it was told
    target,      \* the process the request was admitted for
    handed       \* the process it was handed to, or NoInstance

runner == <<inst, online, offers>>
requests == <<pending, dispatched, queue, stored>>
calls == <<caller, told>>
vars == <<runner, requests, calls, target, handed>>

TypedReqs == GatewayReqs \cup PersistentReqs
CheckedReqs == FencedReqs \cup GatewayReqs

(* The requests whose callers ask cancel_request_dispatch_state and not    *)
(* cancel_request, which only persistent shells use.                       *)
ExactReqs == Reqs \ PersistentReqs

Queued == {r \in Reqs : queue[r] > 0}

Outcome == {"none", "result", "not_started", "outcome_unknown"}

(* waiting: the receiver is alive.  timed_out: the receiver is dropped and *)
(* the cancellation is still to come.  closed: the sender is gone, the     *)
(* cancellation is still to come.  abandoned: the whole call was dropped.  *)
CallerState == {"idle", "waiting", "timed_out", "closed", "abandoned", "told"}

(* The receiver of a pending request is gone (oneshot::Sender::is_closed). *)
ReceiverDropped(r) == caller[r] \in {"timed_out", "abandoned"}
-----------------------------------------------------------------------------
(***************************************************************************)
(* Resolving waiters.  The sender of every request in R is consumed, with  *)
(* say[r] or, for "dropped", without a word.                               *)
(***************************************************************************)
Resolve(R, say) ==
    LET heard == {r \in R : caller[r] = "waiting"}
    IN  /\ told' = [r \in Reqs |-> IF r \in heard /\ say[r] # "dropped" THEN say[r] ELSE told[r]]
        /\ caller' = [r \in Reqs |-> IF r \notin heard THEN caller[r]
                                     ELSE IF say[r] = "dropped" THEN "closed" ELSE "told"]

(* remove_pending_request_locked, with the typed waiters. *)
Remove(R) ==
    /\ pending' = pending \ R
    /\ dispatched' = dispatched \ R
    /\ queue' = [r \in Reqs |-> IF r \in R THEN 0 ELSE queue[r]]
    /\ stored' = stored \ R

(* Mutant: whoever is cut off is said not to have started. *)
CutOffNotStarted(r) == "not_started"

(* The answer of the Server when it has none of the Runner's. *)
CutOff(r) == IF r \in dispatched THEN "outcome_unknown" ELSE "not_started"

(* Mutant: the waiters of persistent shells outlive their requests. *)
DrainParked ==
    /\ pending' = {} /\ dispatched' = {}
    /\ queue' = [r \in Reqs |-> 0]
    /\ stored' = stored \cap PersistentReqs
    /\ Resolve(pending \ PersistentReqs, [r \in Reqs |-> CutOff(r)])

(* resolve_disconnected_sync_requests_locked.  Persistent-shell waiters    *)
(* are dropped without an answer.                                          *)
Drain ==
    /\ Remove(pending)
    /\ Resolve(pending, [r \in Reqs |-> IF r \in PersistentReqs THEN "dropped" ELSE CutOff(r)])
-----------------------------------------------------------------------------
(***************************************************************************)
(* The calling tool.                                                       *)
(***************************************************************************)
(* Mutant: every request gets a typed waiter. *)
EveryWaiter(r) == {r}

(* Gateway and persistent-shell requests put their waiter into a map. *)
TypedWaiter(r) == {r} \cap TypedReqs

(* The enqueue functions. *)
EnqueueRequest(r) ==
    /\ caller[r] = "idle"
    /\ inst # NoInstance /\ online
    /\ r \in CheckedReqs \cup PersistentReqs => r \in offers
    /\ Cardinality(Queued) < QueueLimit
    /\ queue' = [q \in Reqs |-> IF q = r THEN 1 ELSE IF queue[q] > 0 THEN queue[q] + 1 ELSE 0]
    /\ pending' = pending \cup {r}
    /\ stored' = stored \cup TypedWaiter(r)
    /\ caller' = [caller EXCEPT ![r] = "waiting"]
    /\ target' = [target EXCEPT ![r] = inst]
    /\ UNCHANGED <<runner, dispatched, told, handed>>

WaitTimeout(r) ==
    /\ caller[r] = "waiting"
    /\ caller' = [caller EXCEPT ![r] = "timed_out"]
    /\ UNCHANGED <<runner, requests, told, target, handed>>

(* The future of the tool call is dropped, with the receiver in it. *)
AbandonCall(r) ==
    /\ caller[r] = "waiting"
    /\ caller' = [caller EXCEPT ![r] = "abandoned"]
    /\ UNCHANGED <<runner, requests, told, target, handed>>

(* Mutant: a request that is gone counts as not dispatched. *)
GoneMeansNotStarted(r) == IF r \in dispatched THEN "outcome_unknown" ELSE "not_started"

(* cancel_request_dispatch_state says not dispatched, dispatched or, of a  *)
(* request that is gone, nothing.                                          *)
DispatchUncertainty(r) ==
    IF r \in pending \ dispatched THEN "not_started" ELSE "outcome_unknown"

(* A persistent shell's timeout asks cancel_request, whose answer for a    *)
(* request that is gone is the one for a request not dispatched; a dropped *)
(* waiter is reported as a lost result.                                    *)
PersistentShellOutcome(r) ==
    IF caller[r] = "timed_out" /\ r \notin dispatched THEN "not_started" ELSE "outcome_unknown"

CancelOutcome(r) ==
    IF r \in PersistentReqs THEN PersistentShellOutcome(r) ELSE DispatchUncertainty(r)

CancelRequest(r) ==
    /\ caller[r] \in {"timed_out", "closed"}
    /\ Remove({r})
    /\ told' = [told EXCEPT ![r] = CancelOutcome(r)]
    /\ caller' = [caller EXCEPT ![r] = "told"]
    /\ UNCHANGED <<runner, target, handed>>

(* persistent_waiters are not asked whether their receiver is gone. *)
Abandoned == {r \in pending \ PersistentReqs : ReceiverDropped(r)}

CancelAbandonedSyncRequests ==
    /\ Abandoned # {}
    /\ Remove(Abandoned)
    /\ UNCHANGED <<runner, calls, target, handed>>
-----------------------------------------------------------------------------
(***************************************************************************)
(* The Runner process.                                                     *)
(***************************************************************************)
(* Computer requests nobody waits for, and requests whose fence no longer  *)
(* matches, are withdrawn at the front of the queue.                       *)
Unwanted == {r \in Queued : r \in ComputerReqs /\ ReceiverDropped(r)}

Stale == {r \in Queued \ Unwanted :
             r \in CheckedReqs /\ (target[r] # inst \/ r \notin offers)}

Takeable == Queued \ (Unwanted \cup Stale)

(* Mutant: the waiter of a stale request stays in its map. *)
WithdrawOrdinary(popped, out) ==
    LET gone == popped \cap (Unwanted \cup Stale)
    IN  /\ pending' = pending \ gone
        /\ stored' = stored
        /\ queue' = [r \in Reqs |-> IF r \in popped THEN 0 ELSE queue[r]]
        /\ dispatched' = dispatched \cup out
        /\ Resolve(gone, [r \in Reqs |-> "not_started"])

(* poll_checked pops these requests and hands out those in out. *)
Withdraw(popped, out) ==
    LET gone == popped \cap (Unwanted \cup Stale)
    IN  /\ pending' = pending \ gone
        /\ stored' = stored \ gone
        /\ queue' = [r \in Reqs |-> IF r \in popped THEN 0 ELSE queue[r]]
        /\ dispatched' = dispatched \cup out
        /\ Resolve(gone, [r \in Reqs |-> "not_started"])

Poll(i, first) ==
    /\ i = inst
    /\ first \in Takeable
    /\ \A r \in Takeable : queue[r] <= queue[first]
    /\ Withdraw({r \in Queued : queue[r] >= queue[first]}, {first})
    /\ handed' = [handed EXCEPT ![first] = i]
    /\ online' = TRUE
    /\ UNCHANGED <<inst, offers, target>>

PollEmpty(i) ==
    /\ i = inst
    /\ Takeable = {}
    /\ Withdraw(Queued, {})
    /\ online' = TRUE
    /\ UNCHANGED <<inst, offers, target, handed>>

(* A message of the registered process; live: over its current connection. *)
Seen(live) ==
    /\ online' = (online \/ live)
    /\ UNCHANGED <<inst, offers>>

(* complete_checked; valid: the typed response passes its validation. *)
CompleteRequest(i, r, valid, live) ==
    /\ i = inst /\ handed[r] = i
    /\ r \in pending \ PersistentReqs
    /\ Seen(live)
    /\ Remove({r})
    /\ Resolve({r}, [q \in Reqs |-> IF valid \/ q \notin GatewayReqs THEN "result" ELSE CutOff(q)])
    /\ UNCHANGED <<target, handed>>

(* complete_persistent_shell_checked; match: the result names the shell,   *)
(* session and project of the request.                                     *)
CompletePersistentShell(i, r, match, live) ==
    /\ i = inst /\ handed[r] = i
    /\ r \in pending \cap PersistentReqs
    /\ Seen(live)
    /\ Remove({r})
    /\ Resolve({r}, [q \in Reqs |-> IF match THEN "result" ELSE "dropped"])
    /\ UNCHANGED <<target, handed>>

(* A ping, or a late result that finds no pending request. *)
TouchRunner(i) ==
    /\ i = inst
    /\ Seen(TRUE)
    /\ UNCHANGED <<requests, calls, target, handed>>
-----------------------------------------------------------------------------
(***************************************************************************)
(* Registration, disconnection and the passing of time.                    *)
(***************************************************************************)
(* Mutant: a takeover inherits what the old process was asked. *)
RegisterInherits(i, o) ==
    /\ inst' = i
    /\ online' = TRUE
    /\ offers' = o
    /\ UNCHANGED <<requests, calls, target, handed>>

Register(i, o) ==
    /\ inst' = i
    /\ online' = TRUE
    /\ offers' = o
    /\ IF inst \in {i, NoInstance} THEN UNCHANGED <<requests, calls>> ELSE Drain
    /\ UNCHANGED <<target, handed>>

(* A project inventory or a Computer control epoch changes what is         *)
(* advertised without a registration.                                      *)
UpdateOffers(i, o) ==
    /\ i = inst
    /\ offers' = o
    /\ UNCHANGED <<inst, online, requests, calls, target, handed>>

ReconcileDisconnect(i) ==
    /\ i = inst
    /\ online' = FALSE
    /\ Drain
    /\ UNCHANGED <<inst, offers, target, handed>>

(* No message within the online window. *)
FallSilent ==
    /\ online
    /\ online' = FALSE
    /\ UNCHANGED <<inst, offers, requests, calls, target, handed>>

PruneExpiredRunner ==
    /\ inst # NoInstance /\ ~ online
    /\ inst' = NoInstance
    /\ offers' = {}
    /\ Drain
    /\ UNCHANGED <<online, target, handed>>
-----------------------------------------------------------------------------
Init ==
    /\ inst = NoInstance /\ online = FALSE /\ offers = {}
    /\ pending = {} /\ dispatched = {} /\ stored = {}
    /\ queue = [r \in Reqs |-> 0]
    /\ caller = [r \in Reqs |-> "idle"]
    /\ told = [r \in Reqs |-> "none"]
    /\ target = [r \in Reqs |-> NoInstance]
    /\ handed = [r \in Reqs |-> NoInstance]

CallStep(r) ==
    \/ EnqueueRequest(r) \/ WaitTimeout(r) \/ AbandonCall(r) \/ CancelRequest(r)

RunnerStep(i) ==
    \/ PollEmpty(i) \/ TouchRunner(i) \/ ReconcileDisconnect(i)
    \/ \E r \in Reqs : Poll(i, r)
    \/ \E r \in Reqs, b, live \in BOOLEAN :
          CompleteRequest(i, r, b, live) \/ CompletePersistentShell(i, r, b, live)
    \/ \E o \in SUBSET Reqs : Register(i, o) \/ UpdateOffers(i, o)

Next ==
    \/ \E r \in Reqs : CallStep(r)
    \/ \E i \in Instances : RunnerStep(i)
    \/ CancelAbandonedSyncRequests \/ FallSilent \/ PruneExpiredRunner

Spec == Init /\ [][Next]_vars
-----------------------------------------------------------------------------
(***************************************************************************)
(* Properties.                                                             *)
(***************************************************************************)
TypeOK ==
    /\ inst \in Instances \cup {NoInstance} /\ online \in BOOLEAN
    /\ offers \subseteq Reqs
    /\ pending \subseteq Reqs /\ dispatched \subseteq Reqs /\ stored \subseteq TypedReqs
    /\ queue \in [Reqs -> Nat]
    /\ caller \in [Reqs -> CallerState]
    /\ told \in [Reqs -> Outcome]
    /\ target \in [Reqs -> Instances \cup {NoInstance}]
    /\ handed \in [Reqs -> Instances \cup {NoInstance}]

(* A caller that is told its request was not started may repeat it: no     *)
(* Runner process was, or ever will be, handed that request.               *)
NotStartedNeverSent ==
    \A r \in ExactReqs : told[r] = "not_started" => handed[r] = NoInstance

(* The same of persistent shells: cancel_request reports whether a Runner  *)
(* had already polled the request, so "did not accept" is never said of a  *)
(* request a Runner was handed.                                            *)
NotAcceptedNeverSent ==
    \A r \in PersistentReqs : told[r] = "not_started" => handed[r] = NoInstance

(* A request, fenced or not, only reaches the process that was registered  *)
(* when it was admitted, and only that process can still answer it.        *)
SentToAdmittedProcess ==
    \A r \in Reqs :
        /\ handed[r] # NoInstance => handed[r] = target[r]
        /\ r \in pending => target[r] = inst

(* No caller waits for a request nobody can answer any more: while it      *)
(* waits, its request is pending and its waiter is kept; and no waiter is  *)
(* kept without a request.                                                 *)
NoParkedCaller ==
    /\ \A r \in Reqs : caller[r] = "waiting" => r \in pending /\ (r \in TypedReqs => r \in stored)
    /\ stored \subseteq pending

(* The bounded queue holds exactly the pending requests that were not      *)
(* handed out: a request that is gone takes no place, one that waits has   *)
(* one.                                                                    *)
QueueIsUndispatched == Queued = pending \ dispatched

(* The inductive invariant, for one request: besides the properties above, *)
(* a request is dispatched exactly when it was handed out, it is pending   *)
(* only for the registered process, and only while its call has not ended. *)
RequestInv(r) ==
    /\ queue[r] > 0 <=> r \in pending \ dispatched
    /\ r \in dispatched => r \in pending
    /\ r \in pending =>
          /\ inst # NoInstance /\ target[r] = inst
          /\ caller[r] \in {"waiting", "timed_out", "abandoned"}
          /\ r \in dispatched <=> handed[r] # NoInstance
    /\ handed[r] # NoInstance => handed[r] = target[r] /\ caller[r] # "idle"
    /\ caller[r] = "waiting" => r \in pending /\ (r \in TypedReqs => r \in stored)
    /\ r \in stored => r \in pending
    /\ told[r] # "none" <=> caller[r] = "told"
    /\ r \notin PersistentReqs /\ told[r] = "not_started" => handed[r] = NoInstance

(* No two requests have the same place. *)
QueuePlaces == \A p, q \in Queued : queue[p] = queue[q] => p = q

SyncInv == TypeOK /\ QueuePlaces /\ \A r \in Reqs : RequestInv(r)
-----------------------------------------------------------------------------
(***************************************************************************)
(* The refinement of RunnerCall.                                           *)
(***************************************************************************)
CallPhase ==
    [r \in ExactReqs |-> IF caller[r] = "idle" THEN "idle"
                         ELSE IF handed[r] # NoInstance THEN "sent"
                         ELSE IF r \in pending THEN "queued" ELSE "withdrawn"]

CallOutcome == [r \in ExactReqs |-> told[r]]

Call == INSTANCE RunnerCall
            WITH Reqs <- ExactReqs, phase <- CallPhase, outcome <- CallOutcome

(* Every call but a persistent shell's is told one outcome, a result only  *)
(* of a request that was sent, and not_started only in the step that       *)
(* withdraws it.                                                           *)
ImplementsRunnerCall == Call!Spec
=============================================================================
