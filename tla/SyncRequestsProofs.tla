-------------------------- MODULE SyncRequestsProofs --------------------------
(***************************************************************************)
(* Proofs about SyncRequests.  A step does one of a few things to a        *)
(* request (Effect); what the effects keep, and that each of them is a     *)
(* step of RunnerCall, is then a matter of one request.                    *)
(***************************************************************************)
EXTENDS SyncRequests, TLAPS

USE SyncAssumption DEF SyncAssumption

SameCall(r) == caller'[r] = caller[r] /\ told'[r] = told[r]
SamePlace(r) ==
    /\ r \in pending' <=> r \in pending
    /\ r \in dispatched' <=> r \in dispatched
    /\ r \in stored' <=> r \in stored
    /\ queue'[r] > 0 <=> queue[r] > 0
SameHistory(r) == handed'[r] = handed[r] /\ target'[r] = target[r]

(* Nothing happens to the request; it is not pending if the lease moves. *)
Untouched(r) ==
    /\ SameCall(r) /\ SamePlace(r) /\ SameHistory(r)
    /\ r \in pending => inst' = inst

(* Its caller stops waiting. *)
Left(r) ==
    /\ SamePlace(r) /\ SameHistory(r) /\ inst' = inst
    /\ caller[r] = "waiting" /\ caller'[r] \in {"timed_out", "abandoned"}
    /\ told'[r] = told[r]

Admitted(r) ==
    /\ caller[r] = "idle" /\ caller'[r] = "waiting" /\ told'[r] = told[r]
    /\ inst # NoInstance /\ inst' = inst
    /\ target'[r] = inst /\ handed'[r] = handed[r]
    /\ r \in pending' /\ queue'[r] > 0
    /\ r \in dispatched' <=> r \in dispatched
    /\ r \in stored' <=> r \in stored \/ r \in TypedReqs

Sent(r) ==
    /\ SameCall(r) /\ target'[r] = target[r] /\ inst' = inst
    /\ queue[r] > 0 /\ queue'[r] = 0
    /\ r \in pending' <=> r \in pending
    /\ r \in stored' <=> r \in stored
    /\ r \in dispatched'
    /\ handed'[r] = inst /\ inst # NoInstance

(* It is removed, and its caller hears of it or not. *)
Gone(r) ==
    /\ SameHistory(r)
    /\ r \notin pending' /\ r \notin dispatched' /\ r \notin stored' /\ queue'[r] = 0
    /\ \/ caller[r] # "waiting" /\ SameCall(r) /\ r \in pending
       \/ /\ r \in pending /\ caller[r] = "waiting" /\ caller'[r] = "closed"
          /\ told'[r] = told[r]
       \/ /\ r \in pending /\ caller[r] = "waiting" /\ caller'[r] = "told"
          /\ \/ told'[r] = "not_started" /\ r \notin dispatched
             \/ told'[r] \in {"result", "outcome_unknown"} /\ r \in dispatched
       \/ /\ caller[r] \in {"timed_out", "closed"} /\ caller'[r] = "told"
          /\ \/ told'[r] = "not_started" /\ (r \in pending \ dispatched \/ r \in PersistentReqs)
             \/ told'[r] = "outcome_unknown" /\ (r \in pending \ dispatched => r \in PersistentReqs)

Effect(r) == Untouched(r) \/ Left(r) \/ Admitted(r) \/ Sent(r) \/ Gone(r)
-----------------------------------------------------------------------------
(* Resolving waiters keeps the types. *)
LEMMA ResolveType ==
    ASSUME TypeOK, NEW R, NEW say, Resolve(R, say),
           \A r \in Reqs : r \in R => say[r] \in Outcome \cup {"dropped"}
    PROVE  told' \in [Reqs -> Outcome] /\ caller' \in [Reqs -> CallerState]
BY DEF Resolve, TypeOK, Outcome, CallerState

(* So does removing requests. *)
LEMMA RemoveType ==
    ASSUME TypeOK, NEW R, Remove(R)
    PROVE  /\ pending' \subseteq Reqs /\ dispatched' \subseteq Reqs /\ stored' \subseteq TypedReqs
           /\ queue' \in [Reqs -> Nat]
BY DEF Remove, TypeOK

(* And the drain, which is both. *)
LEMMA DrainType ==
    ASSUME TypeOK, Drain
    PROVE  /\ pending' \subseteq Reqs /\ dispatched' \subseteq Reqs /\ stored' \subseteq TypedReqs
           /\ queue' \in [Reqs -> Nat]
           /\ told' \in [Reqs -> Outcome] /\ caller' \in [Reqs -> CallerState]
<1> DEFINE say == [r \in Reqs |-> IF r \in PersistentReqs THEN "dropped" ELSE CutOff(r)]
<1>1. Remove(pending) /\ Resolve(pending, say)
  BY DEF Drain
<1>2. \A r \in Reqs : say[r] \in Outcome \cup {"dropped"}
  BY DEF CutOff, Outcome
<1> HIDE DEF say
<1> QED BY <1>1, <1>2, ResolveType, RemoveType

(* What a poll does to the requests keeps the types. *)
LEMMA WithdrawType ==
    ASSUME TypeOK, NEW popped, NEW out \in SUBSET Reqs, Withdraw(popped, out)
    PROVE  /\ pending' \subseteq Reqs /\ dispatched' \subseteq Reqs /\ stored' \subseteq TypedReqs
           /\ queue' \in [Reqs -> Nat]
           /\ told' \in [Reqs -> Outcome] /\ caller' \in [Reqs -> CallerState]
<1>1. Resolve(popped \cap (Unwanted \cup Stale), [r \in Reqs |-> "not_started"])
  BY DEF Withdraw
<1>2. \A r \in Reqs : [q \in Reqs |-> "not_started"][r] \in Outcome \cup {"dropped"}
  BY DEF Outcome
<1>3. told' \in [Reqs -> Outcome] /\ caller' \in [Reqs -> CallerState]
  BY <1>1, <1>2, ResolveType
<1> QED BY <1>3 DEF Withdraw, TypeOK

(* Every step keeps the types. *)
LEMMA TypeStep == TypeOK /\ [Next]_vars => TypeOK'
<1> SUFFICES ASSUME TypeOK, [Next]_vars PROVE TypeOK'
  OBVIOUS
<1>1. ASSUME NEW r \in Reqs, EnqueueRequest(r) PROVE TypeOK'
  BY <1>1 DEF EnqueueRequest, TypeOK, runner, TypedWaiter, TypedReqs, CallerState
<1>2. ASSUME NEW r \in Reqs, WaitTimeout(r) \/ AbandonCall(r) PROVE TypeOK'
  BY <1>2 DEF WaitTimeout, AbandonCall, TypeOK, runner, requests, CallerState
<1>3. ASSUME NEW r \in Reqs, CancelRequest(r) PROVE TypeOK'
  <2>1. CancelOutcome(r) \in Outcome
    BY DEF CancelOutcome, PersistentShellOutcome, DispatchUncertainty, Outcome
  <2> QED BY <1>3, <2>1, RemoveType DEF CancelRequest, TypeOK, runner, CallerState
<1>4. ASSUME CancelAbandonedSyncRequests PROVE TypeOK'
  BY <1>4, RemoveType DEF CancelAbandonedSyncRequests, TypeOK, runner, calls
<1>5. ASSUME NEW i \in Instances, NEW first \in Reqs, Poll(i, first) PROVE TypeOK'
  <2>1. Withdraw({r \in Queued : queue[r] >= queue[first]}, {first})
    BY <1>5 DEF Poll
  <2> QED BY <1>5, <2>1, WithdrawType DEF Poll, TypeOK
<1>6. ASSUME NEW i \in Instances, PollEmpty(i) PROVE TypeOK'
  BY <1>6, WithdrawType DEF PollEmpty, TypeOK
<1>7. ASSUME NEW i \in Instances, NEW r \in Reqs, NEW valid \in BOOLEAN, NEW live \in BOOLEAN,
             CompleteRequest(i, r, valid, live)
      PROVE  TypeOK'
  <2> DEFINE say == [q \in Reqs |-> IF valid \/ q \notin GatewayReqs THEN "result" ELSE CutOff(q)]
  <2>1. Remove({r}) /\ Resolve({r}, say)
    BY <1>7 DEF CompleteRequest
  <2>2. \A q \in Reqs : say[q] \in Outcome \cup {"dropped"}
    BY DEF CutOff, Outcome
  <2> HIDE DEF say
  <2>3. told' \in [Reqs -> Outcome] /\ caller' \in [Reqs -> CallerState]
    BY <2>1, <2>2, ResolveType
  <2> QED BY <1>7, <2>1, <2>3, RemoveType DEF CompleteRequest, Seen, TypeOK
<1>8. ASSUME NEW i \in Instances, NEW r \in Reqs, NEW match \in BOOLEAN, NEW live \in BOOLEAN,
             CompletePersistentShell(i, r, match, live)
      PROVE  TypeOK'
  <2> DEFINE say == [q \in Reqs |-> IF match THEN "result" ELSE "dropped"]
  <2>1. Remove({r}) /\ Resolve({r}, say)
    BY <1>8 DEF CompletePersistentShell
  <2>2. \A q \in Reqs : say[q] \in Outcome \cup {"dropped"}
    BY DEF Outcome
  <2> HIDE DEF say
  <2>3. told' \in [Reqs -> Outcome] /\ caller' \in [Reqs -> CallerState]
    BY <2>1, <2>2, ResolveType
  <2> QED BY <1>8, <2>1, <2>3, RemoveType DEF CompletePersistentShell, Seen, TypeOK
<1>9. ASSUME NEW i \in Instances, TouchRunner(i) PROVE TypeOK'
  BY <1>9 DEF TouchRunner, Seen, TypeOK, requests, calls
<1>10. ASSUME NEW i \in Instances, NEW o \in SUBSET Reqs, Register(i, o) PROVE TypeOK'
  <2>1. CASE inst \in {i, NoInstance}
    BY <1>10, <2>1 DEF Register, TypeOK, requests, calls
  <2>2. CASE inst \notin {i, NoInstance}
    BY <1>10, <2>2, DrainType DEF Register, TypeOK
  <2> QED BY <2>1, <2>2
<1>11. ASSUME NEW i \in Instances, NEW o \in SUBSET Reqs, UpdateOffers(i, o) PROVE TypeOK'
  BY <1>11 DEF UpdateOffers, TypeOK, requests, calls
<1>12. ASSUME NEW i \in Instances, ReconcileDisconnect(i) PROVE TypeOK'
  BY <1>12, DrainType DEF ReconcileDisconnect, TypeOK
<1>13. ASSUME FallSilent PROVE TypeOK'
  BY <1>13 DEF FallSilent, TypeOK, requests, calls
<1>14. ASSUME PruneExpiredRunner PROVE TypeOK'
  BY <1>14, DrainType DEF PruneExpiredRunner, TypeOK
<1>15. ASSUME UNCHANGED vars PROVE TypeOK'
  BY <1>15 DEF vars, runner, requests, calls, TypeOK
<1> QED
  BY <1>1, <1>2, <1>3, <1>4, <1>5, <1>6, <1>7, <1>8, <1>9, <1>10, <1>11, <1>12, <1>13, <1>14, <1>15
  DEF Next, CallStep, RunnerStep
-----------------------------------------------------------------------------
(* A resolved and removed request is gone, whatever its waiter is told. *)
LEMMA RemovedIsGone ==
    ASSUME SyncInv, NEW R \in SUBSET pending, NEW say, NEW r \in R, Remove(R), Resolve(R, say),
           SameHistory(r),
           \/ say[r] = "dropped"
           \/ say[r] = "not_started" /\ r \notin dispatched
           \/ say[r] \in {"result", "outcome_unknown"} /\ r \in dispatched
    PROVE  Gone(r)
<1>1. r \in Reqs /\ r \in pending
  BY DEF SyncInv, TypeOK
<1> QED BY <1>1 DEF Gone, Remove, Resolve, SameCall

(* The other requests are left alone. *)
LEMMA OthersUntouched ==
    ASSUME SyncInv, NEW R, NEW say, NEW r \in Reqs, r \notin R, Remove(R), Resolve(R, say),
           SameHistory(r), r \in pending => inst' = inst
    PROVE  Untouched(r)
BY DEF Untouched, SamePlace, SameCall, Remove, Resolve

(* The drain takes every pending request, and does not claim that one that *)
(* was handed out was not.                                                 *)
LEMMA DrainEffect ==
    ASSUME SyncInv, NEW r \in Reqs, Drain, SameHistory(r)
    PROVE  Effect(r)
<1> DEFINE say == [q \in Reqs |-> IF q \in PersistentReqs THEN "dropped" ELSE CutOff(q)]
<1>1. Remove(pending) /\ Resolve(pending, say)
  BY DEF Drain
<1>2. \/ say[r] = "dropped"
      \/ say[r] = "not_started" /\ r \notin dispatched
      \/ say[r] \in {"result", "outcome_unknown"} /\ r \in dispatched
  BY DEF CutOff
<1> HIDE DEF say
<1>3. CASE r \in pending
  BY <1>1, <1>2, <1>3, RemovedIsGone DEF Effect
<1>4. CASE r \notin pending
  BY <1>1, <1>4, OthersUntouched DEF Effect
<1> QED BY <1>3, <1>4

(* A poll sends the request it hands out and withdraws the stale ones      *)
(* before it.                                                              *)
LEMMA WithdrawEffect ==
    ASSUME SyncInv, NEW r \in Reqs, NEW popped \in SUBSET Queued, NEW out \in SUBSET popped,
           out \cap (Unwanted \cup Stale) = {}, popped \subseteq out \cup Unwanted \cup Stale,
           Withdraw(popped, out), inst' = inst, target' = target,
           r \in out => handed'[r] = inst /\ inst # NoInstance,
           r \notin out => handed'[r] = handed[r]
    PROVE  Effect(r)
<1> DEFINE gone == popped \cap (Unwanted \cup Stale)
<1>1. Resolve(gone, [q \in Reqs |-> "not_started"])
  BY DEF Withdraw
<1>2. /\ pending' = pending \ gone /\ stored' = stored \ gone /\ dispatched' = dispatched \cup out
      /\ queue'[r] = IF r \in popped THEN 0 ELSE queue[r]
  BY DEF Withdraw
<1>3. r \in popped => queue[r] > 0 /\ r \in pending /\ r \notin dispatched
  BY DEF Queued, SyncInv, RequestInv
<1>4. r \in gone <=> r \in popped /\ r \notin out
  OBVIOUS
<1> HIDE DEF gone
<1>5. CASE r \notin gone
  <2>1. SameCall(r)
    BY <1>1, <1>5 DEF Resolve, SameCall
  <2>2. CASE r \in out
    BY <1>2, <1>3, <1>5, <2>1, <2>2 DEF Effect, Sent
  <2>3. CASE r \notin out
    BY <1>2, <1>4, <1>5, <2>1, <2>3 DEF Effect, Untouched, SamePlace, SameHistory
  <2> QED BY <2>2, <2>3
<1>6. CASE r \in gone
  <2>1. SameHistory(r) /\ r \notin pending' /\ r \notin stored' /\ queue'[r] = 0
    BY <1>2, <1>4, <1>6 DEF SameHistory
  <2>2. r \in pending /\ r \notin dispatched /\ r \notin dispatched'
    BY <1>2, <1>3, <1>4, <1>6
  <2>3. \/ caller[r] # "waiting" /\ SameCall(r)
        \/ caller[r] = "waiting" /\ caller'[r] = "told" /\ told'[r] = "not_started"
    BY <1>1, <1>6 DEF Resolve, SameCall
  <2> QED BY <2>1, <2>2, <2>3 DEF Effect, Gone
<1> QED BY <1>5, <1>6

(* Every step has one of the effects on every request. *)
LEMMA StepEffect ==
    ASSUME SyncInv, Next, NEW r \in Reqs
    PROVE  Effect(r)
<1> USE DEF SyncInv
<1>1. ASSUME NEW q \in Reqs, EnqueueRequest(q) PROVE Effect(r)
  <2>1. CASE q = r
    BY <1>1, <2>1 DEF EnqueueRequest, TypedWaiter, runner, TypeOK, Effect, Admitted
  <2>2. CASE q # r
    <3>1. queue'[r] > 0 <=> queue[r] > 0
      BY <1>1, <2>2 DEF EnqueueRequest, TypeOK
    <3>2. SameCall(r) /\ SameHistory(r) /\ inst' = inst
      BY <1>1, <2>2 DEF EnqueueRequest, runner, TypeOK, SameCall, SameHistory
    <3>3. SamePlace(r)
      BY <1>1, <2>2, <3>1 DEF EnqueueRequest, TypedWaiter, SamePlace
    <3> QED BY <3>2, <3>3 DEF Effect, Untouched
  <2> QED BY <2>1, <2>2
<1>2. ASSUME NEW q \in Reqs, WaitTimeout(q) \/ AbandonCall(q) PROVE Effect(r)
  <2>1. SamePlace(r) /\ SameHistory(r) /\ inst' = inst /\ told'[r] = told[r]
    BY <1>2 DEF WaitTimeout, AbandonCall, requests, runner, SamePlace, SameHistory
  <2>2. CASE q = r
    BY <1>2, <2>1, <2>2 DEF WaitTimeout, AbandonCall, TypeOK, Effect, Left
  <2>3. CASE q # r
    BY <1>2, <2>1, <2>3 DEF WaitTimeout, AbandonCall, TypeOK, Effect, Untouched, SameCall
  <2> QED BY <2>2, <2>3
<1>3. ASSUME NEW q \in Reqs, CancelRequest(q) PROVE Effect(r)
  <2>1. SameHistory(r) /\ inst' = inst
    BY <1>3 DEF CancelRequest, runner, SameHistory
  <2>2. CASE q = r
    <3>1. r \notin pending' /\ r \notin dispatched' /\ r \notin stored' /\ queue'[r] = 0
      BY <1>3, <2>2 DEF CancelRequest, Remove
    <3>2. /\ caller[r] \in {"timed_out", "closed"} /\ caller'[r] = "told"
          /\ told'[r] = CancelOutcome(r)
      BY <1>3, <2>2 DEF CancelRequest, TypeOK
    <3>3. \/ /\ CancelOutcome(r) = "not_started"
             /\ r \in pending \ dispatched \/ r \in PersistentReqs
          \/ /\ CancelOutcome(r) = "outcome_unknown"
             /\ r \in pending \ dispatched => r \in PersistentReqs
      BY DEF CancelOutcome, PersistentShellOutcome, DispatchUncertainty
    <3> QED BY <2>1, <3>1, <3>2, <3>3 DEF Effect, Gone
  <2>3. CASE q # r
    <3>1. SameCall(r)
      BY <1>3, <2>3 DEF CancelRequest, SameCall, TypeOK
    <3>2. SamePlace(r)
      BY <1>3, <2>3 DEF CancelRequest, Remove, SamePlace
    <3> QED BY <2>1, <3>1, <3>2 DEF Effect, Untouched
  <2> QED BY <2>2, <2>3
<1>4. ASSUME CancelAbandonedSyncRequests PROVE Effect(r)
  <2>1. SameCall(r) /\ SameHistory(r) /\ inst' = inst
    BY <1>4 DEF CancelAbandonedSyncRequests, runner, calls, SameCall, SameHistory
  <2>2. CASE r \in Abandoned
    <3>1. r \in pending /\ caller[r] # "waiting"
      BY <2>2 DEF Abandoned, ReceiverDropped
    <3>2. r \notin pending' /\ r \notin dispatched' /\ r \notin stored' /\ queue'[r] = 0
      BY <1>4, <2>2 DEF CancelAbandonedSyncRequests, Remove
    <3> QED BY <2>1, <3>1, <3>2 DEF Effect, Gone
  <2>3. CASE r \notin Abandoned
    BY <1>4, <2>1, <2>3 DEF CancelAbandonedSyncRequests, Remove, Effect, Untouched, SamePlace
  <2> QED BY <2>2, <2>3
<1>5. ASSUME NEW i \in Instances, NEW first \in Reqs, Poll(i, first) PROVE Effect(r)
  <2> DEFINE popped == {q \in Queued : queue[q] >= queue[first]}
  <2>1. Withdraw(popped, {first}) /\ inst' = inst /\ target' = target
    BY <1>5 DEF Poll
  <2>2. first \in Takeable /\ \A q \in Takeable : queue[q] <= queue[first]
    BY <1>5 DEF Poll
  <2>3. first \in popped /\ {first} \cap (Unwanted \cup Stale) = {}
    BY <2>2 DEF Takeable, Queued, TypeOK
  <2>4. popped \subseteq {first} \cup Unwanted \cup Stale
    <3>1. ASSUME NEW q \in Takeable, queue[q] >= queue[first] PROVE q = first
      <4>1. queue[q] = queue[first]
        BY <2>2, <3>1 DEF Takeable, Queued, TypeOK
      <4> QED BY <2>2, <4>1 DEF QueuePlaces, Takeable
    <3> QED BY <3>1 DEF Takeable
  <2>5. r = first => handed'[r] = inst /\ inst # NoInstance
    BY <1>5 DEF Poll, TypeOK
  <2>6. r # first => handed'[r] = handed[r]
    BY <1>5 DEF Poll, TypeOK
  <2>7. popped \in SUBSET Queued /\ {first} \in SUBSET popped
    BY <2>3
  <2> HIDE DEF popped
  <2> QED BY <2>1, <2>3, <2>4, <2>5, <2>6, <2>7, WithdrawEffect
<1>6. ASSUME NEW i \in Instances, PollEmpty(i) PROVE Effect(r)
  <2>1. Withdraw(Queued, {}) /\ inst' = inst /\ target' = target /\ handed' = handed
    BY <1>6 DEF PollEmpty
  <2>2. Queued \subseteq {} \cup Unwanted \cup Stale
    BY <1>6 DEF PollEmpty, Takeable
  <2> QED BY <2>1, <2>2, WithdrawEffect
<1>7. ASSUME NEW i \in Instances, NEW q \in Reqs, NEW valid \in BOOLEAN, NEW live \in BOOLEAN,
             CompleteRequest(i, q, valid, live)
      PROVE  Effect(r)
  <2> DEFINE say == [p \in Reqs |-> IF valid \/ p \notin GatewayReqs THEN "result" ELSE CutOff(p)]
  <2>1. Remove({q}) /\ Resolve({q}, say) /\ SameHistory(r) /\ inst' = inst /\ q \in pending
    BY <1>7 DEF CompleteRequest, SameHistory, Seen
  <2>2. q \in dispatched
    BY <1>7, <2>1 DEF CompleteRequest, RequestInv
  <2>3. say[q] \in {"result", "outcome_unknown"}
    BY <2>2 DEF CutOff
  <2> HIDE DEF say
  <2>4. CASE q = r
    BY <2>1, <2>2, <2>3, <2>4, RemovedIsGone DEF Effect
  <2>5. CASE q # r
    BY <2>1, <2>5, OthersUntouched DEF Effect
  <2> QED BY <2>4, <2>5
<1>8. ASSUME NEW i \in Instances, NEW q \in Reqs, NEW match \in BOOLEAN, NEW live \in BOOLEAN,
             CompletePersistentShell(i, q, match, live)
      PROVE  Effect(r)
  <2> DEFINE say == [p \in Reqs |-> IF match THEN "result" ELSE "dropped"]
  <2>1. Remove({q}) /\ Resolve({q}, say) /\ SameHistory(r) /\ inst' = inst /\ q \in pending
    BY <1>8 DEF CompletePersistentShell, SameHistory, Seen
  <2>2. q \in dispatched
    BY <1>8, <2>1 DEF CompletePersistentShell, RequestInv
  <2>3. say[q] \in {"result", "dropped"}
    OBVIOUS
  <2> HIDE DEF say
  <2>4. CASE q = r
    BY <2>1, <2>2, <2>3, <2>4, RemovedIsGone DEF Effect
  <2>5. CASE q # r
    BY <2>1, <2>5, OthersUntouched DEF Effect
  <2> QED BY <2>4, <2>5
<1>9. ASSUME NEW i \in Instances, TouchRunner(i) PROVE Effect(r)
  BY <1>9 DEF TouchRunner, Seen, requests, calls, Effect, Untouched, SameCall, SamePlace, SameHistory
<1>10. ASSUME NEW i \in Instances, NEW o \in SUBSET Reqs, Register(i, o) PROVE Effect(r)
  <2>1. SameHistory(r)
    BY <1>10 DEF Register, SameHistory
  <2>2. CASE inst \in {i, NoInstance}
    <3>1. SameCall(r) /\ SamePlace(r)
      BY <1>10, <2>2 DEF Register, requests, calls, SameCall, SamePlace
    <3>2. r \in pending => inst' = inst
      BY <1>10, <2>2 DEF Register, RequestInv
    <3> QED BY <2>1, <3>1, <3>2 DEF Effect, Untouched
  <2>3. CASE inst \notin {i, NoInstance}
    BY <1>10, <2>1, <2>3, DrainEffect DEF Register
  <2> QED BY <2>2, <2>3
<1>11. ASSUME NEW i \in Instances, NEW o \in SUBSET Reqs, UpdateOffers(i, o) PROVE Effect(r)
  BY <1>11 DEF UpdateOffers, requests, calls, Effect, Untouched, SameCall, SamePlace, SameHistory
<1>12. ASSUME NEW i \in Instances, ReconcileDisconnect(i) PROVE Effect(r)
  BY <1>12, DrainEffect DEF ReconcileDisconnect, SameHistory
<1>13. ASSUME FallSilent PROVE Effect(r)
  BY <1>13 DEF FallSilent, requests, calls, Effect, Untouched, SameCall, SamePlace, SameHistory
<1>14. ASSUME PruneExpiredRunner PROVE Effect(r)
  BY <1>14, DrainEffect DEF PruneExpiredRunner, SameHistory
<1> QED
  BY <1>1, <1>2, <1>3, <1>4, <1>5, <1>6, <1>7, <1>8, <1>9, <1>10, <1>11, <1>12, <1>13, <1>14
  DEF Next, CallStep, RunnerStep

(* Places stay distinct: a new request goes behind all others, and the     *)
(* others keep their places or lose them.                                  *)
LEMMA PlacesStep ==
    ASSUME SyncInv, [Next]_vars
    PROVE  QueuePlaces'
<1>1. ASSUME NEW r \in Reqs, EnqueueRequest(r) PROVE QueuePlaces'
  <2>1. \A q \in Reqs : queue'[q] = IF q = r THEN 1 ELSE IF queue[q] > 0 THEN queue[q] + 1 ELSE 0
    BY <1>1 DEF EnqueueRequest
  <2> QED BY <2>1 DEF SyncInv, TypeOK, QueuePlaces, Queued
<1>2. ASSUME \A q \in Reqs : queue'[q] \in {0, queue[q]} PROVE QueuePlaces'
  BY <1>2 DEF SyncInv, TypeOK, QueuePlaces, Queued
<1>3. ASSUME NEW R, Remove(R) PROVE QueuePlaces'
  BY <1>2, <1>3 DEF Remove
<1>4. ASSUME NEW popped, NEW out, Withdraw(popped, out) PROVE QueuePlaces'
  BY <1>2, <1>4 DEF Withdraw
<1>5. ASSUME UNCHANGED queue PROVE QueuePlaces'
  BY <1>2, <1>5
<1>6. ASSUME NEW r \in Reqs, CallStep(r) PROVE QueuePlaces'
  BY <1>1, <1>3, <1>5, <1>6 DEF CallStep, WaitTimeout, AbandonCall, CancelRequest, requests
<1>7. ASSUME NEW i \in Instances, RunnerStep(i) PROVE QueuePlaces'
  BY <1>3, <1>4, <1>5, <1>7
  DEF RunnerStep, PollEmpty, TouchRunner, ReconcileDisconnect, Poll, CompleteRequest,
      CompletePersistentShell, Register, UpdateOffers, Drain, requests
<1> QED
  BY <1>3, <1>5, <1>6, <1>7
  DEF Next, vars, requests, CancelAbandonedSyncRequests, FallSilent, PruneExpiredRunner, Drain

(* Every effect keeps what the invariant says of the request. *)
LEMMA EffectInv ==
    ASSUME TypeOK, TypeOK', NEW r \in Reqs, RequestInv(r), Effect(r)
    PROVE  RequestInv(r)'
<1> USE DEF RequestInv
<1>1. CASE Untouched(r)
  BY <1>1 DEF Untouched, SameCall, SamePlace, SameHistory
<1>2. CASE Left(r)
  BY <1>2 DEF Left, SamePlace, SameHistory
<1>3. CASE Admitted(r)
  BY <1>3 DEF Admitted, TypeOK
<1>4. CASE Sent(r)
  BY <1>4 DEF Sent, SameCall, TypeOK
<1>5. CASE Gone(r)
  BY <1>5 DEF Gone, SameCall, SameHistory, TypeOK
<1> QED BY <1>1, <1>2, <1>3, <1>4, <1>5 DEF Effect

(* The invariant holds initially. *)
LEMMA SyncInit == Init => SyncInv
<1> SUFFICES ASSUME Init PROVE SyncInv
  OBVIOUS
<1>1. TypeOK
  BY DEF Init, TypeOK, CallerState, Outcome
<1>2. QueuePlaces
  BY DEF Init, QueuePlaces, Queued
<1>3. ASSUME NEW r \in Reqs PROVE RequestInv(r)
  BY DEF Init, RequestInv
<1> QED BY <1>1, <1>2, <1>3 DEF SyncInv

(* Every step keeps the invariant. *)
LEMMA SyncStep == SyncInv /\ [Next]_vars => SyncInv'
<1> SUFFICES ASSUME SyncInv, [Next]_vars PROVE SyncInv'
  OBVIOUS
<1>1. TypeOK /\ TypeOK'
  BY TypeStep DEF SyncInv
<1>2. QueuePlaces'
  BY PlacesStep
<1>3. ASSUME NEW r \in Reqs PROVE RequestInv(r)'
  <2>1. CASE Next
    BY <1>1, <2>1, StepEffect, EffectInv DEF SyncInv
  <2>2. CASE UNCHANGED vars
    BY <2>2 DEF vars, runner, requests, calls, SyncInv, RequestInv
  <2> QED BY <2>1, <2>2
<1> QED BY <1>1, <1>2, <1>3 DEF SyncInv

(* The requests, their waiters and their callers agree, whatever polls,    *)
(* results, timeouts, cancellations, takeovers and disconnects do.         *)
THEOREM SyncInvariant == Spec => []SyncInv
<1> QED BY SyncInit, SyncStep, PTL DEF Spec

(* The registry's state keeps its type. *)
THEOREM SyncTypeCorrect == Spec => []TypeOK
<1>1. SyncInv => TypeOK
  BY DEF SyncInv
<1> QED BY <1>1, SyncInvariant, PTL

(* No request, fenced or not, reaches a process other than the one that    *)
(* was registered when it was admitted (SentToAdmittedProcess).            *)
THEOREM SentSafe == Spec => []SentToAdmittedProcess
<1>1. SyncInv => SentToAdmittedProcess
  BY DEF SyncInv, RequestInv, SentToAdmittedProcess
<1> QED BY <1>1, SyncInvariant, PTL

(* No caller is left waiting for a request that nobody can answer, and no  *)
(* waiter outlives its request (NoParkedCaller).                           *)
THEOREM NoneParked == Spec => []NoParkedCaller
<1>1. SyncInv => NoParkedCaller
  BY DEF SyncInv, TypeOK, RequestInv, NoParkedCaller, TypedReqs
<1> QED BY <1>1, SyncInvariant, PTL

(* The bounded queue holds the undispatched pending requests and nothing   *)
(* else (QueueIsUndispatched).                                             *)
THEOREM QueueExact == Spec => []QueueIsUndispatched
<1>1. SyncInv => QueueIsUndispatched
  BY DEF SyncInv, TypeOK, RequestInv, QueueIsUndispatched, Queued
<1> QED BY <1>1, SyncInvariant, PTL

(* Except to persistent shells, not_started is only said of requests no    *)
(* Runner process is ever handed (NotStartedNeverSent).                    *)
THEOREM NotStartedTrue == Spec => []NotStartedNeverSent
<1>1. SyncInv => NotStartedNeverSent
  BY DEF SyncInv, RequestInv, NotStartedNeverSent, ExactReqs
<1> QED BY <1>1, SyncInvariant, PTL
-----------------------------------------------------------------------------
(* Every effect is a step of the abstract call. *)
LEMMA EffectIsCallStep ==
    ASSUME TypeOK, TypeOK', NEW r \in ExactReqs, RequestInv(r), RequestInv(r)', Effect(r)
    PROVE  Call!Step(r)
<1> DEFINE Ph == IF caller[r] = "idle" THEN "idle"
                 ELSE IF handed[r] # NoInstance THEN "sent"
                 ELSE IF r \in pending THEN "queued" ELSE "withdrawn"
<1>1. /\ CallPhase[r] = Ph /\ CallPhase'[r] = Ph'
      /\ CallOutcome[r] = told[r] /\ CallOutcome'[r] = told'[r]
      /\ r \in Reqs /\ r \notin PersistentReqs
  BY DEF CallPhase, CallOutcome, ExactReqs
<1> USE DEF Call!Step, Call!Stays, Call!Silent, Call!Moves, Call!Says, RequestInv
<1>2. CASE Untouched(r)
  BY <1>1, <1>2 DEF Untouched, SameCall, SamePlace, SameHistory
<1>3. CASE Left(r)
  BY <1>1, <1>3 DEF Left, SamePlace, SameHistory
<1>4. CASE Admitted(r)
  BY <1>1, <1>4 DEF Admitted
<1>5. CASE Sent(r)
  BY <1>1, <1>5 DEF Sent, SameCall
<1>6. CASE Gone(r)
  BY <1>1, <1>6 DEF Gone, SameCall, SameHistory
<1> QED BY <1>2, <1>3, <1>4, <1>5, <1>6 DEF Effect

(* Except for persistent shells, the registry implements the abstract call *)
(* (ImplementsRunnerCall): one sending, one outcome, and not_started only  *)
(* in the step that withdraws the request.                                 *)
THEOREM CallImplemented == Spec => ImplementsRunnerCall
<1>1. Init => Call!Init
  BY DEF Init, Call!Init, CallPhase, CallOutcome, ExactReqs
<1>2. SyncInv /\ SyncInv' /\ [Next]_vars => [Call!Next]_<<CallPhase, CallOutcome>>
  <2> SUFFICES ASSUME SyncInv, SyncInv', [Next]_vars PROVE [Call!Next]_<<CallPhase, CallOutcome>>
    OBVIOUS
  <2>1. CASE Next
    <3>1. ASSUME NEW r \in ExactReqs PROVE Call!Step(r)
      BY <2>1, <3>1, StepEffect, EffectIsCallStep DEF SyncInv, ExactReqs
    <3> QED BY <3>1 DEF Call!Next
  <2>2. CASE UNCHANGED vars
    BY <2>2 DEF vars, runner, requests, calls, CallPhase, CallOutcome
  <2> QED BY <2>1, <2>2
<1> QED BY <1>1, <1>2, SyncInvariant, PTL DEF Spec, ImplementsRunnerCall, Call!Spec
=============================================================================
