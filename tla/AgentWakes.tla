------------------------------ MODULE AgentWakes ------------------------------
(***************************************************************************)
(* The wakes of one durable Agent: the store's wakes, task carriers, wait  *)
(* and controller endpoint; the Server's continuation controller, whose    *)
(* binding is lost when the Server restarts; the Host that runs a turn.    *)
(*                                                                         *)
(* A store operation is one transaction.  Generation g of the endpoint     *)
(* names the endpoint too, as each replacement takes the next generation.  *)
(* Wakes are numbered in the order of creation.  A lease may lapse at any  *)
(* moment, so that a renewed one is one that has not lapsed yet; a lapsed  *)
(* endpoint that a restart has marked expired is one that was not capable. *)
(* Every View is of the one Window the endpoint was attached from.         *)
(* Attention events are left out: their wakes are those of a wait nobody   *)
(* cancels.  So are push adapters, which run the same transactions with    *)
(* the lock held from the claim to the outcome; none is registered.        *)
(***************************************************************************)
EXTENDS Integers, Sequences, FiniteSets

CONSTANTS
    Sources,      \* tasks of other Agents that the wait is for
    Modes,        \* the modes of a wait that are considered
    MaxWakes,     \* bound: wakes
    MaxMsgs,      \* bound: messages delivered to the Agent
    MaxTries,     \* bound: claims of one wake
    MaxTasks,     \* bound: task attempts
    Loads,        \* bound: what a behaviour has besides messages
    MaxLosses     \* bound: endpoints and restarts of the Server

ASSUME WakeAssumption ==
    /\ IsFiniteSet(Sources) /\ Sources # {} /\ Modes \subseteq {"any", "all"}
    /\ Loads \subseteq SUBSET {"task", "wait"}
    /\ {MaxWakes, MaxMsgs, MaxTries, MaxTasks, MaxLosses} \subseteq Nat

VARIABLES
    ep,      \* the current endpoint: generation, lifecycle, wake_capable
    wakes,   \* wc_agent_wakes, each with its claim and its task's carrier
    msgs,    \* messages delivered so far; the last one's delivery_order
    wait,    \* the wait: state, mode, recorded matches
    done,    \* the sources that have ended
    bnd,     \* the controller's binding of the Agent, or NoBinding
    calls,   \* attach and detach handlers between the store and the binding
    hold,    \* the prepare that holds binding_transitions between its two
             \* transactions, or Free
    mail,    \* prepared messages that a View has and has not sent
    sent,    \* history: the claims of each wake whose turn the Host started
    crashes, \* restarts of the Server so far
    load     \* what this behaviour has besides messages

storeVars == <<ep, wakes, msgs, wait, done>>
serverVars == <<bnd, calls, hold>>
vars == <<storeVars, serverVars, mail, sent, crashes, load>>

Dispatched == {"prepared", "delivered", "delivery_unknown"}
Queueable == {"pending", "claimed"}
WakeState == Queueable \cup Dispatched \cup {"consumed", "retired"}
Ids == 1..MaxWakes

Wake == [kind : {"inbox", "task", "wait"}, st : WakeState, g : 0..MaxLosses, tries : 0..MaxTries,
         late : BOOLEAN,
         src : {"none", "active", "lapsed", "ended"}, pin : 0..MaxLosses, carrier : 0..MaxLosses,
         high : 0..MaxMsgs, told : 0..MaxMsgs]

NoBinding == [g |-> 0, i |-> 0, a |-> 0, phase |-> "none"]
Free == [i |-> 0, a |-> 0]

(* With the table's CHECK: only a free or retired wake has no claim. *)
TypeOK ==
    /\ ep \in [g : 0..MaxLosses, life : {"none", "attached", "lapsed", "detached"}, cap : BOOLEAN]
    /\ wakes \in Seq(Wake) /\ Len(wakes) <= MaxWakes
    /\ \A i \in DOMAIN wakes : wakes[i].st \in {"pending", "retired"} <=> wakes[i].g = 0
    /\ msgs \in 0..MaxMsgs /\ done \subseteq Sources /\ crashes \in 0..MaxLosses
    /\ wait \in [st : {"none", "waiting", "triggered", "resumed", "cancelled"},
                 mode : {"any", "all"}, got : SUBSET Sources]
    /\ bnd \in [g : 0..MaxLosses, i : 0..MaxWakes, a : 0..MaxTries,
                phase : {"none", "prepared", "accepted", "unknown"}]
    /\ calls \subseteq ({"attach", "detach"} \X (1..MaxLosses))
    /\ hold \in [i : 0..MaxWakes, a : 0..MaxTries]
    /\ mail \subseteq (Ids \X (1..MaxTries))
    /\ sent \in [Ids -> Seq(1..MaxTries)] /\ load \in Loads

Init ==
    /\ ep = [g |-> 0, life |-> "none", cap |-> FALSE]
    /\ wakes = <<>> /\ msgs = 0 /\ done = {}
    /\ wait = [st |-> "none", mode |-> "any", got |-> {}]
    /\ bnd = NoBinding /\ calls = {} /\ hold = Free
    /\ mail = {} /\ sent = [i \in Ids |-> <<>>] /\ crashes = 0
    /\ load \in Loads
-----------------------------------------------------------------------------
(***************************************************************************)
(* Wakes: creation, release, retirement.                                   *)
(***************************************************************************)
NewWake(kind, pin, high) ==
    [kind |-> kind, st |-> "pending", g |-> 0, tries |-> 0, late |-> FALSE,
     src |-> IF kind = "task" THEN "active" ELSE "none", pin |-> pin, carrier |-> 0,
     high |-> high, told |-> 0]

(* Mutant: the carrier of the claim stays. *)
ReleasedBound(w) == [w EXCEPT !.st = "pending", !.g = 0, !.late = FALSE]

(* Back to pending: the claim is revoked and the carrier cleared. *)
Released(w) == [w EXCEPT !.st = "pending", !.g = 0, !.late = FALSE, !.carrier = 0]

Retired(w) == [Released(w) EXCEPT !.st = "retired"]

(* With the wake of a stale attempt its expiry is noticed. *)
RetiredStale(w) == [Retired(w) EXCEPT !.src = IF @ = "lapsed" THEN "ended" ELSE @]

Map(Op(_)) == [i \in DOMAIN wakes |-> Op(wakes[i])]

SomeDispatched(ws) == \E i \in DOMAIN ws : ws[i].st \in Dispatched

(* require_current_endpoint, for the endpoint of generation g. *)
Live(g) == ep.g = g /\ ep.life = "attached"

(* require_exact_claim: claim a of wake i, held by generation g. *)
Exact(i, a, g) == wakes[i].st \notin {"pending", "retired"} /\ wakes[i].tries = a /\ wakes[i].g = g

(* Mutant: a wake that was already dispatched takes the message too. *)
CoalescibleDispatched == {i \in DOMAIN wakes : wakes[i].kind = "inbox" /\ wakes[i].st # "consumed"}

Coalescible == {i \in DOMAIN wakes : wakes[i].kind = "inbox" /\ wakes[i].st \in Queueable}

(* A message to the Agent, with its wake: coalesce_agent_wake_for_delivery. *)
Deliver ==
    /\ msgs < MaxMsgs /\ msgs' = msgs + 1
    /\ \/ \E i \in Coalescible : wakes' = [wakes EXCEPT ![i].high = msgs + 1]
       \/ /\ Coalescible = {} /\ Len(wakes) < MaxWakes
          /\ wakes' = Append(wakes, NewWake("inbox", 0, msgs + 1))
    /\ UNCHANGED <<ep, wait, done, serverVars, mail, sent, crashes, load>>

(* A task attempt is to be carried out by the Agent's endpoint, pinned to  *)
(* the current one or not.                                                 *)
SubmitTask ==
    /\ "task" \in load /\ Len(wakes) < MaxWakes
    /\ Cardinality({i \in DOMAIN wakes : wakes[i].kind = "task"}) < MaxTasks
    /\ \E pin \in {0} \cup (IF Live(ep.g) /\ ep.cap THEN {ep.g} ELSE {}) :
          wakes' = Append(wakes, NewWake("task", pin, 0))
    /\ UNCHANGED <<ep, msgs, wait, done, serverVars, mail, sent, crashes, load>>

AttemptLapses(i) ==
    /\ wakes[i].src = "active" /\ wakes' = [wakes EXCEPT ![i].src = "lapsed"]
    /\ UNCHANGED <<ep, msgs, wait, done, serverVars, mail, sent, crashes, load>>

(* The attempt is completed or its expiry noticed: what is not dispatched  *)
(* is retired (retire_pre_dispatch_endpoint_execution_for_attempt).        *)
AttemptEnds(i) ==
    /\ wakes[i].src \in {"active", "lapsed"}
    /\ LET w == [wakes[i] EXCEPT !.src = "ended"]
       IN  wakes' = [wakes EXCEPT ![i] = IF w.st \in Queueable THEN Retired(w) ELSE w]
    /\ UNCHANGED <<ep, msgs, wait, done, serverVars, mail, sent, crashes, load>>

ClaimLapses(i) ==
    /\ wakes[i].st = "claimed" /\ ~wakes[i].late
    /\ wakes' = [wakes EXCEPT ![i].late = TRUE]
    /\ UNCHANGED <<ep, msgs, wait, done, serverVars, mail, sent, crashes, load>>
-----------------------------------------------------------------------------
(***************************************************************************)
(* The wait.                                                               *)
(***************************************************************************)
WaitWake(i) == i \in DOMAIN wakes /\ wakes[i].kind = "wait"

Met(mode, S) == IF mode = "any" THEN S # {} ELSE S = Sources

(* record_wait_match and coalesce_wait_wake: the matches are now S.  The   *)
(* one wake of a wait is made when it triggers.                            *)
Matched(mode, S) ==
    LET triggers == Met(mode, S)
    IN  /\ wait' = [st |-> IF triggers THEN "triggered" ELSE "waiting", mode |-> mode, got |-> S]
        /\ IF triggers /\ ~\E i \in DOMAIN wakes : WaitWake(i)
           THEN /\ Len(wakes) < MaxWakes
                /\ wakes' = Append(wakes, NewWake("wait", 0, 0))
           ELSE wakes' = wakes

(* Mutant: only what ends after the registration counts. *)
AlreadyEndedNone == {}

(* The registration's snapshot of the sources. *)
AlreadyEnded == done

WaitForEvents ==
    /\ "wait" \in load /\ wait.st = "none"
    /\ \E mode \in Modes : Matched(mode, AlreadyEnded)
    /\ UNCHANGED <<ep, msgs, done, serverVars, mail, sent, crashes, load>>

(* A source task ends, with its matches in the same transaction. *)
SourceEnds(s) ==
    /\ "wait" \in load /\ s \notin done /\ done' = done \cup {s}
    /\ IF wait.st \in {"waiting", "triggered"} THEN Matched(wait.mode, wait.got \cup {s})
       ELSE UNCHANGED <<wait, wakes>>
    /\ UNCHANGED <<ep, msgs, serverVars, mail, sent, crashes, load>>

(* Mutant: a wait may be cancelled after the dispatch of its wake. *)
CancellableAnytime(i) == WaitWake(i) /\ wakes[i].st # "consumed"

Cancellable(i) == WaitWake(i) /\ wakes[i].st \in Queueable

CancelWait ==
    /\ \/ wait.st = "waiting" /\ UNCHANGED wakes
       \/ /\ wait.st = "triggered"
          /\ \E i \in Ids : Cancellable(i) /\ wakes' = [wakes EXCEPT ![i] = Retired(@)]
    /\ wait' = [wait EXCEPT !.st = "cancelled"]
    /\ UNCHANGED <<ep, msgs, done, serverVars, mail, sent, crashes, load>>
-----------------------------------------------------------------------------
(***************************************************************************)
(* The endpoint.                                                           *)
(***************************************************************************)
(* Mutant: what was prepared for the lost endpoint is queued again. *)
EndpointLossRequeues(g, fence) ==
    Map(LAMBDA w : IF w.g # g THEN w
                   ELSE IF w.st \in {"claimed", "prepared"} THEN Released(w)
                   ELSE [w EXCEPT !.st = IF @ = "delivered" THEN "delivery_unknown" ELSE @,
                                  !.carrier = IF fence THEN 0 ELSE @])

(* reconcile_wakes_for_endpoint_loss: what generation g holds.  With fence *)
(* the task's controller is replaced and its carrier cleared.              *)
EndpointLoss(g, fence) ==
    Map(LAMBDA w : IF w.g # g THEN w
                   ELSE IF w.st = "claimed" THEN Released(w)
                   ELSE [w EXCEPT !.st = IF @ \in {"prepared", "delivered"} THEN "delivery_unknown" ELSE @,
                                  !.carrier = IF fence THEN 0 ELSE @])

(* Attach: the next generation; the binding follows when the handler gets  *)
(* the lock.                                                               *)
Attach ==
    /\ ep.g + crashes < MaxLosses
    /\ ep' = [g |-> ep.g + 1, life |-> "attached", cap |-> FALSE]
    /\ wakes' = IF ep.life \in {"attached", "lapsed"} THEN EndpointLoss(ep.g, TRUE) ELSE wakes
    /\ calls' = calls \cup {<<"attach", ep.g + 1>>}
    /\ UNCHANGED <<msgs, wait, done, bnd, hold, mail, sent, crashes, load>>

Detach ==
    /\ ep.life \in {"attached", "lapsed"}
    /\ ep' = [ep EXCEPT !.life = "detached", !.cap = FALSE]
    /\ wakes' = EndpointLoss(ep.g, TRUE)
    /\ calls' = calls \cup {<<"detach", ep.g>>}
    /\ UNCHANGED <<msgs, wait, done, bnd, hold, mail, sent, crashes, load>>

(* reconcile_attached_endpoint and endpoint_detached, under the lock.  The *)
(* handlers of two calls may get here in either order.                     *)
Reconcile(g) ==
    /\ hold = Free
    /\ \/ /\ <<"attach", g>> \in calls /\ calls' = calls \ {<<"attach", g>>}
          /\ bnd' = IF bnd.g = g THEN bnd ELSE NoBinding
       \/ /\ <<"detach", g>> \in calls /\ calls' = calls \ {<<"detach", g>>}
          /\ bnd' = IF bnd.g = g THEN NoBinding ELSE bnd
    /\ UNCHANGED <<storeVars, hold, mail, sent, crashes, load>>

EndpointLapses ==
    /\ ep.life = "attached" /\ ep' = [ep EXCEPT !.life = "lapsed"]
    /\ UNCHANGED <<wakes, msgs, wait, done, serverVars, mail, sent, crashes, load>>

(* recover_expired_mcp_app_endpoint: the Window of an expired endpoint is  *)
(* given the next one, under the lock.                                     *)
RecoverExpired ==
    /\ hold = Free /\ ep.life = "lapsed" /\ ep.g + crashes < MaxLosses
    /\ wakes' = EndpointLoss(ep.g, TRUE)
    /\ ep' = [g |-> ep.g + 1, life |-> "attached", cap |-> FALSE]
    /\ bnd' = NoBinding
    /\ UNCHANGED <<msgs, wait, done, calls, hold, mail, sent, crashes, load>>
-----------------------------------------------------------------------------
(***************************************************************************)
(* The binding.  A registration holds the lock over its two transactions:  *)
(* the carrier that it replaces loses the capability first.                *)
(***************************************************************************)
Withdrawn == IF ep.cap THEN EndpointLoss(ep.g, FALSE) ELSE wakes

Register ==
    /\ hold = Free /\ Live(ep.g) /\ bnd.g \in {0, ep.g}
    /\ wakes' = IF bnd.g = ep.g THEN Withdrawn ELSE wakes
    /\ bnd' = [NoBinding EXCEPT !.g = ep.g]
    /\ ep' = [ep EXCEPT !.cap = TRUE]
    /\ UNCHANGED <<msgs, wait, done, calls, hold, mail, sent, crashes, load>>

Unregister ==
    /\ hold = Free /\ bnd # NoBinding /\ Live(bnd.g)
    /\ wakes' = Withdrawn /\ ep' = [ep EXCEPT !.cap = FALSE]
    /\ bnd' = NoBinding
    /\ UNCHANGED <<msgs, wait, done, calls, hold, mail, sent, crashes, load>>

(* Mutant: the claim that is released stays in the row. *)
TakeoverClaimed(w) ==
    CASE w.st = "claimed" -> [w EXCEPT !.st = "pending", !.carrier = 0]
      [] w.st = "prepared" -> [w EXCEPT !.st = "delivery_unknown"]
      [] OTHER -> w

(* What a restart makes of a wake: recover_agent_wakes_for_server_takeover *)
Takeover(w) ==
    CASE w.st = "claimed" -> Released(w)
      [] w.st = "prepared" -> [w EXCEPT !.st = "delivery_unknown"]
      [] OTHER -> w

(* The Server restarts: its process state is gone, Views and turns stay. *)
ServerRestart ==
    /\ ep.g + crashes < MaxLosses /\ crashes' = crashes + 1
    /\ LET ws == IF ep.life = "lapsed" THEN EndpointLoss(ep.g, TRUE) ELSE wakes
       IN  wakes' = [i \in DOMAIN ws |-> Takeover(ws[i])]
    /\ ep' = [ep EXCEPT !.cap = FALSE]
    /\ bnd' = NoBinding /\ calls' = {} /\ hold' = Free
    /\ UNCHANGED <<msgs, wait, done, mail, sent, load>>
-----------------------------------------------------------------------------
(***************************************************************************)
(* Claim, prepare, verify, finish.                                         *)
(***************************************************************************)
(* Whether the task of a wake may still be dispatched to this endpoint. *)
TaskCurrent(w) == w.src = "active" /\ w.pin \in {0, ep.g}

(* A claim of generation ep.g first releases the lapsed claims and retires *)
(* the wakes of stale attempts, noticing their expiry.                     *)
Swept(w) ==
    LET v == IF w.st = "claimed" /\ w.late THEN Released(w) ELSE w
    IN  IF v.kind = "task" /\ v.st \in Queueable /\ ~TaskCurrent(v)
        THEN RetiredStale(v) ELSE v

ClaimedBy(w) ==
    [w EXCEPT !.st = "claimed", !.g = ep.g, !.tries = @ + 1,
              !.carrier = IF w.kind = "task" THEN ep.g ELSE 0]

(* claim_next_agent_wake: the oldest pending wake, unless one is          *)
(* dispatched; i is 0 when there is none.                                  *)
ClaimNext(i) ==
    LET ws == Map(Swept)
        pending == {j \in DOMAIN ws : ws[j].st = "pending"}
    IN  IF SomeDispatched(ws) \/ pending = {} THEN i = 0 /\ wakes' = ws
        ELSE /\ i \in pending /\ \A j \in pending : i <= j
             /\ ws[i].tries < MaxTries
             /\ ws[i].kind = "wait" => wait.st = "triggered"
             /\ wakes' = [ws EXCEPT ![i] = ClaimedBy(@)]

(* The claim can still be prepared, but for its task's attempt. *)
Preparable(i, a, g) ==
    /\ Live(g) /\ ep.cap /\ Exact(i, a, g)
    /\ wakes[i].st = "claimed" /\ ~wakes[i].late
    /\ wakes[i].kind = "wait" => wait.st = "triggered"

Stale(i, g) == wakes[i].kind = "task" /\ (wakes[i].src # "active" \/ wakes[i].carrier # g)

RetireStale(i) == wakes' = [wakes EXCEPT ![i] = RetiredStale(@)]

Prepare(i) == wakes' = [wakes EXCEPT ![i].st = "prepared", ![i].late = FALSE, ![i].told = wakes[i].high]

Verified(i, a, g) == Live(g) /\ ep.cap /\ Exact(i, a, g) /\ wakes[i].st = "prepared"

(* finish_agent_wake_delivery: what becomes of the wake. *)
Finished(w, accepted) ==
    IF w.st = "consumed" \/ (w.st = "delivered" /\ accepted) THEN w
    ELSE [w EXCEPT !.st = IF accepted THEN "delivered" ELSE "delivery_unknown"]

CanFinish(i, a, g, accepted) ==
    /\ Live(g) /\ Exact(i, a, g)
    /\ wakes[i].st \in {"prepared", "delivery_unknown", "consumed"} \/ (wakes[i].st = "delivered" /\ accepted)
-----------------------------------------------------------------------------
(***************************************************************************)
(* The App: a View acquires, prepares, sends and reports the outcome, each *)
(* in a call of its own under the lock.                                    *)
(***************************************************************************)
AppLive == hold = Free /\ bnd # NoBinding /\ Live(bnd.g)

(* The binding's claim is the answer until its wake is resolved. *)
Unresolved ==
    /\ bnd.i # 0 /\ wakes[bnd.i].st \notin {"consumed", "retired"}
    /\ ~(bnd.phase = "none" /\ wakes[bnd.i].late)

AppAcquire ==
    /\ AppLive /\ ep.cap /\ ~Unresolved
    /\ \E i \in 0..MaxWakes :
          /\ ClaimNext(i)
          /\ bnd' = [bnd EXCEPT !.i = i, !.a = IF i = 0 THEN 0 ELSE wakes'[i].tries, !.phase = "none"]
    /\ UNCHANGED <<ep, msgs, wait, done, calls, hold, mail, sent, crashes, load>>

AppPrepare ==
    /\ AppLive /\ bnd.i # 0 /\ bnd.phase = "none"
    /\ LET i == bnd.i
       IN  /\ Preparable(i, bnd.a, bnd.g)
           /\ \/ Stale(i, bnd.g) /\ RetireStale(i) /\ UNCHANGED hold
              \/ /\ ~Stale(i, bnd.g) /\ ~SomeDispatched(wakes) /\ Prepare(i)
                 /\ hold' = [i |-> i, a |-> bnd.a]
    /\ UNCHANGED <<ep, msgs, wait, done, bnd, calls, mail, sent, crashes, load>>

(* The second half of the call: the answer holds the message. *)
AppVerify ==
    /\ hold # Free /\ hold' = Free
    /\ IF Verified(hold.i, hold.a, bnd.g)
       THEN bnd' = [bnd EXCEPT !.phase = "prepared"] /\ mail' = mail \cup {<<hold.i, hold.a>>}
       ELSE UNCHANGED <<bnd, mail>>
    /\ UNCHANGED <<storeVars, calls, sent, crashes, load>>

(* The View gives the message to the Host. *)
ViewSends(i, a) ==
    /\ <<i, a>> \in mail /\ mail' = mail \ {<<i, a>>}
    /\ sent' = [sent EXCEPT ![i] = Append(@, a)]
    /\ UNCHANGED <<storeVars, serverVars, crashes, load>>

AppFinish(accepted) ==
    /\ AppLive /\ bnd.i # 0 /\ bnd.phase # "none"
    /\ accepted => bnd.a \in {sent[bnd.i][k] : k \in DOMAIN sent[bnd.i]}
    /\ CanFinish(bnd.i, bnd.a, bnd.g, accepted)
    /\ wakes' = [wakes EXCEPT ![bnd.i] = Finished(@, accepted)]
    /\ bnd' = [bnd EXCEPT !.phase = IF accepted THEN "accepted" ELSE "unknown"]
    /\ UNCHANGED <<ep, msgs, wait, done, calls, hold, mail, sent, crashes, load>>
-----------------------------------------------------------------------------
(***************************************************************************)
(* The turn.                                                               *)
(***************************************************************************)
(* accept_explicit_agent_wake_activation: the caller is the turn. *)
Accept(i) ==
    /\ Live(ep.g) /\ wakes[i].kind = "inbox" /\ wakes[i].st = "pending"
    /\ ~SomeDispatched(wakes) /\ wakes[i].tries < MaxTries
    /\ wakes' = [wakes EXCEPT ![i].st = "delivered", ![i].g = ep.g,
                              ![i].tries = @ + 1, ![i].told = wakes[i].high]
    /\ sent' = [sent EXCEPT ![i] = Append(@, wakes[i].tries + 1)]
    /\ UNCHANGED <<ep, msgs, wait, done, serverVars, mail, crashes, load>>

(* consume_agent_wake, with the token of the claim the turn was started    *)
(* for.  The lease of a task that is still current is extended.            *)
Consume(i) ==
    /\ \E k \in DOMAIN sent[i] : Exact(i, sent[i][k], ep.g)
    /\ Live(ep.g) /\ wakes[i].st \in Dispatched
    /\ IF wakes[i].kind = "wait"
       THEN wait.st = "triggered" /\ wait' = [wait EXCEPT !.st = "resumed"]
       ELSE UNCHANGED wait
    /\ wakes' = [wakes EXCEPT ![i].st = "consumed"]
    /\ UNCHANGED <<ep, msgs, done, serverVars, mail, sent, crashes, load>>
-----------------------------------------------------------------------------
App == AppAcquire \/ AppPrepare \/ AppVerify \/ \E ok \in BOOLEAN : AppFinish(ok)

Turn == \E i \in DOMAIN wakes :
    Accept(i) \/ Consume(i) \/ \E a \in 1..MaxTries : ViewSends(i, a)

Endpoint ==
    \/ Attach \/ Detach \/ EndpointLapses \/ RecoverExpired \/ Register \/ Unregister \/ ServerRestart
    \/ \E g \in 1..MaxLosses : Reconcile(g)

Events ==
    \/ Deliver \/ SubmitTask \/ WaitForEvents \/ CancelWait
    \/ \E s \in Sources : SourceEnds(s)
    \/ \E i \in DOMAIN wakes : AttemptLapses(i) \/ AttemptEnds(i) \/ ClaimLapses(i)

Next == App \/ Turn \/ Endpoint \/ Events

Spec == Init /\ [][Next]_vars
-----------------------------------------------------------------------------
(***************************************************************************)
(* Properties.                                                             *)
(***************************************************************************)
(* No wake starts two turns, whatever is replaced, lapses or restarts      *)
(* between the dispatch fence and the report of the outcome.               *)
SentAtMostOnce == \A i \in Ids : Len(sent[i]) <= 1

(* A wake that was retired, because its attempt ended or its wait was      *)
(* cancelled, starts no turn: neither before nor after, though a carrier   *)
(* may have claimed it.                                                    *)
RetiredIsNotSent ==
    \A i \in DOMAIN wakes : wakes[i].st = "retired" =>
        sent[i] = <<>> /\ \A a \in 1..MaxTries : <<i, a>> \notin mail

(* The endpoint that a task attempt is bound to is the one that claimed    *)
(* its wake, and a task whose wake is free is bound to none.               *)
CarrierMatchesClaim ==
    \A i \in DOMAIN wakes : wakes[i].carrier # 0 =>
        /\ wakes[i].st \notin {"pending", "retired"} /\ wakes[i].carrier = wakes[i].g
        /\ wakes[i].g = ep.g /\ ep.life \in {"attached", "lapsed"}

(* Every message is announced: a wake that covers it is still to be        *)
(* prepared, or was prepared with it.                                      *)
DeliveryIsAnnounced ==
    \A d \in 1..msgs : \E i \in DOMAIN wakes :
        /\ wakes[i].kind = "inbox"
        /\ (wakes[i].st \in Queueable /\ wakes[i].high >= d) \/ wakes[i].told >= d

(* A wait does not miss its condition, however its registration and the    *)
(* ends of its sources interleave, and it stands as its wake does.         *)
WaitNotMissed ==
    /\ wait.st = "waiting" => ~Met(wait.mode, done)
    /\ wait.st = "triggered" => \E i \in DOMAIN wakes :
          WaitWake(i) /\ wakes[i].st \notin {"consumed", "retired"}
    /\ \A i \in DOMAIN wakes : WaitWake(i) =>
          /\ wakes[i].st = "consumed" <=> wait.st = "resumed"
          /\ wakes[i].st = "retired" <=> wait.st = "cancelled"

(* What the architecture document says of a wake with an unknown outcome:  *)
(* it can be consumed, which takes the endpoint it was claimed by.         *)
UnknownStaysConsumable ==
    \A i \in DOMAIN wakes : wakes[i].st = "delivery_unknown" => wakes[i].g = ep.g
-----------------------------------------------------------------------------
(***************************************************************************)
(* The inductive invariant.                                                *)
(***************************************************************************)
Past == Dispatched \cup {"consumed"}

Mailed(i) == \E a \in 1..MaxTries : <<i, a>> \in mail

EndpointInv ==
    /\ ep.life = "none" <=> ep.g = 0
    /\ ep.cap => ep.g # 0
    /\ bnd.i # 0 => bnd.i \in DOMAIN wakes
    /\ hold.i = 0 => hold = Free

(* Only the wake of a task has a source that ends, so that no message's    *)
(* wake is ever retired; and no wake tells of more than was delivered.     *)
WakeInv(w) ==
    /\ w.st \in Past \cup {"claimed"} => w.tries > 0
    /\ w.kind = "task" <=> w.src # "none"
    /\ w.kind = "inbox" => w.st # "retired"
    /\ w.told <= w.high /\ w.high <= msgs

(* The turn of a wake that is past its prepare is with the handler, in the *)
(* mail, or started: one of the three, and only once.                      *)
TurnInv(i) ==
    /\ sent[i] # <<>> \/ Mailed(i) \/ hold.i = i => i \in DOMAIN wakes /\ wakes[i].st \in Past
    /\ sent[i] # <<>> => Len(sent[i]) = 1 /\ ~Mailed(i) /\ hold.i # i
    /\ Mailed(i) => hold.i # i /\ \A a, b \in 1..MaxTries : <<i, a>> \in mail /\ <<i, b>> \in mail => a = b

(* A wait has seen every end of its sources, and has one wake, from the    *)
(* moment that it triggers.                                                *)
WaitInv ==
    /\ wait.st \in {"waiting", "triggered"} =>
          wait.got = done /\ (wait.st = "triggered" <=> Met(wait.mode, done))
    /\ wait.st \in {"none", "waiting"} => ~\E i \in DOMAIN wakes : WaitWake(i)
    /\ \A i, j \in DOMAIN wakes : WaitWake(i) /\ WaitWake(j) => i = j

WakesInv ==
    /\ TypeOK /\ EndpointInv
    /\ \A i \in DOMAIN wakes : WakeInv(wakes[i])
    /\ \A i \in Ids : TurnInv(i)
    /\ WaitInv /\ CarrierMatchesClaim /\ DeliveryIsAnnounced /\ WaitNotMissed
=============================================================================
