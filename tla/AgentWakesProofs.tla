--------------------------- MODULE AgentWakesProofs ---------------------------
EXTENDS AgentWakes, SequenceTheorems, TLAPS
(***************************************************************************)
(* Proofs about the wakes of one Agent, for any sources, and any number of *)
(* wakes, messages, claims, tasks, endpoints and restarts.  Nothing is     *)
(* supposed besides WakeAssumption.                                        *)
(*                                                                         *)
(* The argument: WakesInv (AgentWakes) says of each wake where its turn is *)
(* (with the handler that holds the prepare, in the mail, or started), of  *)
(* its claim whose it is, of its message what has been told, and of the    *)
(* wait that its matches are the sources that ended.  A step on the table  *)
(* lets every wake go on in one of a few ways (Moved): TableStep and       *)
(* WakeStep are the frames of the steps that move claims, TurnStep of      *)
(* those that move a turn, EventStep of those that make or wake for events.*)
(***************************************************************************)

(***************************************************************************)
(* The table of wakes.                                                     *)
(***************************************************************************)
(* The table is a sequence of wakes, numbered by Ids. *)
LEMMA Rows ==
    ASSUME TypeOK
    PROVE  /\ Len(wakes) \in 0 .. MaxWakes /\ DOMAIN wakes = 1 .. Len(wakes) /\ DOMAIN wakes \subseteq Ids
           /\ \A i \in DOMAIN wakes : wakes[i] \in Wake
    BY WakeAssumption DEF TypeOK, Ids

(* A table with the same numbers is one of the same length. *)
LEMMA Mapped ==
    ASSUME TypeOK, NEW ws, ws = [i \in DOMAIN wakes |-> ws[i]], \A i \in DOMAIN wakes : ws[i] \in Wake
    PROVE  ws \in Seq(Wake) /\ Len(ws) = Len(wakes) /\ DOMAIN ws = DOMAIN wakes
<1>1. Len(wakes) \in Nat /\ DOMAIN wakes = 1 .. Len(wakes)
    BY Rows DEF TypeOK
<1>2. ws \in [1 .. Len(wakes) -> Wake]
    BY <1>1
<1> QED BY <1>1, <1>2

(* The fields of a wake are typed, and its claim's endpoint is Natural. *)
LEMMA WakeParts ==
    ASSUME NEW w \in Wake
    PROVE  /\ w.kind \in {"inbox", "task", "wait"} /\ w.st \in WakeState /\ w.g \in 0 .. MaxLosses
           /\ w.tries \in 0 .. MaxTries /\ w.late \in BOOLEAN
           /\ w.src \in {"none", "active", "lapsed", "ended"} /\ w.pin \in 0 .. MaxLosses
           /\ w.carrier \in 0 .. MaxLosses /\ w.high \in 0 .. MaxMsgs /\ w.told \in 0 .. MaxMsgs
           /\ w.tries \in Nat /\ w.high \in Nat /\ w.told \in Nat /\ w.g \in Nat
    BY WakeAssumption DEF Wake

(* CarrierMatchesClaim, of one wake. *)
Carried(w) ==
    w.carrier # 0 =>
        /\ w.st \notin {"pending", "retired"} /\ w.carrier = w.g
        /\ w.g = ep.g /\ ep.life \in {"attached", "lapsed"}

(* The CHECK of the table. *)
Claimed(w) == w.st \in {"pending", "retired"} <=> w.g = 0

(* What the invariant says of each wake. *)
LEMMA Row ==
    ASSUME WakesInv, NEW i \in DOMAIN wakes
    PROVE  /\ wakes[i] \in Wake /\ Claimed(wakes[i]) /\ WakeInv(wakes[i]) /\ Carried(wakes[i])
           /\ i \in Ids /\ TurnInv(i)
    BY Rows DEF WakesInv, TypeOK, Claimed, Carried, CarrierMatchesClaim

(* How a wake goes on in the steps that leave messages and the wait alone: *)
(* nothing that is past its prepare comes back, and only tasks retire.     *)
Moved(w, v) ==
    /\ v \in Wake /\ Claimed(v)
    /\ v.kind = w.kind /\ (v.src = "none" <=> w.src = "none")
    /\ v.st \in Past \cup {"claimed"} => v.tries > 0
    /\ v.high = w.high /\ (v.told = w.told \/ v.told = w.high)
    /\ w.st \in Past => v.st \in Past
    /\ w.st \notin Past /\ v.st \in Past => v.told = w.high
    /\ v.st = "consumed" <=> w.st = "consumed"
    /\ v.st = "retired" /\ w.st # "retired" => v.kind = "task"
    /\ w.st = "retired" => v.st = "retired"

(* The parts of the state besides the table. *)
EpOk ==
    /\ ep \in [g : 0..MaxLosses, life : {"none", "attached", "lapsed", "detached"}, cap : BOOLEAN]
    /\ ep.life = "none" <=> ep.g = 0
    /\ ep.cap => ep.g # 0

BndOk ==
    /\ bnd \in [g : 0..MaxLosses, i : 0..MaxWakes, a : 0..MaxTries,
                phase : {"none", "prepared", "accepted", "unknown"}]
    /\ bnd.i # 0 => bnd.i \in DOMAIN wakes

CallsOk == calls \subseteq ({"attach", "detach"} \X (1..MaxLosses)) /\ crashes \in 0..MaxLosses

Around == EpOk /\ BndOk /\ CallsOk

(* What the invariant says of the state besides the table. *)
LEMMA AroundNow ==
    ASSUME WakesInv
    PROVE  /\ Around /\ EpOk /\ BndOk /\ CallsOk
           /\ ep.g \in 0 .. MaxLosses /\ ep.g \in Nat /\ crashes \in Nat /\ bnd.g \in 0 .. MaxLosses
           /\ (ep.life = "none" <=> ep.g = 0) /\ MaxLosses \in Nat
<1>1. EpOk /\ BndOk /\ CallsOk
    BY DEF WakesInv, TypeOK, EndpointInv, EpOk, BndOk, CallsOk
<1> QED BY <1>1, WakeAssumption DEF Around, EpOk, BndOk, CallsOk

(* The binding is kept, or given up. *)
LEMMA BindingKept ==
    ASSUME WakesInv, DOMAIN wakes' = DOMAIN wakes, bnd' = bnd \/ bnd' = NoBinding
    PROVE  BndOk'
<1>1. CASE bnd' = bnd
    BY <1>1, AroundNow DEF BndOk
<1>2. CASE bnd' = NoBinding
    BY <1>2, WakeAssumption DEF BndOk, NoBinding
<1> QED BY <1>1, <1>2

(* A message stays announced. *)
LEMMA StillAnnounced ==
    ASSUME WakesInv, UNCHANGED msgs, DOMAIN wakes \subseteq DOMAIN wakes',
           \A i \in DOMAIN wakes : wakes[i].kind = "inbox" =>
              /\ wakes'[i].kind = "inbox" /\ wakes'[i].high = wakes[i].high
              /\ wakes'[i].told = wakes[i].told \/ wakes'[i].told = wakes[i].high
              /\ wakes[i].st \in Queueable => wakes'[i].st \in Queueable \/ wakes'[i].told = wakes[i].high
    PROVE  DeliveryIsAnnounced'
<1> SUFFICES ASSUME NEW d \in 1 .. msgs
             PROVE  \E i \in DOMAIN wakes' : /\ wakes'[i].kind = "inbox"
                                             /\ \/ wakes'[i].st \in Queueable /\ wakes'[i].high >= d
                                                \/ wakes'[i].told >= d
    BY DEF DeliveryIsAnnounced
<1>1. PICK i \in DOMAIN wakes : /\ wakes[i].kind = "inbox"
                                /\ (wakes[i].st \in Queueable /\ wakes[i].high >= d) \/ wakes[i].told >= d
    BY DEF WakesInv, DeliveryIsAnnounced
<1>2. wakes[i].told \in Nat /\ wakes[i].high \in Nat /\ wakes[i].told <= wakes[i].high /\ d \in Nat
    BY Row, WakeParts, WakeAssumption DEF WakeInv, WakesInv, TypeOK
<1> QED BY <1>1, <1>2

(* A turn stays the only one. *)
LEMMA StillOneTurn ==
    ASSUME WakesInv, UNCHANGED <<mail, sent>>, hold' \in {hold, Free}, DOMAIN wakes \subseteq DOMAIN wakes',
           \A i \in DOMAIN wakes : wakes[i].st \in Past => wakes'[i].st \in Past
    PROVE  \A i \in Ids : TurnInv(i)'
<1> SUFFICES ASSUME NEW i \in Ids PROVE TurnInv(i)'
    OBVIOUS
<1>1. TurnInv(i) /\ Mailed(i)' = Mailed(i) /\ (hold'.i = i => hold.i = i)
    BY DEF WakesInv, Mailed, Free, Ids
<1> QED BY <1>1 DEF TurnInv

(* The wake of a wait stands as it did. *)
Stands(w, v) ==
    /\ v.kind = w.kind
    /\ w.kind = "wait" => /\ v.st = "consumed" <=> w.st = "consumed"
                          /\ v.st = "retired" <=> w.st = "retired"

(* The wait stands as it did. *)
LEMMA StillWaiting ==
    ASSUME WakesInv, UNCHANGED <<wait, done>>, DOMAIN wakes \subseteq DOMAIN wakes',
           \A i \in DOMAIN wakes : Stands(wakes[i], wakes'[i]),
           \A i \in (DOMAIN wakes') \ DOMAIN wakes : wakes'[i].kind # "wait"
    PROVE  WaitInv' /\ WaitNotMissed'
<1>1. \A i : WaitWake(i)' <=> WaitWake(i)
    BY DEF WaitWake, Stands
<1>2. WaitInv /\ WaitNotMissed
    BY DEF WakesInv
<1>3. WaitInv'
    BY <1>1, <1>2 DEF WaitInv, Met, WaitWake, Stands
<1>4. WaitNotMissed'
    BY <1>1, <1>2 DEF WaitNotMissed, Met, WaitWake, Stands
<1> QED BY <1>3, <1>4

(* A wake that moves on tells of what was delivered. *)
LEMMA MovedTells ==
    ASSUME NEW w \in Wake, NEW v, Moved(w, v), WakeInv(w)
    PROVE  WakeInv(v)
<1>1. w.told \in Nat /\ w.high \in Nat
    BY WakeParts
<1> QED BY <1>1 DEF Moved, WakeInv

(* Where the turns are. *)
Turns ==
    /\ hold \in [i : 0..MaxWakes, a : 0..MaxTries] /\ (hold.i = 0 => hold = Free)
    /\ mail \subseteq (Ids \X (1..MaxTries)) /\ sent \in [Ids -> Seq(1..MaxTries)]
    /\ \A i \in Ids : TurnInv(i)

(* The steps that leave messages and the wait alone. *)
LEMMA TurnStep ==
    ASSUME WakesInv, Around', Turns', wakes' = [i \in DOMAIN wakes |-> wakes'[i]],
           \A i \in DOMAIN wakes : Moved(wakes[i], wakes'[i]) /\ Carried(wakes[i])',
           UNCHANGED <<msgs, wait, done, load>>
    PROVE  WakesInv'
<1>1. /\ wakes' \in Seq(Wake) /\ Len(wakes') = Len(wakes) /\ DOMAIN wakes' = DOMAIN wakes
    <2>1. \A i \in DOMAIN wakes : wakes'[i] \in Wake
        BY DEF Moved
    <2> QED BY <2>1, Mapped DEF WakesInv
<1>2. TypeOK'
    BY <1>1 DEF WakesInv, TypeOK, Around, EpOk, BndOk, CallsOk, Turns, Moved, Claimed
<1>3. EndpointInv'
    BY DEF Around, EpOk, BndOk, EndpointInv, Turns
<1>4. ASSUME NEW i \in DOMAIN wakes' PROVE WakeInv(wakes[i])'
    <2>1. i \in DOMAIN wakes /\ Moved(wakes[i], wakes'[i]) /\ WakeInv(wakes[i]) /\ wakes[i] \in Wake
        BY <1>1, <1>4, Row
    <2>2. WakeInv(wakes'[i])
        BY <2>1, MovedTells
    <2> QED BY <2>2 DEF WakeInv
<1>5. \A i \in Ids : TurnInv(i)'
    BY DEF Turns
<1>6. WaitInv' /\ WaitNotMissed'
    <2>1. \A i \in DOMAIN wakes : Stands(wakes[i], wakes'[i])
        BY DEF Moved, Stands
    <2>2. (DOMAIN wakes') \ DOMAIN wakes = {}
        BY <1>1
    <2> QED BY <1>1, <2>1, <2>2, StillWaiting
<1>7. DeliveryIsAnnounced'
    <2>1. ASSUME NEW i \in DOMAIN wakes, wakes[i].kind = "inbox"
          PROVE  /\ wakes'[i].kind = "inbox" /\ wakes'[i].high = wakes[i].high
                 /\ wakes'[i].told = wakes[i].told \/ wakes'[i].told = wakes[i].high
                 /\ wakes[i].st \in Queueable => wakes'[i].st \in Queueable \/ wakes'[i].told = wakes[i].high
        <3>1. Moved(wakes[i], wakes'[i]) /\ wakes'[i].st \in WakeState
            BY <2>1, WakeParts DEF Moved
        <3> QED BY <2>1, <3>1 DEF Moved, WakeState, Past, Queueable, Dispatched
    <2> QED BY <1>1, <2>1, StillAnnounced
<1>8. CarrierMatchesClaim'
    BY <1>1 DEF Carried, CarrierMatchesClaim
<1> QED BY <1>2, <1>3, <1>4, <1>5, <1>6, <1>7, <1>8 DEF WakesInv

(* The steps that leave messages, the wait and the turns alone. *)
LEMMA TableStep ==
    ASSUME WakesInv, Around', wakes' = [i \in DOMAIN wakes |-> wakes'[i]],
           \A i \in DOMAIN wakes : Moved(wakes[i], wakes'[i]) /\ Carried(wakes[i])',
           UNCHANGED <<msgs, wait, done, mail, sent, load>>, hold' \in {hold, Free}
    PROVE  WakesInv'
<1>1. DOMAIN wakes' = DOMAIN wakes
    OBVIOUS
<1>2. \A i \in Ids : TurnInv(i)'
    BY <1>1, StillOneTurn DEF Moved
<1>3. hold' \in [i : 0..MaxWakes, a : 0..MaxTries] /\ (hold'.i = 0 => hold' = Free)
    BY WakeAssumption DEF WakesInv, TypeOK, EndpointInv, Free
<1>4. Turns'
    BY <1>2, <1>3 DEF Turns, WakesInv, TypeOK
<1> QED BY <1>4, TurnStep

(***************************************************************************)
(* What the steps make of one wake.                                        *)
(***************************************************************************)
Good(w) == w \in Wake /\ Claimed(w) /\ WakeInv(w) /\ Carried(w)

(* Every wake of the table is good. *)
LEMMA GoodRow ==
    ASSUME WakesInv, NEW i \in DOMAIN wakes
    PROVE  Good(wakes[i])
    BY Row DEF Good

(* A wake that stays as it is goes on well. *)
LEMMA SameMoves ==
    ASSUME NEW w, Good(w)
    PROVE  Moved(w, w)
    BY DEF Good, Moved, WakeInv

(* The fields of a wake put back to pending. *)
LEMMA ReleasedParts ==
    ASSUME NEW w \in Wake
    PROVE  /\ Released(w) \in Wake /\ Released(w).st = "pending" /\ Released(w).g = 0
           /\ Released(w).carrier = 0 /\ Released(w).kind = w.kind /\ Released(w).src = w.src
           /\ Released(w).tries = w.tries /\ Released(w).high = w.high /\ Released(w).told = w.told
           /\ Released(w).pin = w.pin
<1>1. 0 \in 0 .. MaxLosses /\ "pending" \in WakeState
    BY WakeAssumption DEF WakeState, Queueable
<1> QED BY <1>1 DEF Released, Wake

(* A claim that is not dispatched yet is released: the wake goes on well. *)
LEMMA ReleasedMoves ==
    ASSUME NEW w, Good(w), w.st = "claimed"
    PROVE  Moved(w, Released(w))
<1> DEFINE v == Released(w)
<1>1. /\ v \in Wake /\ v.st = "pending" /\ v.g = 0 /\ v.kind = w.kind /\ v.src = w.src
      /\ v.tries = w.tries /\ v.high = w.high /\ v.told = w.told
    BY ReleasedParts DEF Good
<1> HIDE DEF v
<1>2. Moved(w, v)
    BY <1>1 DEF Good, Moved, Claimed, Past, Dispatched
<1> QED BY <1>2 DEF v

(* A wake retired, with what becomes of its task's attempt. *)
RetiredAs(w, x) == [Retired(w) EXCEPT !.src = x]

(* The wake of a task that is not dispatched retires. *)
LEMMA RetiredMoves ==
    ASSUME NEW w, Good(w), w.st \in Queueable, w.kind = "task", NEW x \in {"active", "lapsed", "ended"},
           NEW v, v = RetiredAs(w, x)
    PROVE  Moved(w, v) /\ v.carrier = 0 /\ v.st = "retired" /\ v.src = x
<1>1. /\ v \in Wake /\ v.st = "retired" /\ v.g = 0 /\ v.kind = w.kind /\ v.src = x /\ v.carrier = 0
      /\ v.tries = w.tries /\ v.high = w.high /\ v.told = w.told
    <2>1. /\ Released(w) \in Wake /\ Released(w).g = 0 /\ Released(w).carrier = 0
          /\ Released(w).kind = w.kind /\ Released(w).tries = w.tries
          /\ Released(w).high = w.high /\ Released(w).told = w.told
        BY ReleasedParts DEF Good
    <2> DEFINE r == Released(w)
    <2> HIDE DEF r
    <2>2. v = [[r EXCEPT !.st = "retired"] EXCEPT !.src = x] /\ "retired" \in WakeState
        BY DEF r, Retired, RetiredAs, WakeState
    <2> QED BY <2>1, <2>2 DEF r, Wake
<1>2. w.src # "none" /\ x # "none"
    BY DEF Good, WakeInv
<1> QED BY <1>1, <1>2 DEF Moved, Claimed, Queueable, Past, Dispatched

Loss(w, g, f) ==
    IF w.g # g THEN w
    ELSE IF w.st = "claimed" THEN Released(w)
    ELSE [w EXCEPT !.st = IF @ \in {"prepared", "delivered"} THEN "delivery_unknown" ELSE @,
                   !.carrier = IF f THEN 0 ELSE @]

(* The loss of an endpoint treats each wake by itself. *)
LEMMA LossOfAll ==
    ASSUME NEW g, NEW f
    PROVE  EndpointLoss(g, f) = [i \in DOMAIN wakes |-> Loss(wakes[i], g, f)]
    BY DEF EndpointLoss, Map, Loss

(* What the loss of an endpoint does to a wake: it goes on well, and a     *)
(* carrier of the lost endpoint is cleared.                                *)
LEMMA LossMoves ==
    ASSUME NEW w, Good(w), NEW g \in Nat, NEW f \in BOOLEAN, NEW v, v = Loss(w, g, f)
    PROVE  /\ Moved(w, v)
           /\ v.carrier # 0 => v.carrier = w.carrier /\ v.st \notin {"pending", "retired"} /\ v.g = w.g
           /\ f /\ w.g = g => v.carrier = 0
           /\ v.st = w.st \/ v.g = g \/ v.st = "pending"
<1>1. CASE w.g # g
    BY <1>1, SameMoves DEF Loss, Good, Carried
<1>2. CASE w.g = g /\ w.st = "claimed"
    BY <1>2, ReleasedMoves, ReleasedParts DEF Loss, Good
<1>3. CASE w.g = g /\ w.st # "claimed"
    <2> DEFINE x == IF w.st \in {"prepared", "delivered"} THEN "delivery_unknown" ELSE w.st
               c == IF f THEN 0 ELSE w.carrier
    <2>1. x \in WakeState /\ c \in 0 .. MaxLosses
        BY WakeAssumption DEF Good, Wake, WakeState, Dispatched
    <2>2. v = [w EXCEPT !.st = x, !.carrier = c]
        BY <1>3 DEF Loss
    <2> HIDE DEF x, c
    <2>3. /\ v \in Wake /\ v.st = x /\ v.carrier = c /\ v.g = w.g /\ v.kind = w.kind /\ v.src = w.src
          /\ v.tries = w.tries /\ v.high = w.high /\ v.told = w.told
        BY <2>1, <2>2 DEF Good, Wake
    <2>4. Moved(w, v)
        BY <2>1, <2>3 DEF x, Moved, Good, Claimed, WakeInv, Past, Dispatched
    <2> QED BY <1>3, <2>3, <2>4 DEF c, x, Good, Carried
<1> QED BY <1>1, <1>2, <1>3

(* Going on twice is going on. *)
LEMMA MovedTwice ==
    ASSUME NEW w, NEW u, NEW v, Moved(w, u), Moved(u, v)
    PROVE  Moved(w, v)
    BY DEF Moved

(* A good wake that goes on well with its carrier in order is good. *)
LEMMA MovedGood ==
    ASSUME NEW w, NEW v, Good(w), Moved(w, v), Carried(v)
    PROVE  Good(v)
    BY MovedTells DEF Good, Moved

(* What a restart of the Server makes of a wake. *)
LEMMA TakeoverMoves ==
    ASSUME NEW w, Good(w), NEW v, v = Takeover(w)
    PROVE  Moved(w, v) /\ (v.carrier # 0 => v.carrier = w.carrier /\ v.st \notin {"pending", "retired"} /\ v.g = w.g)
<1>1. CASE w.st = "claimed"
    BY <1>1, ReleasedMoves, ReleasedParts DEF Takeover, Good
<1>2. CASE w.st = "prepared"
    <2>1. v = [w EXCEPT !.st = "delivery_unknown"]
        BY <1>2 DEF Takeover
    <2>2. /\ v \in Wake /\ v.st = "delivery_unknown" /\ v.carrier = w.carrier /\ v.g = w.g /\ v.kind = w.kind
          /\ v.src = w.src /\ v.tries = w.tries /\ v.high = w.high /\ v.told = w.told
        BY <2>1 DEF Good, Wake, WakeState, Dispatched
    <2> QED BY <1>2, <2>2 DEF Moved, Good, Claimed, WakeInv, Past, Dispatched, Carried
<1>3. CASE w.st \notin {"claimed", "prepared"}
    BY <1>3, SameMoves DEF Takeover, Good, Carried
<1> QED BY <1>1, <1>2, <1>3

(* The sweep of an acquire: released claims of stale attempts, retired     *)
(* wakes of ended ones; a wake it leaves queued is current.                *)
LEMMA SweptMoves ==
    ASSUME NEW w, Good(w), NEW v, v = Swept(w)
    PROVE  /\ Moved(w, v)
           /\ v.carrier # 0 => v = w
           /\ v.kind = "task" /\ v.st \in Queueable => TaskCurrent(v)
<1> DEFINE u == IF w.st = "claimed" /\ w.late THEN Released(w) ELSE w
<1>1. /\ Good(u) /\ Moved(w, u) /\ (u.carrier # 0 => u = w)
    <2>1. CASE w.st = "claimed" /\ w.late
        <3>1. Moved(w, u) /\ u.carrier = 0
            BY <2>1, ReleasedMoves, ReleasedParts DEF Good
        <3> QED BY <3>1, MovedGood DEF Carried
    <2>2. CASE ~(w.st = "claimed" /\ w.late)
        BY <2>2, SameMoves
    <2> QED BY <2>1, <2>2
<1>2. v = IF u.kind = "task" /\ u.st \in Queueable /\ ~TaskCurrent(u)
          THEN RetiredStale(u) ELSE u
    BY DEF Swept
<1> HIDE DEF u
<1>3. CASE u.kind = "task" /\ u.st \in Queueable /\ ~TaskCurrent(u)
    <2> DEFINE x == IF u.src = "lapsed" THEN "ended" ELSE u.src
    <2>1. x \in {"active", "lapsed", "ended"} /\ u \in Wake
        BY <1>1, <1>3, WakeParts DEF Good, WakeInv
    <2>2. v = RetiredAs(u, x)
        <3>1. Retired(u).src = u.src
            BY <2>1 DEF Retired, Released, Wake
        <3>2. v = [Retired(u) EXCEPT !.src = IF Retired(u).src = "lapsed" THEN "ended" ELSE Retired(u).src]
            BY <1>2, <1>3 DEF RetiredStale
        <3> QED BY <3>1, <3>2 DEF RetiredAs
    <2> HIDE DEF x
    <2>3. Moved(u, v) /\ v.carrier = 0 /\ v.st = "retired"
        BY <1>1, <1>3, <2>1, <2>2, RetiredMoves
    <2> QED BY <1>1, <2>3, MovedTwice DEF Queueable
<1>4. CASE ~(u.kind = "task" /\ u.st \in Queueable /\ ~TaskCurrent(u))
    BY <1>1, <1>2, <1>4
<1> QED BY <1>3, <1>4

(***************************************************************************)
(* The endpoint.                                                           *)
(***************************************************************************)
(* A table that is left alone, and one in which one wake moves. *)
(* A step that leaves the table alone lets every wake go on well. *)
LEMMA SameTable ==
    ASSUME WakesInv, UNCHANGED wakes
    PROVE  /\ wakes' = [i \in DOMAIN wakes |-> wakes'[i]] /\ DOMAIN wakes' = DOMAIN wakes
           /\ \A i \in DOMAIN wakes : Moved(wakes[i], wakes'[i])
<1>1. wakes = [i \in DOMAIN wakes |-> wakes[i]]
    BY DEF WakesInv, TypeOK
<1>2. \A i \in DOMAIN wakes : Moved(wakes[i], wakes[i])
    BY GoodRow, SameMoves
<1> QED BY <1>1, <1>2

(* A step that replaces one wake lets the others go on as they are. *)
LEMMA OneWake ==
    ASSUME WakesInv, NEW i \in DOMAIN wakes, NEW v, wakes' = [wakes EXCEPT ![i] = v], Moved(wakes[i], v)
    PROVE  /\ wakes' = [j \in DOMAIN wakes |-> wakes'[j]] /\ DOMAIN wakes' = DOMAIN wakes
           /\ \A j \in DOMAIN wakes : Moved(wakes[j], wakes'[j])
           /\ wakes'[i] = v /\ \A j \in DOMAIN wakes : j # i => wakes'[j] = wakes[j]
<1>1. wakes = [j \in DOMAIN wakes |-> wakes[j]]
    BY DEF WakesInv, TypeOK
<1>2. /\ wakes' = [j \in DOMAIN wakes |-> wakes'[j]] /\ DOMAIN wakes' = DOMAIN wakes
      /\ wakes'[i] = v /\ \A j \in DOMAIN wakes : j # i => wakes'[j] = wakes[j]
    BY <1>1
<1>3. \A j \in DOMAIN wakes : Moved(wakes[j], wakes[j])
    BY GoodRow, SameMoves
<1> QED BY <1>2, <1>3

(* What generation g holds is lost. *)
(* The loss of the current endpoint, for the whole table; with force no    *)
(* carrier remains.                                                        *)
LEMMA LossOfTable ==
    ASSUME WakesInv, NEW f \in BOOLEAN, NEW ws, ws = EndpointLoss(ep.g, f)
    PROVE  /\ ws = [i \in DOMAIN wakes |-> ws[i]] /\ DOMAIN ws = DOMAIN wakes
           /\ \A i \in DOMAIN wakes :
                /\ Moved(wakes[i], ws[i])
                /\ f => ws[i].carrier = 0
                /\ ws[i].carrier # 0 => ws[i].carrier = wakes[i].carrier /\ ws[i].st \notin {"pending", "retired"}
                                        /\ ws[i].g = wakes[i].g
<1>1. ws = [i \in DOMAIN wakes |-> Loss(wakes[i], ep.g, f)]
    BY LossOfAll
<1>2. ASSUME NEW i \in DOMAIN wakes
      PROVE  /\ Moved(wakes[i], ws[i])
             /\ f => ws[i].carrier = 0
             /\ ws[i].carrier # 0 => ws[i].carrier = wakes[i].carrier /\ ws[i].st \notin {"pending", "retired"}
                                     /\ ws[i].g = wakes[i].g
    <2>1. Good(wakes[i]) /\ ws[i] = Loss(wakes[i], ep.g, f) /\ ep.g \in Nat
        BY <1>1, GoodRow, AroundNow
    <2>2. /\ Moved(wakes[i], ws[i])
          /\ ws[i].carrier # 0 => ws[i].carrier = wakes[i].carrier /\ ws[i].st \notin {"pending", "retired"}
                                  /\ ws[i].g = wakes[i].g
          /\ f /\ wakes[i].g = ep.g => ws[i].carrier = 0
        BY <2>1, LossMoves
    <2> QED BY <2>1, <2>2 DEF Good, Carried
<1> QED BY <1>1, <1>2

(* The next endpoint is attached; the claims of the old one are lost. *)
LEMMA AttachStep ==
    ASSUME WakesInv, Attach
    PROVE  WakesInv'
<1>1. /\ wakes' = [i \in DOMAIN wakes |-> wakes'[i]] /\ DOMAIN wakes' = DOMAIN wakes
      /\ \A i \in DOMAIN wakes : Moved(wakes[i], wakes'[i]) /\ wakes'[i].carrier = 0
    <2>1. CASE ep.life \in {"attached", "lapsed"}
        BY <2>1, LossOfTable DEF Attach
    <2>2. CASE ep.life \notin {"attached", "lapsed"}
        BY <2>2, SameTable, GoodRow DEF Attach, Good, Carried
    <2> QED BY <2>1, <2>2
<1>2. ep.g + 1 \in 1 .. MaxLosses /\ ep.g \in Nat
    BY AroundNow DEF Attach
<1>3. Around'
    <2>1. EpOk' /\ CallsOk'
        BY <1>2, AroundNow DEF Attach, EpOk, CallsOk
    <2>2. BndOk'
        BY <1>1, BindingKept DEF Attach
    <2> QED BY <2>1, <2>2 DEF Around
<1>4. \A i \in DOMAIN wakes : Carried(wakes[i])'
    BY <1>1 DEF Carried
<1> QED BY <1>1, <1>3, <1>4, TableStep DEF Attach

(* The endpoint is detached, and its claims are lost. *)
LEMMA DetachStep ==
    ASSUME WakesInv, Detach
    PROVE  WakesInv'
<1>1. /\ wakes' = [i \in DOMAIN wakes |-> wakes'[i]] /\ DOMAIN wakes' = DOMAIN wakes
      /\ \A i \in DOMAIN wakes : Moved(wakes[i], wakes'[i]) /\ wakes'[i].carrier = 0
    BY LossOfTable DEF Detach
<1>2. Around'
    <2>1. ep.g \in 1 .. MaxLosses
        BY AroundNow DEF Detach
    <2>2. EpOk'
        BY <2>1, AroundNow DEF Detach, EpOk
    <2>4. CallsOk'
        BY <2>1, AroundNow DEF Detach, CallsOk
    <2>3. BndOk'
        BY <1>1, BindingKept DEF Detach
    <2> QED BY <2>2, <2>3, <2>4 DEF Around
<1>3. \A i \in DOMAIN wakes : Carried(wakes[i])'
    BY <1>1 DEF Carried
<1> QED BY <1>1, <1>2, <1>3, TableStep DEF Detach

(* The handler of an attach or detach reaches the controller's binding. *)
LEMMA ReconcileStep ==
    ASSUME WakesInv, NEW g \in 1 .. MaxLosses, Reconcile(g)
    PROVE  WakesInv'
<1>1. UNCHANGED <<wakes, ep, msgs, wait, done, hold, mail, sent, crashes, load>>
    BY DEF Reconcile, storeVars
<1>2. (bnd' = bnd \/ bnd' = NoBinding) /\ calls' \subseteq calls
    BY DEF Reconcile
<1>3. Around'
    BY <1>1, <1>2, AroundNow, BindingKept DEF Around, EpOk, CallsOk
<1>4. \A i \in DOMAIN wakes : Carried(wakes[i])'
    BY <1>1, GoodRow DEF Good, Carried
<1> QED BY <1>1, <1>3, <1>4, SameTable, TableStep

(* The lease of the endpoint lapses. *)
LEMMA EndpointLapsesStep ==
    ASSUME WakesInv, EndpointLapses
    PROVE  WakesInv'
<1>1. UNCHANGED <<wakes, msgs, wait, done, bnd, calls, hold, mail, sent, crashes, load>>
    BY DEF EndpointLapses, serverVars
<1>2. ep.life = "attached" /\ ep'.life = "lapsed" /\ ep'.g = ep.g
    BY AroundNow DEF EndpointLapses, EpOk
<1>3. Around'
    BY <1>1, <1>2, AroundNow, BindingKept DEF Around, EndpointLapses, EpOk, CallsOk
<1>4. \A i \in DOMAIN wakes : Carried(wakes[i])'
    BY <1>1, <1>2, GoodRow DEF Good, Carried
<1> QED BY <1>1, <1>3, <1>4, SameTable, TableStep

(* The Window of an expired endpoint is given the next one, and the        *)
(* binding goes.                                                           *)
LEMMA RecoverExpiredStep ==
    ASSUME WakesInv, RecoverExpired
    PROVE  WakesInv'
<1>1. /\ wakes' = [i \in DOMAIN wakes |-> wakes'[i]] /\ DOMAIN wakes' = DOMAIN wakes
      /\ \A i \in DOMAIN wakes : Moved(wakes[i], wakes'[i]) /\ wakes'[i].carrier = 0
    BY LossOfTable DEF RecoverExpired
<1>2. ep.g + 1 \in 1 .. MaxLosses /\ ep.g \in Nat
    BY AroundNow DEF RecoverExpired
<1>3. Around'
    <2>1. EpOk' /\ CallsOk'
        BY <1>2, AroundNow DEF RecoverExpired, EpOk, CallsOk
    <2>2. BndOk'
        BY <1>1, BindingKept DEF RecoverExpired
    <2> QED BY <2>1, <2>2 DEF Around
<1>4. \A i \in DOMAIN wakes : Carried(wakes[i])'
    BY <1>1 DEF Carried
<1> QED BY <1>1, <1>3, <1>4, TableStep DEF RecoverExpired

(* The capability is withdrawn from the carrier. *)
LEMMA WithdrawnTable ==
    ASSUME WakesInv, wakes' = Withdrawn \/ wakes' = wakes, ep'.g = ep.g, ep'.life = ep.life
    PROVE  /\ wakes' = [i \in DOMAIN wakes |-> wakes'[i]] /\ DOMAIN wakes' = DOMAIN wakes
           /\ \A i \in DOMAIN wakes : Moved(wakes[i], wakes'[i]) /\ Carried(wakes[i])'
<1>1. CASE wakes' = EndpointLoss(ep.g, FALSE)
    <2>1. /\ wakes' = [i \in DOMAIN wakes |-> wakes'[i]] /\ DOMAIN wakes' = DOMAIN wakes
          /\ \A i \in DOMAIN wakes : 
                /\ Moved(wakes[i], wakes'[i])
                /\ wakes'[i].carrier # 0 => /\ wakes'[i].carrier = wakes[i].carrier
                                            /\ wakes'[i].st \notin {"pending", "retired"}
                                            /\ wakes'[i].g = wakes[i].g
        BY <1>1, LossOfTable
    <2>2. \A i \in DOMAIN wakes : Carried(wakes[i])
        BY GoodRow DEF Good
    <2> QED BY <2>1, <2>2 DEF Carried
<1>2. CASE wakes' = wakes
    BY <1>2, SameTable, GoodRow DEF Good, Carried
<1> QED BY <1>1, <1>2 DEF Withdrawn

(* A registration: the carrier it replaces loses its claims, the endpoint  *)
(* may carry wakes from here on.                                           *)
LEMMA RegisterStep ==
    ASSUME WakesInv, Register
    PROVE  WakesInv'
<1>1. ep' = [ep EXCEPT !.cap = TRUE] /\ ep.life = "attached" /\ (wakes' = Withdrawn \/ wakes' = wakes)
    BY DEF Register, Live
<1>2. ep'.g = ep.g /\ ep'.life = ep.life
    BY <1>1, AroundNow DEF EpOk
<1>3. /\ wakes' = [i \in DOMAIN wakes |-> wakes'[i]] /\ DOMAIN wakes' = DOMAIN wakes
      /\ \A i \in DOMAIN wakes : Moved(wakes[i], wakes'[i]) /\ Carried(wakes[i])'
    BY <1>1, <1>2, WithdrawnTable
<1>4. Around'
    <2>1. EpOk' /\ CallsOk'
        BY <1>1, AroundNow DEF Register, EpOk, CallsOk
    <2>2. bnd' = [g |-> ep.g, i |-> 0, a |-> 0, phase |-> "none"]
        BY DEF Register, NoBinding
    <2>3. BndOk'
        BY <2>2, AroundNow, WakeAssumption DEF BndOk
    <2> QED BY <2>1, <2>3 DEF Around
<1> QED BY <1>3, <1>4, TableStep DEF Register

(* The carrier goes, and what its endpoint has claimed is withdrawn. *)
LEMMA UnregisterStep ==
    ASSUME WakesInv, Unregister
    PROVE  WakesInv'
<1>1. ep' = [ep EXCEPT !.cap = FALSE] /\ (wakes' = Withdrawn \/ wakes' = wakes)
    BY DEF Unregister
<1>2. ep'.g = ep.g /\ ep'.life = ep.life
    BY <1>1, AroundNow DEF EpOk
<1>3. /\ wakes' = [i \in DOMAIN wakes |-> wakes'[i]] /\ DOMAIN wakes' = DOMAIN wakes
      /\ \A i \in DOMAIN wakes : Moved(wakes[i], wakes'[i]) /\ Carried(wakes[i])'
    BY <1>1, <1>2, WithdrawnTable
<1>4. Around'
    <2>1. EpOk' /\ CallsOk'
        BY <1>1, AroundNow DEF Unregister, EpOk, CallsOk
    <2>2. BndOk'
        BY <1>3, BindingKept DEF Unregister
    <2> QED BY <2>1, <2>2 DEF Around
<1> QED BY <1>3, <1>4, TableStep DEF Unregister

(* A restart of the Server: the binding, the handlers and a held prepare   *)
(* are gone, the store and the mail are not.                               *)
LEMMA ServerRestartStep ==
    ASSUME WakesInv, ServerRestart
    PROVE  WakesInv'
<1> DEFINE ws == IF ep.life = "lapsed" THEN EndpointLoss(ep.g, TRUE) ELSE wakes
<1>1. /\ ws = [i \in DOMAIN wakes |-> ws[i]] /\ DOMAIN ws = DOMAIN wakes
      /\ \A i \in DOMAIN wakes : 
                /\ Moved(wakes[i], ws[i])
                /\ ws[i].carrier # 0 => /\ ws[i].carrier = wakes[i].carrier
                                        /\ ws[i].st \notin {"pending", "retired"}
                                        /\ ws[i].g = wakes[i].g
    <2>1. CASE ep.life = "lapsed"
        BY <2>1, LossOfTable
    <2>2. CASE ep.life # "lapsed"
        <3>1. wakes = [i \in DOMAIN wakes |-> wakes[i]]
            BY DEF WakesInv, TypeOK
        <3>2. \A i \in DOMAIN wakes : Good(wakes[i]) /\ Moved(wakes[i], wakes[i])
            BY GoodRow, SameMoves
        <3> QED BY <2>2, <3>1, <3>2 DEF Good, Carried
    <2> QED BY <2>1, <2>2
<1>2. wakes' = [i \in DOMAIN ws |-> Takeover(ws[i])] /\ UNCHANGED <<msgs, wait, done, mail, sent, load>> /\ hold' = Free
    BY DEF ServerRestart
<1>3. ep' = [ep EXCEPT !.cap = FALSE] /\ ep'.g = ep.g /\ ep'.life = ep.life
    BY AroundNow DEF EpOk, ServerRestart
<1> HIDE DEF ws
<1>4. wakes' = [i \in DOMAIN wakes |-> wakes'[i]] /\ DOMAIN wakes' = DOMAIN wakes
    BY <1>1, <1>2
<1>5. ASSUME NEW i \in DOMAIN wakes PROVE Moved(wakes[i], wakes'[i]) /\ Carried(wakes[i])'
    <2>1. wakes'[i] = Takeover(ws[i]) /\ Good(wakes[i]) /\ Moved(wakes[i], ws[i])
        BY <1>1, <1>2, GoodRow
    <2>2. Good(ws[i])
        BY <1>1, <2>1, MovedGood DEF Good, Carried
    <2>3. /\ Moved(ws[i], wakes'[i]) 
          /\ wakes'[i].carrier # 0 => /\ wakes'[i].carrier = ws[i].carrier
                                      /\ wakes'[i].st \notin {"pending", "retired"} /\ wakes'[i].g = ws[i].g
        BY <2>1, <2>2, TakeoverMoves
    <2>4. Moved(wakes[i], wakes'[i])
        BY <2>1, <2>3, MovedTwice
    <2> QED BY <1>3, <2>2, <2>3, <2>4 DEF Good, Carried
<1>6. Around'
    <2>1. EpOk'
        BY <1>3, AroundNow DEF EpOk
    <2>2. CallsOk'
        BY AroundNow DEF CallsOk, ServerRestart
    <2>3. BndOk'
        BY <1>4, BindingKept DEF ServerRestart
    <2> QED BY <2>1, <2>2, <2>3 DEF Around
<1> QED BY <1>2, <1>4, <1>5, <1>6, TableStep

(***************************************************************************)
(* Attempts and claims.                                                    *)
(***************************************************************************)
(* One wake moves, and nothing else does. *)
LEMMA WakeStep ==
    ASSUME WakesInv, NEW i \in DOMAIN wakes, NEW v, wakes' = [wakes EXCEPT ![i] = v],
           Moved(wakes[i], v), Carried(v), BndOk',
           UNCHANGED <<ep, calls, crashes, msgs, wait, done, mail, sent, load>>, hold' \in {hold, Free}
    PROVE  WakesInv'
<1>1. /\ wakes' = [j \in DOMAIN wakes |-> wakes'[j]] /\ DOMAIN wakes' = DOMAIN wakes
      /\ \A j \in DOMAIN wakes : Moved(wakes[j], wakes'[j])
      /\ wakes'[i] = v /\ \A j \in DOMAIN wakes : j # i => wakes'[j] = wakes[j]
    BY OneWake
<1>2. Around'
    BY AroundNow DEF Around, EpOk, CallsOk
<1>3. \A j \in DOMAIN wakes : Carried(wakes[j])'
    <2>1. \A j \in DOMAIN wakes : Carried(wakes'[j])
        BY <1>1, GoodRow DEF Good
    <2> QED BY <2>1 DEF Carried
<1> QED BY <1>1, <1>2, <1>3, TableStep

(* The fields of a retired wake. *)
LEMMA RetiredParts ==
    ASSUME NEW w \in Wake
    PROVE  /\ Retired(w) \in Wake /\ Retired(w).st = "retired" /\ Retired(w).g = 0
           /\ Retired(w).carrier = 0 /\ Retired(w).kind = w.kind /\ Retired(w).src = w.src
           /\ Retired(w).tries = w.tries /\ Retired(w).high = w.high /\ Retired(w).told = w.told
<1> DEFINE r == Released(w)
<1>1. /\ r \in Wake /\ r.g = 0 /\ r.carrier = 0 /\ r.kind = w.kind /\ r.src = w.src
      /\ r.tries = w.tries /\ r.high = w.high /\ r.told = w.told /\ "retired" \in WakeState
    BY ReleasedParts DEF WakeState
<1> HIDE DEF r
<1>2. Retired(w) = [r EXCEPT !.st = "retired"]
    BY DEF Retired, r
<1> QED BY <1>1, <1>2 DEF Wake

(* The lease of a task attempt lapses. *)
LEMMA AttemptLapsesStep ==
    ASSUME WakesInv, NEW i \in DOMAIN wakes, AttemptLapses(i)
    PROVE  WakesInv'
<1> DEFINE w == wakes[i]
           v == [w EXCEPT !.src = "lapsed"]
<1>1. Good(w) /\ w.src = "active"
    BY GoodRow DEF AttemptLapses
<1>2. wakes' = [wakes EXCEPT ![i] = v]
    BY <1>1 DEF AttemptLapses
<1>3. /\ v \in Wake /\ v.st = w.st /\ v.g = w.g /\ v.carrier = w.carrier /\ v.kind = w.kind /\ v.src = "lapsed"
      /\ v.tries = w.tries /\ v.high = w.high /\ v.told = w.told
    BY <1>1 DEF Good, Wake
<1> HIDE DEF v, w
<1>4. Moved(w, v) /\ Carried(v)
    BY <1>1, <1>3 DEF Moved, Good, Claimed, WakeInv, Carried
<1>5. BndOk'
    BY <1>2, BindingKept DEF AttemptLapses, serverVars
<1> QED BY <1>2, <1>4, <1>5, WakeStep DEF AttemptLapses, serverVars, w

(* The lease of a claim lapses. *)
LEMMA ClaimLapsesStep ==
    ASSUME WakesInv, NEW i \in DOMAIN wakes, ClaimLapses(i)
    PROVE  WakesInv'
<1> DEFINE w == wakes[i]
           v == [w EXCEPT !.late = TRUE]
<1>1. Good(w)
    BY GoodRow
<1>2. wakes' = [wakes EXCEPT ![i] = v]
    BY <1>1 DEF ClaimLapses
<1>3. /\ v \in Wake /\ v.st = w.st /\ v.g = w.g /\ v.carrier = w.carrier /\ v.kind = w.kind /\ v.src = w.src
      /\ v.tries = w.tries /\ v.high = w.high /\ v.told = w.told
    BY <1>1 DEF Good, Wake
<1> HIDE DEF v, w
<1>4. Moved(w, v) /\ Carried(v)
    BY <1>1, <1>3 DEF Moved, Good, Claimed, WakeInv, Carried
<1>5. BndOk'
    BY <1>2, BindingKept DEF ClaimLapses, serverVars
<1> QED BY <1>2, <1>4, <1>5, WakeStep DEF ClaimLapses, serverVars, w

(* A task attempt ends: its wake retires when it is not out. *)
LEMMA AttemptEndsStep ==
    ASSUME WakesInv, NEW i \in DOMAIN wakes, AttemptEnds(i)
    PROVE  WakesInv'
<1> DEFINE w == wakes[i]
           u == [w EXCEPT !.src = "ended"]
           v == IF u.st \in Queueable THEN Retired(u) ELSE u
<1>1. Good(w) /\ w.src \in {"active", "lapsed"} /\ w.kind = "task"
    BY GoodRow DEF AttemptEnds, Good, WakeInv
<1>2. wakes' = [wakes EXCEPT ![i] = v]
    BY DEF AttemptEnds
<1>3. /\ u \in Wake /\ u.st = w.st /\ u.g = w.g /\ u.carrier = w.carrier /\ u.kind = w.kind /\ u.src = "ended"
      /\ u.tries = w.tries /\ u.high = w.high /\ u.told = w.told
    BY <1>1 DEF Good, Wake
<1> HIDE DEF u, w
<1>4. Moved(w, v) /\ Carried(v)
    <2>1. CASE u.st \in Queueable
        <3> DEFINE q == Retired(u)
        <3>1. /\ q \in Wake /\ q.st = "retired" /\ q.g = 0 /\ q.carrier = 0 /\ q.kind = w.kind
              /\ q.src = "ended" /\ q.tries = w.tries /\ q.high = w.high /\ q.told = w.told
            BY <1>3, RetiredParts
        <3>2. v = q
            BY <2>1
        <3> HIDE DEF q, v
        <3> QED BY <1>1, <1>3, <2>1, <3>1, <3>2 DEF Moved, Claimed, Carried, Queueable, Past, Dispatched
    <2>2. CASE u.st \notin Queueable
        <3>1. v = u
            BY <2>2
        <3> HIDE DEF v
        <3> QED BY <1>1, <1>3, <3>1 DEF Moved, Good, Claimed, WakeInv, Carried
    <2> QED BY <2>1, <2>2
<1> HIDE DEF v
<1>5. BndOk'
    BY <1>2, BindingKept DEF AttemptEnds, serverVars
<1> QED BY <1>2, <1>4, <1>5, WakeStep DEF AttemptEnds, serverVars, w

(* A claim gives a pending wake to the endpoint that is attached. *)
LEMMA ClaimMoves ==
    ASSUME NEW w, Good(w), w.st = "pending", w.tries < MaxTries, ep.g # 0, ep.g \in 0 .. MaxLosses,
           ep.life = "attached", NEW v, v = ClaimedBy(w)
    PROVE  Moved(w, v) /\ Carried(v) /\ v.tries \in 0 .. MaxTries
<1> DEFINE c == IF w.kind = "task" THEN ep.g ELSE 0
<1>1. v = [w EXCEPT !.st = "claimed", !.g = ep.g, !.tries = w.tries + 1, !.carrier = c]
    BY DEF ClaimedBy
<1>2. c \in 0 .. MaxLosses /\ w.tries + 1 \in 0 .. MaxTries /\ w.tries + 1 > 0 /\ "claimed" \in WakeState
    BY WakeParts, WakeAssumption DEF Good, WakeState, Queueable
<1>3. c \in {0, ep.g}
    OBVIOUS
<1> HIDE DEF c
<1>4. /\ v \in Wake /\ v.st = "claimed" /\ v.g = ep.g /\ v.carrier = c /\ v.kind = w.kind /\ v.src = w.src
      /\ v.tries = w.tries + 1 /\ v.high = w.high /\ v.told = w.told
    BY <1>1, <1>2 DEF Good, Wake
<1> QED BY <1>2, <1>3, <1>4 DEF Moved, Good, Claimed, WakeInv, Carried, Past, Dispatched

(* An acquire sweeps the table and claims the next wake, if any. *)
LEMMA ClaimNextMoves ==
    ASSUME WakesInv, NEW i \in 0 .. MaxWakes, ClaimNext(i), Live(ep.g), UNCHANGED ep
    PROVE  /\ wakes' = [j \in DOMAIN wakes |-> wakes'[j]] /\ DOMAIN wakes' = DOMAIN wakes
           /\ \A j \in DOMAIN wakes : Moved(wakes[j], wakes'[j]) /\ Carried(wakes[j])'
           /\ i # 0 => i \in DOMAIN wakes /\ wakes'[i].tries \in 0 .. MaxTries
<1> DEFINE ws == Map(Swept)
<1>1. ws = [j \in DOMAIN wakes |-> Swept(wakes[j])]
    BY DEF Map
<1>2. \/ wakes' = ws /\ i = 0
      \/ /\ i \in DOMAIN ws /\ ws[i].st = "pending" /\ ws[i].tries < MaxTries
         /\ wakes' = [ws EXCEPT ![i] = ClaimedBy(ws[i])]
    BY DEF ClaimNext
<1> HIDE DEF ws
<1>3. \A j \in DOMAIN wakes : Moved(wakes[j], ws[j]) /\ Good(ws[j])
    <2> SUFFICES ASSUME NEW j \in DOMAIN wakes PROVE Moved(wakes[j], ws[j]) /\ Good(ws[j])
        OBVIOUS
    <2>1. Good(wakes[j]) /\ ws[j] = Swept(wakes[j])
        BY <1>1, GoodRow
    <2>2. Moved(wakes[j], ws[j]) /\ (ws[j].carrier # 0 => ws[j] = wakes[j])
        BY <2>1, SweptMoves
    <2>3. Carried(ws[j])
        BY <2>1, <2>2 DEF Good, Carried
    <2> QED BY <2>1, <2>2, <2>3, MovedGood
<1>4. DOMAIN ws = DOMAIN wakes /\ ws = [j \in DOMAIN wakes |-> ws[j]]
    BY <1>1
<1>5. CASE wakes' = ws /\ i = 0
    BY <1>3, <1>4, <1>5 DEF Good, Carried
<1>6. CASE /\ i \in DOMAIN ws /\ ws[i].st = "pending" /\ ws[i].tries < MaxTries
           /\ wakes' = [ws EXCEPT ![i] = ClaimedBy(ws[i])]
    <2> DEFINE v == ClaimedBy(ws[i])
    <2>1. ep.g \in 0 .. MaxLosses /\ ep.g # 0 /\ ep.life = "attached"
        BY AroundNow DEF Live
    <2>2. Moved(ws[i], v) /\ Carried(v) /\ v.tries \in 0 .. MaxTries
        BY <1>3, <1>4, <1>6, <2>1, ClaimMoves
    <2>3. wakes'[i] = v /\ \A j \in DOMAIN wakes : j # i => wakes'[j] = ws[j]
        BY <1>4, <1>6
    <2>4. wakes' = [j \in DOMAIN wakes |-> wakes'[j]] /\ DOMAIN wakes' = DOMAIN wakes
        BY <1>4, <1>6
    <2> HIDE DEF v
    <2>5. Moved(wakes[i], v)
        BY <1>3, <1>4, <1>6, <2>2, MovedTwice
    <2>6. \A j \in DOMAIN wakes : Moved(wakes[j], wakes'[j]) /\ Carried(wakes'[j])
        BY <1>3, <2>2, <2>3, <2>5 DEF Good
    <2>7. \A j \in DOMAIN wakes : Carried(wakes[j])'
        BY <2>6 DEF Carried
    <2> QED BY <1>4, <1>6, <2>2, <2>3, <2>4, <2>6, <2>7
<1> QED BY <1>2, <1>5, <1>6

(* The acquire of the controller's poll. *)
LEMMA AppAcquireStep ==
    ASSUME WakesInv, AppAcquire
    PROVE  WakesInv'
<1>1. PICK i \in 0 .. MaxWakes :
        /\ ClaimNext(i)
        /\ bnd' = [bnd EXCEPT !.i = i, !.a = IF i = 0 THEN 0 ELSE wakes'[i].tries, !.phase = "none"]
    BY DEF AppAcquire
<1>2. Live(ep.g) /\ UNCHANGED <<ep, calls, crashes, msgs, wait, done, hold, mail, sent, load>>
    BY DEF AppAcquire, AppLive, Live
<1>3. /\ wakes' = [j \in DOMAIN wakes |-> wakes'[j]] /\ DOMAIN wakes' = DOMAIN wakes
      /\ \A j \in DOMAIN wakes : Moved(wakes[j], wakes'[j]) /\ Carried(wakes[j])'
      /\ i # 0 => i \in DOMAIN wakes /\ wakes'[i].tries \in 0 .. MaxTries
    BY <1>1, <1>2, ClaimNextMoves
<1>4. BndOk'
    <2> DEFINE a == IF i = 0 THEN 0 ELSE wakes'[i].tries
    <2>1. a \in 0 .. MaxTries
        BY <1>3, WakeAssumption
    <2>2. bnd' = [bnd EXCEPT !.i = i, !.a = a, !.phase = "none"]
        BY <1>1
    <2> HIDE DEF a
    <2> QED BY <1>3, <2>1, <2>2, AroundNow DEF BndOk
<1>5. Around'
    BY <1>2, <1>4, AroundNow DEF Around, EpOk, CallsOk
<1> QED BY <1>2, <1>3, <1>5, TableStep

(* The outcome of a dispatch: delivered, or unknown. *)
LEMMA FinishMoves ==
    ASSUME NEW w, Good(w), NEW ok \in BOOLEAN, w.st \in Past, NEW v, v = Finished(w, ok)
    PROVE  Moved(w, v) /\ Carried(v)
<1>1. CASE v = w
    BY <1>1, SameMoves DEF Good
<1>2. CASE v # w
    <2> DEFINE x == IF ok THEN "delivered" ELSE "delivery_unknown"
    <2>1. v = [w EXCEPT !.st = x] /\ w.st # "consumed" /\ x \in WakeState /\ x \in Dispatched
        BY <1>2 DEF Finished, WakeState, Dispatched
    <2> HIDE DEF x
    <2>2. /\ v \in Wake /\ v.st = x /\ v.g = w.g /\ v.carrier = w.carrier /\ v.kind = w.kind /\ v.src = w.src
          /\ v.tries = w.tries /\ v.high = w.high /\ v.told = w.told
        BY <2>1 DEF Good, Wake
    <2> QED BY <2>1, <2>2 DEF Moved, Good, Claimed, WakeInv, Carried, Past, Dispatched
<1> QED BY <1>1, <1>2

(* The View reports the outcome of a dispatch: in the wake and in the      *)
(* binding.                                                                *)
LEMMA AppFinishStep ==
    ASSUME WakesInv, NEW ok \in BOOLEAN, AppFinish(ok)
    PROVE  WakesInv'
<1> DEFINE i == bnd.i
           v == Finished(wakes[i], ok)
<1>1. i \in DOMAIN wakes
    BY AroundNow DEF AppFinish, BndOk
<1>2. Good(wakes[i]) /\ wakes[i].st \in Past
    BY <1>1, GoodRow DEF AppFinish, CanFinish, Past, Dispatched
<1>3. Moved(wakes[i], v) /\ Carried(v)
    BY <1>2, FinishMoves
<1>4. wakes' = [wakes EXCEPT ![i] = v]
    BY DEF AppFinish
<1>5. BndOk'
    <2>1. DOMAIN wakes' = DOMAIN wakes
        BY <1>4
    <2> QED BY <2>1, AroundNow DEF BndOk, AppFinish
<1> HIDE DEF v, i
<1> QED BY <1>1, <1>3, <1>4, <1>5, WakeStep DEF AppFinish

(***************************************************************************)
(* Prepare, verify, send; the turn.                                        *)
(***************************************************************************)
(* The invariant tells where the turns are. *)
LEMMA TurnsNow ==
    ASSUME WakesInv
    PROVE  Turns
    BY DEF WakesInv, TypeOK, EndpointInv, Turns

(* The prepare takes a claimed wake past its point of no return. *)
LEMMA PreparedMoves ==
    ASSUME NEW w, Good(w), w.st = "claimed",
           NEW v, v = [w EXCEPT !.st = "prepared", !.late = FALSE, !.told = w.high]
    PROVE  Moved(w, v) /\ Carried(v) /\ v.st \in Past
<1>1. "prepared" \in WakeState /\ "prepared" \in Past
    BY DEF WakeState, Past, Dispatched
<1>2. /\ v \in Wake /\ v.st = "prepared" /\ v.g = w.g /\ v.carrier = w.carrier /\ v.kind = w.kind
      /\ v.src = w.src /\ v.tries = w.tries /\ v.high = w.high /\ v.told = w.high
    BY <1>1 DEF Good, Wake
<1> QED BY <1>1, <1>2 DEF Moved, Good, Claimed, WakeInv, Carried, Past, Dispatched

(* The prepare's first transaction: the wake is dispatched, and its turn   *)
(* is with the handler that holds the lock.                                *)
LEMMA AppPrepareStep ==
    ASSUME WakesInv, AppPrepare
    PROVE  WakesInv'
<1> DEFINE i == bnd.i
           w == wakes[i]
<1>1. i \in DOMAIN wakes /\ w.st = "claimed" /\ i \in Ids
    BY AroundNow, Rows DEF AppPrepare, BndOk, Preparable, WakesInv
<1>2. Good(w)
    BY <1>1, GoodRow
<1>3. CASE Stale(i, bnd.g) /\ RetireStale(i) /\ UNCHANGED hold
    <2> DEFINE x == IF w.src = "lapsed" THEN "ended" ELSE w.src
               v == RetiredAs(w, x)
    <2>1. w.kind = "task" /\ w.st \in Queueable
        BY <1>1, <1>3 DEF Stale, Queueable
    <2>2. x \in {"active", "lapsed", "ended"} /\ Retired(w).src = w.src
        BY <1>2, <2>1, WakeParts, RetiredParts DEF Good, WakeInv
    <2>3. wakes' = [wakes EXCEPT ![i] = v]
        <3>1. wakes' = [wakes EXCEPT ![i] = RetiredStale(w)]
            BY <1>3 DEF RetireStale
        <3>2. RetiredStale(w) = [Retired(w) EXCEPT !.src = IF Retired(w).src = "lapsed" THEN "ended" ELSE Retired(w).src]
            BY DEF RetiredStale
        <3> QED BY <2>2, <3>1, <3>2 DEF RetiredAs
    <2> HIDE DEF x
    <2>4. Moved(w, v) /\ v.carrier = 0
        BY <1>2, <2>1, <2>2, RetiredMoves
    <2>5. BndOk'
        BY <2>3, BindingKept DEF AppPrepare
    <2> HIDE DEF v, i
    <2> QED BY <1>1, <1>3, <2>3, <2>4, <2>5, WakeStep DEF AppPrepare, Carried
<1>4. CASE Prepare(i) /\ hold' = [i |-> i, a |-> bnd.a]
    <2> DEFINE v == [w EXCEPT !.st = "prepared", !.late = FALSE, !.told = w.high]
    <2>1. wakes' = [wakes EXCEPT ![i] = v]
        BY <1>1, <1>2, <1>4 DEF Prepare, Good, Wake
    <2>2. Moved(w, v) /\ Carried(v) /\ v.st \in Past
        BY <1>1, <1>2, PreparedMoves
    <2> HIDE DEF v
    <2>3. /\ wakes' = [j \in DOMAIN wakes |-> wakes'[j]] /\ DOMAIN wakes' = DOMAIN wakes
          /\ \A j \in DOMAIN wakes : Moved(wakes[j], wakes'[j])
          /\ wakes'[i] = v /\ \A j \in DOMAIN wakes : j # i => wakes'[j] = wakes[j]
        BY <1>1, <2>1, <2>2, OneWake
    <2>4. UNCHANGED <<ep, bnd, calls, crashes, msgs, wait, done, mail, sent, load>>
        BY DEF AppPrepare
    <2>5. Around'
        BY <2>3, <2>4, AroundNow, BindingKept DEF Around, EpOk, CallsOk
    <2>6. \A j \in DOMAIN wakes : Carried(wakes[j])'
        <3>1. \A j \in DOMAIN wakes : Carried(wakes'[j])
            BY <2>2, <2>3, GoodRow DEF Good
        <3> QED BY <2>4, <3>1 DEF Carried
    <2>7. Turns'
        <3>1. i \in 1 .. MaxWakes /\ bnd.a \in 0 .. MaxTries
            BY <1>1, AroundNow DEF BndOk, Ids
        <3>2. hold' \in [i : 0..MaxWakes, a : 0..MaxTries] /\ hold'.i = i /\ i # 0
            BY <1>4, <3>1
        <3>3. sent[i] = <<>> /\ ~Mailed(i)
            BY <1>1, TurnsNow DEF Turns, TurnInv, Past, Dispatched
        <3>4. ASSUME NEW j \in Ids PROVE TurnInv(j)'
            <4>1. CASE j = i
                BY <1>1, <2>2, <2>3, <2>4, <3>2, <3>3, <4>1 DEF TurnInv, Mailed
            <4>2. CASE j # i
                <5>1. hold'.i # j /\ TurnInv(j) /\ Mailed(j)' = Mailed(j)
                    BY <2>4, <3>2, <4>2, TurnsNow DEF Turns, Mailed
                <5>2. j \in DOMAIN wakes /\ wakes[j].st \in Past => wakes'[j].st \in Past
                    BY <2>3 DEF Moved
                <5> QED BY <2>3, <2>4, <5>1, <5>2 DEF TurnInv
            <4> QED BY <4>1, <4>2
        <3> QED BY <2>4, <3>2, <3>4, TurnsNow DEF Turns
    <2> QED BY <2>3, <2>4, <2>5, <2>6, <2>7, TurnStep
<1> QED BY <1>3, <1>4 DEF AppPrepare

(* The prepare's second transaction: the answer holds the message if the   *)
(* claim still stands.                                                     *)
LEMMA AppVerifyStep ==
    ASSUME WakesInv, AppVerify
    PROVE  WakesInv'
<1>1. UNCHANGED <<wakes, ep, msgs, wait, done, calls, sent, crashes, load>> /\ hold' = Free /\ hold # Free
    BY DEF AppVerify, storeVars
<1>2. CASE UNCHANGED <<bnd, mail>>
    <2>1. Around'
        BY <1>1, <1>2, AroundNow, BindingKept DEF Around, EpOk, CallsOk
    <2>2. \A j \in DOMAIN wakes : Carried(wakes[j])'
        BY <1>1, GoodRow DEF Good, Carried
    <2> QED BY <1>1, <1>2, <2>1, <2>2, SameTable, TableStep
<1>3. CASE /\ Verified(hold.i, hold.a, bnd.g)
           /\ bnd' = [bnd EXCEPT !.phase = "prepared"] /\ mail' = mail \cup {<<hold.i, hold.a>>}
    <2>1. hold.i \in Ids /\ hold.i # 0
        BY <1>1, TurnsNow DEF Turns, Ids
    <2>2. /\ hold.i \in DOMAIN wakes /\ wakes[hold.i].st \in Past /\ sent[hold.i] = <<>> /\ ~Mailed(hold.i)
        BY <2>1, TurnsNow DEF Turns, TurnInv
    <2>3. hold.a \in 1 .. MaxTries
        <3>1. Good(wakes[hold.i]) /\ wakes[hold.i].tries = hold.a
            BY <1>3, <2>2, GoodRow DEF Verified, Exact
        <3> QED BY <2>2, <3>1, WakeParts DEF Good, WakeInv
    <2>4. Around'
        <3>1. BndOk'
            BY <1>1, <1>3, AroundNow DEF BndOk
        <3> QED BY <1>1, <3>1, AroundNow DEF Around, EpOk, CallsOk
    <2>5. \A j \in DOMAIN wakes : Carried(wakes[j])'
        BY <1>1, GoodRow DEF Good, Carried
    <2>6. Turns'
        <3>1. hold' \in [i : 0..MaxWakes, a : 0..MaxTries] /\ hold'.i = 0
            BY <1>1, WakeAssumption DEF Free
        <3>2. mail' \subseteq (Ids \X (1..MaxTries))
            BY <1>3, <2>1, <2>3, TurnsNow DEF Turns
        <3>3. ASSUME NEW j \in Ids PROVE TurnInv(j)'
            <4>1. hold'.i # j
                BY <3>1 DEF Ids
            <4>2. CASE j = hold.i
                <5>1. \A a, b \in 1 .. MaxTries : <<j, a>> \in mail' /\ <<j, b>> \in mail' => a = b
                    BY <1>3, <2>2, <4>2 DEF Mailed
                <5> QED BY <1>1, <2>2, <4>1, <4>2, <5>1 DEF TurnInv, Mailed
            <4>3. CASE j # hold.i
                <5>1. \A a \in 1 .. MaxTries : <<j, a>> \in mail' <=> <<j, a>> \in mail
                    BY <1>3, <4>3
                <5>2. Mailed(j)' = Mailed(j) /\ TurnInv(j)
                    BY <5>1, TurnsNow DEF Mailed, Turns
                <5> QED BY <1>1, <4>1, <5>1, <5>2 DEF TurnInv
            <4> QED BY <4>2, <4>3
        <3> QED BY <1>1, <3>1, <3>2, <3>3, TurnsNow DEF Turns
    <2> QED BY <1>1, <2>4, <2>5, <2>6, SameTable, TurnStep
<1> QED BY <1>2, <1>3 DEF AppVerify

(* A View sends a prepared message: the turn starts, and never again. *)
LEMMA ViewSendsStep ==
    ASSUME WakesInv, NEW i \in DOMAIN wakes, NEW a \in 1 .. MaxTries, ViewSends(i, a)
    PROVE  WakesInv'
<1>1. /\ UNCHANGED <<wakes, ep, msgs, wait, done, bnd, calls, hold, crashes, load>>
      /\ <<i, a>> \in mail /\ mail' = mail \ {<<i, a>>} /\ sent' = [sent EXCEPT ![i] = Append(sent[i], a)]
    BY DEF ViewSends, storeVars, serverVars
<1>2. i \in Ids /\ Mailed(i)
    BY <1>1, Row DEF Mailed
<1>3. sent[i] = <<>> /\ wakes[i].st \in Past /\ hold.i # i
      /\ \A b \in 1 .. MaxTries : <<i, b>> \in mail => b = a
    BY <1>1, <1>2, TurnsNow DEF Turns, TurnInv
<1>4. Around'
    BY <1>1, AroundNow, BindingKept DEF Around, EpOk, CallsOk
<1>5. \A j \in DOMAIN wakes : Carried(wakes[j])'
    BY <1>1, GoodRow DEF Good, Carried
<1>6. Turns'
    <2>1. sent' \in [Ids -> Seq(1..MaxTries)] /\ Len(sent'[i]) = 1
        BY <1>1, <1>2, <1>3, TurnsNow DEF Turns
    <2>2. ASSUME NEW j \in Ids PROVE TurnInv(j)'
        <3>1. CASE j = i
            <4>1. ~Mailed(i)'
                BY <1>1, <1>3 DEF Mailed
            <4> QED BY <1>1, <1>2, <1>3, <2>1, <3>1, <4>1 DEF TurnInv
        <3>2. CASE j # i
            <4>1. \A b \in 1 .. MaxTries : <<j, b>> \in mail' <=> <<j, b>> \in mail
                BY <1>1, <3>2
            <4>2. sent'[j] = sent[j] /\ Mailed(j)' = Mailed(j) /\ TurnInv(j)
                BY <1>1, <3>2, <4>1, TurnsNow DEF Mailed, Turns
            <4> QED BY <1>1, <4>1, <4>2 DEF TurnInv
        <3> QED BY <3>1, <3>2
    <2> QED BY <1>1, <2>1, <2>2, TurnsNow DEF Turns
<1> QED BY <1>1, <1>4, <1>5, <1>6, SameTable, TurnStep

(* An explicit activation: a turn that runs already takes a pending wake   *)
(* of the inbox.                                                           *)
LEMMA AcceptStep ==
    ASSUME WakesInv, NEW i \in DOMAIN wakes, Accept(i)
    PROVE  WakesInv'
<1> DEFINE w == wakes[i]
           v == [w EXCEPT !.st = "delivered", !.g = ep.g, !.tries = w.tries + 1, !.told = w.high]
<1>1. Good(w) /\ i \in Ids /\ w.st = "pending" /\ w.tries < MaxTries /\ ep.life = "attached" /\ w.kind = "inbox"
    BY GoodRow, Row DEF Accept, Live
<1>2. ep.g \in 0 .. MaxLosses /\ ep.g # 0
    BY <1>1, AroundNow
<1>3. wakes' = [wakes EXCEPT ![i] = v]
    BY <1>1 DEF Accept, Good, Wake
<1>4. w.tries + 1 \in 1 .. MaxTries /\ "delivered" \in WakeState
    BY <1>1, WakeParts, WakeAssumption DEF Good, WakeState, Dispatched
<1>5. /\ v \in Wake /\ v.st = "delivered" /\ v.g = ep.g /\ v.carrier = w.carrier /\ v.kind = w.kind
      /\ v.src = w.src /\ v.tries = w.tries + 1 /\ v.high = w.high /\ v.told = w.high
    <2>1. w \in Wake /\ w.tries + 1 \in 0 .. MaxTries /\ w.high \in 0 .. MaxMsgs
        BY <1>1, <1>4, WakeParts DEF Good
    <2>2. v = [w EXCEPT !.st = "delivered", !.g = ep.g, !.tries = w.tries + 1, !.told = w.high]
        OBVIOUS
    <2> HIDE DEF w, v
    <2> QED BY <1>2, <1>4, <2>1, <2>2 DEF Wake
<1> HIDE DEF v
<1>6. Moved(w, v) /\ Carried(v) /\ v.st \in Past
    BY <1>1, <1>2, <1>4, <1>5 DEF Moved, Good, Claimed, WakeInv, Carried, Past, Dispatched
<1>7. /\ wakes' = [j \in DOMAIN wakes |-> wakes'[j]] /\ DOMAIN wakes' = DOMAIN wakes
      /\ \A j \in DOMAIN wakes : Moved(wakes[j], wakes'[j])
      /\ wakes'[i] = v /\ \A j \in DOMAIN wakes : j # i => wakes'[j] = wakes[j]
    BY <1>3, <1>6, OneWake
<1>8. UNCHANGED <<ep, msgs, wait, done, bnd, calls, hold, mail, crashes, load>>
      /\ sent' = [sent EXCEPT ![i] = Append(sent[i], w.tries + 1)]
    BY DEF Accept, serverVars
<1>9. Around'
    BY <1>7, <1>8, AroundNow, BindingKept DEF Around, EpOk, CallsOk
<1>10. \A j \in DOMAIN wakes : Carried(wakes[j])'
    <2>1. \A j \in DOMAIN wakes : Carried(wakes'[j])
        BY <1>6, <1>7, GoodRow DEF Good
    <2> QED BY <1>8, <2>1 DEF Carried
<1>11. Turns'
    <2>1. sent[i] = <<>> /\ ~Mailed(i) /\ hold.i # i
        BY <1>1, TurnsNow DEF Turns, TurnInv, Past, Dispatched
    <2>2. sent' \in [Ids -> Seq(1..MaxTries)] /\ Len(sent'[i]) = 1
        BY <1>1, <1>4, <1>8, <2>1, TurnsNow DEF Turns
    <2>3. ASSUME NEW j \in Ids PROVE TurnInv(j)'
        <3>1. Mailed(j)' = Mailed(j) /\ TurnInv(j) /\ (j # i => sent'[j] = sent[j])
            BY <1>8, TurnsNow DEF Turns, Mailed
        <3>2. j \in DOMAIN wakes /\ wakes[j].st \in Past => wakes'[j].st \in Past
            BY <1>7 DEF Moved
        <3>3. CASE j = i
            BY <1>6, <1>7, <1>8, <2>1, <2>2, <3>1, <3>3 DEF TurnInv
        <3>4. CASE j # i
            BY <1>7, <1>8, <3>1, <3>2, <3>4 DEF TurnInv
        <3> QED BY <3>3, <3>4
    <2> QED BY <1>8, <2>2, <2>3, TurnsNow DEF Turns
<1> QED BY <1>7, <1>8, <1>9, <1>10, <1>11, TurnStep

(***************************************************************************)
(* Messages, tasks and the wait.                                           *)
(***************************************************************************)
(* The steps that leave the endpoint and the turns alone. *)
LEMMA EventStep ==
    ASSUME WakesInv, wakes' \in Seq(Wake), Len(wakes') <= MaxWakes, DOMAIN wakes \subseteq DOMAIN wakes',
           \A i \in DOMAIN wakes' : Good(wakes[i])',
           \A i \in DOMAIN wakes : wakes[i].st \in Past => wakes'[i].st \in Past,
           msgs' \in 0 .. MaxMsgs, done' \subseteq Sources,
           wait' \in [st : {"none", "waiting", "triggered", "resumed", "cancelled"},
                      mode : {"any", "all"}, got : SUBSET Sources],
           UNCHANGED <<ep, serverVars, mail, sent, crashes, load>>,
           WaitInv', WaitNotMissed', DeliveryIsAnnounced'
    PROVE  WakesInv'
<1>1. UNCHANGED <<ep, bnd, calls, hold, mail, sent, crashes, load>>
    BY DEF serverVars
<1>2. Turns'
    <2>1. \A i \in Ids : TurnInv(i)'
        BY <1>1, StillOneTurn
    <2> QED BY <1>1, <2>1, TurnsNow DEF Turns
<1>3. BndOk' /\ EpOk' /\ CallsOk'
    BY <1>1, AroundNow DEF BndOk, EpOk, CallsOk
<1>4. /\ \A i \in DOMAIN wakes' : (wakes'[i].st \in {"pending", "retired"} <=> wakes'[i].g = 0)
      /\ \A i \in DOMAIN wakes' : WakeInv(wakes[i])'
      /\ CarrierMatchesClaim'
    BY DEF Good, Claimed, Carried, CarrierMatchesClaim
<1>5. TypeOK'
    BY <1>1, <1>2, <1>3, <1>4 DEF TypeOK, Turns, EpOk, BndOk, CallsOk, WakesInv
<1>6. EndpointInv'
    BY <1>2, <1>3 DEF EndpointInv, Turns, EpOk, BndOk
<1> QED BY <1>2, <1>4, <1>5, <1>6 DEF WakesInv, Turns

LEMMA Appended ==
    ASSUME WakesInv, NEW v \in Wake, wakes' = Append(wakes, v), Len(wakes) < MaxWakes
    PROVE  /\ wakes' \in Seq(Wake) /\ Len(wakes') <= MaxWakes
           /\ Len(wakes) + 1 \notin DOMAIN wakes /\ DOMAIN wakes' = DOMAIN wakes \cup {Len(wakes) + 1}
           /\ wakes'[Len(wakes) + 1] = v /\ \A i \in DOMAIN wakes : wakes'[i] = wakes[i]
<1>1. wakes \in Seq(Wake) /\ Len(wakes) \in Nat /\ DOMAIN wakes = 1 .. Len(wakes)
    BY Rows DEF WakesInv, TypeOK
<1>2. wakes' \in Seq(Wake) /\ Len(wakes') = Len(wakes) + 1 /\ DOMAIN wakes' = 1 .. (Len(wakes) + 1)
    BY <1>1
<1>3. wakes'[Len(wakes) + 1] = v /\ \A i \in 1 .. Len(wakes) : wakes'[i] = wakes[i]
    BY <1>1
<1> QED BY <1>1, <1>2, <1>3, WakeAssumption

(* A wake that is made for a message, an attempt or the wait. *)
Fresh(v, k) ==
    /\ v \in Wake /\ v.kind = k /\ v.st = "pending" /\ v.g = 0 /\ v.carrier = 0
    /\ v.told = 0 /\ (v.src # "none" <=> k = "task")

(* NewWake makes a fresh wake. *)
LEMMA NewWakeIsFresh ==
    ASSUME NEW k \in {"inbox", "task", "wait"}, NEW pin \in 0 .. MaxLosses, NEW high \in 0 .. MaxMsgs
    PROVE  Fresh(NewWake(k, pin, high), k) /\ NewWake(k, pin, high).high = high
<1>1. 0 \in 0 .. MaxLosses /\ 0 \in 0 .. MaxTries /\ 0 \in 0 .. MaxMsgs /\ "pending" \in WakeState
    BY WakeAssumption DEF WakeState, Queueable
<1> QED BY <1>1 DEF NewWake, Fresh, Wake

(* A fresh wake tells of nothing yet, and is good. *)
LEMMA FreshIsGood ==
    ASSUME NEW v, NEW k, Fresh(v, k), v.high <= msgs
    PROVE  Good(v)
    BY WakeParts DEF Good, Fresh, Claimed, WakeInv, Carried, Past, Dispatched

(* A wake stays good while messages arrive. *)
LEMMA StillGood ==
    ASSUME WakesInv, NEW w, Good(w), msgs' \in {msgs, msgs + 1}, UNCHANGED ep
    PROVE  (w.high <= msgs' /\ w.told <= w.high)
<1>1. w.high \in Nat /\ msgs \in Nat
    BY WakeParts, WakeAssumption DEF Good, WakesInv, TypeOK
<1> QED BY <1>1 DEF Good, WakeInv

(* The same of a row of the table. *)
LEMMA RowStillGood ==
    ASSUME WakesInv, NEW i \in DOMAIN wakes, wakes'[i] = wakes[i], msgs' \in {msgs, msgs + 1}, UNCHANGED ep
    PROVE  Good(wakes[i])'
<1>1. Good(wakes[i])
    BY GoodRow
<1>2. wakes[i].high <= msgs' /\ wakes[i].told <= wakes[i].high
    BY <1>1, StillGood
<1> QED BY <1>1, <1>2 DEF Good, Claimed, WakeInv, Carried

(* Deliver: a message joins a queued wake of the inbox or makes a new one. *)
LEMMA DeliverStep ==
    ASSUME WakesInv, Deliver
    PROVE  WakesInv'
<1>1. /\ msgs' = msgs + 1 /\ msgs' \in 0 .. MaxMsgs /\ msgs \in Nat
      /\ UNCHANGED <<ep, wait, done, serverVars, mail, sent, crashes, load>>
    BY WakeAssumption DEF Deliver, WakesInv, TypeOK
<1>2. wait \in [st : {"none", "waiting", "triggered", "resumed", "cancelled"},
                mode : {"any", "all"}, got : SUBSET Sources] /\ done \subseteq Sources
    BY DEF WakesInv, TypeOK
<1>3. ASSUME NEW d \in 1 .. msgs
      PROVE  \E i \in DOMAIN wakes : /\ wakes[i].kind = "inbox"
                                     /\ (wakes[i].st \in Queueable /\ wakes[i].high >= d) \/ wakes[i].told >= d
    BY DEF WakesInv, DeliveryIsAnnounced
<1>4. ASSUME NEW i \in Coalescible, wakes' = [wakes EXCEPT ![i].high = msgs + 1]
      PROVE  WakesInv'
    <2> DEFINE w == wakes[i]
               v == [w EXCEPT !.high = msgs + 1]
    <2>1. i \in DOMAIN wakes /\ w.kind = "inbox" /\ w.st \in Queueable /\ Good(w)
        BY <1>4, GoodRow DEF Coalescible
    <2>2. wakes' = [wakes EXCEPT ![i] = v]
        BY <1>4
    <2>3. /\ v \in Wake /\ v.st = w.st /\ v.g = w.g /\ v.carrier = w.carrier /\ v.kind = w.kind
          /\ v.src = w.src /\ v.tries = w.tries /\ v.high = msgs + 1 /\ v.told = w.told
        BY <1>1, <2>1 DEF Good, Wake
    <2>4. w.told <= msgs + 1 /\ msgs + 1 <= msgs'
        <3>1. w.told \in Nat /\ w.high \in Nat
            BY <2>1, WakeParts DEF Good
        <3> QED BY <1>1, <2>1, <3>1 DEF Good, WakeInv
    <2> HIDE DEF v
    <2>5. /\ wakes' \in Seq(Wake) /\ Len(wakes') = Len(wakes) /\ DOMAIN wakes' = DOMAIN wakes
          /\ wakes'[i] = v /\ \A j \in DOMAIN wakes : j # i => wakes'[j] = wakes[j]
        BY <2>1, <2>2, <2>3, Rows, ExceptSeq DEF WakesInv, TypeOK
    <2>6. ASSUME NEW j \in DOMAIN wakes' PROVE Good(wakes[j])'
        <3>1. CASE j = i
            BY <1>1, <2>1, <2>3, <2>4, <2>5, <3>1 DEF Good, Claimed, WakeInv, Carried
        <3>2. CASE j # i
            BY <1>1, <2>5, <3>2, RowStillGood
        <3> QED BY <3>1, <3>2
    <2>7. \A j \in DOMAIN wakes : Stands(wakes[j], wakes'[j]) /\ (wakes[j].st \in Past => wakes'[j].st \in Past)
        BY <2>1, <2>3, <2>5 DEF Stands
    <2>8. WaitInv' /\ WaitNotMissed'
        <3>1. (DOMAIN wakes') \ DOMAIN wakes = {}
            BY <2>5
        <3> QED BY <1>1, <2>5, <2>7, <3>1, StillWaiting
    <2>9. DeliveryIsAnnounced'
        <3> SUFFICES ASSUME NEW d \in 1 .. (msgs + 1)
                     PROVE  \E j \in DOMAIN wakes' : /\ wakes'[j].kind = "inbox"
                                                     /\ \/ wakes'[j].st \in Queueable /\ wakes'[j].high >= d
                                                        \/ wakes'[j].told >= d
            BY <1>1 DEF DeliveryIsAnnounced
        <3>1. v.kind = "inbox" /\ v.st \in Queueable /\ v.high >= d
            BY <1>1, <2>1, <2>3
        <3> QED BY <2>1, <2>5, <3>1
    <2>10. Len(wakes') <= MaxWakes
        BY <2>5 DEF WakesInv, TypeOK
    <2> QED BY <1>1, <1>2, <2>5, <2>6, <2>7, <2>8, <2>9, <2>10, EventStep
<1>5. ASSUME Len(wakes) < MaxWakes, wakes' = Append(wakes, NewWake("inbox", 0, msgs + 1))
      PROVE  WakesInv'
    <2> DEFINE v == NewWake("inbox", 0, msgs + 1)
               n == Len(wakes) + 1
    <2>1. Fresh(v, "inbox") /\ v.high = msgs'
        BY <1>1, NewWakeIsFresh, AroundNow
    <2> HIDE DEF v
    <2>2. /\ wakes' \in Seq(Wake) /\ Len(wakes') <= MaxWakes
          /\ n \notin DOMAIN wakes /\ DOMAIN wakes' = DOMAIN wakes \cup {n}
          /\ wakes'[n] = v /\ \A i \in DOMAIN wakes : wakes'[i] = wakes[i]
        BY <1>5, <2>1, Appended DEF v, Fresh
    <2> HIDE DEF n
    <2>3. ASSUME NEW j \in DOMAIN wakes' PROVE Good(wakes[j])'
        <3>1. CASE j = n
            <4>1. Claimed(v) /\ v \in Wake /\ v.told <= v.high /\ v.high <= msgs'
                BY <1>1, <2>1, WakeParts DEF Fresh, Claimed
            <4> QED BY <2>1, <2>2, <3>1, <4>1 DEF Good, Fresh, Claimed, WakeInv, Carried, Past, Dispatched
        <3>2. CASE j \in DOMAIN wakes
            BY <1>1, <2>2, <3>2, RowStillGood
        <3> QED BY <2>2, <3>1, <3>2
    <2>4. \A j \in DOMAIN wakes : Stands(wakes[j], wakes'[j]) /\ (wakes[j].st \in Past => wakes'[j].st \in Past)
        BY <2>2 DEF Stands
    <2>5. WaitInv' /\ WaitNotMissed'
        <3>1. \A i \in (DOMAIN wakes') \ DOMAIN wakes : wakes'[i].kind # "wait"
            BY <2>1, <2>2 DEF Fresh
        <3> QED BY <1>1, <2>2, <2>4, <3>1, StillWaiting
    <2>6. DeliveryIsAnnounced'
        <3> SUFFICES ASSUME NEW d \in 1 .. (msgs + 1)
                     PROVE  \E j \in DOMAIN wakes' : /\ wakes'[j].kind = "inbox"
                                                     /\ \/ wakes'[j].st \in Queueable /\ wakes'[j].high >= d
                                                        \/ wakes'[j].told >= d
            BY <1>1 DEF DeliveryIsAnnounced
        <3>1. v.kind = "inbox" /\ v.st \in Queueable /\ v.high >= d
            BY <1>1, <2>1 DEF Fresh, Queueable
        <3> QED BY <2>2, <3>1
    <2> QED BY <1>1, <1>2, <2>2, <2>3, <2>4, <2>5, <2>6, EventStep
<1> QED BY <1>4, <1>5 DEF Deliver

(* The wake that a step appends is a good one of the table. *)
LEMMA FreshStep ==
    ASSUME WakesInv, NEW k, NEW v, Fresh(v, k), v.high = 0, wakes' = Append(wakes, v), Len(wakes) < MaxWakes,
           UNCHANGED <<ep, msgs>>
    PROVE  /\ wakes' \in Seq(Wake) /\ Len(wakes') <= MaxWakes
           /\ Len(wakes) + 1 \notin DOMAIN wakes /\ DOMAIN wakes' = DOMAIN wakes \cup {Len(wakes) + 1}
           /\ wakes'[Len(wakes) + 1] = v /\ \A i \in DOMAIN wakes : wakes'[i] = wakes[i]
           /\ \A i \in DOMAIN wakes' : Good(wakes[i])'
           /\ DeliveryIsAnnounced'
<1>1. /\ wakes' \in Seq(Wake) /\ Len(wakes') <= MaxWakes
      /\ Len(wakes) + 1 \notin DOMAIN wakes /\ DOMAIN wakes' = DOMAIN wakes \cup {Len(wakes) + 1}
      /\ wakes'[Len(wakes) + 1] = v /\ \A i \in DOMAIN wakes : wakes'[i] = wakes[i]
    BY Appended DEF Fresh
<1>2. ASSUME NEW i \in DOMAIN wakes' PROVE Good(wakes[i])'
    <2>1. CASE i = Len(wakes) + 1
        <3>1. v.high <= msgs
            BY WakeAssumption DEF WakesInv, TypeOK
        <3>2. Good(v)
            BY <3>1, FreshIsGood
        <3> QED BY <1>1, <2>1, <3>2 DEF Good, Claimed, WakeInv, Carried
    <2>2. CASE i \in DOMAIN wakes
        BY <1>1, <2>2, RowStillGood
    <2> QED BY <1>1, <2>1, <2>2
<1>3. DeliveryIsAnnounced'
    BY <1>1, StillAnnounced
<1> QED BY <1>1, <1>2, <1>3

(* A task for the Agent makes a wake of its own. *)
LEMMA SubmitTaskStep ==
    ASSUME WakesInv, SubmitTask
    PROVE  WakesInv'
<1>1. UNCHANGED <<ep, msgs, wait, done, serverVars, mail, sent, crashes, load>> /\ Len(wakes) < MaxWakes
    BY DEF SubmitTask
<1>2. PICK pin \in 0 .. MaxLosses : wakes' = Append(wakes, NewWake("task", pin, 0))
    BY AroundNow DEF SubmitTask
<1> DEFINE v == NewWake("task", pin, 0)
<1>3. Fresh(v, "task") /\ v.high = 0
    BY NewWakeIsFresh, WakeAssumption
<1>4. wakes' = Append(wakes, v)
    BY <1>2
<1> HIDE DEF v
<1>5. /\ wakes' \in Seq(Wake) /\ Len(wakes') <= MaxWakes
      /\ Len(wakes) + 1 \notin DOMAIN wakes /\ DOMAIN wakes' = DOMAIN wakes \cup {Len(wakes) + 1}
      /\ wakes'[Len(wakes) + 1] = v /\ \A i \in DOMAIN wakes : wakes'[i] = wakes[i]
      /\ \A i \in DOMAIN wakes' : Good(wakes[i])'
      /\ DeliveryIsAnnounced'
    BY <1>1, <1>3, <1>4, FreshStep
<1>6. WaitInv' /\ WaitNotMissed'
    <2>1. \A i \in DOMAIN wakes : Stands(wakes[i], wakes'[i])
        BY <1>5 DEF Stands
    <2>2. \A i \in (DOMAIN wakes') \ DOMAIN wakes : wakes'[i].kind # "wait"
        BY <1>3, <1>5 DEF Fresh
    <2> QED BY <1>1, <1>5, <2>1, <2>2, StillWaiting
<1> QED BY <1>1, <1>5, <1>6, EventStep DEF WakesInv, TypeOK

(* What the invariant says of the wait. *)
LEMMA WaitNow ==
    ASSUME WakesInv
    PROVE  /\ WaitInv /\ WaitNotMissed
           /\ wait.st \in {"none", "waiting", "triggered", "resumed", "cancelled"}
           /\ wait.mode \in {"any", "all"} /\ wait.got \subseteq Sources /\ done \subseteq Sources
           /\ wait = [st |-> wait.st, mode |-> wait.mode, got |-> wait.got]
    BY DEF WakesInv, TypeOK

(* The matches of a wait that has not triggered, or has for good. *)
LEMMA MatchedStep ==
    ASSUME WakesInv, NEW mode \in {"any", "all"}, NEW S \in SUBSET Sources, S = done', Matched(mode, S),
           \/ wait.st \in {"none", "waiting"}
           \/ wait.st = "triggered" /\ Met(mode, S),
           UNCHANGED <<ep, msgs, serverVars, mail, sent, crashes, load>>
    PROVE  WakesInv'
<1> DEFINE x == IF Met(mode, S) THEN "triggered" ELSE "waiting"
<1>1. wait' = [st |-> x, mode |-> mode, got |-> S]
    BY DEF Matched
<1>2. /\ wait'.st = x /\ wait'.mode = mode /\ wait'.got = S /\ x \in {"waiting", "triggered"}
      /\ x = "triggered" <=> Met(mode, S)
      /\ wait' \in [st : {"none", "waiting", "triggered", "resumed", "cancelled"},
                    mode : {"any", "all"}, got : SUBSET Sources]
    BY <1>1
<1> HIDE DEF x
<1>3. Met(wait.mode, done)' <=> Met(mode, S)
    BY <1>2 DEF Met
<1>4. CASE Met(mode, S) /\ ~\E i \in DOMAIN wakes : WaitWake(i)
    <2> DEFINE v == NewWake("wait", 0, 0)
               n == Len(wakes) + 1
    <2>1. wakes' = Append(wakes, v) /\ Len(wakes) < MaxWakes
        BY <1>4 DEF Matched
    <2>2. Fresh(v, "wait") /\ v.high = 0
        BY NewWakeIsFresh, WakeAssumption
    <2> HIDE DEF v
    <2>3. /\ wakes' \in Seq(Wake) /\ Len(wakes') <= MaxWakes
          /\ n \notin DOMAIN wakes /\ DOMAIN wakes' = DOMAIN wakes \cup {n}
          /\ wakes'[n] = v /\ \A i \in DOMAIN wakes : wakes'[i] = wakes[i]
          /\ \A i \in DOMAIN wakes' : Good(wakes[i])'
          /\ DeliveryIsAnnounced'
        BY <2>1, <2>2, FreshStep
    <2> HIDE DEF n
    <2>4. \A i \in DOMAIN wakes' : WaitWake(i)' <=> i = n
        BY <1>4, <2>2, <2>3 DEF WaitWake, Fresh
    <2>5. WaitInv'
        BY <1>2, <1>3, <1>4, <2>4 DEF WaitInv
    <2>6. WaitNotMissed'
        <3>1. wakes'[n].st = "pending" /\ n \in DOMAIN wakes'
            BY <2>2, <2>3 DEF Fresh
        <3> QED BY <1>2, <1>3, <1>4, <2>4, <3>1 DEF WaitNotMissed
    <2> QED BY <1>2, <2>3, <2>5, <2>6, EventStep, WaitNow DEF WakesInv, TypeOK
<1>5. CASE ~(Met(mode, S) /\ ~\E i \in DOMAIN wakes : WaitWake(i))
    <2>1. wakes' = wakes
        BY <1>5 DEF Matched
    <2>2. \A i \in DOMAIN wakes' : Good(wakes[i])'
        BY <2>1, RowStillGood
    <2>3. DeliveryIsAnnounced'
        BY <2>1, StillAnnounced
    <2>4. \A i : WaitWake(i)' <=> WaitWake(i)
        BY <2>1 DEF WaitWake
    <2>5. WaitInv /\ WaitNotMissed
        BY WaitNow
    <2>6. x = "waiting" => ~\E i \in DOMAIN wakes : WaitWake(i)
        BY <1>2, <2>5 DEF WaitInv
    <2>7. x = "triggered" => wait.st = "triggered"
        BY <1>2, <1>5, <2>5 DEF WaitInv
    <2>8. WaitInv'
        BY <1>2, <1>3, <2>1, <2>4, <2>5, <2>6 DEF WaitInv
    <2>9. WaitNotMissed'
        BY <1>2, <1>3, <2>1, <2>4, <2>5, <2>6, <2>7 DEF WaitNotMissed
    <2> QED BY <1>2, <2>1, <2>2, <2>3, <2>8, <2>9, EventStep DEF WakesInv, TypeOK
<1> QED BY <1>4, <1>5

(* wait_for_events: what has ended before the wait counts at once. *)
LEMMA WaitForEventsStep ==
    ASSUME WakesInv, WaitForEvents
    PROVE  WakesInv'
<1>1. PICK mode \in Modes : Matched(mode, done)
    BY DEF WaitForEvents, AlreadyEnded
<1>2. mode \in {"any", "all"} /\ done \in SUBSET Sources /\ done = done'
    BY WakeAssumption, WaitNow DEF WaitForEvents
<1> QED BY <1>1, <1>2, MatchedStep DEF WaitForEvents

(* A source ends while a wait may be open. *)
LEMMA SourceEndsStep ==
    ASSUME WakesInv, NEW s \in Sources, SourceEnds(s)
    PROVE  WakesInv'
<1>1. s \notin done /\ done' = done \cup {s} /\ done' \in SUBSET Sources
      /\ UNCHANGED <<ep, msgs, serverVars, mail, sent, crashes, load>>
    BY WaitNow DEF SourceEnds
<1>2. CASE wait.st \in {"waiting", "triggered"}
    <2>1. Matched(wait.mode, wait.got \cup {s}) /\ wait.got = done
        BY <1>2, WaitNow DEF SourceEnds, WaitInv
    <2>2. wait.st = "triggered" => Met(wait.mode, done')
        BY <1>1, WaitNow DEF WaitInv, Met
    <2> QED BY <1>1, <1>2, <2>1, <2>2, WaitNow, MatchedStep
<1>3. CASE wait.st \notin {"waiting", "triggered"}
    <2>1. UNCHANGED <<wait, wakes>>
        BY <1>3 DEF SourceEnds
    <2>2. \A i \in DOMAIN wakes' : Good(wakes[i])'
        BY <1>1, <2>1, RowStillGood
    <2>3. DeliveryIsAnnounced'
        BY <1>1, <2>1, StillAnnounced
    <2>4. \A i : WaitWake(i)' <=> WaitWake(i)
        BY <2>1 DEF WaitWake
    <2>5. WaitInv' /\ WaitNotMissed'
        BY <1>3, <2>1, <2>4, WaitNow DEF WaitInv, WaitNotMissed
    <2> QED BY <1>1, <2>1, <2>2, <2>3, <2>5, EventStep DEF WakesInv, TypeOK
<1> QED BY <1>2, <1>3

(* A wait is cancelled, and its wake retired if it has one that is not     *)
(* dispatched.                                                             *)
LEMMA CancelWaitStep ==
    ASSUME WakesInv, CancelWait
    PROVE  WakesInv'
<1>1. UNCHANGED <<ep, msgs, done, serverVars, mail, sent, crashes, load>>
    BY DEF CancelWait
<1>2. wait'.st = "cancelled" /\ wait' \in [st : {"none", "waiting", "triggered", "resumed", "cancelled"},
                                           mode : {"any", "all"}, got : SUBSET Sources]
    BY DEF CancelWait, WakesInv, TypeOK
<1>3. CASE wait.st = "waiting" /\ UNCHANGED wakes
    <2>1. \A i \in DOMAIN wakes' : Good(wakes[i])'
        BY <1>1, <1>3, RowStillGood
    <2>2. DeliveryIsAnnounced'
        BY <1>1, <1>3, StillAnnounced
    <2>3. \A i \in DOMAIN wakes : ~WaitWake(i)
        BY <1>3, WaitNow DEF WaitInv
    <2>4. WaitInv' /\ WaitNotMissed'
        BY <1>2, <1>3, <2>3 DEF WaitInv, WaitNotMissed, WaitWake
    <2> QED BY <1>1, <1>2, <1>3, <2>1, <2>2, <2>4, EventStep DEF WakesInv, TypeOK
<1>4. ASSUME NEW i \in Ids, wait.st = "triggered", Cancellable(i), wakes' = [wakes EXCEPT ![i] = Retired(wakes[i])]
      PROVE  WakesInv'
    <2> DEFINE w == wakes[i]
               v == Retired(w)
    <2>1. i \in DOMAIN wakes /\ w.kind = "wait" /\ w.st \in Queueable /\ Good(w)
        BY <1>4, GoodRow DEF Cancellable, WaitWake
    <2>2. /\ v \in Wake /\ v.st = "retired" /\ v.g = 0 /\ v.carrier = 0 /\ v.kind = w.kind
          /\ v.src = w.src /\ v.tries = w.tries /\ v.high = w.high /\ v.told = w.told
        BY <2>1, RetiredParts DEF Good
    <2>3. wakes' = [wakes EXCEPT ![i] = v]
        BY <1>4
    <2> HIDE DEF v
    <2>4. /\ wakes' \in Seq(Wake) /\ Len(wakes') = Len(wakes) /\ DOMAIN wakes' = DOMAIN wakes
          /\ wakes'[i] = v /\ \A j \in DOMAIN wakes : j # i => wakes'[j] = wakes[j]
        BY <2>1, <2>2, <2>3, Rows, ExceptSeq DEF WakesInv, TypeOK
    <2>5. ASSUME NEW j \in DOMAIN wakes' PROVE Good(wakes[j])'
        <3>1. CASE j = i
            BY <1>1, <2>1, <2>2, <2>4, <3>1 DEF Good, Claimed, WakeInv, Carried, Past, Dispatched
        <3>2. CASE j # i
            BY <1>1, <2>4, <3>2, RowStillGood
        <3> QED BY <3>1, <3>2
    <2>6. DeliveryIsAnnounced'
        BY <1>1, <2>1, <2>4, StillAnnounced
    <2>7. \A j \in DOMAIN wakes : wakes[j].st \in Past => wakes'[j].st \in Past
        BY <2>1, <2>4 DEF Queueable, Past, Dispatched
    <2>8. \A j \in DOMAIN wakes : WaitWake(j) <=> j = i
        BY <2>1, WaitNow DEF WaitInv, WaitWake
    <2>9. \A j \in DOMAIN wakes' : WaitWake(j)' <=> j = i
        BY <2>1, <2>2, <2>4, <2>8 DEF WaitWake
    <2>10. WaitInv' /\ WaitNotMissed'
        BY <1>2, <2>1, <2>2, <2>4, <2>9 DEF WaitInv, WaitNotMissed
    <2>11. Len(wakes') <= MaxWakes
        BY <2>4 DEF WakesInv, TypeOK
    <2> QED BY <1>1, <1>2, <2>4, <2>5, <2>6, <2>7, <2>10, <2>11, EventStep DEF WakesInv, TypeOK
<1> QED BY <1>3, <1>4 DEF CancelWait

(* The wake is consumed by the turn that it started; a wait is resumed by  *)
(* its own.                                                                *)
LEMMA ConsumeStep ==
    ASSUME WakesInv, NEW i \in DOMAIN wakes, Consume(i)
    PROVE  WakesInv'
<1>1. UNCHANGED <<ep, msgs, done, serverVars, mail, sent, crashes, load>>
    BY DEF Consume
<1> DEFINE w == wakes[i]
           v == [w EXCEPT !.st = "consumed"]
<1>2. Good(w) /\ w.st \in Dispatched /\ wakes' = [wakes EXCEPT ![i] = v]
    BY GoodRow DEF Consume
<1>3. "consumed" \in WakeState /\ "consumed" \in Past /\ w.st \notin {"consumed", "retired", "pending", "claimed"}
      /\ w.st \in Past /\ w.st \notin Queueable
    BY <1>2 DEF WakeState, Past, Dispatched, Queueable
<1>4. /\ v \in Wake /\ v.st = "consumed" /\ v.g = w.g /\ v.carrier = w.carrier /\ v.kind = w.kind
      /\ v.src = w.src /\ v.tries = w.tries /\ v.high = w.high /\ v.told = w.told
    BY <1>2, <1>3 DEF Good, Wake
<1> HIDE DEF v
<1>5. /\ wakes' \in Seq(Wake) /\ Len(wakes') = Len(wakes) /\ DOMAIN wakes' = DOMAIN wakes
      /\ wakes'[i] = v /\ \A j \in DOMAIN wakes : j # i => wakes'[j] = wakes[j]
    BY <1>2, <1>4, Rows, ExceptSeq DEF WakesInv, TypeOK
<1>6. ASSUME NEW j \in DOMAIN wakes' PROVE Good(wakes[j])'
    <2>1. CASE j = i
        <3>1. Good(v)
            BY <1>2, <1>3, <1>4 DEF Good, Claimed, WakeInv, Carried
        <3> QED BY <1>1, <1>5, <2>1, <3>1 DEF Good, Claimed, WakeInv, Carried
    <2>2. CASE j # i
        BY <1>1, <1>5, <2>2, RowStillGood
    <2> QED BY <2>1, <2>2
<1>7. \A j \in DOMAIN wakes : wakes[j].st \in Past => wakes'[j].st \in Past
    BY <1>3, <1>4, <1>5
<1>8. DeliveryIsAnnounced'
    BY <1>1, <1>3, <1>4, <1>5, StillAnnounced
<1>9. /\ WaitInv' /\ WaitNotMissed'
      /\ wait' \in [st : {"none", "waiting", "triggered", "resumed", "cancelled"},
                    mode : {"any", "all"}, got : SUBSET Sources]
    <2>1. CASE w.kind = "wait"
        <3>1. wait.st = "triggered" /\ wait' = [wait EXCEPT !.st = "resumed"]
            BY <2>1 DEF Consume
        <3>2. wait'.st = "resumed" /\ wait' \in [st : {"none", "waiting", "triggered", "resumed", "cancelled"},
                                                 mode : {"any", "all"}, got : SUBSET Sources]
            BY <3>1 DEF WakesInv, TypeOK
        <3>3. \A j \in DOMAIN wakes : WaitWake(j) <=> j = i
            BY <2>1, WaitNow DEF WaitInv, WaitWake
        <3>4. \A j \in DOMAIN wakes' : WaitWake(j)' <=> j = i
            BY <1>4, <1>5, <3>3 DEF WaitWake
        <3> QED BY <1>4, <1>5, <3>2, <3>4 DEF WaitInv, WaitNotMissed
    <2>2. CASE w.kind # "wait"
        <3>1. UNCHANGED <<wait, done>>
            BY <2>2 DEF Consume
        <3>2. \A j \in DOMAIN wakes : Stands(wakes[j], wakes'[j])
            BY <1>4, <1>5, <2>2 DEF Stands
        <3>3. (DOMAIN wakes') \ DOMAIN wakes = {}
            BY <1>5
        <3>4. WaitInv' /\ WaitNotMissed'
            BY <1>5, <3>1, <3>2, <3>3, StillWaiting
        <3> QED BY <3>1, <3>4 DEF WakesInv, TypeOK
    <2> QED BY <2>1, <2>2
<1>10. Len(wakes') <= MaxWakes
    BY <1>5 DEF WakesInv, TypeOK
<1> QED BY <1>1, <1>5, <1>6, <1>7, <1>8, <1>9, <1>10, EventStep DEF WakesInv, TypeOK

(***************************************************************************)
(* The theorems.                                                           *)
(***************************************************************************)
LEMMA WakesInvInit == Init => WakesInv
<1> SUFFICES ASSUME Init PROVE WakesInv
    OBVIOUS
<1>1. wakes = <<>> /\ Len(wakes) = 0 /\ DOMAIN wakes = {} /\ wakes \in Seq(Wake) /\ msgs = 0
    BY DEF Init
<1>2. TypeOK
    <2>1. ep \in [g : 0..MaxLosses, life : {"none", "attached", "lapsed", "detached"}, cap : BOOLEAN]
        BY WakeAssumption DEF Init
    <2>2. bnd \in [g : 0..MaxLosses, i : 0..MaxWakes, a : 0..MaxTries,
                   phase : {"none", "prepared", "accepted", "unknown"}]
        BY WakeAssumption DEF Init, NoBinding
    <2>3. hold \in [i : 0..MaxWakes, a : 0..MaxTries] /\ sent \in [Ids -> Seq(1..MaxTries)]
        BY WakeAssumption DEF Init, Free
    <2>4. wait \in [st : {"none", "waiting", "triggered", "resumed", "cancelled"},
                    mode : {"any", "all"}, got : SUBSET Sources]
        BY DEF Init
    <2> QED BY <1>1, <2>1, <2>2, <2>3, <2>4, WakeAssumption DEF Init, TypeOK
<1>3. EndpointInv
    BY DEF Init, EndpointInv, NoBinding, Free
<1>4. \A i \in Ids : TurnInv(i)
    BY DEF Init, TurnInv, Mailed, Free, Ids
<1>5. WaitInv /\ WaitNotMissed
    BY <1>1 DEF Init, WaitInv, WaitNotMissed
<1>6. CarrierMatchesClaim /\ DeliveryIsAnnounced
    BY <1>1 DEF CarrierMatchesClaim, DeliveryIsAnnounced
<1> QED BY <1>1, <1>2, <1>3, <1>4, <1>5, <1>6 DEF WakesInv

(* A step that changes nothing keeps the invariant. *)
LEMMA WakesStutter ==
    ASSUME WakesInv, UNCHANGED vars
    PROVE  WakesInv'
<1>1. UNCHANGED <<ep, wakes, msgs, wait, done, bnd, calls, hold, mail, sent, crashes, load>>
    BY DEF vars, storeVars, serverVars
<1>2. \A j \in DOMAIN wakes : Carried(wakes[j])'
    BY <1>1, GoodRow DEF Good, Carried
<1>3. Around'
    BY <1>1, AroundNow, BindingKept DEF Around, EpOk, CallsOk
<1> QED BY <1>1, <1>2, <1>3, SameTable, TableStep

(* Every step of the store, the Server and the Host keeps the invariant. *)
LEMMA WakesInvNext ==
    ASSUME WakesInv, [Next]_vars
    PROVE  WakesInv'
<1>1. CASE App
    BY <1>1, AppAcquireStep, AppPrepareStep, AppVerifyStep, AppFinishStep DEF App
<1>2. CASE Turn
    BY <1>2, AcceptStep, ConsumeStep, ViewSendsStep DEF Turn
<1>3. CASE Endpoint
    BY <1>3, AttachStep, DetachStep, EndpointLapsesStep, RecoverExpiredStep, RegisterStep, UnregisterStep,
       ServerRestartStep, ReconcileStep DEF Endpoint
<1>4. CASE Events
    BY <1>4, DeliverStep, SubmitTaskStep, WaitForEventsStep, CancelWaitStep, SourceEndsStep,
       AttemptLapsesStep, AttemptEndsStep, ClaimLapsesStep DEF Events
<1>5. CASE UNCHANGED vars
    BY <1>5, WakesStutter
<1> QED BY <1>1, <1>2, <1>3, <1>4, <1>5 DEF Next

(* The inductive invariant holds in every reachable state: how the rows of *)
(* wc_agent_wakes, the controller's binding, the held prepare, the mail    *)
(* and the turns of the Host fit together.                                 *)
THEOREM WakesInvariant == Spec => []WakesInv
<1>1. WakesInv /\ [Next]_vars => WakesInv'
    BY WakesInvNext
<1> QED BY <1>1, WakesInvInit, PTL DEF Spec

(* The variables keep their types, and with the table's CHECK a wake has a *)
(* claim unless it is free or retired.                                     *)
THEOREM WakesTypeCorrect == Spec => []TypeOK
<1>1. WakesInv => TypeOK
    BY DEF WakesInv
<1> QED BY <1>1, WakesInvariant, PTL

(* The Host starts at most one turn for a wake, whatever endpoints replace *)
(* each other, claims lapse, or restarts of the Server come between.       *)
THEOREM TurnStartedOnce == Spec => []SentAtMostOnce
<1>1. WakesInv => SentAtMostOnce
    <2> SUFFICES ASSUME WakesInv, NEW i \in Ids PROVE Len(sent[i]) <= 1
        BY DEF SentAtMostOnce
    <2>1. TurnInv(i)
        BY DEF WakesInv
    <2>2. CASE sent[i] = <<>>
        BY <2>2
    <2>3. CASE sent[i] # <<>>
        <3>1. Len(sent[i]) = 1
            BY <2>1, <2>3 DEF TurnInv
        <3> QED BY <3>1
    <2> QED BY <2>2, <2>3
<1> QED BY <1>1, WakesInvariant, PTL

(* A retired wake has started no turn, and no View has its message, though *)
(* a carrier may have claimed it.                                          *)
THEOREM RetiredStartsNoTurn == Spec => []RetiredIsNotSent
<1>1. WakesInv => RetiredIsNotSent
    <2> SUFFICES ASSUME WakesInv, NEW i \in DOMAIN wakes, wakes[i].st = "retired"
                 PROVE  sent[i] = <<>> /\ \A a \in 1..MaxTries : <<i, a>> \notin mail
        BY DEF RetiredIsNotSent
    <2>1. TurnInv(i) /\ wakes[i].st \notin Past
        BY Row DEF Past, Dispatched
    <2> QED BY <2>1 DEF TurnInv, Mailed
<1> QED BY <1>1, WakesInvariant, PTL

(* The endpoint that a task attempt is bound to is the one that holds the  *)
(* claim of its wake, whichever transaction revokes or replaces the claim. *)
THEOREM TaskBoundToClaimant == Spec => []CarrierMatchesClaim
<1>1. WakesInv => CarrierMatchesClaim
    BY DEF WakesInv
<1> QED BY <1>1, WakesInvariant, PTL

(* Every message is announced: a wake that covers it is still to be        *)
(* prepared, or was prepared with it, so that coalescing loses none.       *)
THEOREM MessagesAnnounced == Spec => []DeliveryIsAnnounced
<1>1. WakesInv => DeliveryIsAnnounced
    BY DEF WakesInv
<1> QED BY <1>1, WakesInvariant, PTL

(* A wait does not miss its condition, however its registration and the    *)
(* ends of its sources interleave, and it stands as its wake does.         *)
THEOREM WaitMissesNothing == Spec => []WaitNotMissed
<1>1. WakesInv => WaitNotMissed
    BY DEF WakesInv
<1> QED BY <1>1, WakesInvariant, PTL
=============================================================================
