------------------------------ MODULE RunnerCall ------------------------------
(***************************************************************************)
(* What a synchronous tool call may rely on, whatever happens to queues,   *)
(* connections and Runner processes: it is sent at most once, it is told   *)
(* one outcome, and not_started is only ever said of a request that has    *)
(* been withdrawn before it was sent.                                      *)
(***************************************************************************)
CONSTANT Reqs

VARIABLES
    phase,    \* idle, queued, sent to a Runner, or withdrawn before that
    outcome   \* what the caller was told

Phase == {"idle", "queued", "sent", "withdrawn"}
Outcome == {"none", "result", "not_started", "outcome_unknown"}

Init ==
    /\ phase = [r \in Reqs |-> "idle"]
    /\ outcome = [r \in Reqs |-> "none"]

Moves(r, from, to) == phase[r] = from /\ phase'[r] = to
Stays(r) == phase'[r] = phase[r]
Says(r, o) == outcome[r] = "none" /\ outcome'[r] = o
Silent(r) == outcome'[r] = outcome[r]

(* Any number of calls may move in one step: a Runner that disconnects     *)
(* takes all of them along.                                                *)
Step(r) ==
    \/ Stays(r) /\ Silent(r)
    \/ Moves(r, "idle", "queued") /\ Silent(r)
    \/ Moves(r, "queued", "sent") /\ Silent(r)
    \/ Moves(r, "queued", "withdrawn") /\ (Silent(r) \/ Says(r, "not_started"))
    \/ phase[r] = "sent" /\ Stays(r) /\ Says(r, "result")
    \/ phase[r] \in {"sent", "withdrawn"} /\ Stays(r) /\ Says(r, "outcome_unknown")

Next == \A r \in Reqs : Step(r)

Spec == Init /\ [][Next]_<<phase, outcome>>
=============================================================================
