--------------------------- MODULE MaintenanceLease ---------------------------
(***************************************************************************)
(* The admission fence of an upgrade: the registry's maintenance lease and *)
(* its file, the HTTP handler in front of it, the Runners whose work it    *)
(* fences, and the Environment managers (clients) that install it before   *)
(* they stop services and remove it after they started them again.         *)
(*                                                                         *)
(* A registry operation holds the registry's mutex and is one step.  The   *)
(* handler of begin takes two: it asks for active coding-agent runs after  *)
(* the lease is installed.  A client waits for its answer and may give up  *)
(* at any time; a request it gave up is never handled later.  The clock is *)
(* a flag of the lease: fresh until its 90 seconds are over.  The Server's *)
(* process may die, its disk does not forget.                              *)
(***************************************************************************)
EXTENDS Integers, FiniteSets

CONSTANTS
    Clients,      \* Environment managers; each is its own owner
    Runners,      \* Runner client_ids
    AllRuntimes,  \* the scope of a local Server's upgrade
    Scope,        \* the scope a client fences: a Runner or AllRuntimes
    None,         \* no lease, no file
    TornSaves,    \* a save may fail after the file was replaced
    MaxOps,       \* bound on the nonces a client makes
    MaxTokens,    \* bound on the leases installed
    MaxProcs,     \* bound on the processes of a Runner
    MaxLoad,      \* bound on what is admitted: the work of a Runner and runtime calls
    MaxCalls,     \* bound on the runtime calls in progress
    MaxCrashes    \* bound on the Server's unplanned deaths

ASSUME MaintenanceAssumption ==
    /\ AllRuntimes \notin Runners
    /\ Scope \in [Clients -> Runners \cup {AllRuntimes}]
    /\ TornSaves \in BOOLEAN
    /\ {MaxOps, MaxTokens, MaxLoad, MaxCalls, MaxCrashes} \subseteq Nat /\ MaxProcs \in Nat \ {0}

VARIABLES
    up,      \* the Server runs
    lease,   \* inner.maintenance
    disk,    \* the Server's upgrade-maintenance.secret
    calls,   \* runtime_calls
    reg,     \* per Runner: the registered process, 0 for none
    online,  \* it is connected
    known,   \* its work of which the Server has a pending request or an active job
    bound,   \* the Server has an active coding-agent run of it
    proc,    \* per Runner: the process that runs, 0 for none
    hand,    \* the work it has in hand
    procs,   \* the processes it has had
    phase,   \* per client: its upgrade journal
    pc,      \* what its maintenance call waits for
    grant,   \* the lease its begin was given, or None
    file,    \* its upgrade-maintenance.secret
    fence,   \* the Runner process of the fence it was told of (0: all), or None
    ops,     \* the nonces it has made
    tokens,  \* tokens given out
    crashes

server == <<up, lease, disk, calls, reg, online, known, bound>>
runners == <<proc, hand, procs>>
clients == <<phase, pc, grant, file, fence, ops>>
vars == <<server, runners, clients, tokens, crashes>>

Lease == [owner : Clients, nonce : 1 .. MaxOps, token : 1 .. MaxTokens,
          inst : 0 .. MaxProcs, fresh : BOOLEAN]

(* A client's file is pending, with token 0, until its begin is answered.  *)
File == [nonce : 1 .. MaxOps, token : 0 .. MaxTokens]

(* No lease and no file is a value of its own. *)
ASSUME NoneAssumption == None \notin Lease \cup File

(* Work is admitted until the Server gives it up; then it is lost while    *)
(* the Server holds its terminal record, and stray when that is gone.      *)
Work == {"admitted", "lost", "stray"}

Phase == {"idle", "preparing", "stopped", "final"}

(* begin, end and end_pending wait for the handler; check is the handler   *)
(* of begin between its lease and its question for active runs; granted    *)
(* and ended are answers; cleanup is the end_pending whose answer nobody   *)
(* reads.                                                                  *)
Call == {"none", "begin", "check", "granted", "end", "end_pending", "cleanup", "ended"}

CoveredBy(scope) == {r \in Runners : scope \in {AllRuntimes, r}}

(* MaintenanceScope::covers, asked of the lease in force. *)
Covers(r) == lease # None /\ r \in CoveredBy(Scope[lease.owner])

Held(c, nonce) == lease # None /\ lease.owner = c /\ lease.nonce = nonce

(* A save that fails leaves the old file or, when only the sync of the     *)
(* directory failed, the new one.                                          *)
Saves(l) == disk' = l
SaveFails(l) == disk' \in {disk} \cup {d \in {l} : TornSaves}

(* clear_maintenance before inner.maintenance = None. *)
Clears == disk # None /\ disk' = None /\ lease' = None
-----------------------------------------------------------------------------
(***************************************************************************)
(* The Runners and their work.                                             *)
(***************************************************************************)
(* Nothing more is admitted where the bound is reached. *)
Room(r) == Cardinality(known[r] \cup hand[r]) + calls < MaxLoad

(* Every enqueue asks ensure_dispatch_supported_locked. *)
Enqueue(r) ==
    /\ up /\ ~ Covers(r) /\ reg[r] # 0 /\ online[r] /\ Room(r)
    /\ known' = [known EXCEPT ![r] = @ \cup {"admitted"}]
    /\ hand' = [hand EXCEPT ![r] = @ \cup {w \in {"admitted"} : proc[r] = reg[r]}]
    /\ UNCHANGED <<up, lease, disk, calls, reg, online, bound, proc, procs, clients, tokens, crashes>>

(* A request that nobody waits for any longer counts as ended: no          *)
(* inventory names it.                                                     *)
WorkEnds(r) ==
    /\ \E w \in hand[r] : hand' = [hand EXCEPT ![r] = @ \ {w}]
    /\ UNCHANGED <<server, proc, procs, clients, tokens, crashes>>

(* The end is reported. *)
WorkReported(r) ==
    /\ up
    /\ \E w \in known[r] \ hand[r] : known' = [known EXCEPT ![r] = @ \ {w}]
    /\ UNCHANGED <<up, lease, disk, calls, reg, online, bound, runners, clients, tokens, crashes>>

(* The grace of a job in recovery is over: it is lost, even if the Runner  *)
(* runs it.  A recovery that goes on when the Runner polls again without   *)
(* an inventory is as one that was over before.                            *)
GivenUp(r) ==
    /\ up /\ ~ online[r]
    /\ \E w \in known[r] :
          /\ known' = [known EXCEPT ![r] = @ \ {w}]
          /\ hand' = [hand EXCEPT ![r] = IF w \in @ THEN (@ \ {w}) \cup {"lost"} ELSE @]
    /\ UNCHANGED <<up, lease, disk, calls, reg, online, bound, proc, procs, clients, tokens, crashes>>

(* Without the record of its end a job is like any that is not known. *)
Unrecorded(works) == {IF w = "lost" THEN "stray" ELSE w : w \in works}

(* prune_expired_terminal_jobs_locked: the retention of a lost job is over. *)
Prune(r) ==
    /\ up /\ "lost" \in hand[r]
    /\ hand' = [hand EXCEPT ![r] = Unrecorded(@)]
    /\ UNCHANGED <<server, proc, procs, clients, tokens, crashes>>

(* What an inventory makes the Server know: a job it holds as terminal     *)
(* stays so.                                                               *)
Named(r) == hand[r] \ {"lost"}

(* register, with the job inventory of the process.  A request that waits  *)
(* for its answer outlives a reconnect, not another process.               *)
Register(r) ==
    /\ up /\ proc[r] # 0
    /\ ~ (reg[r] = proc[r] /\ online[r])
    /\ reg' = [reg EXCEPT ![r] = proc[r]]
    /\ online' = [online EXCEPT ![r] = TRUE]
    /\ \E kept \in SUBSET {w \in known[r] : reg[r] = proc[r]} :
          known' = [known EXCEPT ![r] = Named(r) \cup kept]
    /\ UNCHANGED <<up, lease, disk, calls, bound, runners, clients, tokens, crashes>>

(* A poll after a silence that was too long. *)
Heard(r) ==
    /\ up /\ ~ online[r] /\ reg[r] = proc[r] /\ proc[r] # 0
    /\ online' = [online EXCEPT ![r] = TRUE]
    /\ UNCHANGED <<up, lease, disk, calls, reg, known, bound, runners, clients, tokens, crashes>>

Disconnect(r) ==
    /\ up /\ online[r]
    /\ online' = [online EXCEPT ![r] = FALSE]
    /\ UNCHANGED <<up, lease, disk, calls, reg, known, bound, runners, clients, tokens, crashes>>

(* Detached jobs survive their Runner. *)
StopProcess(r) ==
    /\ proc' = [proc EXCEPT ![r] = 0]
    /\ \E rest \in SUBSET hand[r] : hand' = [hand EXCEPT ![r] = rest]

ProcessDies(r) ==
    /\ proc[r] # 0
    /\ StopProcess(r)
    /\ UNCHANGED <<server, procs, clients, tokens, crashes>>

ProcessStarts(r) ==
    /\ proc[r] = 0 /\ procs[r] < MaxProcs
    /\ procs' = [procs EXCEPT ![r] = @ + 1]
    /\ proc' = [proc EXCEPT ![r] = procs[r] + 1]
    /\ UNCHANGED <<server, hand, clients, tokens, crashes>>
-----------------------------------------------------------------------------
(***************************************************************************)
(* Tool calls on the Server.                                               *)
(***************************************************************************)
AdmitRuntimeCall ==
    /\ up /\ calls < MaxCalls /\ \A r \in Runners : Room(r)
    /\ ~ (lease # None /\ Scope[lease.owner] = AllRuntimes)
    /\ calls' = calls + 1
    /\ UNCHANGED <<up, lease, disk, reg, online, known, bound, runners, clients, tokens, crashes>>

(* The permit is dropped. *)
RuntimeCallReturns ==
    /\ up /\ calls > 0
    /\ calls' = calls - 1
    /\ UNCHANGED <<up, lease, disk, reg, online, known, bound, runners, clients, tokens, crashes>>

(* A call binds a run it has started, or observes its end.  Neither asks   *)
(* for the lease: the request behind it was admitted and is over.          *)
BindRun(r) ==
    /\ up /\ calls > 0 /\ reg[r] # 0
    /\ bound' = [bound EXCEPT ![r] = ~ @]
    /\ UNCHANGED <<up, lease, disk, calls, reg, online, known, runners, clients, tokens, crashes>>
-----------------------------------------------------------------------------
(***************************************************************************)
(* The Server's process.                                                   *)
(***************************************************************************)
(* The records go with the memory; of a terminal one a receipt may stay,   *)
(* of a detached job there is none (capture).                              *)
StopServer ==
    /\ up' = FALSE /\ lease' = None /\ calls' = 0
    /\ reg' = [r \in Runners |-> 0]
    /\ online' = [r \in Runners |-> FALSE]
    /\ known' = [r \in Runners |-> {}]
    /\ bound' = [r \in Runners |-> FALSE]
    /\ \E receipts \in SUBSET Runners :
          hand' = [r \in Runners |-> IF r \in receipts THEN hand[r] ELSE Unrecorded(hand[r])]
    /\ UNCHANGED disk

(* A call in progress fails with the Server. *)
HangUp == [c \in Clients |-> IF pc[c] \in {"granted", "ended"} THEN pc[c] ELSE "none"]

ServerDies ==
    /\ up /\ crashes < MaxCrashes
    /\ StopServer
    /\ pc' = HangUp
    /\ crashes' = crashes + 1
    /\ UNCHANGED <<proc, procs, phase, grant, file, fence, ops, tokens>>

(* Mutant: a lease that expired while the Server was down is not restored. *)
LoadFresh ==
    IF disk = None THEN {None}
    ELSE {IF f THEN disk ELSE None : f \in {disk.fresh, FALSE}}

(* What attach_maintenance_store may restore. *)
Load ==
    IF disk = None THEN {None}
    ELSE {[disk EXCEPT !.fresh = f] : f \in {disk.fresh, FALSE}}

ServerStarts ==
    /\ ~ up /\ up' = TRUE
    /\ lease' \in Load
    /\ UNCHANGED <<disk, calls, reg, online, known, bound, runners, clients, tokens, crashes>>

Expire ==
    /\ lease # None /\ lease.fresh
    /\ lease' = [lease EXCEPT !.fresh = FALSE]
    /\ disk' = [disk EXCEPT !.fresh = FALSE]
    /\ UNCHANGED <<up, calls, reg, online, known, bound, runners, clients, tokens, crashes>>
-----------------------------------------------------------------------------
(***************************************************************************)
(* begin_maintenance and its handler.                                      *)
(***************************************************************************)
(* Mutant: the jobs of the Runner are not looked at. *)
QuiescentIdle(scope) ==
    /\ scope = AllRuntimes => calls = 0
    /\ scope # AllRuntimes => online[scope]

(* What a new lease requires. *)
Quiescent(scope) ==
    /\ scope = AllRuntimes => calls = 0
    /\ scope # AllRuntimes => online[scope]
    /\ \A r \in CoveredBy(scope) : known[r] = {}

(* Mutant: the process is not recorded. *)
UnrecordedProcess(scope) == IF scope = AllRuntimes THEN 0 ELSE MaxProcs + 1

TargetProcess(scope) == IF scope = AllRuntimes THEN 0 ELSE reg[scope]

NewLease(c) == [owner |-> c, nonce |-> file[c].nonce, token |-> tokens + 1,
                inst |-> TargetProcess(Scope[c]), fresh |-> TRUE]

(* 409, or no answer: the client's upgrade stops there. *)
Refused(c) ==
    /\ pc' = [pc EXCEPT ![c] = "none"]
    /\ fence' = [fence EXCEPT ![c] = None]

Install(c) ==
    /\ lease = None /\ Quiescent(Scope[c]) /\ tokens < MaxTokens
    /\ tokens' = tokens + 1
    /\ \/ /\ Saves(NewLease(c))
          /\ lease' = NewLease(c)
          /\ grant' = [grant EXCEPT ![c] = NewLease(c)]
          /\ pc' = [pc EXCEPT ![c] = "check"]
          /\ UNCHANGED fence
       \/ /\ SaveFails(NewLease(c))
          /\ Refused(c)
          /\ UNCHANGED <<lease, grant>>

(* The same owner and nonce, again: the same token. *)
Refresh(c) ==
    /\ Held(c, file[c].nonce) /\ lease.fresh
    /\ \/ /\ Saves(lease)
          /\ grant' = [grant EXCEPT ![c] = lease]
          /\ pc' = [pc EXCEPT ![c] = "check"]
          /\ UNCHANGED fence
       \/ /\ SaveFails(lease)
          /\ Refused(c)
          /\ UNCHANGED grant
    /\ UNCHANGED <<lease, tokens>>

Busy(c) ==
    /\ IF lease = None THEN ~ Quiescent(Scope[c])
                       ELSE ~ (Held(c, file[c].nonce) /\ lease.fresh)
    /\ Refused(c)
    /\ UNCHANGED <<lease, disk, grant, tokens>>

BeginMaintenance(c) ==
    /\ up /\ pc[c] = "begin"
    /\ Install(c) \/ Refresh(c) \/ Busy(c)
    /\ UNCHANGED <<up, calls, reg, online, known, bound, runners, phase, file, ops, crashes>>

(* The lease in force is the one the handler was given. *)
Granting(c) == Held(c, grant[c].nonce) /\ lease.token = grant[c].token

ActiveRuns(c) == {r \in CoveredBy(Scope[c]) : bound[r]}

(* active_runs_for_maintenance; its end_maintenance may fail unnoticed. *)
CheckRuns(c) ==
    /\ up /\ pc[c] = "check"
    /\ \/ /\ ActiveRuns(c) = {}
          /\ pc' = [pc EXCEPT ![c] = "granted"]
          /\ UNCHANGED <<lease, disk, fence>>
       \/ /\ ActiveRuns(c) # {}
          /\ Refused(c)
          /\ \/ Granting(c) /\ Clears
             \/ UNCHANGED <<lease, disk>>
    /\ UNCHANGED <<up, calls, reg, online, known, bound, runners, phase, grant, file, ops, tokens, crashes>>
-----------------------------------------------------------------------------
(***************************************************************************)
(* renew, end, end_pending and recovery.                                   *)
(***************************************************************************)
(* A renewal moves the deadline of a lease that has not expired. *)
RenewMaintenance(c) ==
    /\ up /\ pc[c] = "none" /\ file[c] # None
    /\ Held(c, lease.nonce) /\ lease.token = file[c].token /\ lease.fresh
    /\ Saves(lease)
    /\ UNCHANGED <<up, lease, calls, reg, online, known, bound, runners, clients, tokens, crashes>>

(* A refused end is asked again by its nonce. *)
EndMaintenance(c) ==
    /\ up /\ pc[c] = "end"
    /\ \/ /\ Held(c, lease.nonce) /\ lease.token = file[c].token
          /\ Clears
          /\ pc' = [pc EXCEPT ![c] = "ended"]
       \/ /\ pc' = [pc EXCEPT ![c] = "end_pending"]
          /\ UNCHANGED <<lease, disk>>
    /\ UNCHANGED <<up, calls, reg, online, known, bound, runners, phase, grant, file, fence, ops, tokens, crashes>>

(* A lease that is not the caller's, or none, is also success. *)
EndPendingMaintenance(c) ==
    /\ up /\ pc[c] \in {"end_pending", "cleanup"}
    /\ \/ /\ Held(c, file[c].nonce) /\ Clears
          /\ pc' = [pc EXCEPT ![c] = IF @ = "cleanup" THEN "none" ELSE "ended"]
       \/ /\ Held(c, file[c].nonce)
          /\ pc' = [pc EXCEPT ![c] = "none"]
          /\ UNCHANGED <<lease, disk>>
       \/ /\ ~ Held(c, file[c].nonce)
          /\ pc' = [pc EXCEPT ![c] = IF @ = "cleanup" THEN "none" ELSE "ended"]
          /\ UNCHANGED <<lease, disk>>
    /\ UNCHANGED <<up, calls, reg, online, known, bound, runners, phase, grant, file, fence, ops, tokens, crashes>>

(* The fenced Runner is back as another process. *)
Replaced(l) == online[Scope[l.owner]] /\ reg[Scope[l.owner]] # l.inst

RecoverExpiredRunnerMaintenance ==
    /\ up /\ lease # None /\ ~ lease.fresh
    /\ Scope[lease.owner] # AllRuntimes
    /\ Replaced(lease)
    /\ known[Scope[lease.owner]] = {}
    /\ Clears
    /\ UNCHANGED <<up, calls, reg, online, known, bound, runners, clients, tokens, crashes>>
-----------------------------------------------------------------------------
(***************************************************************************)
(* The Environment manager.                                                *)
(***************************************************************************)
StartUpgrade(c) ==
    /\ phase[c] = "idle"
    /\ phase' = [phase EXCEPT ![c] = "preparing"]
    /\ UNCHANGED <<server, runners, pc, grant, file, fence, ops, tokens, crashes>>

(* The nonce is durable before the call. *)
CallBegin(c) ==
    /\ up /\ phase[c] = "preparing" /\ pc[c] = "none"
    /\ \/ /\ file[c] = None /\ ops[c] < MaxOps
          /\ ops' = [ops EXCEPT ![c] = @ + 1]
          /\ file' = [file EXCEPT ![c] = [nonce |-> ops[c] + 1, token |-> 0]]
       \/ file[c] # None /\ UNCHANGED <<ops, file>>
    /\ pc' = [pc EXCEPT ![c] = "begin"]
    /\ UNCHANGED <<server, runners, phase, grant, fence, tokens, crashes>>

(* When the token cannot be saved the begin is taken back. *)
Granted(c) ==
    /\ pc[c] = "granted"
    /\ \/ /\ file' = [file EXCEPT ![c].token = grant[c].token]
          /\ fence' = [fence EXCEPT ![c] = grant[c].inst]
          /\ pc' = [pc EXCEPT ![c] = "none"]
       \/ /\ pc' = [pc EXCEPT ![c] = IF up THEN "cleanup" ELSE "none"]
          /\ fence' = [fence EXCEPT ![c] = None]
          /\ UNCHANGED file
    /\ grant' = [grant EXCEPT ![c] = None]
    /\ UNCHANGED <<server, runners, phase, ops, tokens, crashes>>

(* The call fails: it times out, or its answer is lost. *)
GiveUp(c) ==
    /\ pc[c] # "none"
    /\ Refused(c)
    /\ grant' = [grant EXCEPT ![c] = None]
    /\ UNCHANGED <<server, runners, phase, file, ops, tokens, crashes>>

(* Stop of the fenced services, right after a begin that was granted. *)
StopServices(c) ==
    /\ phase[c] = "preparing" /\ pc[c] = "none" /\ fence[c] # None
    /\ phase' = [phase EXCEPT ![c] = "stopped"]
    /\ \/ /\ Scope[c] = AllRuntimes /\ up
          /\ StopServer
          /\ pc' = HangUp
          /\ UNCHANGED proc
       \/ /\ Scope[c] # AllRuntimes
          /\ StopProcess(Scope[c])
          /\ UNCHANGED <<server, pc>>
    /\ UNCHANGED <<procs, grant, file, fence, ops, tokens, crashes>>

(* The final decision, Committed or RolledBack, is durable once the        *)
(* services were seen to run.                                              *)
FinishUpgrade(c) ==
    /\ phase[c] \in {"preparing", "stopped"} /\ pc[c] = "none"
    /\ IF Scope[c] = AllRuntimes THEN up ELSE proc[Scope[c]] # 0
    /\ phase' = [phase EXCEPT ![c] = "final"]
    /\ UNCHANGED <<server, runners, pc, grant, file, fence, ops, tokens, crashes>>

CallEnd(c) ==
    /\ phase[c] = "final" /\ pc[c] = "none" /\ file[c] # None /\ up
    /\ pc' = [pc EXCEPT ![c] = IF file[c].token = 0 THEN "end_pending" ELSE "end"]
    /\ fence' = [fence EXCEPT ![c] = None]
    /\ UNCHANGED <<server, runners, phase, grant, file, ops, tokens, crashes>>

(* The release is confirmed, or there was nothing to release. *)
Ended(c) ==
    /\ phase[c] = "final"
    /\ pc[c] = "ended" \/ file[c] = None
    /\ phase' = [phase EXCEPT ![c] = "idle"]
    /\ file' = [file EXCEPT ![c] = None]
    /\ pc' = [pc EXCEPT ![c] = "none"]
    /\ UNCHANGED <<server, runners, grant, fence, ops, tokens, crashes>>
-----------------------------------------------------------------------------
Init ==
    /\ up = TRUE /\ lease = None /\ disk = None /\ calls = 0
    /\ reg = [r \in Runners |-> 1] /\ online = [r \in Runners |-> TRUE]
    /\ known = [r \in Runners |-> {}] /\ bound = [r \in Runners |-> FALSE]
    /\ proc = [r \in Runners |-> 1] /\ procs = [r \in Runners |-> 1]
    /\ hand = [r \in Runners |-> {}]
    /\ phase = [c \in Clients |-> "idle"] /\ pc = [c \in Clients |-> "none"]
    /\ grant = [c \in Clients |-> None] /\ file = [c \in Clients |-> None]
    /\ fence = [c \in Clients |-> None] /\ ops = [c \in Clients |-> 0]
    /\ tokens = 0 /\ crashes = 0

Next ==
    \/ \E r \in Runners : \/ Enqueue(r) \/ WorkEnds(r) \/ WorkReported(r)
                          \/ GivenUp(r) \/ Prune(r) \/ Register(r) \/ Heard(r) \/ Disconnect(r) \/ BindRun(r)
                          \/ ProcessDies(r) \/ ProcessStarts(r)
    \/ AdmitRuntimeCall \/ RuntimeCallReturns
    \/ ServerDies \/ ServerStarts \/ Expire \/ RecoverExpiredRunnerMaintenance
    \/ \E c \in Clients : \/ BeginMaintenance(c) \/ CheckRuns(c) \/ RenewMaintenance(c)
                          \/ EndMaintenance(c) \/ EndPendingMaintenance(c)
                          \/ StartUpgrade(c) \/ CallBegin(c) \/ Granted(c) \/ GiveUp(c)
                          \/ StopServices(c) \/ FinishUpgrade(c) \/ CallEnd(c) \/ Ended(c)

Spec == Init /\ [][Next]_vars
-----------------------------------------------------------------------------
(***************************************************************************)
(* Properties.                                                             *)
(***************************************************************************)
(* A lease names the process of the Runner it fences, and none when it     *)
(* fences all (begin_maintenance); a pending begin has a nonce on the      *)
(* client's disk before the Server hears of it.                            *)
TypeOK ==
    /\ up \in BOOLEAN /\ calls \in 0 .. MaxCalls
    /\ {lease, disk} \subseteq Lease \cup {None} /\ grant \in [Clients -> Lease \cup {None}]
    /\ \A l \in {lease, disk} \ {None} : (l.inst = 0) <=> (Scope[l.owner] = AllRuntimes)
    /\ {reg, proc, procs} \subseteq [Runners -> 0 .. MaxProcs]
    /\ {online, bound} \subseteq [Runners -> BOOLEAN]
    /\ hand \in [Runners -> SUBSET Work] /\ known \in [Runners -> SUBSET (Work \ {"lost"})]
    /\ phase \in [Clients -> Phase] /\ pc \in [Clients -> Call]
    /\ file \in [Clients -> File \cup {None}]
    /\ fence \in [Clients -> 0 .. MaxProcs \cup {None}]
    /\ \A c \in Clients : pc[c] # "none" => file[c] # None
    /\ ops \in [Clients -> 0 .. MaxOps]
    /\ tokens \in 0 .. MaxTokens /\ crashes \in 0 .. MaxCrashes

(* No other process of the fenced Runner was started since the grant. *)
SameProcess(c) == Scope[c] = AllRuntimes \/ procs[Scope[c]] = fence[c]

(* From the answer to its begin until it asks for the end, a client's      *)
(* fence keeps the Server closed for everything it covers: across the      *)
(* Server's restarts, past its deadline, with failing writes, another      *)
(* owner and a recovery, as long as the Runner it is for has not become    *)
(* another process (begin_maintenance: "it cannot be stolen by a second    *)
(* upgrader").                                                             *)
FenceIsKept ==
    \A c \in Clients :
        fence[c] # None /\ up /\ SameProcess(c) =>
            /\ lease # None /\ lease.owner = c
            /\ \A r \in CoveredBy(Scope[c]) : Covers(r)

(* While a Runner is fenced the Server knows of no work of it but jobs it  *)
(* had given up as lost before: whatever reconnects, restarts or expires,  *)
(* no work that was admitted comes under the fence of begin_maintenance    *)
(* ("atomic with Runner enqueue").  A lost job may: its Runner can still   *)
(* run it, and name it to a Server that forgot that it was lost.           *)
QuietRunner ==
    lease # None /\ Scope[lease.owner] # AllRuntimes => "admitted" \notin known[Scope[lease.owner]]
-----------------------------------------------------------------------------
(***************************************************************************)
(* The inductive invariant.                                                *)
(***************************************************************************)
(* A Server that does not run has forgotten everything but its file. *)
StoppedServer ==
    ~ up => lease = None /\ \A r \in Runners : ~ online[r] /\ known[r] = {}

(* The lease in force is the one on disk; only the deadline may differ. *)
LeaseOnDisk ==
    lease # None => disk # None /\ disk.owner = lease.owner /\ disk.inst = lease.inst

(* Processes are numbered in the order of their starts, and the registry   *)
(* never knows a later one than there was.                                 *)
ProcessOrder ==
    \A r \in Runners :
        /\ proc[r] \in {0, procs[r]} /\ reg[r] <= procs[r]
        /\ online[r] => reg[r] # 0

(* Admitted work of a registered Runner is known. *)
WorkKnown == \A r \in Runners : reg[r] # 0 /\ "admitted" \in hand[r] => "admitted" \in known[r]

(* A lease names a process that was started, and its Runner does not come  *)
(* back as an earlier one.                                                 *)
LeaseProcess ==
    disk # None /\ Scope[disk.owner] # AllRuntimes =>
        /\ disk.inst <= procs[Scope[disk.owner]]
        /\ online[Scope[disk.owner]] => disk.inst <= reg[Scope[disk.owner]]

(* The answer to a begin on its way, and the fence a client was told of. *)
Promised(c) == pc[c] \in {"check", "granted"}
Stands(c, inst) == Scope[c] = AllRuntimes \/ procs[Scope[c]] = inst

PromisesKept ==
    \A c \in Clients :
        /\ Promised(c) => grant[c] # None
        /\ pc[c] \in {"end", "end_pending", "cleanup", "ended"} => fence[c] = None
        /\ Scope[c] # AllRuntimes =>
              /\ Promised(c) => grant[c].inst <= procs[Scope[c]]
              /\ fence[c] # None => fence[c] <= procs[Scope[c]]
        /\ \/ Promised(c) /\ Stands(c, grant[c].inst)
           \/ fence[c] # None /\ Stands(c, fence[c])
           => /\ disk # None /\ disk.owner = c
              /\ Scope[c] # AllRuntimes => disk.inst = procs[Scope[c]]
              /\ up => lease # None

MaintenanceInv ==
    /\ TypeOK /\ StoppedServer /\ LeaseOnDisk /\ ProcessOrder
    /\ LeaseProcess /\ PromisesKept

(* Where no save is torn the fenced Runner has no work that was not given  *)
(* up, not even when neither runs.                                         *)
FencedWork ==
    /\ WorkKnown
    /\ up /\ disk # None => lease # None
    /\ disk # None /\ Scope[disk.owner] # AllRuntimes =>
          "admitted" \notin known[Scope[disk.owner]] \cup hand[Scope[disk.owner]]
=============================================================================
