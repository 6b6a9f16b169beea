------------------------- MODULE MaintenanceLeaseProofs -------------------------
(***************************************************************************)
(* Theorems about the maintenance lease, for any clients, Runners, scopes  *)
(* and bounds: a granted fence is kept whatever happens to the Server, its *)
(* disk and the calls; and, where no save is torn, the Server knows of no  *)
(* work of a fenced Runner but jobs it had given up.                       *)
(***************************************************************************)
EXTENDS MaintenanceLease, TLAPS

(* What the registry knows of its Runners when it starts. *)
LEMMA NobodyYet ==
    /\ [r \in Runners |-> FALSE] \in [Runners -> BOOLEAN]
    /\ [r \in Runners |-> {}] \in [Runners -> SUBSET (Work \ {"lost"})]
    OBVIOUS

(* Losing a record turns work that was lost into a stray, and no other.    *)
LEMMA Forgotten ==
    ASSUME NEW works \in SUBSET Work
    PROVE  /\ Unrecorded(works) \in SUBSET Work
           /\ "admitted" \in Unrecorded(works) <=> "admitted" \in works
    BY DEF Unrecorded, Work

(* What the stop of the Server leaves of the work of the Runners. *)
LEMMA StoppedWork ==
    ASSUME TypeOK, StopServer
    PROVE  /\ hand' \in [Runners -> SUBSET Work]
           /\ \A r \in Runners : "admitted" \in hand'[r] <=> "admitted" \in hand[r]
<1>1. PICK receipts \in SUBSET Runners :
        hand' = [r \in Runners |-> IF r \in receipts THEN hand[r] ELSE Unrecorded(hand[r])]
    BY DEF StopServer
<1>2. \A r \in Runners : hand[r] \in SUBSET Work
    BY DEF TypeOK
<1> QED BY <1>1, <1>2, Forgotten

(* A lease that has expired is otherwise the same. *)
LEMMA ExpiredLease ==
    ASSUME NEW l \in Lease, NEW f \in BOOLEAN
    PROVE  LET e == [l EXCEPT !.fresh = f]
           IN  e \in Lease /\ e # None /\ e.owner = l.owner /\ e.inst = l.inst
    BY NoneAssumption DEF Lease

(* A start of the Server restores the lease on disk, or none. *)
LEMMA Restored ==
    ASSUME disk \in Lease \cup {None}, NEW l \in Load
    PROVE  \/ disk = None /\ l = None
           \/ /\ disk \in Lease /\ l \in Lease /\ l # None
              /\ l.owner = disk.owner /\ l.inst = disk.inst
<1>1. CASE disk = None
    BY <1>1 DEF Load
<1>2. CASE disk # None
    <2>1. PICK f \in BOOLEAN : l = [disk EXCEPT !.fresh = f]
        BY <1>2 DEF Load, Lease
    <2>2. disk \in Lease
        BY <1>2
    <2> QED BY <1>2, <2>1, <2>2, ExpiredLease
<1> QED BY <1>1, <1>2

(* The lease a begin would install: it names its owner and, unless it is   *)
(* for all runtimes, the connected process.                                *)
LEMMA NewLeaseType ==
    ASSUME MaintenanceInv, NEW c \in Clients, pc[c] = "begin", Quiescent(Scope[c]), tokens < MaxTokens
    PROVE  /\ NewLease(c) \in Lease /\ NewLease(c) # None
           /\ NewLease(c).owner = c
           /\ NewLease(c).inst = TargetProcess(Scope[c])
           /\ NewLease(c).inst = 0 <=> Scope[c] = AllRuntimes
<1> USE MaintenanceAssumption, NoneAssumption DEF MaintenanceInv, TypeOK
<1>1. file[c] \in File
    OBVIOUS
<1>2. TargetProcess(Scope[c]) \in 0 .. MaxProcs /\ (TargetProcess(Scope[c]) = 0 <=> Scope[c] = AllRuntimes)
    BY DEF TargetProcess, Quiescent, ProcessOrder
<1>3. tokens + 1 \in 1 .. MaxTokens
    OBVIOUS
<1>4. file[c].nonce \in 1 .. MaxOps
    BY <1>1 DEF File
<1>5. NewLease(c) \in Lease
    BY <1>2, <1>3, <1>4 DEF NewLease, Lease
<1>6. NewLease(c).owner = c /\ NewLease(c).inst = TargetProcess(Scope[c])
    BY DEF NewLease
<1> QED BY <1>2, <1>5, <1>6

(* What a begin does to the lease: it installs a new one, saves the one in *)
(* force again, or refuses; a save that fails refuses too.                 *)
LEMMA BeginCases ==
    ASSUME MaintenanceInv, NEW c \in Clients, BeginMaintenance(c)
    PROVE  /\ \/ /\ lease = None /\ Quiescent(Scope[c])
                 /\ pc[c] = "begin" /\ tokens < MaxTokens
                 /\ disk' = NewLease(c) /\ lease' = NewLease(c)
                 /\ grant' = [grant EXCEPT ![c] = NewLease(c)]
                 /\ pc' = [pc EXCEPT ![c] = "check"]
                 /\ fence' = fence /\ tokens' = tokens + 1
              \/ /\ lease # None /\ lease.owner = c
                 /\ disk' = lease /\ lease' = lease
                 /\ grant' = [grant EXCEPT ![c] = lease]
                 /\ pc' = [pc EXCEPT ![c] = "check"]
                 /\ fence' = fence /\ tokens' = tokens
              \/ /\ \/ tokens' = tokens /\ disk' = disk
                    \/ tokens' = tokens /\ lease # None /\ disk' = lease
                    \/ /\ lease = None /\ Quiescent(Scope[c]) /\ pc[c] = "begin" /\ tokens < MaxTokens
                       /\ tokens' = tokens + 1
                       /\ disk' = disk \/ (TornSaves /\ disk' = NewLease(c))
                 /\ lease' = lease /\ grant' = grant
                 /\ pc' = [pc EXCEPT ![c] = "none"]
                 /\ fence' = [fence EXCEPT ![c] = None]
           /\ up /\ UNCHANGED <<up, calls, reg, online, known, bound, runners, phase, file, ops, crashes>>
<1>1. CASE Install(c)
    BY <1>1 DEF BeginMaintenance, Install, Saves, SaveFails, Refused
<1>2. CASE Refresh(c)
    BY <1>2 DEF BeginMaintenance, Refresh, Saves, SaveFails, Refused, Held
<1>3. CASE Busy(c)
    BY <1>3 DEF BeginMaintenance, Busy, Refused
<1> QED BY <1>1, <1>2, <1>3 DEF BeginMaintenance

(* Every step keeps the types. *)
LEMMA TypeStep ==
    ASSUME MaintenanceInv, [Next]_vars
    PROVE  TypeOK'
<1> USE MaintenanceAssumption, NoneAssumption DEF MaintenanceInv, TypeOK, Lease, File,
        Phase, Call
<1>1. ASSUME NEW r \in Runners, Enqueue(r) PROVE TypeOK'
   BY <1>1 DEF Enqueue, clients, Work
<1>2. ASSUME NEW r \in Runners, WorkEnds(r) PROVE TypeOK'
   BY <1>2 DEF WorkEnds, server, clients
<1>3. ASSUME NEW r \in Runners, WorkReported(r) PROVE TypeOK'
   BY <1>3 DEF WorkReported, runners, clients
<1>3a. ASSUME NEW r \in Runners, GivenUp(r) PROVE TypeOK'
   BY <1>3a DEF GivenUp, clients, Work
<1>3b. ASSUME NEW r \in Runners, Prune(r) PROVE TypeOK'
   BY <1>3b, Forgotten DEF Prune, server, clients
<1>3c. ASSUME NEW r \in Runners, Heard(r) PROVE TypeOK'
   BY <1>3c DEF Heard, runners, clients
<1>4. ASSUME NEW r \in Runners, Register(r) PROVE TypeOK'
   BY <1>4 DEF Register, Named, runners, clients
<1>5. ASSUME NEW r \in Runners, Disconnect(r) PROVE TypeOK'
   BY <1>5 DEF Disconnect, runners, clients
<1>6. ASSUME NEW r \in Runners, BindRun(r) PROVE TypeOK'
   BY <1>6 DEF BindRun, runners, clients
<1>7. ASSUME NEW r \in Runners, ProcessDies(r) PROVE TypeOK'
   BY <1>7 DEF ProcessDies, StopProcess, server, clients
<1>8. ASSUME NEW r \in Runners, ProcessStarts(r) PROVE TypeOK'
   BY <1>8 DEF ProcessStarts, server, clients
<1>9. ASSUME AdmitRuntimeCall PROVE TypeOK'
   BY <1>9 DEF AdmitRuntimeCall, runners, clients
<1>10. ASSUME RuntimeCallReturns PROVE TypeOK'
   BY <1>10 DEF RuntimeCallReturns, runners, clients
<1>11. ASSUME ServerDies PROVE TypeOK'
    <2>1. pc' \in [Clients -> Call] /\ \A c \in Clients : pc'[c] # "none" => pc[c] # "none"
        BY <1>11 DEF ServerDies, HangUp
    <2>2. reg' \in [Runners -> 0 .. MaxProcs] /\ crashes' \in 0 .. MaxCrashes /\ calls' \in 0 .. MaxCalls
        BY <1>11 DEF ServerDies, StopServer
    <2>3. /\ {online', bound'} \subseteq [Runners -> BOOLEAN] /\ up' \in BOOLEAN
          /\ known' \in [Runners -> SUBSET (Work \ {"lost"})] /\ hand' \in [Runners -> SUBSET Work]
        <3>1. StopServer
            BY <1>11 DEF ServerDies
        <3> QED BY <3>1, NobodyYet, StoppedWork DEF StopServer
    <2> QED BY <1>11, <2>1, <2>2, <2>3 DEF ServerDies, StopServer
<1>12. ASSUME ServerStarts PROVE TypeOK'
    BY <1>12, Restored DEF ServerStarts, runners, clients
<1>13. ASSUME Expire PROVE TypeOK'
    <2>1. lease \in Lease /\ disk \in Lease
        BY <1>13 DEF Expire, LeaseOnDisk
    <2> HIDE DEF Lease
    <2>2. lease' \in Lease /\ lease'.owner = lease.owner /\ lease'.inst = lease.inst
        BY <1>13, <2>1, ExpiredLease DEF Expire
    <2>3. disk' \in Lease /\ disk'.owner = disk.owner /\ disk'.inst = disk.inst
        BY <1>13, <2>1, ExpiredLease DEF Expire
    <2>4. \A l \in {lease', disk'} \ {None} : l.inst = 0 <=> Scope[l.owner] = AllRuntimes
        BY <2>1, <2>2, <2>3
    <2>5. UNCHANGED <<up, calls, reg, online, known, bound, runners, clients, tokens, crashes>>
        BY <1>13 DEF Expire
    <2> QED BY <2>2, <2>3, <2>4, <2>5 DEF runners, clients
<1>14. ASSUME RecoverExpiredRunnerMaintenance PROVE TypeOK'
   BY <1>14 DEF RecoverExpiredRunnerMaintenance, Clears, Replaced, runners, clients
<1>15. ASSUME NEW c \in Clients, BeginMaintenance(c) PROVE TypeOK'
    <2>1. TypeOK /\ LeaseOnDisk
        OBVIOUS
    <2> HIDE DEF MaintenanceInv, Lease
    <2>2. lease' \in Lease \cup {None} /\ disk' \in Lease \cup {None} /\ grant' \in [Clients -> Lease \cup {None}]
        BY <1>15, <2>1, BeginCases, NewLeaseType
    <2>3. \A l \in {lease', disk'} \ {None} : l.inst = 0 <=> Scope[l.owner] = AllRuntimes
        BY <1>15, <2>1, BeginCases, NewLeaseType
    <2>4. fence' = fence \/ fence' = [fence EXCEPT ![c] = None]
        BY <1>15, BeginCases
    <2>5. pc' = [pc EXCEPT ![c] = "check"] \/ pc' = [pc EXCEPT ![c] = "none"]
        BY <1>15, BeginCases
    <2>6. fence' \in [Clients -> 0 .. MaxProcs \cup {None}] /\ pc' \in [Clients -> Call]
          /\ (\A d \in Clients : pc'[d] # "none" => pc[d] # "none" \/ d = c)
        BY <2>1, <2>4, <2>5
    <2>7. file[c] # None
        BY <1>15, <2>1 DEF BeginMaintenance
    <2>8. tokens' \in 0 .. MaxTokens
        BY <1>15, <2>1, BeginCases
    <2>9. UNCHANGED <<up, calls, reg, online, known, bound, runners, phase, file, ops, crashes>>
        BY <1>15, BeginCases
    <2> QED BY <2>1, <2>2, <2>3, <2>6, <2>7, <2>8, <2>9 DEF runners
<1>16. ASSUME NEW c \in Clients, CheckRuns(c) PROVE TypeOK'
   BY <1>16 DEF CheckRuns, Refused, Granting, Clears, Held, runners
<1>17. ASSUME NEW c \in Clients, RenewMaintenance(c) PROVE TypeOK'
   BY <1>17 DEF RenewMaintenance, Saves, Held, runners, clients
<1>18. ASSUME NEW c \in Clients, EndMaintenance(c) PROVE TypeOK'
   BY <1>18 DEF EndMaintenance, Clears, Held, runners
<1>19. ASSUME NEW c \in Clients, EndPendingMaintenance(c) PROVE TypeOK'
   BY <1>19 DEF EndPendingMaintenance, Clears, Held, runners
<1>20. ASSUME NEW c \in Clients, StartUpgrade(c) PROVE TypeOK'
   BY <1>20 DEF StartUpgrade, server, runners
<1>21. ASSUME NEW c \in Clients, CallBegin(c) PROVE TypeOK'
    <2>1. file' \in [Clients -> File \cup {None}] /\ ops' \in [Clients -> 0 .. MaxOps]
        BY <1>21 DEF CallBegin
    <2>2. pc' \in [Clients -> Call] /\ \A d \in Clients : pc'[d] # "none" => file'[d] # None
        BY <1>21 DEF CallBegin
    <2>3. UNCHANGED <<server, runners, phase, grant, fence, tokens, crashes>>
        BY <1>21 DEF CallBegin
    <2> HIDE DEF Lease, File, Call
    <2> QED BY <2>1, <2>2, <2>3 DEF server, runners
<1>22. ASSUME NEW c \in Clients, Granted(c) PROVE TypeOK'
    <2>1. grant[c] \in Lease
        BY <1>22 DEF Granted, PromisesKept, Promised
    <2>2. file[c] \in File
        BY <1>22 DEF Granted
    <2> QED BY <1>22, <2>1, <2>2 DEF Granted, server, runners
<1>23. ASSUME NEW c \in Clients, GiveUp(c) PROVE TypeOK'
   BY <1>23 DEF GiveUp, Refused, server, runners
<1>24. ASSUME NEW c \in Clients, StopServices(c) PROVE TypeOK'
    <2>1. pc' \in [Clients -> Call] /\ \A d \in Clients : pc'[d] # "none" => pc[d] # "none"
        BY <1>24 DEF StopServices, HangUp, server
    <2>2. CASE Scope[c] = AllRuntimes
        <3>1. reg' \in [Runners -> 0 .. MaxProcs] /\ phase' \in [Clients -> Phase] /\ calls' \in 0 .. MaxCalls
            BY <1>24, <2>2 DEF StopServices, StopServer
        <3>2. /\ {online', bound'} \subseteq [Runners -> BOOLEAN] /\ up' \in BOOLEAN
              /\ known' \in [Runners -> SUBSET (Work \ {"lost"})] /\ hand' \in [Runners -> SUBSET Work]
            <4>1. StopServer
                BY <1>24, <2>2 DEF StopServices
            <4> QED BY <4>1, NobodyYet, StoppedWork DEF StopServer
        <3> QED BY <1>24, <2>1, <2>2, <3>1, <3>2 DEF StopServices, StopServer
    <2>3. CASE Scope[c] # AllRuntimes
        <3>1. proc' \in [Runners -> 0 .. MaxProcs] /\ phase' \in [Clients -> Phase]
            BY <1>24, <2>3 DEF StopServices, StopProcess
        <3>2. hand' \in [Runners -> SUBSET Work]
            BY <1>24, <2>3 DEF StopServices, StopProcess
        <3> QED BY <1>24, <2>1, <2>3, <3>1, <3>2 DEF StopServices, StopProcess, server
    <2> QED BY <2>2, <2>3
<1>25. ASSUME NEW c \in Clients, FinishUpgrade(c) PROVE TypeOK'
   BY <1>25 DEF FinishUpgrade, server, runners
<1>26. ASSUME NEW c \in Clients, CallEnd(c) PROVE TypeOK'
   BY <1>26 DEF CallEnd, server, runners
<1>27. ASSUME NEW c \in Clients, Ended(c) PROVE TypeOK'
   BY <1>27 DEF Ended, server, runners
<1>28. CASE UNCHANGED <<up, lease, disk, calls, reg, online, known, bound, proc, hand, procs, phase, pc, grant, file, fence, ops, tokens, crashes>>
    BY <1>28
<1> QED BY <1>1, <1>2, <1>3, <1>3a, <1>3b, <1>3c, <1>4, <1>5, <1>6, <1>7, <1>8, <1>9, <1>10,
        <1>11, <1>12, <1>13, <1>14, <1>15, <1>16, <1>17, <1>18, <1>19, <1>20, <1>21, <1>22, <1>23, <1>24, <1>25,
        <1>26, <1>27, <1>28 DEF Next, vars, server, runners, clients

(* A stopped Server knows nothing: only a start changes that. *)
LEMMA StoppedStep ==
    ASSUME MaintenanceInv, [Next]_vars
    PROVE  StoppedServer'
<1> USE MaintenanceAssumption, NoneAssumption DEF MaintenanceInv, TypeOK, StoppedServer
<1>1. ASSUME NEW r \in Runners, Enqueue(r) PROVE StoppedServer'
   BY <1>1 DEF Enqueue, clients
<1>2. ASSUME NEW r \in Runners, WorkReported(r) PROVE StoppedServer'
   BY <1>2 DEF WorkReported, runners, clients
<1>3. ASSUME NEW r \in Runners, Register(r) PROVE StoppedServer'
   BY <1>3 DEF Register, runners, clients
<1>3a. ASSUME NEW r \in Runners, GivenUp(r) \/ Heard(r) PROVE StoppedServer'
   BY <1>3a DEF GivenUp, Heard, runners, clients
<1>4. ASSUME NEW r \in Runners, Disconnect(r) PROVE StoppedServer'
   BY <1>4 DEF Disconnect, runners, clients
<1>5. ASSUME ServerDies PROVE StoppedServer'
   BY <1>5 DEF ServerDies, StopServer, HangUp, runners
<1>6. ASSUME ServerStarts PROVE StoppedServer'
   BY <1>6 DEF ServerStarts, Load, runners, clients
<1>7. ASSUME Expire PROVE StoppedServer'
   BY <1>7 DEF Expire, runners, clients
<1>8. ASSUME RecoverExpiredRunnerMaintenance PROVE StoppedServer'
   BY <1>8 DEF RecoverExpiredRunnerMaintenance, Clears, Replaced, runners, clients
<1>9. ASSUME NEW c \in Clients, BeginMaintenance(c) PROVE StoppedServer'
   BY <1>9 DEF BeginMaintenance, Install, Refresh, Busy, Refused, Saves, SaveFails,
        NewLease, TargetProcess, Held, Quiescent, CoveredBy, runners
<1>10. ASSUME NEW c \in Clients, CheckRuns(c) PROVE StoppedServer'
   BY <1>10 DEF CheckRuns, Refused, Granting, Clears, Held, runners
<1>11. ASSUME NEW c \in Clients, EndMaintenance(c) PROVE StoppedServer'
   BY <1>11 DEF EndMaintenance, Clears, Held, runners
<1>12. ASSUME NEW c \in Clients, EndPendingMaintenance(c) PROVE StoppedServer'
   BY <1>12 DEF EndPendingMaintenance, Clears, Held, runners
<1>13. ASSUME NEW c \in Clients, StopServices(c) PROVE StoppedServer'
   BY <1>13 DEF StopServices, StopServer, StopProcess, HangUp, server
<1>14. CASE UNCHANGED <<up, lease, online, known>>
    BY <1>14
<1>15. CASE
    \/ \E r \in Runners : WorkEnds(r) \/ Prune(r) \/ BindRun(r) \/ ProcessDies(r) \/
           ProcessStarts(r)
    \/ AdmitRuntimeCall \/ RuntimeCallReturns
    \/ \E c \in Clients : RenewMaintenance(c) \/ StartUpgrade(c) \/ CallBegin(c) \/
           Granted(c) \/ GiveUp(c) \/ FinishUpgrade(c) \/ CallEnd(c) \/ Ended(c)
   BY <1>14, <1>15 DEF WorkEnds, Prune, BindRun, ProcessDies, ProcessStarts, AdmitRuntimeCall,
        RuntimeCallReturns, RenewMaintenance, StartUpgrade, CallBegin, Granted, GiveUp,
        FinishUpgrade, CallEnd, Ended, StopProcess, Saves, Held, Refused, clients, runners,
        server
<1> QED BY <1>1, <1>2, <1>3, <1>3a, <1>4, <1>5, <1>6, <1>7, <1>8, <1>9, <1>10, <1>11, <1>12, <1>13,
        <1>14, <1>15 DEF Next, vars, server, runners, clients

(* The file is written before the lease is in force and cleared with it. *)
LEMMA LeaseOnDiskStep ==
    ASSUME MaintenanceInv, [Next]_vars
    PROVE  LeaseOnDisk'
<1> USE MaintenanceAssumption, NoneAssumption DEF MaintenanceInv, TypeOK, LeaseOnDisk, Lease
<1>1. ASSUME ServerDies PROVE LeaseOnDisk'
   BY <1>1 DEF ServerDies, StopServer, HangUp, runners
<1>2. ASSUME ServerStarts PROVE LeaseOnDisk'
   BY <1>2 DEF ServerStarts, Load, runners, clients
<1>3. ASSUME Expire PROVE LeaseOnDisk'
   BY <1>3 DEF Expire, runners, clients
<1>4. ASSUME RecoverExpiredRunnerMaintenance PROVE LeaseOnDisk'
   BY <1>4 DEF RecoverExpiredRunnerMaintenance, Clears, Replaced, runners, clients
<1>5. ASSUME NEW c \in Clients, BeginMaintenance(c) PROVE LeaseOnDisk'
   BY <1>5 DEF BeginMaintenance, Install, Refresh, Busy, Refused, Saves, SaveFails,
        NewLease, TargetProcess, Held, Quiescent, CoveredBy, runners
<1>6. ASSUME NEW c \in Clients, CheckRuns(c) PROVE LeaseOnDisk'
   BY <1>6 DEF CheckRuns, Refused, Granting, Clears, Held, runners
<1>7. ASSUME NEW c \in Clients, RenewMaintenance(c) PROVE LeaseOnDisk'
   BY <1>7 DEF RenewMaintenance, Saves, Held, runners, clients
<1>8. ASSUME NEW c \in Clients, EndMaintenance(c) PROVE LeaseOnDisk'
   BY <1>8 DEF EndMaintenance, Clears, Held, runners
<1>9. ASSUME NEW c \in Clients, EndPendingMaintenance(c) PROVE LeaseOnDisk'
   BY <1>9 DEF EndPendingMaintenance, Clears, Held, runners
<1>10. ASSUME NEW c \in Clients, StopServices(c) PROVE LeaseOnDisk'
   BY <1>10 DEF StopServices, StopServer, StopProcess, HangUp, server
<1>11. CASE UNCHANGED <<lease, disk>>
    BY <1>11
<1>12. CASE
    \/ \E r \in Runners : Enqueue(r) \/ WorkEnds(r) \/ WorkReported(r) \/ GivenUp(r) \/
           Prune(r) \/ Register(r) \/ Heard(r) \/ Disconnect(r) \/ BindRun(r) \/ ProcessDies(r) \/ ProcessStarts(r)
    \/ AdmitRuntimeCall \/ RuntimeCallReturns
    \/ \E c \in Clients : StartUpgrade(c) \/ CallBegin(c) \/ Granted(c) \/ GiveUp(c) \/
           FinishUpgrade(c) \/ CallEnd(c) \/ Ended(c)
   BY <1>11, <1>12 DEF Enqueue, WorkEnds, WorkReported, GivenUp, Prune, Register, Heard, Disconnect, BindRun,
        ProcessDies, ProcessStarts, AdmitRuntimeCall, RuntimeCallReturns, StartUpgrade,
        CallBegin, Granted, GiveUp, FinishUpgrade, CallEnd, Ended, StopProcess, Refused,
        clients, runners, server
<1> QED BY <1>1, <1>2, <1>3, <1>4, <1>5, <1>6, <1>7, <1>8, <1>9, <1>10, <1>11, <1>12 DEF
        Next, vars, server, runners, clients

(* A process that registers is the latest one. *)
LEMMA ProcessStep ==
    ASSUME MaintenanceInv, [Next]_vars
    PROVE  ProcessOrder'
<1> USE MaintenanceAssumption, NoneAssumption DEF MaintenanceInv, TypeOK, ProcessOrder
<1>1. ASSUME NEW r \in Runners, Register(r) PROVE ProcessOrder'
   BY <1>1 DEF Register, runners, clients
<1>1a. ASSUME NEW r \in Runners, Heard(r) PROVE ProcessOrder'
   BY <1>1a DEF Heard, runners, clients
<1>2. ASSUME NEW r \in Runners, Disconnect(r) PROVE ProcessOrder'
   BY <1>2 DEF Disconnect, runners, clients
<1>3. ASSUME NEW r \in Runners, ProcessDies(r) PROVE ProcessOrder'
   BY <1>3 DEF ProcessDies, StopProcess, server, clients
<1>4. ASSUME NEW r \in Runners, ProcessStarts(r) PROVE ProcessOrder'
   BY <1>4 DEF ProcessStarts, server, clients
<1>5. ASSUME ServerDies PROVE ProcessOrder'
   BY <1>5 DEF ServerDies, StopServer, HangUp, runners
<1>6. ASSUME NEW c \in Clients, StopServices(c) PROVE ProcessOrder'
   BY <1>6 DEF StopServices, StopServer, StopProcess, HangUp, server
<1>7. CASE UNCHANGED <<proc, procs, reg, online>>
    BY <1>7
<1>8. CASE
    \/ \E r \in Runners : Enqueue(r) \/ WorkEnds(r) \/ WorkReported(r) \/ GivenUp(r) \/
           Prune(r) \/ BindRun(r)
    \/ AdmitRuntimeCall \/ RuntimeCallReturns \/ ServerStarts \/ Expire \/
           RecoverExpiredRunnerMaintenance
    <2>1. UNCHANGED <<proc, procs, reg, online>>
        BY <1>8 DEF Enqueue, WorkEnds, WorkReported, GivenUp, Prune, BindRun, AdmitRuntimeCall,
            RuntimeCallReturns, ServerStarts, Expire, RecoverExpiredRunnerMaintenance, runners,
            server
    <2> QED BY <1>7, <2>1
<1>9. CASE
    \E c \in Clients : BeginMaintenance(c) \/ CheckRuns(c) \/ RenewMaintenance(c) \/
           EndMaintenance(c) \/ EndPendingMaintenance(c) \/ StartUpgrade(c) \/ CallBegin(c)
           \/ Granted(c) \/ GiveUp(c) \/ FinishUpgrade(c) \/ CallEnd(c) \/ Ended(c)
    <2>1. UNCHANGED <<proc, procs, reg, online>>
        BY <1>9 DEF BeginMaintenance, CheckRuns, RenewMaintenance, EndMaintenance,
            EndPendingMaintenance, StartUpgrade, CallBegin, Granted, GiveUp, FinishUpgrade,
            CallEnd, Ended, runners, server
    <2> QED BY <1>7, <2>1
<1> QED BY <1>1, <1>1a, <1>2, <1>3, <1>4, <1>5, <1>6, <1>7, <1>8, <1>9 DEF Next, vars, server, runners,
        clients

(* A Runner with a lease on disk does not come back as an earlier process. *)
LEMMA LeaseProcessStep ==
    ASSUME MaintenanceInv, [Next]_vars
    PROVE  LeaseProcess'
<1> USE MaintenanceAssumption, NoneAssumption DEF MaintenanceInv, TypeOK, LeaseOnDisk,
        ProcessOrder, LeaseProcess, Lease
<1>1. ASSUME NEW r \in Runners, Register(r) PROVE LeaseProcess'
   BY <1>1 DEF Register, runners, clients
<1>1a. ASSUME NEW r \in Runners, Heard(r) PROVE LeaseProcess'
   BY <1>1a DEF Heard, runners, clients
<1>2. ASSUME NEW r \in Runners, Disconnect(r) PROVE LeaseProcess'
   BY <1>2 DEF Disconnect, runners, clients
<1>3. ASSUME NEW r \in Runners, ProcessStarts(r) PROVE LeaseProcess'
   BY <1>3 DEF ProcessStarts, server, clients
<1>4. ASSUME ServerDies PROVE LeaseProcess'
   BY <1>4 DEF ServerDies, StopServer, HangUp, runners
<1>5. ASSUME Expire PROVE LeaseProcess'
   BY <1>5 DEF Expire, runners, clients
<1>6. ASSUME RecoverExpiredRunnerMaintenance PROVE LeaseProcess'
   BY <1>6 DEF RecoverExpiredRunnerMaintenance, Clears, Replaced, runners, clients
<1>7. ASSUME NEW c \in Clients, BeginMaintenance(c) PROVE LeaseProcess'
   BY <1>7 DEF BeginMaintenance, Install, Refresh, Busy, Refused, Saves, SaveFails,
        NewLease, TargetProcess, Held, Quiescent, CoveredBy, runners
<1>8. ASSUME NEW c \in Clients, CheckRuns(c) PROVE LeaseProcess'
   BY <1>8 DEF CheckRuns, Refused, Granting, Clears, Held, runners
<1>9. ASSUME NEW c \in Clients, RenewMaintenance(c) PROVE LeaseProcess'
   BY <1>9 DEF RenewMaintenance, Saves, Held, runners, clients
<1>10. ASSUME NEW c \in Clients, EndMaintenance(c) PROVE LeaseProcess'
   BY <1>10 DEF EndMaintenance, Clears, Held, runners
<1>11. ASSUME NEW c \in Clients, EndPendingMaintenance(c) PROVE LeaseProcess'
   BY <1>11 DEF EndPendingMaintenance, Clears, Held, runners
<1>12. ASSUME NEW c \in Clients, StopServices(c) PROVE LeaseProcess'
   BY <1>12 DEF StopServices, StopServer, StopProcess, HangUp, server
<1>13. CASE UNCHANGED <<disk, procs, online, reg>>
    BY <1>13
<1>14. CASE
    \/ \E r \in Runners : Enqueue(r) \/ WorkEnds(r) \/ WorkReported(r) \/ GivenUp(r) \/
           Prune(r) \/ BindRun(r) \/ ProcessDies(r)
    \/ AdmitRuntimeCall \/ RuntimeCallReturns \/ ServerStarts
    \/ \E c \in Clients : StartUpgrade(c) \/ CallBegin(c) \/ Granted(c) \/ GiveUp(c) \/
           FinishUpgrade(c) \/ CallEnd(c) \/ Ended(c)
   BY <1>13, <1>14 DEF Enqueue, WorkEnds, WorkReported, GivenUp, Prune, BindRun, ProcessDies,
        AdmitRuntimeCall, RuntimeCallReturns, ServerStarts, StartUpgrade, CallBegin,
        Granted, GiveUp, FinishUpgrade, CallEnd, Ended, StopProcess, Load, Refused, clients,
        runners, server
<1> QED BY <1>1, <1>1a, <1>2, <1>3, <1>4, <1>5, <1>6, <1>7, <1>8, <1>9, <1>10, <1>11, <1>12, <1>13,
        <1>14 DEF Next, vars, server, runners, clients

(* No step takes away what a client was promised, unless the client asks for it. *)
LEMMA PromisesStep ==
    ASSUME MaintenanceInv, [Next]_vars
    PROVE  PromisesKept'
<1> USE MaintenanceAssumption, NoneAssumption DEF MaintenanceInv, TypeOK, StoppedServer,
        LeaseOnDisk, ProcessOrder, LeaseProcess, PromisesKept, Promised, Stands, Lease, File
<1>1. ASSUME NEW r \in Runners, ProcessStarts(r) PROVE PromisesKept'
   BY <1>1 DEF ProcessStarts, server, clients
<1>2. ASSUME ServerDies PROVE PromisesKept'
   BY <1>2 DEF ServerDies, StopServer, HangUp, runners
<1>3. ASSUME ServerStarts PROVE PromisesKept'
    BY <1>3, Restored DEF ServerStarts, runners, clients
<1>4. ASSUME Expire PROVE PromisesKept'
    <2>1. lease \in Lease /\ disk \in Lease
        BY <1>4 DEF Expire
    <2> HIDE DEF Lease
    <2> QED BY <1>4, <2>1, ExpiredLease DEF Expire, runners, clients
<1>5. ASSUME RecoverExpiredRunnerMaintenance PROVE PromisesKept'
    <2>1. /\ disk # None /\ disk' = None /\ Scope[disk.owner] # AllRuntimes
          /\ disk.inst < procs[Scope[disk.owner]]
        <3>1. /\ disk \in Lease /\ disk.owner = lease.owner /\ disk.inst = lease.inst
              /\ Scope[disk.owner] \in Runners
            BY <1>5 DEF RecoverExpiredRunnerMaintenance, Clears
        <3>2. online[Scope[disk.owner]] /\ reg[Scope[disk.owner]] # disk.inst /\ disk' = None
            BY <1>5, <3>1 DEF RecoverExpiredRunnerMaintenance, Clears, Replaced
        <3> QED BY <1>5, <3>1, <3>2 DEF RecoverExpiredRunnerMaintenance
    <2>2. UNCHANGED <<up, procs, pc, grant, fence>>
        BY <1>5 DEF RecoverExpiredRunnerMaintenance, runners, clients
    <2> QED BY <2>1, <2>2
<1>6. ASSUME NEW c \in Clients, BeginMaintenance(c) PROVE PromisesKept'
    <2>1. TypeOK /\ LeaseOnDisk /\ LeaseProcess /\ PromisesKept /\ ProcessOrder
        OBVIOUS
    <2> HIDE DEF MaintenanceInv, Lease
    <2>2. procs' = procs /\ up' = up
        BY <1>6, BeginCases DEF runners
    <2> QED BY <1>6, <2>1, <2>2, BeginCases, NewLeaseType DEF TargetProcess
<1>7. ASSUME NEW c \in Clients, CheckRuns(c) PROVE PromisesKept'
   BY <1>7 DEF CheckRuns, Refused, Granting, Clears, Held, runners
<1>8. ASSUME NEW c \in Clients, RenewMaintenance(c) PROVE PromisesKept'
   BY <1>8 DEF RenewMaintenance, Saves, Held, runners, clients
<1>9. ASSUME NEW c \in Clients, EndMaintenance(c) PROVE PromisesKept'
   BY <1>9 DEF EndMaintenance, Clears, Held, runners
<1>10. ASSUME NEW c \in Clients, EndPendingMaintenance(c) PROVE PromisesKept'
   BY <1>10 DEF EndPendingMaintenance, Clears, Held, runners
<1>11. ASSUME NEW c \in Clients, CallBegin(c) PROVE PromisesKept'
   BY <1>11 DEF CallBegin, server, runners
<1>12. ASSUME NEW c \in Clients, Granted(c) PROVE PromisesKept'
   BY <1>12 DEF Granted, server, runners
<1>13. ASSUME NEW c \in Clients, GiveUp(c) PROVE PromisesKept'
   BY <1>13 DEF GiveUp, Refused, server, runners
<1>14. ASSUME NEW c \in Clients, StopServices(c) PROVE PromisesKept'
   BY <1>14 DEF StopServices, StopServer, StopProcess, HangUp, server
<1>15. ASSUME NEW c \in Clients, CallEnd(c) PROVE PromisesKept'
   BY <1>15 DEF CallEnd, server, runners
<1>16. ASSUME NEW c \in Clients, Ended(c) PROVE PromisesKept'
   BY <1>16 DEF Ended, server, runners
<1>17. CASE UNCHANGED <<up, lease, disk, procs, pc, grant, fence>>
    BY <1>17
<1>18. CASE
    \/ \E r \in Runners : Enqueue(r) \/ WorkEnds(r) \/ WorkReported(r) \/ GivenUp(r) \/
           Prune(r) \/ Register(r) \/ Heard(r) \/ Disconnect(r) \/ BindRun(r) \/ ProcessDies(r)
    \/ AdmitRuntimeCall \/ RuntimeCallReturns
    \/ \E c \in Clients : StartUpgrade(c) \/ FinishUpgrade(c)
   BY <1>17, <1>18 DEF Enqueue, WorkEnds, WorkReported, GivenUp, Prune, Register, Heard, Disconnect, BindRun,
        ProcessDies, AdmitRuntimeCall, RuntimeCallReturns, StartUpgrade, FinishUpgrade,
        StopProcess, clients, runners, server
<1> QED BY <1>1, <1>2, <1>3, <1>4, <1>5, <1>6, <1>7, <1>8, <1>9, <1>10, <1>11, <1>12, <1>13,
        <1>14, <1>15, <1>16, <1>17, <1>18 DEF Next, vars, server, runners, clients

(* No step gives admitted work to a Runner that has a lease on disk. *)
LEMMA WorkStep ==
    ASSUME MaintenanceInv, FencedWork, TornSaves = FALSE, [Next]_vars
    PROVE  FencedWork'
<1> USE MaintenanceAssumption, NoneAssumption DEF MaintenanceInv, TypeOK, StoppedServer,
        LeaseOnDisk, WorkKnown, FencedWork, Covers, CoveredBy, Lease, Work
<1>1. ASSUME NEW r \in Runners, Enqueue(r) PROVE FencedWork'
   BY <1>1 DEF Enqueue, clients
<1>2. ASSUME NEW r \in Runners, WorkEnds(r) PROVE FencedWork'
   BY <1>2 DEF WorkEnds, server, clients
<1>3. ASSUME NEW r \in Runners, WorkReported(r) PROVE FencedWork'
   BY <1>3 DEF WorkReported, runners, clients
<1>3a. ASSUME NEW r \in Runners, GivenUp(r) PROVE FencedWork'
   BY <1>3a DEF GivenUp, clients
<1>3b. ASSUME NEW r \in Runners, Prune(r) PROVE FencedWork'
   BY <1>3b, Forgotten DEF Prune, server, clients
<1>4. ASSUME NEW r \in Runners, Register(r) PROVE FencedWork'
   BY <1>4 DEF Register, Named, runners, clients
<1>6. ASSUME NEW r \in Runners, ProcessDies(r) PROVE FencedWork'
   BY <1>6 DEF ProcessDies, StopProcess, server, clients
<1>7. ASSUME ServerDies PROVE FencedWork'
    <2>1. StopServer /\ TypeOK
        BY <1>7 DEF ServerDies
    <2> QED BY <2>1, StoppedWork DEF StopServer
<1>8. ASSUME ServerStarts PROVE FencedWork'
    BY <1>8, Restored DEF ServerStarts, runners, clients
<1>9. ASSUME Expire PROVE FencedWork'
   BY <1>9 DEF Expire, runners, clients
<1>10. ASSUME RecoverExpiredRunnerMaintenance PROVE FencedWork'
   BY <1>10 DEF RecoverExpiredRunnerMaintenance, Clears, Replaced, runners, clients
<1>11. ASSUME NEW c \in Clients, BeginMaintenance(c) PROVE FencedWork'
    <2>1. TypeOK /\ LeaseOnDisk /\ FencedWork /\ ProcessOrder
        OBVIOUS
    <2> HIDE DEF MaintenanceInv, Lease
    <2>2. UNCHANGED <<up, reg, known, hand>>
        BY <1>11, BeginCases DEF runners
    <2>3. /\ Quiescent(Scope[c]) => \A r \in CoveredBy(Scope[c]) : known[r] = {}
          /\ Quiescent(Scope[c]) /\ Scope[c] # AllRuntimes => reg[Scope[c]] # 0
        BY <2>1 DEF Quiescent, ProcessOrder
    <2> QED BY <1>11, <2>1, <2>2, <2>3, BeginCases, NewLeaseType
<1>12. ASSUME NEW c \in Clients, CheckRuns(c) PROVE FencedWork'
   BY <1>12 DEF CheckRuns, Refused, Granting, Clears, Held, runners
<1>13. ASSUME NEW c \in Clients, RenewMaintenance(c) PROVE FencedWork'
   BY <1>13 DEF RenewMaintenance, Saves, Held, runners, clients
<1>14. ASSUME NEW c \in Clients, EndMaintenance(c) PROVE FencedWork'
   BY <1>14 DEF EndMaintenance, Clears, Held, runners
<1>15. ASSUME NEW c \in Clients, EndPendingMaintenance(c) PROVE FencedWork'
   BY <1>15 DEF EndPendingMaintenance, Clears, Held, runners
<1>16. ASSUME NEW c \in Clients, StopServices(c) PROVE FencedWork'
    <2>1. CASE Scope[c] = AllRuntimes
        <3>1. StopServer /\ TypeOK
            BY <1>16, <2>1 DEF StopServices
        <3> QED BY <3>1, StoppedWork DEF StopServer
    <2>2. CASE Scope[c] # AllRuntimes
        BY <1>16, <2>2 DEF StopServices, StopProcess, server
    <2> QED BY <2>1, <2>2
<1>17. CASE UNCHANGED <<up, lease, disk, reg, known, hand>>
    BY <1>17
<1>18. CASE
    \/ \E r \in Runners : Heard(r) \/ Disconnect(r) \/ BindRun(r) \/ ProcessStarts(r)
    \/ AdmitRuntimeCall \/ RuntimeCallReturns
    \/ \E c \in Clients : StartUpgrade(c) \/ CallBegin(c) \/ Granted(c) \/ GiveUp(c) \/
           FinishUpgrade(c) \/ CallEnd(c) \/ Ended(c)
   BY <1>17, <1>18 DEF Heard, Disconnect, BindRun, ProcessStarts, AdmitRuntimeCall, RuntimeCallReturns,
        StartUpgrade, CallBegin, Granted, GiveUp, FinishUpgrade, CallEnd, Ended, Refused,
        clients, runners, server
<1> QED BY <1>1, <1>2, <1>3, <1>3a, <1>3b, <1>4, <1>6, <1>7, <1>8, <1>9, <1>10, <1>11, <1>12, <1>13,
        <1>14, <1>15, <1>16, <1>17, <1>18 DEF Next, vars, server, runners, clients

(* The initial state satisfies both invariants. *)
LEMMA InitInv ==
    ASSUME Init PROVE MaintenanceInv /\ FencedWork
<1> USE MaintenanceAssumption DEF Init
<1>1. TypeOK
    BY DEF TypeOK, Phase, Call
<1>2. StoppedServer /\ LeaseOnDisk /\ ProcessOrder /\ LeaseProcess
    BY DEF StoppedServer, LeaseOnDisk, ProcessOrder, LeaseProcess
<1>3. PromisesKept /\ FencedWork
    BY DEF PromisesKept, Promised, FencedWork, WorkKnown
<1> QED BY <1>1, <1>2, <1>3 DEF MaintenanceInv

(* A step of the fence, its handlers, the Runners or the clients keeps the *)
(* invariant.                                                              *)
LEMMA InvStep ==
    MaintenanceInv /\ [Next]_vars => MaintenanceInv'
<1> SUFFICES ASSUME MaintenanceInv, [Next]_vars PROVE MaintenanceInv'
    OBVIOUS
<1> QED BY TypeStep, StoppedStep, LeaseOnDiskStep, ProcessStep, LeaseProcessStep, PromisesStep
        DEF MaintenanceInv

(* The inductive invariant of the maintenance lease holds for any Server,  *)
(* Runners and clients, torn saves included.                               *)
THEOREM MaintenanceInvariant == Spec => []MaintenanceInv
    BY InitInv, InvStep, PTL DEF Spec

(* The lease, its file, the Runners and the clients' journals keep their   *)
(* types; a Runner's lease always names the process it is for.             *)
THEOREM MaintenanceTypeCorrect == Spec => []TypeOK
<1>1. MaintenanceInv => TypeOK
    BY DEF MaintenanceInv
<1> QED BY <1>1, MaintenanceInvariant, PTL

(* From the answer to its begin until it asks for the end, a client's      *)
(* fence keeps the Server closed for what it covers (begin_maintenance,    *)
(* attach_maintenance_store, recover_expired_runner_maintenance).          *)
THEOREM FenceKept == Spec => []FenceIsKept
<1>1. MaintenanceInv => FenceIsKept
    <2> SUFFICES ASSUME MaintenanceInv, NEW c \in Clients, fence[c] # None, up, SameProcess(c)
                 PROVE  /\ lease # None /\ lease.owner = c
                        /\ \A r \in CoveredBy(Scope[c]) : Covers(r)
        BY DEF FenceIsKept
    <2>1. lease # None /\ disk.owner = c
        BY DEF MaintenanceInv, PromisesKept, SameProcess, Stands
    <2>2. lease.owner = c
        BY <2>1 DEF MaintenanceInv, LeaseOnDisk
    <2> QED BY <2>1, <2>2 DEF Covers
<1> QED BY <1>1, MaintenanceInvariant, PTL

(* The Server knows of no work of a fenced Runner but jobs it had given up *)
(* as lost, provided that a save that fails leaves the old file            *)
(* (FileMaintenanceStore::save); with torn saves a restart may restore a   *)
(* fence over work admitted before it.                                     *)
THEOREM FencedRunnerIsQuiet ==
    ASSUME TornSaves = FALSE
    PROVE  Spec => []QuietRunner
<1>1. MaintenanceInv /\ FencedWork /\ [Next]_vars => (MaintenanceInv /\ FencedWork)'
    BY InvStep, WorkStep
<1>2. MaintenanceInv /\ FencedWork => QuietRunner
    BY DEF MaintenanceInv, LeaseOnDisk, FencedWork, QuietRunner
<1> QED BY InitInv, <1>1, <1>2, PTL DEF Spec
=============================================================================
