# A TLA+ model of WebCodex's dispatch core

WebCodex runs a Server that talks to coding assistants (MCP tool calls) and to
*Runners*: processes on developer machines that execute commands, edit files and
drive other programs. The Server never executes anything itself. Its core is a
registry that admits work, hands it to Runners over unreliable transports, and
must keep telling the truth about that work through disconnects, process
replacement, late or repeated messages and its own restarts. Above it, durable
Agent Tasks are carried out by coding-agent runs, durable Agents are woken for
messages, tasks and waits, and an upgrade fences all of it off. This directory
models that core, checks it with TLC and proves the main results with TLAPS.

## 1. Inventory

### Components, their state and their operations

| Component | State it keeps | Operations | Modelled by |
|---|---|---|---|
| Job vocabulary (`webcodex-core/runner_job_lifecycle.rs`) | none | lifecycle predicates, legal execution states | `JobLifecycle` |
| Runner registry, jobs (`webcodex-runner-registry`: `jobs`, `job_updates`, `reconciliation`, `polling`, `requests`, `runners`) | `runners`, `jobs_by_id`, `pending_by_id`, `queues_by_runner`, `request_to_job`, `retired_instances`, `unregistering_projects`, `cleanup_intents`, suppressions | start, stop, read, promote, cleanup and project a job; register, poll, touch, update, complete, disconnect; sweep | `JobRegistry` |
| Registry, synchronous requests (`requests`, `polling`) | one-shot waiters per request | enqueue, dispatch, complete, time out, cancel, abandon, drain | `SyncRequests`, `RunnerCall` |
| Registry, transports (`runners`, `runner_ws.rs`, `runner_quic.rs`) | connection ids, notifiers, cancel senders | register a session, touch, disconnect, replace | partly in `JobRegistry`; planned: `RunnerLease` |
| Registry, maintenance lease (`maintenance.rs`, `upgrade_http.rs`, `upgrade_maintenance_store.rs`, the client in `upgrade_transport.rs`) | a lease with owner, nonce, token and deadline, in memory and on disk; the client's own file | begin, renew, end, end pending, recover an expired one, restore, admission check | `MaintenanceLease` |
| Registry, receipts (`receipts.rs`) | capture queue, durable receipts | capture, flush, restore, prune | planned: `Receipts` |
| Registry, project inventory (`project_inventory.rs`) | staged pages, committed inventory | begin, page, commit, abort | planned: `ProjectInventory` |
| Runner process, jobs (`webcodex-runner`: job manager, transport, detached jobs) | running jobs, slots, unsent updates, retained snapshots | start, stop, report, retry, inventory | environment of `JobRegistry`; planned: `JobManager` |
| Runner process, coding-agent manager (`coding_agent.rs` and its `lifecycle`, `run`, `store`, `setup`) | a map of runs, one worker thread each, one durable record each | start, cancel, observe, inventory, stop accepting, expire, recover | `CodingAgentRun`, `RunReports`; promise: `RunnerRuns` |
| Server, coding-agent runs and agent-task execution (`tool_runtime/coding_agent.rs`, `tool_runtime/agent_task.rs`, store `agent_task`) | attempts and their bindings to runs (durable), the Server's own bindings (in memory) | start attempt, prepare, claim, dispatch, observe, reconcile, terminalize | `AgentTasks` |
| Store, wakes and waits (`agent_wake`, `agent_wait`, endpoints in `communication`; `src/agent_wake.rs`) | SQLite rows of wakes, carriers, waits and endpoints; the controller's bindings (in memory) | deliver, claim, prepare, verify, finish, consume, activate, retire, attach, detach, wait, cancel | `AgentWakes` |
| Workflow session ledger (`webcodex-workflow-session`) | sessions in memory, a background writer, tombstones | append, persist, restore, delete | planned |
| Server front (`src/mcp`, `runner_http`, `oauth_http`, consoles, shutdown) | little of its own | HTTP, schemas, rendering | its calls on the registry are the Server actions |
| Environment manager, tunnels, browser, computer, LSP, shells, CLI, desktop, frontend, plugins | processes, files, user interfaces | operating-system work | not modelled |

`PROJECT.json` lists every part with the reason for its status.

### How the parts interact

Tool calls of the Server call the registry directly. A Runner process registers
(with its complete job inventory), polls or is pushed its requests, and sends
results, job updates and keepalives. All of these handlers, and the periodic sweep,
take one mutex (`RunnerRegistry::inner`) and never await under it. Cleanup intents
sit behind a second, short lock so that a future's `Drop` can record them.
Registry state is in memory only: a Server restart forgets it, while Runner
processes keep their jobs and come back with inventories.

A coding-agent run is started by a request through the same queue. Its worker thread
on the Runner writes a durable record before it hands the prompt to the agent, and
the Runner reports runs in answers and in the inventory of a registration. The store
remembers, per attempt of a task, how far the dispatch of its run got. Each store
operation is one SQLite transaction; between two of them anything may happen. A
durable Agent is woken through the View its endpoint is bound to; the store says what
is to be sent and what was, the Server's controller only remembers the binding.
The environment manager of an upgrade asks the Server for a fence over HTTP, stops
and starts services, and asks for the end of the fence.

### What is hard

* several processes claim the same Runner identity, and a replaced one may still talk;
* updates and inventories are delayed, repeated and reordered, and a message of an
  older connection of the right process is still applied;
* a job's end can be decided by an update, a `/result`, an inventory that lacks it, a
  deadline, a takeover, a disconnect, a stop or a cleanup, in any order;
* reads change state: they start recoveries and declare jobs lost;
* hidden jobs (structured tool calls before their handoff) are promoted, projected or
  cleaned up while all of the above goes on;
* a prompt cannot be taken back and cannot be seen to have been read: the Runner may die
  on either side of it, its disk may refuse the record, and a cancel may come in between;
* the same report of a run reaches the Server as an answer, in an inventory and from
  the store, in any order and from two processes;
* the decision to dispatch, the dispatch and the note of its outcome are separate
  transactions, in a Server that may restart between them;
* a fence is installed, kept, restored and removed by parties that lose each other's
  answers, while the work it is for goes on.

The full list, each at its line and with the properties aimed at it, is under
`hazards` in `PROJECT.json`.

### What makes it correct

* the queue, the pending table and the job records agree at all times;
* a start is handed out at most once, and only to the process it was admitted for;
* no active job is left without a process that may report on it;
* a terminal outcome is final, an update sequence never goes back, a recovery
  deadline is never moved, and every recovery ends;
* `not_started` is never claimed of a command whose start was recorded;
* nothing of a project starts while the project is being unregistered;
* a tool call is answered once, waits only for a request somebody can still answer,
  and is told `not_started` only of a request no Runner was handed;
* results already returned and hidden identities do not come back;
* a prompt is handed over at most once, what is reported of a run is true and durable,
  every run ends, and nothing is prompted after a shutdown was announced;
* a task is carried out by one execution at a time, and ends the way its agent answered;
* a wake starts at most one turn, a retired one starts none, and no message and no
  condition of a wait goes unannounced;
* a granted fence stays until its owner asks for its end, and the Runner it covers has
  no work that the Server knows of.

## 2. The modules

* `JobLifecycle`: the vocabulary of a job record. No variables.
* `JobRegistry`: the registry for one `client_id`, its properties, and the inductive
  invariant `RegistryInv`.
* `MCJobRegistry` and the `MC*.cfg` files: the instances TLC checks.
* `JobRegistryProofs` (types), `JobRegistryInvProofs` (invariants),
  `JobRegistryStepProofs` (action properties): the theorems.
* `RunnerCall`: the abstract call. What a tool call may rely on, without queues,
  connections or processes.
* `SyncRequests`: the registry's pending requests without a job and the calls that wait
  for them, its properties, the inductive invariant `SyncInv` and the refinement of
  `RunnerCall`.
* `MCSyncRequests` with its `.cfg` files, and `SyncRequestsProofs`, the theorems.
* `RunReports`: the snapshots of a coding-agent run and their merge. No variables.
* `RunnerRuns`: the abstract Runner. What it promises of its runs.
* `CodingAgentRun`: the Runner's coding-agent manager, its inductive invariants and
  the refinement of `RunnerRuns`. `MCCodingAgentRun` instantiates it, `CodingAgentRunProofs`
  has the theorems, the refinement among them.
* `AgentTasks`: the Server and the store around those runs, composed with `RunnerRuns` in
  place of the manager, and the inductive invariant `TasksInv`. `MCAgentTasks` instantiates it,
  `AgentTasksProofs` has the theorems.
* `AgentWakes` (`MCAgentWakes`, `AgentWakesProofs`): wakes and waits of one Agent, with the
  inductive invariant `WakesInv`.
* `MaintenanceLease` (`MCMaintenanceLease`, `MaintenanceLeaseProofs`): the fence of an upgrade,
  with the inductive invariant `MaintenanceInv`.

### State of `JobRegistry`

`inst`, `idle`, `retired` and `suppress` are the runner record and its tombstones;
`jobs` is `jobs_by_id`, with `"absent"` for an id that is not a key; `pending`,
`dispatched` and `queue` are `pending_by_id`, its `dispatched` flags and
`queues_by_runner`; `intents` is `cleanup_intents`; `fence` counts the unregistrations
of the one project. `allocated`, `handed` and `stops` are history: the ids drawn, the
process each start was handed to and the number of stops requested.

A queue is a function from requests to places: a new request gets place 1 and moves
every other one forward, and a poll takes the largest place. This keeps `remove from
the middle` a pointwise change and the proofs free of sequence surgery.

The code compares times only as `now - t`, so the model keeps ages. They saturate at
the threshold they are compared with, which no guard can tell from growing on.

### Actions and the code

| Action | Code |
|---|---|
| `StartJob` | `start_job`: id allocation, fence check, admission, enqueue, record |
| `RefreshJob` | `refresh_job_status_locked` as run by `get_job`, `list_jobs`, `job_log` |
| `StopJob` | `stop_job_for_auth` |
| `PublishHiddenJob` | `promote_hidden_job`, `retain_terminal_job_logs` |
| `RecordHiddenCleanupIntent`, `CancelHiddenJob` | the `Drop` hook and one step of `process_hidden_cleanup_intents` |
| `RemoveProjectedHiddenJob` | `remove_projected_hidden_terminal_job_record` |
| `BeginProjectUnregister`, `EndProjectUnregister` | the same names |
| `TouchRunner` | keepalives and accepted messages without another effect |
| `Poll`, `PollEmpty` | `poll_checked`, with and without a request to hand out |
| `UpdateJob` | `update_job_checked`, with the protocol-violation branch |
| `CompleteJob` | `complete_checked` for a job-backed request |
| `Disconnect` | `reconcile_disconnect_checked` |
| `Register` | `register_session` from the tombstone check on: preflight, termination of the replaced process's jobs, lease, expiry, reconciliation |
| `RecoveryTimeoutSweep` | `recovery_timeout_sweep`: expiry and retention prune, each capped |
| `Tick`, `Restart` | the clock; a new Server process |

A call that is refused and changes nothing is a stuttering step; one that is refused
after its initial refresh is `RefreshJob`; a message that is refused after it refreshed
the liveness of the connection is `TouchRunner`.

### What is abstracted

* One `client_id`. Other identities share only the sweep's pass caps, which the model
  keeps as a nondeterministic choice of which expired jobs a pass takes.
* All jobs are structured jobs, the ones with a `command_execution_state`.
* A request id carries its operation and its job, so `request_to_job` is a field of the id.
* Connection ids: `live` says whether a message comes by the lease-holding connection.
* A Runner process is an environment that reports anything about the jobs it was
  handed (`Knows`), with any sequence number. A detached job may be reported by any
  later process of the same identity.
* Log cursors, error texts, exit codes, validation progress and artifacts.
* Rejections only: access control, feature checks, the maintenance gate.
* The suppression list's own length cap (64 entries) and the statuses `started` and
  `queued` in updates of very old Runners.

### State and actions of `SyncRequests`

`inst` and `online` are the runner record and its liveness; `offers` is what that record
advertises, seen as the set of requests whose provider, feature, control epoch or project
it still names. `pending`, `dispatched` and `queue` are as in `JobRegistry`; `stored` is
the union of the maps of typed waiters (`mcp_gateway_waiters`, `plugin_gateway_waiters`,
`coding_agent_waiters`, `persistent_waiters`). `caller` and `told` follow the tool call,
`target` and `handed` are history.

| Action | Code |
|---|---|
| `EnqueueRequest` | the `enqueue_*` functions: liveness, capability, queue limit, record, waiter |
| `WaitTimeout`, `CancelRequest` | `await_structured_request_response`, `run_runner_persistent_shell`: the timeout, and the cancellation after it |
| `AbandonCall`, `CancelAbandonedSyncRequests` | a dropped future, `cancel_abandoned_sync_requests` |
| `Poll`, `PollEmpty` | `poll_checked`: abandoned Computer requests and stale fences are withdrawn on the way to the request handed out |
| `CompleteRequest`, `CompletePersistentShell` | `complete_checked`, `complete_persistent_shell_checked` |
| `TouchRunner`, `FallSilent` | keepalives; no message within the online window |
| `Register`, `UpdateOffers` | a registration, which drains on a takeover; metadata updates |
| `ReconcileDisconnect`, `PruneExpiredRunner` | the other two places that drain |

The timeout of a call and its cancellation are two actions because the receiver is
dropped before the registry's lock is asked for. Requests are sorted into classes by
what the code does differently for them: an ordinary waiter in the record or a typed one
in a map, a fence checked again at dequeue or not, Computer requests that are dropped
when nobody waits, and persistent shells, whose waiter is dropped without an answer. A
typed result is valid or not, a persistent-shell result names the right shell or not.
Any process may register: the tombstones are `JobRegistry`'s, and a property that holds
here does not depend on them. The job requests that share the queue and the maintenance
gate only refuse or delay admissions, and are left out.

### `RunReports` and `RunnerRuns`

A snapshot is state, execution state, revision and provider instance. `Merge` is
`merge_coding_agent_run_snapshot`, with `MayFollow` for
`validate_coding_agent_run_transition`; `TrueReport` says when a snapshot is true of a
prompt. `RunnerRuns` is the promise between the two halves of the system: a run is admitted,
goes on, is handed over at most once and only by the process that admitted it, ends with a
true report, is forgotten when its retention is over, and is found again, ended, by the next
process. `CodingAgentRun` implements it (`KeepsPromise`) and `AgentTasks` is built on it, so
that neither has to carry the state of the other.

### State and actions of `CodingAgentRun`

`runs` is the map, `entry` the `RunEntry` objects, which a worker keeps alive when the map
no longer does, `disk` the durable records, `accepting` the flag with the progress of
`stop_accepting`, `sweep` the run ids a retention sweep has collected. An entry's `pc` is its
worker: `setup`, the steps under the prompt gate (`persist`, `refused`, `fenced`, `handoff`),
`writing` and `turn`. `prompts` and `answer` are history.

| Action | Code |
|---|---|
| `StartKnown`, `StartRefused`, `StartRecorded`, `StartUnreadable`, `StartNew`, `StartWriteFails` | the ways through `CodingAgentManager::start`, with the sweep it begins with |
| `EnterGate`, `Persist`, `PassFence`, `Handoff`, `Written`, `Progress`, `Answered`, `TurnLost`, `SetupFails`, `WorkerLeaves` | `run_turn`, one action between any two points where another thread can interfere |
| `Commit`, `Publish` | the two halves of `commit_terminal_transition`: the record, then the snapshot |
| `Cancel` | `request_cancel`, under the gate when it is free |
| `SweepCollect`, `SweepRemove` | `cleanup_expired` as `inventory` runs it, one action per lock |
| `StopFlag`, `StopFence`, `StopCancel`, `StopDone` | `stop_accepting` |
| `Restart`, `RestartFails` | the next process and its `recover` |

Every write may fail, with or without the bytes on disk. Three constants say which rare
cases an instance has. `Expires` (retention elapses) is true; `SweepRaces` (a start between
the two locks of a sweep) and `RemovalFails` (an expired or refused record cannot be removed)
are false in the passing run, because each breaks the promise (section 5). ACP frames, permission answers and events are a
new revision; time is not measured, so a deadline may pass at any moment.

### State and actions of `AgentTasks`

`task`, `att` and `bind` are the durable task, its attempts and their bindings to runs; `sb` is
the Server's binding of a run, `reg` and `inv` the registered process and its inventory, `wire`
the starts a process has polled and not handled, `call` the handlers with what each has read.

| Action | Code |
|---|---|
| `StartAttempt`, `AssignAgain`, `CompleteAttempt`, `LeaseLapses` | the attempts in the store |
| `StartCall`, `Prepare`, `Claim` | `start_agent_task_coding_run`: look, prepare, claim, three transactions apart |
| `LookFirst`, `Enqueue`, `Poll`, `Handle`, `Answers`, `BindAnswer`, `TimedOut`, `WaiterLost`, `Drained` | `dispatch_prepared_coding_agent_start` and the request's way to the Runner and back |
| `RecordRun`, `RecordNotStarted` | the transactions that note what became of it |
| `ObserveAsks`, `ObserveAnswered`, `ReconcileCall`, `Reconcile`, `RecordObserved`, `Terminalize` | `coding_agent_observe`, `reconcile_run` and `reconcile_agent_task_coding_run` |
| `Register`, `ServerRestart`, `PruneBinding`, `RunnerAlone` | registration with an inventory, restarts, and whatever `RunnerRuns` allows |

One task and one Runner. The run of attempt n is run n, since its id is derived from the
attempt. Leases lapse at any moment. The request's queue is `SyncRequests`' and is reduced here to
where the one request of a handler is. Retention on the Runner is left out: a run that is
forgotten before it is reconciled is not covered.

### State and actions of `AgentWakes`

`ep` is the Agent's current endpoint, `wakes` the rows in order of creation with claim and
carrier, `wait` and `done` the wait and its ended sources, `bnd` the controller's binding, `calls`
the attach and detach handlers between their transaction and the binding, `hold` the prepare that
holds the binding lock between its two transactions, `mail` what a View was given and has not
sent. `sent` is history.

| Action | Code |
|---|---|
| `Deliver`, `SubmitTask`, `WaitForEvents`, `SourceEnds`, `CancelWait`, `AttemptLapses`, `AttemptEnds` | what creates, joins and retires wakes |
| `AppAcquire`, `AppPrepare`, `AppVerify`, `ViewSends`, `AppFinish`, `Consume`, `Accept` | the way of a wake through the controller and the store to the Host and back |
| `Attach`, `Detach`, `Reconcile`, `EndpointLapses`, `RecoverExpired`, `Register`, `Unregister` | endpoints and bindings, transaction and memory apart |
| `ClaimLapses`, `ServerRestart` | lapsed claims, the takeover by a new Server |

One Agent, and Views of the Window its endpoint was attached from. Attention events wake like a
wait nobody cancels; push adapters run the same transactions under one lock and none is
registered; message contents do not matter.

### State and actions of `MaintenanceLease`

`lease` and `disk` are the registry's lease and its file, `calls` the runtime calls in progress;
`reg`, `online`, `known` and `bound` what the Server believes of each Runner, `proc` and
`hand` (the work it really has) what is true of it; `phase`, `pc`, `grant`, `file` and `fence` the
environment managers.

| Action | Code |
|---|---|
| `BeginMaintenance`, `CheckRuns` | the lease, and the handler's second look for coding-agent runs |
| `RenewMaintenance`, `EndMaintenance`, `EndPendingMaintenance`, `RecoverExpiredRunnerMaintenance` | the same names |
| `Enqueue`, `AdmitRuntimeCall` | what the fence stops |
| `BindRun`, `WorkEnds`, `WorkReported`, `Register`, `Heard`, `Disconnect` | what it does not |
| `GivenUp`, `Prune` | the sweep: a job is lost while its Runner may run it, and its record is pruned |
| `StartUpgrade`, `CallBegin`, `Granted`, `Refused`, `StopServices`, `FinishUpgrade`, `CallEnd`, `Ended`, `GiveUp` | the client: journal, calls, and giving up a call at any time |
| `Expire`, `ServerDies`, `ServerStarts`, `ProcessDies`, `ProcessStarts` | the clock and the crashes |

A lease is fresh or expired; a Server process may die at any time and its disk survives.
Two assumptions matter: a request the client gave up is not handled later, and a save that fails
leaves the old file (`TornSaves = FALSE`). What happens without them is in section 5. The reading
of a 404 from an older Server is left out.

What the Server knows of a Runner's work is less than what the Runner has. Work is `admitted`
until the grace sweep gives it up (`reconciliation.rs:917-986`). From then on it is `lost`: the
Runner may run it, but the Server holds its terminal record, which an inventory does not change
(`reconciliation.rs:1089-1107`), and `begin_maintenance` looks only at pending requests and
non-terminal records (`maintenance.rs:267-280`). When that record is gone, because it was pruned
or because the Server restarted and has no receipt of it (a detached job leaves none,
`receipts.rs:322`), the work is `stray`, and the next inventory makes the Server know it as active
(`reconciliation.rs:1134`). What matters is which kinds of work a Runner has, not how much of each,
so `hand` and `known` are sets of kinds. A detached job survives its Runner's process. A request
whose caller no longer waits counts as ended, because no inventory names it; Runners that send no
inventory (without job-state reconciliation) are left out.

## 3. What TLC checks

| Run | Instance | Shows |
|---|---|---|
| `recovery` | 1 detached project job with stale input, 2 reconciling processes, fair clock and sweep | types, no orphaned job, honest `not_started`, final outcomes, project fence, every recovery ends |
| `pair` | 2 jobs, one hidden, 2 processes, a queue of one place, symmetric | the inductive invariant, queue and records agree when a cleanup stop is refused, single handout |
| `handoff` | 1 hidden job, 3 processes, 2 of them answering with `/result`, 2 tombstones kept | tombstones, a projected result stays gone |
| `sync` | a fenced Computer request, a gateway request and a persistent-shell request, 2 processes, a queue of 2 places | the inductive invariant `SyncInv`, callers told the truth, no parked caller, no inheritance by a new process, refinement of `RunnerCall` |
| `coding_run` | 1 run id, 2 entries of it, 3 processes, 3 revisions (23,000 states) | one prompt at most, true and durable reports, the barrier before the prompt, no prompt after a shutdown, every run ends, refinement of `RunnerRuns` |
| `tasks` | 2 attempts, 2 handlers, 2 processes, 2 calls (708,000 states) | one execution at a time, what may be dispatched again was not touched, the store believes what is true, the outcome is real, observations advance |
| `wakes` | 2 wakes, 2 messages, 2 claims of a wake, 2 losses, besides messages a task or a wait for 2 sources (1.7 million states) | one turn at most, no turn of a retired wake, carriers match claims, messages are announced, no wait misses its condition |
| `maintenance` | the upgrade of a local Server (all runtimes) and of a joined Runner, 2 leases, 2 processes, 1 Server crash (3 million states) | a granted fence is kept, the Server knows of no work of a fenced Runner but jobs it had given up |
| `sync_timeout`, `coding_run_retention`, `tasks_restart`, `wakes_replaced` | violations | see section 5 |

Bounds. Two processes are the least that make a takeover; `handoff` uses three, so that the
tombstone list has an older entry to forget to look at. One job lets its whole life,
including removal and reconstruction, interleave with everything else; two jobs are
the least that compete for a queue place and for a sweep pass (`PassCap = 1`).
`Grace = 2` leaves a state in which a recovery is neither fresh nor expired, which
`RecoveryEnds` needs to tell a restarted grace from a running one.
`MaxSeq = 2` gives an older, an equal and a newer sequence number. `MaxStops`,
`MaxSeq` and `MaxFence` bound counters of the model only; the code's own limits are
`QueueLimit`, `MaxRetired` and `PassCap`. In `sync` three requests, one of each kind
of waiter, two of them fenced and one not, are one more than the queue holds, so that admission is refused and a place is freed; a
request id is used once, as in the code, which bounds the run by itself.

`coding_run` has three processes, so that a recovered run is recovered once more, and two
entries, so that a replaced one outlives its place in the map. `MaxRev = 3` lets a turn report
progress between the written prompt and its end. `tasks` needs two attempts for a replacement,
two handlers for a race and two processes for a restart; a handler that has ended may begin
again, and two calls are enough for a retry after a lost answer. In `wakes` the second wake
is the one the first holds back, and two losses are a replacement of the endpoint followed by a
restart, or the reverse; a task and a wait are taken one at a time (`Loads`), as both at once
only multiply independent rows. `maintenance` has both scopes contend for one Runner; with one nonce
per client (`MaxOps = 1`) a retry is the same operation, which is the case the refresh is
for, and two tokens let the second client have its turn. `MaxLoad = 1` admits one thing at a
time: a runtime call, or Runner work, which goes through all its kinds one after the other.
Larger instances hold the same properties and the inductive invariants: two at once
(`MaxLoad = 2`, 7.5 million states), and all three kinds of Runner work at once without runtime
calls (`MaxLoad = 3`, `MaxCalls = 0`, 2.6 million).

Fairness. `FairSpec` assumes weak fairness of `Tick` (time passes) and of the sweep,
which `src/src/lib.rs` (line 808) spawns on a fixed interval for the life of the
Server. Nothing is assumed of Runners, of callers or of any message. `RunnerSpec` assumes
weak fairness of a worker's own steps and of the publication of a commit: each of a worker's
waits (setup, write, turn, cancellation) has a deadline after which it goes on by itself, and
the commit is code without a wait. It assumes nothing of the agent, which may never answer,
nor of a restart. `CHECK_DEADLOCK FALSE` stands where a system really stops: the bounded
histories of `coding_run`, `tasks`, `wakes` and `maintenance` end with nothing left to do.

Every property of a passing run has a mutant in `PROJECT.json`, an operator beside the
one it replaces, marked `Mutant:`, that breaks it.

## 4. What is proved

For every set of processes and jobs, every set of reports and every value of the
bounds (assumption `ConstantsAssumption`: the job classes are subsets, the bounds are
positive):

* `TypeCorrect`: `Spec => []TypeOK`.
* `RegistryInvariant`: `Spec => []RegistryInv`, from which `QueueSafe`, `NoOrphans`,
  `LeaseSafe` and `NotStartedSound` follow.
* `StartOnce`, `DeadlineFixed`, `SeqMonotone`: the action properties, each from the
  invariant of the state the step starts in.
* `TerminalFinal`: `TerminalIsFinal` under the assumption that no process answers job
  starts with `/result` (`ResultInstances = {}`); without it the property is false
  (section 5).
* `FencedNotDispatched`: `FencedProjectNotDispatched`, and `ProjectedGone`:
  `ProjectedResultStaysGone` where no hidden job is detached (`HiddenJobs \cap DetachedJobs =
  {}`), which is how jobs are admitted: `run_detached_process` starts its jobs public
  (`src/src/tool_runtime/process.rs:671-687`), and the tools that start hidden jobs start
  shells, processes, scripts, validations and builds.

`QueueIsDispatchable` is not inductive alone: that a poll moves one request only needs
`QueuePlaces` (no two requests share a place), and that a fresh start is not already
pending needs `FreshIds`. `LeaseOwnsActiveJobs` needs `RecordsConsistent` (a queued
job was never handed out, so no inventory names it) to survive a registration, and
`NotStartedWasNotSeenToStart` needs from it that an unfinished job has no outcome.
`RegistryInv` is their conjunction. Its proof treats each action once, split into the
part about requests (`RequestsInv`) and the part about records (`RecordsInv`), because
almost every action disturbs them through different variables.

Two further invariants stand in `JobRegistryStepProofs`, beside what they are for.
`FencedIsQuiet`: a fenced project has no queued job, because the unregistration counts queued
jobs as active and only `StartJob`, which the fence stops, makes a job queued.
`ProjectionInv`: a record belongs to the process its start was handed to, so a suppression only
ever concerns the process that holds the lease, and an inventory of any other process does not
name the job.

For every set of processes and requests and every sorting of the requests into
compatible classes (assumption `SyncAssumption`):

* `SyncInvariant`: `Spec => []SyncInv`, from which `SyncTypeCorrect`, `SentSafe`,
  `NoneParked` and `QueueExact` follow.
* `NotStartedTrue` and `CallImplemented`: `NotStartedNeverSent`, and the refinement of
  `RunnerCall`, for all requests but those of persistent shells (`ExactReqs`), of which
  both are false, as `sync_timeout` shows.

`SyncInv` speaks of one request at a time (`RequestInv`) except for `QueuePlaces`. What
the properties lack to be inductive is that a request is dispatched exactly when it was
handed out while it is pending, and that a pending request's call has not ended: the
first makes the answer of a cancellation true, the second keeps a second answer away.
The proof first shows what every kind of removal does to one request, then takes each
action as an instance of it.

For every set of clients and Runners, every assignment of scopes and every value of the
bounds (assumptions `MaintenanceAssumption`, and `NoneAssumption`: no lease is not a lease):

* `MaintenanceInvariant`: `Spec => []MaintenanceInv`, from which `MaintenanceTypeCorrect` and
  `FenceKept` follow, torn saves included.
* `FencedRunnerIsQuiet`: `QuietRunner`, where no save is torn (`TornSaves = FALSE`); otherwise it
  is false (section 5). It says that no work the Server admitted and has not given up is known
  under a Runner's fence, not that the Server knows of no work: a lost job may come back.

`FenceIsKept` speaks of memory, but what survives a crash is the file, so `PromisesKept` says it of
the file, and of the promise from the moment the handler made it: between the check for active
runs and the client's note of the answer. `LeaseOnDisk` ties the two together. That the
recovery of an expired lease does not break it needs `ProcessOrder` and `LeaseProcess`: as long as
no later process was started, the connected one is the one the lease names. `QuietRunner` is
strengthened to the admitted work the Runner really has (`FencedWork`), because an inventory
makes the Server know it. That a begin which finds nothing known finds nothing admitted either
is `WorkKnown`: admitted work of a registered Runner is known. Lost work has no such
relation, so the theorem does not speak of it.

For every set of run ids and every number of entries, processes, revisions and concurrent
runs (assumptions `RunAssumption`: the bounds are numbers, and `AbsentAssumption`: what is absent is a
value of its own), with crashes at any
moment and writes that fail with or without the bytes on disk:

* without supposing more, `AnyRunnerInvariant`: `RunnerSpec => []AnyRunnerInv`, and
  `RunnerTypeCorrect` from it;
* where no start comes between the two locks of a retention sweep (`~SweepRaces`), whether
  removals of expired records succeed or not: `PromptedOnce`, `DurableAnswer`, and
  `StoppedMeansNoPrompt` (`NoPromptAfterStop`);
* where, besides, an expired record can be removed (`~RemovalFails`): `RunnerInvariant`,
  `RunnerSpec => []RunnerInv`; `TrueReports` and `BarrierFirst` from it; and
  `RunnerKeepsPromise`, that is `KeepsPromise`, the refinement of `RunnerRuns`: the initial
  states map to initial states, and every step to a step of `RunnerRuns` or to a stutter.

Each assumption is what the property needs: with a racing sweep all of these properties but the
types are false, and with failing removals `ReportsAreTrue`, `BarrierBeforePrompt` and the promise
are (section 5).

There are two inductive invariants because the assumptions differ in what they take away.
`RunnerInv` says, one run at a time, what is true at each point of its worker: `Sound` of the
record, `Working` while nobody ends the run, `Ended` of an end that is pending or published, and
`Leaving` of a worker whose entry was replaced. `BarrierBeforePrompt` is not inductive alone,
because between the barrier and the handoff only the worker's `pc` tells that the record on
disk already says `may`. A removal that fails leaves a record behind with no entry, and then a
record may say less than its prompt: what remains (`AnyRunnerInv`) is how far an entry (`Staged`)
and a record (`Filed`) are, each by itself, and in `Retained` that a run id with a prompt has
something on disk, so that a start of it never makes a new record, and that a worker on its way to
the prompt (`Awaiting`) has none yet. `Staged` also bounds the revision: a turn leaves room for
the two revisions of its end.

For every number of wakes, messages, claims, tasks, endpoints and restarts and every set of
sources (assumption `WakeAssumption`):

* `WakesInvariant`: `Spec => []WakesInv`, from which `WakesTypeCorrect`, `TurnStartedOnce`,
  `RetiredStartsNoTurn`, `TaskBoundToClaimant`, `MessagesAnnounced` and `WaitMissesNothing` follow.

The turn of a wake that is past its prepare is with the handler that holds the binding lock, in the
mail of a View, or started; `TurnInv` says that it is one of the three and only once.
`RetiredIsNotSent` follows, because a wake is retired only before its prepare. For the messages
`WakeInv` adds that only the wake of a task has a source that can end, so that the wake of a
message is never retired; for the waits `WaitInv` adds that a wait has seen every end of its
sources and has one wake, from the moment it triggers.

For every set of handlers and every number of attempts, calls, Runner processes and revisions
(assumptions `TaskAssumption` and `NoneAssumption`: the values stand apart, and the endings of a run
are definitive):

* `TasksInvariant`: `Spec => []TasksInv`, from which `TypeCorrect`, `PromptedOnce` (the property
  `OneExecution`), `DispatchableUntouched`, `BelievedIsTrue` and `OutcomesAreReal` follow.
* `OnlyForward`: `ObservationsAdvance`.

The argument has three parts. Every report anybody holds (the Server's binding, a registered
inventory, an answer on the wire, what a handler has read, the store) is true of its run now, and
stays true whatever the run does next: `Says` and `Faithful` name the reports that a run its
process may still prompt allows. One handler has the claim of a binding, and until a process has
handled the start that came from it, the run is untouched. And an attempt ends with an end the
store has observed. Each step is first shown to keep a frame (a handler's, the task's, the
Server's or the Runner's), so that the steps of `RunnerRuns`, which the module does not list one
by one, are treated through the promise that `CodingAgentRun` implements.

Before they were proved, `RunnerInv`, `AnyRunnerInv` (with and without racing sweeps and failing
removals), `WakesInv`, `TasksInv`, `FencedIsQuiet` and `ProjectionInv`
were checked with TLC on the instances of the runs of their module.

`DeadlineFixed`, `SeqMonotone` and `QueueExact` prove definitions (`RecoveryDeadlineFixed`,
`UpdateSeqMonotone`, `QueueIsUndispatched`) that no run repeats.

Only model-checked: `RecoveryEnds` and `RunEnds`, since liveness under fairness is out of the
prover's reach; the liveness half of the specifications plays no part in a theorem. Every other
property of a passing run is stated by a theorem.

## 5. Disagreements met

Each of these has a run that shows it, and an entry under `findings`:

* `sync_timeout`: a persistent-shell call that times out asks `cancel_request`, which
  reports a request that is already gone as not dispatched, and tells its caller that the
  Runner did not accept it (`session_shell.rs:940` against `requests.rs:1824-1826` and
  `1881-1884`).
* `coding_run_retention`: `cleanup_expired` collects expired runs under one lock and removes
  them under another. A start in between that replaces the expired entry loses its new entry
  and its record, and a replay gives the run id a second turn beside the first
  (`coding_agent/lifecycle.rs:120` against `docs/agent/acp-coding-agent-run.md:755-757`).
* `tasks_restart`: recovery rebuilds a run with revision 0, so that the end of a run the Server
  has seen at a higher revision is taken as stale, and the attempt stays open
  (`coding_agent/lifecycle.rs:114` against `docs/architecture/durable-agent-runtime.md:1142`).
* `wakes_replaced`: once the endpoint of a wake in `delivery_unknown` was replaced, nobody can
  consume the wake, and it holds back every later one (`agent_wake.rs:2569`, `544` against
  `docs/architecture/durable-agent-runtime.md:929-931`).

Met on the way, with no run of their own:

* A job-backed `/result` is applied to a job that is already terminal (`polling.rs:762`), against
  "Terminal class is server-authoritative once accepted" (`job_updates.rs:2316`). Current
  Runners answer job starts with updates; `TerminalFinal` is proved for them.
* A read that declares a job lost at its deadline leaves the pending start behind, and the
  sweep never comes back to it (`jobs.rs:724` against `reconciliation.rs:907-916`).
* A registration can remove an expired record under cleanup and rebuild the same job as public
  (`reconciliation.rs:1042`, `1134` against
  `docs/agent/job-reliability-and-concurrency.md:115-117`).
* `cancel_abandoned_sync_requests` does not ask the persistent-shell waiters, so an abandoned
  request of a persistent shell keeps its place in the bounded queue (`requests.rs:1841` against
  the comment at `1833-1836`).
* Runner, runs: if a terminal record cannot be written and later cannot be removed either, the
  record that says a prompt may have been sent is admitted again after its retention, and a
  cancel then calls the run `not_started`. If the first record cannot be written and its
  residue cannot be removed, a replay makes an entry without a worker, which stays `starting` until
  the Runner restarts. (`RemovalFails = TRUE`.)
* Tasks: a handler delayed before its prepare replaces the provider instance of a prepared
  binding by an older one (`operations.rs:1618`); the observations of the run it then has are
  all identity mismatches, and the attempt stays `outcome_unknown` until an operator acts.
* Wakes: the handlers of two attaches may reach the controller in the opposite order of their
  transactions; the later one drops the newer binding, and the View has to register again
  (`src/agent_wake.rs:1100`).
* Maintenance: (1) a save that fails after its rename leaves a lease file behind, over which a
  restart restores a fence for work admitted in between (`TornSaves = TRUE` violates
  `QuietRunner`), and `end_pending_maintenance` clears no file when there is no lease in memory;
  (2) a begin that is handled after its client gave up installs a lease nobody can end, which
  for all runtimes survives a restart, although the message at `maintenance.rs:379` names a
  restart as the cure; (3) a late duplicate of a begin whose check finds an active run ends
  the lease of the retry that was granted (`upgrade_http.rs`, after `begin`); (4) a begin for
  all runtimes just after a Server restart does not wait for Runners to come back with their
  work, which is why `QuietRunner` speaks of one Runner's fence and of work the Server knows of; (5) between the
  consumption of a start's response and `bind` a coding-agent run is in neither of the two
  places a begin for one Runner looks at; (6) nothing renews a lease, so an upgrade of more
  than 90 seconds works behind an expired one; (7) a fence for one Runner does not wait for a
  job that was declared lost while its Runner runs it: `begin_maintenance` counts it as ended,
  so the upgrade may stop a Runner that still works, and when the Server restarts with the
  lease, or prunes the record, the Runner's next inventory brings the job back as active under
  the fence (a property that the Server knows of no work at all there, `known = {}`, is
  violated so, without a torn save; `QuietRunner` excludes lost jobs).

Further hazards of the registry that no property covers: only the last 16 replaced processes are
remembered (`runners.rs:549`); a lost job whose record was pruned is rebuilt as active from a late
inventory (`reconciliation.rs:1134`); the response of a poll is lost after the start was marked
dispatched (`polling.rs:446`); a stop for an ended job waits in the queue for the next process
(`runners.rs:523`); a `running` update sent before a stop undoes `stop_requested`
(`job_updates.rs:2412`).

## 6. Not modelled

* Receipts and terminal events (`receipts.rs`), project inventory pages
  (`project_inventory.rs`), connection ids and notifiers, the Runner's job manager and the
  session ledger: state machines of their own, in the plan.
* Of the modelled parts: attention events, push adapters and goal-scoped waits (they run the
  transactions of waits and wakes), ACP frames, event cursors and the read-only diagnose
  request, task creation, sources, listings and recorder evidence.
* Access control, capabilities, tool contracts, OAuth, pairing, consoles, HTTP routing:
  decisions about one request over data this project abstracts; they refuse or admit.
* Accounts, conversations, goals, memory and audit: single SQLite transactions without a
  protocol around them.
* Environment manager beyond the fence, tunnels, shells, processes, LSP, browser and computer
  control, workspace and patches: operating-system effects, whose correctness is in what the
  system calls do.
* CLI, desktop application, web frontend, plugins and extensions: user interfaces and their
  packaging, the larger part of the repository's lines.

## 7. Plan

Done, with their proofs: the registry's jobs and requests; the maintenance lease; the
coding-agent manager with its promise; agent-task execution on top of that promise; wakes and
waits.

1. `RunnerLease`: connection ids, notifiers and cancel senders, refining the `live`
   argument: an old connection can neither keep the lease alive nor tear it down.
2. `JobManager` (Runner side) and its composition with the registry over a lossy channel:
   unsent updates are retried, a cleaned-up job is eventually stopped, `not_started` is true
   of the process.
3. `Receipts`, `ProjectInventory` and the session ledger's writer, with crashes between their
   steps.
