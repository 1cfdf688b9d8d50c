# TLA+ specifications of the LightAI platform

LightAI manages model instances on GPU nodes.  A server (the control plane,
Rust, SQLite) keeps what the users want and what it last heard; an agent on
every node executes tasks and reports.  This directory models the parts where
the two meet and where several handlers or loops work on the same state.  The
modules are translated from the source; documentation is quoted only where
the code does something else.

## The system

| Component | State | Operations | Talks to |
|---|---|---|---|
| Task queue (`server/src/agent_tasks.rs`) | `agent_tasks`: status, lease, payload | long poll and lease, result, sweep of timed out tasks | every request that needs a node; the agent's task loop |
| Model instances (`domain/instances.rs`) | `model_instances.status`, addresses | create, update, delete, check, start, stop, test | queue, heartbeat |
| Model files (`domain/model_files.rs`) | `model_files.status`, `verify_task_id` | create, update, delete, verify, list (which sweeps and repairs) | queue |
| Trash (`domain/model_trash.rs`) | `model_file_trash.status`, `file_deleted_at` | ensure, cleanup, delete | queue |
| Reconciliation (`repository.rs`, `reconcile_managed_instances`) | writes `model_instances.status` | on every heartbeat | the agent's heartbeat |
| Agent task loop (`agent/src/tasks/mod.rs`) | the task at hand | poll, execute, report once | server |
| Managed processes (`managed_process.rs`, `tasks/process.rs`, `docker_backend.rs`) | store file, in-memory registry, operating system processes | start, stop, monitor, report | task loop, heartbeat loop |
| Heartbeat loop (`agent/src/heartbeat.rs`, `state.rs`) | state file with node id and token, runtime configuration, cached collector registry | collect, report, re-register after a 401, apply the configuration in the answer | server |
| Registration, nodes (`repository.rs`) | node rows with tokens, `node_status`, `gpu_status` | register, authenticate, record a heartbeat, mark GPUs missing | heartbeat loop |
| Configuration policies (`repository.rs`) | a global and a policy per node, each with a version | save, effective configuration, sync status | both loops of the agent |
| GPU collectors (`agent/src/collector/`, `gpu/mod.rs`) | scripts, `collector_registry` | scan, check against the registry, run | heartbeat loop |
| Users, groups, sessions (`repository.rs`, `auth.rs`) | users, roles, sessions | setup, login, update, password change | routes |
| Runtimes, model catalogue (`domain/runtimes.rs`, `model_catalog.rs`) | rows referenced by instances | create, update, delete, check | instances, queue |
| Gateway supervisor (`gateway_supervisor.rs`, `domain/gateway.rs`) | process, state file | start, stop, check | queue |
| Gateway skeleton, routes, logs, web console | little or none | binding a port, dispatch, display | - |

What is hard about it:

* A request handler is a sequence of SQL statements, mostly not in one
  transaction, and may be dropped at any `await` (the client goes away).
  What it read is stale by the time it writes.
* Two parties time a task out (the waiting request and the sweep that any
  poll or listing runs) while the agent's result may arrive.
* The agent may restart at any point; its long poll lives on at the server;
  a result that cannot be delivered is dropped.
* Inside the agent the task loop and the heartbeat loop rewrite one file
  without a lock, and every file is truncated before it is written.
* Process ids are used again, a stop does not wait for the process to end,
  and a process that has ended looks alive until it is reaped.
* Requests on the catalogue check rows, then wait up to minutes for an
  agent, then write: what was checked may have changed, and a task that timed
  out may still be carried out.

Per component, correctness means: a task runs at most once, closes
eventually, and its outcome is what the agent reported; a row that says it
waits for the agent has something behind it; a live process can be stopped,
and "stopped" means dead; a record outlives its process only briefly; the
control plane's view of an instance converges to the node's; there is always
an administrator; configuration versions order configurations.

## Modules

| Module | Models |
|---|---|
| `TaskService` | what the task queue promises: the abstract specification that `AgentTasks` implements |
| `AgentTasks` | the queue, the rows, all handlers that write them, the agent's loop as the other end |
| `AgentTasksProofs` | its theorems |
| `AgentTasksRefinement` | the theorem that `AgentTasks` implements `TaskService` |
| `ManagedProcess` | the agent's processes, registry, store file, monitors and heartbeat reports |
| `ManagedProcessProofs` | its theorems |
| `NodeLink` | registration and tokens, heartbeats with GPUs, configuration policies, collectors |
| `UserAccounts` | users, groups, sessions, authentication and the requests that manage them |
| `Catalogue` | models, files, trash, runtimes and instances, with every request that writes them |
| `GatewaySupervisor` | the gateway process of a node, its record, the tasks that start and stop it |
| `UserAccountsProofs`, `GatewaySupervisorProofs`, `NodeLinkProofs`, `CatalogueProofs` | the theorems of these four |
| `MC...` | constants, scopes and symmetry of each for TLC |

`AgentTasks` and `Catalogue` look at the same tables from two sides.  The
first follows a task statement by statement and knows of each row only its
status; the second follows the requests, knows what the rows refer to and
what the agent does, and takes a task for something that is sent, performed
once or not at all, and possibly performed after it timed out, which is what
`TaskService` promises and `ImplementsService` states.  `ManagedProcess` and
`NodeLink` share the heartbeat: the first makes its reports, the second its
other contents, and `AgentTasks` and `Catalogue` apply it.

### AgentTasks

`status`, `kind`, `target`, `created` are the columns of `agent_tasks`; `row`
is the status of each instance, file or trash row; `overdue` holds the tasks
whose lease (30 s) or queue timeout (300 s) has passed, so that time itself
needs no clock except for the order of `created_at`.  `waiter[t]` is the
request handler that created `t`, `poll[p]` a handler that sweeps (the
agent's poll, a listing, a verification), each with a program counter at its
next statement.  Each SQL statement or transaction is one action:

* requests: `Admit` (checks), `InsertTask`, `SetCleanupPending`,
  `WaiterRead`, `WaiterMark`, `WaiterFailRow`; `WaiterCut` drops the handler;
* requests without a task: `CleanupOffline`, `CheckRead`/`CheckOffline`,
  `DeleteCheck`/`DeleteInstance`, `DeleteTrash`;
* the sweep: `StartSweep` by `AgentPoll`, `ListFiles`, `VerifyRequest` or
  `VerifyReread`; `SweepTask`, `SweepRow`, `SweepNotFound`, `SweepDone`,
  then `FixFile`, `FixDone` in a listing;
* the poll: `PollSelect`, `PollWake`, `PollLease`, `PollLeaseRow`,
  `PollReply`; `PollCut` drops it;
* the agent: `AgentFinish`, `RecordResult` or `LoseResult`, `AgentRestart`;
* `Heartbeat` with any reports, `Expire`, `Tick`.

`handed` and `cut` are history variables.  `cut` collects the rows of
handlers that were dropped, or overtaken by the end of the task, exactly
between a statement on the task and the one on the row.  These are the only
places where the code can strand a row in a waiting status, which is what
`PendingHasOwner` says.

`Service` maps this state to `TaskService`: a task is waiting until it is
handed to the agent, given while the agent works on it, then over; its answer
is what is in `results`, its verdict the status; any fault is a disturbance.
`TaskService` says what does not hold too: a task that timed out may be
performed and its verdict replaced, and after a disturbance a poll left behind
may open a finished task again.

Abstractions: one node; each request has one fresh task id; the failure codes
of a verification are one; tasks without a row (log reads, gateway commands,
runtime checks, verification before saving) are the kind `query`.

### ManagedProcess

`proc` is what the operating system knows (a process that has exited and was
not reaped is a `zombie`, whose `/proc` entry still looks alive), `store` the
file, `registry` the child handles of the current agent process, `task` and
`hb` the two loops with what they have loaded.  `Truncate` and `Write` are
the halves of `tokio::fs::write`; a write on top of another writer's may
leave bytes of the longer content behind, and such a file never parses again.
`Start` to `Register` follow `start_model_instance_with_store` and
`start_docker_instance`; `Stop` to `Terminate` follow
`stop_model_instance_with_store`; `HbLoad` to `HbSend` are `reports()` and
the heartbeat; `Monitor` reaps.  `Restart` ends the agent; managed processes
survive it (the service runs with `KillMode=process`).

Faults, each counted by `faults`: a restart, a failing write, an unusable log
directory (`LeaveChild`), a docker command that times out.  The safety
properties speak of the time until the first fault: afterwards the code gives
no such guarantee (see the findings and hazards in `PROJECT.json`).

Abstractions: pid and start time together identify a process; instances have
distinct ports; the window between `check_record` and `kill` in which a pid
could be reused is not modelled.  `Register` puts the handle in the registry
and starts its monitor in one step, since the monitor sleeps three seconds
before its first look.

### NodeLink

`nodes`, `pol`, `registry`, `gpu` are the tables; `file` the agent's state
file, `conf` and `cache` what it holds in memory; `loop[a]["heartbeat"]` and
`loop[a]["tasks"]` the request each loop is sending, with what it has found
out so far; `late` the requests of broken connections that the server may
still carry out.  A cycle of the heartbeat loop is `CycleLoad`, then
`Register`, `StateTruncate`, `StateWrite` if need be, `FetchRegistry` (or
`FetchFails`), `Scan`, `Run`, `Send`, `Record`, `ListRegistry`, the four
statements of `ReadConfig`, and `Apply`; a 401 leads back to `Register` once.
`PollLoad` and `PollAuth` are the task loop as far as it carries
configurations.  `SaveRead` and `SaveWrite` save a policy, `RegisterCollector`
and `DeleteCollector` change the registry; scripts, devices and time change on
their own.  `Disconnect` and `Restart` are the faults.

Abstractions: a policy sets a few fields to a few values; a collector has one
script and a device one collector; tokens are numbers, and any that is in no
use stands for a new random one; all clocks agree; metric samples are left out.
The approval command line (`collector_cli.rs`) writes what `RegisterCollector`
writes.

### UserAccounts

Each of the four tables is a variable or two, `req[r]` a request with the
session and user it authenticated as and what it has read.  `SetupCount` and
`SetupInsert` are one transaction: an insert whose snapshot is no longer the
latest is refused by SQLite (`fresh`).  Authentication is `AuthSelect`,
`AuthIdle`, `AuthTouch`; then `ManagesUsers` and `OwnAccount` decide what the
request may do, and the handler's statements follow (`UpdateRead`,
`UpdateCount`, `UpdateWrite` and so on).  `CutRequest` drops it anywhere.

A password is a number; `epoch[u]` counts the events that are meant to end
the sessions of `u`.  `raced`, `stray` and `wasAdmin` are history: updates
written on a stale read, users with a login that overlapped the end of their
sessions, requests whose user was an administrator at some time.  Session expiry
and idle time pass nondeterministically; deleting a group is modelled, users are never
deleted by the code.

### Catalogue

A place is a node and a path on it; `disk` says where there is a file.
`model`, `file`, `trash`, `runtime`, `inst` are the tables, `up` what the
agent runs and with which settings, and `op[o]` a request: the rows it is
about, what it has read, and its task (sent, performed, over, or due).  Every
request of the five domain modules has its steps: `AskFile`/`SaveFile`,
`DeleteModelCount`/`DeleteModelList`/`EnsureLook`/`EnsureInsert`/`DeleteModel`,
`UpdateRuntimeCheck`/`UpdateRuntimeWrite`, `RunRead`/`RunQueue` and so on.
`Perform`, `Report`, `TimeOut`, `Lose` are the course of a task, `Cut` drops
a request, `Exit` and `Heartbeat` are the node's own.

History variables name the windows in which the code gives a guarantee away:
`mixed` (a file's place changed during a verification of another), `moved`,
`offered` (in the trash and still listed), `untraced` (a file that came too
late for a deletion, or whose trash item was removed or is older than its
place), `drifted` (settings changed by a request that found the instance
idle).  The properties say that nothing goes wrong outside these windows.

Each request is sent once, so that a behaviour is bounded by its requests.
The counters `rev` stand for the contents of settings.  Reads that commute
with what others do in between are one step.

### GatewaySupervisor

`proc` is the process table with ids that are used again and start times that
are not, `port` who listens, `file` the record, `job` the task at hand with
its next step, `req` and `queue` the control plane's open tasks.  `StartCheck`
to `SaveWrite` follow `start_gateway`, `StopCheck`, `Kill`, `Remove`
`stop_gateway`; a restart is both.  `Bind` is the start of the gateway's own
`main`.  Processes end, are reaped, and other programs take their ids.
`RestartAgent`, `SaveFails` and `Crash` are the faults.

## Runs

| Run | Instance | Shows |
|---|---|---|
| `instances` | 2 tasks (start, stop), 1 instance, 2 request slots, heartbeats, 1 fault | `ExecutedAtMostOnce`, `ResultOnlyIfHanded`, `PendingHasOwner`, and that the queue implements `TaskService` (`ImplementsService`) |
| `requests` | 2 tasks (start, check, query) on an ollama instance, offline checks, deletes | `TypeOK`, `PendingHasOwner`, `FinishedStays` |
| `verify` | 2 tasks (verification, cleanup), 1 file, 1 trash row, 2 slots, 1 fault | `PendingHasOwner` |
| `live` | 2 starts, fairness, 1 fault | `TaskResolved`, `RowResolved` |
| `files_live` | 1 verification or cleanup, listings, offline cleanup, delete, fairness, 1 fault | `RowResolved` |
| `processes` | 1 binary, 1 container, 2 processes, fairness, 1 fault | `TypeOK`, `LiveIsHeld`, `StoppedIsDead`, `LiveHandleKept`, `DeadForgotten` |
| `nodes` | 6 scopes: 2 agents of one name; 1 agent with up to 3 saved policies, or a device, a collector and 2 changes; up to 1 fault; fairness | `TypeOK`, `MissingWasGone`, `RowsAsReported`, `RunsVetted`, `Reconnects`, `ConfigConverges` |
| `accounts` | 2 requests, 2 users, 2 sessions, 1 group; a scope with password changes and one with groups | `TypeOK`, `SetupOnce`, `AdminRemains`, `SessionsCurrent`, `AdminWasAdmin`, `MembersExist` |
| `gateway` | 2 process ids, 3 processes in all, 1 request, 2 faults, fairness | `TypeOK`, `GatewayIsRecorded`, `StoppedIsStopped`, `KillsGatewaysOnly`, `RunningServes` |
| `catalogue` | 3 requests out of one of 5 groups of kinds, 2 models, files, runtimes and instances, 3 places on 2 nodes | `TypeOK`, `VerifiedNamesPath`, `StartsVerified`, `DeletedInTrash`, `TrashOfDeleted`, `RuntimeOfInstance`, `RunsAsConfigured` |
| `delete` | violation | an instance is deleted while it is starting |
| `record_lost` | violation | a heartbeat writes old records over that of a new process |

Every property has a mutant of the code, written beside the definition it
changes, under which its run fails.

Bounds.  Two tasks are enough for every pairwise race: an older and a newer
task on one row, or two sharing the agent.  Two slots allow a poll left
behind by a restart, or a listing, beside the agent's own poll; where there
is neither (no fault and no files) one slot is all that can be used.  One
fault is one restart or one dropped poll; dropped requests and lost results
are not bounded.  Two processes allow a start after a stop and a second start
beside a first.  Two process ids and three processes allow an id to be used
by a gateway, by another program, and again.  Three requests in `Catalogue`
are a request that checks and writes, one that changes what it checked, and
one that makes the effect visible (a start, a deletion, a trash item); the
groups of kinds put together those that touch the same rows.  In `NodeLink`
three saves allow two that overlap and one after them; one fault is a
restart or a broken connection with the request still at the server.  In
`UserAccounts` two requests at a time, as many one after another as `Scopes`
allows, are every pair of overlapping requests.  Scopes keep independent
concerns out of each other's state space; every action fires in some scope.
The proofs below do not depend on any of these bounds.

The systems may stop when every task id, request or bounded change is used,
so these runs do not check for deadlock; the processes' run does.

Fairness.  A handler that is not dropped continues, the agent's loop polls
again after every error, leases and deadlines pass, and a result in flight is
recorded or lost.  The agent's poll and the second read of a verification
need a free request slot of the model, which the server does not limit;
hence strong fairness for those two.  Nothing obliges users to send requests,
heartbeats to arrive, or faults to happen.  In `ManagedProcess` the two loops
and the monitors are fair; starts, stops, exits and faults are not.  In
`NodeLink` both loops of an agent go on for ever (`run` catches every error
and sleeps) and their requests are answered; saves, late requests, time and
changes are not fair.  In `GatewaySupervisor` the task at hand goes on, and
processes bind, die of a signal and are reaped.  `UserAccounts` and
`Catalogue` state no liveness.

## Proofs

Every invariant and every safety action property that a run checks is a
theorem for all values of the constants, and so is the refinement of
`TaskService`.  Each `...Proofs` module proves `Spec => []Inv`
(`Invariance`), where `Inv` is the inductive invariant, from a lemma for the
initial states and one or more for every action; the properties follow from
`Inv`.  The inductive invariants were model-checked before they were proved.
Each is defined at the end of the module it is about.  Besides what the table
says, every module assumes that `None` is not one of its values and that bounds are
numbers.

| Module | Theorems | Assumes |
|---|---|---|
| `AgentTasksProofs` | `TypeOK`, `ExecutedAtMostOnce`, `ResultOnlyIfHanded`, `PendingHasOwner`, `FinishedStays` | instances, files and trash items share no id |
| `AgentTasksRefinement` | `ImplementsService` | the same |
| `ManagedProcessProofs` | `TypeOK`, `LiveIsHeld`, `StoppedIsDead`, `LiveHandleKept` | no instance is a container and a script |
| `UserAccountsProofs` | `TypeOK`, `SetupOnce`, `AdminRemains`, `SessionsCurrent`, `AdminWasAdmin`, `MembersExist` | the roles are those of the code |
| `GatewaySupervisorProofs` | `TypeOK`, `GatewayIsRecorded`, `StoppedIsStopped`, `KillsGatewaysOnly` | a truncated file is no record |
| `NodeLinkProofs` | `TypeOK`, `MissingWasGone`, `RowsAsReported`, `RunsVetted` | finitely many agents, with a node id for each |
| `CatalogueProofs` | `TypeOK`, `VerifiedNamesPath`, `StartsVerified`, `DeletedInTrash`, `TrashOfDeleted`, `RuntimeOfInstance`, `RunsAsConfigured` | models and files share no id; there is an id of each table that `Init` fills |

`AgentTasksProofs`.  That a task is handed out once needs that the agent has
one poll (`Slots`), that a poll that picked a task for the agent has not been
overtaken by a result (`Progress`, `OneResult`), and that what is swept exists
(`DueTasks`).  `PendingHasOwner` needs to know which rows a task can write
(`KindTarget`) and who is still behind a verification (`Requesters`).
`FinishedStays` rests on `LonePoll`: without a fault the agent's poll is the
only one.

`AgentTasksRefinement`.  Under the mapping of `Service` every action is one of
`TaskService` or a stutter: `InsertTask` submits, `PollReply` hands over,
`AgentFinish` performs, a result is concluded or lost, a timeout gives up, a
lease of a poll that was overtaken reopens, a restart or a dropped poll
disturbs.  Where the service allows a step only in some states (nothing is
given while something else is, nothing is reopened without a disturbance) the
invariant of `AgentTasksProofs` says that the queue is in one of those.

`ManagedProcessProofs`.  Whatever names a process names it for its owner
(`Owners`); a handle in the registry is of a process that serves its port
(`HeldServes`), so a start that found the port free found no live process, and
its child stays the only one (`TaskAlone`); a stop that holds neither a handle
nor a process has none to miss.

`UserAccountsProofs`.  A count is worth something as long as its transaction
is still the latest: a setup that is `fresh` has still seen no user
(`FreshSetup`), an update that is `fresh` still leaves another administrator
(`FreshUpdate`), so the second of two overlapping ones is refused.  What a
request carries exists (`Carried`, `Referenced`), because rows of users are
never deleted; `AuthWasAdmin` covers the time between the two reads of an
authentication, after which the role may have changed.

`GatewaySupervisorProofs`.  Start times are never used again (`Clock`), so a
record that names the start time of a gateway names no other process
(`Identified`), even when the id was taken by another program; the child that
was just spawned is the one whose start time is being looked up (`Started`);
the record is only replaced or removed once what it names has ended
(`Cleared`).  `Queued` keeps a task from being taken twice.

`NodeLinkProofs`.  A report without an error leaves out only devices that were
unplugged or that their collector did not report; `Accounted` says so of
every stage of a report: while collectors run, while it is sent, when it is
sent again after a 401, and after its connection broke (`Late`).  `Vetted`
says of every copy of the registry (the table, the answer to a request, the
list on its way, the agent's cache) that what it enables was registered once.
`OneNode` is why a new agent finds a node id that is free.

`CatalogueProofs`.  `Fits` says for each kind of request what of the rows it
has read is still true when it writes: the rows it names are there (`Names`,
`Holds`); the place it is having verified is still that of the file, or the
file is in `mixed` (`Verifying`); the settings it carries to a start are
those of the instance, or it is in `drifted` (`Starting`); a request that
found an instance busy does not change the settings of that one (`Excludes`);
every file a deletion is about has an item or is still to be handled
(`Trashing`).  `Carry` shows once that this survives every step of another
request that keeps rows, nodes and items (`TablesStay`); the lemmas for the
actions say that they do.  `DeletedInTrash` is not inductive and follows from
two facts that are: a file that is gone has an item (`GoneAreKept`), and items
are of the place where the file is (`ItemsAreOfFiles`).

Liveness (`TaskResolved`, `RowResolved`, `DeadForgotten`, `Reconnects`,
`ConfigConverges`, `RunningServes`) is model-checked only: fairness and
`ENABLED` are out of the prover's reach.

## Plan

1. `AgentTasks`, `ManagedProcess` with proofs; `TaskService`; `NodeLink`,
   `UserAccounts`, `Catalogue`, `GatewaySupervisor` model-checked: done.
2. The refinement of `TaskService` and the safety properties of the other four
   proved: done.
3. `InstanceLifecycle`: the control plane's rows, tasks and heartbeats in
   flight composed with `ManagedProcess`.  Does the view of the control plane
   converge to the node's?  What does an unreadable store do to instances that
   run?
4. The ollama daemon that several instances share.

## Not modelled

Launch arguments, docker option merging, log capture and rotation, metric
samples, the fields of collector output, audit rows, history cleanup, TLS
certificates and the web console carry no state that the properties speak of.
The requests that read logs write only text.  Names are not compared where a
clash merely fails the request.  `PROJECT.json` lists every component with its
status, and the hazards no property covers with the reason: a store or state
file that was truncated by a crash, a container whose record was lost, a child
left by a failed start, and a running instance whose stop is refused because
its file or runtime is no longer in order.  The first effects of each are in the modules; what
follows is certain, so that there is nothing to check.
