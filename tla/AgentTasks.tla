----------------------------- MODULE AgentTasks -----------------------------
(***************************************************************************)
(* The control plane's task queue: the table agent_tasks, the rows its     *)
(* tasks are about (model_instances, model_files, model_file_trash), and   *)
(* the server handlers that read and write both                            *)
(* (server/src/agent_tasks.rs, domain/instances.rs, domain/model_files.rs, *)
(* domain/model_trash.rs), with the agent's task loop                      *)
(* (agent/src/tasks/mod.rs) as the other end of the protocol.  Tasks that  *)
(* write no row (log reads, gateway commands, runtime checks, and the      *)
(* verification that precedes saving a file path) have target None.        *)
(*                                                                         *)
(* Every SQL statement, or every transaction, is one step.  A handler is a *)
(* sequence of such steps and may be cut between any two of them: the      *)
(* client disconnects, a statement fails, or the server stops.  A server   *)
(* crash is all handlers being cut; the database survives it.              *)
(*                                                                         *)
(* One node is modelled.  Time is not: a deadline, a lease or the queue    *)
(* timeout may elapse whenever the code looks at it.  The several failure  *)
(* codes of a file verification are one status, "failed".                  *)
(***************************************************************************)
EXTENDS Naturals, FiniteSets

CONSTANTS
  Tasks,      \* task ids (UUIDs), each used by one request
  Instances,  \* local rows of model_instances
  Ollama,     \* the instances whose runtime backend is "ollama"
  Files,      \* rows of model_files
  Trash,      \* rows of model_file_trash
  Polls,      \* request slots in which mark_timed_out_tasks may run
  Kinds,      \* the task kinds that requests create in this instance
  Others,     \* the other requests that arrive: "list" (model files),
              \* "check" (an instance, node offline), "delete", "heartbeat"
  MaxClock,   \* bound on the seconds clock behind created_at
  MaxFaults,  \* bound on agent restarts and cut poll handlers
  None        \* the null of optional fields

InstanceKinds == {"start_model_instance", "stop_model_instance",
                  "check_model_instance", "test_model_instance"}
RowKinds == InstanceKinds \cup {"verify_model_file", "cleanup_model_file"}
AllKinds == RowKinds \cup {"query"}  \* "query": any kind without a row
Rows == Instances \cup Files \cup Trash

ASSUME ConstantsAssumption ==
  /\ Ollama \subseteq Instances
  /\ Kinds \subseteq AllKinds
  /\ Others \subseteq {"list", "check", "delete", "heartbeat"}
  /\ Instances \cap (Files \cup Trash) = {} /\ Files \cap Trash = {}
  /\ MaxClock \in Nat /\ MaxFaults \in Nat
  /\ None \notin Tasks \cup Polls \cup Rows \cup AllKinds

TaskStatus == {"queued", "running", "succeeded", "failed", "timed_out"}
InstanceStatus == {"starting", "running", "stopping", "stopped", "failed"}
FileStatus == {"verified", "verify_pending", "verifying", "failed",
               "verify_timeout"}
TrashStatus == {"pending", "cleanup_pending", "cleanup_running", "cleaned",
                "cleanup_failed", "cleanup_timeout"}
StatusOf(x) == {"deleted"} \cup (IF x \in Instances THEN InstanceStatus
                                 ELSE IF x \in Files THEN FileStatus
                                 ELSE TrashStatus)
RowStatus == InstanceStatus \cup FileStatus \cup TrashStatus \cup {"deleted"}

VARIABLES
  status,    \* agent_tasks.status, "none" before the row exists
  kind,      \* agent_tasks.kind
  target,    \* the row named in agent_tasks.payload_json
  created,   \* agent_tasks.created_at, in seconds
  overdue,   \* tasks whose lease_until or queue timeout has passed
  clock,     \* now_unix_secs, as far as created_at is concerned
  row,       \* status of each row, "deleted" once the row is gone
  fileGone,  \* trash rows with file_deleted_at set
  verifyTask,\* model_files.verify_task_id
  waiter,    \* the request handler that created the task
  deleting,  \* instances whose delete handler has passed its status check
  checking,  \* status read by a check handler that will find the node offline
  poll,      \* handlers that sweep timed out tasks (and then lease one)
  agent,     \* the agent's task loop
  results,   \* task results on their way to the server
  faults,    \* restarts and cut polls so far
  handed,    \* history: how often a task reached the agent
  cut        \* history: rows whose handler was cut, or overtaken, between
             \* a statement on the task and the one on the row

taskVars == <<status, kind, target, created, overdue, clock>>
rowVars == <<row, fileGone, verifyTask, deleting, checking>>
vars == <<status, kind, target, created, overdue, clock, row, fileGone,
          verifyTask, deleting, checking, waiter, poll, agent, results,
          faults, handed, cut>>

-----------------------------------------------------------------------------
(* What each task kind writes into its row. *)

PendingStatus(k) ==
  CASE k = "start_model_instance" -> "starting"
    [] k = "stop_model_instance"  -> "stopping"
    [] k = "verify_model_file"    -> "verify_pending"
    [] k = "cleanup_model_file"   -> "cleanup_pending"
    [] OTHER                      -> "running"

TimeoutStatus(k) ==
  CASE k = "verify_model_file"  -> "verify_timeout"
    [] k = "cleanup_model_file" -> "cleanup_timeout"
    [] OTHER                    -> "failed"

\* Mutant: the task's outcome is written into the row as it is.
ResultStatusRaw(k, ok) == IF ok THEN "succeeded" ELSE "failed"

ResultStatus(k, ok) ==
  CASE k = "verify_model_file"   -> IF ok THEN "verified" ELSE "failed"
    [] k = "cleanup_model_file"  -> IF ok THEN "cleaned" ELSE "cleanup_failed"
    [] k = "stop_model_instance" -> IF ok THEN "stopped" ELSE "failed"
    [] OTHER                     -> IF ok THEN "running" ELSE "failed"

\* UPDATE ... SET status = s WHERE id = x: no effect on a row that is gone,
\* and no statement at all for a task without a row.
SetRow(x, s) == IF x \in Rows /\ row[x] # "deleted"
                THEN [row EXCEPT ![x] = s] ELSE row

\* A write to row x was cut off, or came after what it was meant to precede.
Stray(x) == cut \cup ({x} \cap Rows)

Open == {t \in Tasks : status[t] \in {"queued", "running"}}

\* Mutants: the guard on the status is missing; the wrong status is set.
MarkTimedOutAlways(t) ==
  /\ status' = [status EXCEPT ![t] = "timed_out"]
  /\ overdue' = overdue \ {t}
MarkTimedOutFailed(t) ==
  /\ status' = [status EXCEPT ![t] = IF @ \in {"queued", "running"}
                                     THEN "failed" ELSE @]
  /\ overdue' = overdue \ {t}

\* mark_task_timed_out: guarded by the task's current status.
MarkTimedOut(t) ==
  /\ status' = [status EXCEPT ![t] = IF @ \in {"queued", "running"}
                                     THEN "timed_out" ELSE @]
  /\ overdue' = overdue \ {t}

PollPc == {"idle", "sweep", "sweep_row", "fix", "select", "wait", "picked",
           "leased", "reply"}
WaiterPc == {"none", "sweeping", "admitted", "inserted", "rereading",
             "waiting", "deadline", "marked", "ok", "conflict", "gone"}
\* api: an API request, not the agent's poll; req: the verification request
\* on whose behalf it sweeps; files: the model files it lists.
IdlePoll == [pc |-> "idle", api |-> FALSE, req |-> None, files |-> {},
             due |-> {}, task |-> None]
PollType == [pc : PollPc, api : BOOLEAN, req : Tasks \cup {None},
             files : SUBSET Files, due : SUBSET Tasks, task : Tasks \cup {None}]
IdleAgent == [mode |-> "idle", poll |-> None, task |-> None]

TypeOK ==
  /\ status \in [Tasks -> TaskStatus \cup {"none"}]
  /\ kind \in [Tasks -> AllKinds \cup {None}]
  /\ target \in [Tasks -> Rows \cup {None}]
  /\ created \in [Tasks -> Nat]
  /\ overdue \in SUBSET Tasks
  /\ clock \in Nat
  /\ row \in [Rows -> RowStatus] /\ \A x \in Rows : row[x] \in StatusOf(x)
  /\ fileGone \in SUBSET Trash
  /\ verifyTask \in [Files -> Tasks \cup {None}]
  /\ deleting \in SUBSET Instances
  /\ checking \in [Instances -> InstanceStatus \cup {None}]
  /\ waiter \in [Tasks -> WaiterPc]
  /\ poll \in [Polls -> PollType]
  /\ agent \in [mode : {"idle", "polling", "busy", "reporting"},
                poll : Polls \cup {None}, task : Tasks \cup {None}]
  /\ results \in SUBSET [task : Tasks, ok : BOOLEAN]
  /\ faults \in Nat
  /\ handed \in [Tasks -> Nat]
  /\ cut \in SUBSET Rows

Init ==
  /\ status = [t \in Tasks |-> "none"]
  /\ kind = [t \in Tasks |-> None]
  /\ target = [t \in Tasks |-> None]
  /\ created = [t \in Tasks |-> 0]
  /\ overdue = {}
  /\ clock = 0
  /\ row = [x \in Rows |-> CASE x \in Instances -> "stopped"
                             [] x \in Files     -> "verified"
                             [] OTHER           -> "pending"]
  /\ fileGone = {}
  /\ verifyTask = [f \in Files |-> None]
  /\ deleting = {}
  /\ checking = [i \in Instances |-> None]
  /\ waiter = [t \in Tasks |-> "none"]
  /\ poll = [p \in Polls |-> IdlePoll]
  /\ agent = IdleAgent
  /\ results = {}
  /\ faults = 0
  /\ handed = [t \in Tasks |-> 0]
  /\ cut = {}

-----------------------------------------------------------------------------
(* Requests that create a task: run_local_instance_task and its callers,   *)
(* cleanup_model_file_trash, queue_model_file_verification, and the        *)
(* requests whose task has no row.  Their checks read the row, and take    *)
(* the time for created_at, in statements before the insert.               *)

\* check and test need a running instance, except of an ollama runtime.
Checkable(i) == row[i] = "running" \/ i \in Ollama

KindFits(k, x) ==
  CASE k = "query"              -> x = None
    [] k = "verify_model_file"  -> FALSE   \* see VerifyRequest
    [] k = "cleanup_model_file" -> /\ x \in Trash \ fileGone
                                   /\ row[x] # "deleted"
    [] k \in {"check_model_instance", "test_model_instance"}
         -> x \in Instances /\ row[x] # "deleted" /\ Checkable(x)
    [] OTHER -> x \in Instances /\ row[x] # "deleted"

Admit(t, k, x) ==
  /\ waiter[t] = "none"
  /\ KindFits(k, x)
  /\ kind' = [kind EXCEPT ![t] = k]
  /\ target' = [target EXCEPT ![t] = x]
  /\ created' = [created EXCEPT ![t] = clock]
  /\ waiter' = [waiter EXCEPT ![t] = "admitted"]
  /\ UNCHANGED <<status, overdue, clock, rowVars, poll, agent, results,
                 faults, handed, cut>>

\* INSERT INTO agent_tasks.  For instances and files the pending status is
\* set in the same transaction; a cleanup sets it in a later statement.
InsertTask(t) ==
  /\ waiter[t] = "admitted"
  /\ status' = [status EXCEPT ![t] = "queued"]
  /\ row' = IF kind[t] = "cleanup_model_file" THEN row
            ELSE SetRow(target[t], PendingStatus(kind[t]))
  /\ verifyTask' = IF kind[t] = "verify_model_file"
                   THEN [verifyTask EXCEPT ![target[t]] = t] ELSE verifyTask
  /\ waiter' = [waiter EXCEPT ![t] =
                  IF kind[t] \in {"cleanup_model_file", "verify_model_file"}
                  THEN "inserted" ELSE "waiting"]
  /\ UNCHANGED <<kind, target, created, overdue, clock, fileGone, deleting,
                 checking, poll, agent, results, faults, handed, cut>>

\* cleanup_model_file_trash, after the insert and the notification.  The
\* task may already have been leased, or even finished, by then.
SetCleanupPending(t) ==
  /\ waiter[t] = "inserted" /\ kind[t] = "cleanup_model_file"
  /\ row' = SetRow(target[t], "cleanup_pending")
  /\ cut' = IF t \in Open THEN cut ELSE Stray(target[t])
  /\ waiter' = [waiter EXCEPT ![t] = "waiting"]
  /\ UNCHANGED <<taskVars, fileGone, verifyTask, deleting, checking, poll,
                 agent, results, faults, handed>>

\* One turn of wait_for_model_instance_task and its like: the status is
\* read, and if the task is still open the deadline is looked at.
WaiterRead(t) ==
  /\ waiter[t] = "waiting"
  /\ \/ status[t] = "succeeded" /\ waiter' = [waiter EXCEPT ![t] = "ok"]
     \/ /\ status[t] \in {"failed", "timed_out"}
        /\ waiter' = [waiter EXCEPT ![t] = "conflict"]
     \/ t \in Open /\ waiter' = [waiter EXCEPT ![t] = "deadline"]
  /\ UNCHANGED <<taskVars, rowVars, poll, agent, results, faults, handed, cut>>

WaiterMark(t) ==
  /\ waiter[t] = "deadline"
  /\ MarkTimedOut(t)
  /\ waiter' = [waiter EXCEPT ![t] = IF kind[t] = "query" THEN "conflict"
                                     ELSE "marked"]
  /\ UNCHANGED <<kind, target, created, clock, rowVars, poll, agent, results,
                 faults, handed, cut>>

\* Mutant: the request answers with the timeout and leaves the row.
WaiterSkipRow(t) ==
  /\ waiter[t] = "marked"
  /\ waiter' = [waiter EXCEPT ![t] = "conflict"]
  /\ UNCHANGED <<taskVars, rowVars, poll, agent, results, faults, handed, cut>>

\* update_instance_check(.., "failed") / update_trash_failure: not guarded.
WaiterFailRow(t) ==
  /\ waiter[t] = "marked"
  /\ row' = SetRow(target[t], TimeoutStatus(kind[t]))
  /\ waiter' = [waiter EXCEPT ![t] = "conflict"]
  /\ UNCHANGED <<taskVars, fileGone, verifyTask, deleting, checking, poll,
                 agent, results, faults, handed, cut>>

\* The request handler is dropped at an await, or a statement of it fails.
WaiterCut(t) ==
  /\ waiter[t] \in {"admitted", "inserted", "waiting", "deadline", "marked"}
  /\ cut' = IF waiter[t] = "marked" THEN Stray(target[t]) ELSE cut
  /\ waiter' = [waiter EXCEPT ![t] = "gone"]
  /\ UNCHANGED <<taskVars, rowVars, poll, agent, results, faults, handed>>

-----------------------------------------------------------------------------
(* Requests that write a row without a task. *)

\* cleanup_model_file_trash while the node's agent is offline.
CleanupOffline(x) ==
  /\ row[x] # "deleted" /\ x \notin fileGone
  /\ row' = SetRow(x, "cleanup_failed")
  /\ UNCHANGED <<taskVars, fileGone, verifyTask, deleting, checking, waiter,
                 poll, agent, results, faults, handed, cut>>

\* check_model_instance while the node's agent is offline: the status is
\* read, and a later statement writes the same status back.
CheckRead(i) ==
  /\ row[i] # "deleted" /\ Checkable(i)
  /\ checking[i] = None
  /\ checking' = [checking EXCEPT ![i] = row[i]]
  /\ UNCHANGED <<taskVars, row, fileGone, verifyTask, deleting, waiter, poll,
                 agent, results, faults, handed, cut>>

CheckOffline(i) ==
  /\ checking[i] # None
  /\ row' = SetRow(i, checking[i])
  /\ cut' = IF row[i] = checking[i] THEN cut ELSE Stray(i)
  /\ checking' = [checking EXCEPT ![i] = None]
  /\ UNCHANGED <<taskVars, fileGone, verifyTask, deleting, waiter, poll,
                 agent, results, faults, handed>>

\* delete_model_instance reads the status, then deletes by id.
DeleteCheck(i) ==
  /\ row[i] \notin {"deleted", "running", "starting", "stopping"}
  /\ deleting' = deleting \cup {i}
  /\ UNCHANGED <<taskVars, row, fileGone, verifyTask, checking, waiter, poll,
                 agent, results, faults, handed, cut>>

DeleteInstance(i) ==
  /\ i \in deleting
  /\ row' = [row EXCEPT ![i] = "deleted"]
  /\ deleting' = deleting \ {i}
  /\ UNCHANGED <<taskVars, fileGone, verifyTask, checking, waiter, poll,
                 agent, results, faults, handed, cut>>

DeleteTrash(x) ==
  /\ row[x] # "deleted"
  /\ row' = [row EXCEPT ![x] = "deleted"]
  /\ UNCHANGED <<taskVars, fileGone, verifyTask, deleting, checking, waiter,
                 poll, agent, results, faults, handed, cut>>

-----------------------------------------------------------------------------
(* mark_timed_out_tasks, and the three kinds of request that run it.       *)

StartSweep(p, api, req, files) ==
  /\ poll[p].pc = "idle"
  /\ poll' = [poll EXCEPT ![p] = [pc |-> "sweep", api |-> api, req |-> req,
                                  files |-> files, due |-> overdue,
                                  task |-> None]]

\* The agent sends its long poll; the handler starts with a sweep.
AgentPoll(p) ==
  /\ agent.mode = "idle"
  /\ StartSweep(p, FALSE, None, {})
  /\ agent' = [mode |-> "polling", poll |-> p, task |-> None]
  /\ UNCHANGED <<taskVars, rowVars, waiter, results, faults, handed, cut>>

\* model_file_summary (no rows to fix), list_model_files or model_file.
ListFiles(p, files) ==
  /\ StartSweep(p, TRUE, None, files)
  /\ UNCHANGED <<taskVars, rowVars, waiter, agent, results, faults, handed,
                 cut>>

\* queue_model_file_verification reads the file, which sweeps, before it
\* inserts its task ...
VerifyRequest(p, t, f) ==
  /\ waiter[t] = "none"
  /\ kind' = [kind EXCEPT ![t] = "verify_model_file"]
  /\ target' = [target EXCEPT ![t] = f]
  /\ waiter' = [waiter EXCEPT ![t] = "sweeping"]
  /\ StartSweep(p, TRUE, t, {f})
  /\ UNCHANGED <<status, created, overdue, clock, rowVars, agent, results,
                 faults, handed, cut>>

\* ... and once more afterwards, for its answer.
VerifyReread(p, t) ==
  /\ waiter[t] = "inserted" /\ kind[t] = "verify_model_file"
  /\ waiter' = [waiter EXCEPT ![t] = "rereading"]
  /\ StartSweep(p, TRUE, t, {target[t]})
  /\ UNCHANGED <<taskVars, rowVars, agent, results, faults, handed, cut>>

\* The handler in slot p ends with an error; whoever sent it sees it fail.
Failed(p) ==
  /\ poll' = [poll EXCEPT ![p] = IdlePoll]
  /\ agent' = IF agent.poll = p THEN IdleAgent ELSE agent
  /\ waiter' = IF poll[p].req = None THEN waiter
               ELSE [waiter EXCEPT ![poll[p].req] = "gone"]

\* The next row of the sweep's SELECT: the task first ...
SweepTask(p, t) ==
  /\ poll[p].pc = "sweep"
  /\ t \in poll[p].due
  /\ MarkTimedOut(t)
  /\ poll' = [poll EXCEPT ![p].due = @ \ {t},
               ![p].pc = IF kind[t] = "query" THEN @ ELSE "sweep_row",
               ![p].task = IF kind[t] = "query" THEN @ ELSE t]
  /\ UNCHANGED <<kind, target, created, clock, rowVars, waiter, agent, results,
                 faults, handed, cut>>

\* Mutant: the sweep only knows the rows of instances.
SweepInstanceRow(p) ==
  /\ poll[p].pc = "sweep_row"
  /\ LET t == poll[p].task
     IN /\ ~ (target[t] \in Instances /\ row[target[t]] = "deleted")
        /\ row' = IF target[t] \in Instances
                  THEN SetRow(target[t], TimeoutStatus(kind[t])) ELSE row
  /\ poll' = [poll EXCEPT ![p].pc = "sweep", ![p].task = None]
  /\ UNCHANGED <<taskVars, fileGone, verifyTask, deleting, checking, waiter,
                 agent, results, faults, handed, cut>>

\* ... then its row, guarded by nothing.
SweepRow(p) ==
  /\ poll[p].pc = "sweep_row"
  /\ LET t == poll[p].task
     IN /\ ~ (target[t] \in Instances /\ row[target[t]] = "deleted")
        /\ row' = SetRow(target[t], TimeoutStatus(kind[t]))
  /\ poll' = [poll EXCEPT ![p].pc = "sweep", ![p].task = None]
  /\ UNCHANGED <<taskVars, fileGone, verifyTask, deleting, checking, waiter,
                 agent, results, faults, handed, cut>>

\* update_instance_check reads the instance back, so the sweep and its
\* request fail when that is gone; other due rows wait for the next sweep.
SweepNotFound(p) ==
  /\ poll[p].pc = "sweep_row"
  /\ LET x == target[poll[p].task]
     IN x \in Instances /\ row[x] = "deleted"
  /\ Failed(p)
  /\ UNCHANGED <<taskVars, rowVars, results, faults, handed, cut>>

\* After its sweep, model_file_rows selects the files that it lists and
\* that still say "verifying" for a verification that timed out.
SweepDone(p) ==
  /\ poll[p].pc = "sweep"
  /\ poll[p].due = {}
  /\ poll' = [poll EXCEPT
       ![p].pc = IF poll[p].api THEN "fix" ELSE "select",
       ![p].files = {f \in @ : /\ row[f] = "verifying"
                               /\ verifyTask[f] # None
                               /\ status[verifyTask[f]] = "timed_out"}]
  /\ UNCHANGED <<taskVars, rowVars, waiter, agent, results, faults, handed,
                 cut>>

FixFile(p, f) ==
  /\ poll[p].pc = "fix"
  /\ f \in poll[p].files
  /\ row' = SetRow(f, "verify_timeout")
  /\ poll' = [poll EXCEPT ![p].files = @ \ {f}]
  /\ UNCHANGED <<taskVars, fileGone, verifyTask, deleting, checking, waiter,
                 agent, results, faults, handed, cut>>

\* The list is answered; a verification request goes on.
FixDone(p) ==
  /\ poll[p].pc = "fix"
  /\ poll[p].files = {}
  /\ poll' = [poll EXCEPT ![p] = IdlePoll]
  /\ LET t == poll[p].req
         first == t # None /\ waiter[t] = "sweeping"
     IN /\ waiter' = IF t = None THEN waiter
                     ELSE [waiter EXCEPT ![t] = IF first THEN "admitted"
                                                ELSE "ok"]
        /\ created' = IF first THEN [created EXCEPT ![t] = clock] ELSE created
  /\ UNCHANGED <<status, kind, target, overdue, clock, rowVars, agent, results,
                 faults, handed, cut>>

-----------------------------------------------------------------------------
(* poll_agent_task, after its sweep. *)

\* next_queued_agent_task: ORDER BY created_at, ties in any order.
NextQueued == {t \in Tasks : /\ status[t] = "queued"
                             /\ \A u \in Tasks : status[u] = "queued"
                                                   => created[t] <= created[u]}

PollSelect(p) ==
  /\ poll[p].pc = "select"
  /\ \/ \E t \in NextQueued :
          poll' = [poll EXCEPT ![p].pc = "picked", ![p].task = t]
     \/ /\ NextQueued = {}
        /\ \E pc \in {"wait", "reply"} :  \* "reply": the long poll is over
             poll' = [poll EXCEPT ![p].pc = pc]
  /\ UNCHANGED <<taskVars, rowVars, waiter, agent, results, faults, handed,
                 cut>>

\* Woken by notify_agent_tasks or by the end of the long poll; or answered
\* early because the configuration has changed.
PollWake(p) ==
  /\ poll[p].pc = "wait"
  /\ \/ poll' = [poll EXCEPT ![p].pc = "sweep", ![p].due = overdue]
     \/ NextQueued = {} /\ poll' = [poll EXCEPT ![p].pc = "reply"]
  /\ UNCHANGED <<taskVars, rowVars, waiter, agent, results, faults, handed,
                 cut>>

\* Mutant: the lease is taken without the status being moved.
PollLeaseQuiet(p) ==
  /\ poll[p].pc = "picked"
  /\ LET t == poll[p].task
     IN poll' = [poll EXCEPT ![p].pc =
          IF kind[t] \in {"verify_model_file", "cleanup_model_file"}
          THEN "leased" ELSE "reply"]
  /\ UNCHANGED <<taskVars, rowVars, waiter, agent, results, faults, handed,
                 cut>>

\* UPDATE agent_tasks SET status = 'running', lease_until = ... WHERE id = ?
PollLease(p) ==
  /\ poll[p].pc = "picked"
  /\ LET t == poll[p].task
     IN /\ status' = [status EXCEPT ![t] = "running"]
        /\ overdue' = overdue \ {t}
        /\ poll' = [poll EXCEPT ![p].pc =
             IF kind[t] \in {"verify_model_file", "cleanup_model_file"}
             THEN "leased" ELSE "reply"]
  /\ UNCHANGED <<kind, target, created, clock, rowVars, waiter, agent, results,
                 faults, handed, cut>>

\* For files and trash, a second statement moves the row.
LeasedRow(t) ==
  CASE kind[t] = "verify_model_file"  -> SetRow(target[t], "verifying")
    [] kind[t] = "cleanup_model_file" -> SetRow(target[t], "cleanup_running")
    [] OTHER                          -> row

PollLeaseRow(p) ==
  /\ poll[p].pc = "leased"
  /\ LET t == poll[p].task
     IN /\ row' = LeasedRow(t)
        /\ cut' = IF t \in Open THEN cut ELSE Stray(target[t])
  /\ poll' = [poll EXCEPT ![p].pc = "reply"]
  /\ UNCHANGED <<taskVars, fileGone, verifyTask, deleting, checking, waiter,
                 agent, results, faults, handed>>

\* The response reaches the agent, or nobody if the agent has gone away.
PollReply(p) ==
  /\ poll[p].pc = "reply"
  /\ poll' = [poll EXCEPT ![p] = IdlePoll]
  /\ LET t == poll[p].task
     IN IF agent.poll # p THEN UNCHANGED <<agent, handed>>
        ELSE IF t = None THEN agent' = IdleAgent /\ UNCHANGED handed
        ELSE /\ agent' = [mode |-> "busy", poll |-> None, task |-> t]
             /\ handed' = [handed EXCEPT ![t] = @ + 1]
  /\ UNCHANGED <<taskVars, rowVars, waiter, results, faults, cut>>

\* A handler that sweeps or polls is cut: its client disconnects, one of its
\* statements fails, or the server stops.
PollCut(p) ==
  /\ faults < MaxFaults
  /\ poll[p].pc # "idle"
  /\ faults' = faults + 1
  /\ cut' = IF poll[p].pc = "sweep_row" THEN Stray(target[poll[p].task])
            ELSE cut
  /\ Failed(p)
  /\ UNCHANGED <<taskVars, rowVars, results, handed>>

-----------------------------------------------------------------------------
(* The agent's task loop and the results it reports. *)

AgentFinish(ok) ==
  /\ agent.mode = "busy"
  /\ results' = results \cup {[task |-> agent.task, ok |-> ok]}
  /\ agent' = [agent EXCEPT !.mode = "reporting"]
  /\ UNCHANGED <<taskVars, rowVars, waiter, poll, faults, handed, cut>>

\* The agent stops or crashes and starts again.  Its long poll is left
\* behind on the server, a result it has sent stays on its way.
AgentRestart ==
  /\ faults < MaxFaults
  /\ agent.mode # "idle"
  /\ faults' = faults + 1
  /\ agent' = IdleAgent
  /\ UNCHANGED <<taskVars, rowVars, waiter, poll, results, handed, cut>>

ReportAnswered(t) ==
  agent' = IF agent.mode = "reporting" /\ agent.task = t THEN IdleAgent
           ELSE agent

\* Mutant: the result closes the task and forgets the row.
RecordTask(m) ==
  /\ results' = results \ {m}
  /\ status' = [status EXCEPT ![m.task] = IF m.ok THEN "succeeded"
                                          ELSE "failed"]
  /\ overdue' = overdue \ {m.task}
  /\ ReportAnswered(m.task)
  /\ UNCHANGED <<kind, target, created, clock, rowVars, waiter, poll, faults,
                 handed, cut>>

\* record_agent_task_result: one transaction over the task and its row.
RecordResult(m) ==
  /\ results' = results \ {m}
  /\ status' = [status EXCEPT ![m.task] = IF m.ok THEN "succeeded"
                                          ELSE "failed"]
  /\ overdue' = overdue \ {m.task}
  /\ row' = SetRow(target[m.task], ResultStatus(kind[m.task], m.ok))
  /\ fileGone' = IF /\ m.ok /\ kind[m.task] = "cleanup_model_file"
                    /\ row[target[m.task]] # "deleted"
                 THEN fileGone \cup {target[m.task]} ELSE fileGone
  /\ ReportAnswered(m.task)
  /\ UNCHANGED <<kind, target, created, clock, verifyTask, deleting, checking,
                 waiter, poll, faults, handed, cut>>

\* The report fails: the agent logs the error and never sends it again.
LoseResult(m) ==
  /\ results' = results \ {m}
  /\ ReportAnswered(m.task)
  /\ UNCHANGED <<taskVars, rowVars, waiter, poll, faults, handed, cut>>

-----------------------------------------------------------------------------
(* Heartbeats and time. *)

\* reconcile_managed_instances: every report is applied, and an instance in
\* flight that is not reported is failed, unless its backend is ollama.
\* reports maps the reported instances to "running" or "failed".
Reconciled(reports) ==
  [x \in Rows |->
     IF row[x] = "deleted" THEN "deleted"
     ELSE IF x \in DOMAIN reports THEN reports[x]
     ELSE IF /\ x \in Instances \ Ollama
             /\ row[x] \in {"starting", "running", "stopping"} THEN "failed"
     ELSE row[x]]

Heartbeat(reports) ==
  /\ row' = Reconciled(reports)
  /\ UNCHANGED <<taskVars, fileGone, verifyTask, deleting, checking, waiter,
                 poll, agent, results, faults, handed, cut>>

\* Mutant: a lease never runs out, only the queue timeout.
ExpireQueued(t) ==
  /\ t \in Open \ overdue /\ status[t] = "queued"
  /\ overdue' = overdue \cup {t}
  /\ UNCHANGED <<status, kind, target, created, clock, rowVars, waiter, poll,
                 agent, results, faults, handed, cut>>

\* lease_until of a running task, or created_at + 300 s of a queued one, passes.
Expire(t) ==
  /\ t \in Open \ overdue
  /\ overdue' = overdue \cup {t}
  /\ UNCHANGED <<status, kind, target, created, clock, rowVars, waiter, poll,
                 agent, results, faults, handed, cut>>

Tick ==
  /\ clock < MaxClock
  /\ clock' = clock + 1
  /\ UNCHANGED <<status, kind, target, created, overdue, rowVars, waiter, poll,
                 agent, results, faults, handed, cut>>

-----------------------------------------------------------------------------

Requests ==
  \/ \E t \in Tasks, k \in Kinds, x \in Rows \cup {None} : Admit(t, k, x)
  \/ \E t \in Tasks :
       \/ InsertTask(t) \/ SetCleanupPending(t) \/ WaiterRead(t)
       \/ WaiterMark(t) \/ WaiterFailRow(t) \/ WaiterCut(t)
  \/ /\ "check" \in Others
     /\ \/ \E x \in Trash : CleanupOffline(x)
        \/ \E i \in Instances : CheckRead(i) \/ CheckOffline(i)
  \/ /\ "delete" \in Others
     /\ \/ \E x \in Trash : DeleteTrash(x)
        \/ \E i \in Instances : DeleteCheck(i) \/ DeleteInstance(i)

SweepStarts(p) ==
  \/ AgentPoll(p)
  \/ \E files \in SUBSET Files : "list" \in Others /\ ListFiles(p, files)
  \/ \E t \in Tasks, f \in Files :
       "verify_model_file" \in Kinds /\ VerifyRequest(p, t, f)
  \/ \E t \in Tasks : VerifyReread(p, t)

PollSteps(p) ==
  \/ \E t \in Tasks : SweepTask(p, t)
  \/ SweepRow(p) \/ SweepNotFound(p) \/ SweepDone(p)
  \/ \E f \in Files : FixFile(p, f)
  \/ FixDone(p)
  \/ PollSelect(p) \/ PollWake(p)
  \/ PollLease(p) \/ PollLeaseRow(p) \/ PollReply(p)

\* Reports of instances that the managed store can hold.
Reports ==
  UNION {[S -> {"running", "failed"}] : S \in SUBSET (Instances \ Ollama)}

Next ==
  \/ Requests
  \/ \E p \in Polls : SweepStarts(p) \/ PollSteps(p) \/ PollCut(p)
  \/ \E ok \in BOOLEAN : AgentFinish(ok)
  \/ AgentRestart
  \/ \E m \in results : RecordResult(m) \/ LoseResult(m)
  \/ \E reports \in Reports : "heartbeat" \in Others /\ Heartbeat(reports)
  \/ \E t \in Tasks : Expire(t)
  \/ Tick

Spec == Init /\ [][Next]_vars

\* What keeps running: handlers that are not cut, the agent's loop (which
\* polls again whatever happened), the clock.  Nothing obliges a user to
\* send a request, a heartbeat to arrive, or a fault to happen.  That every
\* slot is taken at the moment is a limit of the model, not of the server:
\* hence strong fairness where a step needs a free slot.
WaiterStep(t) == \/ InsertTask(t) \/ SetCleanupPending(t) \/ WaiterRead(t)
                 \/ WaiterMark(t) \/ WaiterFailRow(t)

Fairness ==
  /\ \A t \in Tasks : WF_vars(WaiterStep(t)) /\ WF_vars(Expire(t))
  /\ \A t \in Tasks : SF_vars(\E p \in Polls : VerifyReread(p, t))
  /\ \A p \in Polls : WF_vars(PollSteps(p))
  /\ SF_vars(\E p \in Polls : AgentPoll(p))
  /\ WF_vars(\E ok \in BOOLEAN : AgentFinish(ok))
  /\ WF_vars(\E m \in results : RecordResult(m) \/ LoseResult(m))

FairSpec == Spec /\ Fairness

-----------------------------------------------------------------------------
(* Properties. *)

\* A task reaches the agent at most once (a start, a stop or a deletion is
\* never executed twice), although the lease UPDATE of poll_agent_task is not
\* guarded by the status and polls of a restarted agent linger.
ExecutedAtMostOnce == \A t \in Tasks : handed[t] <= 1

\* record_agent_task_result closes only tasks that the agent really had.
ResultOnlyIfHanded ==
  \A t \in Tasks : status[t] \in {"succeeded", "failed"} => handed[t] = 1

Pending(x) == row[x] \in {"starting", "stopping", "verify_pending",
                          "verifying", "cleanup_pending", "cleanup_running"}

\* t will still write row x, or is itself in the hands of something that
\* will: the task is open, or whoever timed it out is about to fail the row.
Owns(t, x) ==
  /\ target[t] = x
  /\ \/ t \in Open
     \/ waiter[t] = "marked"
     \/ \E p \in Polls : poll[p].pc = "sweep_row" /\ poll[p].task = t

\* A row that waits for the agent ("starting", "verifying", ...) has a task
\* behind it, unless a handler was cut or overtaken exactly between its two
\* statements: neither timeouts (two of them may race), late results, stale
\* heartbeats nor deletes strand a row.
PendingHasOwner ==
  \A x \in Rows : Pending(x) => x \in cut \/ \E t \in Tasks : Owns(t, x)

\* Until the first fault the outcome of a task is final: the one agent loop
\* never has two polls open, so that no lease can reopen a finished task and
\* no second result can replace the first.
FinishedStays ==
  [][\A t \in Tasks : faults = 0 /\ status[t] \in {"succeeded", "failed"}
                        => status'[t] = status[t]]_vars

\* The abstract state of the task queue: how far a task has got, the outcome
\* that the agent is reporting, and the control plane's verdict on it.
StageOf(t) ==
  CASE status[t] = "none" -> "none"
    [] status[t] # "none" /\ handed[t] = 0 -> "waiting"
    [] handed[t] > 0 /\ agent.mode = "busy" /\ agent.task = t -> "given"
    [] OTHER -> "over"
AnswerOf(t) ==
  CASE [task |-> t, ok |-> TRUE] \in results -> "succeeded"
    [] [task |-> t, ok |-> FALSE] \in results -> "failed"
    [] OTHER -> "none"
VerdictOf(t) == IF status[t] \in {"queued", "running"} THEN "open" ELSE status[t]

Service == INSTANCE TaskService WITH
  stage <- [t \in Tasks |-> StageOf(t)],
  answer <- [t \in Tasks |-> AnswerOf(t)],
  verdict <- [t \in Tasks |-> VerdictOf(t)],
  disturbed <- faults > 0

\* The queue implements the service that its callers rely on: with several
\* handlers timing a task out, leases that look at no status, late and lost
\* results and an agent that restarts, a task is given to the agent once,
\* one at a time, and its verdict is never invented.
ImplementsService == Service!Spec

\* Every task that was queued is eventually closed: executed and reported,
\* or timed out by the request that waits for it or by a later sweep, even if
\* the agent restarts, its result is lost or the request is cut.
TaskResolved == \A t \in Tasks : t \in Open ~> t \notin Open

\* No row waits for the agent for ever, again up to cut handlers.
RowResolved == \A x \in Rows : Pending(x) ~> ~ Pending(x) \/ x \in cut

-----------------------------------------------------------------------------
(* The parts of the inductive invariant behind these properties. *)

\* A task's row is of the kind of the task.
KindTarget ==
  \A t \in Tasks :
    /\ kind[t] \in InstanceKinds => target[t] \in Instances
    /\ kind[t] = "verify_model_file" => target[t] \in Files
    /\ kind[t] = "cleanup_model_file" => target[t] \in Trash
    /\ kind[t] \notin RowKinds => target[t] = None

\* Which request slots hold a task, and which can belong to the agent.
Slots ==
  /\ \A p \in Polls :
       /\ poll[p].pc \in {"idle", "sweep", "fix", "select", "wait"}
            => poll[p].task = None
       /\ poll[p].pc \in {"sweep_row", "picked", "leased"}
            => poll[p].task \in Tasks
       /\ poll[p].pc = "fix" => poll[p].api
       /\ poll[p].pc \in {"select", "wait", "picked", "leased", "reply"}
            => ~ poll[p].api
       /\ agent.poll = p => poll[p].pc # "idle" /\ ~ poll[p].api
  /\ agent.mode = "polling" <=> agent.poll # None
  /\ agent.mode \in {"busy", "reporting"} => agent.task \in Tasks

\* The request behind a slot is a verification, and no verification waits.
Requesters ==
  /\ \A p \in Polls, t \in Tasks :
       poll[p].req = t => waiter[t] # "none" /\ kind[t] = "verify_model_file"
  /\ \A t \in Tasks : waiter[t] \in {"waiting", "deadline", "marked"}
                         => kind[t] # "verify_model_file"

\* The status a task has by the time a poll, or the agent, has it.
Progress ==
  /\ \A t \in Tasks : /\ waiter[t] \in {"none", "sweeping", "admitted"}
                           => status[t] = "none"
                      /\ handed[t] = 1 => status[t] \notin {"none", "queued"}
  /\ \A p \in Polls, t \in Tasks :
       poll[p].task = t =>
         /\ poll[p].pc = "picked" => status[t] # "none"
         /\ poll[p].pc \in {"leased", "reply"}
              => status[t] \notin {"none", "queued"}
         /\ /\ agent.poll = p
            /\ poll[p].pc \in {"picked", "leased", "reply"}
            => handed[t] = 0

\* What is overdue, or being swept, has been inserted.
DueTasks ==
  /\ \A t \in overdue : status[t] # "none"
  /\ \A p \in Polls :
       /\ \A t \in poll[p].due : status[t] # "none"
       /\ poll[p].pc = "sweep_row" => status[poll[p].task] # "none"

Finished(t) == status[t] \in {"succeeded", "failed"}

\* At most one result per task, sent by an agent that had it, and recorded
\* once.
OneResult ==
  /\ \A m \in results : /\ handed[m.task] = 1 /\ ~ Finished(m.task)
                        /\ \A n \in results : n.task = m.task => n = m
  /\ agent.mode = "busy" => /\ handed[agent.task] = 1
                            /\ ~ Finished(agent.task)
                            /\ \A m \in results : m.task # agent.task

\* Without faults the agent's own poll is the only one.
LonePoll ==
  faults = 0 => \A p \in Polls : poll[p].pc # "idle" /\ ~ poll[p].api
                                   => agent.poll = p

Inv == /\ TypeOK /\ KindTarget /\ Slots /\ Requesters /\ Progress /\ DueTasks
       /\ OneResult /\ LonePoll
       /\ ExecutedAtMostOnce /\ ResultOnlyIfHanded /\ PendingHasOwner

-----------------------------------------------------------------------------
(* What the documentation says and the code does not do. *)

\* docs/ARCHITECTURE.md: an instance that is running, starting or stopping
\* cannot be deleted.  delete_model_instance checks and deletes separately.
NoDeleteWhileBusy ==
  [][\A i \in Instances : row[i] \in {"running", "starting", "stopping"}
                            => row'[i] # "deleted"]_vars

=============================================================================
