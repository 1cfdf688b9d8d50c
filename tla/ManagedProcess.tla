--------------------------- MODULE ManagedProcess ---------------------------
(***************************************************************************)
(* The agent's managed instances: the processes and containers it starts   *)
(* and stops (agent/src/tasks/process.rs, docker_backend.rs), the file     *)
(* that remembers them across restarts (agent/src/managed_process.rs), and *)
(* the heartbeat that checks, prunes and reports what the file holds.      *)
(*                                                                         *)
(* The task loop executes one task at a time, but the heartbeat loop and   *)
(* the process monitors run beside it, and both loops read, change and     *)
(* rewrite the file.  tokio::fs::write truncates the file and then writes  *)
(* it, on a thread of a pool: these are two steps, and every await is a    *)
(* step boundary.                                                          *)
(*                                                                         *)
(* A process is identified by its pid and start time together, so that a   *)
(* reused pid is a process that is gone.  Instances have ports of their    *)
(* own.  A process that serves its port does so until it exits.            *)
(***************************************************************************)
EXTENDS Naturals, FiniteSets

CONSTANTS
  Instances,  \* instance ids
  Docker,     \* those with deploy_type "docker"
  Scripts,    \* those of a custom script without a probe, which need no port
  Procs,      \* processes and containers that can be started
  MaxFaults,  \* bound on crashes, failing writes and the like
  None

ASSUME ConstantsAssumption ==
  /\ Docker \subseteq Instances /\ Scripts \subseteq Instances \ Docker
  /\ MaxFaults \in Nat
  /\ None \notin Instances \cup Procs
  /\ None \notin {"start", "stop", "running", "stopped", "failed"}

VARIABLES
  proc,      \* the state of each process, as the operating system knows it
  owner,     \* the instance it was started for
  store,     \* the managed store: readable with records, or not readable
  registry,  \* process_registry: the child handles of this agent process
  task,      \* the task loop's start or stop
  hb,        \* the heartbeat loop's reports()
  outcome,   \* the result of the last start or stop of an instance
  faults     \* faults so far

vars == <<proc, owner, store, registry, task, hb, outcome, faults>>

ProcState == {"none", "alive", "serving", "zombie", "gone"}
Alive(p) == proc[p] \in {"alive", "serving"}

\* Records by instance id: upsert replaces the record of the same instance.
Records == [Instances -> Procs \cup {None}]
NoRecords == [i \in Instances |-> None]

TaskPc == {"idle", "spawn", "ready", "load", "truncate", "write", "register",
           "find", "take", "kill", "find_record", "term", "docker_stop"}
\* lax: the answer does not depend on whether the record could be removed.
IdleTask == [pc |-> "idle", op |-> None, inst |-> None, proc |-> None,
             buf |-> NoRecords, lax |-> FALSE]
\* todo: records still to be checked; buf: the active ones.
IdleHb == [pc |-> "idle", todo |-> NoRecords, buf |-> NoRecords]

TypeOK ==
  /\ proc \in [Procs -> ProcState]
  /\ owner \in [Procs -> Instances \cup {None}]
  /\ store \in [st : {"ok", "empty", "corrupt"}, recs : Records]
  /\ registry \in Records
  /\ task \in [pc : TaskPc, op : {"start", "stop", None},
               inst : Instances \cup {None}, proc : Procs \cup {None},
               buf : Records, lax : BOOLEAN]
  /\ hb \in [pc : {"idle", "check", "truncate", "write", "send"},
             todo : Records, buf : Records]
  /\ outcome \in [Instances -> {"running", "stopped", "failed", None}]
  /\ faults \in Nat

Init ==
  /\ proc = [p \in Procs |-> "none"]
  /\ owner = [p \in Procs |-> None]
  /\ store = [st |-> "ok", recs |-> NoRecords]   \* no file yet
  /\ registry = NoRecords
  /\ task = IdleTask
  /\ hb = IdleHb
  /\ outcome = [i \in Instances |-> None]
  /\ faults = 0

Fault == faults < MaxFaults /\ faults' = faults + 1

\* A handle is dropped: the runtime reaps the child if it has exited, and
\* does not kill it otherwise.
Reap(p) == IF p # None /\ proc[p] = "zombie"
           THEN [proc EXCEPT ![p] = "gone"] ELSE proc

\* The task is answered.
Answer(s) == /\ task' = IdleTask
             /\ outcome' = [outcome EXCEPT ![task.inst] = s]

-----------------------------------------------------------------------------
(* The file. *)

\* fs::write, first half: the file is opened with truncation.
Truncate == store' = [store EXCEPT !.st = "empty"]

\* Second half.  If the other loop wrote after this one truncated, its bytes
\* are overwritten in place: what is longer than the new content remains.
Write(buf) ==
  \/ store' = [st |-> "ok", recs |-> buf]
  \/ /\ store.st # "empty" /\ ~ (store.st = "ok" /\ store.recs = buf)
     /\ store' = [store EXCEPT !.st = "corrupt"]

-----------------------------------------------------------------------------
(* start_model_instance_with_store *)

\* check_port_available binds the port for a moment.
PortFree(i) == \A q \in Procs : ~ (owner[q] = i /\ proc[q] = "serving")

Begin(i, op, pc) ==
  /\ task.pc = "idle"
  /\ task' = [IdleTask EXCEPT !.pc = pc, !.op = op, !.inst = i]
  /\ outcome' = [outcome EXCEPT ![i] = None]

\* Mutant: the port is not looked at before the process is started.
StartUnchecked(i) ==
  /\ Begin(i, "start", "spawn")
  /\ UNCHANGED <<proc, owner, store, registry, hb, faults>>

\* The file, the entry point, the parameters and the port are in order.  (A
\* start that fails here has touched nothing.)
Start(i) ==
  /\ i \notin Docker => PortFree(i)
  /\ Begin(i, "start", "spawn")
  /\ UNCHANGED <<proc, owner, store, registry, hb, faults>>

NewProc(p) ==
  /\ proc[p] = "none"
  /\ proc' = [proc EXCEPT ![p] = "alive"]
  /\ owner' = [owner EXCEPT ![p] = task.inst]

\* The child is spawned.
Spawn(p) ==
  /\ task.pc = "spawn" /\ task.inst \notin Docker
  /\ NewProc(p)
  /\ task' = [task EXCEPT !.pc = "ready", !.proc = p]
  /\ UNCHANGED <<store, registry, hb, outcome, faults>>

\* The log directory is not usable, or try_wait fails: the start is answered
\* with an error and the child is left alone.
LeaveChild ==
  /\ task.pc = "ready"
  /\ Fault
  /\ Answer("failed")
  /\ proc' = Reap(task.proc)
  /\ UNCHANGED <<owner, store, registry, hb>>

\* The child has exited, and is reaped; or the probe gives up, and kills it.
NotReady ==
  /\ task.pc = "ready"
  /\ proc' = [proc EXCEPT ![task.proc] = "gone"]
  /\ Answer("failed")
  /\ UNCHANGED <<owner, store, registry, hb, faults>>

\* The child lives and the endpoint answers, whichever process it is that
\* serves it; a script without a probe only has to live.
Ready ==
  /\ task.pc = "ready"
  /\ Alive(task.proc)
  /\ task.inst \in Scripts \/ ~ PortFree(task.inst)
  /\ task' = [task EXCEPT !.pc = "load"]
  /\ UNCHANGED <<proc, owner, store, registry, hb, outcome, faults>>

\* docker run.  The host port admits one container of an instance.
DockerRun(p) ==
  /\ task.pc = "spawn" /\ task.inst \in Docker
  /\ \A q \in Procs : ~ (owner[q] = task.inst /\ Alive(q))
  /\ NewProc(p)
  /\ task' = [task EXCEPT !.pc = "load", !.proc = p]
  /\ UNCHANGED <<store, registry, hb, outcome, faults>>

\* docker run fails.  If it timed out, the container may still come up.
DockerRunFails ==
  /\ task.pc = "spawn" /\ task.inst \in Docker
  /\ \/ UNCHANGED <<proc, owner, faults>>
     \/ Fault /\ \E p \in Procs : NewProc(p)
  /\ Answer("failed")
  /\ UNCHANGED <<store, registry, hb>>

-----------------------------------------------------------------------------
(* upsert (op "start") and remove (op "stop") *)

TaskLoad ==
  /\ task.pc = "load"
  /\ store.st = "ok"
  /\ task' = [task EXCEPT !.pc = "truncate",
       !.buf = [store.recs EXCEPT
                  ![task.inst] = IF task.op = "start" THEN task.proc
                                 ELSE None]]
  /\ UNCHANGED <<proc, owner, store, registry, hb, outcome, faults>>

TaskTruncate ==
  /\ task.pc = "truncate"
  /\ Truncate
  /\ task' = [task EXCEPT !.pc = "write"]
  /\ UNCHANGED <<proc, owner, registry, hb, outcome, faults>>

\* After the write a child is registered; all else is answered.
TaskWrite ==
  /\ task.pc = "write"
  /\ Write(task.buf)
  /\ IF task.op = "start" /\ task.inst \notin Docker
     THEN task' = [task EXCEPT !.pc = "register"] /\ UNCHANGED outcome
     ELSE Answer(IF task.op = "start" THEN "running" ELSE "stopped")
  /\ UNCHANGED <<proc, owner, registry, hb, faults>>

\* Mutant: the child survives a failure to record it.
StoreErrorKeeps ==
  /\ Answer(IF task.op = "stop" /\ task.lax THEN "stopped" ELSE "failed")
  /\ UNCHANGED proc

\* The records cannot be read or written: a start kills its child, but does
\* not stop its container.
StoreError ==
  /\ Answer(IF task.op = "stop" /\ task.lax THEN "stopped" ELSE "failed")
  /\ proc' = IF task.op = "start" /\ task.inst \notin Docker
             THEN [proc EXCEPT ![task.proc] = "gone"] ELSE proc

TaskLoadFails ==
  /\ task.pc = "load" /\ store.st # "ok"
  /\ StoreError
  /\ UNCHANGED <<owner, store, registry, hb, faults>>

TaskWriteFails ==
  /\ task.pc = "write"
  /\ Fault
  /\ StoreError
  /\ UNCHANGED <<owner, store, registry, hb>>

\* Mutant: the answer is not one of the words the server knows.
RegisterReady ==
  /\ task.pc = "register"
  /\ registry' = [registry EXCEPT ![task.inst] = task.proc]
  /\ proc' = Reap(registry[task.inst])
  /\ Answer("ready")
  /\ UNCHANGED <<owner, store, hb, faults>>

\* The handle enters the registry, in place of an older one, and its monitor
\* is started, which sleeps before its first look.
Register ==
  /\ task.pc = "register"
  /\ registry' = [registry EXCEPT ![task.inst] = task.proc]
  /\ proc' = Reap(registry[task.inst])
  /\ Answer("running")
  /\ UNCHANGED <<owner, store, hb, faults>>

-----------------------------------------------------------------------------
(* stop_model_instance_with_store *)

Stop(i) ==
  /\ Begin(i, "stop", "find")
  /\ UNCHANGED <<proc, owner, store, registry, hb, faults>>

\* A record of a container goes to docker stop; anything else goes on.
FindDocker ==
  /\ task.pc = "find"
  /\ LET p == store.recs[task.inst]
     IN task' = IF store.st = "ok" /\ p # None /\ task.inst \in Docker
                THEN [task EXCEPT !.pc = "docker_stop", !.proc = p]
                ELSE [task EXCEPT !.pc = "take"]
  /\ UNCHANGED <<proc, owner, store, registry, hb, outcome, faults>>

\* A container that cannot be stopped is answered as stopped all the same.
DockerStop ==
  /\ task.pc = "docker_stop"
  /\ \/ proc' = [proc EXCEPT ![task.proc] = "gone"] /\ UNCHANGED faults
     \/ Fault /\ UNCHANGED proc
  /\ task' = [task EXCEPT !.pc = "load", !.lax = TRUE]
  /\ UNCHANGED <<owner, store, registry, hb, outcome>>

\* process_registry().lock().await.remove(instance_id)
TakeHandle ==
  /\ task.pc = "take"
  /\ LET p == registry[task.inst]
     IN task' = IF p # None THEN [task EXCEPT !.pc = "kill", !.proc = p]
                ELSE [task EXCEPT !.pc = "find_record"]
  /\ registry' = [registry EXCEPT ![task.inst] = None]
  /\ UNCHANGED <<proc, owner, store, hb, outcome, faults>>

\* Mutant: the process is asked to end and not waited for.
KillAsks ==
  /\ task.pc = "kill"
  /\ task' = [task EXCEPT !.pc = "load"]
  /\ UNCHANGED <<proc, owner, store, registry, hb, outcome, faults>>

\* child.kill(): SIGKILL, and wait.
Kill ==
  /\ task.pc = "kill"
  /\ proc' = [proc EXCEPT ![task.proc] = "gone"]
  /\ task' = [task EXCEPT !.pc = "load"]
  /\ UNCHANGED <<owner, store, registry, hb, outcome, faults>>

\* Without a handle, as after a restart: the record decides.
FindRecord ==
  /\ task.pc = "find_record"
  /\ store.st = "ok" /\ store.recs[task.inst] # None
  /\ task' = [task EXCEPT !.pc = "term", !.proc = store.recs[task.inst]]
  /\ UNCHANGED <<proc, owner, store, registry, hb, outcome, faults>>

\* No record, or none that can be read: the stop is refused.
RefuseStop ==
  /\ task.pc = "find_record"
  /\ store.st # "ok" \/ store.recs[task.inst] = None
  /\ Answer("failed")
  /\ UNCHANGED <<proc, owner, store, registry, hb, faults>>

\* kill_managed: SIGTERM, which may take its time, to a process that is
\* still the recorded one.
Terminate ==
  /\ task.pc = "term"
  /\ \/ UNCHANGED proc
     \/ Alive(task.proc) /\ proc' = [proc EXCEPT ![task.proc] = "gone"]
  /\ task' = [task EXCEPT !.pc = "load", !.lax = ~ Alive(task.proc)]
  /\ UNCHANGED <<owner, store, registry, hb, outcome, faults>>

-----------------------------------------------------------------------------
(* The heartbeat: reports() *)

HbLoad ==
  /\ hb.pc = "idle"
  /\ hb' = IF store.st = "ok"
           THEN [pc |-> "check", todo |-> store.recs, buf |-> NoRecords]
           ELSE [IdleHb EXCEPT !.pc = "send"]
  /\ UNCHANGED <<proc, owner, store, registry, task, outcome, faults>>

\* Mutant: nothing is ever pruned.
HbCheckKeeps(i) ==
  /\ hb.pc = "check" /\ hb.todo[i] # None
  /\ hb' = [hb EXCEPT !.todo[i] = None, !.buf[i] = hb.todo[i]]
  /\ UNCHANGED <<proc, owner, store, registry, task, outcome, faults>>

\* check_record: /proc still shows a process that exited and has not been
\* reaped; docker inspect may fail, which counts as not running.
HbCheck(i) ==
  /\ hb.pc = "check" /\ hb.todo[i] # None
  /\ LET p == hb.todo[i]
         Checked(running) ==
           hb' = [hb EXCEPT !.todo[i] = None,
                            !.buf[i] = IF running THEN p ELSE None]
     IN \/ Checked(Alive(p) \/ proc[p] = "zombie") /\ UNCHANGED faults
        \/ i \in Docker /\ Fault /\ Checked(FALSE)
  /\ UNCHANGED <<proc, owner, store, registry, task, outcome>>

HbChecked ==
  /\ hb.pc = "check" /\ hb.todo = NoRecords
  /\ hb' = [hb EXCEPT !.pc = "truncate"]
  /\ UNCHANGED <<proc, owner, store, registry, task, outcome, faults>>

HbTruncate ==
  /\ hb.pc = "truncate"
  /\ Truncate
  /\ hb' = [hb EXCEPT !.pc = "write"]
  /\ UNCHANGED <<proc, owner, registry, task, outcome, faults>>

HbWrite ==
  /\ hb.pc = "write"
  /\ \/ Write(hb.buf) /\ UNCHANGED faults
     \/ Fault /\ UNCHANGED store
  /\ hb' = [hb EXCEPT !.pc = "send"]
  /\ UNCHANGED <<proc, owner, registry, task, outcome>>

\* The heartbeat is sent, and the loop sleeps.
HbSend ==
  /\ hb.pc = "send"
  /\ hb' = IdleHb
  /\ UNCHANGED <<proc, owner, store, registry, task, outcome, faults>>

-----------------------------------------------------------------------------
(* Monitors, processes, and the agent's own end. *)

\* spawn_process_monitor finds that the child has exited; the record stays.
Monitor(i) ==
  /\ registry[i] # None /\ proc[registry[i]] = "zombie"
  /\ proc' = [proc EXCEPT ![registry[i]] = "gone"]
  /\ registry' = [registry EXCEPT ![i] = None]
  /\ UNCHANGED <<owner, store, task, hb, outcome, faults>>

\* A process starts to listen on its port.
Serve(p) ==
  /\ proc[p] = "alive" /\ owner[p] \notin Docker /\ PortFree(owner[p])
  /\ proc' = [proc EXCEPT ![p] = "serving"]
  /\ UNCHANGED <<owner, store, registry, task, hb, outcome, faults>>

\* It exits.  The child stays a zombie for whoever holds its handle.
Held(p) == \/ \E i \in Instances : registry[i] = p
           \/ task.proc = p /\ (task.op = "start" \/ task.pc = "kill")
Exit(p) ==
  /\ Alive(p)
  /\ proc' = [proc EXCEPT ![p] = IF Held(p) /\ owner[p] \notin Docker
                                 THEN "zombie" ELSE "gone"]
  /\ UNCHANGED <<owner, store, registry, task, hb, outcome, faults>>

\* The agent stops or crashes and starts again.  Managed processes live on;
\* dead children are left to init.
Restart ==
  /\ Fault
  /\ proc' = [p \in Procs |-> IF proc[p] = "zombie" THEN "gone" ELSE proc[p]]
  /\ registry' = NoRecords
  /\ task' = IdleTask
  /\ hb' = IdleHb
  /\ UNCHANGED <<owner, store, outcome>>

-----------------------------------------------------------------------------

TaskStep ==
  \/ \E p \in Procs : Spawn(p) \/ DockerRun(p)
  \/ NotReady \/ Ready \/ DockerRunFails
  \/ TaskLoad \/ TaskTruncate \/ TaskWrite \/ TaskLoadFails
  \/ Register
  \/ FindDocker \/ DockerStop \/ TakeHandle \/ Kill
  \/ FindRecord \/ RefuseStop \/ Terminate

HbStep ==
  \/ HbLoad \/ HbChecked \/ HbTruncate \/ HbWrite \/ HbSend
  \/ \E i \in Instances : HbCheck(i)

Next ==
  \/ \E i \in Instances : Start(i) \/ Stop(i) \/ Monitor(i)
  \/ TaskStep \/ LeaveChild \/ TaskWriteFails
  \/ HbStep
  \/ \E p \in Procs : Serve(p) \/ Exit(p)
  \/ Restart

Spec == Init /\ [][Next]_vars

\* The two loops and the monitors go on; nobody is obliged to start or stop
\* an instance, and no process has to serve or to exit.
FairSpec ==
  /\ Spec
  /\ WF_vars(TaskStep) /\ WF_vars(HbStep)
  /\ \A i \in Instances : WF_vars(Monitor(i))

-----------------------------------------------------------------------------
(* Properties.  Until the first fault: *)

\* A process that the agent started and that lives is one that the agent can
\* still stop: its handle is in the registry, or the task loop is at it.
\* Neither a heartbeat that rewrites the file around a start or a stop, nor a
\* read that finds the file half written, leaves one behind.
LiveIsHeld ==
  faults = 0 => \A p \in Procs :
    Alive(p) /\ owner[p] \notin Docker \cup Scripts
      => \/ registry[owner[p]] = p
         \/ task.proc = p

\* When a stop was answered "stopped" and nothing was started since, nothing
\* of the instance runs, whatever the heartbeat did to its record meanwhile.
StoppedIsDead ==
  faults = 0 => \A i \in Instances \ (Docker \cup Scripts), p \in Procs :
    outcome[i] = "stopped" /\ owner[p] = i => ~ Alive(p)

\* A start never replaces the handle of a process that lives: the port that
\* the process serves keeps a second start away.
LiveHandleKept ==
  [][\A i \in Instances \ Scripts :
       /\ faults = 0 /\ registry[i] # None /\ registry'[i] # registry[i]
       /\ registry'[i] # None
       => ~ Alive(registry[i])]_vars

\* A record outlives its process only for a while: the monitor reaps the
\* child, and the heartbeat then prunes the record, for good.
DeadForgotten ==
  <>[](store.st = "ok" => \A i \in Instances :
         LET p == store.recs[i] IN p # None => Alive(p))

-----------------------------------------------------------------------------
(* The parts of the inductive invariant behind these properties. *)

\* Instances of a program that serves a port: the proper binaries.
Binaries == Instances \ (Docker \cup Scripts)

\* What the task loop holds at each of its steps.
TaskShape ==
  /\ task.pc = "idle" => task.proc = None
  /\ task.pc # "idle" => /\ task.inst \in Instances
                         /\ task.op \in {"start", "stop"}
                         /\ outcome[task.inst] = None
  /\ task.pc \in {"spawn", "ready", "register"} => task.op = "start"
  /\ task.pc \in {"find", "take", "kill", "find_record", "term",
                  "docker_stop"} => task.op = "stop"
  /\ task.pc \in {"spawn", "find", "take", "find_record"} => task.proc = None
  /\ task.pc \in {"ready", "register", "kill", "term", "docker_stop", "load",
                  "truncate", "write"} => task.proc \in Procs
  /\ task.pc \in {"ready", "register"} => task.inst \notin Docker

\* Whatever names a process names it for the instance that owns it.
OwnerOf(recs) ==
  \A i \in Instances : recs[i] # None => owner[recs[i]] = i
Owners ==
  /\ \A p \in Procs : proc[p] # "none" <=> owner[p] # None
  /\ OwnerOf(store.recs) /\ OwnerOf(registry) /\ OwnerOf(task.buf)
  /\ OwnerOf(hb.todo) /\ OwnerOf(hb.buf)
  /\ task.proc # None => owner[task.proc] = task.inst

\* A registered process serves, and so does one about to be registered.
HeldServes ==
  faults = 0 =>
    /\ \A i \in Binaries : registry[i] # None /\ Alive(registry[i])
                             => proc[registry[i]] = "serving"
    /\ /\ task.op = "start" /\ task.inst \in Binaries
       /\ task.pc \in {"load", "truncate", "write", "register"}
       /\ Alive(task.proc)
       => proc[task.proc] = "serving"

\* A start has the only process of its instance; so has a stop, until it has
\* killed it.
TaskAlone ==
  /\ faults = 0 /\ task.inst \in Binaries /\ task.pc \notin {"idle", "find", "take"}
  => \A p \in Procs : Alive(p) /\ owner[p] = task.inst
       => p = task.proc /\ (task.op = "start" \/ task.pc = "kill")

Inv == /\ TypeOK /\ TaskShape /\ Owners /\ HeldServes /\ TaskAlone
       /\ LiveIsHeld /\ StoppedIsDead

-----------------------------------------------------------------------------
(* What the documentation says and the code does not do. *)

\* docs/IMPLEMENTATION_NOTES.md: a started process counts as managed once it
\* is written to the managed store.  The heartbeat writes back the records it
\* read before that.
RunningIsRecorded ==
  faults = 0 => \A i \in Instances \ Docker :
    outcome[i] = "running" /\ registry[i] # None /\ store.st = "ok"
      => store.recs[i] = registry[i]

=============================================================================
