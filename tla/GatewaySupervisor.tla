-------------------------- MODULE GatewaySupervisor --------------------------
(***************************************************************************)
(* The gateway process of a node: the agent's gateway_supervisor.rs and    *)
(* the tasks that call it (tasks/mod.rs), the control plane's              *)
(* domain/gateway.rs that queues these tasks and waits for them, and what  *)
(* the gateway itself does when it is started (gateway/src/main.rs).       *)
(*                                                                         *)
(* The agent carries out one task at a time, but processes start, bind     *)
(* their port, exit and are reaped on their own, the process table uses    *)
(* its ids again, and the agent may be restarted between any two steps.    *)
(* The record of the process is a file that is truncated, then written.    *)
(* How tasks are leased is the subject of AgentTasks: here the agent takes *)
(* the oldest.                                                             *)
(***************************************************************************)
EXTENDS Naturals, Sequences

Seqs == INSTANCE SequencesExt

CONSTANTS
  Pids,       \* process ids
  Requests,   \* requests a user can have open, each with a task
  MaxBirths,  \* bound on the processes that are ever started
  MaxFaults,  \* bound on restarts of the agent and failing writes
  Truncated,  \* the contents of a record that does not parse
  None

Kinds == {"start_gateway", "stop_gateway", "restart_gateway",
          "check_gateway", "read_gateway_log"}

States == {"starting", "serving", "dying", "zombie"}
JobPc == {"start", "spawn", "start_time", "truncate", "write", "stop", "kill",
          "remove", "check", "log"}

Processes == [birth : Nat, gateway : BOOLEAN, state : States]
Records == [pid : Pids, birth : Nat \cup {None}]
Jobs == [of : Requests, kind : Kinds, pc : JobPc, pid : Pids \cup {None},
         birth : Nat \cup {None}]
Rows == [kind : Kinds, status : {"queued", "running"}]

\* None and Truncated are told from what they stand in for.
ASSUME GatewayAssumption ==
  /\ MaxBirths \in Nat /\ MaxFaults \in Nat
  /\ None \notin Pids /\ None \notin Nat
  /\ None \notin Processes /\ None \notin Records /\ None \notin Jobs
  /\ None \notin Rows
  /\ Truncated # None /\ Truncated \notin Records

VARIABLES
  proc,      \* the process table: the start time of a process, whether it
             \* is a gateway, and what it does; None for an unused id
  births,    \* how many processes were started: a clock for start times
  port,      \* the start time of the process that listens, or 0
  file,      \* the record: None, Truncated, or a process id and start time
  job,       \* the task in progress on the agent, or None
  req,       \* agent_tasks: the kind and status of open tasks, or None
  queue,     \* the queued tasks, oldest first
  faults,
  left,      \* history: gateways of a start that failed or was cut off
             \* after it had started them
  killed,    \* history: processes that are not gateways and were killed
  unsure,    \* history: a record holds no start time, or not that of the
             \* process started, or its id was used again while a stop was
             \* about to kill it
  overlap,   \* history: a gateway found its port taken
  result,    \* history: what the last task found, while no other has begun
  named      \* history: the start time of the process it answered with

worldVars == <<proc, births, port>>
serverVars == <<req, queue>>
vars == <<proc, births, port, file, job, req, queue, faults, left, killed,
          unsure, overlap, result, named>>

TypeOK ==
  /\ proc \in [Pids -> Processes \cup {None}]
  /\ births \in 0 .. MaxBirths /\ port \in 0 .. births
  /\ file \in Records \cup {None, Truncated}
  /\ job \in Jobs \cup {None}
  /\ req \in [Requests -> Rows \cup {None}]
  /\ queue \in Seq(Requests)
  /\ faults \in 0 .. MaxFaults
  /\ left \subseteq 1 .. births /\ killed \subseteq 1 .. births
  /\ unsure \in BOOLEAN /\ overlap \in BOOLEAN
  /\ result \in {"none", "running", "stopped", "failed", "log_available"}
  /\ named \in 0 .. births

Init ==
  /\ proc = [p \in Pids |-> None]
  /\ births = 0 /\ port = 0
  /\ file = None /\ job = None
  /\ req = [q \in Requests |-> None]
  /\ queue = <<>> /\ faults = 0
  /\ left = {} /\ killed = {} /\ unsure = FALSE /\ overlap = FALSE
  /\ result = "none" /\ named = 0

Live(p) == proc[p] # None /\ proc[p].state \in {"starting", "serving"}
Gateways == {p \in Pids : Live(p) /\ proc[p].gateway}
HasRecord == file \notin {None, Truncated}

-----------------------------------------------------------------------------
(* The control plane. *)

\* run_gateway_task: the node is online and the request is valid.
Ask(q) ==
  /\ req[q] = None /\ (job # None => job.of # q)
  /\ \E k \in Kinds : req' = [req EXCEPT ![q] = [kind |-> k,
                                                 status |-> "queued"]]
  /\ queue' = Append(queue, q)
  /\ UNCHANGED <<worldVars, file, job, faults, left, killed, unsure, overlap,
                 result, named>>

\* wait_for_gateway_task: the deadline passes before the task is closed.
TimeOut(q) ==
  /\ req[q] # None
  /\ req' = [req EXCEPT ![q] = None]
  /\ \/ req[q].status = "running" /\ UNCHANGED queue
     \/ \E i \in DOMAIN queue : queue[i] = q /\ queue' = Seqs!RemoveAt(queue, i)
  /\ UNCHANGED <<worldVars, file, job, faults, left, killed, unsure, overlap,
                 result, named>>

-----------------------------------------------------------------------------
(* The agent's task. *)

FirstPc(k) == CASE k = "start_gateway" -> "start"
                [] k \in {"stop_gateway", "restart_gateway"} -> "stop"
                [] k = "check_gateway" -> "check"
                [] k = "read_gateway_log" -> "log"

Take ==
  /\ job = None /\ queue # <<>>
  /\ LET q == Head(queue) IN
       /\ job' = [of |-> q, kind |-> req[q].kind, pc |-> FirstPc(req[q].kind),
                  pid |-> None, birth |-> None]
       /\ req' = [req EXCEPT ![q].status = "running"]
  /\ queue' = Tail(queue)
  /\ result' = "none" /\ named' = 0
  /\ UNCHANGED <<worldVars, file, faults, left, killed, unsure, overlap>>

\* The result is reported and closes the task, unless that timed out.
Finish(found) ==
  /\ job' = None
  /\ result' = found /\ named' = 0
  /\ req' = [req EXCEPT ![job.of] = None]
  /\ UNCHANGED queue

\* The same for an answer that names a process.
Answer(birth) ==
  /\ job' = None
  /\ result' = "running"
  /\ named' = IF birth = None THEN 0 ELSE birth
  /\ req' = [req EXCEPT ![job.of] = None]
  /\ UNCHANGED queue

Working(pc) == job # None /\ job.pc = pc
Go(next) == job' = next /\ UNCHANGED <<serverVars, result, named>>

\* Mutant: any process of that id will do.
IsRunningById(rec) == proc[rec.pid] # None

\* check_record: a process of that id, with the start time on record if
\* there is one.  A process that exited and was not reaped counts.
IsRunning(rec) ==
  /\ proc[rec.pid] # None
  /\ rec.birth # None => proc[rec.pid].birth = rec.birth

RecordRuns == IF HasRecord THEN IsRunning(file) ELSE FALSE

\* Mutant: start_gateway does not look for a gateway that runs.
StartAnyway ==
  /\ Working("start")
  /\ Finish("failed") \/ Go([job EXCEPT !.pc = "spawn"])
  /\ UNCHANGED <<worldVars, file, faults, left, killed, unsure, overlap>>

\* start_gateway: an unreadable record is no obstacle; an invalid
\* specification or log path is.
StartCheck ==
  /\ Working("start")
  /\ \/ Finish("failed")
     \/ RecordRuns /\ Answer(proc[file.pid].birth)
     \/ ~RecordRuns /\ Go([job EXCEPT !.pc = "spawn"])
  /\ UNCHANGED <<worldVars, file, faults, left, killed, unsure, overlap>>

Born(p, isGateway) ==
  /\ births < MaxBirths /\ births' = births + 1
  /\ proc[p] = None
  /\ proc' = [proc EXCEPT ![p] = [birth |-> births + 1, gateway |-> isGateway,
                                  state |-> "starting"]]

Spawn ==
  /\ Working("spawn")
  /\ \/ Finish("failed") /\ UNCHANGED worldVars
     \/ \E p \in Pids :
          /\ Born(p, TRUE)
          /\ Go([job EXCEPT !.pc = "start_time", !.pid = p,
                            !.birth = births + 1])
          /\ UNCHANGED port
  /\ UNCHANGED <<file, faults, left, killed, unsure, overlap>>

\* process_start_time of whatever has that id by now, after the handle of
\* the child was dropped.
ReadStartTime ==
  /\ Working("start_time")
  /\ LET birth == IF proc[job.pid] = None THEN None ELSE proc[job.pid].birth
     IN /\ Go([job EXCEPT !.pc = "truncate", !.birth = birth])
        /\ unsure' = (unsure \/ birth # job.birth)
  /\ UNCHANGED <<worldVars, file, faults, left, killed, overlap>>

\* save_record.
SaveTruncate ==
  /\ Working("truncate")
  /\ file' = Truncated
  /\ Go([job EXCEPT !.pc = "write"])
  /\ UNCHANGED <<worldVars, faults, left, killed, unsure, overlap>>

\* Mutant: the id is asked of a handle that has been dropped.
SaveWriteDropped ==
  /\ Working("write")
  /\ file' = [pid |-> None, birth |-> job.birth]
  /\ Answer(job.birth)
  /\ UNCHANGED <<worldVars, faults, left, killed, unsure, overlap>>

SaveWrite ==
  /\ Working("write")
  /\ file' = [pid |-> job.pid, birth |-> job.birth]
  /\ Answer(job.birth)
  /\ UNCHANGED <<worldVars, faults, left, killed, unsure, overlap>>

\* The gateways that the task in progress has started and not recorded.
Unsaved ==
  IF job # None /\ job.pc \in {"start_time", "truncate", "write"}
  THEN {proc[p].birth : p \in {g \in Gateways : g = job.pid}} ELSE {}

SaveFails ==
  /\ Working("truncate") \/ Working("write")
  /\ faults < MaxFaults /\ faults' = faults + 1
  /\ left' = left \cup Unsaved
  /\ Finish("failed")
  /\ UNCHANGED <<worldVars, file, killed, unsure, overlap>>

\* stop_gateway, alone or as the first half of a restart.
AfterStop == IF job.kind = "stop_gateway" THEN Finish("stopped")
             ELSE Go([job EXCEPT !.pc = "start", !.pid = None, !.birth = None])

\* Mutant: the record is removed and the process is left alone.
StopForgets ==
  /\ Working("stop")
  /\ Go([job EXCEPT !.pc = "remove"])
  /\ UNCHANGED <<worldVars, file, faults, left, killed, unsure, overlap>>

StopCheck ==
  /\ Working("stop")
  /\ CASE file = None -> AfterStop
       [] file = Truncated -> Finish("failed")
       [] RecordRuns -> Go([job EXCEPT !.pc = "kill", !.pid = file.pid,
                                       !.birth = proc[file.pid].birth])
       [] OTHER -> Go([job EXCEPT !.pc = "remove"])
  /\ UNCHANGED <<worldVars, file, faults, left, killed, unsure, overlap>>

\* kill -TERM, which does not wait for the process to end.
Kill ==
  /\ Working("kill")
  /\ LET p == job.pid IN
       IF proc[p] = None
       THEN Finish("failed") /\ UNCHANGED <<proc, killed, unsure>>
       ELSE /\ proc' = IF proc[p].state = "zombie" THEN proc
                       ELSE [proc EXCEPT ![p].state = "dying"]
            /\ killed' = IF proc[p].gateway THEN killed
                         ELSE killed \cup {proc[p].birth}
            /\ unsure' = (unsure \/ proc[p].birth # job.birth)
            /\ Go([job EXCEPT !.pc = "remove"])
  /\ UNCHANGED <<births, port, file, faults, left, overlap>>

Remove ==
  /\ Working("remove")
  /\ file' = None
  /\ AfterStop
  /\ UNCHANGED <<worldVars, faults, left, killed, unsure, overlap>>

\* check_gateway: the process is there, and something answers its URL.
Check ==
  /\ Working("check")
  /\ IF RecordRuns /\ port # 0 THEN Answer(proc[file.pid].birth) ELSE Finish("failed")
  /\ UNCHANGED <<worldVars, file, faults, left, killed, unsure, overlap>>

\* read_gateway_log, of the path on record.
ReadLog ==
  /\ Working("log")
  /\ \/ HasRecord /\ Finish("log_available")
     \/ Finish("failed")
  /\ UNCHANGED <<worldVars, file, faults, left, killed, unsure, overlap>>

TaskStep == \/ Take \/ StartCheck \/ Spawn \/ ReadStartTime \/ SaveTruncate
            \/ SaveWrite \/ StopCheck \/ Kill \/ Remove \/ Check \/ ReadLog

\* The agent is restarted; its task is left to time out.
RestartAgent ==
  /\ job # None
  /\ faults < MaxFaults /\ faults' = faults + 1
  /\ left' = left \cup Unsaved
  /\ job' = None
  /\ UNCHANGED <<worldVars, file, serverVars, killed, unsure, overlap, result,
                 named>>

-----------------------------------------------------------------------------
(* Processes. *)

\* main of the gateway binds its address, or exits because it is taken.
Bind(p) ==
  /\ proc[p] # None /\ proc[p].gateway /\ proc[p].state = "starting"
  /\ IF port = 0
     THEN /\ port' = proc[p].birth
          /\ proc' = [proc EXCEPT ![p].state = "serving"]
          /\ UNCHANGED overlap
     ELSE /\ proc' = [proc EXCEPT ![p].state = "zombie"]
          /\ overlap' = TRUE /\ UNCHANGED port
  /\ UNCHANGED <<births, file, job, serverVars, faults, left, killed, unsure,
                 result, named>>

Exits(p) ==
  /\ proc' = [proc EXCEPT ![p].state = "zombie"]
  /\ port' = IF port = proc[p].birth THEN 0 ELSE port
  /\ UNCHANGED <<births, file, job, serverVars, left, killed, unsure, overlap,
                 result, named>>

\* After the signal.
Die(p) ==
  /\ proc[p] # None /\ proc[p].state = "dying"
  /\ Exits(p) /\ UNCHANGED faults

\* On its own.
Crash(p) ==
  /\ Live(p)
  /\ faults < MaxFaults /\ faults' = faults + 1
  /\ Exits(p)

\* A process that is over is reaped, by the agent's runtime or by init.
Reap(p) ==
  /\ proc[p] # None /\ proc[p].state = "zombie"
  /\ proc' = [proc EXCEPT ![p] = None]
  /\ UNCHANGED <<births, port, file, job, serverVars, faults, left, killed,
                 unsure, overlap, result, named>>

\* Some other program is started, under any free id.
OtherStarts(p) ==
  /\ Born(p, FALSE)
  /\ UNCHANGED <<port, file, job, serverVars, faults, left, killed, unsure,
                 overlap, result, named>>

ProcessStep(p) == Bind(p) \/ Die(p) \/ Reap(p)

Next ==
  \/ \E q \in Requests : Ask(q) \/ TimeOut(q)
  \/ TaskStep \/ SaveFails \/ RestartAgent
  \/ \E p \in Pids : ProcessStep(p) \/ Crash(p) \/ OtherStarts(p)

Spec == Init /\ [][Next]_vars

\* The agent works on, and processes do what they are about to.
Fairness == WF_vars(TaskStep) /\ \A p \in Pids : WF_vars(ProcessStep(p))
FairSpec == Spec /\ Fairness

-----------------------------------------------------------------------------
(* Properties. *)

\* A gateway that runs is the one on record, or is about to be recorded, or
\* is left over from a start that failed or was cut off, or from a record
\* whose process could not be identified (gateway_supervisor.rs
\* start_gateway, stop_gateway).
GatewayIsRecorded ==
  \A p \in Gateways :
    \/ proc[p].birth \in left \cup Unsaved \/ unsure
    \/ RecordRuns /\ file.pid = p

\* When a stop has answered stopped, no gateway runs that was not told to
\* end, except left-over ones (stop_gateway).
StoppedIsStopped ==
  result = "stopped" => unsure \/ \A p \in Gateways : proc[p].birth \in left

\* No process but a gateway is killed, as long as its record holds its start
\* time and its id is not used again in the moment before the kill
\* (check_record).
KillsGatewaysOnly == killed # {} => unsure

Alive(b) == \E p \in Pids : Live(p) /\ proc[p].birth = b

\* When a start or a restart has answered running and its process goes on,
\* a gateway comes to listen, unless it finds the port of the one before it
\* taken (start_gateway, restart_gateway, and main of the gateway).
RunningServes ==
  \A b \in 1 .. MaxBirths :
    (named = b /\ Alive(b))
      ~> (named # b \/ port # 0 \/ overlap \/ unsure \/ ~Alive(b))

-----------------------------------------------------------------------------
(* The parts of the inductive invariant behind the first three properties. *)

\* Births are start times: none is later than the clock, no two are the same.
Clock ==
  /\ \A p \in Pids : proc[p] # None =>
       /\ proc[p].birth \in 1 .. births
       /\ \A q \in Pids : proc[q] # None /\ proc[q].birth = proc[p].birth
                            => q = p
  /\ HasRecord /\ file.birth # None => file.birth \in 1 .. births
  /\ job # None /\ job.birth # None => job.birth \in 1 .. births

\* A queued task is open, queued once, and not the one in progress.
Queued ==
  \A i \in 1 .. Len(queue) :
    /\ req[queue[i]] # None /\ req[queue[i]].status = "queued"
    /\ job # None => job.of # queue[i]
    /\ \A j \in 1 .. Len(queue) : queue[i] = queue[j] => i = j

Saving == IF job = None THEN FALSE
          ELSE job.pc \in {"start_time", "truncate", "write"}

\* What the task in progress knows of the process it is about.
JobKnows ==
  /\ Saving \/ Working("kill") => job.pid \in Pids
  /\ Working("start_time") => job.birth # None
  /\ Working("kill") =>
       /\ HasRecord /\ file.pid = job.pid
       /\ unsure \/ job.birth = file.birth
  /\ job # None => result = "none"

\* A start time that is on record, or about to be, is that of a gateway.
OfGateway(birth) ==
  /\ birth # None
  /\ \A p \in Pids : proc[p] # None /\ proc[p].birth = birth => proc[p].gateway

Identified ==
  \/ unsure
  \/ /\ HasRecord => OfGateway(file.birth)
     /\ Saving => OfGateway(job.birth)

\* The gateway that was started is not mistaken for its successor.
Started ==
  Saving => \A p \in Gateways : p = job.pid => proc[p].birth = job.birth

\* Before the record is replaced, or removed, what it names runs no more.
Cleared ==
  /\ Working("spawn") \/ Saving => unsure \/ ~ RecordRuns
  /\ Working("write") => file = Truncated
  /\ Working("remove") => unsure \/ ~ (RecordRuns /\ Live(file.pid))
  /\ result = "stopped" => job = None /\ file = None

Inv == /\ TypeOK /\ Clock /\ Queued /\ JobKnows /\ Identified /\ Started
       /\ Cleared /\ GatewayIsRecorded /\ StoppedIsStopped
       /\ KillsGatewaysOnly

=============================================================================
