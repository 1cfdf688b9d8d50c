------------------------ MODULE AgentTasksRefinement ------------------------
(***************************************************************************)
(* AgentTasks implements TaskService: every behaviour of the rows, polls,  *)
(* handlers and messages is, seen through StageOf, AnswerOf and VerdictOf, *)
(* a behaviour of the service, for every number of tasks and slots and any *)
(* number of faults.                                                       *)
(*                                                                         *)
(* Each action of AgentTasks is matched with the action of TaskService it  *)
(* carries out, or with none; where it is allowed only in reachable        *)
(* states, the inductive invariant of AgentTasksProofs says so.            *)
(***************************************************************************)
EXTENDS AgentTasksProofs

USE DEF taskVars, rowVars

\* What the agent is performing.
InHand(t) == agent.mode = "busy" /\ agent.task = t

\* A step that leaves alone all the abstract state is made of.
LEMMA Stutter ==
  ASSUME UNCHANGED <<status, results, faults, handed>>,
         \A t \in Tasks : InHand(t)' <=> InHand(t)
  PROVE  UNCHANGED Service!vars
  <1>1. \A t \in Tasks : StageOf(t)' = StageOf(t)
    BY DEF StageOf, InHand
  <1>2. \A t \in Tasks : AnswerOf(t)' = AnswerOf(t)
    BY DEF AnswerOf
  <1>3. \A t \in Tasks : VerdictOf(t)' = VerdictOf(t)
    BY DEF VerdictOf
  <1>4. QED BY <1>1, <1>2, <1>3 DEF Service!vars

\* What a report leaves in the agent's hands.
LEMMA ReportInHand ==
  ASSUME NEW t \in Tasks, ReportAnswered(t)
  PROVE  \A u \in Tasks : InHand(u)' <=> InHand(u)
  BY DEF ReportAnswered, InHand, IdleAgent

-----------------------------------------------------------------------------
(* One lemma for each action of the service. *)

LEMMA SubmitStep ==
  ASSUME Inv, NEW t \in Tasks, InsertTask(t)
  PROVE  Service!Submit(t)
  <1>1. /\ status \in [Tasks -> TaskStatus \cup {"none"}]
        /\ handed \in [Tasks -> Nat]
    BY DEF Inv, TypeOK
  <1>2. status[t] = "none" /\ handed[t] = 0
    BY <1>1 DEF Inv, InsertTask, Progress, ExecutedAtMostOnce
  <1>3. /\ status' = [status EXCEPT ![t] = "queued"]
        /\ UNCHANGED <<handed, agent, results, faults>>
    BY DEF InsertTask
  <1>4. \A u \in Tasks : StageOf(u)' = IF u = t THEN "waiting" ELSE StageOf(u)
    BY <1>1, <1>2, <1>3 DEF StageOf
  <1>5. \A u \in Tasks : VerdictOf(u)' = IF u = t THEN "open" ELSE VerdictOf(u)
    BY <1>1, <1>3 DEF VerdictOf
  <1>6. \A u \in Tasks : AnswerOf(u)' = AnswerOf(u)
    BY <1>3 DEF AnswerOf
  <1>7. StageOf(t) = "none"
    BY <1>2 DEF StageOf
  <1>8. QED BY <1>3, <1>4, <1>5, <1>6, <1>7 DEF Service!Submit

\* The agent is given a task that no other poll has given it before, and
\* only when it works on nothing.
LEMMA HandOverStep ==
  ASSUME Inv, NEW p \in Polls, PollReply(p)
  PROVE  \/ UNCHANGED Service!vars
         \/ \E t \in Tasks : Service!HandOver(t)
  <1>1. UNCHANGED <<status, results, faults>>
    BY DEF PollReply
  <1>2. CASE agent.poll # p
    <2>1. UNCHANGED <<agent, handed>>
      BY <1>2 DEF PollReply
    <2>2. QED BY <1>1, <2>1, Stutter DEF InHand
  <1>3. CASE agent.poll = p /\ poll[p].task = None
    <2>1. UNCHANGED handed /\ agent' = IdleAgent
      BY <1>3 DEF PollReply
    <2>2. agent.mode = "polling"
      BY <1>3, ConstantsAssumption DEF Inv, Slots
    <2>3. QED BY <1>1, <2>1, <2>2, Stutter DEF InHand, IdleAgent
  <1>4. CASE agent.poll = p /\ poll[p].task # None
    <2> DEFINE t == poll[p].task
    <2>1. t \in Tasks /\ poll[p].pc = "reply" /\ agent.mode = "polling"
      BY <1>4, ConstantsAssumption
         DEF Inv, Slots, TypeOK, PollType, PollReply
    <2>2. handed[t] = 0 /\ status[t] # "none"
      BY <1>4, <2>1 DEF Inv, Progress
    <2>3. /\ agent' = [mode |-> "busy", poll |-> None, task |-> t]
          /\ handed' = [handed EXCEPT ![t] = @ + 1]
          /\ handed \in [Tasks -> Nat]
      BY <1>4 DEF PollReply, Inv, TypeOK
    <2> HIDE DEF t
    <2>4. \A u \in Tasks : StageOf(u)' = IF u = t THEN "given" ELSE StageOf(u)
      BY <1>1, <2>1, <2>2, <2>3 DEF StageOf
    <2>5. StageOf(t) = "waiting" /\ \A u \in Tasks : StageOf(u) # "given"
      BY <2>1, <2>2 DEF StageOf
    <2>6. \A u \in Tasks : /\ VerdictOf(u)' = VerdictOf(u)
                           /\ AnswerOf(u)' = AnswerOf(u)
      BY <1>1 DEF VerdictOf, AnswerOf
    <2>7. Service!HandOver(t)
      BY <1>1, <2>1, <2>4, <2>5, <2>6 DEF Service!HandOver
    <2>8. QED BY <2>1, <2>7
  <1>5. QED BY <1>2, <1>3, <1>4

LEMMA PerformStep ==
  ASSUME Inv, NEW ok \in BOOLEAN, AgentFinish(ok),
         NEW t \in Tasks, agent.task = t
  PROVE  Service!Perform(t)
  <1>1. /\ t \in Tasks /\ agent.mode = "busy" /\ handed[t] = 1
        /\ status[t] # "none"
    BY DEF Inv, AgentFinish, Slots, OneResult, Progress
  <1>2. \A m \in results : m.task # t
    BY <1>1 DEF Inv, OneResult
  <1>3. /\ UNCHANGED <<status, handed, faults>>
        /\ results' = results \cup {[task |-> t, ok |-> ok]}
        /\ agent'.mode = "reporting"
    BY DEF AgentFinish, Inv, TypeOK
  <1>4. \A u \in Tasks : StageOf(u)' = IF u = t THEN "over" ELSE StageOf(u)
    <2>1. \A u \in Tasks : u # t => ~ InHand(u) /\ ~ InHand(u)'
      BY <1>3 DEF InHand
    <2>2. \A u \in Tasks : u # t => StageOf(u)' = StageOf(u)
      BY <1>3, <2>1 DEF StageOf, InHand
    <2>3. StageOf(t)' = "over"
      BY <1>1, <1>3 DEF StageOf
    <2>4. QED BY <2>2, <2>3
  <1>5. StageOf(t) = "given"
    BY <1>1 DEF StageOf
  <1>6. \A u \in Tasks : u # t => AnswerOf(u)' = AnswerOf(u)
    BY <1>3 DEF AnswerOf
  <1>7. AnswerOf(t)' \in {"succeeded", "failed"}
    <2>1. CASE ok = TRUE
      BY <1>3, <2>1 DEF AnswerOf
    <2>2. CASE ok = FALSE
      BY <1>3, <2>2 DEF AnswerOf
    <2>3. QED BY <2>1, <2>2
  <1>8. \A u \in Tasks : VerdictOf(u)' = VerdictOf(u)
    BY <1>3 DEF VerdictOf
  <1>9. QED
    BY <1>1, <1>3, <1>4, <1>5, <1>6, <1>7, <1>8
       DEF Service!Perform, Service!Outcomes

\* What a report of task t leaves of the answers.
LEMMA AnswerStep ==
  ASSUME Inv, NEW m \in results, results' = results \ {m}
  PROVE  /\ m.task \in Tasks
         /\ AnswerOf(m.task) = IF m.ok THEN "succeeded" ELSE "failed"
         /\ \A u \in Tasks :
              AnswerOf(u)' = IF u = m.task THEN "none" ELSE AnswerOf(u)
  <1>1. /\ m.task \in Tasks /\ m.ok \in BOOLEAN
        /\ m = [task |-> m.task, ok |-> m.ok]
    BY DEF Inv, TypeOK
  <1>2. \A n \in results : n.task = m.task => n = m
    BY DEF Inv, OneResult
  <1>3. AnswerOf(m.task) = IF m.ok THEN "succeeded" ELSE "failed"
    <2>1. CASE m.ok = TRUE
      <3>1. [task |-> m.task, ok |-> TRUE] \in results
        BY <1>1, <2>1
      <3>2. [task |-> m.task, ok |-> FALSE] \notin results
        BY <1>2, <2>1
      <3>3. QED BY <2>1, <3>1, <3>2 DEF AnswerOf
    <2>2. CASE m.ok = FALSE
      <3>1. [task |-> m.task, ok |-> FALSE] \in results
        BY <1>1, <2>2
      <3>2. [task |-> m.task, ok |-> TRUE] \notin results
        BY <1>2, <2>2
      <3>3. QED BY <2>2, <3>1, <3>2 DEF AnswerOf
    <2>3. QED BY <1>1, <2>1, <2>2
  <1>4. AnswerOf(m.task)' = "none"
    BY <1>1, <1>2 DEF AnswerOf
  <1>5. \A u \in Tasks : u # m.task => AnswerOf(u)' = AnswerOf(u)
    BY DEF AnswerOf
  <1>6. QED BY <1>1, <1>3, <1>4, <1>5

LEMMA ConcludeStep ==
  ASSUME Inv, NEW m \in results, RecordResult(m)
  PROVE  Service!Conclude(m.task)
  <1>1. /\ results' = results \ {m} /\ UNCHANGED <<handed, faults>>
        /\ status' = [status EXCEPT ![m.task] = IF m.ok THEN "succeeded"
                                                ELSE "failed"]
        /\ status \in [Tasks -> TaskStatus \cup {"none"}]
    BY DEF RecordResult, Inv, TypeOK
  <1>2. /\ m.task \in Tasks
        /\ AnswerOf(m.task) = IF m.ok THEN "succeeded" ELSE "failed"
        /\ \A u \in Tasks :
             AnswerOf(u)' = IF u = m.task THEN "none" ELSE AnswerOf(u)
    BY <1>1, AnswerStep
  <1>3. handed[m.task] = 1 /\ status[m.task] # "none"
    BY <1>2 DEF Inv, OneResult, Progress
  <1>4. \A u \in Tasks : InHand(u)' <=> InHand(u)
    BY <1>2, ReportInHand DEF RecordResult
  <1>5. \A u \in Tasks : StageOf(u)' = StageOf(u)
    BY <1>1, <1>2, <1>3, <1>4 DEF StageOf, InHand
  <1>6. \A u \in Tasks :
          VerdictOf(u)' = IF u = m.task THEN AnswerOf(m.task) ELSE VerdictOf(u)
    BY <1>1, <1>2 DEF VerdictOf
  <1>7. QED BY <1>1, <1>2, <1>5, <1>6 DEF Service!Conclude

LEMMA LoseStep ==
  ASSUME Inv, NEW m \in results, LoseResult(m)
  PROVE  Service!Lose(m.task)
  <1>1. results' = results \ {m} /\ UNCHANGED <<status, handed, faults>>
    BY DEF LoseResult
  <1>2. /\ m.task \in Tasks
        /\ AnswerOf(m.task) = IF m.ok THEN "succeeded" ELSE "failed"
        /\ \A u \in Tasks :
             AnswerOf(u)' = IF u = m.task THEN "none" ELSE AnswerOf(u)
    BY <1>1, AnswerStep
  <1>3. \A u \in Tasks : InHand(u)' <=> InHand(u)
    BY <1>2, ReportInHand DEF LoseResult
  <1>4. \A u \in Tasks : /\ StageOf(u)' = StageOf(u)
                         /\ VerdictOf(u)' = VerdictOf(u)
    BY <1>1, <1>3 DEF StageOf, VerdictOf, InHand
  <1>5. QED BY <1>1, <1>2, <1>4 DEF Service!Lose

\* The guard of mark_task_timed_out, for the waiting request and the sweep.
LEMMA GiveUpStep ==
  ASSUME Inv, NEW t \in Tasks, MarkTimedOut(t),
         UNCHANGED <<agent, results, faults, handed>>
  PROVE  UNCHANGED Service!vars \/ Service!GiveUp(t)
  <1>1. CASE status[t] \in {"queued", "running"}
    <2>1. /\ status' = [status EXCEPT ![t] = "timed_out"]
          /\ status \in [Tasks -> TaskStatus \cup {"none"}]
      BY <1>1 DEF MarkTimedOut, Inv, TypeOK
    <2>2. \A u \in Tasks : /\ StageOf(u)' = StageOf(u)
                           /\ AnswerOf(u)' = AnswerOf(u)
      BY <1>1, <2>1 DEF StageOf, AnswerOf
    <2>3. \A u \in Tasks :
            VerdictOf(u)' = IF u = t THEN "timed_out" ELSE VerdictOf(u)
      BY <1>1, <2>1 DEF VerdictOf
    <2>4. VerdictOf(t) = "open"
      BY <1>1 DEF VerdictOf
    <2>5. QED BY <2>2, <2>3, <2>4 DEF Service!GiveUp
  <1>2. CASE status[t] \notin {"queued", "running"}
    <2>1. UNCHANGED status
      BY <1>2 DEF MarkTimedOut, Inv, TypeOK
    <2>2. QED BY <2>1, Stutter DEF InHand
  <1>3. QED BY <1>1, <1>2

\* The lease is of a task that has been picked, which may have been timed
\* out since.  That it has been finished since takes a second poll, which
\* there is only after a fault.
LEMMA ReopenStep ==
  ASSUME Inv, NEW p \in Polls, PollLease(p)
  PROVE  \/ UNCHANGED Service!vars
         \/ \E t \in Tasks : Service!Reopen(t)
  <1> DEFINE t == poll[p].task
  <1>1. /\ t \in Tasks /\ poll[p].pc = "picked" /\ ~ poll[p].api
        /\ status[t] # "none"
    BY DEF Inv, Slots, Progress, PollLease
  <1>2. faults = 0 => handed[t] = 0
    BY <1>1 DEF Inv, LonePoll, Progress
  <1>3. /\ status' = [status EXCEPT ![t] = "running"]
        /\ UNCHANGED <<agent, results, faults, handed>>
        /\ status \in [Tasks -> TaskStatus \cup {"none"}]
        /\ faults \in Nat /\ handed \in [Tasks -> Nat]
    BY DEF PollLease, Inv, TypeOK
  <1>4. status[t] \in {"succeeded", "failed"} => handed[t] = 1
    BY <1>1 DEF Inv, ResultOnlyIfHanded
  <1> HIDE DEF t
  <1>5. \A u \in Tasks : /\ StageOf(u)' = StageOf(u)
                         /\ AnswerOf(u)' = AnswerOf(u)
    BY <1>1, <1>3 DEF StageOf, AnswerOf
  <1>6. \A u \in Tasks : VerdictOf(u)' = IF u = t THEN "open" ELSE VerdictOf(u)
    BY <1>1, <1>3 DEF VerdictOf
  <1>7. CASE status[t] \in {"queued", "running"}
    <2>1. \A u \in Tasks : VerdictOf(u)' = VerdictOf(u)
      BY <1>6, <1>7 DEF VerdictOf
    <2>2. QED BY <1>3, <1>5, <2>1 DEF Service!vars
  <1>8. CASE status[t] \in {"succeeded", "failed", "timed_out"}
    <2>1. VerdictOf(t) = status[t]
      BY <1>8 DEF VerdictOf
    <2>2. \/ faults > 0
          \/ StageOf(t) = "waiting" /\ VerdictOf(t) = "timed_out"
      BY <1>1, <1>2, <1>3, <1>4, <1>8, <2>1 DEF StageOf
    <2>3. Service!Reopen(t)
      BY <1>1, <1>3, <1>5, <1>6, <1>8, <2>1, <2>2 DEF Service!Reopen
    <2>4. QED BY <1>1, <2>3
  <1>9. QED BY <1>1, <1>3, <1>7, <1>8 DEF TaskStatus

\* A poll is dropped: a task in hand stays there.
LEMMA DropStep ==
  ASSUME Inv, NEW p \in Polls, PollCut(p)
  PROVE  Service!Disturb
  <1>1. /\ UNCHANGED <<status, results, handed>>
        /\ faults' = faults + 1 /\ faults \in Nat
        /\ agent' = IF agent.poll = p THEN IdleAgent ELSE agent
    BY DEF PollCut, Failed, Inv, TypeOK
  <1>2. agent.poll = p => agent.mode = "polling"
    BY ConstantsAssumption DEF Inv, Slots
  <1>3. \A t \in Tasks : InHand(t)' <=> InHand(t)
    BY <1>1, <1>2 DEF InHand, IdleAgent
  <1>4. \A t \in Tasks : /\ StageOf(t)' = StageOf(t)
                         /\ AnswerOf(t)' = AnswerOf(t)
                         /\ VerdictOf(t)' = VerdictOf(t)
    BY <1>1, <1>3 DEF StageOf, AnswerOf, VerdictOf, InHand
  <1>5. QED BY <1>1, <1>4 DEF Service!Disturb

\* The agent restarts: a task in hand is neither finished nor given again.
LEMMA RestartStep ==
  ASSUME Inv, AgentRestart
  PROVE  Service!Disturb
  <1>1. /\ UNCHANGED <<status, results, handed>>
        /\ faults' = faults + 1 /\ faults \in Nat
        /\ agent'.mode = "idle"
    BY DEF AgentRestart, Inv, TypeOK, IdleAgent
  <1>2. \A t \in Tasks :
          StageOf(t)' = IF StageOf(t) = "given" THEN "over" ELSE StageOf(t)
    <2>1. \A t \in Tasks : handed[t] \in Nat
      BY DEF Inv, TypeOK
    <2>2. agent.mode = "busy" => status[agent.task] # "none"
      BY DEF Inv, Slots, OneResult, Progress
    <2>3. QED BY <1>1, <2>1, <2>2 DEF StageOf
  <1>3. \A t \in Tasks : /\ AnswerOf(t)' = AnswerOf(t)
                         /\ VerdictOf(t)' = VerdictOf(t)
    BY <1>1 DEF AnswerOf, VerdictOf
  <1>4. QED BY <1>1, <1>2, <1>3 DEF Service!Disturb

\* The polls and handlers that fail without a fault, and everything that
\* only concerns rows, slots and requests.
LEMMA NotFoundStep ==
  ASSUME Inv, NEW p \in Polls, SweepNotFound(p)
  PROVE  UNCHANGED Service!vars
  <1>1. /\ UNCHANGED <<status, results, handed, faults>>
        /\ agent' = IF agent.poll = p THEN IdleAgent ELSE agent
    BY DEF SweepNotFound, Failed
  <1>2. agent.poll = p => agent.mode = "polling"
    BY ConstantsAssumption DEF Inv, Slots
  <1>3. \A t \in Tasks : InHand(t)' <=> InHand(t)
    BY <1>1, <1>2 DEF InHand, IdleAgent
  <1>4. QED BY <1>1, <1>3, Stutter

LEMMA AgentPollStep ==
  ASSUME NEW p \in Polls, AgentPoll(p)
  PROVE  UNCHANGED Service!vars
  BY Stutter DEF AgentPoll, InHand

-----------------------------------------------------------------------------

LEMMA RequestStep ==
  ASSUME Inv, Requests
  PROVE  [Service!Next]_(Service!vars)
  <1>1. ASSUME NEW t \in Tasks, InsertTask(t)
        PROVE  [Service!Next]_(Service!vars)
    BY <1>1, SubmitStep DEF Service!Next
  <1>2. ASSUME NEW t \in Tasks, WaiterMark(t)
        PROVE  [Service!Next]_(Service!vars)
    <2>1. MarkTimedOut(t) /\ UNCHANGED <<agent, results, faults, handed>>
      BY <1>2 DEF WaiterMark
    <2>2. QED BY <2>1, GiveUpStep DEF Service!Next
  <1>3. ASSUME UNCHANGED <<status, agent, results, faults, handed>>
        PROVE  [Service!Next]_(Service!vars)
    BY <1>3, Stutter DEF InHand
  <1>4. QED
    BY <1>1, <1>2, <1>3
       DEF Requests, Admit, SetCleanupPending, WaiterRead, WaiterFailRow,
           WaiterCut, CleanupOffline, CheckRead, CheckOffline, DeleteCheck,
           DeleteInstance, DeleteTrash

LEMMA PollStep ==
  ASSUME Inv, NEW p \in Polls, SweepStarts(p) \/ PollSteps(p) \/ PollCut(p)
  PROVE  [Service!Next]_(Service!vars)
  <1>1. ASSUME NEW t \in Tasks, SweepTask(p, t)
        PROVE  [Service!Next]_(Service!vars)
    <2>1. MarkTimedOut(t) /\ UNCHANGED <<agent, results, faults, handed>>
      BY <1>1 DEF SweepTask
    <2>2. QED BY <2>1, GiveUpStep DEF Service!Next
  <1>2. ASSUME PollLease(p) PROVE [Service!Next]_(Service!vars)
    BY <1>2, ReopenStep DEF Service!Next
  <1>3. ASSUME PollReply(p) PROVE [Service!Next]_(Service!vars)
    BY <1>3, HandOverStep DEF Service!Next
  <1>4. ASSUME PollCut(p) PROVE [Service!Next]_(Service!vars)
    BY <1>4, DropStep DEF Service!Next
  <1>5. ASSUME SweepNotFound(p) \/ AgentPoll(p)
        PROVE  [Service!Next]_(Service!vars)
    BY <1>5, NotFoundStep, AgentPollStep
  <1>6. ASSUME UNCHANGED <<status, agent, results, faults, handed>>
        PROVE  [Service!Next]_(Service!vars)
    BY <1>6, Stutter DEF InHand
  <1>7. SweepStarts(p) => \/ AgentPoll(p)
                          \/ UNCHANGED <<status, agent, results, faults, handed>>
    BY DEF SweepStarts, ListFiles, VerifyRequest, VerifyReread
  <1>8. PollSteps(p) => \/ \E t \in Tasks : SweepTask(p, t)
                        \/ SweepNotFound(p) \/ PollLease(p) \/ PollReply(p)
                        \/ UNCHANGED <<status, agent, results, faults, handed>>
    BY DEF PollSteps, SweepRow, SweepDone, FixFile, FixDone, PollSelect,
           PollWake, PollLeaseRow
  <1>9. QED BY <1>1, <1>2, <1>3, <1>4, <1>5, <1>6, <1>7, <1>8

LEMMA ServiceStep == Inv /\ [Next]_vars => [Service!Next]_(Service!vars)
  <1> SUFFICES ASSUME Inv, [Next]_vars
               PROVE  [Service!Next]_(Service!vars)
    OBVIOUS
  <1>1. ASSUME NEW ok \in BOOLEAN, AgentFinish(ok)
        PROVE  [Service!Next]_(Service!vars)
    <2>1. agent.task \in Tasks
      BY <1>1 DEF Inv, Slots, AgentFinish
    <2>2. QED BY <1>1, <2>1, PerformStep DEF Service!Next
  <1>2. ASSUME AgentRestart PROVE [Service!Next]_(Service!vars)
    BY <1>2, RestartStep DEF Service!Next
  <1>3. ASSUME NEW m \in results, RecordResult(m) \/ LoseResult(m)
        PROVE  [Service!Next]_(Service!vars)
    <2>1. m.task \in Tasks
      BY DEF Inv, TypeOK
    <2>2. QED BY <1>3, <2>1, ConcludeStep, LoseStep DEF Service!Next
  <1>4. ASSUME UNCHANGED <<status, agent, results, faults, handed>>
        PROVE  [Service!Next]_(Service!vars)
    BY <1>4, Stutter DEF InHand
  <1>5. Next => \/ Requests
                \/ \E p \in Polls : SweepStarts(p) \/ PollSteps(p) \/ PollCut(p)
                \/ \E ok \in BOOLEAN : AgentFinish(ok)
                \/ AgentRestart
                \/ \E m \in results : RecordResult(m) \/ LoseResult(m)
                \/ UNCHANGED <<status, agent, results, faults, handed>>
    BY DEF Next, Heartbeat, Expire, Tick
  <1>6. UNCHANGED vars => UNCHANGED <<status, agent, results, faults, handed>>
    BY DEF vars
  <1>7. QED BY <1>1, <1>2, <1>3, <1>4, <1>5, <1>6, RequestStep, PollStep

LEMMA ServiceInit == Init => Service!Init
  BY DEF Init, Service!Init, StageOf, AnswerOf, VerdictOf

\* The refinement: what poll_agent_task, record_agent_task_result,
\* mark_timed_out_tasks, the waiting requests and the agent's loop do to a
\* task together is what TaskService allows, and nothing else.
THEOREM Refinement == Spec => ImplementsService
  BY ServiceInit, ServiceStep, Invariance, PTL
     DEF Spec, Service!Spec, ImplementsService

=============================================================================
