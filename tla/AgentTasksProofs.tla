-------------------------- MODULE AgentTasksProofs --------------------------
(***************************************************************************)
(* The safety properties of AgentTasks, proved for every number of tasks,  *)
(* rows and request slots, any number of faults and any interleaving.      *)
(*                                                                         *)
(* Inv is inductive.  Each lemma below shows that a step keeps one part of *)
(* it, from the parts it names: one case per action that writes a variable *)
(* the part reads, and one for all the steps that write none of them.      *)
(***************************************************************************)
EXTENDS AgentTasks, TLAPS

USE DEF taskVars, rowVars

\* Updates of a request slot that keep its type.
LEMMA SlotPc ==
  ASSUME NEW f \in [Polls -> PollType], NEW p \in Polls, NEW pc \in PollPc
  PROVE  [f EXCEPT ![p].pc = pc] \in [Polls -> PollType]
  BY DEF PollType

LEMMA SlotTask ==
  ASSUME NEW f \in [Polls -> PollType], NEW p \in Polls, NEW pc \in PollPc,
         NEW task \in Tasks \cup {None}
  PROVE  [f EXCEPT ![p].pc = pc, ![p].task = task] \in [Polls -> PollType]
  BY DEF PollType

LEMMA SlotDue ==
  ASSUME NEW f \in [Polls -> PollType], NEW p \in Polls,
         NEW due \in SUBSET Tasks, NEW pc \in PollPc,
         NEW task \in Tasks \cup {None}
  PROVE  [f EXCEPT ![p].due = due, ![p].pc = pc, ![p].task = task]
           \in [Polls -> PollType]
  <1>1. [f EXCEPT ![p].due = due] \in [Polls -> PollType]
    BY DEF PollType
  <1>2. [[f EXCEPT ![p].due = due] EXCEPT ![p].pc = pc, ![p].task = task]
          \in [Polls -> PollType]
    BY <1>1, SlotTask
  <1>3. [[f EXCEPT ![p].due = due] EXCEPT ![p].pc = pc, ![p].task = task]
          = [f EXCEPT ![p].due = due, ![p].pc = pc, ![p].task = task]
    OBVIOUS
  <1>4. QED BY <1>2, <1>3

LEMMA SlotFiles ==
  ASSUME NEW f \in [Polls -> PollType], NEW p \in Polls,
         NEW files \in SUBSET Files, NEW pc \in PollPc
  PROVE  [f EXCEPT ![p].pc = pc, ![p].files = files] \in [Polls -> PollType]
  BY DEF PollType

\* What mark_task_timed_out does to the statuses.
LEMMA TimedOutStatus ==
  ASSUME TypeOK, NEW t \in Tasks, MarkTimedOut(t)
  PROVE  /\ \A u \in Tasks : u # t => status'[u] = status[u]
         /\ \/ status'[t] = status[t]
            \/ status[t] \in {"queued", "running"} /\ status'[t] = "timed_out"
  BY DEF MarkTimedOut, TypeOK

\* What poll_agent_task's select and its wake-up do to their slot.
LEMMA SelectSlot ==
  ASSUME TypeOK, Slots, NEW p \in Polls, PollSelect(p)
  PROVE  /\ poll[p].pc = "select" /\ \A q \in Polls \ {p} : poll'[q] = poll[q]
         /\ poll'[p].due = poll[p].due /\ poll'[p].req = poll[p].req
         /\ \/ /\ poll'[p].pc = "picked" /\ poll'[p].task \in Tasks
               /\ status[poll'[p].task] = "queued"
            \/ poll'[p].pc \in {"wait", "reply"} /\ poll'[p].task = None
  <1>0. poll[p].pc = "select" /\ poll \in [Polls -> PollType]
    BY DEF PollSelect, TypeOK
  <1>1. CASE \E t \in NextQueued :
          poll' = [poll EXCEPT ![p].pc = "picked", ![p].task = t]
    <2>1. PICK t \in Tasks : /\ status[t] = "queued"
                             /\ poll' = [poll EXCEPT ![p].pc = "picked",
                                                     ![p].task = t]
      BY <1>1 DEF NextQueued
    <2>2. QED BY <1>0, <2>1 DEF TypeOK, PollType
  <1>2. CASE \E pc \in {"wait", "reply"} : poll' = [poll EXCEPT ![p].pc = pc]
    <2>1. PICK pc \in {"wait", "reply"} : poll' = [poll EXCEPT ![p].pc = pc]
      BY <1>2
    <2>2. QED BY <1>0, <2>1 DEF Slots, TypeOK, PollType
  <1>3. QED BY <1>1, <1>2 DEF PollSelect

LEMMA WakeSlot ==
  ASSUME TypeOK, Slots, NEW p \in Polls, PollWake(p)
  PROVE  /\ poll[p].pc = "wait" /\ \A q \in Polls \ {p} : poll'[q] = poll[q]
         /\ poll'[p].due \in {poll[p].due, overdue}
         /\ poll'[p].req = poll[p].req
         /\ poll'[p].pc \in {"sweep", "reply"} /\ poll'[p].task = None
  <1>1. CASE poll' = [poll EXCEPT ![p].pc = "sweep", ![p].due = overdue]
    BY <1>1 DEF PollWake, Slots, TypeOK, PollType
  <1>2. CASE poll' = [poll EXCEPT ![p].pc = "reply"]
    BY <1>2 DEF PollWake, Slots, TypeOK, PollType
  <1>3. QED BY <1>1, <1>2 DEF PollWake

\* Types, the row of each kind of task, and the shape of the slots.
LEMMA TypeStep ==
  ASSUME TypeOK, KindTarget, Slots, [Next]_vars
  PROVE  TypeOK' /\ KindTarget' /\ Slots'
  <1>1. ASSUME NEW p \in Polls, NEW t \in Tasks, SweepTask(p, t)
       PROVE  TypeOK' /\ KindTarget' /\ Slots'
    <2>1. poll' \in [Polls -> PollType]
      <3> DEFINE pc == IF kind[t] = "query" THEN poll[p].pc ELSE "sweep_row"
                 task == IF kind[t] = "query" THEN poll[p].task ELSE t
      <3>1. /\ poll \in [Polls -> PollType]
            /\ poll[p].due \ {t} \in SUBSET Tasks
            /\ pc \in PollPc /\ task \in Tasks \cup {None}
        BY DEF TypeOK, PollType, PollPc
      <3>2. poll' = [poll EXCEPT ![p].due = poll[p].due \ {t}, ![p].pc = pc,
                                 ![p].task = task]
        BY <1>1 DEF SweepTask
      <3> HIDE DEF pc, task
      <3>3. QED BY <3>1, <3>2, SlotDue
    <2>2. TypeOK'
      BY <1>1, <2>1, ConstantsAssumption DEF TypeOK, Slots, KindTarget,
        TaskStatus, WaiterPc, Rows, RowStatus, StatusOf, InstanceStatus,
        FileStatus, TrashStatus, InstanceKinds, RowKinds, AllKinds,
        SweepTask, MarkTimedOut
    <2>3. KindTarget'
      BY <1>1 DEF KindTarget, SweepTask
    <2>4. Slots'
      BY <1>1, ConstantsAssumption DEF TypeOK, PollType, Slots, IdlePoll,
        SweepTask, MarkTimedOut
    <2>5. QED BY <2>2, <2>3, <2>4
  <1>2. ASSUME NEW p \in Polls, SweepDone(p)
       PROVE  TypeOK' /\ KindTarget' /\ Slots'
    <2>1. poll' \in [Polls -> PollType]
      <3> DEFINE pc == IF poll[p].api THEN "fix" ELSE "select"
                 files == {f \in poll[p].files :
                             /\ row[f] = "verifying"
                             /\ verifyTask[f] # None
                             /\ status[verifyTask[f]] = "timed_out"}
      <3>1. /\ poll \in [Polls -> PollType]
            /\ pc \in PollPc /\ files \in SUBSET Files
        BY DEF TypeOK, PollType, PollPc
      <3>2. poll' = [poll EXCEPT ![p].pc = pc, ![p].files = files]
        BY <1>2 DEF SweepDone
      <3> HIDE DEF pc, files
      <3>3. QED BY <3>1, <3>2, SlotFiles
    <2>2. TypeOK'
      BY <1>2, <2>1, ConstantsAssumption DEF TypeOK, Slots, KindTarget,
        TaskStatus, WaiterPc, Rows, RowStatus, StatusOf, InstanceStatus,
        FileStatus, TrashStatus, InstanceKinds, RowKinds, AllKinds, SweepDone
    <2>3. KindTarget'
      BY <1>2 DEF KindTarget, SweepDone
    <2>4. Slots'
      BY <1>2, ConstantsAssumption DEF TypeOK, PollType, Slots, IdlePoll,
        SweepDone
    <2>5. QED BY <2>2, <2>3, <2>4
  <1>3. ASSUME NEW p \in Polls, NEW f \in Files, FixFile(p, f)
       PROVE  TypeOK' /\ KindTarget' /\ Slots'
    <2>1. poll' \in [Polls -> PollType]
      BY <1>3 DEF TypeOK, Slots, PollType, PollPc, IdlePoll, FixFile, SetRow
    <2>2. TypeOK'
      BY <1>3, <2>1, ConstantsAssumption DEF TypeOK, Slots, KindTarget,
        TaskStatus, WaiterPc, Rows, RowStatus, StatusOf, InstanceStatus,
        FileStatus, TrashStatus, InstanceKinds, RowKinds, AllKinds, FixFile,
        SetRow
    <2>3. KindTarget'
      BY <1>3 DEF KindTarget, FixFile
    <2>4. Slots'
      BY <1>3, ConstantsAssumption DEF TypeOK, PollType, Slots, IdlePoll,
        FixFile, SetRow
    <2>5. QED BY <2>2, <2>3, <2>4
  <1>4. ASSUME NEW p \in Polls, FixDone(p)
       PROVE  TypeOK' /\ KindTarget' /\ Slots'
    <2>1. poll' \in [Polls -> PollType]
      BY <1>4 DEF TypeOK, Slots, PollType, PollPc, IdlePoll, FixDone
    <2>2. TypeOK'
      BY <1>4, <2>1, ConstantsAssumption DEF TypeOK, Slots, KindTarget,
        TaskStatus, WaiterPc, Rows, RowStatus, StatusOf, InstanceStatus,
        FileStatus, TrashStatus, InstanceKinds, RowKinds, AllKinds, FixDone
    <2>3. KindTarget'
      BY <1>4 DEF KindTarget, FixDone
    <2>4. Slots'
      BY <1>4, ConstantsAssumption DEF TypeOK, PollType, Slots, IdlePoll,
        FixDone
    <2>5. QED BY <2>2, <2>3, <2>4
  <1>5. ASSUME NEW p \in Polls, PollSelect(p)
       PROVE  TypeOK' /\ KindTarget' /\ Slots'
    <2>1. poll' \in [Polls -> PollType]
      <3>1. CASE \E t \in NextQueued :
              poll' = [poll EXCEPT ![p].pc = "picked", ![p].task = t]
        <4>1. PICK t \in Tasks :
                poll' = [poll EXCEPT ![p].pc = "picked", ![p].task = t]
          BY <3>1 DEF NextQueued
        <4>2. poll \in [Polls -> PollType] /\ "picked" \in PollPc
          BY DEF TypeOK, PollPc
        <4>3. QED BY <4>1, <4>2, SlotTask
      <3>2. CASE \E pc \in {"wait", "reply"} :
              poll' = [poll EXCEPT ![p].pc = pc]
        <4>1. PICK pc \in {"wait", "reply"} : poll' = [poll EXCEPT ![p].pc = pc]
          BY <3>2
        <4>2. poll \in [Polls -> PollType] /\ pc \in PollPc
          BY DEF TypeOK, PollPc
        <4>3. QED BY <4>1, <4>2, SlotPc
      <3>3. QED BY <1>5, <3>1, <3>2 DEF PollSelect
    <2>2. TypeOK'
      BY <1>5, <2>1, ConstantsAssumption DEF TypeOK, Slots, KindTarget,
        TaskStatus, WaiterPc, Rows, RowStatus, StatusOf, InstanceStatus,
        FileStatus, TrashStatus, InstanceKinds, RowKinds, AllKinds,
        PollSelect, NextQueued
    <2>3. KindTarget'
      BY <1>5 DEF KindTarget, PollSelect
    <2>4. Slots'
      <3>1. poll[p].pc = "select" /\ poll[p].task = None /\ UNCHANGED agent
        BY <1>5 DEF PollSelect, Slots
      <3>2. CASE \E t \in NextQueued :
              poll' = [poll EXCEPT ![p].pc = "picked", ![p].task = t]
        BY <3>1, <3>2 DEF Slots, TypeOK, PollType, NextQueued
      <3>3. CASE \E pc \in {"wait", "reply"} :
              poll' = [poll EXCEPT ![p].pc = pc]
        BY <3>1, <3>3 DEF Slots, TypeOK, PollType
      <3>4. QED BY <1>5, <3>2, <3>3 DEF PollSelect
    <2>5. QED BY <2>2, <2>3, <2>4
  <1>6. ASSUME NEW p \in Polls, PollWake(p)
       PROVE  TypeOK' /\ KindTarget' /\ Slots'
    <2>1. poll' \in [Polls -> PollType]
      BY <1>6 DEF TypeOK, Slots, PollType, PollPc, IdlePoll, PollWake
    <2>2. TypeOK'
      BY <1>6, <2>1, ConstantsAssumption DEF TypeOK, Slots, KindTarget,
        TaskStatus, WaiterPc, Rows, RowStatus, StatusOf, InstanceStatus,
        FileStatus, TrashStatus, InstanceKinds, RowKinds, AllKinds, PollWake
    <2>3. KindTarget'
      BY <1>6 DEF KindTarget, PollWake
    <2>4. Slots'
      BY <1>6, ConstantsAssumption DEF TypeOK, PollType, Slots, IdlePoll,
        PollWake
    <2>5. QED BY <2>2, <2>3, <2>4
  <1>7. ASSUME NEW p \in Polls, PollLease(p)
       PROVE  TypeOK' /\ KindTarget' /\ Slots'
    <2>1. poll' \in [Polls -> PollType]
      <3>1. PICK pc \in {"leased", "reply"} : poll' = [poll EXCEPT ![p].pc = pc]
        BY <1>7 DEF PollLease
      <3>2. poll \in [Polls -> PollType] /\ pc \in PollPc
        BY DEF TypeOK, PollPc
      <3>3. QED BY <3>1, <3>2, SlotPc
    <2>2. TypeOK'
      BY <1>7, <2>1, ConstantsAssumption DEF TypeOK, Slots, KindTarget,
        TaskStatus, WaiterPc, Rows, RowStatus, StatusOf, InstanceStatus,
        FileStatus, TrashStatus, InstanceKinds, RowKinds, AllKinds, PollLease
    <2>3. KindTarget'
      BY <1>7 DEF KindTarget, PollLease
    <2>4. Slots'
      BY <1>7, ConstantsAssumption DEF TypeOK, PollType, Slots, IdlePoll,
        PollLease
    <2>5. QED BY <2>2, <2>3, <2>4
  <1>8. ASSUME NEW p \in Polls, PollLeaseRow(p)
       PROVE  TypeOK' /\ KindTarget' /\ Slots'
    <2>1. poll' \in [Polls -> PollType]
      BY <1>8 DEF TypeOK, Slots, PollType, PollPc, IdlePoll, PollLeaseRow,
        LeasedRow, SetRow, Stray
    <2>2. TypeOK'
      BY <1>8, <2>1, ConstantsAssumption DEF TypeOK, Slots, KindTarget,
        TaskStatus, WaiterPc, Rows, RowStatus, StatusOf, InstanceStatus,
        FileStatus, TrashStatus, InstanceKinds, RowKinds, AllKinds,
        PollLeaseRow, LeasedRow, SetRow, Stray
    <2>3. KindTarget'
      BY <1>8 DEF KindTarget, PollLeaseRow
    <2>4. Slots'
      BY <1>8, ConstantsAssumption DEF TypeOK, PollType, Slots, IdlePoll,
        PollLeaseRow, LeasedRow, SetRow, Stray
    <2>5. QED BY <2>2, <2>3, <2>4
  <1> USE ConstantsAssumption DEF TypeOK, KindTarget, Slots, IdlePoll,
    IdleAgent, TaskStatus, InstanceStatus, FileStatus, TrashStatus,
    RowStatus, StatusOf, Rows, PollPc, PollType, WaiterPc, InstanceKinds,
    RowKinds, AllKinds
  <1>9. ASSUME NEW t \in Tasks, NEW k \in Kinds, NEW x \in Rows \cup {None},
    Admit(t, k, x)
       PROVE  TypeOK' /\ KindTarget' /\ Slots'
    BY <1>9 DEF Admit, KindFits
  <1>10. ASSUME NEW t \in Tasks, InsertTask(t)
       PROVE  TypeOK' /\ KindTarget' /\ Slots'
    BY <1>10 DEF InsertTask, SetRow, PendingStatus
  <1>11. ASSUME NEW t \in Tasks, SetCleanupPending(t)
       PROVE  TypeOK' /\ KindTarget' /\ Slots'
    BY <1>11 DEF SetCleanupPending, SetRow, Stray
  <1>12. ASSUME NEW t \in Tasks, WaiterRead(t)
       PROVE  TypeOK' /\ KindTarget' /\ Slots'
    BY <1>12 DEF WaiterRead, Open
  <1>13. ASSUME NEW t \in Tasks, WaiterMark(t)
       PROVE  TypeOK' /\ KindTarget' /\ Slots'
    BY <1>13 DEF WaiterMark, MarkTimedOut
  <1>14. ASSUME NEW t \in Tasks, WaiterFailRow(t)
       PROVE  TypeOK' /\ KindTarget' /\ Slots'
    BY <1>14 DEF WaiterFailRow, SetRow, TimeoutStatus
  <1>15. ASSUME NEW t \in Tasks, WaiterCut(t)
       PROVE  TypeOK' /\ KindTarget' /\ Slots'
    BY <1>15 DEF WaiterCut, Stray
  <1>16. ASSUME NEW x \in Trash, CleanupOffline(x)
       PROVE  TypeOK' /\ KindTarget' /\ Slots'
    BY <1>16 DEF CleanupOffline, SetRow
  <1>17. ASSUME NEW i \in Instances, CheckRead(i)
       PROVE  TypeOK' /\ KindTarget' /\ Slots'
    BY <1>17 DEF CheckRead
  <1>18. ASSUME NEW i \in Instances, CheckOffline(i)
       PROVE  TypeOK' /\ KindTarget' /\ Slots'
    BY <1>18 DEF CheckOffline, SetRow, Stray
  <1>19. ASSUME NEW i \in Instances, DeleteCheck(i)
       PROVE  TypeOK' /\ KindTarget' /\ Slots'
    BY <1>19 DEF DeleteCheck
  <1>20. ASSUME NEW i \in Instances, DeleteInstance(i)
       PROVE  TypeOK' /\ KindTarget' /\ Slots'
    BY <1>20 DEF DeleteInstance
  <1>21. ASSUME NEW x \in Trash, DeleteTrash(x)
       PROVE  TypeOK' /\ KindTarget' /\ Slots'
    BY <1>21 DEF DeleteTrash
  <1>22. ASSUME NEW p \in Polls, AgentPoll(p)
       PROVE  TypeOK' /\ KindTarget' /\ Slots'
    BY <1>22 DEF AgentPoll, StartSweep
  <1>23. ASSUME NEW p \in Polls, NEW files \in SUBSET Files, ListFiles(p,
    files)
       PROVE  TypeOK' /\ KindTarget' /\ Slots'
    BY <1>23 DEF ListFiles, StartSweep
  <1>24. ASSUME NEW p \in Polls, NEW t \in Tasks, NEW f \in Files,
    VerifyRequest(p, t, f)
       PROVE  TypeOK' /\ KindTarget' /\ Slots'
    BY <1>24 DEF VerifyRequest, StartSweep
  <1>25. ASSUME NEW p \in Polls, NEW t \in Tasks, VerifyReread(p, t)
       PROVE  TypeOK' /\ KindTarget' /\ Slots'
    BY <1>25 DEF VerifyReread, StartSweep
  <1>26. ASSUME NEW p \in Polls, SweepRow(p)
       PROVE  TypeOK' /\ KindTarget' /\ Slots'
    BY <1>26 DEF SweepRow, SetRow, TimeoutStatus
  <1>27. ASSUME NEW p \in Polls, SweepNotFound(p)
       PROVE  TypeOK' /\ KindTarget' /\ Slots'
    BY <1>27 DEF SweepNotFound, Failed
  <1>28. ASSUME NEW p \in Polls, PollReply(p)
       PROVE  TypeOK' /\ KindTarget' /\ Slots'
    BY <1>28 DEF PollReply
  <1>29. ASSUME NEW p \in Polls, PollCut(p)
       PROVE  TypeOK' /\ KindTarget' /\ Slots'
    BY <1>29 DEF PollCut, Failed, Stray
  <1>30. ASSUME NEW ok \in BOOLEAN, AgentFinish(ok)
       PROVE  TypeOK' /\ KindTarget' /\ Slots'
    BY <1>30 DEF AgentFinish
  <1>31. ASSUME AgentRestart
       PROVE  TypeOK' /\ KindTarget' /\ Slots'
    BY <1>31 DEF AgentRestart
  <1>32. ASSUME NEW m \in results, RecordResult(m)
       PROVE  TypeOK' /\ KindTarget' /\ Slots'
    BY <1>32 DEF RecordResult, SetRow, ResultStatus, ReportAnswered
  <1>33. ASSUME NEW m \in results, LoseResult(m)
       PROVE  TypeOK' /\ KindTarget' /\ Slots'
    BY <1>33 DEF LoseResult, ReportAnswered
  <1>34. ASSUME NEW reports \in Reports, Heartbeat(reports)
       PROVE  TypeOK' /\ KindTarget' /\ Slots'
    BY <1>34 DEF Heartbeat, Reconciled, Reports
  <1>35. ASSUME NEW t \in Tasks, Expire(t)
       PROVE  TypeOK' /\ KindTarget' /\ Slots'
    BY <1>35 DEF Expire, Open
  <1>36. ASSUME Tick
       PROVE  TypeOK' /\ KindTarget' /\ Slots'
    BY <1>36 DEF Tick
  <1> HIDE ConstantsAssumption DEF TypeOK, KindTarget, Slots, IdlePoll,
    IdleAgent, TaskStatus, InstanceStatus, FileStatus, TrashStatus,
    RowStatus, StatusOf, Rows, PollPc, PollType, WaiterPc, InstanceKinds,
    RowKinds, AllKinds
  <1>37. CASE UNCHANGED <<status, kind, target, created, overdue, clock, row,
    fileGone, verifyTask, deleting, checking, waiter, poll, agent, results,
    faults, handed, cut>>
    BY <1>37 DEF TypeOK, KindTarget, Slots
  <1>38. QED BY <1>1, <1>2, <1>3, <1>4, <1>5, <1>6, <1>7, <1>8, <1>9, <1>10,
    <1>11, <1>12, <1>13, <1>14, <1>15, <1>16, <1>17, <1>18, <1>19, <1>20,
    <1>21, <1>22, <1>23, <1>24, <1>25, <1>26, <1>27, <1>28, <1>29, <1>30,
    <1>31, <1>32, <1>33, <1>34, <1>35, <1>36, <1>37 DEF vars, Next, Requests,
    SweepStarts, PollSteps

\* Slots that serve a verification request.
LEMMA RequestersStep ==
  ASSUME TypeOK, Slots, Requesters, [Next]_vars
  PROVE  Requesters'
  <1>1. ASSUME NEW p \in Polls, NEW t \in Tasks, SweepTask(p, t)
       PROVE  Requesters'
    <2>1. \A q \in Polls : poll'[q].req = poll[q].req
      BY <1>1 DEF SweepTask, TypeOK, PollType
    <2>2. QED BY <2>1, <1>1 DEF SweepTask, Requesters
  <1>2. ASSUME NEW p \in Polls, PollSelect(p)
       PROVE  Requesters'
    <2>1. UNCHANGED <<kind, waiter>>
      BY <1>2 DEF PollSelect
    <2>2. QED BY <1>2, <2>1, SelectSlot DEF Requesters
  <1>3. ASSUME NEW p \in Polls, PollWake(p)
       PROVE  Requesters'
    <2>1. UNCHANGED <<kind, waiter>>
      BY <1>3 DEF PollWake
    <2>2. QED BY <1>3, <2>1, WakeSlot DEF Requesters
  <1> USE ConstantsAssumption DEF TypeOK, IdlePoll, IdleAgent, TaskStatus,
    PollPc, PollType, WaiterPc, Slots, Requesters
  <1>4. ASSUME NEW t \in Tasks, NEW k \in Kinds, NEW x \in Rows \cup {None},
    Admit(t, k, x)
       PROVE  Requesters'
    BY <1>4 DEF Admit, KindFits
  <1>5. ASSUME NEW t \in Tasks, InsertTask(t)
       PROVE  Requesters'
    BY <1>5 DEF InsertTask
  <1>6. ASSUME NEW t \in Tasks, SetCleanupPending(t)
       PROVE  Requesters'
    BY <1>6 DEF SetCleanupPending
  <1>7. ASSUME NEW t \in Tasks, WaiterRead(t)
       PROVE  Requesters'
    BY <1>7 DEF WaiterRead, Open
  <1>8. ASSUME NEW t \in Tasks, WaiterMark(t)
       PROVE  Requesters'
    BY <1>8 DEF WaiterMark, MarkTimedOut
  <1>9. ASSUME NEW t \in Tasks, WaiterFailRow(t)
       PROVE  Requesters'
    BY <1>9 DEF WaiterFailRow
  <1>10. ASSUME NEW t \in Tasks, WaiterCut(t)
       PROVE  Requesters'
    BY <1>10 DEF WaiterCut, Stray
  <1>11. ASSUME NEW p \in Polls, AgentPoll(p)
       PROVE  Requesters'
    BY <1>11 DEF AgentPoll, StartSweep
  <1>12. ASSUME NEW p \in Polls, NEW files \in SUBSET Files, ListFiles(p,
    files)
       PROVE  Requesters'
    BY <1>12 DEF ListFiles, StartSweep
  <1>13. ASSUME NEW p \in Polls, NEW t \in Tasks, NEW f \in Files,
    VerifyRequest(p, t, f)
       PROVE  Requesters'
    BY <1>13 DEF VerifyRequest, StartSweep
  <1>14. ASSUME NEW p \in Polls, NEW t \in Tasks, VerifyReread(p, t)
       PROVE  Requesters'
    BY <1>14 DEF VerifyReread, StartSweep
  <1>15. ASSUME NEW p \in Polls, SweepRow(p)
       PROVE  Requesters'
    BY <1>15 DEF SweepRow
  <1>16. ASSUME NEW p \in Polls, SweepNotFound(p)
       PROVE  Requesters'
    BY <1>16 DEF SweepNotFound, Failed
  <1>17. ASSUME NEW p \in Polls, SweepDone(p)
       PROVE  Requesters'
    BY <1>17 DEF SweepDone
  <1>18. ASSUME NEW p \in Polls, NEW f \in Files, FixFile(p, f)
       PROVE  Requesters'
    BY <1>18 DEF FixFile, SetRow
  <1>19. ASSUME NEW p \in Polls, FixDone(p)
       PROVE  Requesters'
    BY <1>19 DEF FixDone
  <1>20. ASSUME NEW p \in Polls, PollLease(p)
       PROVE  Requesters'
    BY <1>20 DEF PollLease
  <1>21. ASSUME NEW p \in Polls, PollLeaseRow(p)
       PROVE  Requesters'
    BY <1>21 DEF PollLeaseRow, LeasedRow, SetRow, Stray
  <1>22. ASSUME NEW p \in Polls, PollReply(p)
       PROVE  Requesters'
    BY <1>22 DEF PollReply
  <1>23. ASSUME NEW p \in Polls, PollCut(p)
       PROVE  Requesters'
    BY <1>23 DEF PollCut, Failed, Stray
  <1> HIDE ConstantsAssumption DEF TypeOK, IdlePoll, IdleAgent, TaskStatus,
    PollPc, PollType, WaiterPc, Slots, Requesters
  <1>24. CASE UNCHANGED <<kind, waiter, poll>>
    BY <1>24 DEF Requesters
  <1>25. QED BY <1>1, <1>2, <1>3, <1>4, <1>5, <1>6, <1>7, <1>8, <1>9, <1>10,
    <1>11, <1>12, <1>13, <1>14, <1>15, <1>16, <1>17, <1>18, <1>19, <1>20,
    <1>21, <1>22, <1>23, <1>24 DEF vars, Next, Requests, SweepStarts,
    PollSteps, CleanupOffline, CheckRead, CheckOffline, DeleteCheck,
    DeleteInstance, DeleteTrash, AgentFinish, AgentRestart, RecordResult,
    LoseResult, Heartbeat, Expire, Tick

\* The status a task has when a poll or the agent has it: a task is picked
\* while it is queued, and never queued again.
LEMMA ProgressStep ==
  ASSUME TypeOK, Slots, Progress, OneResult, ExecutedAtMostOnce, [Next]_vars
  PROVE  Progress' /\ ExecutedAtMostOnce'
  <1>1. ASSUME NEW p \in Polls, NEW t \in Tasks, SweepTask(p, t)
       PROVE  Progress' /\ ExecutedAtMostOnce'
    <2>1. /\ poll'[p].pc \in {"sweep", "sweep_row"}
          /\ \A q \in Polls \ {p} : poll'[q] = poll[q]
      BY <1>1 DEF SweepTask, TypeOK, PollType
    <2>2. MarkTimedOut(t) /\ UNCHANGED <<waiter, handed, agent>>
      BY <1>1 DEF SweepTask
    <2>3. \A u \in Tasks : \/ status'[u] = status[u]
                           \/ /\ status[u] \in {"queued", "running"}
                              /\ status'[u] = "timed_out"
      BY <2>2, TimedOutStatus
    <2>4. QED BY <2>1, <2>2, <2>3 DEF Progress, ExecutedAtMostOnce
  <1>2. ASSUME NEW p \in Polls, PollSelect(p)
       PROVE  Progress' /\ ExecutedAtMostOnce'
    <2>1. UNCHANGED <<status, waiter, agent, handed>>
      BY <1>2 DEF PollSelect
    <2>2. QED BY <1>2, <2>1, SelectSlot, ConstantsAssumption DEF Progress,
      ExecutedAtMostOnce, TypeOK
  <1>3. ASSUME NEW p \in Polls, PollWake(p)
       PROVE  Progress' /\ ExecutedAtMostOnce'
    <2>1. UNCHANGED <<status, waiter, agent, handed>>
      BY <1>3 DEF PollWake
    <2>2. QED BY <1>3, <2>1, WakeSlot, ConstantsAssumption DEF Progress,
      ExecutedAtMostOnce, TypeOK
  <1> USE ConstantsAssumption DEF TypeOK, IdlePoll, IdleAgent, TaskStatus,
    PollPc, PollType, WaiterPc, Slots, Progress, OneResult,
    ExecutedAtMostOnce
  <1>4. ASSUME NEW t \in Tasks, NEW k \in Kinds, NEW x \in Rows \cup {None},
    Admit(t, k, x)
       PROVE  Progress' /\ ExecutedAtMostOnce'
    BY <1>4 DEF Admit, KindFits
  <1>5. ASSUME NEW t \in Tasks, InsertTask(t)
       PROVE  Progress' /\ ExecutedAtMostOnce'
    BY <1>5 DEF InsertTask
  <1>6. ASSUME NEW t \in Tasks, SetCleanupPending(t)
       PROVE  Progress' /\ ExecutedAtMostOnce'
    BY <1>6 DEF SetCleanupPending
  <1>7. ASSUME NEW t \in Tasks, WaiterRead(t)
       PROVE  Progress' /\ ExecutedAtMostOnce'
    BY <1>7 DEF WaiterRead, Open
  <1>8. ASSUME NEW t \in Tasks, WaiterMark(t)
       PROVE  Progress' /\ ExecutedAtMostOnce'
    BY <1>8 DEF WaiterMark, MarkTimedOut
  <1>9. ASSUME NEW t \in Tasks, WaiterFailRow(t)
       PROVE  Progress' /\ ExecutedAtMostOnce'
    BY <1>9 DEF WaiterFailRow
  <1>10. ASSUME NEW t \in Tasks, WaiterCut(t)
       PROVE  Progress' /\ ExecutedAtMostOnce'
    BY <1>10 DEF WaiterCut, Stray
  <1>11. ASSUME NEW p \in Polls, AgentPoll(p)
       PROVE  Progress' /\ ExecutedAtMostOnce'
    BY <1>11 DEF AgentPoll, StartSweep
  <1>12. ASSUME NEW p \in Polls, NEW files \in SUBSET Files, ListFiles(p,
    files)
       PROVE  Progress' /\ ExecutedAtMostOnce'
    BY <1>12 DEF ListFiles, StartSweep
  <1>13. ASSUME NEW p \in Polls, NEW t \in Tasks, NEW f \in Files,
    VerifyRequest(p, t, f)
       PROVE  Progress' /\ ExecutedAtMostOnce'
    BY <1>13 DEF VerifyRequest, StartSweep
  <1>14. ASSUME NEW p \in Polls, NEW t \in Tasks, VerifyReread(p, t)
       PROVE  Progress' /\ ExecutedAtMostOnce'
    BY <1>14 DEF VerifyReread, StartSweep
  <1>15. ASSUME NEW p \in Polls, SweepRow(p)
       PROVE  Progress' /\ ExecutedAtMostOnce'
    BY <1>15 DEF SweepRow
  <1>16. ASSUME NEW p \in Polls, SweepNotFound(p)
       PROVE  Progress' /\ ExecutedAtMostOnce'
    BY <1>16 DEF SweepNotFound, Failed
  <1>17. ASSUME NEW p \in Polls, SweepDone(p)
       PROVE  Progress' /\ ExecutedAtMostOnce'
    BY <1>17 DEF SweepDone
  <1>18. ASSUME NEW p \in Polls, NEW f \in Files, FixFile(p, f)
       PROVE  Progress' /\ ExecutedAtMostOnce'
    BY <1>18 DEF FixFile, SetRow
  <1>19. ASSUME NEW p \in Polls, FixDone(p)
       PROVE  Progress' /\ ExecutedAtMostOnce'
    BY <1>19 DEF FixDone
  <1>20. ASSUME NEW p \in Polls, PollLease(p)
       PROVE  Progress' /\ ExecutedAtMostOnce'
    BY <1>20 DEF PollLease
  <1>21. ASSUME NEW p \in Polls, PollLeaseRow(p)
       PROVE  Progress' /\ ExecutedAtMostOnce'
    BY <1>21 DEF PollLeaseRow, LeasedRow, SetRow, Stray
  <1>22. ASSUME NEW p \in Polls, PollReply(p)
       PROVE  Progress' /\ ExecutedAtMostOnce'
    BY <1>22 DEF PollReply
  <1>23. ASSUME NEW p \in Polls, PollCut(p)
       PROVE  Progress' /\ ExecutedAtMostOnce'
    BY <1>23 DEF PollCut, Failed, Stray
  <1>24. ASSUME NEW ok \in BOOLEAN, AgentFinish(ok)
       PROVE  Progress' /\ ExecutedAtMostOnce'
    BY <1>24 DEF AgentFinish
  <1>25. ASSUME AgentRestart
       PROVE  Progress' /\ ExecutedAtMostOnce'
    BY <1>25 DEF AgentRestart
  <1>26. ASSUME NEW m \in results, RecordResult(m)
       PROVE  Progress' /\ ExecutedAtMostOnce'
    BY <1>26 DEF RecordResult, ReportAnswered
  <1>27. ASSUME NEW m \in results, LoseResult(m)
       PROVE  Progress' /\ ExecutedAtMostOnce'
    BY <1>27 DEF LoseResult, ReportAnswered
  <1> HIDE ConstantsAssumption DEF TypeOK, IdlePoll, IdleAgent, TaskStatus,
    PollPc, PollType, WaiterPc, Slots, Progress, OneResult,
    ExecutedAtMostOnce
  <1>28. CASE UNCHANGED <<status, waiter, poll, agent, handed>>
    BY <1>28 DEF Progress, ExecutedAtMostOnce
  <1>29. QED BY <1>1, <1>2, <1>3, <1>4, <1>5, <1>6, <1>7, <1>8, <1>9, <1>10,
    <1>11, <1>12, <1>13, <1>14, <1>15, <1>16, <1>17, <1>18, <1>19, <1>20,
    <1>21, <1>22, <1>23, <1>24, <1>25, <1>26, <1>27, <1>28 DEF vars, Next,
    Requests, SweepStarts, PollSteps, CleanupOffline, CheckRead,
    CheckOffline, DeleteCheck, DeleteInstance, DeleteTrash, Heartbeat,
    Expire, Tick

\* Only tasks that were inserted are swept.
LEMMA DueStep ==
  ASSUME TypeOK, Slots, Progress, OneResult, DueTasks, [Next]_vars
  PROVE  DueTasks'
  <1>1. ASSUME NEW p \in Polls, PollSelect(p)
       PROVE  DueTasks'
    <2>1. UNCHANGED <<status, overdue>>
      BY <1>1 DEF PollSelect
    <2>2. QED BY <1>1, <2>1, SelectSlot DEF DueTasks
  <1>2. ASSUME NEW p \in Polls, PollWake(p)
       PROVE  DueTasks'
    <2>1. UNCHANGED <<status, overdue>>
      BY <1>2 DEF PollWake
    <2>2. QED BY <1>2, <2>1, WakeSlot DEF DueTasks
  <1> USE ConstantsAssumption DEF TypeOK, IdlePoll, IdleAgent, TaskStatus,
    PollPc, PollType, WaiterPc, Slots, Progress, DueTasks
  <1>3. ASSUME NEW t \in Tasks, InsertTask(t)
       PROVE  DueTasks'
    BY <1>3 DEF InsertTask
  <1>4. ASSUME NEW t \in Tasks, WaiterMark(t)
       PROVE  DueTasks'
    BY <1>4 DEF WaiterMark, MarkTimedOut
  <1>5. ASSUME NEW p \in Polls, AgentPoll(p)
       PROVE  DueTasks'
    BY <1>5 DEF AgentPoll, StartSweep
  <1>6. ASSUME NEW p \in Polls, NEW files \in SUBSET Files, ListFiles(p,
    files)
       PROVE  DueTasks'
    BY <1>6 DEF ListFiles, StartSweep
  <1>7. ASSUME NEW p \in Polls, NEW t \in Tasks, NEW f \in Files,
    VerifyRequest(p, t, f)
       PROVE  DueTasks'
    BY <1>7 DEF VerifyRequest, StartSweep
  <1>8. ASSUME NEW p \in Polls, NEW t \in Tasks, VerifyReread(p, t)
       PROVE  DueTasks'
    BY <1>8 DEF VerifyReread, StartSweep
  <1>9. ASSUME NEW p \in Polls, NEW t \in Tasks, SweepTask(p, t)
       PROVE  DueTasks'
    BY <1>9 DEF SweepTask, MarkTimedOut
  <1>10. ASSUME NEW p \in Polls, SweepRow(p)
       PROVE  DueTasks'
    BY <1>10 DEF SweepRow
  <1>11. ASSUME NEW p \in Polls, SweepNotFound(p)
       PROVE  DueTasks'
    BY <1>11 DEF SweepNotFound, Failed
  <1>12. ASSUME NEW p \in Polls, SweepDone(p)
       PROVE  DueTasks'
    BY <1>12 DEF SweepDone
  <1>13. ASSUME NEW p \in Polls, NEW f \in Files, FixFile(p, f)
       PROVE  DueTasks'
    BY <1>13 DEF FixFile, SetRow
  <1>14. ASSUME NEW p \in Polls, FixDone(p)
       PROVE  DueTasks'
    BY <1>14 DEF FixDone
  <1>15. ASSUME NEW p \in Polls, PollLease(p)
       PROVE  DueTasks'
    BY <1>15 DEF PollLease
  <1>16. ASSUME NEW p \in Polls, PollLeaseRow(p)
       PROVE  DueTasks'
    BY <1>16 DEF PollLeaseRow, LeasedRow, SetRow, Stray
  <1>17. ASSUME NEW p \in Polls, PollReply(p)
       PROVE  DueTasks'
    BY <1>17 DEF PollReply
  <1>18. ASSUME NEW p \in Polls, PollCut(p)
       PROVE  DueTasks'
    BY <1>18 DEF PollCut, Failed, Stray
  <1>19. ASSUME NEW m \in results, RecordResult(m)
       PROVE  DueTasks'
    BY <1>19 DEF RecordResult, ReportAnswered
  <1>20. ASSUME NEW t \in Tasks, Expire(t)
       PROVE  DueTasks'
    BY <1>20 DEF Expire, Open
  <1> HIDE ConstantsAssumption DEF TypeOK, IdlePoll, IdleAgent, TaskStatus,
    PollPc, PollType, WaiterPc, Slots, Progress, DueTasks
  <1>21. CASE UNCHANGED <<status, overdue, poll>>
    BY <1>21 DEF DueTasks
  <1>22. QED BY <1>1, <1>2, <1>3, <1>4, <1>5, <1>6, <1>7, <1>8, <1>9, <1>10,
    <1>11, <1>12, <1>13, <1>14, <1>15, <1>16, <1>17, <1>18, <1>19, <1>20,
    <1>21 DEF vars, Next, Requests, SweepStarts, PollSteps, Admit,
    SetCleanupPending, WaiterRead, WaiterFailRow, WaiterCut, CleanupOffline,
    CheckRead, CheckOffline, DeleteCheck, DeleteInstance, DeleteTrash,
    AgentFinish, AgentRestart, LoseResult, Heartbeat, Tick

\* Results: one per task, from an agent that had it.
LEMMA ResultStep ==
  ASSUME TypeOK, Slots, Progress, ExecutedAtMostOnce, OneResult,
         ResultOnlyIfHanded, [Next]_vars
  PROVE  OneResult' /\ ResultOnlyIfHanded'
  <1> USE DEF TypeOK, IdlePoll, IdleAgent, TaskStatus, PollPc, PollType,
    WaiterPc, Slots, Progress, ExecutedAtMostOnce, OneResult,
    ResultOnlyIfHanded, Finished
  <1>1. ASSUME NEW t \in Tasks, InsertTask(t)
       PROVE  OneResult' /\ ResultOnlyIfHanded'
    BY <1>1 DEF InsertTask
  <1>2. ASSUME NEW t \in Tasks, WaiterMark(t)
       PROVE  OneResult' /\ ResultOnlyIfHanded'
    BY <1>2 DEF WaiterMark, MarkTimedOut
  <1>3. ASSUME NEW p \in Polls, AgentPoll(p)
       PROVE  OneResult' /\ ResultOnlyIfHanded'
    BY <1>3 DEF AgentPoll, StartSweep
  <1>4. ASSUME NEW p \in Polls, NEW t \in Tasks, SweepTask(p, t)
       PROVE  OneResult' /\ ResultOnlyIfHanded'
    BY <1>4 DEF SweepTask, MarkTimedOut
  <1>5. ASSUME NEW p \in Polls, SweepNotFound(p)
       PROVE  OneResult' /\ ResultOnlyIfHanded'
    BY <1>5 DEF SweepNotFound, Failed
  <1>6. ASSUME NEW p \in Polls, PollLease(p)
       PROVE  OneResult' /\ ResultOnlyIfHanded'
    BY <1>6 DEF PollLease
  <1>7. ASSUME NEW p \in Polls, PollReply(p)
       PROVE  OneResult' /\ ResultOnlyIfHanded'
    BY <1>7 DEF PollReply
  <1>8. ASSUME NEW p \in Polls, PollCut(p)
       PROVE  OneResult' /\ ResultOnlyIfHanded'
    BY <1>8 DEF PollCut, Failed, Stray
  <1>9. ASSUME NEW ok \in BOOLEAN, AgentFinish(ok)
       PROVE  OneResult' /\ ResultOnlyIfHanded'
    BY <1>9 DEF AgentFinish
  <1>10. ASSUME AgentRestart
       PROVE  OneResult' /\ ResultOnlyIfHanded'
    BY <1>10 DEF AgentRestart
  <1>11. ASSUME NEW m \in results, RecordResult(m)
       PROVE  OneResult' /\ ResultOnlyIfHanded'
    BY <1>11 DEF RecordResult, ReportAnswered
  <1>12. ASSUME NEW m \in results, LoseResult(m)
       PROVE  OneResult' /\ ResultOnlyIfHanded'
    BY <1>12 DEF LoseResult, ReportAnswered
  <1> HIDE DEF TypeOK, IdlePoll, IdleAgent, TaskStatus, PollPc, PollType,
    WaiterPc, Slots, Progress, ExecutedAtMostOnce, OneResult,
    ResultOnlyIfHanded, Finished
  <1>13. CASE UNCHANGED <<status, agent, results, handed>>
    <2>1. OneResult'
      BY <1>13 DEF OneResult, Finished
    <2>2. ResultOnlyIfHanded'
      BY <1>13 DEF ResultOnlyIfHanded
    <2>3. QED BY <2>1, <2>2
  <1>14. QED BY <1>1, <1>2, <1>3, <1>4, <1>5, <1>6, <1>7, <1>8, <1>9, <1>10,
    <1>11, <1>12, <1>13 DEF vars, Next, Requests, SweepStarts, PollSteps,
    Admit, SetCleanupPending, WaiterRead, WaiterFailRow, WaiterCut,
    CleanupOffline, CheckRead, CheckOffline, DeleteCheck, DeleteInstance,
    DeleteTrash, ListFiles, VerifyRequest, VerifyReread, SweepRow, SweepDone,
    FixFile, FixDone, PollSelect, PollWake, PollLeaseRow, Heartbeat, Expire,
    Tick

\* Without faults there is one poll.
LEMMA LoneStep ==
  ASSUME TypeOK, Slots, LonePoll, [Next]_vars
  PROVE  LonePoll'
  <1> USE ConstantsAssumption DEF TypeOK, IdlePoll, IdleAgent, TaskStatus,
    PollPc, PollType, WaiterPc, Slots, LonePoll
  <1>1. ASSUME NEW p \in Polls, AgentPoll(p)
       PROVE  LonePoll'
    BY <1>1 DEF AgentPoll, StartSweep
  <1>2. ASSUME NEW p \in Polls, NEW files \in SUBSET Files, ListFiles(p,
    files)
       PROVE  LonePoll'
    BY <1>2 DEF ListFiles, StartSweep
  <1>3. ASSUME NEW p \in Polls, NEW t \in Tasks, NEW f \in Files,
    VerifyRequest(p, t, f)
       PROVE  LonePoll'
    BY <1>3 DEF VerifyRequest, StartSweep
  <1>4. ASSUME NEW p \in Polls, NEW t \in Tasks, VerifyReread(p, t)
       PROVE  LonePoll'
    BY <1>4 DEF VerifyReread, StartSweep
  <1>5. ASSUME NEW p \in Polls, NEW t \in Tasks, SweepTask(p, t)
       PROVE  LonePoll'
    BY <1>5 DEF SweepTask, MarkTimedOut
  <1>6. ASSUME NEW p \in Polls, SweepRow(p)
       PROVE  LonePoll'
    BY <1>6 DEF SweepRow
  <1>7. ASSUME NEW p \in Polls, SweepNotFound(p)
       PROVE  LonePoll'
    BY <1>7 DEF SweepNotFound, Failed
  <1>8. ASSUME NEW p \in Polls, SweepDone(p)
       PROVE  LonePoll'
    BY <1>8 DEF SweepDone
  <1>9. ASSUME NEW p \in Polls, NEW f \in Files, FixFile(p, f)
       PROVE  LonePoll'
    BY <1>9 DEF FixFile, SetRow
  <1>10. ASSUME NEW p \in Polls, FixDone(p)
       PROVE  LonePoll'
    BY <1>10 DEF FixDone
  <1>11. ASSUME NEW p \in Polls, PollSelect(p)
       PROVE  LonePoll'
    BY <1>11 DEF PollSelect, NextQueued
  <1>12. ASSUME NEW p \in Polls, PollWake(p)
       PROVE  LonePoll'
    BY <1>12 DEF PollWake
  <1>13. ASSUME NEW p \in Polls, PollLease(p)
       PROVE  LonePoll'
    BY <1>13 DEF PollLease
  <1>14. ASSUME NEW p \in Polls, PollLeaseRow(p)
       PROVE  LonePoll'
    BY <1>14 DEF PollLeaseRow, LeasedRow, SetRow, Stray
  <1>15. ASSUME NEW p \in Polls, PollReply(p)
       PROVE  LonePoll'
    BY <1>15 DEF PollReply
  <1>16. ASSUME NEW p \in Polls, PollCut(p)
       PROVE  LonePoll'
    BY <1>16 DEF PollCut, Failed, Stray
  <1>17. ASSUME NEW ok \in BOOLEAN, AgentFinish(ok)
       PROVE  LonePoll'
    BY <1>17 DEF AgentFinish
  <1>18. ASSUME AgentRestart
       PROVE  LonePoll'
    BY <1>18 DEF AgentRestart
  <1>19. ASSUME NEW m \in results, RecordResult(m)
       PROVE  LonePoll'
    BY <1>19 DEF RecordResult, ReportAnswered
  <1>20. ASSUME NEW m \in results, LoseResult(m)
       PROVE  LonePoll'
    BY <1>20 DEF LoseResult, ReportAnswered
  <1> HIDE ConstantsAssumption DEF TypeOK, IdlePoll, IdleAgent, TaskStatus,
    PollPc, PollType, WaiterPc, Slots, LonePoll
  <1>21. CASE UNCHANGED <<poll, agent, faults>>
    BY <1>21 DEF LonePoll
  <1>22. QED BY <1>1, <1>2, <1>3, <1>4, <1>5, <1>6, <1>7, <1>8, <1>9, <1>10,
    <1>11, <1>12, <1>13, <1>14, <1>15, <1>16, <1>17, <1>18, <1>19, <1>20,
    <1>21 DEF vars, Next, Requests, SweepStarts, PollSteps, Admit,
    InsertTask, SetCleanupPending, WaiterRead, WaiterMark, WaiterFailRow,
    WaiterCut, CleanupOffline, CheckRead, CheckOffline, DeleteCheck,
    DeleteInstance, DeleteTrash, Heartbeat, Expire, Tick

\* Rows that wait have an owner.  A step that closes a task either settles
\* its row at once (a result) or leaves whoever closed it about to do so.
LEMMA OwnerStep ==
  ASSUME TypeOK, KindTarget, Slots, Requesters, Progress, DueTasks,
         PendingHasOwner, [Next]_vars
  PROVE  PendingHasOwner'
  <1>1. ASSUME NEW p \in Polls, NEW t \in Tasks, NEW f \in Files,
    VerifyRequest(p, t, f)
       PROVE  PendingHasOwner'
    <2>1. /\ UNCHANGED <<status, row, cut>>
          /\ \A u \in Tasks \ {t} : target'[u] = target[u] /\ waiter'[u] = waiter[u]
          /\ \A q \in Polls \ {p} : poll'[q] = poll[q]
          /\ poll[p].pc = "idle" /\ poll'[p].pc = "sweep" /\ waiter[t] = "none"
      BY <1>1 DEF VerifyRequest, StartSweep, TypeOK
    <2>2. \A x \in Rows : ~ Owns(t, x)
      BY <2>1, <1>1 DEF Owns, Open, Progress, DueTasks
    <2>3. QED BY <2>1, <2>2 DEF PendingHasOwner, Pending, Owns, Open
  <1>2. ASSUME NEW p \in Polls, NEW t \in Tasks, SweepTask(p, t)
       PROVE  PendingHasOwner'
    <2>1. /\ kind[t] # "query" => poll'[p].pc = "sweep_row" /\ poll'[p].task = t
          /\ poll[p].pc = "sweep"
          /\ \A q \in Polls \ {p} : poll'[q] = poll[q]
      BY <1>2 DEF SweepTask, TypeOK, PollType
    <2>2. MarkTimedOut(t) /\ UNCHANGED <<row, target, waiter, cut>>
      BY <1>2 DEF SweepTask
    <2>3. \A u \in Tasks : u # t => status'[u] = status[u]
      BY <2>2, TimedOutStatus
    <2>4. kind[t] = "query" => target[t] \notin Rows
      BY ConstantsAssumption DEF KindTarget, RowKinds, InstanceKinds
    <2>5. QED BY <2>1, <2>2, <2>3, <2>4 DEF PendingHasOwner, Pending, Owns,
      Open
  <1>3. ASSUME NEW p \in Polls, SweepRow(p)
       PROVE  PendingHasOwner'
    <2>1. /\ poll[p].pc = "sweep_row" /\ UNCHANGED <<target, waiter, cut, status>>
          /\ \A q \in Polls \ {p} : poll'[q] = poll[q]
      BY <1>3 DEF SweepRow, TypeOK
    <2>2. LET t == poll[p].task
          IN /\ \A x \in Rows \ {target[t]} : row'[x] = row[x]
             /\ target[t] \in Rows =>
                  row'[target[t]] \in {"deleted", TimeoutStatus(kind[t])}
      BY <1>3 DEF SweepRow, SetRow, TypeOK
    <2>3. TimeoutStatus(kind[poll[p].task])
            \in {"failed", "verify_timeout", "cleanup_timeout"}
      BY DEF TimeoutStatus
    <2>4. QED BY <2>1, <2>2, <2>3 DEF PendingHasOwner, Pending, Owns, Open
  <1>4. ASSUME NEW p \in Polls, SweepNotFound(p)
       PROVE  PendingHasOwner'
    <2>1. /\ poll[p].pc = "sweep_row" /\ row[target[poll[p].task]] = "deleted"
          /\ UNCHANGED <<row, target, cut, status>>
          /\ \A q \in Polls \ {p} : poll'[q] = poll[q]
      BY <1>4 DEF SweepNotFound, Failed, TypeOK
    <2>2. \A u \in Tasks : waiter[u] = "marked" => waiter'[u] = "marked"
      BY <1>4 DEF SweepNotFound, Failed, Requesters, TypeOK, PollType
    <2>3. QED BY <2>1, <2>2 DEF PendingHasOwner, Pending, Owns, Open
  <1>5. ASSUME NEW p \in Polls, SweepDone(p)
       PROVE  PendingHasOwner'
    <2>1. /\ poll[p].pc = "sweep" /\ UNCHANGED <<row, target, waiter, cut, status>>
          /\ \A q \in Polls \ {p} : poll'[q] = poll[q]
      BY <1>5 DEF SweepDone, TypeOK, PollType
    <2>2. QED BY <2>1 DEF PendingHasOwner, Pending, Owns, Open
  <1>6. ASSUME NEW p \in Polls, FixDone(p)
       PROVE  PendingHasOwner'
    <2>1. /\ poll[p].pc = "fix" /\ UNCHANGED <<row, target, cut, status>>
          /\ \A q \in Polls \ {p} : poll'[q] = poll[q]
      BY <1>6 DEF FixDone, TypeOK, PollType
    <2>2. \A u \in Tasks : waiter[u] = "marked" => waiter'[u] = "marked"
      BY <1>6 DEF FixDone, Requesters, TypeOK, PollType
    <2>3. QED BY <2>1, <2>2 DEF PendingHasOwner, Pending, Owns, Open
  <1>7. ASSUME NEW p \in Polls, PollSelect(p)
       PROVE  PendingHasOwner'
    <2>1. UNCHANGED <<status, target, row, waiter, cut>>
      BY <1>7 DEF PollSelect
    <2>2. QED BY <1>7, <2>1, SelectSlot DEF PendingHasOwner, Pending, Owns,
      Open
  <1>8. ASSUME NEW p \in Polls, PollWake(p)
       PROVE  PendingHasOwner'
    <2>1. UNCHANGED <<status, target, row, waiter, cut>>
      BY <1>8 DEF PollWake
    <2>2. QED BY <1>8, <2>1, WakeSlot DEF PendingHasOwner, Pending, Owns, Open
  <1>9. ASSUME NEW p \in Polls, PollCut(p)
       PROVE  PendingHasOwner'
    <2>1. /\ cut \subseteq cut' /\ UNCHANGED <<row, target, status>>
          /\ poll[p].pc = "sweep_row"
               => {target[poll[p].task]} \cap Rows \subseteq cut'
          /\ \A q \in Polls \ {p} : poll'[q] = poll[q]
      BY <1>9 DEF PollCut, Failed, Stray, TypeOK
    <2>2. \A u \in Tasks : waiter[u] = "marked" => waiter'[u] = "marked"
      BY <1>9 DEF PollCut, Failed, Requesters, TypeOK, PollType
    <2>3. QED BY <2>1, <2>2 DEF PendingHasOwner, Pending, Owns, Open
  <1> USE ConstantsAssumption DEF TypeOK, IdlePoll, IdleAgent, TaskStatus,
    PollPc, PollType, WaiterPc, KindTarget, Slots, Requesters, Progress,
    DueTasks, PendingHasOwner, Pending, Owns, Open, Rows, RowStatus,
    StatusOf, InstanceStatus, FileStatus, TrashStatus, InstanceKinds,
    RowKinds
  <1>10. ASSUME NEW t \in Tasks, NEW k \in Kinds, NEW x \in Rows \cup {None},
    Admit(t, k, x)
       PROVE  PendingHasOwner'
    BY <1>10 DEF Admit, KindFits
  <1>11. ASSUME NEW t \in Tasks, InsertTask(t)
       PROVE  PendingHasOwner'
    BY <1>11 DEF InsertTask, SetRow, PendingStatus
  <1>12. ASSUME NEW t \in Tasks, SetCleanupPending(t)
       PROVE  PendingHasOwner'
    BY <1>12 DEF SetCleanupPending, SetRow, Stray
  <1>13. ASSUME NEW t \in Tasks, WaiterRead(t)
       PROVE  PendingHasOwner'
    BY <1>13 DEF WaiterRead
  <1>14. ASSUME NEW t \in Tasks, WaiterMark(t)
       PROVE  PendingHasOwner'
    BY <1>14 DEF WaiterMark, MarkTimedOut
  <1>15. ASSUME NEW t \in Tasks, WaiterFailRow(t)
       PROVE  PendingHasOwner'
    BY <1>15 DEF WaiterFailRow, SetRow, TimeoutStatus
  <1>16. ASSUME NEW t \in Tasks, WaiterCut(t)
       PROVE  PendingHasOwner'
    BY <1>16 DEF WaiterCut, Stray
  <1>17. ASSUME NEW x \in Trash, CleanupOffline(x)
       PROVE  PendingHasOwner'
    BY <1>17 DEF CleanupOffline, SetRow
  <1>18. ASSUME NEW i \in Instances, CheckOffline(i)
       PROVE  PendingHasOwner'
    BY <1>18 DEF CheckOffline, SetRow, Stray
  <1>19. ASSUME NEW i \in Instances, DeleteInstance(i)
       PROVE  PendingHasOwner'
    BY <1>19 DEF DeleteInstance
  <1>20. ASSUME NEW x \in Trash, DeleteTrash(x)
       PROVE  PendingHasOwner'
    BY <1>20 DEF DeleteTrash
  <1>21. ASSUME NEW p \in Polls, AgentPoll(p)
       PROVE  PendingHasOwner'
    BY <1>21 DEF AgentPoll, StartSweep
  <1>22. ASSUME NEW p \in Polls, NEW files \in SUBSET Files, ListFiles(p,
    files)
       PROVE  PendingHasOwner'
    BY <1>22 DEF ListFiles, StartSweep
  <1>23. ASSUME NEW p \in Polls, NEW t \in Tasks, VerifyReread(p, t)
       PROVE  PendingHasOwner'
    BY <1>23 DEF VerifyReread, StartSweep
  <1>24. ASSUME NEW p \in Polls, NEW f \in Files, FixFile(p, f)
       PROVE  PendingHasOwner'
    BY <1>24 DEF FixFile, SetRow
  <1>25. ASSUME NEW p \in Polls, PollLease(p)
       PROVE  PendingHasOwner'
    BY <1>25 DEF PollLease
  <1>26. ASSUME NEW p \in Polls, PollLeaseRow(p)
       PROVE  PendingHasOwner'
    BY <1>26 DEF PollLeaseRow, LeasedRow, SetRow, Stray
  <1>27. ASSUME NEW p \in Polls, PollReply(p)
       PROVE  PendingHasOwner'
    BY <1>27 DEF PollReply
  <1>28. ASSUME NEW m \in results, RecordResult(m)
       PROVE  PendingHasOwner'
    BY <1>28 DEF RecordResult, SetRow, ResultStatus, ReportAnswered
  <1>29. ASSUME NEW reports \in Reports, Heartbeat(reports)
       PROVE  PendingHasOwner'
    BY <1>29 DEF Heartbeat, Reconciled, Reports
  <1> HIDE ConstantsAssumption DEF TypeOK, IdlePoll, IdleAgent, TaskStatus,
    PollPc, PollType, WaiterPc, KindTarget, Slots, Requesters, Progress,
    DueTasks, PendingHasOwner, Pending, Owns, Open, Rows, RowStatus,
    StatusOf, InstanceStatus, FileStatus, TrashStatus, InstanceKinds,
    RowKinds
  <1>30. CASE UNCHANGED <<status, target, row, waiter, poll, cut>>
    BY <1>30 DEF PendingHasOwner, Pending, Owns, Open
  <1>31. QED BY <1>1, <1>2, <1>3, <1>4, <1>5, <1>6, <1>7, <1>8, <1>9, <1>10,
    <1>11, <1>12, <1>13, <1>14, <1>15, <1>16, <1>17, <1>18, <1>19, <1>20,
    <1>21, <1>22, <1>23, <1>24, <1>25, <1>26, <1>27, <1>28, <1>29, <1>30 DEF
    vars, Next, Requests, SweepStarts, PollSteps, CheckRead, DeleteCheck,
    AgentFinish, AgentRestart, LoseResult, Expire, Tick

\* The initial state: no task, no request, every row at rest.
LEMMA InitInv == Init => Inv
  <1> SUFFICES ASSUME Init PROVE Inv
    OBVIOUS
  <1>1. TypeOK
    BY ConstantsAssumption
       DEF Init, TypeOK, IdlePoll, IdleAgent, TaskStatus, InstanceStatus,
           FileStatus, TrashStatus, RowStatus, StatusOf, Rows, PollPc, PollType,
           WaiterPc
  <1>2. KindTarget /\ Slots
    BY ConstantsAssumption
       DEF Init, KindTarget, Slots, IdlePoll, IdleAgent, InstanceKinds, RowKinds,
           AllKinds
  <1>3. Requesters /\ Progress /\ DueTasks
    BY ConstantsAssumption
       DEF Init, Requesters, Progress, DueTasks, IdlePoll, IdleAgent
  <1>4. OneResult /\ LonePoll /\ ExecutedAtMostOnce /\ ResultOnlyIfHanded
    BY DEF Init, OneResult, LonePoll, ExecutedAtMostOnce, ResultOnlyIfHanded,
           Finished, IdlePoll, IdleAgent
  <1>5. PendingHasOwner
    BY DEF Init, PendingHasOwner, Pending, Rows
  <1>6. QED BY <1>1, <1>2, <1>3, <1>4, <1>5 DEF Inv

LEMMA NextInv == Inv /\ [Next]_vars => Inv'
  BY TypeStep, RequestersStep, ProgressStep, DueStep, ResultStep, LoneStep,
     OwnerStep DEF Inv

\* The inductive invariant holds in every reachable state.
THEOREM Invariance == Spec => []Inv
  BY InitInv, NextInv, PTL DEF Spec

\* Every column of agent_tasks and of the rows, every handler and every
\* message keeps its type; an instance never gets the status of a file.
THEOREM TypeCorrect == Spec => []TypeOK
  <1>1. Inv => TypeOK
    BY DEF Inv
  <1>2. QED BY <1>1, Invariance, PTL

\* However polls, timeouts, restarts and results interleave, the agent gets
\* no task twice.
THEOREM AtMostOnce == Spec => []ExecutedAtMostOnce
  <1>1. Inv => ExecutedAtMostOnce
    BY DEF Inv
  <1>2. QED BY <1>1, Invariance, PTL

\* A task is closed by a result only if the agent had it.
THEOREM ResultsAreOfHandedTasks == Spec => []ResultOnlyIfHanded
  <1>1. Inv => ResultOnlyIfHanded
    BY DEF Inv
  <1>2. QED BY <1>1, Invariance, PTL

\* A row that waits for the agent has a task behind it, up to cut handlers.
THEOREM NoStrandedRow == Spec => []PendingHasOwner
  <1>1. Inv => PendingHasOwner
    BY DEF Inv
  <1>2. QED BY <1>1, Invariance, PTL

\* The statements that write agent_tasks.status.
LEMMA StatusWriters ==
  ASSUME Next
  PROVE  \/ UNCHANGED status
         \/ \E t \in Tasks : InsertTask(t) \/ MarkTimedOut(t)
         \/ \E p \in Polls : PollLease(p)
         \/ \E m \in results : RecordResult(m)
  <1>1. ASSUME Requests
        PROVE  \/ UNCHANGED status
               \/ \E t \in Tasks : InsertTask(t) \/ MarkTimedOut(t)
    BY <1>1 DEF Requests, Admit, SetCleanupPending, WaiterRead, WaiterMark,
                WaiterFailRow, WaiterCut, CleanupOffline, CheckRead,
                CheckOffline, DeleteCheck, DeleteInstance, DeleteTrash
  <1>2. ASSUME NEW p \in Polls, SweepStarts(p)
        PROVE  UNCHANGED status
    BY <1>2 DEF SweepStarts, AgentPoll, ListFiles, VerifyRequest, VerifyReread
  <1>3. ASSUME NEW p \in Polls, PollSteps(p)
        PROVE  \/ UNCHANGED status
               \/ \E t \in Tasks : MarkTimedOut(t)
               \/ PollLease(p)
    BY <1>3 DEF PollSteps, SweepTask, SweepRow, SweepNotFound, SweepDone,
                FixFile, FixDone, PollSelect, PollWake, PollLeaseRow, PollReply
  <1>4. ASSUME NEW p \in Polls, PollCut(p)
        PROVE  UNCHANGED status
    BY <1>4 DEF PollCut
  <1>5. ASSUME \/ \E ok \in BOOLEAN : AgentFinish(ok)
               \/ AgentRestart
               \/ \E m \in results : LoseResult(m)
               \/ \E reports \in Reports : Heartbeat(reports)
               \/ \E t \in Tasks : Expire(t)
               \/ Tick
        PROVE  UNCHANGED status
    BY <1>5 DEF AgentFinish, AgentRestart, LoseResult, Heartbeat, Expire, Tick
  <1>6. QED BY <1>1, <1>2, <1>3, <1>4, <1>5 DEF Next

\* Until the first fault, the outcome of a task is final.  Only a lease, a
\* timeout and a result write the status of a task that exists: the lease is
\* of a task that was never handed over, hence not of a finished one; the
\* timeout is guarded; a second result does not exist.
THEOREM OutcomeIsFinal == Spec => FinishedStays
  <1>1. ASSUME Inv, Next, faults = 0, NEW t \in Tasks,
               status[t] \in {"succeeded", "failed"}
        PROVE  status'[t] = status[t]
    <2>1. ASSUME NEW u \in Tasks, InsertTask(u) PROVE status'[t] = status[t]
      BY <1>1, <2>1 DEF Inv, Progress, TypeOK, InsertTask
    <2>2. ASSUME NEW u \in Tasks, MarkTimedOut(u) PROVE status'[t] = status[t]
      BY <1>1, <2>2 DEF Inv, TypeOK, MarkTimedOut
    <2>3. ASSUME NEW p \in Polls, PollLease(p) PROVE status'[t] = status[t]
      <3>1. poll[p].task \in Tasks /\ handed[poll[p].task] = 0
        <4>1. ~ poll[p].api => agent.poll = p
          BY <1>1, <2>3 DEF Inv, LonePoll, PollLease
        <4>2. ~ poll[p].api
          BY <1>1, <2>3 DEF Inv, Slots, PollLease
        <4>3. QED BY <1>1, <2>3, <4>1, <4>2 DEF Inv, Slots, Progress, PollLease
      <3>2. poll[p].task # t
        BY <1>1, <3>1 DEF Inv, ResultOnlyIfHanded
      <3>3. QED BY <1>1, <2>3, <3>2 DEF Inv, TypeOK, PollLease
    <2>4. ASSUME NEW m \in results, RecordResult(m)
          PROVE  status'[t] = status[t]
      <3>1. m.task # t
        BY <1>1 DEF Inv, OneResult, Finished
      <3>2. QED BY <1>1, <2>4, <3>1 DEF Inv, TypeOK, RecordResult
    <2>5. QED BY <1>1, <2>1, <2>2, <2>3, <2>4, StatusWriters
  <1>2. Inv /\ [Next]_vars =>
          [\A t \in Tasks : faults = 0 /\ status[t] \in {"succeeded", "failed"}
                              => status'[t] = status[t]]_vars
    BY <1>1
  <1>3. QED BY <1>2, Invariance, PTL DEF Spec, FinishedStays

=============================================================================
