----------------------- MODULE ManagedProcessProofs -----------------------
(***************************************************************************)
(* Proofs about ManagedProcess: until the first fault no live process of a *)
(* binary escapes the agent, a stopped instance is dead, and no start      *)
(* displaces the handle of a live process.  All rest on one inductive      *)
(* invariant, Inv.                                                         *)
(***************************************************************************)
EXTENDS ManagedProcess, TLAPS

\* The empty record list is a record list that names nothing.
LEMMA NoRecordsType == /\ NoRecords \in Records
                       /\ \A i \in Instances : NoRecords[i] = None
  BY DEF NoRecords, Records

\* The initial state satisfies the invariant.
LEMMA InitInv == Init => Inv
<1> SUFFICES ASSUME Init PROVE Inv
  OBVIOUS
<1> USE NoRecordsType, ConstantsAssumption DEF Init
<1>1. TypeOK
  BY DEF TypeOK, ProcState, TaskPc, IdleTask, IdleHb
<1>2. TaskShape
  BY DEF TaskShape, IdleTask
<1>3. Owners
  BY DEF Owners, OwnerOf, IdleTask, IdleHb
<1>4. HeldServes
  BY DEF HeldServes, Binaries, IdleTask
<1>5. TaskAlone
  BY DEF TaskAlone, IdleTask
<1>6. LiveIsHeld
  BY DEF LiveIsHeld, Alive
<1>7. StoppedIsDead
  BY DEF StoppedIsDead, Alive
<1> QED
  BY <1>1, <1>2, <1>3, <1>4, <1>5, <1>6, <1>7 DEF Inv

\* Start preserves the invariant.
LEMMA StartInv ==
  ASSUME Inv, NEW i \in Instances, Start(i)
  PROVE  Inv'
<1> USE NoRecordsType, ConstantsAssumption
<1> USE DEF Inv, Records, TaskPc
<1>1. TypeOK'
  BY DEF TypeOK, ProcState, Start, Begin, PortFree, IdleTask, TaskShape
<1>2. TaskShape'
  BY DEF TaskShape, Start, Begin, PortFree, IdleTask, TypeOK
<1>3. Owners'
  BY DEF Owners, OwnerOf, Start, Begin, PortFree, IdleTask, TypeOK,
      TaskShape
<1>4. HeldServes'
  BY DEF HeldServes, Alive, Binaries, Start, Begin, PortFree, IdleTask,
      TypeOK, TaskShape, Owners, OwnerOf, TaskAlone, LiveIsHeld
<1>5. TaskAlone'
  BY DEF TaskAlone, Alive, Binaries, Start, Begin, PortFree, IdleTask,
      TypeOK, TaskShape, Owners, OwnerOf, HeldServes, LiveIsHeld
<1>6. LiveIsHeld'
  BY DEF LiveIsHeld, Alive, Binaries, Start, Begin, PortFree, IdleTask,
      TypeOK, TaskShape, Owners, OwnerOf, TaskAlone
<1>7. StoppedIsDead'
  BY DEF StoppedIsDead, Alive, Binaries, Start, Begin, PortFree, IdleTask,
      TypeOK, TaskShape, Owners, OwnerOf, TaskAlone
<1> QED
  BY <1>1, <1>2, <1>3, <1>4, <1>5, <1>6, <1>7

\* Stop preserves the invariant.
LEMMA StopInv ==
  ASSUME Inv, NEW i \in Instances, Stop(i)
  PROVE  Inv'
<1> USE NoRecordsType, ConstantsAssumption
<1> USE DEF Inv, Records, TaskPc
<1>1. TypeOK'
  BY DEF TypeOK, ProcState, Stop, Begin, IdleTask, TaskShape
<1>2. TaskShape'
  BY DEF TaskShape, Stop, Begin, IdleTask, TypeOK
<1>3. Owners'
  BY DEF Owners, OwnerOf, Stop, Begin, IdleTask, TypeOK, TaskShape
<1>4. HeldServes'
  BY DEF HeldServes, Alive, Binaries, Stop, Begin, IdleTask, TypeOK,
      TaskShape, Owners, OwnerOf, TaskAlone, LiveIsHeld
<1>5. TaskAlone'
  BY DEF TaskAlone, Alive, Binaries, Stop, Begin, IdleTask, TypeOK,
      TaskShape, Owners, OwnerOf, HeldServes, LiveIsHeld
<1>6. LiveIsHeld'
  BY DEF LiveIsHeld, Alive, Binaries, Stop, Begin, IdleTask, TypeOK,
      TaskShape, Owners, OwnerOf, TaskAlone
<1>7. StoppedIsDead'
  BY DEF StoppedIsDead, Alive, Binaries, Stop, Begin, IdleTask, TypeOK,
      TaskShape, Owners, OwnerOf, TaskAlone
<1> QED
  BY <1>1, <1>2, <1>3, <1>4, <1>5, <1>6, <1>7

\* Monitor preserves the invariant.
LEMMA MonitorInv ==
  ASSUME Inv, NEW i \in Instances, Monitor(i)
  PROVE  Inv'
<1> USE NoRecordsType, ConstantsAssumption
<1> USE DEF Inv, Records, TaskPc
<1>1. TypeOK'
  BY DEF TypeOK, ProcState, Monitor, TaskShape
<1>2. TaskShape'
  BY DEF TaskShape, Monitor, TypeOK
<1>3. Owners'
  BY DEF Owners, OwnerOf, Monitor, TypeOK, TaskShape
<1>4. HeldServes'
  BY DEF HeldServes, Alive, Binaries, Monitor, TypeOK, TaskShape, Owners,
      OwnerOf, TaskAlone, LiveIsHeld
<1>5. TaskAlone'
  BY DEF TaskAlone, Alive, Binaries, Monitor, TypeOK, TaskShape, Owners,
      OwnerOf, HeldServes, LiveIsHeld
<1>6. LiveIsHeld'
  BY DEF LiveIsHeld, Alive, Binaries, Monitor, TypeOK, TaskShape, Owners,
      OwnerOf, TaskAlone
<1>7. StoppedIsDead'
  BY DEF StoppedIsDead, Alive, Binaries, Monitor, TypeOK, TaskShape, Owners,
      OwnerOf, TaskAlone
<1> QED
  BY <1>1, <1>2, <1>3, <1>4, <1>5, <1>6, <1>7

\* Spawn preserves the invariant.
LEMMA SpawnInv ==
  ASSUME Inv, NEW p \in Procs, Spawn(p)
  PROVE  Inv'
<1> USE NoRecordsType, ConstantsAssumption
<1> USE DEF Inv, Records, TaskPc
<1>1. TypeOK'
  BY DEF TypeOK, ProcState, Spawn, NewProc, TaskShape
<1>2. TaskShape'
  BY DEF TaskShape, Spawn, NewProc, TypeOK
<1>3. Owners'
  BY DEF Owners, OwnerOf, Spawn, NewProc, TypeOK, TaskShape
<1>4. HeldServes'
  BY DEF HeldServes, Alive, Binaries, Spawn, NewProc, TypeOK, TaskShape,
      Owners, OwnerOf, TaskAlone, LiveIsHeld
<1>5. TaskAlone'
  BY DEF TaskAlone, Alive, Binaries, Spawn, NewProc, TypeOK, TaskShape,
      Owners, OwnerOf, HeldServes, LiveIsHeld
<1>6. LiveIsHeld'
  BY DEF LiveIsHeld, Alive, Binaries, Spawn, NewProc, TypeOK, TaskShape,
      Owners, OwnerOf, TaskAlone
<1>7. StoppedIsDead'
  BY DEF StoppedIsDead, Alive, Binaries, Spawn, NewProc, TypeOK, TaskShape,
      Owners, OwnerOf, TaskAlone
<1> QED
  BY <1>1, <1>2, <1>3, <1>4, <1>5, <1>6, <1>7

\* DockerRun preserves the invariant.
LEMMA DockerRunInv ==
  ASSUME Inv, NEW p \in Procs, DockerRun(p)
  PROVE  Inv'
<1> USE NoRecordsType, ConstantsAssumption
<1> USE DEF Inv, Records, TaskPc
<1>1. TypeOK'
  BY DEF TypeOK, ProcState, DockerRun, NewProc, TaskShape
<1>2. TaskShape'
  BY DEF TaskShape, DockerRun, NewProc, TypeOK
<1>3. Owners'
  BY DEF Owners, OwnerOf, DockerRun, NewProc, TypeOK, TaskShape
<1>4. HeldServes'
  BY DEF HeldServes, Alive, Binaries, DockerRun, NewProc, TypeOK, TaskShape,
      Owners, OwnerOf, TaskAlone, LiveIsHeld
<1>5. TaskAlone'
  BY DEF TaskAlone, Alive, Binaries, DockerRun, NewProc, TypeOK, TaskShape,
      Owners, OwnerOf, HeldServes, LiveIsHeld
<1>6. LiveIsHeld'
  BY DEF LiveIsHeld, Alive, Binaries, DockerRun, NewProc, TypeOK, TaskShape,
      Owners, OwnerOf, TaskAlone
<1>7. StoppedIsDead'
  BY DEF StoppedIsDead, Alive, Binaries, DockerRun, NewProc, TypeOK,
      TaskShape, Owners, OwnerOf, TaskAlone
<1> QED
  BY <1>1, <1>2, <1>3, <1>4, <1>5, <1>6, <1>7

\* NotReady preserves the invariant.
LEMMA NotReadyInv ==
  ASSUME Inv, NotReady
  PROVE  Inv'
<1> USE NoRecordsType, ConstantsAssumption
<1> USE DEF Inv, Records, TaskPc
<1>1. TypeOK'
  BY DEF TypeOK, ProcState, NotReady, Answer, IdleTask, TaskShape
<1>2. TaskShape'
  BY DEF TaskShape, NotReady, Answer, IdleTask, TypeOK
<1>3. Owners'
  BY DEF Owners, OwnerOf, NotReady, Answer, IdleTask, TypeOK, TaskShape
<1>4. HeldServes'
  BY DEF HeldServes, Alive, Binaries, NotReady, Answer, IdleTask, TypeOK,
      TaskShape, Owners, OwnerOf, TaskAlone, LiveIsHeld
<1>5. TaskAlone'
  BY DEF TaskAlone, Alive, Binaries, NotReady, Answer, IdleTask, TypeOK,
      TaskShape, Owners, OwnerOf, HeldServes, LiveIsHeld
<1>6. LiveIsHeld'
  BY DEF LiveIsHeld, Alive, Binaries, NotReady, Answer, IdleTask, TypeOK,
      TaskShape, Owners, OwnerOf, TaskAlone
<1>7. StoppedIsDead'
  BY DEF StoppedIsDead, Alive, Binaries, NotReady, Answer, IdleTask, TypeOK,
      TaskShape, Owners, OwnerOf, TaskAlone
<1> QED
  BY <1>1, <1>2, <1>3, <1>4, <1>5, <1>6, <1>7

\* Ready preserves the invariant.
LEMMA ReadyInv ==
  ASSUME Inv, Ready
  PROVE  Inv'
<1> USE NoRecordsType, ConstantsAssumption
<1> USE DEF Inv, Records, TaskPc
<1>1. TypeOK'
  BY DEF TypeOK, ProcState, Ready, PortFree, TaskShape
<1>2. TaskShape'
  BY DEF TaskShape, Ready, PortFree, TypeOK
<1>3. Owners'
  BY DEF Owners, OwnerOf, Ready, PortFree, TypeOK, TaskShape
<1>4. HeldServes'
  BY DEF HeldServes, Alive, Binaries, Ready, PortFree, TypeOK, TaskShape,
      Owners, OwnerOf, TaskAlone, LiveIsHeld
<1>5. TaskAlone'
  BY DEF TaskAlone, Alive, Binaries, Ready, PortFree, TypeOK, TaskShape,
      Owners, OwnerOf, HeldServes, LiveIsHeld
<1>6. LiveIsHeld'
  BY DEF LiveIsHeld, Alive, Binaries, Ready, PortFree, TypeOK, TaskShape,
      Owners, OwnerOf, TaskAlone
<1>7. StoppedIsDead'
  BY DEF StoppedIsDead, Alive, Binaries, Ready, PortFree, TypeOK, TaskShape,
      Owners, OwnerOf, TaskAlone
<1> QED
  BY <1>1, <1>2, <1>3, <1>4, <1>5, <1>6, <1>7

\* DockerRunFails preserves the invariant.
LEMMA DockerRunFailsInv ==
  ASSUME Inv, DockerRunFails
  PROVE  Inv'
<1> USE NoRecordsType, ConstantsAssumption
<1> USE DEF Inv, Records, TaskPc
<1>1. TypeOK'
  <2>1. proc' \in [Procs -> ProcState]
    BY DEF DockerRunFails, NewProc, Fault, Answer, IdleTask, TypeOK, ProcState, TaskShape
  <2>2. owner' \in [Procs -> Instances \cup {None}]
    BY DEF DockerRunFails, NewProc, Fault, Answer, IdleTask, TypeOK, ProcState, TaskShape
  <2>3. task' \in [pc : TaskPc, op : {"start", "stop", None},
                  inst : Instances \cup {None}, proc : Procs \cup {None},
                  buf : Records, lax : BOOLEAN]
    BY DEF DockerRunFails, NewProc, Fault, Answer, IdleTask, TypeOK, ProcState, TaskShape
  <2>4. outcome' \in [Instances -> {"running", "stopped", "failed", None}]
    BY DEF DockerRunFails, NewProc, Fault, Answer, IdleTask, TypeOK, ProcState, TaskShape
  <2>5. faults' \in Nat
    BY DEF DockerRunFails, NewProc, Fault, Answer, IdleTask, TypeOK, ProcState, TaskShape
  <2> QED
    BY <2>1, <2>2, <2>3, <2>4, <2>5 DEF DockerRunFails, TypeOK
<1>2. TaskShape'
  BY DEF TaskShape, DockerRunFails, NewProc, Fault, Answer, IdleTask, TypeOK
<1>3. Owners'
  BY DEF Owners, OwnerOf, DockerRunFails, NewProc, Fault, Answer, IdleTask,
      TypeOK, TaskShape
<1>4. HeldServes'
  BY DEF HeldServes, Alive, Binaries, DockerRunFails, NewProc, Fault,
      Answer, IdleTask, TypeOK, TaskShape, Owners, OwnerOf, TaskAlone,
      LiveIsHeld
<1>5. TaskAlone'
  BY DEF TaskAlone, Alive, Binaries, DockerRunFails, NewProc, Fault, Answer,
      IdleTask, TypeOK, TaskShape, Owners, OwnerOf, HeldServes, LiveIsHeld
<1>6. LiveIsHeld'
  BY DEF LiveIsHeld, Alive, Binaries, DockerRunFails, NewProc, Fault,
      Answer, IdleTask, TypeOK, TaskShape, Owners, OwnerOf, TaskAlone
<1>7. StoppedIsDead'
  BY DEF StoppedIsDead, Alive, Binaries, DockerRunFails, NewProc, Fault,
      Answer, IdleTask, TypeOK, TaskShape, Owners, OwnerOf, TaskAlone
<1> QED
  BY <1>1, <1>2, <1>3, <1>4, <1>5, <1>6, <1>7

\* TaskLoad preserves the invariant.
LEMMA TaskLoadInv ==
  ASSUME Inv, TaskLoad
  PROVE  Inv'
<1> USE NoRecordsType, ConstantsAssumption
<1> USE DEF Inv, Records, TaskPc
<1>1. TypeOK'
  BY DEF TypeOK, ProcState, TaskLoad, TaskShape
<1>2. TaskShape'
  BY DEF TaskShape, TaskLoad, TypeOK
<1>3. Owners'
  BY DEF Owners, OwnerOf, TaskLoad, TypeOK, TaskShape
<1>4. HeldServes'
  BY DEF HeldServes, Alive, Binaries, TaskLoad, TypeOK, TaskShape, Owners,
      OwnerOf, TaskAlone, LiveIsHeld
<1>5. TaskAlone'
  BY DEF TaskAlone, Alive, Binaries, TaskLoad, TypeOK, TaskShape, Owners,
      OwnerOf, HeldServes, LiveIsHeld
<1>6. LiveIsHeld'
  BY DEF LiveIsHeld, Alive, Binaries, TaskLoad, TypeOK, TaskShape, Owners,
      OwnerOf, TaskAlone
<1>7. StoppedIsDead'
  BY DEF StoppedIsDead, Alive, Binaries, TaskLoad, TypeOK, TaskShape,
      Owners, OwnerOf, TaskAlone
<1> QED
  BY <1>1, <1>2, <1>3, <1>4, <1>5, <1>6, <1>7

\* TaskTruncate preserves the invariant.
LEMMA TaskTruncateInv ==
  ASSUME Inv, TaskTruncate
  PROVE  Inv'
<1> USE NoRecordsType, ConstantsAssumption
<1> USE DEF Inv, Records, TaskPc
<1>1. TypeOK'
  BY DEF TypeOK, ProcState, TaskTruncate, Truncate, TaskShape
<1>2. TaskShape'
  BY DEF TaskShape, TaskTruncate, Truncate, TypeOK
<1>3. Owners'
  BY DEF Owners, OwnerOf, TaskTruncate, Truncate, TypeOK, TaskShape
<1>4. HeldServes'
  BY DEF HeldServes, Alive, Binaries, TaskTruncate, Truncate, TypeOK,
      TaskShape, Owners, OwnerOf, TaskAlone, LiveIsHeld
<1>5. TaskAlone'
  BY DEF TaskAlone, Alive, Binaries, TaskTruncate, Truncate, TypeOK,
      TaskShape, Owners, OwnerOf, HeldServes, LiveIsHeld
<1>6. LiveIsHeld'
  BY DEF LiveIsHeld, Alive, Binaries, TaskTruncate, Truncate, TypeOK,
      TaskShape, Owners, OwnerOf, TaskAlone
<1>7. StoppedIsDead'
  BY DEF StoppedIsDead, Alive, Binaries, TaskTruncate, Truncate, TypeOK,
      TaskShape, Owners, OwnerOf, TaskAlone
<1> QED
  BY <1>1, <1>2, <1>3, <1>4, <1>5, <1>6, <1>7

\* TaskWrite preserves the invariant.
LEMMA TaskWriteInv ==
  ASSUME Inv, TaskWrite
  PROVE  Inv'
<1> USE NoRecordsType, ConstantsAssumption
<1> USE DEF Inv, Records, TaskPc
<1>1. TypeOK'
  <2>1. store' \in [st : {"ok", "empty", "corrupt"}, recs : Records]
    BY DEF TaskWrite, Write, TypeOK
  <2>2. CASE task.op = "start" /\ task.inst \notin Docker
    BY <2>1, <2>2 DEF TaskWrite, TypeOK
  <2>3. CASE ~ (task.op = "start" /\ task.inst \notin Docker)
    <3>1. PICK s \in {"running", "stopped"} : Answer(s)
      BY <2>3 DEF TaskWrite
    <3>2. outcome' \in [Instances -> {"running", "stopped", "failed", None}]
      BY <3>1 DEF Answer, TypeOK
    <3> QED
      BY <2>1, <3>1, <3>2 DEF TaskWrite, Answer, IdleTask, TypeOK
  <2> QED
    BY <2>2, <2>3
<1>2. TaskShape'
  BY DEF TaskShape, TaskWrite, Write, Answer, IdleTask, TypeOK
<1>3. Owners'
  BY DEF Owners, OwnerOf, TaskWrite, Write, Answer, IdleTask, TypeOK,
      TaskShape
<1>4. HeldServes'
  BY DEF HeldServes, Alive, Binaries, TaskWrite, Write, Answer, IdleTask,
      TypeOK, TaskShape, Owners, OwnerOf, TaskAlone, LiveIsHeld
<1>5. TaskAlone'
  BY DEF TaskAlone, Alive, Binaries, TaskWrite, Write, Answer, IdleTask,
      TypeOK, TaskShape, Owners, OwnerOf, HeldServes, LiveIsHeld
<1>6. LiveIsHeld'
  BY DEF LiveIsHeld, Alive, Binaries, TaskWrite, Write, Answer, IdleTask,
      TypeOK, TaskShape, Owners, OwnerOf, TaskAlone
<1>7. StoppedIsDead'
  BY DEF StoppedIsDead, Alive, Binaries, TaskWrite, Write, Answer, IdleTask,
      TypeOK, TaskShape, Owners, OwnerOf, TaskAlone
<1> QED
  BY <1>1, <1>2, <1>3, <1>4, <1>5, <1>6, <1>7

\* TaskLoadFails preserves the invariant.
LEMMA TaskLoadFailsInv ==
  ASSUME Inv, TaskLoadFails
  PROVE  Inv'
<1> USE NoRecordsType, ConstantsAssumption
<1> USE DEF Inv, Records, TaskPc
<1>1. TypeOK'
  BY DEF TypeOK, ProcState, TaskLoadFails, StoreError, Answer, IdleTask,
      TaskShape
<1>2. TaskShape'
  BY DEF TaskShape, TaskLoadFails, StoreError, Answer, IdleTask, TypeOK
<1>3. Owners'
  BY DEF Owners, OwnerOf, TaskLoadFails, StoreError, Answer, IdleTask,
      TypeOK, TaskShape
<1>4. HeldServes'
  BY DEF HeldServes, Alive, Binaries, TaskLoadFails, StoreError, Answer,
      IdleTask, TypeOK, TaskShape, Owners, OwnerOf, TaskAlone, LiveIsHeld
<1>5. TaskAlone'
  BY DEF TaskAlone, Alive, Binaries, TaskLoadFails, StoreError, Answer,
      IdleTask, TypeOK, TaskShape, Owners, OwnerOf, HeldServes, LiveIsHeld
<1>6. LiveIsHeld'
  BY DEF LiveIsHeld, Alive, Binaries, TaskLoadFails, StoreError, Answer,
      IdleTask, TypeOK, TaskShape, Owners, OwnerOf, TaskAlone
<1>7. StoppedIsDead'
  BY DEF StoppedIsDead, Alive, Binaries, TaskLoadFails, StoreError, Answer,
      IdleTask, TypeOK, TaskShape, Owners, OwnerOf, TaskAlone
<1> QED
  BY <1>1, <1>2, <1>3, <1>4, <1>5, <1>6, <1>7

\* Register preserves the invariant.
LEMMA RegisterInv ==
  ASSUME Inv, Register
  PROVE  Inv'
<1> USE NoRecordsType, ConstantsAssumption
<1> USE DEF Inv, Records, TaskPc
<1>1. TypeOK'
  BY DEF TypeOK, ProcState, Register, Reap, Answer, IdleTask, TaskShape
<1>2. TaskShape'
  BY DEF TaskShape, Register, Reap, Answer, IdleTask, TypeOK
<1>3. Owners'
  BY DEF Owners, OwnerOf, Register, Reap, Answer, IdleTask, TypeOK,
      TaskShape
<1>4. HeldServes'
  BY DEF HeldServes, Alive, Binaries, Register, Reap, Answer, IdleTask,
      TypeOK, TaskShape, Owners, OwnerOf, TaskAlone, LiveIsHeld
<1>5. TaskAlone'
  BY DEF TaskAlone, Alive, Binaries, Register, Reap, Answer, IdleTask,
      TypeOK, TaskShape, Owners, OwnerOf, HeldServes, LiveIsHeld
<1>6. LiveIsHeld'
  BY DEF LiveIsHeld, Alive, Binaries, Register, Reap, Answer, IdleTask,
      TypeOK, TaskShape, Owners, OwnerOf, TaskAlone
<1>7. StoppedIsDead'
  BY DEF StoppedIsDead, Alive, Binaries, Register, Reap, Answer, IdleTask,
      TypeOK, TaskShape, Owners, OwnerOf, TaskAlone
<1> QED
  BY <1>1, <1>2, <1>3, <1>4, <1>5, <1>6, <1>7

\* FindDocker preserves the invariant.
LEMMA FindDockerInv ==
  ASSUME Inv, FindDocker
  PROVE  Inv'
<1> USE NoRecordsType, ConstantsAssumption
<1> USE DEF Inv, Records, TaskPc
<1>1. TypeOK'
  BY DEF TypeOK, ProcState, FindDocker, TaskShape
<1>2. TaskShape'
  BY DEF TaskShape, FindDocker, TypeOK
<1>3. Owners'
  BY DEF Owners, OwnerOf, FindDocker, TypeOK, TaskShape
<1>4. HeldServes'
  BY DEF HeldServes, Alive, Binaries, FindDocker, TypeOK, TaskShape, Owners,
      OwnerOf, TaskAlone, LiveIsHeld
<1>5. TaskAlone'
  BY DEF TaskAlone, Alive, Binaries, FindDocker, TypeOK, TaskShape, Owners,
      OwnerOf, HeldServes, LiveIsHeld
<1>6. LiveIsHeld'
  BY DEF LiveIsHeld, Alive, Binaries, FindDocker, TypeOK, TaskShape, Owners,
      OwnerOf, TaskAlone
<1>7. StoppedIsDead'
  BY DEF StoppedIsDead, Alive, Binaries, FindDocker, TypeOK, TaskShape,
      Owners, OwnerOf, TaskAlone
<1> QED
  BY <1>1, <1>2, <1>3, <1>4, <1>5, <1>6, <1>7

\* DockerStop preserves the invariant.
LEMMA DockerStopInv ==
  ASSUME Inv, DockerStop
  PROVE  Inv'
<1> USE NoRecordsType, ConstantsAssumption
<1> USE DEF Inv, Records, TaskPc
<1>1. TypeOK'
  <2>1. proc' \in [Procs -> ProcState]
    BY DEF DockerStop, Fault, TypeOK, ProcState, TaskShape
  <2>2. task' \in [pc : TaskPc, op : {"start", "stop", None},
                  inst : Instances \cup {None}, proc : Procs \cup {None},
                  buf : Records, lax : BOOLEAN]
    BY DEF DockerStop, Fault, TypeOK, ProcState, TaskShape
  <2>3. faults' \in Nat
    BY DEF DockerStop, Fault, TypeOK, ProcState, TaskShape
  <2> QED
    BY <2>1, <2>2, <2>3 DEF DockerStop, TypeOK
<1>2. TaskShape'
  BY DEF TaskShape, DockerStop, Fault, TypeOK
<1>3. Owners'
  BY DEF Owners, OwnerOf, DockerStop, Fault, TypeOK, TaskShape
<1>4. HeldServes'
  BY DEF HeldServes, Alive, Binaries, DockerStop, Fault, TypeOK, TaskShape,
      Owners, OwnerOf, TaskAlone, LiveIsHeld
<1>5. TaskAlone'
  BY DEF TaskAlone, Alive, Binaries, DockerStop, Fault, TypeOK, TaskShape,
      Owners, OwnerOf, HeldServes, LiveIsHeld
<1>6. LiveIsHeld'
  BY DEF LiveIsHeld, Alive, Binaries, DockerStop, Fault, TypeOK, TaskShape,
      Owners, OwnerOf, TaskAlone
<1>7. StoppedIsDead'
  BY DEF StoppedIsDead, Alive, Binaries, DockerStop, Fault, TypeOK,
      TaskShape, Owners, OwnerOf, TaskAlone
<1> QED
  BY <1>1, <1>2, <1>3, <1>4, <1>5, <1>6, <1>7

\* TakeHandle preserves the invariant.
LEMMA TakeHandleInv ==
  ASSUME Inv, TakeHandle
  PROVE  Inv'
<1> USE NoRecordsType, ConstantsAssumption
<1> USE DEF Inv, Records, TaskPc
<1>1. TypeOK'
  BY DEF TypeOK, ProcState, TakeHandle, TaskShape
<1>2. TaskShape'
  BY DEF TaskShape, TakeHandle, TypeOK
<1>3. Owners'
  BY DEF Owners, OwnerOf, TakeHandle, TypeOK, TaskShape
<1>4. HeldServes'
  BY DEF HeldServes, Alive, Binaries, TakeHandle, TypeOK, TaskShape, Owners,
      OwnerOf, TaskAlone, LiveIsHeld
<1>5. TaskAlone'
  BY DEF TaskAlone, Alive, Binaries, TakeHandle, TypeOK, TaskShape, Owners,
      OwnerOf, HeldServes, LiveIsHeld
<1>6. LiveIsHeld'
  BY DEF LiveIsHeld, Alive, Binaries, TakeHandle, TypeOK, TaskShape, Owners,
      OwnerOf, TaskAlone
<1>7. StoppedIsDead'
  BY DEF StoppedIsDead, Alive, Binaries, TakeHandle, TypeOK, TaskShape,
      Owners, OwnerOf, TaskAlone
<1> QED
  BY <1>1, <1>2, <1>3, <1>4, <1>5, <1>6, <1>7

\* Kill preserves the invariant.
LEMMA KillInv ==
  ASSUME Inv, Kill
  PROVE  Inv'
<1> USE NoRecordsType, ConstantsAssumption
<1> USE DEF Inv, Records, TaskPc
<1>1. TypeOK'
  BY DEF TypeOK, ProcState, Kill, TaskShape
<1>2. TaskShape'
  BY DEF TaskShape, Kill, TypeOK
<1>3. Owners'
  BY DEF Owners, OwnerOf, Kill, TypeOK, TaskShape
<1>4. HeldServes'
  BY DEF HeldServes, Alive, Binaries, Kill, TypeOK, TaskShape, Owners,
      OwnerOf, TaskAlone, LiveIsHeld
<1>5. TaskAlone'
  BY DEF TaskAlone, Alive, Binaries, Kill, TypeOK, TaskShape, Owners,
      OwnerOf, HeldServes, LiveIsHeld
<1>6. LiveIsHeld'
  BY DEF LiveIsHeld, Alive, Binaries, Kill, TypeOK, TaskShape, Owners,
      OwnerOf, TaskAlone
<1>7. StoppedIsDead'
  BY DEF StoppedIsDead, Alive, Binaries, Kill, TypeOK, TaskShape, Owners,
      OwnerOf, TaskAlone
<1> QED
  BY <1>1, <1>2, <1>3, <1>4, <1>5, <1>6, <1>7

\* FindRecord preserves the invariant.
LEMMA FindRecordInv ==
  ASSUME Inv, FindRecord
  PROVE  Inv'
<1> USE NoRecordsType, ConstantsAssumption
<1> USE DEF Inv, Records, TaskPc
<1>1. TypeOK'
  BY DEF TypeOK, ProcState, FindRecord, TaskShape
<1>2. TaskShape'
  BY DEF TaskShape, FindRecord, TypeOK
<1>3. Owners'
  BY DEF Owners, OwnerOf, FindRecord, TypeOK, TaskShape
<1>4. HeldServes'
  BY DEF HeldServes, Alive, Binaries, FindRecord, TypeOK, TaskShape, Owners,
      OwnerOf, TaskAlone, LiveIsHeld
<1>5. TaskAlone'
  BY DEF TaskAlone, Alive, Binaries, FindRecord, TypeOK, TaskShape, Owners,
      OwnerOf, HeldServes, LiveIsHeld
<1>6. LiveIsHeld'
  BY DEF LiveIsHeld, Alive, Binaries, FindRecord, TypeOK, TaskShape, Owners,
      OwnerOf, TaskAlone
<1>7. StoppedIsDead'
  BY DEF StoppedIsDead, Alive, Binaries, FindRecord, TypeOK, TaskShape,
      Owners, OwnerOf, TaskAlone
<1> QED
  BY <1>1, <1>2, <1>3, <1>4, <1>5, <1>6, <1>7

\* RefuseStop preserves the invariant.
LEMMA RefuseStopInv ==
  ASSUME Inv, RefuseStop
  PROVE  Inv'
<1> USE NoRecordsType, ConstantsAssumption
<1> USE DEF Inv, Records, TaskPc
<1>1. TypeOK'
  BY DEF TypeOK, ProcState, RefuseStop, Answer, IdleTask, TaskShape
<1>2. TaskShape'
  BY DEF TaskShape, RefuseStop, Answer, IdleTask, TypeOK
<1>3. Owners'
  BY DEF Owners, OwnerOf, RefuseStop, Answer, IdleTask, TypeOK, TaskShape
<1>4. HeldServes'
  BY DEF HeldServes, Alive, Binaries, RefuseStop, Answer, IdleTask, TypeOK,
      TaskShape, Owners, OwnerOf, TaskAlone, LiveIsHeld
<1>5. TaskAlone'
  BY DEF TaskAlone, Alive, Binaries, RefuseStop, Answer, IdleTask, TypeOK,
      TaskShape, Owners, OwnerOf, HeldServes, LiveIsHeld
<1>6. LiveIsHeld'
  BY DEF LiveIsHeld, Alive, Binaries, RefuseStop, Answer, IdleTask, TypeOK,
      TaskShape, Owners, OwnerOf, TaskAlone
<1>7. StoppedIsDead'
  BY DEF StoppedIsDead, Alive, Binaries, RefuseStop, Answer, IdleTask,
      TypeOK, TaskShape, Owners, OwnerOf, TaskAlone
<1> QED
  BY <1>1, <1>2, <1>3, <1>4, <1>5, <1>6, <1>7

\* Terminate preserves the invariant.
LEMMA TerminateInv ==
  ASSUME Inv, Terminate
  PROVE  Inv'
<1> USE NoRecordsType, ConstantsAssumption
<1> USE DEF Inv, Records, TaskPc
<1>1. TypeOK'
  BY DEF TypeOK, ProcState, Terminate, TaskShape
<1>2. TaskShape'
  BY DEF TaskShape, Terminate, TypeOK
<1>3. Owners'
  BY DEF Owners, OwnerOf, Terminate, TypeOK, TaskShape
<1>4. HeldServes'
  BY DEF HeldServes, Alive, Binaries, Terminate, TypeOK, TaskShape, Owners,
      OwnerOf, TaskAlone, LiveIsHeld
<1>5. TaskAlone'
  BY DEF TaskAlone, Alive, Binaries, Terminate, TypeOK, TaskShape, Owners,
      OwnerOf, HeldServes, LiveIsHeld
<1>6. LiveIsHeld'
  BY DEF LiveIsHeld, Alive, Binaries, Terminate, TypeOK, TaskShape, Owners,
      OwnerOf, TaskAlone
<1>7. StoppedIsDead'
  BY DEF StoppedIsDead, Alive, Binaries, Terminate, TypeOK, TaskShape,
      Owners, OwnerOf, TaskAlone
<1> QED
  BY <1>1, <1>2, <1>3, <1>4, <1>5, <1>6, <1>7

\* LeaveChild preserves the invariant.
LEMMA LeaveChildInv ==
  ASSUME Inv, LeaveChild
  PROVE  Inv'
<1> USE NoRecordsType, ConstantsAssumption
<1> USE DEF Inv, Records, TaskPc
<1>1. TypeOK'
  <2>1. proc' \in [Procs -> ProcState]
    BY DEF LeaveChild, Reap, Fault, Answer, IdleTask, TypeOK, ProcState, TaskShape
  <2>2. task' \in [pc : TaskPc, op : {"start", "stop", None},
                  inst : Instances \cup {None}, proc : Procs \cup {None},
                  buf : Records, lax : BOOLEAN]
    BY DEF LeaveChild, Reap, Fault, Answer, IdleTask, TypeOK, ProcState, TaskShape
  <2>3. outcome' \in [Instances -> {"running", "stopped", "failed", None}]
    BY DEF LeaveChild, Reap, Fault, Answer, IdleTask, TypeOK, ProcState, TaskShape
  <2>4. faults' \in Nat
    BY DEF LeaveChild, Reap, Fault, Answer, IdleTask, TypeOK, ProcState, TaskShape
  <2> QED
    BY <2>1, <2>2, <2>3, <2>4 DEF LeaveChild, TypeOK
<1>2. TaskShape'
  BY DEF TaskShape, LeaveChild, Reap, Fault, Answer, IdleTask, TypeOK
<1>3. Owners'
  BY DEF Owners, OwnerOf, LeaveChild, Reap, Fault, Answer, IdleTask, TypeOK,
      TaskShape
<1>4. HeldServes'
  BY DEF HeldServes, Alive, Binaries, LeaveChild, Reap, Fault, Answer,
      IdleTask, TypeOK, TaskShape, Owners, OwnerOf, TaskAlone, LiveIsHeld
<1>5. TaskAlone'
  BY DEF TaskAlone, Alive, Binaries, LeaveChild, Reap, Fault, Answer,
      IdleTask, TypeOK, TaskShape, Owners, OwnerOf, HeldServes, LiveIsHeld
<1>6. LiveIsHeld'
  BY DEF LiveIsHeld, Alive, Binaries, LeaveChild, Reap, Fault, Answer,
      IdleTask, TypeOK, TaskShape, Owners, OwnerOf, TaskAlone
<1>7. StoppedIsDead'
  BY DEF StoppedIsDead, Alive, Binaries, LeaveChild, Reap, Fault, Answer,
      IdleTask, TypeOK, TaskShape, Owners, OwnerOf, TaskAlone
<1> QED
  BY <1>1, <1>2, <1>3, <1>4, <1>5, <1>6, <1>7

\* TaskWriteFails preserves the invariant.
LEMMA TaskWriteFailsInv ==
  ASSUME Inv, TaskWriteFails
  PROVE  Inv'
<1> USE NoRecordsType, ConstantsAssumption
<1> USE DEF Inv, Records, TaskPc
<1>1. TypeOK'
  <2>1. proc' \in [Procs -> ProcState]
    BY DEF TaskWriteFails, Fault, StoreError, Answer, IdleTask, TypeOK, ProcState, TaskShape
  <2>2. task' \in [pc : TaskPc, op : {"start", "stop", None},
                  inst : Instances \cup {None}, proc : Procs \cup {None},
                  buf : Records, lax : BOOLEAN]
    BY DEF TaskWriteFails, Fault, StoreError, Answer, IdleTask, TypeOK, ProcState, TaskShape
  <2>3. outcome' \in [Instances -> {"running", "stopped", "failed", None}]
    BY DEF TaskWriteFails, Fault, StoreError, Answer, IdleTask, TypeOK, ProcState, TaskShape
  <2>4. faults' \in Nat
    BY DEF TaskWriteFails, Fault, StoreError, Answer, IdleTask, TypeOK, ProcState, TaskShape
  <2> QED
    BY <2>1, <2>2, <2>3, <2>4 DEF TaskWriteFails, TypeOK
<1>2. TaskShape'
  BY DEF TaskShape, TaskWriteFails, Fault, StoreError, Answer, IdleTask,
      TypeOK
<1>3. Owners'
  BY DEF Owners, OwnerOf, TaskWriteFails, Fault, StoreError, Answer,
      IdleTask, TypeOK, TaskShape
<1>4. HeldServes'
  BY DEF HeldServes, Alive, Binaries, TaskWriteFails, Fault, StoreError,
      Answer, IdleTask, TypeOK, TaskShape, Owners, OwnerOf, TaskAlone,
      LiveIsHeld
<1>5. TaskAlone'
  BY DEF TaskAlone, Alive, Binaries, TaskWriteFails, Fault, StoreError,
      Answer, IdleTask, TypeOK, TaskShape, Owners, OwnerOf, HeldServes,
      LiveIsHeld
<1>6. LiveIsHeld'
  BY DEF LiveIsHeld, Alive, Binaries, TaskWriteFails, Fault, StoreError,
      Answer, IdleTask, TypeOK, TaskShape, Owners, OwnerOf, TaskAlone
<1>7. StoppedIsDead'
  BY DEF StoppedIsDead, Alive, Binaries, TaskWriteFails, Fault, StoreError,
      Answer, IdleTask, TypeOK, TaskShape, Owners, OwnerOf, TaskAlone
<1> QED
  BY <1>1, <1>2, <1>3, <1>4, <1>5, <1>6, <1>7

\* HbLoad preserves the invariant.
LEMMA HbLoadInv ==
  ASSUME Inv, HbLoad
  PROVE  Inv'
<1> USE NoRecordsType, ConstantsAssumption
<1> USE DEF Inv, Records, TaskPc
<1>1. TypeOK'
  BY DEF TypeOK, ProcState, HbLoad, IdleHb, TaskShape
<1>2. TaskShape'
  BY DEF TaskShape, HbLoad, IdleHb, TypeOK
<1>3. Owners'
  BY DEF Owners, OwnerOf, HbLoad, IdleHb, TypeOK, TaskShape
<1>4. HeldServes'
  BY DEF HeldServes, Alive, Binaries, HbLoad, IdleHb, TypeOK, TaskShape,
      Owners, OwnerOf, TaskAlone, LiveIsHeld
<1>5. TaskAlone'
  BY DEF TaskAlone, Alive, Binaries, HbLoad, IdleHb, TypeOK, TaskShape,
      Owners, OwnerOf, HeldServes, LiveIsHeld
<1>6. LiveIsHeld'
  BY DEF LiveIsHeld, Alive, Binaries, HbLoad, IdleHb, TypeOK, TaskShape,
      Owners, OwnerOf, TaskAlone
<1>7. StoppedIsDead'
  BY DEF StoppedIsDead, Alive, Binaries, HbLoad, IdleHb, TypeOK, TaskShape,
      Owners, OwnerOf, TaskAlone
<1> QED
  BY <1>1, <1>2, <1>3, <1>4, <1>5, <1>6, <1>7

\* HbCheck preserves the invariant.
LEMMA HbCheckInv ==
  ASSUME Inv, NEW i \in Instances, HbCheck(i)
  PROVE  Inv'
<1> USE NoRecordsType, ConstantsAssumption
<1> USE DEF Inv, Records, TaskPc
<1>1. TypeOK'
  <2>1. PICK q \in {hb.todo[i], None} :
          hb' = [hb EXCEPT !.todo[i] = None, !.buf[i] = q]
    BY DEF HbCheck
  <2>2. /\ hb'.pc = hb.pc
        /\ hb'.todo = [hb.todo EXCEPT ![i] = None]
        /\ hb'.buf = [hb.buf EXCEPT ![i] = q]
    BY <2>1 DEF TypeOK
  <2>3. hb' \in [pc : {"idle", "check", "truncate", "write", "send"},
                todo : Records, buf : Records]
    <3>1. hb'.todo \in Records /\ hb'.buf \in Records
      BY <2>2 DEF TypeOK
    <3> QED
      BY <2>1, <2>2, <3>1 DEF TypeOK
  <2>4. faults' \in Nat
    BY DEF HbCheck, Fault, TypeOK
  <2> QED
    BY <2>3, <2>4 DEF HbCheck, TypeOK
<1>2. TaskShape'
  BY DEF TaskShape, HbCheck, Fault, TypeOK
<1>3. Owners'
  <2>1. PICK q \in {hb.todo[i], None} :
          hb' = [hb EXCEPT !.todo[i] = None, !.buf[i] = q]
    BY DEF HbCheck
  <2>2. /\ hb'.pc = hb.pc
        /\ hb'.todo = [hb.todo EXCEPT ![i] = None]
        /\ hb'.buf = [hb.buf EXCEPT ![i] = q]
    BY <2>1 DEF TypeOK
  <2>3. UNCHANGED <<proc, owner, store, registry, task>>
    BY DEF HbCheck
  <2>4. OwnerOf(hb.todo)' /\ OwnerOf(hb.buf)'
    BY <2>2, <2>3 DEF Owners, OwnerOf, TypeOK
  <2> QED
    BY <2>3, <2>4 DEF Owners, OwnerOf
<1>4. HeldServes'
  BY DEF HeldServes, Alive, Binaries, HbCheck, Fault, TypeOK, TaskShape,
      Owners, OwnerOf, TaskAlone, LiveIsHeld
<1>5. TaskAlone'
  BY DEF TaskAlone, Alive, Binaries, HbCheck, Fault, TypeOK, TaskShape,
      Owners, OwnerOf, HeldServes, LiveIsHeld
<1>6. LiveIsHeld'
  BY DEF LiveIsHeld, Alive, Binaries, HbCheck, Fault, TypeOK, TaskShape,
      Owners, OwnerOf, TaskAlone
<1>7. StoppedIsDead'
  BY DEF StoppedIsDead, Alive, Binaries, HbCheck, Fault, TypeOK, TaskShape,
      Owners, OwnerOf, TaskAlone
<1> QED
  BY <1>1, <1>2, <1>3, <1>4, <1>5, <1>6, <1>7

\* HbChecked preserves the invariant.
LEMMA HbCheckedInv ==
  ASSUME Inv, HbChecked
  PROVE  Inv'
<1> USE NoRecordsType, ConstantsAssumption
<1> USE DEF Inv, Records, TaskPc
<1>1. TypeOK'
  BY DEF TypeOK, ProcState, HbChecked, TaskShape
<1>2. TaskShape'
  BY DEF TaskShape, HbChecked, TypeOK
<1>3. Owners'
  BY DEF Owners, OwnerOf, HbChecked, TypeOK, TaskShape
<1>4. HeldServes'
  BY DEF HeldServes, Alive, Binaries, HbChecked, TypeOK, TaskShape, Owners,
      OwnerOf, TaskAlone, LiveIsHeld
<1>5. TaskAlone'
  BY DEF TaskAlone, Alive, Binaries, HbChecked, TypeOK, TaskShape, Owners,
      OwnerOf, HeldServes, LiveIsHeld
<1>6. LiveIsHeld'
  BY DEF LiveIsHeld, Alive, Binaries, HbChecked, TypeOK, TaskShape, Owners,
      OwnerOf, TaskAlone
<1>7. StoppedIsDead'
  BY DEF StoppedIsDead, Alive, Binaries, HbChecked, TypeOK, TaskShape,
      Owners, OwnerOf, TaskAlone
<1> QED
  BY <1>1, <1>2, <1>3, <1>4, <1>5, <1>6, <1>7

\* HbTruncate preserves the invariant.
LEMMA HbTruncateInv ==
  ASSUME Inv, HbTruncate
  PROVE  Inv'
<1> USE NoRecordsType, ConstantsAssumption
<1> USE DEF Inv, Records, TaskPc
<1>1. TypeOK'
  BY DEF TypeOK, ProcState, HbTruncate, Truncate, TaskShape
<1>2. TaskShape'
  BY DEF TaskShape, HbTruncate, Truncate, TypeOK
<1>3. Owners'
  BY DEF Owners, OwnerOf, HbTruncate, Truncate, TypeOK, TaskShape
<1>4. HeldServes'
  BY DEF HeldServes, Alive, Binaries, HbTruncate, Truncate, TypeOK,
      TaskShape, Owners, OwnerOf, TaskAlone, LiveIsHeld
<1>5. TaskAlone'
  BY DEF TaskAlone, Alive, Binaries, HbTruncate, Truncate, TypeOK,
      TaskShape, Owners, OwnerOf, HeldServes, LiveIsHeld
<1>6. LiveIsHeld'
  BY DEF LiveIsHeld, Alive, Binaries, HbTruncate, Truncate, TypeOK,
      TaskShape, Owners, OwnerOf, TaskAlone
<1>7. StoppedIsDead'
  BY DEF StoppedIsDead, Alive, Binaries, HbTruncate, Truncate, TypeOK,
      TaskShape, Owners, OwnerOf, TaskAlone
<1> QED
  BY <1>1, <1>2, <1>3, <1>4, <1>5, <1>6, <1>7

\* HbWrite preserves the invariant.
LEMMA HbWriteInv ==
  ASSUME Inv, HbWrite
  PROVE  Inv'
<1> USE NoRecordsType, ConstantsAssumption
<1> USE DEF Inv, Records, TaskPc
<1>1. TypeOK'
  BY DEF TypeOK, ProcState, HbWrite, Write, Fault, TaskShape
<1>2. TaskShape'
  BY DEF TaskShape, HbWrite, Write, Fault, TypeOK
<1>3. Owners'
  BY DEF Owners, OwnerOf, HbWrite, Write, Fault, TypeOK, TaskShape
<1>4. HeldServes'
  BY DEF HeldServes, Alive, Binaries, HbWrite, Write, Fault, TypeOK,
      TaskShape, Owners, OwnerOf, TaskAlone, LiveIsHeld
<1>5. TaskAlone'
  BY DEF TaskAlone, Alive, Binaries, HbWrite, Write, Fault, TypeOK,
      TaskShape, Owners, OwnerOf, HeldServes, LiveIsHeld
<1>6. LiveIsHeld'
  BY DEF LiveIsHeld, Alive, Binaries, HbWrite, Write, Fault, TypeOK,
      TaskShape, Owners, OwnerOf, TaskAlone
<1>7. StoppedIsDead'
  BY DEF StoppedIsDead, Alive, Binaries, HbWrite, Write, Fault, TypeOK,
      TaskShape, Owners, OwnerOf, TaskAlone
<1> QED
  BY <1>1, <1>2, <1>3, <1>4, <1>5, <1>6, <1>7

\* HbSend preserves the invariant.
LEMMA HbSendInv ==
  ASSUME Inv, HbSend
  PROVE  Inv'
<1> USE NoRecordsType, ConstantsAssumption
<1> USE DEF Inv, Records, TaskPc
<1>1. TypeOK'
  BY DEF TypeOK, ProcState, HbSend, IdleHb, TaskShape
<1>2. TaskShape'
  BY DEF TaskShape, HbSend, IdleHb, TypeOK
<1>3. Owners'
  BY DEF Owners, OwnerOf, HbSend, IdleHb, TypeOK, TaskShape
<1>4. HeldServes'
  BY DEF HeldServes, Alive, Binaries, HbSend, IdleHb, TypeOK, TaskShape,
      Owners, OwnerOf, TaskAlone, LiveIsHeld
<1>5. TaskAlone'
  BY DEF TaskAlone, Alive, Binaries, HbSend, IdleHb, TypeOK, TaskShape,
      Owners, OwnerOf, HeldServes, LiveIsHeld
<1>6. LiveIsHeld'
  BY DEF LiveIsHeld, Alive, Binaries, HbSend, IdleHb, TypeOK, TaskShape,
      Owners, OwnerOf, TaskAlone
<1>7. StoppedIsDead'
  BY DEF StoppedIsDead, Alive, Binaries, HbSend, IdleHb, TypeOK, TaskShape,
      Owners, OwnerOf, TaskAlone
<1> QED
  BY <1>1, <1>2, <1>3, <1>4, <1>5, <1>6, <1>7

\* Serve preserves the invariant.
LEMMA ServeInv ==
  ASSUME Inv, NEW p \in Procs, Serve(p)
  PROVE  Inv'
<1> USE NoRecordsType, ConstantsAssumption
<1> USE DEF Inv, Records, TaskPc
<1>1. TypeOK'
  BY DEF TypeOK, ProcState, Serve, PortFree, TaskShape
<1>2. TaskShape'
  BY DEF TaskShape, Serve, PortFree, TypeOK
<1>3. Owners'
  BY DEF Owners, OwnerOf, Serve, PortFree, TypeOK, TaskShape
<1>4. HeldServes'
  BY DEF HeldServes, Alive, Binaries, Serve, PortFree, TypeOK, TaskShape,
      Owners, OwnerOf, TaskAlone, LiveIsHeld
<1>5. TaskAlone'
  BY DEF TaskAlone, Alive, Binaries, Serve, PortFree, TypeOK, TaskShape,
      Owners, OwnerOf, HeldServes, LiveIsHeld
<1>6. LiveIsHeld'
  BY DEF LiveIsHeld, Alive, Binaries, Serve, PortFree, TypeOK, TaskShape,
      Owners, OwnerOf, TaskAlone
<1>7. StoppedIsDead'
  BY DEF StoppedIsDead, Alive, Binaries, Serve, PortFree, TypeOK, TaskShape,
      Owners, OwnerOf, TaskAlone
<1> QED
  BY <1>1, <1>2, <1>3, <1>4, <1>5, <1>6, <1>7

\* Exit preserves the invariant.
LEMMA ExitInv ==
  ASSUME Inv, NEW p \in Procs, Exit(p)
  PROVE  Inv'
<1> USE NoRecordsType, ConstantsAssumption
<1> USE DEF Inv, Records, TaskPc
<1>1. TypeOK'
  BY DEF TypeOK, ProcState, Exit, Held, TaskShape
<1>2. TaskShape'
  BY DEF TaskShape, Exit, Held, TypeOK
<1>3. Owners'
  <2>1. \A q \in Procs : proc'[q] # "none" <=> owner'[q] # None
    BY DEF Exit, Owners, Alive, TypeOK
  <2> QED
    BY <2>1 DEF Exit, Owners, OwnerOf, TypeOK
<1>4. HeldServes'
  BY DEF HeldServes, Alive, Binaries, Exit, Held, TypeOK, TaskShape, Owners,
      OwnerOf, TaskAlone, LiveIsHeld
<1>5. TaskAlone'
  BY DEF TaskAlone, Alive, Binaries, Exit, Held, TypeOK, TaskShape, Owners,
      OwnerOf, HeldServes, LiveIsHeld
<1>6. LiveIsHeld'
  BY DEF LiveIsHeld, Alive, Binaries, Exit, Held, TypeOK, TaskShape, Owners,
      OwnerOf, TaskAlone
<1>7. StoppedIsDead'
  BY DEF StoppedIsDead, Alive, Binaries, Exit, Held, TypeOK, TaskShape,
      Owners, OwnerOf, TaskAlone
<1> QED
  BY <1>1, <1>2, <1>3, <1>4, <1>5, <1>6, <1>7

\* Restart preserves the invariant.
LEMMA RestartInv ==
  ASSUME Inv, Restart
  PROVE  Inv'
<1> USE NoRecordsType, ConstantsAssumption
<1> USE DEF Inv, Records, TaskPc
<1>1. TypeOK'
  BY DEF TypeOK, ProcState, Restart, Fault, IdleTask, IdleHb, TaskShape
<1>2. TaskShape'
  BY DEF TaskShape, Restart, Fault, IdleTask, IdleHb, TypeOK
<1>3. Owners'
  BY DEF Owners, OwnerOf, Restart, Fault, IdleTask, IdleHb, TypeOK,
      TaskShape
<1>4. HeldServes'
  BY DEF HeldServes, Alive, Binaries, Restart, Fault, IdleTask, IdleHb,
      TypeOK, TaskShape, Owners, OwnerOf, TaskAlone, LiveIsHeld
<1>5. TaskAlone'
  BY DEF TaskAlone, Alive, Binaries, Restart, Fault, IdleTask, IdleHb,
      TypeOK, TaskShape, Owners, OwnerOf, HeldServes, LiveIsHeld
<1>6. LiveIsHeld'
  BY DEF LiveIsHeld, Alive, Binaries, Restart, Fault, IdleTask, IdleHb,
      TypeOK, TaskShape, Owners, OwnerOf, TaskAlone
<1>7. StoppedIsDead'
  BY DEF StoppedIsDead, Alive, Binaries, Restart, Fault, IdleTask, IdleHb,
      TypeOK, TaskShape, Owners, OwnerOf, TaskAlone
<1> QED
  BY <1>1, <1>2, <1>3, <1>4, <1>5, <1>6, <1>7

\* Every step preserves the invariant.
LEMMA NextInv == Inv /\ [Next]_vars => Inv'
<1> SUFFICES ASSUME Inv, [Next]_vars PROVE Inv'
  OBVIOUS
<1>1. CASE UNCHANGED vars
  BY <1>1 DEF vars, Inv, TypeOK, TaskShape, Owners, OwnerOf, HeldServes,
      TaskAlone, LiveIsHeld, StoppedIsDead, Alive
<1>2. CASE Next
  BY <1>2, StartInv, StopInv, MonitorInv, SpawnInv, DockerRunInv,
     NotReadyInv, ReadyInv, DockerRunFailsInv, TaskLoadInv, TaskTruncateInv,
     TaskWriteInv, TaskLoadFailsInv, RegisterInv, FindDockerInv,
     DockerStopInv, TakeHandleInv, KillInv, FindRecordInv, RefuseStopInv, TerminateInv,
     LeaveChildInv, TaskWriteFailsInv, HbLoadInv, HbCheckInv, HbCheckedInv,
     HbTruncateInv, HbWriteInv, HbSendInv, ServeInv, ExitInv, RestartInv
  DEF Next, TaskStep, HbStep
<1> QED
  BY <1>1, <1>2

\* The invariant holds in every reachable state, whatever the instances, the
\* processes and the number of faults.
THEOREM Invariance == Spec => []Inv
  BY InitInv, NextInv, PTL DEF Spec

\* Every variable keeps its type.
THEOREM TypeCorrect == Spec => []TypeOK
<1>1. Inv => TypeOK
  BY DEF Inv
<1> QED
  BY <1>1, Invariance, PTL

\* Until the first fault, the agent can stop every binary it started that is
\* alive: it holds its handle (process_registry, or the task loop itself),
\* whatever the heartbeat writes to the managed store meanwhile.
THEOREM NoProcessEscapes == Spec => []LiveIsHeld
<1>1. Inv => LiveIsHeld
  BY DEF Inv
<1> QED
  BY <1>1, Invariance, PTL

\* Until the first fault, stop_model_instance_with_store answers "stopped" only
\* for a binary of which no process lives.
THEOREM StoppedMeansDead == Spec => []StoppedIsDead
<1>1. Inv => StoppedIsDead
  BY DEF Inv
<1> QED
  BY <1>1, Invariance, PTL

\* Until the first fault, a start never displaces the handle of a process that
\* lives: check_port_available turns it away.
THEOREM HandlesAreKept == Spec => LiveHandleKept
<1> DEFINE Kept ==
      \A i \in Instances \ Scripts :
        /\ faults = 0 /\ registry[i] # None /\ registry'[i] # registry[i]
        /\ registry'[i] # None
        => ~ Alive(registry[i])
<1>1. Inv /\ [Next]_vars => [Kept]_vars
  <2> SUFFICES ASSUME Inv, Next PROVE Kept
    OBVIOUS
  <2>1. CASE Register
    BY <2>1 DEF Inv, Register, Answer, TypeOK, TaskShape, Owners, OwnerOf,
        TaskAlone, Binaries, Records
  <2>2. CASE registry' = NoRecords
    BY <2>2, NoRecordsType
  <2>3. CASE TakeHandle \/ \E i \in Instances : Monitor(i)
    BY <2>3 DEF TakeHandle, Monitor, Inv, TypeOK, Records
  <2>4. CASE UNCHANGED registry
    BY <2>4
  <2>5. Restart => registry' = NoRecords
    BY DEF Restart
  <2> QED
    BY <2>1, <2>2, <2>3, <2>4, <2>5
    DEF Next, TaskStep, HbStep, Start, Stop, Begin, Spawn, DockerRun,
        NotReady, Ready, DockerRunFails, TaskLoad, TaskTruncate, TaskWrite,
        TaskLoadFails, FindDocker, DockerStop, Kill, FindRecord, RefuseStop, Terminate,
        LeaveChild, TaskWriteFails, HbLoad, HbCheck, HbChecked, HbTruncate,
        HbWrite, HbSend, Serve, Exit
<1> QED
  BY <1>1, Invariance, PTL DEF Spec, LiveHandleKept

=============================================================================
