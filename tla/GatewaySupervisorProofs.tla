---------------------- MODULE GatewaySupervisorProofs ----------------------
(***************************************************************************)
(* Proofs about GatewaySupervisor, for any process ids, requests and       *)
(* bounds: the type invariant and the three safety invariants.  A step of  *)
(* the agent's task ends the task (Ends), goes on to another statement     *)
(* (Goes), or writes the record or the process table; what the processes   *)
(* do on their own is summed up by Aged.                                   *)
(***************************************************************************)
EXTENDS GatewaySupervisor, SequenceTheorems, TLAPS

USE DEF worldVars, serverVars

\* The next record of the task in progress.
LEMMA JobPcOnly ==
  ASSUME NEW j \in Jobs, NEW pc \in JobPc
  PROVE  LET n == [j EXCEPT !.pc = pc]
         IN n \in Jobs /\ n.of = j.of /\ n.pc = pc /\ n.pid = j.pid
            /\ n.birth = j.birth
  BY DEF Jobs

\* A queue without one of its entries.
LEMMA WithoutSeq ==
  ASSUME NEW S, NEW seq \in Seq(S), NEW i \in 1 .. Len(seq)
  PROVE  LET w == Seqs!RemoveAt(seq, i)
         IN /\ w \in Seq(S) /\ Len(w) = Len(seq) - 1
            /\ \A k \in 1 .. Len(w) :
                 w[k] = IF k < i THEN seq[k] ELSE seq[k + 1]
  <1> DEFINE a == SubSeq(seq, 1, i - 1)
             b == SubSeq(seq, i + 1, Len(seq))
  <1>1. Len(seq) \in Nat /\ i \in Nat /\ i >= 1 /\ i <= Len(seq)
    OBVIOUS
  <1>2. /\ a \in Seq(S) /\ Len(a) = i - 1
        /\ \A k \in 1 .. i - 1 : a[k] = seq[k]
    BY <1>1
  <1>3. /\ b \in Seq(S) /\ Len(b) = Len(seq) - i
        /\ \A k \in 1 .. Len(seq) - i : b[k] = seq[i + k]
    BY <1>1
  <1>4. Seqs!RemoveAt(seq, i) = a \o b
    BY DEF Seqs!RemoveAt
  <1> HIDE DEF a, b
  <1>5. /\ a \o b \in Seq(S) /\ Len(a \o b) = Len(a) + Len(b)
        /\ \A k \in 1 .. Len(a) + Len(b) :
             (a \o b)[k] = IF k <= Len(a) THEN a[k] ELSE b[k - Len(a)]
    BY <1>2, <1>3, ConcatProperties
  <1>6. Len(a) + Len(b) = Len(seq) - 1
    BY <1>1, <1>2, <1>3
  <1>7. ASSUME NEW k \in 1 .. Len(seq) - 1
        PROVE  (a \o b)[k] = IF k < i THEN seq[k] ELSE seq[k + 1]
    <2>1. CASE k < i
      <3>1. k <= Len(a) /\ k \in 1 .. i - 1
        BY <1>1, <1>2, <2>1
      <3>2. QED BY <1>2, <1>5, <1>6, <2>1, <3>1
    <2>2. CASE ~ (k < i)
      <3>1. /\ ~ (k <= Len(a)) /\ k - Len(a) \in 1 .. Len(seq) - i
            /\ i + (k - Len(a)) = k + 1
        BY <1>1, <1>2, <2>2
      <3>2. (a \o b)[k] = b[k - Len(a)]
        BY <1>5, <1>6, <3>1
      <3>3. b[k - Len(a)] = seq[k + 1]
        BY <1>3, <3>1
      <3>4. QED BY <2>2, <3>2, <3>3
    <2>3. QED BY <2>1, <2>2
  <1>8. QED BY <1>4, <1>5, <1>6, <1>7

-----------------------------------------------------------------------------
(* Steps that end the task, and steps that only go on to another statement. *)

Results == {"none", "running", "stopped", "failed", "log_available"}

Ends ==
  /\ job # None /\ job' = None
  /\ UNCHANGED <<worldVars, file, queue, unsure, killed, overlap>>
  /\ req' = req \/ req' = [req EXCEPT ![job.of] = None]
  /\ faults' \in 0 .. MaxFaults
  /\ left' \subseteq 1 .. births /\ left \cup Unsaved \subseteq left'
  /\ result' \in Results /\ (result' = "stopped" => file = None)
  /\ named' \in 0 .. births

\* A task that ends leaves the invariant as it was.
LEMMA EndsInv ==
  ASSUME Inv, Ends
  PROVE  Inv'
  <1>0. /\ TypeOK /\ job \in Jobs /\ job.of \in Requests
    BY DEF Inv, TypeOK, Ends, Jobs
  <1>1. req' \in [Requests -> Rows \cup {None}]
    BY <1>0 DEF TypeOK, Ends
  <1>2. TypeOK'
    BY <1>0, <1>1 DEF TypeOK, Ends, Results
  <1>3. Clock'
    BY DEF Inv, Clock, Ends, HasRecord
  <1>4. Queued'
    <2>1. \A i \in 1 .. Len(queue) : queue[i] \in Requests
      BY <1>0 DEF TypeOK
    <2>2. \A i \in 1 .. Len(queue) : req'[queue[i]] = req[queue[i]]
      BY <1>0, <2>1 DEF Inv, TypeOK, Queued, Ends
    <2>3. QED BY <2>2 DEF Inv, Queued, Ends
  <1>5. JobKnows' /\ Started'
    BY DEF Ends, JobKnows, Started, Saving, Working
  <1>6. Identified'
    BY DEF Inv, Ends, Identified, Saving, HasRecord, OfGateway
  <1>7. Cleared'
    BY DEF Ends, Cleared, Saving, Working
  <1>8. \A p \in Gateways : \/ proc[p].birth \in left' \/ unsure
                            \/ RecordRuns /\ file.pid = p
    BY DEF Inv, GatewayIsRecorded, Ends
  <1>9. GatewayIsRecorded'
    BY <1>8 DEF Ends, GatewayIsRecorded, Gateways, Live, RecordRuns, HasRecord,
                IsRunning
  <1>10. StoppedIsStopped'
    BY <1>8 DEF Ends, StoppedIsStopped, Gateways, Live, RecordRuns, HasRecord
  <1>11. KillsGatewaysOnly'
    BY DEF Inv, KillsGatewaysOnly, Ends
  <1>12. QED
    BY <1>2, <1>3, <1>4, <1>5, <1>6, <1>7, <1>9, <1>10, <1>11 DEF Inv

Goes(n) ==
  /\ job # None /\ n \in Jobs /\ n.of = job.of /\ job' = n
  /\ n.birth # None => n.birth \in 1 .. births
  /\ UNCHANGED <<worldVars, serverVars, result, named, file, faults, left,
                 killed, overlap>>
  /\ unsure' \in BOOLEAN /\ (unsure => unsure')

\* What remains to be seen of a task that goes on.
LEMMA GoesInv ==
  ASSUME Inv, NEW n, Goes(n),
         JobKnows', Identified', Started', Cleared',
         Saving => Saving' /\ n.pid = job.pid
  PROVE  Inv'
  <1>0. TypeOK /\ job \in Jobs /\ n # None
    BY GatewayAssumption DEF Inv, TypeOK, Goes
  <1>1. TypeOK'
    BY <1>0 DEF TypeOK, Goes
  <1>2. Clock'
    BY DEF Inv, Clock, Goes, HasRecord
  <1>3. Queued'
    BY <1>0 DEF Inv, Queued, Goes
  <1>4. GatewayIsRecorded'
    <2>1. Unsaved \subseteq Unsaved'
      BY DEF Goes, Unsaved, Saving, Gateways, Live
    <2>2. \A p \in Gateways : \/ proc[p].birth \in left \cup Unsaved \/ unsure
                              \/ RecordRuns /\ file.pid = p
      BY DEF Inv, GatewayIsRecorded
    <2>3. QED
      BY <2>1, <2>2 DEF Goes, GatewayIsRecorded, Gateways, Live, RecordRuns,
                        HasRecord, IsRunning
  <1>5. StoppedIsStopped'
    BY DEF Inv, JobKnows, Goes, StoppedIsStopped
  <1>6. KillsGatewaysOnly'
    BY DEF Inv, KillsGatewaysOnly, Goes
  <1>7. QED BY <1>1, <1>2, <1>3, <1>4, <1>5, <1>6 DEF Inv

-----------------------------------------------------------------------------
(* The agent's task. *)

\* An answer, or a failure, of a task that has started no process.
LEMMA FinishEnds ==
  ASSUME Inv, job # None, ~ Saving,
         UNCHANGED <<worldVars, file, faults, left, killed, unsure, overlap>>,
         \/ \E found \in Results :
              Finish(found) /\ (found = "stopped" => file = None)
         \/ \E birth \in (1 .. births) \cup {None} : Answer(birth)
  PROVE  Ends
  <1>1. /\ left \subseteq 1 .. births /\ faults \in 0 .. MaxFaults
        /\ births \in Nat /\ Unsaved = {}
    BY DEF Inv, TypeOK, Unsaved, Saving
  <1>2. CASE \E found \in Results :
               Finish(found) /\ (found = "stopped" => file = None)
    BY <1>1, <1>2 DEF Ends, Finish
  <1>3. CASE \E birth \in (1 .. births) \cup {None} : Answer(birth)
    BY <1>1, <1>3 DEF Ends, Answer, Results
  <1>4. QED BY <1>2, <1>3

\* What runs under the record's id was started at some time.
LEMMA RecordedBirth ==
  ASSUME Inv, RecordRuns
  PROVE  /\ HasRecord /\ file \in Records /\ file.pid \in Pids
         /\ proc[file.pid] # None /\ proc[file.pid].birth \in 1 .. births
  <1>1. HasRecord /\ file \in Records
    BY DEF RecordRuns, HasRecord, Inv, TypeOK
  <1>2. file.pid \in Pids
    BY <1>1 DEF Records
  <1>3. QED BY <1>1, <1>2 DEF RecordRuns, IsRunning, Inv, Clock

\* start_gateway starts nothing while the recorded process runs.
LEMMA StartCheckInv ==
  ASSUME Inv, StartCheck
  PROVE  Inv'
  <1>0. job # None /\ job \in Jobs /\ job.pc = "start" /\ ~ Saving
    BY DEF StartCheck, Working, Inv, TypeOK, Saving
  <1>1. CASE Finish("failed")
    BY <1>0, <1>1, FinishEnds, EndsInv DEF StartCheck, Results
  <1>2. CASE RecordRuns /\ Answer(proc[file.pid].birth)
    <2>1. proc[file.pid].birth \in 1 .. births
      BY <1>2, RecordedBirth
    <2>2. QED BY <1>0, <1>2, <2>1, FinishEnds, EndsInv DEF StartCheck
  <1>3. CASE ~ RecordRuns /\ Go([job EXCEPT !.pc = "spawn"])
    <2> DEFINE n == [job EXCEPT !.pc = "spawn"]
    <2>1. /\ n \in Jobs /\ n.of = job.of /\ n.pc = "spawn" /\ n.pid = job.pid
          /\ n.birth = job.birth
      BY <1>0, JobPcOnly DEF JobPc
    <2> HIDE DEF n
    <2>2. Goes(n)
      BY <1>0, <1>3, <2>1 DEF Goes, Go, StartCheck, n, Inv, TypeOK, Clock
    <2>3. JobKnows' /\ Started' /\ Cleared' /\ ~ Saving'
      BY <1>0, <1>3, <2>1, <2>2, GatewayAssumption
         DEF Goes, JobKnows, Started, Cleared, Working, Saving, Inv, RecordRuns,
             HasRecord, IsRunning, StartCheck
    <2>4. Identified'
      BY <1>3, <2>2, <2>3 DEF Goes, Identified, Inv, HasRecord, OfGateway, StartCheck
    <2>5. QED BY <1>0, <2>2, <2>3, <2>4, GoesInv
  <1>4. QED BY <1>1, <1>2, <1>3 DEF StartCheck

\* A gateway that was just started is about to be recorded.
LEMMA SpawnInv ==
  ASSUME Inv, Spawn
  PROVE  Inv'
  <1>0. job # None /\ job \in Jobs /\ job.pc = "spawn" /\ ~ Saving
    BY DEF Spawn, Working, Inv, TypeOK, Saving
  <1>1. CASE Finish("failed") /\ UNCHANGED worldVars
    BY <1>0, <1>1, FinishEnds, EndsInv DEF Spawn, Results
  <1>2. ASSUME NEW p \in Pids, Born(p, TRUE),
               Go([job EXCEPT !.pc = "start_time", !.pid = p,
                              !.birth = births + 1]),
               UNCHANGED port
        PROVE  Inv'
    <2> DEFINE n == [job EXCEPT !.pc = "start_time", !.pid = p,
                                !.birth = births + 1]
               new == [birth |-> births + 1, gateway |-> TRUE,
                       state |-> "starting"]
    <2>0. /\ births \in Nat /\ births' = births + 1 /\ births' \in 0 .. MaxBirths
          /\ proc[p] = None /\ proc \in [Pids -> Processes \cup {None}]
      BY <1>2, GatewayAssumption DEF Born, Inv, TypeOK
    <2>1. /\ n \in Jobs /\ n.of = job.of /\ n.pc = "start_time" /\ n.pid = p
          /\ n.birth = births + 1 /\ n # None /\ job' = n
      <3>1. /\ n \in Jobs /\ n.of = job.of /\ n.pc = "start_time" /\ n.pid = p
            /\ n.birth = births + 1
        <4>1. births + 1 \in Nat /\ "start_time" \in JobPc
          BY <2>0 DEF JobPc
        <4>2. QED BY <1>0, <4>1 DEF Jobs
      <3>2. job' = n
        BY <1>2 DEF Go
      <3>3. QED BY <3>1, <3>2, GatewayAssumption
    <2>2. /\ new \in Processes /\ new # None /\ new.birth = births + 1
          /\ new.gateway
      <3>1. births + 1 \in Nat
        BY <2>0
      <3>2. new \in Processes
        BY <3>1 DEF Processes, States
      <3>3. QED BY <3>2, GatewayAssumption
    <2>3. proc' = [proc EXCEPT ![p] = new]
      BY <1>2 DEF Born
    <2> HIDE DEF n, new
    <2>4. /\ proc'[p] = new
          /\ \A q \in Pids \ {p} : proc'[q] = proc[q]
      BY <2>0, <2>3
    <2>5. UNCHANGED <<port, file, req, queue, faults, left, killed, unsure,
                      overlap, result, named>>
      BY <1>2 DEF Spawn, Go
    <2>6. TypeOK'
      <3>1. proc' \in [Pids -> Processes \cup {None}]
        BY <2>0, <2>2, <2>3
      <3>2. QED BY <2>0, <2>1, <2>5, <3>1 DEF Inv, TypeOK
    <2>7. Clock'
      BY <2>0, <2>1, <2>2, <2>4, <2>5 DEF Inv, Clock, HasRecord
    <2>8. Queued'
      BY <1>0, <2>1, <2>5 DEF Inv, Queued
    <2>9. JobKnows' /\ Started'
      BY <1>0, <2>0, <2>1, <2>2, <2>4, <2>5, GatewayAssumption
         DEF Inv, JobKnows, Started, Saving, Working
    <2>10. Identified'
      <3>1. HasRecord /\ OfGateway(file.birth) => OfGateway(file.birth)'
        BY <2>2, <2>4, <2>5 DEF OfGateway
      <3>2. births + 1 # None
        BY <2>0, GatewayAssumption
      <3>3. \A q \in Pids : proc'[q] # None /\ proc'[q].birth = births + 1
                              => proc'[q].gateway
        BY <2>0, <2>2, <2>4 DEF Inv, Clock
      <3>4. OfGateway(job.birth)'
        BY <2>1, <3>2, <3>3 DEF OfGateway
      <3>5. QED BY <2>5, <3>1, <3>4 DEF Inv, Identified, HasRecord
    <2>11. unsure \/ ~ RecordRuns'
      <3>1. ASSUME ~ unsure, RecordRuns' PROVE FALSE
        <4>1. /\ HasRecord /\ file \in Records /\ file.pid \in Pids
              /\ file.birth # None /\ file.birth \in 1 .. births
          BY <2>5, <3>1 DEF RecordRuns, HasRecord, Inv, TypeOK, Records,
                            Identified, OfGateway, Clock
        <4>2. proc'[file.pid] # None /\ proc'[file.pid].birth = file.birth
          BY <2>5, <3>1, <4>1 DEF RecordRuns, HasRecord, IsRunning
        <4>3. file.pid # p
          BY <2>0, <2>2, <2>4, <4>1, <4>2
        <4>4. RecordRuns
          BY <2>4, <4>1, <4>2, <4>3 DEF RecordRuns, IsRunning
        <4>5. QED BY <1>0, <3>1, <4>4 DEF Inv, Cleared, Working
      <3>2. QED BY <3>1
    <2>12. Cleared'
      BY <1>0, <2>1, <2>5, <2>11 DEF Inv, Cleared, JobKnows, Working, Saving
    <2>13. GatewayIsRecorded'
      <3>1. ASSUME NEW q \in Pids, Live(q)', proc'[q].gateway
            PROVE  \/ proc'[q].birth \in left \/ proc'[q].birth \in Unsaved'
                   \/ unsure \/ (RecordRuns' /\ file.pid = q)
        <4>1. CASE q = p
          BY <2>1, <3>1, <4>1 DEF Unsaved, Gateways
        <4>2. CASE q # p
          <5>1. q \in Gateways
            BY <2>4, <3>1, <4>2 DEF Gateways, Live
          <5>2. \/ proc[q].birth \in left \/ unsure
                \/ RecordRuns /\ file.pid = q
            BY <1>0, <5>1 DEF Inv, GatewayIsRecorded, Unsaved, Saving
          <5>3. QED
            BY <2>4, <2>5, <4>2, <5>2 DEF RecordRuns, HasRecord, IsRunning
        <4>3. QED BY <4>1, <4>2
      <3>2. QED BY <2>5, <3>1 DEF GatewayIsRecorded, Gateways
    <2>14. StoppedIsStopped' /\ KillsGatewaysOnly'
      BY <1>0, <2>5 DEF Inv, JobKnows, StoppedIsStopped, KillsGatewaysOnly
    <2>15. QED
      BY <2>6, <2>7, <2>8, <2>9, <2>10, <2>12, <2>13, <2>14 DEF Inv
  <1>3. QED BY <1>1, <1>2 DEF Spawn

\* The start time that is read is the gateway's, or the record is unsure.
LEMMA ReadStartTimeInv ==
  ASSUME Inv, ReadStartTime
  PROVE  Inv'
  <1>0. /\ job # None /\ job \in Jobs /\ job.pc = "start_time"
        /\ job.pid \in Pids /\ Saving
    BY DEF ReadStartTime, Working, Inv, TypeOK, Saving, JobKnows
  <1> DEFINE birth == IF proc[job.pid] = None THEN None
                      ELSE proc[job.pid].birth
             n == [job EXCEPT !.pc = "truncate", !.birth = birth]
  <1>1. birth = None \/ birth \in 1 .. births
    BY <1>0 DEF Inv, Clock
  <1>2. birth \in Nat \cup {None}
    BY <1>1 DEF Inv, TypeOK
  <1>3. Go(n) /\ unsure' = (unsure \/ birth # job.birth)
    BY DEF ReadStartTime
  <1>4. proc[job.pid] # None => birth = proc[job.pid].birth
    OBVIOUS
  <1> HIDE DEF birth
  <1>5. /\ n \in Jobs /\ n.of = job.of /\ n.pc = "truncate" /\ n.pid = job.pid
        /\ n.birth = birth
    <2>1. "truncate" \in JobPc
      BY DEF JobPc
    <2>2. QED BY <1>0, <1>2, <2>1 DEF Jobs
  <1> HIDE DEF n
  <1>6. Goes(n)
    <2>1. n.birth # None => n.birth \in 1 .. births
      BY <1>1, <1>5
    <2>2. unsure' \in BOOLEAN /\ (unsure => unsure')
      BY <1>3 DEF Inv, TypeOK
    <2>3. job' = n /\ UNCHANGED <<worldVars, serverVars, result, named, file,
                                  faults, left, killed, overlap>>
      BY <1>3 DEF Go, ReadStartTime
    <2>4. QED BY <1>0, <1>5, <2>1, <2>2, <2>3 DEF Goes
  <1>7. job' = n /\ n # None
    BY <1>5, <1>6, GatewayAssumption DEF Goes
  <1>8. JobKnows' /\ Cleared' /\ Saving'
    BY <1>0, <1>5, <1>6, <1>7
       DEF Goes, JobKnows, Cleared, Working, Saving, Inv, RecordRuns,
           HasRecord, IsRunning
  <1>9. Started'
    BY <1>4, <1>5, <1>6, <1>7 DEF Goes, Started, Gateways, Live
  <1>10. Identified'
    <2>1. CASE unsure'
      BY <2>1 DEF Identified
    <2>2. CASE ~ unsure'
      <3>1. ~ unsure /\ birth = job.birth
        BY <1>3, <2>2
      <3>2. (HasRecord => OfGateway(file.birth)) /\ OfGateway(job.birth)
        BY <1>0, <3>1 DEF Inv, Identified
      <3>3. QED
        BY <1>5, <1>6, <1>7, <3>1, <3>2
           DEF Goes, Identified, HasRecord, OfGateway
    <2>3. QED BY <2>1, <2>2
  <1>11. QED BY <1>0, <1>5, <1>6, <1>8, <1>9, <1>10, GoesInv

\* Emptying the record loses no gateway: what it named runs no more.
LEMMA SaveTruncateInv ==
  ASSUME Inv, SaveTruncate
  PROVE  Inv'
  <1>0. /\ job # None /\ job \in Jobs /\ job.pc = "truncate"
        /\ job.pid \in Pids /\ Saving
    BY DEF SaveTruncate, Working, Inv, TypeOK, Saving, JobKnows
  <1> DEFINE n == [job EXCEPT !.pc = "write"]
  <1>1. /\ n \in Jobs /\ n.of = job.of /\ n.pc = "write" /\ n.pid = job.pid
        /\ n.birth = job.birth
    BY <1>0, JobPcOnly DEF JobPc
  <1>2. job' = n /\ file' = Truncated
    BY DEF SaveTruncate, Go
  <1> HIDE DEF n
  <1>3. n # None
    BY <1>1, GatewayAssumption
  <1>4. UNCHANGED <<worldVars, serverVars, result, named, faults, left, killed,
                    unsure, overlap>>
    BY DEF SaveTruncate, Go
  <1>5. ~ HasRecord'
    BY <1>2 DEF HasRecord
  <1>6. TypeOK' /\ Clock' /\ Queued'
    BY <1>0, <1>1, <1>2, <1>3, <1>4, <1>5 DEF Inv, TypeOK, Clock, Queued
  <1>7. JobKnows' /\ Cleared'
    BY <1>0, <1>1, <1>2, <1>3, <1>4, <1>5
       DEF Inv, JobKnows, Cleared, Saving, Working, RecordRuns
  <1>8. Identified' /\ Started'
    BY <1>0, <1>1, <1>2, <1>3, <1>4, <1>5
       DEF Inv, Identified, Started, Saving, OfGateway, Gateways, Live
  <1>9. GatewayIsRecorded'
    <2>1. Unsaved' = Unsaved
      BY <1>0, <1>1, <1>2, <1>3, <1>4 DEF Unsaved, Gateways, Live
    <2>2. unsure \/ ~ RecordRuns
      BY <1>0 DEF Inv, Cleared
    <2>3. QED BY <1>4, <2>1, <2>2 DEF Inv, GatewayIsRecorded, Gateways, Live
  <1>10. StoppedIsStopped' /\ KillsGatewaysOnly'
    BY <1>0, <1>4 DEF Inv, JobKnows, StoppedIsStopped, KillsGatewaysOnly
  <1>11. QED BY <1>6, <1>7, <1>8, <1>9, <1>10 DEF Inv

\* The record that is written names the gateway that was started.
LEMMA SaveWriteInv ==
  ASSUME Inv, SaveWrite
  PROVE  Inv'
  <1>0. /\ job # None /\ job \in Jobs /\ job.pc = "write" /\ job.of \in Requests
        /\ job.pid \in Pids /\ job.birth \in Nat \cup {None} /\ Saving
    BY DEF SaveWrite, Working, Inv, TypeOK, Saving, JobKnows, Jobs
  <1> DEFINE rec == [pid |-> job.pid, birth |-> job.birth]
  <1>1. /\ rec \in Records /\ rec.pid = job.pid /\ rec.birth = job.birth
    BY <1>0 DEF Records
  <1>2. /\ file' = rec /\ job' = None /\ result' = "running"
        /\ named' = IF job.birth = None THEN 0 ELSE job.birth
        /\ req' = [req EXCEPT ![job.of] = None]
        /\ UNCHANGED <<worldVars, queue, faults, left, killed, unsure, overlap>>
    BY DEF SaveWrite, Answer
  <1> HIDE DEF rec
  <1>3. HasRecord' /\ ~ Saving'
    BY <1>1, <1>2, GatewayAssumption DEF HasRecord, Saving
  <1>4. job.birth # None => job.birth \in 1 .. births
    BY <1>0 DEF Inv, Clock
  <1>5. TypeOK'
    <2>1. req' \in [Requests -> Rows \cup {None}]
      BY <1>0, <1>2 DEF Inv, TypeOK
    <2>2. named' \in 0 .. births
      BY <1>2, <1>4 DEF Inv, TypeOK
    <2>3. QED BY <1>1, <1>2, <2>1, <2>2 DEF Inv, TypeOK
  <1>6. Clock'
    BY <1>1, <1>2, <1>4 DEF Inv, Clock
  <1>7. Queued'
    <2>1. \A i \in 1 .. Len(queue) : queue[i] \in Requests
      BY DEF Inv, TypeOK
    <2>2. \A i \in 1 .. Len(queue) : req'[queue[i]] = req[queue[i]]
      BY <1>0, <1>2, <2>1 DEF Inv, TypeOK, Queued
    <2>3. QED BY <1>2, <2>2 DEF Inv, Queued
  <1>8. JobKnows' /\ Cleared' /\ Started'
    BY <1>2, <1>3 DEF JobKnows, Cleared, Started, Working, Saving
  <1>9. Identified'
    BY <1>0, <1>1, <1>2, <1>3 DEF Inv, Identified, OfGateway
  <1>10. GatewayIsRecorded'
    <2>1. \A p \in Gateways : p = job.pid => proc[p].birth = job.birth
      BY <1>0 DEF Inv, Started
    <2>2. \A p \in Gateways : \/ p = job.pid \/ unsure
                              \/ proc[p].birth \in left \cup Unsaved
      BY <1>0 DEF Inv, GatewayIsRecorded, Cleared, Saving
    <2>3. \A p \in Gateways : \/ p = job.pid \/ unsure
                              \/ proc[p].birth \in left
      BY <1>0, <2>2 DEF Unsaved, Gateways, Live, Inv, Clock
    <2>4. job.pid \in Gateways => RecordRuns'
      BY <1>1, <1>2, <1>3, <2>1 DEF RecordRuns, IsRunning, Gateways, Live
    <2>5. QED
      BY <1>1, <1>2, <2>3, <2>4 DEF GatewayIsRecorded, Gateways, Live
  <1>11. StoppedIsStopped' /\ KillsGatewaysOnly'
    BY <1>2 DEF Inv, StoppedIsStopped, KillsGatewaysOnly
  <1>12. QED BY <1>5, <1>6, <1>7, <1>8, <1>9, <1>10, <1>11 DEF Inv

\* A write that fails, or a restart, leaves the gateway it had started.
LEMMA CutShort ==
  ASSUME Inv, SaveFails \/ RestartAgent
  PROVE  Inv'
  <1>1. left \subseteq 1 .. births /\ faults' \in 0 .. MaxFaults
    BY GatewayAssumption DEF Inv, TypeOK, SaveFails, RestartAgent
  <1>2. Unsaved \subseteq 1 .. births
    BY DEF Unsaved, Gateways, Live, Inv, Clock
  <1>3. CASE SaveFails
    <2>1. Ends
      BY <1>1, <1>2, <1>3 DEF SaveFails, Finish, Working, Ends, Results, Inv, TypeOK
    <2>2. QED BY <2>1, EndsInv
  <1>4. CASE RestartAgent
    <2>1. job # None => result = "none"
      BY DEF Inv, JobKnows
    <2>2. Ends
      BY <1>1, <1>2, <1>4, <2>1 DEF RestartAgent, Ends, Results, Inv, TypeOK
    <2>3. QED BY <2>2, EndsInv
  <1>5. QED BY <1>3, <1>4

\* stop_gateway is about to kill what is on record, or to forget what is gone.
LEMMA StopCheckInv ==
  ASSUME Inv, StopCheck
  PROVE  Inv'
  <1>0. job # None /\ job \in Jobs /\ job.pc = "stop" /\ ~ Saving
    BY DEF StopCheck, Working, Inv, TypeOK, Saving
  <1>1. UNCHANGED <<worldVars, file, faults, left, killed, unsure, overlap>>
    BY DEF StopCheck
  \* To kill, to remove, or to start, nothing else has changed.
  <1>2. ASSUME NEW n \in Jobs, n.of = job.of, Go(n),
               n.pc \in {"start", "kill", "remove"},
               n.birth # None => n.birth \in 1 .. births,
               n.pc = "kill" => /\ HasRecord /\ n.pid = file.pid
                                /\ n.pid \in Pids
                                /\ unsure \/ n.birth = file.birth,
               n.pc = "remove" => ~ RecordRuns
        PROVE  Inv'
    <2>1. Goes(n) /\ job' = n /\ n # None
      BY <1>0, <1>1, <1>2, GatewayAssumption DEF Goes, Go, Inv, TypeOK
    <2>2. ~ Saving' /\ Started'
      BY <1>2, <2>1 DEF Saving, Started
    <2>3. JobKnows' /\ Cleared'
      BY <1>0, <1>1, <1>2, <2>1, <2>2
         DEF Goes, JobKnows, Cleared, Working, Inv, RecordRuns, HasRecord,
             IsRunning
    <2>4. Identified'
      BY <1>1, <2>2 DEF Inv, Identified, HasRecord, OfGateway
    <2>5. QED BY <1>0, <2>1, <2>2, <2>3, <2>4, GoesInv
  <1>3. CASE file = None /\ AfterStop
    <2>1. CASE Finish("stopped")
      BY <1>0, <1>1, <1>3, <2>1, FinishEnds, EndsInv DEF Results
    <2>2. CASE Go([job EXCEPT !.pc = "start", !.pid = None, !.birth = None])
      <3> DEFINE n == [job EXCEPT !.pc = "start", !.pid = None, !.birth = None]
      <3>1. "start" \in JobPc
        BY DEF JobPc
      <3>2. n \in Jobs /\ n.of = job.of /\ n.pc = "start" /\ n.birth = None
        BY <1>0, <3>1 DEF Jobs
      <3>3. Go(n)
        BY <2>2
      <3> HIDE DEF n
      <3>4. QED BY <1>2, <3>2, <3>3
    <2>3. QED BY <1>3, <2>1, <2>2 DEF AfterStop
  <1>4. CASE file = Truncated /\ Finish("failed")
    BY <1>0, <1>1, <1>4, FinishEnds, EndsInv DEF Results
  <1>5. CASE RecordRuns /\ Go([job EXCEPT !.pc = "kill", !.pid = file.pid,
                                          !.birth = proc[file.pid].birth])
    <2> DEFINE b == proc[file.pid].birth
               n == [job EXCEPT !.pc = "kill", !.pid = file.pid, !.birth = b]
    <2>1. HasRecord /\ file.pid \in Pids /\ b \in 1 .. births
      BY <1>5, RecordedBirth
    <2>2. unsure \/ b = file.birth
      BY <1>5, <2>1 DEF RecordRuns, IsRunning, Inv, Identified, OfGateway
    <2>3. Go(n)
      BY <1>5
    <2> HIDE DEF b
    <2>4. /\ n \in Jobs /\ n.of = job.of /\ n.pc = "kill" /\ n.pid = file.pid
          /\ n.birth = b
      <3>1. "kill" \in JobPc /\ b \in Nat
        BY <2>1 DEF JobPc, Inv, TypeOK
      <3>2. QED BY <1>0, <2>1, <3>1 DEF Jobs
    <2> HIDE DEF n
    <2>5. QED BY <1>2, <2>1, <2>2, <2>3, <2>4
  <1>6. CASE ~ RecordRuns /\ Go([job EXCEPT !.pc = "remove"])
    <2> DEFINE n == [job EXCEPT !.pc = "remove"]
    <2>1. /\ n \in Jobs /\ n.of = job.of /\ n.pc = "remove"
          /\ n.birth = job.birth
      BY <1>0, JobPcOnly DEF JobPc
    <2>2. n.birth # None => n.birth \in 1 .. births
      BY <1>0, <2>1 DEF Inv, Clock
    <2>3. Go(n)
      BY <1>6
    <2> HIDE DEF n
    <2>4. QED BY <1>2, <1>6, <2>1, <2>2, <2>3
  <1>7. QED
    <2>1. RecordRuns => file # None /\ file # Truncated
      BY DEF RecordRuns, HasRecord
    <2>2. QED
      BY <1>3, <1>4, <1>5, <1>6, <2>1, GatewayAssumption DEF StopCheck

\* The gateway that was killed is no longer live, and so may lose its record.
LEMMA KillInv ==
  ASSUME Inv, Kill
  PROVE  Inv'
  <1>0. /\ job # None /\ job \in Jobs /\ job.pc = "kill" /\ ~ Saving
        /\ job.pid \in Pids /\ HasRecord /\ file.pid = job.pid
        /\ unsure \/ job.birth = file.birth
    BY DEF Kill, Working, Inv, TypeOK, Saving, JobKnows
  <1>1. CASE proc[job.pid] = None
    <2>1. UNCHANGED <<worldVars, file, faults, left, killed, unsure, overlap>>
      BY <1>1 DEF Kill
    <2>2. QED
      BY <1>0, <1>1, <2>1, FinishEnds, EndsInv DEF Kill, Results
  <1>2. CASE proc[job.pid] # None
    <2> DEFINE p == job.pid
               n == [job EXCEPT !.pc = "remove"]
    <2>1. /\ proc \in [Pids -> Processes \cup {None}] /\ proc[p] \in Processes
          /\ p \in Pids
      BY <1>0, <1>2 DEF Inv, TypeOK
    <2>2. /\ n \in Jobs /\ n.of = job.of /\ n.pc = "remove" /\ n.pid = p
          /\ n.birth = job.birth
      BY <1>0, JobPcOnly DEF JobPc
    <2>3. job' = n
      BY <1>2 DEF Kill, Go
    <2>4. /\ UNCHANGED <<births, port, file, faults, left, overlap, req, queue,
                         result, named>>
          /\ unsure' = (unsure \/ proc[p].birth # job.birth)
          /\ killed' = IF proc[p].gateway THEN killed
                       ELSE killed \cup {proc[p].birth}
      BY <1>2 DEF Kill, Go
    <2>5. proc' = IF proc[p].state = "zombie" THEN proc
                  ELSE [proc EXCEPT ![p].state = "dying"]
      BY <1>2 DEF Kill
    <2> HIDE DEF n
    <2>6. /\ proc' \in [Pids -> Processes \cup {None}]
          /\ \A q \in Pids \ {p} : proc'[q] = proc[q]
          /\ proc'[p] \in Processes /\ proc'[p] # None
          /\ proc'[p].birth = proc[p].birth
          /\ proc'[p].gateway = proc[p].gateway
          /\ proc'[p].state \in {"zombie", "dying"}
      <3>1. CASE proc[p].state = "zombie"
        BY <1>2, <2>1, <2>5, <3>1
      <3>2. CASE proc[p].state # "zombie"
        <4> DEFINE d == [proc[p] EXCEPT !.state = "dying"]
        <4>1. proc' = [proc EXCEPT ![p] = d]
          BY <2>1, <2>5, <3>2
        <4>2. /\ d \in Processes /\ d.birth = proc[p].birth
              /\ d.gateway = proc[p].gateway /\ d.state = "dying"
          BY <2>1 DEF Processes, States
        <4>3. d # None
          BY <4>2, GatewayAssumption
        <4> HIDE DEF d
        <4>4. QED BY <2>1, <4>1, <4>2, <4>3
      <3>3. QED BY <3>1, <3>2
    <2>7. n # None /\ ~ Saving'
      BY <2>2, <2>3, GatewayAssumption DEF Saving
    <2>8. proc[p].birth \in 1 .. births /\ births \in Nat
      BY <1>2, <2>1 DEF Inv, Clock, TypeOK
    <2>9. TypeOK'
      BY <2>2, <2>3, <2>4, <2>6, <2>8 DEF Inv, TypeOK
    <2>10. Clock'
      <3>1. \A q \in Pids : /\ proc'[q] # None <=> proc[q] # None
                            /\ proc[q] # None => proc'[q].birth = proc[q].birth
        BY <1>2, <2>6
      <3>2. QED
        BY <1>0, <2>2, <2>3, <2>4, <2>7, <3>1 DEF Inv, Clock, HasRecord
    <2>11. Queued'
      BY <1>0, <2>2, <2>3, <2>4 DEF Inv, Queued
    <2>12. proc'[p].state \notin {"starting", "serving"}
      BY <2>6
    <2>13. JobKnows' /\ Started' /\ Cleared'
      <3>1. ~ Live(file.pid)'
        BY <1>0, <2>4, <2>12 DEF Live
      <3>2. QED
        BY <1>0, <2>2, <2>3, <2>4, <2>7, <3>1
           DEF Inv, JobKnows, Started, Cleared, Working, Saving
    <2>14. Identified'
      <3>1. OfGateway(file.birth) => OfGateway(file.birth)'
        BY <1>2, <2>4, <2>6 DEF OfGateway
      <3>2. QED
        BY <2>4, <2>7, <3>1 DEF Inv, Identified, HasRecord
    <2>15. GatewayIsRecorded'
      <3>1. ASSUME NEW q \in Gateways'
            PROVE  q \in Gateways /\ q # p /\ proc'[q] = proc[q]
        BY <2>6, <2>12, <3>1 DEF Gateways, Live
      <3>2. ASSUME NEW q \in Gateways, q # p
            PROVE  proc[q].birth \in left \/ unsure
        BY <1>0, <3>2 DEF Inv, GatewayIsRecorded, Unsaved, Saving
      <3>3. QED BY <2>4, <3>1, <3>2 DEF GatewayIsRecorded
    <2>16. StoppedIsStopped'
      BY <1>0, <2>4 DEF Inv, JobKnows, StoppedIsStopped
    <2>17. KillsGatewaysOnly'
      <3>1. ~ proc[p].gateway => unsure \/ proc[p].birth # job.birth
        BY <1>0, <1>2, <2>1 DEF Inv, Identified, OfGateway
      <3>2. QED BY <2>4, <3>1 DEF Inv, KillsGatewaysOnly
    <2>18. QED
      BY <2>9, <2>10, <2>11, <2>13, <2>14, <2>15, <2>16, <2>17 DEF Inv
  <1>3. QED BY <1>1, <1>2

\* Removing the record loses no gateway either.
LEMMA RemoveInv ==
  ASSUME Inv, Remove
  PROVE  Inv'
  <1>0. /\ job # None /\ job \in Jobs /\ job.pc = "remove" /\ ~ Saving
        /\ file' = None /\ result = "none" /\ job.of \in Requests
        /\ UNCHANGED <<worldVars, faults, left, killed, unsure, overlap, queue>>
    BY DEF Remove, AfterStop, Finish, Go, Working, Inv, TypeOK, Saving,
           JobKnows, Jobs
  <1>1. ~ HasRecord' /\ ~ RecordRuns'
    BY <1>0 DEF HasRecord, RecordRuns
  <1>2. \A p \in Gateways : proc[p].birth \in left \/ unsure
    BY <1>0 DEF Inv, GatewayIsRecorded, Cleared, Working, Unsaved, Saving,
                Gateways
  <1>3. GatewayIsRecorded' /\ StoppedIsStopped'
    BY <1>0, <1>2 DEF GatewayIsRecorded, StoppedIsStopped, Gateways, Live
  <1>4. KillsGatewaysOnly'
    BY <1>0 DEF Inv, KillsGatewaysOnly
  <1>5. CASE Finish("stopped")
    <2>1. /\ job' = None /\ result' = "stopped" /\ named' = 0
          /\ req' = [req EXCEPT ![job.of] = None]
      BY <1>5 DEF Finish
    <2>2. req' \in [Requests -> Rows \cup {None}]
      BY <1>0, <2>1 DEF Inv, TypeOK
    <2>3. TypeOK'
      BY <1>0, <2>1, <2>2 DEF Inv, TypeOK
    <2>4. Clock' /\ Identified'
      BY <1>0, <1>1, <2>1 DEF Inv, Clock, Identified, Saving
    <2>5. Queued'
      <3>1. \A i \in 1 .. Len(queue) : queue[i] \in Requests
        BY DEF Inv, TypeOK
      <3>2. \A i \in 1 .. Len(queue) : req'[queue[i]] = req[queue[i]]
        BY <1>0, <2>1, <3>1 DEF Inv, TypeOK, Queued
      <3>3. QED BY <1>0, <2>1, <3>2 DEF Inv, Queued
    <2>6. JobKnows' /\ Cleared' /\ Started'
      BY <1>0, <2>1 DEF JobKnows, Cleared, Started, Working, Saving
    <2>7. QED BY <1>3, <1>4, <2>3, <2>4, <2>5, <2>6 DEF Inv
  <1>6. CASE Go([job EXCEPT !.pc = "start", !.pid = None, !.birth = None])
    <2> DEFINE n == [job EXCEPT !.pc = "start", !.pid = None, !.birth = None]
    <2>1. "start" \in JobPc
      BY DEF JobPc
    <2>2. n \in Jobs /\ n.of = job.of /\ n.pc = "start" /\ n.birth = None
      BY <1>0, <2>1 DEF Jobs
    <2>3. job' = n /\ UNCHANGED <<req, result, named>>
      BY <1>6 DEF Go
    <2> HIDE DEF n
    <2>4. n # None
      BY <2>2, GatewayAssumption
    <2>5. TypeOK'
      BY <1>0, <2>2, <2>3 DEF Inv, TypeOK
    <2>6. Clock' /\ Identified'
      BY <1>0, <1>1, <2>2, <2>3, <2>4 DEF Inv, Clock, Identified, Saving
    <2>7. Queued'
      BY <1>0, <2>2, <2>3 DEF Inv, Queued
    <2>8. JobKnows' /\ Cleared' /\ Started'
      BY <1>0, <2>2, <2>3 DEF JobKnows, Cleared, Started, Working, Saving
    <2>9. QED BY <1>3, <1>4, <2>5, <2>6, <2>7, <2>8 DEF Inv
  <1>7. QED BY <1>5, <1>6 DEF Remove, AfterStop

\* check_gateway and read_gateway_log only answer.
LEMMA AnswersInv ==
  ASSUME Inv, Check \/ ReadLog
  PROVE  Inv'
  <1>0. /\ job # None /\ ~ Saving
        /\ UNCHANGED <<worldVars, file, faults, left, killed, unsure, overlap>>
    BY DEF Check, ReadLog, Working, Saving
  <1>1. RecordRuns => proc[file.pid].birth \in 1 .. births
    BY RecordedBirth
  <1>2. QED
    BY <1>0, <1>1, FinishEnds, EndsInv DEF Check, ReadLog, Results

-----------------------------------------------------------------------------
(* Processes, which start, end and are reaped on their own. *)

\* An id is free, or keeps its process, or has one that was just started and
\* is no gateway.
Aged ==
  /\ births \in Nat /\ births' \in births .. MaxBirths
  /\ \A p \in Pids :
       \/ proc'[p] = None
       \/ /\ proc[p] # None /\ proc'[p] # None
          /\ proc'[p].birth = proc[p].birth
          /\ proc'[p].gateway = proc[p].gateway
          /\ proc'[p].state \in {"starting", "serving"}
               => proc[p].state \in {"starting", "serving"}
       \/ /\ proc[p] = None /\ proc'[p] # None
          /\ births' = births + 1 /\ proc'[p].birth = births'
          /\ ~ proc'[p].gateway
          /\ \A q \in Pids \ {p} : proc'[q] = proc[q]
  /\ proc' \in [Pids -> Processes \cup {None}]
  /\ port' \in 0 .. births' /\ overlap' \in BOOLEAN /\ faults' \in 0 .. MaxFaults
  /\ UNCHANGED <<file, job, serverVars, left, killed, unsure, result, named>>

\* What processes do on their own loses no gateway and fits no record.
LEMMA AgedInv ==
  ASSUME Inv, Aged
  PROVE  Inv'
  <1>0. UNCHANGED <<file, job, req, queue, left, killed, unsure, result, named>>
    BY DEF Aged
  <1>1. TypeOK'
    BY DEF Inv, TypeOK, Aged
  <1>2. Clock'
    <2>1. \A b \in 1 .. births : b \in 1 .. births'
      BY DEF Aged
    <2>2. ASSUME NEW p \in Pids, proc'[p] # None
          PROVE  proc'[p].birth \in 1 .. births'
      BY <2>1, <2>2 DEF Aged, Inv, Clock
    <2>3. ASSUME NEW p \in Pids, proc'[p] # None,
                 NEW q \in Pids, proc'[q] # None,
                 proc'[q].birth = proc'[p].birth
          PROVE  q = p
      <3>1. CASE proc[p] # None /\ proc[q] # None
        BY <2>3, <3>1 DEF Aged, Inv, Clock
      <3>2. CASE proc[p] = None
        BY <2>3, <3>2 DEF Aged, Inv, Clock
      <3>3. CASE proc[q] = None
        BY <2>3, <3>3 DEF Aged, Inv, Clock
      <3>4. QED BY <3>1, <3>2, <3>3
    <2>4. QED BY <1>0, <2>1, <2>2, <2>3 DEF Inv, Clock, HasRecord
  <1>3. Queued'
    BY <1>0 DEF Inv, Queued
  <1>4. JobKnows'
    BY <1>0 DEF Inv, JobKnows, Saving, Working, HasRecord
  <1>5. ASSUME NEW birth \in 1 .. births, OfGateway(birth)
        PROVE  OfGateway(birth)'
    BY <1>5 DEF OfGateway, Aged
  <1>6. Identified'
    <2>1. CASE unsure
      BY <1>0, <2>1 DEF Identified
    <2>2. ASSUME ~ unsure, HasRecord PROVE OfGateway(file.birth)'
      <3>1. OfGateway(file.birth) /\ file.birth \in 1 .. births
        BY <2>2 DEF Inv, Identified, OfGateway, Clock
      <3>2. PICK b \in 1 .. births : b = file.birth
        BY <3>1
      <3>3. OfGateway(b)'
        BY <1>5, <3>1, <3>2
      <3>4. QED BY <1>0, <3>2, <3>3 DEF OfGateway
    <2>3. ASSUME ~ unsure, Saving PROVE OfGateway(job.birth)'
      <3>1. OfGateway(job.birth) /\ job.birth \in 1 .. births
        BY <2>3 DEF Inv, Identified, OfGateway, Clock, Saving
      <3>2. PICK b \in 1 .. births : b = job.birth
        BY <3>1
      <3>3. OfGateway(b)'
        BY <1>5, <3>1, <3>2
      <3>4. QED BY <1>0, <3>2, <3>3 DEF OfGateway
    <2>4. QED
      BY <1>0, <2>1, <2>2, <2>3 DEF Identified, HasRecord, Saving
  \* No id comes to be that of a live gateway.
  <1>7. ASSUME NEW p \in Gateways'
        PROVE  /\ p \in Gateways /\ p \in Pids /\ proc[p] # None
               /\ proc'[p] # None /\ proc'[p].birth = proc[p].birth
    BY DEF Gateways, Live, Aged
  <1>8. Started'
    <2>1. Saving' <=> Saving
      BY <1>0 DEF Saving
    <2>2. QED BY <1>0, <1>7, <2>1 DEF Inv, Started
  \* Nor does a record come to name what runs, if it names a start time.
  <1>9. ASSUME ~ unsure, RecordRuns'
        PROVE  RecordRuns /\ (Live(file.pid)' => Live(file.pid))
    <2>1. /\ HasRecord /\ file.pid \in Pids /\ file.birth \in 1 .. births
      BY <1>0, <1>9 DEF RecordRuns, HasRecord, Inv, TypeOK, Records,
                        Identified, OfGateway, Clock
    <2>2. proc'[file.pid] # None /\ proc'[file.pid].birth = file.birth
      BY <1>0, <1>9, <2>1, GatewayAssumption
         DEF RecordRuns, HasRecord, IsRunning, Inv, TypeOK
    <2>3. /\ proc[file.pid] # None
          /\ proc'[file.pid].birth = proc[file.pid].birth
          /\ proc'[file.pid].state \in {"starting", "serving"}
               => proc[file.pid].state \in {"starting", "serving"}
      BY <2>1, <2>2 DEF Aged
    <2>4. RecordRuns
      BY <2>1, <2>2, <2>3 DEF RecordRuns, IsRunning
    <2>5. Live(file.pid)' => Live(file.pid)
      BY <1>0, <2>3 DEF Live
    <2>6. QED BY <2>4, <2>5
  <1>10. Cleared'
    <2>1. \/ unsure
          \/ /\ RecordRuns' => RecordRuns
             /\ RecordRuns' /\ Live(file.pid)' => Live(file.pid)
      BY <1>9
    <2>2. QED BY <1>0, <2>1 DEF Inv, Cleared, Working, Saving
  <1>11. GatewayIsRecorded'
    <2>0. \A p \in Gateways :
            \/ proc[p].birth \in left \/ proc[p].birth \in Unsaved
            \/ unsure \/ (RecordRuns /\ file.pid = p)
      <3>1. GatewayIsRecorded
        BY DEF Inv
      <3>2. QED BY <3>1 DEF GatewayIsRecorded
    <2>1. ASSUME NEW p \in Gateways', proc[p].birth \in Unsaved
          PROVE  proc'[p].birth \in Unsaved'
      <3>1. /\ job # None /\ job.pc \in {"start_time", "truncate", "write"}
            /\ p = job.pid
        BY <1>7, <2>1 DEF Unsaved, Gateways, Live, Inv, Clock
      <3>2. QED BY <1>0, <3>1 DEF Unsaved
    <2>2. ASSUME NEW p \in Gateways', RecordRuns, file.pid = p
          PROVE  RecordRuns'
      BY <1>0, <1>7, <2>2 DEF RecordRuns, HasRecord, IsRunning
    <2>3. ASSUME NEW p \in Gateways'
          PROVE  \/ proc'[p].birth \in left \/ proc'[p].birth \in Unsaved'
                 \/ unsure \/ (RecordRuns' /\ file.pid = p)
      <3>1. p \in Gateways /\ proc'[p].birth = proc[p].birth
        BY <1>7
      <3>2. \/ proc[p].birth \in left \/ proc[p].birth \in Unsaved
            \/ unsure \/ (RecordRuns /\ file.pid = p)
        BY <2>0, <3>1
      <3>3. QED BY <2>1, <2>2, <2>3, <3>1, <3>2
    <2>4. QED BY <1>0, <2>3 DEF GatewayIsRecorded
  <1>12. StoppedIsStopped'
    BY <1>0, <1>7 DEF Inv, StoppedIsStopped
  <1>13. KillsGatewaysOnly'
    BY <1>0 DEF Inv, KillsGatewaysOnly
  <1>14. QED
    BY <1>1, <1>2, <1>3, <1>4, <1>6, <1>8, <1>10, <1>11, <1>12, <1>13 DEF Inv

\* Processes bind, end, are reaped and are started as Aged says.
LEMMA ProcessesAge ==
  ASSUME Inv, NEW p \in Pids, ProcessStep(p) \/ Crash(p) \/ OtherStarts(p)
  PROVE  Aged
  <1>0. /\ births \in 0 .. MaxBirths /\ port \in 0 .. births
        /\ faults \in 0 .. MaxFaults /\ overlap \in BOOLEAN
        /\ proc \in [Pids -> Processes \cup {None}]
        /\ MaxBirths \in Nat /\ MaxFaults \in Nat
    BY GatewayAssumption DEF Inv, TypeOK
  \* The process of p goes on in another state, or is gone.
  <1>1. ASSUME NEW state \in States, proc[p] # None,
               state \in {"starting", "serving"}
                 => proc[p].state \in {"starting", "serving"},
               proc' = [proc EXCEPT ![p].state = state],
               births' = births, port' \in 0 .. births, overlap' \in BOOLEAN,
               faults' \in 0 .. MaxFaults,
               UNCHANGED <<file, job, serverVars, left, killed, unsure, result,
                           named>>
        PROVE  Aged
    <2> DEFINE d == [proc[p] EXCEPT !.state = state]
    <2>1. proc[p] \in Processes
      BY <1>0, <1>1
    <2>2. proc' = [proc EXCEPT ![p] = d]
      BY <1>0, <1>1
    <2>3. /\ d \in Processes /\ d.birth = proc[p].birth
          /\ d.gateway = proc[p].gateway /\ d.state = state
      BY <2>1 DEF Processes
    <2>4. d # None
      BY <2>3, GatewayAssumption
    <2> HIDE DEF d
    <2>5. /\ proc' \in [Pids -> Processes \cup {None}] /\ proc'[p] = d
          /\ \A q \in Pids \ {p} : proc'[q] = proc[q]
      BY <1>0, <2>2, <2>3
    <2>6. births \in Nat /\ births' \in births .. MaxBirths
      BY <1>0, <1>1
    <2>7. ASSUME NEW q \in Pids, proc'[q] # None
          PROVE  /\ proc[q] # None
                 /\ proc'[q].birth = proc[q].birth
                 /\ proc'[q].gateway = proc[q].gateway
                 /\ proc'[q].state \in {"starting", "serving"}
                      => proc[q].state \in {"starting", "serving"}
      BY <1>1, <2>3, <2>5, <2>7
    <2>8. QED BY <1>1, <2>5, <2>6, <2>7 DEF Aged
  <1>2. CASE Bind(p)
    <2>1. /\ births' = births /\ faults' = faults /\ proc[p] # None
          /\ proc[p].state = "starting" /\ proc[p].birth \in 1 .. births
          /\ UNCHANGED <<file, job, serverVars, left, killed, unsure, result,
                         named>>
      BY <1>2 DEF Bind, Inv, Clock
    <2>2. CASE port = 0
      <3>1. /\ proc' = [proc EXCEPT ![p].state = "serving"]
            /\ port' \in 0 .. births /\ overlap' \in BOOLEAN
        BY <1>0, <1>2, <2>1, <2>2 DEF Bind
      <3>2. QED BY <1>0, <1>1, <2>1, <3>1 DEF States
    <2>3. CASE port # 0
      <3>1. /\ proc' = [proc EXCEPT ![p].state = "zombie"]
            /\ port' \in 0 .. births /\ overlap' \in BOOLEAN
        BY <1>0, <1>2, <2>3 DEF Bind
      <3>2. QED BY <1>0, <1>1, <2>1, <3>1 DEF States
    <2>4. QED BY <2>2, <2>3
  <1>3. CASE Die(p) \/ Crash(p)
    <2>1. /\ Exits(p) /\ proc[p] # None /\ faults' \in 0 .. MaxFaults
      BY <1>0, <1>3 DEF Die, Crash, Live
    <2>2. /\ proc' = [proc EXCEPT ![p].state = "zombie"]
          /\ port' \in 0 .. births /\ overlap' \in BOOLEAN /\ births' = births
          /\ UNCHANGED <<file, job, serverVars, left, killed, unsure, result,
                         named>>
      BY <1>0, <2>1 DEF Exits
    <2>3. QED BY <1>1, <2>1, <2>2 DEF States
  <1>4. CASE Reap(p)
    <2>1. /\ proc' = [proc EXCEPT ![p] = None]
          /\ UNCHANGED <<births, port, faults, overlap, file, job, serverVars,
                         left, killed, unsure, result, named>>
      BY <1>4 DEF Reap
    <2>2. births \in Nat /\ births' \in births .. MaxBirths
      BY <1>0, <2>1
    <2>3. /\ proc' \in [Pids -> Processes \cup {None}] /\ proc'[p] = None
          /\ \A q \in Pids \ {p} : proc'[q] = proc[q]
      BY <1>0, <2>1
    <2>4. QED BY <1>0, <2>1, <2>2, <2>3 DEF Aged
  <1>5. CASE OtherStarts(p)
    <2> DEFINE new == [birth |-> births + 1, gateway |-> FALSE,
                       state |-> "starting"]
    <2>1. /\ proc' = [proc EXCEPT ![p] = new] /\ proc[p] = None
          /\ births < MaxBirths /\ births' = births + 1
          /\ UNCHANGED <<port, faults, overlap, file, job, serverVars,
                         left, killed, unsure, result, named>>
      BY <1>5 DEF OtherStarts, Born
    <2>2. births + 1 \in Nat
      BY <1>0
    <2>3. new \in Processes /\ new.birth = births + 1 /\ ~ new.gateway
      BY <2>2 DEF Processes, States
    <2>4. new # None
      BY <2>3, GatewayAssumption
    <2> HIDE DEF new
    <2>5. /\ births \in Nat /\ births' \in births .. MaxBirths
          /\ port' \in 0 .. births'
      BY <1>0, <2>1
    <2>6. /\ proc' \in [Pids -> Processes \cup {None}] /\ proc'[p] = new
          /\ \A q \in Pids \ {p} : proc'[q] = proc[q]
      BY <1>0, <2>1, <2>3
    <2>7. \A q \in Pids : \/ proc'[q] = None
                          \/ q = p
                          \/ proc[q] # None /\ proc'[q] = proc[q]
      BY <2>6
    <2>8. QED BY <1>0, <2>1, <2>3, <2>4, <2>5, <2>6, <2>7 DEF Aged
  <1>6. QED BY <1>2, <1>3, <1>4, <1>5 DEF ProcessStep

-----------------------------------------------------------------------------
(* The control plane, and the agent's choice of a task. *)

\* The parts of the invariant that are not about tasks.
LEMMA QueueInv ==
  ASSUME Inv, UNCHANGED <<worldVars, file, faults, left, killed, unsure,
                          overlap>>,
         TypeOK', Queued',
         \/ job' = job /\ UNCHANGED <<result, named>>
         \/ /\ job = None /\ job' \in Jobs /\ job'.birth = None
            /\ job'.pc \in {"start", "stop", "check", "log"}
            /\ result' = "none"
  PROVE  Inv'
  <1>1. Clock'
    BY DEF Inv, Clock, HasRecord
  <1>2. /\ JobKnows' /\ Started' /\ Cleared' /\ Identified'
        /\ GatewayIsRecorded' /\ StoppedIsStopped' /\ KillsGatewaysOnly'
    <2>1. CASE job' = job /\ UNCHANGED <<result, named>>
      <3>1. JobKnows' /\ Started' /\ Identified'
        BY <2>1 DEF Inv, JobKnows, Started, Identified, Saving, Working,
                    HasRecord, Gateways, Live, OfGateway
      <3>2. Cleared'
        BY <2>1 DEF Inv, Cleared, Saving, Working, RecordRuns, HasRecord,
                    IsRunning, Live
      <3>3. GatewayIsRecorded'
        BY <2>1 DEF Inv, GatewayIsRecorded, Gateways, Live, Unsaved, RecordRuns,
                    HasRecord, IsRunning
      <3>4. StoppedIsStopped' /\ KillsGatewaysOnly'
        BY <2>1 DEF Inv, StoppedIsStopped, KillsGatewaysOnly, Gateways, Live
      <3>5. QED BY <3>1, <3>2, <3>3, <3>4
    <2>2. CASE /\ job = None /\ job' \in Jobs /\ job'.birth = None
               /\ job'.pc \in {"start", "stop", "check", "log"}
               /\ result' = "none"
      <3>1. ~ Saving /\ ~ Saving' /\ Unsaved = {} /\ Unsaved' = {}
        BY <2>2 DEF Saving, Unsaved
      <3>2. JobKnows' /\ Started' /\ Identified' /\ Cleared'
        BY <2>2, <3>1 DEF Inv, JobKnows, Started, Identified, Cleared, Working,
                          HasRecord, OfGateway
      <3>3. GatewayIsRecorded'
        BY <3>1 DEF Inv, GatewayIsRecorded, Gateways, Live, RecordRuns,
                    HasRecord, IsRunning
      <3>4. StoppedIsStopped' /\ KillsGatewaysOnly'
        BY <2>2 DEF Inv, StoppedIsStopped, KillsGatewaysOnly
      <3>5. QED BY <3>2, <3>3, <3>4
    <2>3. QED BY <2>1, <2>2
  <1>3. QED BY <1>1, <1>2 DEF Inv

\* A new task is queued once.
LEMMA AskInv ==
  ASSUME Inv, NEW q \in Requests, Ask(q)
  PROVE  Inv'
  <1>1. PICK k \in Kinds :
          req' = [req EXCEPT ![q] = [kind |-> k, status |-> "queued"]]
    BY DEF Ask
  <1> DEFINE row == [kind |-> k, status |-> "queued"]
  <1>2. row \in Rows /\ row # None /\ row.status = "queued"
    BY GatewayAssumption DEF Rows
  <1>3. /\ req[q] = None /\ (job # None => job.of # q)
        /\ queue' = Append(queue, q) /\ queue \in Seq(Requests)
        /\ req \in [Requests -> Rows \cup {None}]
        /\ UNCHANGED <<worldVars, file, job, faults, left, killed, unsure,
                       overlap, result, named>>
    BY DEF Ask, Inv, TypeOK
  <1> HIDE DEF row
  <1>4. /\ req' \in [Requests -> Rows \cup {None}]
        /\ req'[q] # None /\ req'[q].status = "queued"
        /\ \A t \in Requests \ {q} : req'[t] = req[t]
    <2>1. req' = [req EXCEPT ![q] = row]
      BY <1>1 DEF row
    <2>2. QED BY <1>2, <1>3, <2>1
  <1>5. /\ queue' \in Seq(Requests) /\ Len(queue') = Len(queue) + 1
        /\ \A i \in 1 .. Len(queue) : queue'[i] = queue[i]
        /\ queue'[Len(queue) + 1] = q
    BY <1>3
  <1>6. TypeOK'
    BY <1>3, <1>4, <1>5 DEF Inv, TypeOK
  <1>7. Queued'
    <2>1. \A i \in 1 .. Len(queue) :
            /\ queue[i] \in Requests /\ req[queue[i]] # None /\ queue[i] # q
            /\ req[queue[i]].status = "queued"
            /\ job # None => job.of # queue[i]
            /\ \A j \in 1 .. Len(queue) : queue[i] = queue[j] => i = j
      BY <1>3 DEF Inv, Queued
    <2>2. \A i \in 1 .. Len(queue') : i \in 1 .. Len(queue) \/ i = Len(queue) + 1
      BY <1>3, <1>5
    <2>3. QED BY <1>3, <1>4, <1>5, <2>1, <2>2 DEF Queued
  <1>8. QED BY <1>3, <1>6, <1>7, QueueInv

\* A task that has timed out leaves the queue.
LEMMA TimeOutInv ==
  ASSUME Inv, NEW q \in Requests, TimeOut(q)
  PROVE  Inv'
  <1>0. /\ req \in [Requests -> Rows \cup {None}] /\ queue \in Seq(Requests)
        /\ req' = [req EXCEPT ![q] = None] /\ req[q] # None
        /\ UNCHANGED <<worldVars, file, job, faults, left, killed, unsure,
                       overlap, result, named>>
    BY DEF TimeOut, Inv, TypeOK
  <1>1. /\ req' \in [Requests -> Rows \cup {None}]
        /\ \A t \in Requests \ {q} : req'[t] = req[t]
    BY <1>0
  <1>2. \A i \in 1 .. Len(queue) :
          /\ queue[i] \in Requests
          /\ req[queue[i]] # None /\ req[queue[i]].status = "queued"
          /\ job # None => job.of # queue[i]
          /\ \A j \in 1 .. Len(queue) : queue[i] = queue[j] => i = j
    BY <1>0 DEF Inv, Queued
  <1>3. CASE req[q].status = "running" /\ UNCHANGED queue
    <2>1. \A i \in 1 .. Len(queue) : req'[queue[i]] = req[queue[i]]
      BY <1>1, <1>2, <1>3
    <2>2. Queued'
      BY <1>0, <1>2, <1>3, <2>1 DEF Queued
    <2>3. TypeOK'
      BY <1>0, <1>1, <1>3 DEF Inv, TypeOK
    <2>4. QED BY <1>0, <2>2, <2>3, QueueInv
  <1>4. ASSUME NEW i \in DOMAIN queue, queue[i] = q,
               queue' = Seqs!RemoveAt(queue, i)
        PROVE  Inv'
    <2>1. i \in 1 .. Len(queue)
      BY <1>0, <1>4
    <2>2. /\ queue' \in Seq(Requests) /\ Len(queue') = Len(queue) - 1
          /\ \A k \in 1 .. Len(queue') :
               queue'[k] = IF k < i THEN queue[k] ELSE queue[k + 1]
      BY <1>0, <1>4, <2>1, WithoutSeq
    <2>3. \A k \in 1 .. Len(queue') :
            \E j \in 1 .. Len(queue) :
              /\ j = (IF k < i THEN k ELSE k + 1) /\ j # i
              /\ queue'[k] = queue[j]
      BY <1>0, <2>1, <2>2
    <2>4. Queued'
      <3>1. ASSUME NEW k \in 1 .. Len(queue')
            PROVE  /\ req'[queue'[k]] # None
                   /\ req'[queue'[k]].status = "queued"
                   /\ job # None => job.of # queue'[k]
        BY <1>1, <1>2, <1>4, <2>1, <2>3
      <3>2. ASSUME NEW k \in 1 .. Len(queue'), NEW l \in 1 .. Len(queue'),
                   queue'[k] = queue'[l]
            PROVE  k = l
        <4>1. PICK j \in 1 .. Len(queue) :
                j = (IF k < i THEN k ELSE k + 1) /\ queue'[k] = queue[j]
          BY <2>3
        <4>2. PICK m \in 1 .. Len(queue) :
                m = (IF l < i THEN l ELSE l + 1) /\ queue'[l] = queue[m]
          BY <2>3
        <4>3. j = m
          BY <1>2, <3>2, <4>1, <4>2
        <4>4. i \in Nat /\ k \in Nat /\ l \in Nat
          BY <1>0, <2>1, <2>2
        <4>5. QED BY <4>1, <4>2, <4>3, <4>4
      <3>3. QED BY <1>0, <3>1, <3>2 DEF Queued
    <2>5. TypeOK'
      BY <1>0, <1>1, <2>2 DEF Inv, TypeOK
    <2>6. QED BY <1>0, <2>4, <2>5, QueueInv
  <1>5. QED BY <1>3, <1>4 DEF TimeOut

\* The task that is taken leaves the queue and knows nothing yet.
LEMMA TakeInv ==
  ASSUME Inv, Take
  PROVE  Inv'
  <1> DEFINE q == Head(queue)
             n == [of |-> q, kind |-> req[q].kind, pc |-> FirstPc(req[q].kind),
                   pid |-> None, birth |-> None]
  <1>0. /\ req \in [Requests -> Rows \cup {None}] /\ queue \in Seq(Requests)
        /\ queue # <<>> /\ queue' = Tail(queue) /\ job = None
        /\ job' = n /\ req' = [req EXCEPT ![q].status = "running"]
        /\ result' = "none" /\ named' = 0
        /\ UNCHANGED <<worldVars, file, faults, left, killed, unsure, overlap>>
    BY DEF Take, Inv, TypeOK
  <1>1. /\ q \in Requests /\ q = queue[1] /\ 1 \in 1 .. Len(queue)
        /\ Tail(queue) \in Seq(Requests) /\ Len(Tail(queue)) = Len(queue) - 1
        /\ \A i \in 1 .. Len(Tail(queue)) :
             Tail(queue)[i] = queue[i + 1] /\ i + 1 \in 1 .. Len(queue)
    BY <1>0
  <1>2. \A i \in 1 .. Len(queue) :
          /\ queue[i] \in Requests
          /\ req[queue[i]] # None /\ req[queue[i]].status = "queued"
          /\ \A j \in 1 .. Len(queue) : queue[i] = queue[j] => i = j
    BY <1>0 DEF Inv, Queued
  <1>3. req[q] \in Rows /\ req[q].kind \in Kinds
    BY <1>0, <1>1, <1>2 DEF Rows
  <1>4. FirstPc(req[q].kind) \in {"start", "stop", "check", "log"}
    <2>1. PICK k \in Kinds : k = req[q].kind
      BY <1>3
    <2>2. FirstPc(k) \in {"start", "stop", "check", "log"}
      BY DEF FirstPc, Kinds
    <2>3. QED BY <2>1, <2>2
  <1>5. n \in Jobs /\ n.of = q /\ n.birth = None /\ n.pc = FirstPc(req[q].kind)
    <2>1. FirstPc(req[q].kind) \in JobPc
      BY <1>4 DEF JobPc
    <2>2. QED BY <1>1, <1>3, <2>1 DEF Jobs
  <1> DEFINE row == [req[q] EXCEPT !.status = "running"]
  <1>6. row \in Rows
    BY <1>3 DEF Rows
  <1>7. req' = [req EXCEPT ![q] = row]
    BY <1>0, <1>1
  <1> HIDE DEF q, n, row
  <1>8. /\ req' \in [Requests -> Rows \cup {None}]
        /\ \A t \in Requests \ {q} : req'[t] = req[t]
    <2>1. /\ req \in [Requests -> Rows \cup {None}]
          /\ q \in Requests
      BY <1>0, <1>1
    <2>2. QED BY <1>6, <1>7, <2>1
  <1>9. TypeOK'
    BY <1>0, <1>1, <1>5, <1>8 DEF Inv, TypeOK
  <1>10. \A i \in 1 .. Len(Tail(queue)) :
           /\ Tail(queue)[i] = queue[i + 1] /\ i + 1 \in 1 .. Len(queue)
           /\ queue[i + 1] # q
    <2>1. \A i \in 1 .. Len(Tail(queue)) : i + 1 # 1
      BY <1>0, <1>1
    <2>2. QED BY <1>1, <1>2, <2>1
  <1>11. Queued'
    <2>1. ASSUME NEW i \in 1 .. Len(queue')
          PROVE  /\ req'[queue'[i]] # None /\ req'[queue'[i]].status = "queued"
                 /\ job'.of # queue'[i]
      BY <1>0, <1>2, <1>5, <1>8, <1>10
    <2>2. ASSUME NEW i \in 1 .. Len(queue'), NEW j \in 1 .. Len(queue'),
                 queue'[i] = queue'[j]
          PROVE  i = j
      <3>1. i + 1 = j + 1
        BY <1>0, <1>2, <1>10, <2>2
      <3>2. i \in Nat /\ j \in Nat
        BY <1>0, <1>1
      <3>3. QED BY <3>1, <3>2
    <2>3. QED BY <2>1, <2>2 DEF Queued
  <1>12. QED BY <1>0, <1>4, <1>5, <1>9, <1>11, QueueInv

-----------------------------------------------------------------------------
(* The invariant. *)

\* Nothing runs at first.
LEMMA InitInv ==
  ASSUME Init
  PROVE  Inv
  <1>1. TypeOK
    <2>1. queue \in Seq(Requests)
      BY DEF Init
    <2>2. /\ births \in 0 .. MaxBirths /\ port \in 0 .. births
          /\ faults \in 0 .. MaxFaults /\ named \in 0 .. births
      BY GatewayAssumption DEF Init
    <2>3. QED BY <2>1, <2>2 DEF Init, TypeOK
  <1>2. Clock /\ Queued
    BY DEF Init, Clock, Queued, HasRecord
  <1>3. JobKnows /\ Identified /\ Started /\ Cleared
    BY DEF Init, JobKnows, Identified, Started, Cleared, Saving, Working,
           HasRecord
  <1>4. GatewayIsRecorded /\ StoppedIsStopped /\ KillsGatewaysOnly
    BY DEF Init, GatewayIsRecorded, StoppedIsStopped, KillsGatewaysOnly,
           Gateways, Live
  <1>5. QED BY <1>1, <1>2, <1>3, <1>4 DEF Inv

\* Every step preserves the invariant.
LEMMA NextInv ==
  ASSUME Inv, Next
  PROVE  Inv'
  <1>1. CASE \E q \in Requests : Ask(q) \/ TimeOut(q)
    BY <1>1, AskInv, TimeOutInv
  <1>2. CASE TaskStep
    BY <1>2, TakeInv, StartCheckInv, SpawnInv, ReadStartTimeInv,
       SaveTruncateInv, SaveWriteInv, StopCheckInv, KillInv, RemoveInv,
       AnswersInv DEF TaskStep
  <1>3. CASE SaveFails \/ RestartAgent
    BY <1>3, CutShort
  <1>4. CASE \E p \in Pids : ProcessStep(p) \/ Crash(p) \/ OtherStarts(p)
    BY <1>4, ProcessesAge, AgedInv
  <1>5. QED BY <1>1, <1>2, <1>3, <1>4 DEF Next

\* So does a step of anything else.
LEMMA StutterInv ==
  ASSUME Inv, UNCHANGED vars
  PROVE  Inv'
  <1>1. Aged
    BY GatewayAssumption DEF Inv, TypeOK, Aged, vars
  <1>2. QED BY <1>1, AgedInv

\* The conjunction of the run's invariants and of what the agent's task knows
\* at each of its statements is inductive.
THEOREM Invariance == Spec => []Inv
  <1>1. Init => Inv
    BY InitInv
  <1>2. Inv /\ [Next]_vars => Inv'
    BY NextInv, StutterInv
  <1>3. QED BY <1>1, <1>2, PTL DEF Spec

\* The process table, the record, the task in progress and the queue keep
\* their types, whatever the bounds.
THEOREM TypeCorrect == Spec => []TypeOK
  <1>1. Inv => TypeOK
    BY DEF Inv
  <1>2. QED BY <1>1, Invariance, PTL

\* start_gateway and stop_gateway lose no gateway that runs, unless a start
\* was cut short or a process could not be identified.
THEOREM GatewaysAreRecorded == Spec => []GatewayIsRecorded
  <1>1. Inv => GatewayIsRecorded
    BY DEF Inv
  <1>2. QED BY <1>1, Invariance, PTL

\* When stop_gateway answers stopped, no gateway runs that it could know of.
THEOREM StoppedMeansStopped == Spec => []StoppedIsStopped
  <1>1. Inv => StoppedIsStopped
    BY DEF Inv
  <1>2. QED BY <1>1, Invariance, PTL

\* The start time on record, which check_record compares, keeps stop_gateway
\* from killing another program under the gateway's old process id.
THEOREM OnlyGatewaysAreKilled == Spec => []KillsGatewaysOnly
  <1>1. Inv => KillsGatewaysOnly
    BY DEF Inv
  <1>2. QED BY <1>1, Invariance, PTL

=============================================================================
