-------------------------- MODULE CatalogueProofs --------------------------
(***************************************************************************)
(* Type correctness and the safety properties of Catalogue, for any rows,  *)
(* places, requests and scopes, from the inductive invariant Inv of that   *)
(* module.  An action replaces the record of one request and writes at     *)
(* most two tables.  There is a lemma for every way a table is written,    *)
(* which says what the parts of Inv and the other requests keep, and one   *)
(* for every action, which adds what its own request becomes.              *)
(***************************************************************************)
EXTENDS Catalogue, TLAPS

-----------------------------------------------------------------------------
(* Requests. *)

\* A request stays one when a field is set.
LEMMA Put ==
  ASSUME NEW r \in Requests
  PROVE  /\ \A x \in Kinds : [r EXCEPT !.kind = x] \in Requests
         /\ \A x \in Pc : [r EXCEPT !.pc = x] \in Requests
         /\ \A x \in Rows \cup {None} : /\ [r EXCEPT !.on = x] \in Requests
                                        /\ [r EXCEPT !.of = x] \in Requests
         /\ \A x \in Places \cup {None} : [r EXCEPT !.place = x] \in Requests
         /\ \A x \in SUBSET Rows : [r EXCEPT !.todo = x] \in Requests
         /\ \A x \in InstanceState \cup {None} :
              [r EXCEPT !.was = x] \in Requests
         /\ \A x \in Settings \cup {None} : [r EXCEPT !.sees = x] \in Requests
         /\ \A x \in {"none", "sent", "ok", "failed", "over"} :
              [r EXCEPT !.task = x] \in Requests
         /\ \A x \in BOOLEAN : [r EXCEPT !.due = x] \in Requests
<1>1. \A x \in Kinds : [r EXCEPT !.kind = x] \in Requests
  BY SMT DEF Requests
<1>2. \A x \in Pc : [r EXCEPT !.pc = x] \in Requests
  BY SMT DEF Requests
<1>3. \A x \in Rows \cup {None} : [r EXCEPT !.on = x] \in Requests
  BY SMT DEF Requests
<1>4. \A x \in Rows \cup {None} : [r EXCEPT !.of = x] \in Requests
  BY SMT DEF Requests
<1>5. \A x \in Places \cup {None} : [r EXCEPT !.place = x] \in Requests
  BY SMT DEF Requests
<1>6. \A x \in SUBSET Rows : [r EXCEPT !.todo = x] \in Requests
  BY SMT DEF Requests
<1>7. \A x \in InstanceState \cup {None} : [r EXCEPT !.was = x] \in Requests
  BY SMT DEF Requests
<1>8. \A x \in Settings \cup {None} : [r EXCEPT !.sees = x] \in Requests
  BY SMT DEF Requests
<1>9. \A x \in {"none", "sent", "ok", "failed", "over"} :
        [r EXCEPT !.task = x] \in Requests
  BY SMT DEF Requests
<1>10. \A x \in BOOLEAN : [r EXCEPT !.due = x] \in Requests
  BY SMT DEF Requests
<1> QED BY <1>1, <1>2, <1>3, <1>4, <1>5, <1>6, <1>7, <1>8, <1>9, <1>10

\* The constants in the form the provers use.
LEMMA Pcs ==
  /\ "idle" \in Pc /\ "wait" \in Pc /\ "save" \in Pc /\ "queue" \in Pc
  /\ "look" \in Pc /\ "trash" \in Pc /\ "drop" \in Pc /\ "list" \in Pc
  /\ "write" \in Pc /\ "mark" \in Pc /\ "pend" \in Pc /\ "end" \in Pc
BY DEF Pc

LEMMA KindsAre ==
  /\ "create_model" \in Kinds /\ "create_model_file" \in Kinds
  /\ "update_model_file" \in Kinds /\ "verify_model_file" \in Kinds
  /\ "delete_model_file" \in Kinds /\ "delete_model" \in Kinds
  /\ "create_trash" \in Kinds /\ "cleanup_trash" \in Kinds
  /\ "delete_trash" \in Kinds /\ "create_runtime" \in Kinds
  /\ "update_runtime" \in Kinds /\ "check_runtime" \in Kinds
  /\ "delete_runtime" \in Kinds /\ "start" \in Kinds /\ "stop" \in Kinds
  /\ "test" \in Kinds /\ "create_local" \in Kinds
  /\ "create_external" \in Kinds /\ "update_instance" \in Kinds
  /\ "check_instance" \in Kinds /\ "delete_instance" \in Kinds
  /\ "update_model" \in Kinds /\ None \notin Kinds
BY CatalogueAssumption
   DEF Kinds, FileKinds, RuntimeKinds, InstanceKinds, TaskKinds

LEMMA IdleIsRequest ==
  /\ Idle \in Requests /\ Ended \in Requests
  /\ Idle.kind = None /\ Idle.pc = "idle" /\ Idle.on = None /\ Idle.of = None
  /\ Idle.place = None /\ Idle.todo = {} /\ Idle.was = None
  /\ Idle.sees = None /\ Idle.task = "none" /\ ~ Idle.due
  /\ Ended.kind = None /\ Ended.pc = "end" /\ Ended.task = "none"
<1>1. Idle \in Requests
  BY Pcs DEF Idle, Requests
<1>2. /\ Idle.kind = None /\ Idle.pc = "idle" /\ Idle.on = None
      /\ Idle.of = None /\ Idle.place = None /\ Idle.todo = {}
      /\ Idle.was = None /\ Idle.sees = None /\ Idle.task = "none"
  BY DEF Idle
<1>3. ~ Idle.due
  BY DEF Idle
<1>4. Ended \in Requests
  BY <1>1, Pcs, Put DEF Ended
<1>5. Ended.kind = None /\ Ended.pc = "end" /\ Ended.task = "none"
  BY <1>1, <1>2 DEF Ended, Requests
<1> QED BY <1>1, <1>2, <1>3, <1>4, <1>5

\* A request that ends, or of which less is still to come.
LEMMA Narrowed ==
  ASSUME NEW r \in Requests, NEW n \in Requests,
         n.kind = r.kind, n.on = r.on, n.of = r.of, n.place = r.place,
         n.todo = r.todo, n.was = r.was, n.sees = r.sees,
         n.pc \notin {"list", "look", "trash"}, Open(n) => Open(r)
  PROVE  (Fits(r) => Fits(n)) /\ (Fits(r)' => Fits(n)')
<1>1. Fits(r) => Fits(n)
  BY DEF Fits, Names, Holds, Excludes, Verifying, Starting, Trashing
<1>2. Fits(r)' => Fits(n)'
  BY DEF Fits, Names, Holds, Excludes, Verifying, Starting, Trashing, Open
<1> QED BY <1>1, <1>2

LEMMA EndedFits == Fits(Ended) /\ Fits(Ended)'
BY IdleIsRequest, KindsAre, Pcs
   DEF Fits, Names, Holds, Excludes, Verifying, Starting, Trashing, TaskKinds

-----------------------------------------------------------------------------
(* Steps in general. *)

\* What concerns the tables only.
Tables ==
  /\ scope \in Scopes /\ disk \in SUBSET Places
  /\ model \in [Models -> ModelRows]
  /\ file \in [Files -> FileRows]
  /\ trash \in [Trash -> TrashRows]
  /\ runtime \in [Runtimes -> RuntimeRows]
  /\ inst \in [Instances -> InstanceRows]
  /\ up \in [Instances -> Settings \cup {None}]
  /\ mixed \in SUBSET Files /\ moved \in SUBSET Files
  /\ offered \in SUBSET Files /\ untraced \in SUBSET Files
  /\ drifted \in SUBSET Instances

Sound ==
  /\ Tables /\ Unused /\ Filled /\ Sited /\ GoneAreKept /\ ItemsAreOfFiles
  /\ VerifiedNamesPath /\ RuntimeOfInstance /\ StartsVerified
  /\ RunsAsConfigured

Fit == op \in [Ops -> Requests] /\ \A o \in Ops : Fits(op[o])

LEMMA InvParts == /\ Inv <=> Sound /\ Fit /\ TrashOfDeleted
                  /\ Inv' <=> (Sound /\ Fit /\ TrashOfDeleted)'
BY DEF Inv, Sound, Fit, Tables, TypeOK

\* No request is put out by what was written.
Carried == \A q \in Ops : \A r \in Requests : r = op[q] => Fits(r)'

\* The items of the trash stay explained, and a new one is being handled.
Explained ==
  /\ \A x \in Trash : InTrash(x)' =>
       \/ InTrash(x) /\ trash'[x].file = trash[x].file
       \/ BeingTrashed(trash[x].file)'
  /\ \A f \in Files : FileRow(f) => /\ file'[f].model = file[f].model
                                    /\ Gone(f) => Gone(f)'
  /\ offered \subseteq offered'

\* What a request leaves behind that no longer fills the trash.
Settled(o) == \A f \in Files : FileRow(f) /\ TrashOf(f) # {} /\ About(op[o], f)
                                 => Gone(f)' \/ f \in offered'
Fills(r) == r.pc \in {"look", "trash"}

LEMMA Step ==
  ASSUME Inv, Sound', Explained, Carried, NEW o \in Ops, NEW n \in Requests,
         op' = [op EXCEPT ![o] = n], Fits(n)',
         Fills(op[o]) => (Fills(n) /\ n.on = op[o].on) \/ Settled(o)
  PROVE  Inv'
<1>1. Sound /\ Fit /\ TrashOfDeleted
  BY InvParts
<1>2. op' \in [Ops -> Requests] /\ op'[o] = n
      /\ \A q \in Ops \ {o} : op'[q] = op[q]
  BY <1>1 DEF Fit
<1>3. Fit'
  BY <1>1, <1>2 DEF Fit, Carried
<1>4. TrashOfDeleted'
  <2> SUFFICES ASSUME NEW x \in Trash, InTrash(x)',
                      trash'[x].file \notin offered',
                      ~ Gone(trash[x].file)',
                      ~ BeingTrashed(trash[x].file)'
               PROVE  BeingTrashed(trash[x].file)'
    BY DEF TrashOfDeleted, Gone
  <2> DEFINE f == trash[x].file
  <2>1. InTrash(x) /\ trash'[x].file = f /\ f \in Files /\ FileRow(f)
    BY <1>1 DEF Explained, Sound, Filled
  <2>2. f \notin offered /\ ~ Gone(f) /\ file'[f].model = file[f].model
    BY <2>1 DEF Explained, Gone
  <2>3. BeingTrashed(f)
    BY <1>1, <2>1, <2>2 DEF TrashOfDeleted, Gone
  <2>4. PICK q \in Ops : Fills(op[q]) /\ About(op[q], f)
    BY <2>3 DEF BeingTrashed, Fills, About
  <2>5. ~ Gone(f)' /\ f \notin offered'
    BY <2>1 DEF Gone
  <2>6. TrashOf(f) # {}
    BY <2>1 DEF TrashOf
  <2>7. Fills(op'[q]) /\ op'[q].on = op[q].on
    BY <1>2, <2>1, <2>4, <2>5, <2>6 DEF Settled
  <2> QED BY <2>1, <2>2, <2>4, <2>7 DEF BeingTrashed, Fills, About
<1> QED BY <1>1, <1>3, <1>4, InvParts

LEMMA Ends ==
  ASSUME Inv, Sound', Explained, Carried, NEW o \in Ops, Finish(o),
         Fills(op[o]) => Settled(o)
  PROVE  Inv'
<1>1. op[o] \in Requests
  BY InvParts DEF Fit
<1>2. CASE ~ InFlight(o)
  <2>1. op' = [op EXCEPT ![o] = Ended]
    BY <1>2 DEF Finish
  <2> QED BY <2>1, IdleIsRequest, EndedFits, Step
<1>3. CASE InFlight(o)
  <2> DEFINE n == [op[o] EXCEPT !.pc = "end"]
  <2>1. n \in Requests
    BY <1>1, Pcs, Put
  <2>2. /\ n.kind = op[o].kind /\ n.on = op[o].on /\ n.of = op[o].of
        /\ n.place = op[o].place /\ n.todo = op[o].todo /\ n.was = op[o].was
        /\ n.sees = op[o].sees /\ n.pc = "end" /\ n.task = op[o].task
    BY <1>1 DEF Requests
  <2>3. op' = [op EXCEPT ![o] = n]
    BY <1>3 DEF Finish
  <2>4. Open(n) => Open(op[o])
    BY <2>2 DEF Open
  <2>5. \A r \in Requests : r = op[o] => Fits(r)'
    BY DEF Carried
  <2> HIDE DEF n
  <2>6. \A k \in Requests : k = n => Fits(k)'
    BY <1>1, <2>2, <2>4, <2>5, Narrowed
  <2>7. PICK k \in Requests : k = n
    BY <2>1
  <2>8. Fits(k)' /\ op' = [op EXCEPT ![o] = k]
    BY <2>3, <2>6, <2>7
  <2> QED BY <2>8, Step
<1> QED BY <1>2, <1>3

\* Steps that write no table.
LEMMA Reads ==
  ASSUME Inv,
         UNCHANGED <<scope, world, model, file, trash, runtime, inst, mixed,
                     moved, untraced, drifted>>,
         offered \subseteq offered', offered' \subseteq Files
  PROVE  /\ Sound' /\ Explained /\ Carried
         /\ \A r \in Requests : Fits(r) => Fits(r)'
<1> USE DEF world
<1>1. Sound /\ Fit
  BY InvParts
<1>2. Tables' /\ Unused' /\ Filled' /\ Sited'
  BY <1>1 DEF Sound, Tables, Unused, Filled, Sited, SameNode, FileRow, InTrash
<1>3. GoneAreKept' /\ ItemsAreOfFiles'
  BY <1>1 DEF Sound, GoneAreKept, ItemsAreOfFiles, Gone, Kept, TrashOf,
              SamePlace, FileRow, InTrash
<1>4. VerifiedNamesPath' /\ RuntimeOfInstance' /\ StartsVerified'
  BY <1>1 DEF Sound, VerifiedNamesPath, RuntimeOfInstance, StartsVerified,
              InstanceRow, RuntimeRow
<1>5. RunsAsConfigured'
  BY <1>1 DEF Sound, RunsAsConfigured, SettingsOf, InstanceRow
<1>6. Explained
  BY DEF Explained, InTrash, FileRow, Gone
<1>7. \A r \in Requests : Fits(r) => Fits(r)'
  BY DEF Fits, Names, Holds, Excludes, Verifying, Starting, Trashing, SameNode,
         Proper, Current, SettingsOf, InstanceRow, FileRow, About, Kept,
         TrashOf, SamePlace, InTrash
<1>8. Carried
  BY <1>1, <1>7 DEF Carried, Fit
<1> QED BY <1>1, <1>2, <1>3, <1>4, <1>5, <1>6, <1>7, <1>8 DEF Sound

\* A request that has only read ...
LEMMA ReadStep ==
  ASSUME Inv, UNCHANGED <<scope, world, model, file, trash, runtime, inst,
                          history>>,
         NEW o \in Ops, NEW n \in Requests, op' = [op EXCEPT ![o] = n],
         Fits(n), Fills(op[o]) => Fills(n) /\ n.on = op[o].on
  PROVE  Inv'
<1> USE DEF history
<1>1. PICK k \in Requests : k = n
  OBVIOUS
<1>2. Sound' /\ Explained /\ Carried /\ Fits(k)'
  BY <1>1, InvParts, Reads DEF Sound, Tables
<1> QED BY <1>1, <1>2, Step

\* ... is often a new one.
LEMMA NewRequest ==
  ASSUME Inv, UNCHANGED <<scope, world, model, file, trash, runtime, inst,
                          history>>,
         NEW o \in Ops, NEW n \in Requests, op' = [op EXCEPT ![o] = n],
         op[o].pc = "idle", Fits(n)
  PROVE  Inv'
BY ReadStep DEF Fills

-----------------------------------------------------------------------------
(* The actions that only read.                                             *)

LEMMA AskFits ==
  ASSUME NEW kind \in Kinds, NEW on \in Rows \cup {None},
         NEW place \in Places \cup {None},
         /\ kind \in {"create_model", "create_model_file",
                      "update_model_file", "create_runtime", "check_runtime"}
         /\ kind = "create_model_file" => on \in Models
         /\ kind = "update_model_file" => on \in Files /\ FileRow(on)
         /\ kind = "check_runtime" => on \in Runtimes /\ RuntimeRow(on)
         /\ kind # "check_runtime" => place \in Places
  PROVE  LET n == [Idle EXCEPT !.kind = kind, !.pc = "wait", !.on = on,
                               !.of = None, !.place = place, !.task = "sent"]
         IN n \in Requests /\ Fits(n)
<1> DEFINE n == [Idle EXCEPT !.kind = kind, !.pc = "wait", !.on = on,
                             !.of = None, !.place = place, !.task = "sent"]
<1>1. n \in Requests
  BY IdleIsRequest, Pcs, Put
<1>2. n.kind = kind /\ n.pc = "wait" /\ n.on = on /\ n.place = place
  BY IdleIsRequest DEF Requests
<1> HIDE DEF n
<1>3. Fits(n)
  BY <1>2 DEF Fits, Names, Holds, Excludes, Verifying, Starting, Trashing,
              TaskKinds, RuntimeRow
<1> QED BY <1>1, <1>3 DEF n

LEMMA AskStep ==
  ASSUME Inv, NEW o \in Ops,
         AskModel(o) \/ AskFile(o) \/ AskUpdate(o)
  PROVE  Inv'
<1>1. CASE AskModel(o)
  <2>1. PICK p \in Places : Ask(o, "create_model", None, None, p)
    BY <1>1 DEF AskModel
  <2> DEFINE n == [Idle EXCEPT !.kind = "create_model", !.pc = "wait",
                     !.on = None, !.of = None, !.place = p, !.task = "sent"]
  <2>2. n \in Requests /\ Fits(n)
    BY KindsAre, AskFits
  <2> QED BY <1>1, <2>1, <2>2, NewRequest DEF AskModel, Ask, Go, Arrives
<1>2. CASE AskFile(o)
  <2>1. PICK p \in Places, m \in Models :
          Ask(o, "create_model_file", m, None, p)
    BY <1>2 DEF AskFile
  <2> DEFINE n == [Idle EXCEPT !.kind = "create_model_file", !.pc = "wait",
                     !.on = m, !.of = None, !.place = p, !.task = "sent"]
  <2>2. n \in Requests /\ Fits(n)
    BY KindsAre, AskFits DEF Rows
  <2> QED BY <1>2, <2>1, <2>2, NewRequest DEF AskFile, Ask, Go, Arrives
<1>3. CASE AskUpdate(o)
  <2>1. PICK p \in Places, f \in Files :
          FileRow(f) /\ Ask(o, "update_model_file", f, None, p)
    BY <1>3 DEF AskUpdate
  <2> DEFINE n == [Idle EXCEPT !.kind = "update_model_file", !.pc = "wait",
                     !.on = f, !.of = None, !.place = p, !.task = "sent"]
  <2>2. n \in Requests /\ Fits(n)
    BY <2>1, KindsAre, AskFits DEF Rows
  <2> QED BY <1>3, <2>1, <2>2, NewRequest DEF AskUpdate, Ask, Go, Arrives
<1> QED BY <1>1, <1>2, <1>3

LEMMA FinishStep ==
  ASSUME Inv, UNCHANGED <<scope, world, model, file, trash, runtime, inst,
                          history>>,
         NEW o \in Ops, Finish(o), ~ Fills(op[o])
  PROVE  Inv'
<1>1. Sound' /\ Explained /\ Carried
  BY InvParts, Reads DEF Sound, Tables, history
<1> QED BY <1>1, Ends

LEMMA VerifyReadStep ==
  ASSUME Inv, NEW o \in Ops, VerifyRead(o)
  PROVE  Inv'
<1>1. PICK f \in Files :
        /\ FileRow(f)
        /\ Go(o, [Idle EXCEPT !.kind = "verify_model_file", !.pc = "queue",
                              !.on = f, !.place = file[f].place])
  BY DEF VerifyRead
<1> DEFINE n == [Idle EXCEPT !.kind = "verify_model_file", !.pc = "queue",
                             !.on = f, !.place = file[f].place]
<1>2. file[f].place \in Places
  BY <1>1, InvParts DEF Sound, Filled
<1>3. n \in Requests
  BY <1>2, IdleIsRequest, KindsAre, Pcs, Put DEF Rows
<1>4. /\ n.kind = "verify_model_file" /\ n.pc = "queue" /\ n.on = f
      /\ n.place = file[f].place
  BY IdleIsRequest DEF Requests
<1>5. op' = [op EXCEPT ![o] = n]
  BY <1>1 DEF Go
<1> HIDE DEF n
<1>6. Fits(n)
  BY <1>1, <1>2, <1>4 DEF Fits, Names, Holds, Excludes, Verifying, Starting,
                          Trashing, TaskKinds
<1> QED BY <1>3, <1>5, <1>6, NewRequest DEF VerifyRead, Arrives

LEMMA TrashAskStep ==
  ASSUME Inv, NEW o \in Ops, TrashAsk(o)
  PROVE  Inv'
<1>1. PICK kind \in {"create_trash", "delete_model_file"}, f \in Files :
        /\ Arrives(o, kind) /\ FileRow(f)
        /\ Go(o, [Idle EXCEPT !.kind = kind, !.pc = "look", !.on = f,
                              !.todo = {f}])
  BY DEF TrashAsk
<1> DEFINE n == [Idle EXCEPT !.kind = kind, !.pc = "look", !.on = f,
                             !.todo = {f}]
<1>2. n \in Requests
  BY IdleIsRequest, KindsAre, Pcs, Put DEF Rows
<1>3. n.kind = kind /\ n.pc = "look" /\ n.on = f /\ n.todo = {f}
      /\ n.task = "none"
  BY IdleIsRequest DEF Requests
<1>4. op' = [op EXCEPT ![o] = n]
  BY <1>1 DEF Go
<1> HIDE DEF n
<1>5. \A g \in Files : FileRow(g) /\ About(n, g) => g = f
  BY <1>3, CatalogueAssumption, InvParts DEF About, Sound, Filled
<1>6. Trashing(n)
  BY <1>1, <1>3, <1>5 DEF Trashing, About
<1>7. Fits(n)
  BY <1>1, <1>3, <1>6 DEF Fits, Names, Holds, Excludes, Verifying, Starting,
                          Trashing, TaskKinds
<1> QED BY <1>1, <1>2, <1>4, <1>7, NewRequest DEF TrashAsk, Arrives

LEMMA DeleteModelReads ==
  ASSUME Inv, NEW o \in Ops, DeleteModelCount(o) \/ DeleteModelList(o)
  PROVE  Inv'
<1>1. CASE DeleteModelCount(o)
  <2>1. PICK m \in Models :
          Go(o, [Idle EXCEPT !.kind = "delete_model", !.pc = "list",
                             !.on = m])
    BY <1>1 DEF DeleteModelCount
  <2> DEFINE n == [Idle EXCEPT !.kind = "delete_model", !.pc = "list",
                               !.on = m]
  <2>2. n \in Requests
    BY IdleIsRequest, KindsAre, Pcs, Put DEF Rows
  <2>3. /\ n.kind = "delete_model" /\ n.pc = "list" /\ n.on = m
        /\ n.task = "none"
    BY IdleIsRequest DEF Requests
  <2>4. op' = [op EXCEPT ![o] = n]
    BY <2>1 DEF Go
  <2> HIDE DEF n
  <2>5. Fits(n)
    BY <2>3 DEF Fits, Names, Holds, Excludes, Verifying, Starting, Trashing,
                TaskKinds
  <2> QED BY <1>1, <2>2, <2>4, <2>5, NewRequest DEF DeleteModelCount, Arrives
<1>2. CASE DeleteModelList(o) /\ ~ Live(op[o].on)
  BY <1>2, FinishStep DEF DeleteModelList, At, Fills
<1>3. CASE DeleteModelList(o) /\ Live(op[o].on)
  <2> DEFINE m == op[o].on
             n == [op[o] EXCEPT !.pc = "look", !.todo = Listed(m)]
  <2>1. op[o] \in Requests /\ op[o].kind = "delete_model"
        /\ op[o].pc = "list" /\ op' = [op EXCEPT ![o] = n]
    BY <1>3, InvParts DEF DeleteModelList, At, Go, Fit
  <2>2. Fits(op[o]) /\ m \in Models
    BY <2>1, InvParts DEF Fit, Fits, Names
  <2>3. n \in Requests
    <3>1. [op[o] EXCEPT !.pc = "look"] \in Requests
      BY <2>1, Pcs, Put
    <3>2. Listed(m) \in SUBSET Rows
      BY DEF Listed, Rows
    <3> QED BY <3>1, <3>2, Put
  <2>4. /\ n.kind = "delete_model" /\ n.pc = "look" /\ n.on = m
        /\ n.todo = Listed(m) /\ n.task = op[o].task /\ n.place = op[o].place
        /\ n.of = op[o].of
    BY <2>1 DEF Requests
  <2> HIDE DEF n
  <2>5. \A f \in Listed(m) : f \in Files /\ FileRow(f) /\ About(n, f)
    BY <2>2, <2>4, CatalogueAssumption, InvParts
       DEF Listed, Sound, Unused, About, Rows
  <2>6. \A f \in Files : FileRow(f) /\ About(n, f) => f \in Listed(m) \/ Kept(f)
    BY <2>2, <2>4, CatalogueAssumption, InvParts
       DEF Listed, Sound, GoneAreKept, Gone, About
  <2>7. Trashing(n)
    BY <1>3, <2>1, <2>2, <2>4, <2>5, <2>6 DEF Trashing, Live, Fits
  <2>8. Fits(n)
    BY <2>2, <2>4, <2>7 DEF Fits, Names, Holds, Excludes, Verifying, Starting,
                            Open, TaskKinds
  <2> QED BY <1>3, <2>1, <2>3, <2>8, ReadStep DEF DeleteModelList, Fills
<1> QED BY <1>1, <1>2, <1>3

LEMMA RuntimeReads ==
  ASSUME Inv, NEW o \in Ops,
         \/ UpdateRuntimeCheck(o) \/ CheckRuntime(o) \/ DeleteRuntimeCount(o)
  PROVE  Inv'
<1>1. CASE UpdateRuntimeCheck(o)
  <2>1. PICK e \in Runtimes :
          /\ RuntimeRow(e) /\ \A i \in Uses(e) : ~ Busy(i)
          /\ Go(o, [Idle EXCEPT !.kind = "update_runtime", !.pc = "write",
                                !.on = e, !.todo = BusyNow])
    BY <1>1 DEF UpdateRuntimeCheck
  <2> DEFINE n == [Idle EXCEPT !.kind = "update_runtime", !.pc = "write",
                               !.on = e, !.todo = BusyNow]
  <2>2. n \in Requests
    BY IdleIsRequest, KindsAre, Pcs, Put DEF Rows, BusyNow
  <2>3. n.kind = "update_runtime" /\ n.pc = "write" /\ n.on = e
        /\ n.todo = BusyNow
    BY IdleIsRequest DEF Requests
  <2>4. op' = [op EXCEPT ![o] = n]
    BY <2>1 DEF Go
  <2> HIDE DEF n
  <2>5. Excludes(n)
    BY <2>1, <2>3 DEF Excludes, BusyNow, Uses, Busy, InstanceRow
  <2>6. Fits(n)
    BY <2>1, <2>3, <2>5 DEF Fits, Names, Holds, Verifying, Starting, Trashing,
                            TaskKinds, RuntimeRow
  <2> QED BY <1>1, <2>2, <2>4, <2>6, NewRequest
             DEF UpdateRuntimeCheck, Arrives
<1>2. CASE DeleteRuntimeCount(o)
  <2>1. PICK e \in Runtimes :
          Go(o, [Idle EXCEPT !.kind = "delete_runtime", !.pc = "write",
                             !.on = e])
    BY <1>2 DEF DeleteRuntimeCount
  <2> DEFINE n == [Idle EXCEPT !.kind = "delete_runtime", !.pc = "write",
                               !.on = e]
  <2>2. n \in Requests
    BY IdleIsRequest, KindsAre, Pcs, Put DEF Rows
  <2>3. n.kind = "delete_runtime" /\ n.pc = "write" /\ n.on = e
    BY IdleIsRequest DEF Requests
  <2>4. op' = [op EXCEPT ![o] = n]
    BY <2>1 DEF Go
  <2> HIDE DEF n
  <2>5. Fits(n)
    BY <2>3 DEF Fits, Names, Holds, Excludes, Verifying, Starting, Trashing,
                TaskKinds
  <2> QED BY <1>2, <2>2, <2>4, <2>5, NewRequest
             DEF DeleteRuntimeCount, Arrives
<1>3. CASE CheckRuntime(o)
  <2>1. PICK e \in Runtimes :
          /\ RuntimeRow(e)
          /\ \/ Ask(o, "check_runtime", e, None, None)
             \/ Go(o, [Idle EXCEPT !.kind = "check_runtime", !.pc = "mark",
                                   !.on = e])
             \/ Go(o, [Idle EXCEPT !.kind = "check_runtime", !.pc = "mark",
                                   !.on = e, !.was = "failed"])
    BY <1>3 DEF CheckRuntime
  <2> DEFINE a == [Idle EXCEPT !.kind = "check_runtime", !.pc = "wait",
                     !.on = e, !.of = None, !.place = None, !.task = "sent"]
             c == [Idle EXCEPT !.kind = "check_runtime", !.pc = "mark",
                     !.on = e]
             d == [Idle EXCEPT !.kind = "check_runtime", !.pc = "mark",
                     !.on = e, !.was = "failed"]
  <2>2. a \in Requests /\ Fits(a)
    BY <2>1, KindsAre, AskFits DEF Rows
  <2>3. c \in Requests /\ d \in Requests
    BY IdleIsRequest, KindsAre, Pcs, Put DEF Rows, InstanceState
  <2>4. /\ c.kind = "check_runtime" /\ c.pc = "mark" /\ c.on = e
        /\ d.kind = "check_runtime" /\ d.pc = "mark" /\ d.on = e
    BY IdleIsRequest DEF Requests
  <2>5. \/ op' = [op EXCEPT ![o] = a] \/ op' = [op EXCEPT ![o] = c]
        \/ op' = [op EXCEPT ![o] = d]
    BY <2>1 DEF Go, Ask
  <2> HIDE DEF a, c, d
  <2>6. Fits(c) /\ Fits(d)
    BY <2>1, <2>4 DEF Fits, Names, Holds, Excludes, Verifying, Starting,
                      Trashing, TaskKinds, RuntimeRow
  <2> QED BY <1>3, <2>2, <2>3, <2>5, <2>6, NewRequest
             DEF CheckRuntime, Arrives
<1> QED BY <1>1, <1>2, <1>3

LEMMA UpdateModelCheckStep ==
  ASSUME Inv, NEW o \in Ops, UpdateModelCheck(o)
  PROVE  Inv'
<1>1. PICK m \in Models :
        /\ \A i \in Instances : inst[i].model = m => ~ Busy(i)
        /\ Go(o, [Idle EXCEPT !.kind = "update_model", !.pc = "write",
                              !.on = m, !.todo = BusyNow])
  BY DEF UpdateModelCheck
<1> DEFINE n == [Idle EXCEPT !.kind = "update_model", !.pc = "write",
                             !.on = m, !.todo = BusyNow]
<1>2. n \in Requests
  BY IdleIsRequest, KindsAre, Pcs, Put DEF Rows, BusyNow
<1>3. n.kind = "update_model" /\ n.pc = "write" /\ n.on = m
      /\ n.todo = BusyNow
  BY IdleIsRequest DEF Requests
<1>4. op' = [op EXCEPT ![o] = n]
  BY <1>1 DEF Go
<1> HIDE DEF n
<1>5. Excludes(n)
  BY <1>1, <1>3 DEF Excludes, BusyNow, Busy
<1>6. Fits(n)
  BY <1>1, <1>3, <1>5 DEF Fits, Names, Holds, Verifying, Starting, Trashing,
                          TaskKinds
<1> QED BY <1>2, <1>4, <1>6, NewRequest DEF UpdateModelCheck, Arrives

LEMMA CreateReads ==
  ASSUME Inv, NEW o \in Ops, CreateLocalRead(o) \/ CreateExternalRead(o)
  PROVE  Inv'
<1>1. CASE CreateLocalRead(o)
  <2>1. PICK e \in Runtimes, f \in Files \cup {None} :
          /\ Usable(e)
          /\ IF runtime[e].ollama THEN f = None
             ELSE FileForInstance(f) /\ file[f].place[1] = runtime[e].node
          /\ Go(o, [Idle EXCEPT !.kind = "create_local", !.pc = "save",
                                !.on = e, !.of = f])
    BY <1>1 DEF CreateLocalRead
  <2> DEFINE n == [Idle EXCEPT !.kind = "create_local", !.pc = "save",
                               !.on = e, !.of = f]
  <2>2. n \in Requests
    BY IdleIsRequest, KindsAre, Pcs, Put DEF Rows
  <2>3. n.kind = "create_local" /\ n.pc = "save" /\ n.on = e /\ n.of = f
    BY IdleIsRequest DEF Requests
  <2>4. op' = [op EXCEPT ![o] = n]
    BY <2>1 DEF Go
  <2> HIDE DEF n
  <2>5. f # None => f \in Files /\ FileRow(f) /\ SameNode(f, e)
    BY <2>1 DEF FileForInstance, SameNode
  <2>6. Fits(n)
    BY <2>1, <2>3, <2>5 DEF Fits, Names, Holds, Excludes, Verifying, Starting,
                            Trashing, TaskKinds, Usable
  <2> QED BY <1>1, <2>2, <2>4, <2>6, NewRequest DEF CreateLocalRead, Arrives
<1>2. CASE CreateExternalRead(o)
  <2>1. PICK m \in Models \cup {None}, e \in Runtimes \cup {None} :
          Go(o, [Idle EXCEPT !.kind = "create_external", !.pc = "save",
                             !.on = e, !.of = m])
    BY <1>2 DEF CreateExternalRead
  <2> DEFINE n == [Idle EXCEPT !.kind = "create_external", !.pc = "save",
                               !.on = e, !.of = m]
  <2>2. n \in Requests
    BY IdleIsRequest, KindsAre, Pcs, Put DEF Rows
  <2>3. n.kind = "create_external" /\ n.pc = "save" /\ n.on = e /\ n.of = m
    BY IdleIsRequest DEF Requests
  <2>4. op' = [op EXCEPT ![o] = n]
    BY <2>1 DEF Go
  <2> HIDE DEF n
  <2>5. Fits(n)
    BY <2>3 DEF Fits, Names, Holds, Excludes, Verifying, Starting, Trashing,
                TaskKinds
  <2> QED BY <1>2, <2>2, <2>4, <2>5, NewRequest
             DEF CreateExternalRead, Arrives
<1> QED BY <1>1, <1>2

LEMMA InstanceReads ==
  ASSUME Inv, NEW o \in Ops,
         UpdateInstanceRead(o) \/ DeleteInstanceRead(o) \/ CheckInstanceRead(o)
  PROVE  Inv'
<1>1. \A i \in Instances : InstanceRow(i) => inst[i].state \in InstanceState
  BY InvParts DEF Sound, Tables, InstanceRows, InstanceRow
<1>2. CASE UpdateInstanceRead(o)
  <2>1. PICK i \in Instances :
          /\ InstanceRow(i)
          /\ Go(o, [Idle EXCEPT !.kind = "update_instance", !.pc = "write",
                                !.on = i, !.was = inst[i].state,
                                !.todo = BusyNow])
    BY <1>2 DEF UpdateInstanceRead
  <2> DEFINE n == [Idle EXCEPT !.kind = "update_instance", !.pc = "write",
                               !.on = i, !.was = inst[i].state,
                               !.todo = BusyNow]
  <2>2. n \in Requests
    BY <1>1, <2>1, IdleIsRequest, KindsAre, Pcs, Put DEF Rows, BusyNow
  <2>3. /\ n.kind = "update_instance" /\ n.pc = "write" /\ n.on = i
        /\ n.was = inst[i].state
    BY IdleIsRequest DEF Requests
  <2>4. op' = [op EXCEPT ![o] = n]
    BY <2>1 DEF Go
  <2> HIDE DEF n
  <2>5. Fits(n)
    BY <1>1, <2>1, <2>3 DEF Fits, Names, Holds, Excludes, Verifying, Starting,
                            Trashing, TaskKinds, InstanceRow
  <2> QED BY <1>2, <2>2, <2>4, <2>5, NewRequest
             DEF UpdateInstanceRead, Arrives
<1>3. CASE DeleteInstanceRead(o)
  <2>1. PICK i \in Instances :
          /\ InstanceRow(i)
          /\ Go(o, [Idle EXCEPT !.kind = "delete_instance", !.pc = "write",
                                !.on = i])
    BY <1>3 DEF DeleteInstanceRead
  <2> DEFINE n == [Idle EXCEPT !.kind = "delete_instance", !.pc = "write",
                               !.on = i]
  <2>2. n \in Requests
    BY IdleIsRequest, KindsAre, Pcs, Put DEF Rows
  <2>3. n.kind = "delete_instance" /\ n.pc = "write" /\ n.on = i
    BY IdleIsRequest DEF Requests
  <2>4. op' = [op EXCEPT ![o] = n]
    BY <2>1 DEF Go
  <2> HIDE DEF n
  <2>5. Fits(n)
    BY <2>1, <2>3 DEF Fits, Names, Holds, Excludes, Verifying, Starting,
                      Trashing, TaskKinds, InstanceRow
  <2> QED BY <1>3, <2>2, <2>4, <2>5, NewRequest
             DEF DeleteInstanceRead, Arrives
<1>4. CASE CheckInstanceRead(o)
  <2>1. PICK i \in Instances :
          /\ InstanceRow(i)
          /\ Go(o, [Idle EXCEPT !.kind = "check_instance", !.pc = "write",
                                !.on = i, !.was = inst[i].state])
    BY <1>4 DEF CheckInstanceRead
  <2> DEFINE n == [Idle EXCEPT !.kind = "check_instance", !.pc = "write",
                               !.on = i, !.was = inst[i].state]
  <2>2. n \in Requests
    BY <1>1, <2>1, IdleIsRequest, KindsAre, Pcs, Put DEF Rows
  <2>3. /\ n.kind = "check_instance" /\ n.pc = "write" /\ n.on = i
        /\ n.was = inst[i].state
    BY IdleIsRequest DEF Requests
  <2>4. op' = [op EXCEPT ![o] = n]
    BY <2>1 DEF Go
  <2> HIDE DEF n
  <2>5. Fits(n)
    BY <1>1, <2>1, <2>3 DEF Fits, Names, Holds, Excludes, Verifying, Starting,
                            Trashing, TaskKinds, InstanceRow
  <2> QED BY <1>4, <2>2, <2>4, <2>5, NewRequest
             DEF CheckInstanceRead, Arrives
<1> QED BY <1>2, <1>3, <1>4

\* The settings that a request reads may be run.
LEMMA SettingsRead ==
  ASSUME Sound, NEW i \in Instances, InstanceRow(i), inst[i].local,
         runtime[inst[i].runtime].ollama \/ FileForInstance(inst[i].file)
  PROVE  SettingsOf(i) \in Settings /\ Proper(i, SettingsOf(i))
<1> DEFINE e == inst[i].runtime
           f == IF runtime[e].ollama THEN None ELSE inst[i].file
<1>1. e \in Runtimes /\ inst[i].state # "none"
      /\ inst[i].file \in Files \cup {None} /\ inst[i].rev \in Nat
      /\ inst[i].model \in Models \cup {None}
  BY DEF Sound, Filled, InstanceRow, Tables, InstanceRows
<1>2. runtime[e].rev \in Nat
      /\ (inst[i].model # None => model[inst[i].model].rev \in Nat)
  BY <1>1 DEF Sound, Tables, RuntimeRows, ModelRows
<1>3. f # None => /\ f \in Files /\ f = inst[i].file
                  /\ file[f].place \in Places \cup {None}
                  /\ file[f].seen \in Places \cup {None}
                  /\ file[f].state = "verified"
  BY <1>1 DEF Sound, Tables, FileRows, FileForInstance
<1>4. /\ SettingsOf(i).place = IF f = None THEN None ELSE file[f].place
      /\ SettingsOf(i).seen = IF f = None THEN None ELSE file[f].seen
  BY DEF SettingsOf
<1>5. SettingsOf(i) \in Settings
  BY <1>1, <1>2, <1>3 DEF SettingsOf, Settings
<1>6. Proper(i, SettingsOf(i))
  BY <1>1, <1>3, <1>4
     DEF Proper, Sound, VerifiedNamesPath, Sited, SameNode
<1> QED BY <1>5, <1>6

LEMMA RunReadStep ==
  ASSUME Inv, NEW o \in Ops, RunRead(o)
  PROVE  Inv'
<1>1. PICK k \in TaskKinds, i \in Instances :
        /\ Arrives(o, k) /\ InstanceRow(i) /\ inst[i].local
        /\ runtime[inst[i].runtime].ollama \/ FileForInstance(inst[i].file)
        /\ Go(o, [Idle EXCEPT !.kind = k, !.pc = "queue", !.on = i,
                              !.sees = SettingsOf(i)])
  BY DEF RunRead
<1> DEFINE n == [Idle EXCEPT !.kind = k, !.pc = "queue", !.on = i,
                             !.sees = SettingsOf(i)]
<1>2. SettingsOf(i) \in Settings /\ Proper(i, SettingsOf(i))
  BY <1>1, InvParts, SettingsRead
<1>3. n \in Requests
  BY <1>2, IdleIsRequest, KindsAre, Pcs, Put DEF Rows, TaskKinds
<1>4. n.kind = k /\ n.pc = "queue" /\ n.on = i /\ n.sees = SettingsOf(i)
  BY IdleIsRequest DEF Requests
<1>5. op' = [op EXCEPT ![o] = n]
  BY <1>1 DEF Go
<1> HIDE DEF n
<1>6. Starting(n)
  BY <1>2, <1>4 DEF Starting, Current
<1>7. Fits(n)
  BY <1>1, <1>2, <1>4, <1>6 DEF Fits, Names, Holds, Excludes, Verifying,
                                Trashing, TaskKinds, InstanceRow
<1> QED BY <1>1, <1>3, <1>5, <1>7, NewRequest DEF RunRead, Arrives

-----------------------------------------------------------------------------
(* What requests rely on in the tables.                                    *)

FilesStay ==
  \A f \in Files : FileRow(f) => /\ FileRow(f)'
                                 /\ file'[f].model = file[f].model
PlacesStay ==
  \A f \in Files : FileRow(f) => file'[f].place = file[f].place
NodesStay ==
  \A f \in Files : FileRow(f) => \/ file'[f].place[1] = file[f].place[1]
                                 \/ f \in moved'
KeptStay == \A f \in Files : FileRow(f) /\ Kept(f) => Kept(f)'
ModelsStay == \A m \in Models : model[m].state # "none"
                                  => model'[m].state # "none"
RuntimesStay ==
  \A e \in Runtimes : runtime[e].state # "none" =>
    runtime'[e].state # "none" /\ runtime'[e].node = runtime[e].node
InstancesStay ==
  \A i \in Instances : inst[i].state # "none" =>
    /\ inst'[i].state # "none" /\ inst'[i].local = inst[i].local
    /\ inst'[i].runtime = inst[i].runtime /\ inst'[i].model = inst[i].model
    /\ inst'[i].file = inst[i].file
HistoryGrows ==
  mixed \subseteq mixed' /\ moved \subseteq moved' /\ untraced \subseteq untraced'

TablesStay == /\ FilesStay /\ NodesStay /\ KeptStay /\ ModelsStay
              /\ RuntimesStay /\ InstancesStay /\ HistoryGrows

\* What has the settings of instance i keeps them, or is known to differ.
SettingsStay(i) ==
  InstanceRow(i)' =>
    /\ InstanceRow(i) /\ (i \in drifted => i \in drifted')
    /\ i \in drifted' \/ LET now == SettingsOf(i)
                         IN /\ now'.runtime = now.runtime
                            /\ now'.model = now.model
                            /\ now'.own = now.own

\* This matters for what runs or is being started.
RunningSettingsStay ==
  \A i \in Instances : up[i] # None \/ StartsOf(i) # {} => SettingsStay(i)

\* A file that came just now is no concern of request r, or is kept.
NewFilesKept(r) ==
  Fills(r) => \A f \in Files :
    ~ FileRow(f) /\ FileRow(f)' /\ r.on \in {f, file'[f].model} => Kept(f)'

LEMMA Carry ==
  ASSUME Sound, TablesStay, NEW r \in Requests, Fits(r), NewFilesKept(r),
         Verifying(r)', r.pc = "trash" => SamePlace(r.of, r.place)',
         r.kind = "start" /\ Open(r) => SettingsStay(r.on)
  PROVE  Fits(r)'
<1>1. Names(r)'
  BY DEF Fits, Names, TablesStay, FilesStay, RuntimesStay, InstancesStay,
         FileRow, TaskKinds
<1>2. Holds(r)'
  <2>1. r.kind = "create_local" /\ r.of # None =>
          /\ r.of \in Files /\ FileRow(r.of)' /\ SameNode(r.of, r.on)'
    BY DEF Fits, Names, Holds, SameNode, TablesStay, FilesStay, NodesStay,
           RuntimesStay, HistoryGrows
  <2>2. r.kind \in TaskKinds => inst'[r.on].local
    BY DEF Fits, Names, Holds, TablesStay, InstancesStay
  <2> QED BY <2>1, <2>2 DEF Fits, Holds
<1>3. Excludes(r)'
  BY DEF Fits, Excludes, TablesStay, InstancesStay
<1>4. Starting(r)'
  <2> SUFFICES ASSUME r.kind = "start", Open(r)
               PROVE  /\ Proper(r.on, r.sees)'
                      /\ InstanceRow(r.on)'
                           => Current(r.on, r.sees)' \/ r.on \in drifted'
    BY DEF Starting, Open
  <2> DEFINE i == r.on
  <2>1. /\ i \in Instances /\ inst[i].state # "none" /\ inst[i].local
        /\ Proper(i, r.sees)
        /\ InstanceRow(i) => Current(i, r.sees) \/ i \in drifted
    BY DEF Fits, Names, Holds, Starting, TaskKinds
  <2>2. inst[i].runtime \in Runtimes /\ inst[i].runtime # None
    BY <2>1, CatalogueAssumption DEF Sound, Filled, Rows
  <2>3. runtime[inst[i].runtime].state # "none"
    BY <2>1, <2>2 DEF Sound, Filled
  <2>4. Proper(i, r.sees)'
    BY <2>1, <2>2, <2>3
       DEF Proper, TablesStay, InstancesStay, RuntimesStay, HistoryGrows
  <2>5. InstanceRow(i)' => Current(i, r.sees)' \/ i \in drifted'
    BY <2>1 DEF SettingsStay, Current
  <2> QED BY <2>4, <2>5
<1>5. Trashing(r)'
  <2> SUFFICES ASSUME Fills(r) PROVE Trashing(r)'
    BY DEF Fills, Fits, Trashing
  <2>1. /\ r.task = "none"
        /\ r.kind \in {"create_trash", "delete_model_file", "delete_model"}
        /\ r.kind = "delete_model" => r.on \in Models
                                      /\ model[r.on].state # "none"
        /\ \A f \in r.todo : f \in Files /\ FileRow(f) /\ About(r, f)
        /\ \A f \in Files : FileRow(f) /\ About(r, f)
                               => f \in r.todo \/ Kept(f)
        /\ r.pc = "trash" => r.of \in r.todo /\ SamePlace(r.of, r.place)
    BY DEF Fits, Trashing, Fills, Names
  <2>2. \A f \in r.todo : f \in Files /\ FileRow(f)' /\ About(r, f)'
    BY <2>1 DEF TablesStay, FilesStay, About
  <2>3. ASSUME NEW f \in Files, FileRow(f)', About(r, f)'
        PROVE  f \in r.todo \/ Kept(f)'
    <3>1. CASE FileRow(f)
      <4>1. About(r, f)
        BY <2>3, <3>1 DEF About, TablesStay, FilesStay
      <4> QED BY <2>1, <3>1, <4>1 DEF TablesStay, KeptStay
    <3>2. CASE ~ FileRow(f)
      BY <2>3, <3>2 DEF About, NewFilesKept
    <3> QED BY <3>1, <3>2
  <2>4. r.kind = "delete_model" => model'[r.on].state # "none"
    BY <2>1 DEF TablesStay, ModelsStay
  <2> QED BY <2>1, <2>2, <2>3, <2>4 DEF Trashing
<1> QED BY <1>1, <1>2, <1>3, <1>4, <1>5 DEF Fits

\* Where no file moves and none is added, nothing more is needed.
LEMMA CarryAll ==
  ASSUME Sound, Fit, TablesStay, PlacesStay,
         \A q \in Ops : NewFilesKept(op[q]),
         RunningSettingsStay
  PROVE  Carried
<1> SUFFICES ASSUME NEW q \in Ops, NEW r \in Requests, r = op[q]
             PROVE  Fits(r)'
  BY DEF Carried
<1>1. Fits(r) /\ (r.kind = "start" => r.on \in Instances)
  BY DEF Fit, Fits, Names, TaskKinds
<1>2. Verifying(r)'
  BY <1>1 DEF Fits, Names, Verifying, TablesStay, PlacesStay, HistoryGrows
<1>3. r.pc = "trash" => SamePlace(r.of, r.place)'
  BY <1>1 DEF Fits, Trashing, SamePlace, TablesStay, PlacesStay, HistoryGrows
<1>4. r.kind = "start" /\ Open(r) => SettingsStay(r.on)
  BY <1>1 DEF RunningSettingsStay, StartsOf, Open, InFlight
<1> QED BY <1>1, <1>2, <1>3, <1>4, Carry

\* What the tables rely on among each other, where rows stay.
LEMMA RowsStay ==
  ASSUME Sound, TablesStay, NEW i \in Instances, inst[i].state # "none"
  PROVE  /\ inst'[i].local \/ inst'[i].file # None
              => inst'[i].runtime \in Runtimes
         /\ inst'[i].runtime # None => runtime'[inst'[i].runtime].state # "none"
         /\ inst'[i].file # None => FileRow(inst[i].file)'
         /\ inst'[i].file # None
              => SameNode(inst[i].file, inst[i].runtime)'
<1>1. /\ inst'[i].local = inst[i].local /\ inst'[i].file = inst[i].file
      /\ inst'[i].runtime = inst[i].runtime
  BY DEF TablesStay, InstancesStay
<1>2. /\ inst[i].runtime \in Runtimes \cup {None}
      /\ inst[i].file \in Files \cup {None}
      /\ inst[i].local \/ inst[i].file # None => inst[i].runtime \in Runtimes
      /\ inst[i].runtime # None => runtime[inst[i].runtime].state # "none"
      /\ inst[i].file # None => FileRow(inst[i].file)
  BY DEF Sound, Tables, InstanceRows, Filled
<1>3. inst[i].runtime # None => /\ runtime'[inst[i].runtime].state # "none"
                                /\ runtime'[inst[i].runtime].node
                                     = runtime[inst[i].runtime].node
  BY <1>2 DEF TablesStay, RuntimesStay
<1>4. inst[i].file # None => FileRow(inst[i].file)'
  BY <1>1, <1>2 DEF TablesStay, FilesStay, FileRow
<1>5. inst[i].file # None => SameNode(inst[i].file, inst[i].runtime)'
  <2> SUFFICES ASSUME inst[i].file # None
               PROVE  SameNode(inst[i].file, inst[i].runtime)'
    OBVIOUS
  <2>1. inst[i].runtime \in Runtimes /\ inst[i].runtime # None
    BY <1>2, CatalogueAssumption DEF Rows
  <2>2. SameNode(inst[i].file, inst[i].runtime)
    BY DEF Sound, Sited
  <2>3. \/ file'[inst[i].file].place[1] = file[inst[i].file].place[1]
        \/ inst[i].file \in moved'
    BY <1>2 DEF TablesStay, NodesStay
  <2>4. moved \subseteq moved'
    BY DEF TablesStay, HistoryGrows
  <2> QED BY <1>1, <1>3, <2>1, <2>2, <2>3, <2>4 DEF SameNode
<1> QED BY <1>1, <1>2, <1>3, <1>4, <1>5

LEMMA RunsStay ==
  ASSUME Sound, TablesStay, NEW i \in Instances, up'[i] = up[i],
         up[i] # None
  PROVE  /\ inst'[i].state # "none" /\ inst'[i].local
         /\ Proper(i, up[i])'
         /\ SettingsStay(i) /\ InstanceRow(i)'
              => Current(i, up[i])' \/ i \in drifted'
<1>1. inst[i].state # "none" /\ inst[i].local
  BY DEF Sound, Unused
<1>2. /\ inst'[i].state # "none" /\ inst'[i].local = inst[i].local
      /\ inst'[i].file = inst[i].file /\ inst'[i].runtime = inst[i].runtime
  BY <1>1 DEF TablesStay, InstancesStay
<1>3. inst[i].runtime \in Runtimes /\ inst[i].runtime # None
  BY <1>1, CatalogueAssumption DEF Sound, Filled, Rows
<1>4. runtime'[inst[i].runtime].node = runtime[inst[i].runtime].node
  BY <1>1, <1>3 DEF Sound, Filled, TablesStay, RuntimesStay
<1>5. Proper(i, up[i])
  BY DEF Sound, StartsVerified, Proper
<1>6. Proper(i, up[i])'
  BY <1>2, <1>4, <1>5 DEF Proper, TablesStay, HistoryGrows
<1>7. SettingsStay(i) /\ InstanceRow(i)'
        => Current(i, up[i])' \/ i \in drifted'
  BY DEF Sound, RunsAsConfigured, SettingsStay, Current
<1> QED BY <1>1, <1>2, <1>6, <1>7

LEMMA RunningStays ==
  ASSUME Sound, TablesStay, up' = up, RunningSettingsStay
  PROVE  StartsVerified' /\ RunsAsConfigured'
         /\ \A i \in Instances : up'[i] # None => /\ inst'[i].state # "none"
                                                  /\ inst'[i].local
<1>1. ASSUME NEW i \in Instances, up'[i] # None
      PROVE  /\ inst'[i].state # "none" /\ inst'[i].local
             /\ Proper(i, up[i])'
             /\ InstanceRow(i)' => Current(i, up[i])' \/ i \in drifted'
  BY <1>1, RunsStay DEF RunningSettingsStay
<1> QED BY <1>1 DEF StartsVerified, RunsAsConfigured, Proper, Current

-----------------------------------------------------------------------------
(* Model files. *)

\* An instance whose settings are not written at all.
LEMMA SameSettings ==
  ASSUME Sound, NEW i \in Instances,
         inst'[i] = inst[i] \/ ~ InstanceRow(i)',
         InstanceRow(i) => /\ runtime'[inst[i].runtime].rev
                                = runtime[inst[i].runtime].rev
                           /\ \A m \in Models : inst[i].model = m
                                => model'[m].rev = model[m].rev,
         i \in drifted => i \in drifted'
  PROVE  SettingsStay(i)
<1> SUFFICES ASSUME InstanceRow(i)' PROVE SettingsStay(i)
  BY DEF SettingsStay
<1>1. inst'[i] = inst[i] /\ InstanceRow(i)
  BY DEF InstanceRow
<1>2. inst[i].model \in Models \cup {None}
  BY DEF Sound, Tables, InstanceRows
<1> QED BY <1>1, <1>2 DEF SettingsStay, SettingsOf

LEMMA FileInserted ==
  ASSUME Inv, NEW f \in Files, ~ FileRow(f), NEW m \in Models, NEW p \in Places,
         file' = [file EXCEPT ![f] = Verified(m, p)],
         \/ model' = model
         \/ /\ model[m].state = "none"
            /\ model' = [model EXCEPT ![m] = [state |-> "live", rev |-> 0]],
         untraced \subseteq untraced', untraced' \subseteq Files,
         UnderDeletion(m) => f \in untraced',
         UNCHANGED <<scope, world, trash, runtime, inst, mixed, moved, offered,
                     drifted>>
  PROVE  Sound' /\ Explained /\ Carried
<1> USE DEF world
<1>1. Sound /\ Fit
  BY InvParts
<1>2. /\ \A g \in Files \ {f} : file'[g] = file[g]
      /\ file'[f] = Verified(m, p)
      /\ Verified(m, p).state = "verified" /\ Verified(m, p).model = m
      /\ Verified(m, p).place = p /\ Verified(m, p).seen = p
      /\ ~ Verified(m, p).deleted /\ Verified(m, p) \in FileRows
  BY <1>1 DEF Sound, Tables, Verified, FileRows
<1>3. \A g \in Files : /\ FileRow(g) => FileRow(g)' /\ file'[g] = file[g]
                       /\ FileRow(g)' => FileRow(g) \/ g = f
  BY <1>2 DEF FileRow
<1>4. /\ model' \in [Models -> ModelRows]
      /\ \A k \in Models : /\ model'[k].rev = model[k].rev
                           /\ model'[k].state # model[k].state =>
                                model[k].state = "none" /\ k = m
                                  /\ model'[k].state = "live"
  BY <1>1 DEF Sound, Tables, Unused, ModelRows
<1>5. TablesStay /\ PlacesStay
  <2>1. FilesStay /\ PlacesStay /\ NodesStay
    BY <1>3 DEF FilesStay, PlacesStay, NodesStay
  <2>2. KeptStay
    BY DEF KeptStay, Kept, TrashOf, InTrash
  <2>3. ModelsStay /\ RuntimesStay /\ InstancesStay /\ HistoryGrows
    BY <1>4 DEF ModelsStay, RuntimesStay, InstancesStay, HistoryGrows
  <2> QED BY <2>1, <2>2, <2>3 DEF TablesStay
<1>6. RunningSettingsStay
  BY <1>1, <1>4, SameSettings DEF RunningSettingsStay
<1>7. Tables'
  BY <1>1, <1>2, <1>4 DEF Sound, Tables
<1>8. Unused' /\ Filled' /\ Sited'
  <2>1. Unused'
    BY <1>1, <1>2, <1>4 DEF Sound, Unused, FileRow
  <2>2. \A g \in Files : FileRow(g)' => /\ file'[g].model \in Models
                                        /\ file'[g].place \in Places
    BY <1>1, <1>2, <1>3 DEF Sound, Filled
  <2>3. \A x \in Trash : InTrash(x)' => /\ trash'[x].file \in Files
                                        /\ FileRow(trash[x].file)'
    BY <1>1, <1>3 DEF Sound, Filled, InTrash, FileRow
  <2> QED BY <1>1, <1>5, <2>1, <2>2, <2>3, RowsStay DEF Filled, Sited
<1>9. GoneAreKept'
  <2> SUFFICES ASSUME NEW g \in Files, FileRow(g)', Gone(g)'
               PROVE  Kept(g)'
    BY DEF GoneAreKept
  <2>1. CASE g = f
    BY <1>2, <1>4, <2>1 DEF Gone, Kept, UnderDeletion
  <2>2. CASE g # f
    <3>1. FileRow(g) /\ Gone(g) /\ file'[g] = file[g] /\ file[g].model \in Models
      BY <1>1, <1>2, <1>3, <1>4, <2>2 DEF Gone, Sound, Filled
    <3> QED BY <1>1, <3>1 DEF Sound, GoneAreKept, Kept, TrashOf, InTrash
  <2> QED BY <2>1, <2>2
<1>10. ItemsAreOfFiles'
  BY <1>1, <1>3 DEF Sound, ItemsAreOfFiles, Filled, SamePlace, InTrash
<1>11. VerifiedNamesPath' /\ RuntimeOfInstance'
  BY <1>1, <1>2 DEF Sound, VerifiedNamesPath, RuntimeOfInstance, InstanceRow,
                    RuntimeRow
<1>12. StartsVerified' /\ RunsAsConfigured'
  BY <1>1, <1>5, <1>6, RunningStays
<1>13. Explained
  BY <1>1, <1>3, <1>4 DEF Explained, InTrash, Gone, Sound, Filled
<1>14. ASSUME NEW q \in Ops PROVE NewFilesKept(op[q])
  <2> SUFFICES ASSUME Fills(op[q]), op[q].on \in {f, m}
               PROVE  f \in untraced'
    BY <1>2, <1>3 DEF NewFilesKept, Kept
  <2>1. op[q].on # f
    BY <1>1, CatalogueAssumption
       DEF Fit, Fits, Names, Fills, Trashing
  <2>2. op[q].kind = "delete_model"
    BY <1>1, <2>1, CatalogueAssumption DEF Fit, Fits, Names, Fills, Trashing
  <2> QED BY <2>1, <2>2 DEF UnderDeletion, Fills
<1>15. Carried
  BY <1>1, <1>5, <1>6, <1>14, CarryAll
<1> QED BY <1>1, <1>7, <1>8, <1>9, <1>10, <1>11, <1>12, <1>13, <1>15 DEF Sound

LEMMA FreshIs ==
  ASSUME NEW S, NEW table, HasFresh(S, table)
  PROVE  Fresh(S, table) \in S /\ table[Fresh(S, table)].state = "none"
BY DEF HasFresh, Fresh

LEMMA SaveStep ==
  ASSUME Inv, NEW o \in Ops, SaveModel(o) \/ SaveFile(o)
  PROVE  Inv'
<1>1. Sound /\ Fit /\ op[o] \in Requests /\ Fits(op[o])
  BY InvParts DEF Fit
<1>2. CASE SaveModel(o)
  <2> DEFINE m == Fresh(Models, model)  f == Fresh(Files, file)
             p == op[o].place
  <2>1. /\ op[o].kind = "create_model" /\ op[o].pc = "save" /\ Finish(o)
        /\ HasFresh(Models, model) /\ HasFresh(Files, file)
        /\ model' = [model EXCEPT ![m] = [state |-> "live", rev |-> 0]]
        /\ file' = [file EXCEPT ![f] = Verified(m, p)]
        /\ UNCHANGED <<scope, world, trash, runtime, inst, history>>
    BY <1>2 DEF SaveModel, At
  <2>2. /\ m \in Models /\ model[m].state = "none"
        /\ f \in Files /\ ~ FileRow(f)
    BY <2>1, FreshIs DEF FileRow
  <2>3. p \in Places
    BY <1>1, <2>1 DEF Fits, Holds
  <2>4. ~ UnderDeletion(m)
    BY <1>1, <2>2 DEF UnderDeletion, Fit, Fits, Trashing
  <2>5. untraced \subseteq untraced' /\ untraced' \subseteq Files
    BY <1>1, <2>1 DEF Sound, Tables, history
  <2> HIDE DEF m, f, p
  <2>6. Sound' /\ Explained /\ Carried
    BY <2>1, <2>2, <2>3, <2>4, <2>5, FileInserted DEF history
  <2> QED BY <2>1, <2>6, Ends DEF Fills
<1>3. CASE SaveFile(o)
  <2> DEFINE m == op[o].on  f == Fresh(Files, file)  p == op[o].place
  <2>1. /\ op[o].kind = "create_model_file" /\ op[o].pc = "save" /\ Finish(o)
        /\ HasFresh(Files, file)
        /\ file' = [file EXCEPT ![f] = Verified(m, p)]
        /\ untraced' = IF UnderDeletion(m) THEN untraced \cup {f}
                       ELSE untraced
        /\ UNCHANGED <<scope, world, model, trash, runtime, inst, mixed, moved,
                       offered, drifted>>
    BY <1>3 DEF SaveFile, At
  <2>2. f \in Files /\ ~ FileRow(f)
    BY <2>1, FreshIs DEF FileRow
  <2>3. p \in Places /\ m \in Models
    BY <1>1, <2>1 DEF Fits, Holds, Names
  <2>4. untraced \subseteq untraced' /\ untraced' \subseteq Files
        /\ (UnderDeletion(m) => f \in untraced')
    BY <1>1, <2>1, <2>2 DEF Sound, Tables
  <2> HIDE DEF m, f, p
  <2>5. Sound' /\ Explained /\ Carried
    BY <2>1, <2>2, <2>3, <2>4, FileInserted
  <2> QED BY <2>1, <2>5, Ends DEF Fills
<1> QED BY <1>2, <1>3

\* A file row is written that stays in the catalogue where it is.
LEMMA FileVerified ==
  ASSUME Inv, NEW f \in Files, FileRow(f),
         NEW s \in {"verified", "verify_pending", "failed"},
         NEW x \in Places \cup {None},
         file' = [file EXCEPT ![f].state = s, ![f].seen = x],
         s = "verified" => x = file[f].place \/ f \in mixed,
         UNCHANGED <<scope, world, model, trash, runtime, inst, history>>
  PROVE  Sound' /\ Explained /\ Carried
<1> USE DEF world, history
<1>1. Sound /\ Fit
  BY InvParts
<1>2. /\ \A g \in Files \ {f} : file'[g] = file[g]
      /\ file'[f].state = s /\ file'[f].seen = x
      /\ file'[f].model = file[f].model /\ file'[f].place = file[f].place
      /\ file'[f].deleted = file[f].deleted /\ file'[f] \in FileRows
  BY <1>1 DEF Sound, Tables, FileRows
<1>3. \A g \in Files : /\ FileRow(g)' <=> FileRow(g)
                       /\ file'[g].model = file[g].model
                       /\ file'[g].place = file[g].place
                       /\ file'[g].deleted = file[g].deleted
  BY <1>2 DEF FileRow
<1>4. TablesStay /\ PlacesStay
  BY <1>3 DEF TablesStay, FilesStay, PlacesStay, NodesStay, KeptStay, Kept,
              TrashOf, InTrash, ModelsStay, RuntimesStay, InstancesStay, HistoryGrows
<1>5. RunningSettingsStay
  BY <1>1, SameSettings DEF RunningSettingsStay
<1>6. Tables'
  BY <1>1, <1>2 DEF Sound, Tables
<1>7. Unused' /\ Filled' /\ Sited'
  <2>1. Unused'
    BY <1>1, <1>3 DEF Sound, Unused
  <2>2. /\ \A g \in Files : FileRow(g)' => /\ file'[g].model \in Models
                                           /\ file'[g].place \in Places
        /\ \A y \in Trash : InTrash(y)' => /\ trash'[y].file \in Files
                                           /\ FileRow(trash[y].file)'
    BY <1>1, <1>3 DEF Sound, Filled, InTrash, FileRow
  <2> QED BY <1>1, <1>4, <2>1, <2>2, RowsStay DEF Filled, Sited
<1>8. GoneAreKept' /\ ItemsAreOfFiles'
  <2>1. \A g \in Files : FileRow(g)' /\ Gone(g)' => Kept(g)'
    BY <1>1, <1>3 DEF Sound, GoneAreKept, Gone, Kept, TrashOf, InTrash
  <2>2. ItemsAreOfFiles'
    BY <1>1, <1>3 DEF Sound, ItemsAreOfFiles, Filled, SamePlace, InTrash
  <2> QED BY <2>1, <2>2 DEF GoneAreKept
<1>9. VerifiedNamesPath' /\ RuntimeOfInstance'
  BY <1>1, <1>2 DEF Sound, VerifiedNamesPath, RuntimeOfInstance, InstanceRow,
                    RuntimeRow
<1>10. StartsVerified' /\ RunsAsConfigured'
  BY <1>1, <1>4, <1>5, RunningStays
<1>11. Explained
  BY <1>1, <1>3 DEF Explained, InTrash, Gone
<1>12. Carried
  BY <1>1, <1>3, <1>4, <1>5, CarryAll DEF NewFilesKept
<1> QED BY <1>1, <1>6, <1>7, <1>8, <1>9, <1>10, <1>11, <1>12 DEF Sound

LEMMA SaveUpdateStep ==
  ASSUME Inv, NEW o \in Ops, SaveUpdate(o)
  PROVE  Inv'
<1> DEFINE f == op[o].on  p == op[o].place
<1> USE DEF world
<1>1. Sound /\ Fit /\ op[o] \in Requests /\ Fits(op[o])
  BY InvParts DEF Fit
<1>2. /\ op[o].kind = "update_model_file" /\ op[o].pc = "save" /\ Finish(o)
      /\ file' = [file EXCEPT ![f].place = p, ![f].state = "verified",
                              ![f].seen = p]
      /\ mixed' = IF VerifiesOther(f, p) THEN mixed \cup {f} ELSE mixed
      /\ moved' = IF p[1] # file[f].place[1] THEN moved \cup {f} ELSE moved
      /\ untraced' = IF TrashOf(f) # {} \/ PlaceRead(f)
                     THEN untraced \cup {f} ELSE untraced
      /\ UNCHANGED <<scope, disk, up, model, trash, runtime, inst, offered,
                     drifted>>
  BY DEF SaveUpdate, At
<1>3. f \in Files /\ FileRow(f) /\ p \in Places
  BY <1>1, <1>2 DEF Fits, Names, Holds
<1> HIDE DEF f, p
<1>4. /\ \A g \in Files \ {f} : file'[g] = file[g]
      /\ file'[f].state = "verified" /\ file'[f].seen = p
      /\ file'[f].place = p /\ file'[f].model = file[f].model
      /\ file'[f].deleted = file[f].deleted /\ file'[f] \in FileRows
  <2> DEFINE t == [file[f] EXCEPT !.place = p, !.state = "verified", !.seen = p]
  <2>1. file \in [Files -> FileRows] /\ file[f] \in FileRows
    BY <1>1, <1>3 DEF Sound, Tables
  <2>2. t \in FileRows
    BY <1>3, <2>1 DEF FileRows
  <2>3. /\ t.state = "verified" /\ t.seen = p /\ t.place = p
        /\ t.model = file[f].model /\ t.deleted = file[f].deleted
    BY <2>1 DEF FileRows
  <2>4. file' = [file EXCEPT ![f] = t]
    BY <1>2, <2>1
  <2> HIDE DEF t
  <2> QED BY <1>3, <2>1, <2>2, <2>3, <2>4
<1>5. \A g \in Files : /\ FileRow(g)' <=> FileRow(g)
                       /\ file'[g].model = file[g].model
                       /\ file'[g].deleted = file[g].deleted
                       /\ g # f => file'[g].place = file[g].place
  BY <1>3, <1>4 DEF FileRow
<1>6. TablesStay
  <2>1. HistoryGrows /\ ModelsStay /\ RuntimesStay /\ InstancesStay
    BY <1>2 DEF HistoryGrows, ModelsStay, RuntimesStay, InstancesStay
  <2>2. KeptStay
    BY <1>2, <2>1 DEF KeptStay, Kept, TrashOf, InTrash, HistoryGrows
  <2>3. FilesStay
    BY <1>5 DEF FilesStay
  <2>4. NodesStay
    BY <1>2, <1>4, <1>5 DEF NodesStay
  <2> QED BY <2>1, <2>2, <2>3, <2>4 DEF TablesStay
<1>7. RunningSettingsStay
  BY <1>1, <1>2, SameSettings DEF RunningSettingsStay
<1>8. Tables'
  BY <1>1, <1>2, <1>3, <1>4 DEF Sound, Tables
<1>9. Unused' /\ Filled' /\ Sited'
  <2>1. Unused'
    BY <1>1, <1>2, <1>5 DEF Sound, Unused
  <2>2. /\ \A g \in Files : FileRow(g)' => /\ file'[g].model \in Models
                                           /\ file'[g].place \in Places
        /\ \A y \in Trash : InTrash(y)' => /\ trash'[y].file \in Files
                                           /\ FileRow(trash[y].file)'
    BY <1>1, <1>2, <1>3, <1>4, <1>5 DEF Sound, Filled, InTrash, FileRow
  <2> QED BY <1>1, <1>2, <1>6, <2>1, <2>2, RowsStay DEF Filled, Sited
<1>10. GoneAreKept'
  <2>1. \A g \in Files : FileRow(g)' /\ Gone(g)' => Kept(g)'
    BY <1>1, <1>2, <1>5, <1>6
       DEF Sound, GoneAreKept, Gone, TablesStay, KeptStay
  <2> QED BY <2>1 DEF GoneAreKept
<1>11. ItemsAreOfFiles'
  <2> SUFFICES ASSUME NEW x \in Trash, InTrash(x)'
               PROVE  SamePlace(trash[x].file, trash[x].place)'
    BY DEF ItemsAreOfFiles
  <2>1. InTrash(x) /\ trash'[x] = trash[x] /\ trash[x].file \in Files
        /\ SamePlace(trash[x].file, trash[x].place)
    BY <1>1, <1>2 DEF InTrash, Sound, Filled, ItemsAreOfFiles
  <2>2. CASE trash[x].file = f
    BY <1>2, <2>1, <2>2 DEF TrashOf, SamePlace
  <2>3. CASE trash[x].file # f
    BY <1>2, <1>5, <2>1, <2>3 DEF SamePlace
  <2> QED BY <2>2, <2>3
<1>12. VerifiedNamesPath' /\ RuntimeOfInstance'
  BY <1>1, <1>2, <1>4 DEF Sound, VerifiedNamesPath, RuntimeOfInstance,
                          InstanceRow, RuntimeRow
<1>13. StartsVerified' /\ RunsAsConfigured'
  BY <1>1, <1>2, <1>6, <1>7, RunningStays
<1>14. Explained
  BY <1>1, <1>2, <1>5 DEF Explained, InTrash, Gone
<1>15. Carried
  <2> SUFFICES ASSUME NEW q \in Ops, NEW r \in Requests, r = op[q]
               PROVE  Fits(r)'
    BY DEF Carried
  <2>1. Fits(r) /\ (r.kind = "start" => r.on \in Instances)
    BY <1>1 DEF Fit, Fits, Names, TaskKinds
  <2>2. NewFilesKept(r)
    BY <1>5 DEF NewFilesKept
  <2>3. Verifying(r)'
    <3> SUFFICES ASSUME r.kind = "verify_model_file", Open(r),
                        r.place # file'[r.on].place
                 PROVE  r.on \in mixed'
      BY DEF Verifying, Open
    <3>1. r.on \in Files /\ (r.place = file[r.on].place \/ r.on \in mixed)
      BY <2>1 DEF Fits, Names, Verifying
    <3>2. CASE r.on = f
      <4>1. VerifiesOther(f, p)
        BY <1>4, <3>2 DEF VerifiesOther, Open, InFlight
      <4> QED BY <1>2, <3>2, <4>1
    <3>3. CASE r.on # f
      BY <1>2, <1>5, <3>1, <3>3
    <3> QED BY <3>2, <3>3
  <2>4. r.pc = "trash" => SamePlace(r.of, r.place)'
    <3> SUFFICES ASSUME r.pc = "trash" PROVE SamePlace(r.of, r.place)'
      OBVIOUS
    <3>1. r.of \in Files /\ SamePlace(r.of, r.place)
      BY <2>1 DEF Fits, Trashing
    <3>2. CASE r.of = f
      <4>1. PlaceRead(f)
        BY <3>2 DEF PlaceRead
      <4> QED BY <1>2, <3>2, <4>1 DEF SamePlace
    <3>3. CASE r.of # f
      BY <1>2, <1>5, <3>1, <3>3 DEF SamePlace
    <3> QED BY <3>2, <3>3
  <2>5. r.kind = "start" /\ Open(r) => SettingsStay(r.on)
    BY <1>7, <2>1 DEF RunningSettingsStay, StartsOf, Open, InFlight
  <2> QED BY <1>1, <1>6, <2>1, <2>2, <2>3, <2>4, <2>5, Carry
<1>16. Sound'
  BY <1>8, <1>9, <1>10, <1>11, <1>12, <1>13 DEF Sound
<1> QED BY <1>2, <1>14, <1>15, <1>16, Ends DEF Fills

\* A request that goes on with what it has, after its statement.
LEMMA NarrowStep ==
  ASSUME Inv, Sound', Explained, Carried, NEW o \in Ops, ~ Fills(op[o]),
         NEW n \in Requests, op' = [op EXCEPT ![o] = n],
         n.kind = op[o].kind, n.on = op[o].on, n.of = op[o].of,
         n.place = op[o].place, n.todo = op[o].todo, n.was = op[o].was,
         n.sees = op[o].sees, n.pc \notin {"list", "look", "trash"},
         Open(n) => Open(op[o])
  PROVE  Inv'
<1>1. PICK k \in Requests : k = n
  OBVIOUS
<1>2. PICK r \in Requests : r = op[o]
  BY InvParts DEF Fit
<1>3. Fits(r)'
  BY <1>2 DEF Carried
<1>4. Fits(k)'
  BY <1>1, <1>2, <1>3, Narrowed
<1> QED BY <1>1, <1>4, Step

LEMMA VerifyQueueStep ==
  ASSUME Inv, NEW o \in Ops, VerifyQueue(o)
  PROVE  Inv'
<1> DEFINE f == op[o].on
           n == [op[o] EXCEPT !.pc = "end", !.task = "sent"]
<1>1. op[o] \in Requests /\ Fits(op[o])
  BY InvParts DEF Fit
<1>2. /\ op[o].kind = "verify_model_file" /\ op[o].pc = "queue"
      /\ file' = [file EXCEPT ![f].state = "verify_pending", ![f].seen = None]
      /\ op' = [op EXCEPT ![o] = n]
      /\ UNCHANGED <<scope, world, model, trash, runtime, inst, history>>
  BY DEF VerifyQueue, At, Go
<1>3. f \in Files /\ FileRow(f)
  BY <1>1, <1>2 DEF Fits, Names
<1>4. n \in Requests
  BY <1>1, Pcs, Put
<1>5. /\ n.kind = op[o].kind /\ n.on = op[o].on /\ n.of = op[o].of
      /\ n.place = op[o].place /\ n.todo = op[o].todo /\ n.was = op[o].was
      /\ n.sees = op[o].sees /\ n.pc = "end"
  BY <1>1 DEF Requests
<1> HIDE DEF n, f
<1>6. Sound' /\ Explained /\ Carried
  BY <1>2, <1>3, FileVerified
<1> QED BY <1>2, <1>4, <1>5, <1>6, NarrowStep DEF Fills, Open

LEMMA DeleteFileStep ==
  ASSUME Inv, NEW o \in Ops, DeleteFile(o)
  PROVE  Inv'
<1> DEFINE f == op[o].on
<1> USE DEF world, history
<1>1. Sound /\ Fit /\ op[o] \in Requests /\ Fits(op[o])
  BY InvParts DEF Fit
<1>2. /\ op[o].kind = "delete_model_file" /\ op[o].pc = "look"
      /\ op[o].todo = {} /\ file' = [file EXCEPT ![f].deleted = TRUE]
      /\ Finish(o)
      /\ UNCHANGED <<scope, world, model, trash, runtime, inst, history>>
  BY DEF DeleteFile, At
<1>3. f \in Files /\ FileRow(f)
  BY <1>1, <1>2 DEF Fits, Names
<1>4. Kept(f)
  BY <1>1, <1>2, <1>3 DEF Fits, Trashing, About
<1>5. Settled(o) /\ \A g \in Files : About(op[o], g) /\ FileRow(g) => g = f
  <2>1. \A g \in Files : About(op[o], g) /\ FileRow(g) => g = f
    BY <1>1, <1>3, CatalogueAssumption DEF About, Sound, Filled
  <2>2. file'[f].deleted
    BY <1>1, <1>2, <1>3 DEF Sound, Tables, FileRows
  <2> QED BY <2>1, <2>2 DEF Settled, Gone
<1> HIDE DEF f
<1>6. /\ \A g \in Files \ {f} : file'[g] = file[g]
      /\ file'[f].state = file[f].state /\ file'[f].seen = file[f].seen
      /\ file'[f].place = file[f].place /\ file'[f].model = file[f].model
      /\ file'[f] \in FileRows
  <2> DEFINE t == [file[f] EXCEPT !.deleted = TRUE]
  <2>1. file \in [Files -> FileRows] /\ file[f] \in FileRows
    BY <1>1, <1>3 DEF Sound, Tables
  <2>2. /\ t \in FileRows /\ t.state = file[f].state /\ t.seen = file[f].seen
        /\ t.place = file[f].place /\ t.model = file[f].model
    BY <2>1 DEF FileRows
  <2>3. file' = [file EXCEPT ![f] = t]
    BY <1>2
  <2> HIDE DEF t
  <2> QED BY <1>3, <2>1, <2>2, <2>3
<1>7. \A g \in Files : /\ FileRow(g)' <=> FileRow(g)
                       /\ file'[g].state = file[g].state
                       /\ file'[g].model = file[g].model
                       /\ file'[g].place = file[g].place
                       /\ file'[g].seen = file[g].seen
                       /\ g # f => file'[g].deleted = file[g].deleted
  BY <1>6 DEF FileRow
<1>8. TablesStay /\ PlacesStay
  BY <1>2, <1>7
     DEF TablesStay, FilesStay, PlacesStay, NodesStay, KeptStay, Kept,
         TrashOf, InTrash, ModelsStay, RuntimesStay, InstancesStay,
         HistoryGrows
<1>9. RunningSettingsStay
  BY <1>1, <1>2, SameSettings DEF RunningSettingsStay
<1>10. Tables'
  BY <1>1, <1>2, <1>6 DEF Sound, Tables
<1>11. Unused' /\ Filled' /\ Sited'
  <2>1. Unused'
    BY <1>1, <1>2, <1>3, <1>7 DEF Sound, Unused, FileRow
  <2>2. /\ \A g \in Files : FileRow(g)' => /\ file'[g].model \in Models
                                           /\ file'[g].place \in Places
        /\ \A y \in Trash : InTrash(y)' => /\ trash'[y].file \in Files
                                           /\ FileRow(trash[y].file)'
    BY <1>1, <1>2, <1>7 DEF Sound, Filled, InTrash, FileRow
  <2> QED BY <1>1, <1>2, <1>8, <2>1, <2>2, RowsStay DEF Filled, Sited
<1>12. GoneAreKept' /\ ItemsAreOfFiles'
  <2>1. \A g \in Files : FileRow(g)' /\ Gone(g)' => FileRow(g) /\ Kept(g)
    BY <1>1, <1>2, <1>4, <1>7 DEF Sound, GoneAreKept, Gone
  <2>2. ItemsAreOfFiles'
    BY <1>1, <1>2, <1>7 DEF Sound, ItemsAreOfFiles, Filled, SamePlace, InTrash
  <2> QED BY <1>8, <2>1, <2>2 DEF GoneAreKept, TablesStay, KeptStay
<1>13. VerifiedNamesPath' /\ RuntimeOfInstance'
  BY <1>1, <1>2, <1>7 DEF Sound, VerifiedNamesPath, RuntimeOfInstance,
                          InstanceRow, RuntimeRow
<1>14. StartsVerified' /\ RunsAsConfigured'
  BY <1>1, <1>2, <1>8, <1>9, RunningStays
<1>15. Explained
  <2>1. \A g \in Files : Gone(g) => Gone(g)'
    BY <1>1, <1>2, <1>3, <1>7 DEF Gone, Sound, Tables, FileRows
  <2> QED BY <1>2, <1>7, <2>1 DEF Explained, InTrash
<1>16. Carried
  BY <1>1, <1>7, <1>8, <1>9, CarryAll DEF NewFilesKept
<1>17. Sound'
  BY <1>10, <1>11, <1>12, <1>13, <1>14 DEF Sound
<1> QED BY <1>2, <1>5, <1>15, <1>16, <1>17, Ends

LEMMA DeleteModelStep ==
  ASSUME Inv, NEW o \in Ops, DeleteModel(o)
  PROVE  Inv'
<1> DEFINE m == op[o].on
<1> USE DEF world, history
<1>1. Sound /\ Fit /\ op[o] \in Requests /\ Fits(op[o])
  BY InvParts DEF Fit
<1>2. /\ op[o].kind = "delete_model" /\ op[o].pc = "look"
      /\ op[o].todo = {} /\ Finish(o)
      /\ model' = [model EXCEPT ![m].state =
                     IF @ = "live" THEN "deleted" ELSE @]
      /\ UNCHANGED <<scope, world, file, trash, runtime, inst, history>>
  BY DEF DeleteModel, At
<1>3. m \in Models /\ model[m].state # "none"
  BY <1>1, <1>2 DEF Fits, Names, Trashing
<1>4. \A f \in Files : FileRow(f) /\ file[f].model = m => Kept(f)
  BY <1>1, <1>2 DEF Fits, Trashing, About
<1>5. \A f \in Files : About(op[o], f) => file[f].model = m
  BY <1>3, CatalogueAssumption DEF About
<1> HIDE DEF m
<1>6. /\ \A k \in Models \ {m} : model'[k] = model[k]
      /\ model'[m].state = "deleted" /\ model'[m].rev = model[m].rev
      /\ model'[m] \in ModelRows
  BY <1>1, <1>2, <1>3 DEF Sound, Tables, ModelRows
<1>7. Settled(o)
  BY <1>2, <1>5, <1>6 DEF Settled, Gone
<1>8. TablesStay /\ PlacesStay
  BY <1>2, <1>6
     DEF TablesStay, FilesStay, PlacesStay, NodesStay, KeptStay, Kept, FileRow,
         TrashOf, InTrash, ModelsStay, RuntimesStay, InstancesStay,
         HistoryGrows
<1>9. RunningSettingsStay
  BY <1>1, <1>2, <1>6, SameSettings DEF RunningSettingsStay
<1>10. Tables'
  BY <1>1, <1>2, <1>6 DEF Sound, Tables
<1>11. Unused' /\ Filled' /\ Sited'
  <2>1. Unused'
    BY <1>1, <1>2, <1>3, <1>6 DEF Sound, Unused, FileRow
  <2>2. /\ \A g \in Files : FileRow(g)' => /\ file'[g].model \in Models
                                           /\ file'[g].place \in Places
        /\ \A y \in Trash : InTrash(y)' => /\ trash'[y].file \in Files
                                           /\ FileRow(trash[y].file)'
    BY <1>1, <1>2 DEF Sound, Filled, InTrash, FileRow
  <2> QED BY <1>1, <1>2, <1>8, <2>1, <2>2, RowsStay DEF Filled, Sited
<1>12. GoneAreKept' /\ ItemsAreOfFiles'
  <2>1. ASSUME NEW g \in Files, FileRow(g)', Gone(g)'
        PROVE  FileRow(g) /\ Kept(g)
    <3>1. FileRow(g) /\ file'[g] = file[g] /\ file[g].model \in Models
      BY <1>1, <1>2, <2>1 DEF FileRow, Sound, Filled
    <3>2. CASE file[g].model = m
      BY <1>4, <3>1, <3>2
    <3>3. CASE file[g].model # m
      BY <1>1, <1>6, <2>1, <3>1, <3>3 DEF Sound, GoneAreKept, Gone
    <3> QED BY <3>2, <3>3
  <2>2. ItemsAreOfFiles'
    BY <1>1, <1>2 DEF Sound, ItemsAreOfFiles, SamePlace, InTrash
  <2> QED BY <1>8, <2>1, <2>2 DEF GoneAreKept, TablesStay, KeptStay
<1>13. VerifiedNamesPath' /\ RuntimeOfInstance'
  BY <1>1, <1>2 DEF Sound, VerifiedNamesPath, RuntimeOfInstance,
                    InstanceRow, RuntimeRow
<1>14. StartsVerified' /\ RunsAsConfigured'
  BY <1>1, <1>2, <1>8, <1>9, RunningStays
<1>15. Explained
  BY <1>1, <1>2, <1>6 DEF Explained, InTrash, Gone, Sound, Filled
<1>16. Carried
  BY <1>1, <1>2, <1>8, <1>9, CarryAll DEF NewFilesKept, FileRow
<1>17. Sound'
  BY <1>10, <1>11, <1>12, <1>13, <1>14 DEF Sound
<1> QED BY <1>2, <1>7, <1>15, <1>16, <1>17, Ends

-----------------------------------------------------------------------------
(* The trash. *)

\* The trash changes; what it is to have for deleted files it still has.
LEMMA TrashWritten ==
  ASSUME Inv, trash' \in [Trash -> TrashRows],
         untraced \subseteq untraced', untraced' \subseteq Files,
         \A f \in Files : Kept(f) => Kept(f)',
         \A x \in Trash : InTrash(x)' =>
           /\ trash'[x].file \in Files /\ FileRow(trash[x].file)'
           /\ SamePlace(trash[x].file, trash[x].place)',
         UNCHANGED <<scope, world, model, file, runtime, inst, mixed, moved,
                     offered, drifted>>
  PROVE  Sound' /\ Carried
<1> USE DEF world
<1>1. Sound /\ Fit
  BY InvParts
<1>2. TablesStay /\ PlacesStay
  BY DEF TablesStay, FilesStay, PlacesStay, NodesStay, KeptStay, FileRow,
         ModelsStay, RuntimesStay, InstancesStay, HistoryGrows
<1>3. RunningSettingsStay
  BY <1>1, SameSettings DEF RunningSettingsStay
<1>4. Tables'
  BY <1>1 DEF Sound, Tables
<1>5. Unused' /\ Filled' /\ Sited'
  <2>1. Unused'
    BY <1>1 DEF Sound, Unused, FileRow
  <2>2. \A g \in Files : FileRow(g)' => /\ file'[g].model \in Models
                                        /\ file'[g].place \in Places
    BY <1>1 DEF Sound, Filled, FileRow
  <2> QED BY <1>1, <1>2, <2>1, <2>2, RowsStay DEF Filled, Sited
<1>6. GoneAreKept' /\ ItemsAreOfFiles'
  <2>1. \A g \in Files : FileRow(g)' /\ Gone(g)' => Kept(g)'
    BY <1>1 DEF Sound, GoneAreKept, Gone, FileRow
  <2> QED BY <2>1 DEF GoneAreKept, ItemsAreOfFiles
<1>7. VerifiedNamesPath' /\ RuntimeOfInstance'
  BY <1>1 DEF Sound, VerifiedNamesPath, RuntimeOfInstance,
              InstanceRow, RuntimeRow
<1>8. StartsVerified' /\ RunsAsConfigured'
  BY <1>1, <1>2, <1>3, RunningStays
<1>9. Carried
  BY <1>1, <1>2, <1>3, CarryAll DEF NewFilesKept, FileRow
<1> QED BY <1>4, <1>5, <1>6, <1>7, <1>8, <1>9 DEF Sound

\* An item gets another status.
LEMMA ItemMarked ==
  ASSUME Inv, NEW x \in Trash, NEW t \in TrashRows, InTrash(x),
         t.state \notin {"none", "deleted"}, t.file = trash[x].file,
         t.place = trash[x].place, trash' = [trash EXCEPT ![x] = t],
         UNCHANGED <<scope, world, model, file, runtime, inst, history>>
  PROVE  Sound' /\ Explained /\ Carried
<1> USE DEF world, history
<1>1. Sound /\ Fit
  BY InvParts
<1>2. trash' \in [Trash -> TrashRows] /\ trash'[x] = t
      /\ \A y \in Trash \ {x} : trash'[y] = trash[y]
  BY <1>1 DEF Sound, Tables
<1>3. \A y \in Trash : /\ InTrash(y)' <=> InTrash(y)
                       /\ trash'[y].file = trash[y].file
                       /\ trash'[y].place = trash[y].place
  BY <1>2 DEF InTrash
<1>4. \A f \in Files : Kept(f) => Kept(f)'
  BY <1>3 DEF Kept, TrashOf
<1>5. \A y \in Trash : InTrash(y)' =>
        /\ trash'[y].file \in Files /\ FileRow(trash[y].file)'
        /\ SamePlace(trash[y].file, trash[y].place)'
  BY <1>1, <1>3 DEF Sound, Filled, ItemsAreOfFiles, SamePlace, FileRow
<1>6. untraced \subseteq untraced' /\ untraced' \subseteq Files
  BY <1>1 DEF Sound, Tables
<1>7. Sound' /\ Carried
  BY <1>2, <1>4, <1>5, <1>6, TrashWritten
<1>8. Explained
  BY <1>3 DEF Explained, Gone
<1> QED BY <1>7, <1>8

\* A request that filled the trash ends without removing the files.
LEMMA OfferStep ==
  ASSUME Inv, NEW o \in Ops, Finish(o), Offers(o),
         UNCHANGED <<scope, world, model, file, trash, runtime, inst, mixed,
                     moved, untraced, drifted>>
  PROVE  Inv'
<1>1. Sound
  BY InvParts
<1>2. offered \subseteq offered' /\ offered' \subseteq Files
  BY <1>1 DEF Offers, Sound, Tables
<1>3. Sound' /\ Explained /\ Carried
  BY <1>2, Reads
<1>4. Fills(op[o]) => Settled(o)
  BY DEF Fills, Settled, About, Offers
<1> QED BY <1>3, <1>4, Ends

LEMMA EnsureLookStep ==
  ASSUME Inv, NEW o \in Ops, EnsureLook(o)
  PROVE  Inv'
<1>1. /\ Sound /\ op[o] \in Requests /\ Fits(op[o]) /\ op[o].pc = "look"
      /\ UNCHANGED <<scope, world, model, file, trash, runtime, inst, mixed,
                     moved, untraced, drifted>>
  BY InvParts DEF Fit, EnsureLook
<1>2. PICK f \in op[o].todo :
        \/ /\ TrashOf(f) # {} /\ UNCHANGED offered
           /\ Go(o, [op[o] EXCEPT !.todo = @ \ {f}])
        \/ Finish(o) /\ Offers(o)
        \/ /\ Go(o, [op[o] EXCEPT !.pc = "trash", !.of = f,
                                  !.place = file[f].place])
           /\ UNCHANGED offered
  BY DEF EnsureLook
<1>3. f \in Files /\ file[f].place \in Places
  BY <1>1 DEF Fits, Trashing, Sound, Filled
<1>4. CASE /\ TrashOf(f) # {} /\ UNCHANGED offered
           /\ Go(o, [op[o] EXCEPT !.todo = @ \ {f}])
  <2> DEFINE n == [op[o] EXCEPT !.todo = @ \ {f}]
  <2>1. n \in Requests
    <3>1. op[o].todo \ {f} \in SUBSET Rows
      BY <1>1 DEF Requests
    <3> QED BY <1>1, <3>1, Put
  <2>2. /\ n.kind = op[o].kind /\ n.pc = "look" /\ n.on = op[o].on
        /\ n.of = op[o].of /\ n.place = op[o].place /\ n.task = op[o].task
        /\ n.todo = op[o].todo \ {f}
    BY <1>1 DEF Requests
  <2>3. op' = [op EXCEPT ![o] = n]
    BY <1>4 DEF Go
  <2> HIDE DEF n
  <2>4. Trashing(n)
    BY <1>1, <1>3, <1>4, <2>2 DEF Fits, Trashing, About, Kept
  <2>5. Fits(n)
    BY <1>1, <2>2, <2>4 DEF Fits, Names, Holds, Excludes, Verifying, Starting,
                            Trashing, Open, TaskKinds
  <2> QED BY <1>1, <1>4, <2>1, <2>2, <2>3, <2>5, ReadStep DEF Fills, history
<1>5. CASE /\ Go(o, [op[o] EXCEPT !.pc = "trash", !.of = f,
                                  !.place = file[f].place])
           /\ UNCHANGED offered
  <2> DEFINE n == [op[o] EXCEPT !.pc = "trash", !.of = f,
                                !.place = file[f].place]
  <2>1. n \in Requests
    BY <1>1, <1>3, Pcs, Put DEF Rows
  <2>2. /\ n.kind = op[o].kind /\ n.pc = "trash" /\ n.on = op[o].on
        /\ n.of = f /\ n.place = file[f].place /\ n.task = op[o].task
        /\ n.todo = op[o].todo
    BY <1>1 DEF Requests
  <2>3. op' = [op EXCEPT ![o] = n]
    BY <1>5 DEF Go
  <2> HIDE DEF n
  <2>4. Trashing(n)
    BY <1>1, <2>2 DEF Fits, Trashing, About, SamePlace
  <2>5. Fits(n)
    BY <1>1, <2>2, <2>4 DEF Fits, Names, Holds, Excludes, Verifying, Starting,
                            Trashing, Open, TaskKinds
  <2> QED BY <1>1, <1>5, <2>1, <2>2, <2>3, <2>5, ReadStep DEF Fills, history
<1> QED BY <1>1, <1>2, <1>4, <1>5, OfferStep

LEMMA EnsureInsertStep ==
  ASSUME Inv, NEW o \in Ops, EnsureInsert(o)
  PROVE  Inv'
<1> USE DEF world, history
<1>1. /\ Sound /\ Fit /\ op[o] \in Requests /\ Fits(op[o])
      /\ op[o].pc = "trash" /\ HasFresh(Trash, trash)
      /\ UNCHANGED <<scope, world, model, file, runtime, inst, history>>
  BY InvParts DEF Fit, EnsureInsert
<1>2. PICK f \in Files : f = op[o].of
  BY <1>1 DEF Fits, Trashing
<1>3. PICK x \in Trash : x = Fresh(Trash, trash) /\ trash[x].state = "none"
  BY <1>1, FreshIs
<1> DEFINE t == [state |-> "pending", file |-> f, place |-> op[o].place,
                 gone |-> FALSE]
           n == [op[o] EXCEPT !.pc = "look", !.todo = @ \ {f}, !.of = None,
                              !.place = None]
<1>4. trash' = [trash EXCEPT ![x] = t] /\ op' = [op EXCEPT ![o] = n]
  BY <1>2, <1>3 DEF EnsureInsert, Go
<1>5. /\ FileRow(f) /\ About(op[o], f) /\ f \in op[o].todo
      /\ SamePlace(f, op[o].place)
  BY <1>1, <1>2 DEF Fits, Trashing
<1>6. t \in TrashRows /\ t.state = "pending" /\ t.file = f
      /\ t.place = op[o].place
  BY <1>1 DEF TrashRows, Requests
<1>7. n \in Requests
  <2>1. op[o].todo \ {f} \in SUBSET Rows
    BY <1>1 DEF Requests
  <2>2. [op[o] EXCEPT !.pc = "look"] \in Requests
    BY <1>1, Pcs, Put
  <2> QED BY <2>1, <2>2, Put
<1>8. /\ n.kind = op[o].kind /\ n.pc = "look" /\ n.on = op[o].on
      /\ n.todo = op[o].todo \ {f} /\ n.task = op[o].task
  BY <1>1 DEF Requests
<1> HIDE DEF t, n
<1>9. trash' \in [Trash -> TrashRows] /\ trash'[x] = t
      /\ \A y \in Trash \ {x} : trash'[y] = trash[y]
  BY <1>1, <1>4, <1>6 DEF Sound, Tables
<1>10. InTrash(x)' /\ trash'[x].file = f
  BY <1>6, <1>9 DEF InTrash
<1>11. \A y \in Trash : /\ InTrash(y) => InTrash(y)' /\ trash'[y] = trash[y]
                        /\ InTrash(y)' => InTrash(y) \/ y = x
  BY <1>3, <1>9 DEF InTrash
<1>12. \A g \in Files : Kept(g) => Kept(g)'
  BY <1>1, <1>11 DEF Kept, TrashOf
<1>13. Kept(f)'
  BY <1>10 DEF Kept, TrashOf
<1>14. \A y \in Trash : InTrash(y)' =>
         /\ trash'[y].file \in Files /\ FileRow(trash[y].file)'
         /\ SamePlace(trash[y].file, trash[y].place)'
  <2> SUFFICES ASSUME NEW y \in Trash, InTrash(y)'
               PROVE  /\ trash'[y].file \in Files /\ FileRow(trash[y].file)'
                      /\ SamePlace(trash[y].file, trash[y].place)'
    OBVIOUS
  <2>1. CASE y = x
    BY <1>1, <1>5, <1>6, <1>9, <2>1 DEF SamePlace, FileRow
  <2>2. CASE y # x
    BY <1>1, <1>9, <1>11, <2>2
       DEF Sound, Filled, ItemsAreOfFiles, SamePlace, FileRow
  <2> QED BY <2>1, <2>2
<1>15. untraced \subseteq untraced' /\ untraced' \subseteq Files
  BY <1>1 DEF Sound, Tables
<1>16. Sound' /\ Carried
  BY <1>1, <1>9, <1>12, <1>14, <1>15, TrashWritten
<1>17. PICK k \in Requests, r \in Requests : k = n /\ r = op[o]
  BY <1>1, <1>7
<1>18. Fits(r) /\ Fits(r)'
  BY <1>1, <1>16, <1>17 DEF Carried
<1>19. Trashing(k)'
  <2>1. /\ k.on = r.on /\ k.kind = r.kind /\ k.pc = "look"
        /\ k.todo = r.todo \ {f} /\ k.task = r.task /\ r.pc = "trash"
    BY <1>1, <1>8, <1>17
  <2>2. Trashing(r)'
    BY <1>18 DEF Fits
  <2>3. /\ \A g \in k.todo : g \in Files /\ FileRow(g)' /\ About(k, g)'
        /\ \A g \in Files : FileRow(g)' /\ About(k, g)'
                            => g \in k.todo \/ Kept(g)'
    BY <1>13, <2>1, <2>2 DEF Trashing, About
  <2> QED BY <2>1, <2>2, <2>3 DEF Trashing
<1>20. Fits(k)'
  <2>1. k.kind \in {"create_trash", "delete_model_file", "delete_model"}
    BY <1>1, <1>8, <1>17 DEF Fits, Trashing
  <2> QED BY <1>8, <1>17, <1>18, <1>19, <2>1
             DEF Fits, Names, Holds, Excludes, Verifying, Starting, TaskKinds
<1>21. Explained
  <2>1. op' \in [Ops -> Requests] /\ op'[o] = n
    BY <1>1, <1>4, <1>7 DEF Fit
  <2>2. BeingTrashed(trash[x].file)'
    BY <1>1, <1>5, <1>8, <1>10, <2>1 DEF BeingTrashed, About
  <2> QED BY <1>1, <1>11, <2>2 DEF Explained, FileRow, Gone
<1>22. op' = [op EXCEPT ![o] = k] /\ Fills(k) /\ k.on = op[o].on
  BY <1>4, <1>8, <1>17 DEF Fills
<1> QED BY <1>16, <1>20, <1>21, <1>22, Step

LEMMA CutStep ==
  ASSUME Inv, NEW o \in Ops, Cut(o) \/ TrashCreated(o)
  PROVE  Inv'
BY OfferStep DEF Cut, TrashCreated

LEMMA CleanupSteps ==
  ASSUME Inv, NEW o \in Ops, CleanupSend(o) \/ CleanupPending(o)
  PROVE  Inv'
<1>1. Sound /\ Fit /\ op[o] \in Requests /\ Fits(op[o])
  BY InvParts DEF Fit
<1>2. ASSUME NEW x \in Trash, InTrash(x), NEW s \in TrashRows,
             s = [trash[x] EXCEPT !.state = "cleanup_failed"]
                \/ s = [trash[x] EXCEPT !.state = "cleanup_pending"]
      PROVE  /\ s.state \notin {"none", "deleted"} /\ s.file = trash[x].file
             /\ s.place = trash[x].place
  BY <1>1, <1>2 DEF Sound, Tables, TrashRows
<1>3. ASSUME NEW x \in Trash
      PROVE  /\ [trash[x] EXCEPT !.state = "cleanup_failed"] \in TrashRows
             /\ [trash[x] EXCEPT !.state = "cleanup_pending"] \in TrashRows
  BY <1>1 DEF Sound, Tables, TrashRows
<1>4. CASE CleanupSend(o)
  <2>1. PICK x \in Trash :
          /\ InTrash(x)
          /\ \/ /\ Go(o, [Idle EXCEPT !.kind = "cleanup_trash", !.pc = "pend",
                                      !.on = x, !.place = trash[x].place,
                                      !.task = "sent"])
                /\ UNCHANGED trash
             \/ /\ trash' = [trash EXCEPT ![x].state = "cleanup_failed"]
                /\ Go(o, Ended)
    BY <1>4 DEF CleanupSend
  <2>2. CASE /\ Go(o, [Idle EXCEPT !.kind = "cleanup_trash", !.pc = "pend",
                                   !.on = x, !.place = trash[x].place,
                                   !.task = "sent"])
             /\ UNCHANGED trash
    <3> DEFINE n == [Idle EXCEPT !.kind = "cleanup_trash", !.pc = "pend",
                                 !.on = x, !.place = trash[x].place,
                                 !.task = "sent"]
    <3>1. trash[x].place \in Places \cup {None}
      BY <1>1 DEF Sound, Tables, TrashRows
    <3>2. n \in Requests
      BY <3>1, IdleIsRequest, KindsAre, Pcs, Put DEF Rows
    <3>3. n.kind = "cleanup_trash" /\ n.pc = "pend" /\ n.on = x
      BY IdleIsRequest DEF Requests
    <3>4. op' = [op EXCEPT ![o] = n]
      BY <2>2 DEF Go
    <3> HIDE DEF n
    <3>5. Fits(n)
      BY <3>3 DEF Fits, Names, Holds, Excludes, Verifying, Starting, Trashing,
                  TaskKinds
    <3> QED BY <1>4, <2>2, <3>2, <3>4, <3>5, NewRequest
               DEF CleanupSend, Arrives
  <2>3. CASE /\ trash' = [trash EXCEPT ![x].state = "cleanup_failed"]
             /\ Go(o, Ended)
    <3>1. trash' = [trash EXCEPT ![x] =
                      [trash[x] EXCEPT !.state = "cleanup_failed"]]
      BY <2>3
    <3>2. Sound' /\ Explained /\ Carried
      BY <1>2, <1>3, <1>4, <2>1, <3>1, ItemMarked DEF CleanupSend
    <3>3. Ended \in Requests /\ op' = [op EXCEPT ![o] = Ended]
      BY <2>3, IdleIsRequest DEF Go
    <3>4. ~ Fills(op[o])
      BY <1>4 DEF CleanupSend, Arrives, Fills
    <3> QED BY <3>2, <3>3, <3>4, EndedFits, Step
  <2> QED BY <2>1, <2>2, <2>3
<1>5. CASE CleanupPending(o)
  <2> DEFINE x == op[o].on
  <2>1. /\ op[o].kind = "cleanup_trash" /\ op[o].pc = "pend"
        /\ trash' = [trash EXCEPT ![x].state =
                       IF InTrash(x) THEN "cleanup_pending" ELSE @]
        /\ UNCHANGED <<scope, world, model, file, runtime, inst, history>>
        /\ \/ InFlight(o) /\ Go(o, [op[o] EXCEPT !.pc = "wait"])
           \/ Finish(o)
    BY <1>5 DEF CleanupPending, SetTrash, At
  <2>2. x \in Trash
    BY <1>1, <2>1 DEF Fits, Names
  <2>3. Sound' /\ Explained /\ Carried
    <3>1. CASE InTrash(x)
      <4>1. trash' = [trash EXCEPT ![x] =
                        [trash[x] EXCEPT !.state = "cleanup_pending"]]
        BY <2>1, <3>1
      <4> DEFINE t == [trash[x] EXCEPT !.state = "cleanup_pending"]
      <4>2. t \in TrashRows
        BY <1>3, <2>2
      <4>3. /\ t.state \notin {"none", "deleted"} /\ t.file = trash[x].file
            /\ t.place = trash[x].place
        BY <1>2, <2>2, <3>1, <4>2
      <4> HIDE DEF t, x
      <4> QED BY <2>1, <2>2, <3>1, <4>1, <4>2, <4>3, ItemMarked DEF t
    <3>2. CASE ~ InTrash(x)
      <4>1. trash' = trash
        BY <1>1, <2>1, <2>2, <3>2 DEF Sound, Tables, TrashRows
      <4> QED BY <1>1, <2>1, <4>1, Reads DEF history, Sound, Tables
    <3> QED BY <3>1, <3>2
  <2>4. CASE InFlight(o) /\ Go(o, [op[o] EXCEPT !.pc = "wait"])
    <3> DEFINE n == [op[o] EXCEPT !.pc = "wait"]
    <3>1. n \in Requests
      BY <1>1, Pcs, Put
    <3>2. /\ n.kind = op[o].kind /\ n.on = op[o].on /\ n.of = op[o].of
          /\ n.place = op[o].place /\ n.todo = op[o].todo
          /\ n.was = op[o].was /\ n.sees = op[o].sees /\ n.pc = "wait"
      BY <1>1 DEF Requests
    <3>3. op' = [op EXCEPT ![o] = n]
      BY <2>4 DEF Go
    <3> HIDE DEF n
    <3> QED BY <2>1, <2>3, <2>4, <3>1, <3>2, <3>3, NarrowStep
               DEF Fills, Open, InFlight
  <2> QED BY <2>1, <2>3, <2>4, Ends DEF Fills
<1> QED BY <1>4, <1>5

LEMMA DeleteTrashStep ==
  ASSUME Inv, NEW o \in Ops, DeleteTrash(o)
  PROVE  Inv'
<1> USE DEF world
<1>1. Sound /\ Fit
  BY InvParts
<1>2. PICK x \in Trash : /\ InTrash(x)
                         /\ trash' = [trash EXCEPT ![x].state = "deleted"]
                         /\ untraced' = untraced \cup {trash[x].file}
  BY DEF DeleteTrash
<1>3. /\ UNCHANGED <<scope, world, model, file, runtime, inst, mixed, moved,
                     offered, drifted>>
      /\ op[o].pc = "idle" /\ op' = [op EXCEPT ![o] = Ended]
  BY DEF DeleteTrash, Arrives, Go
<1>4. /\ \A y \in Trash \ {x} : trash'[y] = trash[y]
      /\ trash' \in [Trash -> TrashRows] /\ trash'[x].state = "deleted"
  BY <1>1, <1>2 DEF Sound, Tables, TrashRows
<1>5. \A y \in Trash : /\ InTrash(y)' => InTrash(y) /\ y # x
                       /\ InTrash(y) /\ y # x => InTrash(y)'
  BY <1>4 DEF InTrash
<1>6. \A f \in Files : Kept(f) => Kept(f)'
  <2> SUFFICES ASSUME NEW f \in Files, Kept(f), f \notin untraced'
               PROVE  TrashOf(f)' # {}
    BY DEF Kept
  <2>1. f \notin untraced /\ f # trash[x].file
    BY <1>2
  <2>2. PICK y \in Trash : InTrash(y) /\ trash[y].file = f
    BY <2>1 DEF Kept, TrashOf
  <2>3. y # x /\ InTrash(y)' /\ trash'[y].file = f
    BY <1>4, <1>5, <2>1, <2>2
  <2> QED BY <2>3 DEF TrashOf
<1>7. \A y \in Trash : InTrash(y)' =>
        /\ trash'[y].file \in Files /\ FileRow(trash[y].file)'
        /\ SamePlace(trash[y].file, trash[y].place)'
  BY <1>1, <1>2, <1>3, <1>4, <1>5
     DEF Sound, Filled, ItemsAreOfFiles, SamePlace, FileRow
<1>8. untraced \subseteq untraced' /\ untraced' \subseteq Files
  BY <1>1, <1>2 DEF Sound, Tables, Filled
<1>9. Sound' /\ Carried
  BY <1>3, <1>4, <1>6, <1>7, <1>8, TrashWritten
<1>10. Explained
  BY <1>3, <1>4, <1>5 DEF Explained, Gone
<1> QED BY <1>3, <1>9, <1>10, IdleIsRequest, EndedFits, Step DEF Fills

-----------------------------------------------------------------------------
(* Runtime environments. *)

LEMMA RuntimeWritten ==
  ASSUME Inv, runtime' \in [Runtimes -> RuntimeRows], RuntimesStay,
         \A e \in Runtimes : runtime'[e].state = "none" => runtime'[e].rev = 0,
         RuntimeOfInstance', RunningSettingsStay,
         drifted' \subseteq Instances,
         UNCHANGED <<scope, world, model, file, trash, inst, mixed, moved,
                     offered, untraced>>
  PROVE  Sound' /\ Explained /\ Carried
<1> USE DEF world
<1>1. Sound /\ Fit
  BY InvParts
<1>2. TablesStay /\ PlacesStay
  BY DEF TablesStay, FilesStay, PlacesStay, NodesStay, KeptStay, Kept, TrashOf,
         InTrash, FileRow, ModelsStay, InstancesStay, HistoryGrows
<1>3. Tables'
  BY <1>1 DEF Sound, Tables
<1>4. Unused' /\ Filled' /\ Sited'
  <2>1. Unused'
    BY <1>1 DEF Sound, Unused, FileRow
  <2>2. /\ \A g \in Files : FileRow(g)' => /\ file'[g].model \in Models
                                           /\ file'[g].place \in Places
        /\ \A y \in Trash : InTrash(y)' => /\ trash'[y].file \in Files
                                           /\ FileRow(trash[y].file)'
    BY <1>1 DEF Sound, Filled, InTrash, FileRow
  <2> QED BY <1>1, <1>2, <2>1, <2>2, RowsStay DEF Filled, Sited
<1>5. GoneAreKept' /\ ItemsAreOfFiles' /\ VerifiedNamesPath'
  BY <1>1 DEF Sound, GoneAreKept, Gone, Kept, TrashOf, FileRow,
              ItemsAreOfFiles, SamePlace, InTrash, VerifiedNamesPath
<1>6. StartsVerified' /\ RunsAsConfigured'
  BY <1>1, <1>2, RunningStays
<1>7. Explained
  BY DEF Explained, InTrash, Gone
<1>8. Carried
  BY <1>1, <1>2, CarryAll DEF NewFilesKept, FileRow
<1> QED BY <1>1, <1>3, <1>4, <1>5, <1>6, <1>7, <1>8 DEF Sound

\* What runs or is being started is of a runtime.
LEMMA RunsOfRuntime ==
  ASSUME Inv, NEW i \in Instances, up[i] # None \/ StartsOf(i) # {}
  PROVE  inst[i].state # "none" /\ inst[i].local /\ inst[i].runtime \in Runtimes
<1>1. Sound /\ Fit
  BY InvParts
<1>2. inst[i].state # "none" /\ inst[i].local
  BY <1>1 DEF Sound, Unused, StartsOf, Fit, Fits, Names, Holds, TaskKinds
<1> QED BY <1>1, <1>2 DEF Sound, Filled

\* A new row of runtime_environments.
LEMMA RuntimeInserted ==
  ASSUME Inv, NEW p \in Places, NEW ollama \in BOOLEAN,
         NewRuntime(p[1], ollama),
         UNCHANGED <<scope, world, model, file, trash, inst, history>>
  PROVE  Sound' /\ Explained /\ Carried
<1>1. Sound /\ Fit
  BY InvParts
<1>2. PICK e \in Runtimes : /\ runtime[e].state = "none"
                            /\ runtime' = [runtime EXCEPT ![e] =
                                 [state |-> "usable", node |-> p[1],
                                  ollama |-> ollama, rev |-> 0]]
  BY FreshIs DEF NewRuntime
<1>3. p[1] \in Nodes
  BY DEF Nodes
<1>4. [state |-> "usable", node |-> p[1], ollama |-> ollama, rev |-> 0]
         \in RuntimeRows
  BY <1>3 DEF RuntimeRows
<1>5. /\ runtime' \in [Runtimes -> RuntimeRows]
      /\ \A d \in Runtimes \ {e} : runtime'[d] = runtime[d]
      /\ runtime'[e].state = "usable" /\ runtime'[e].rev = runtime[e].rev
  BY <1>1, <1>2, <1>4 DEF Sound, Tables, Unused
<1>6. RuntimesStay
  BY <1>2, <1>5 DEF RuntimesStay
<1>7. \A d \in Runtimes : /\ runtime'[d].rev = runtime[d].rev
                          /\ runtime'[d].state = "none" => runtime'[d].rev = 0
  BY <1>1, <1>5 DEF Sound, Unused
<1>8. RuntimeOfInstance'
  BY <1>1, <1>2, <1>5
     DEF Sound, RuntimeOfInstance, RuntimeRow, InstanceRow, Tables,
         InstanceRows
<1>9. RunningSettingsStay
  <2> SUFFICES ASSUME NEW i \in Instances, up[i] # None \/ StartsOf(i) # {}
               PROVE  SettingsStay(i)
    BY DEF RunningSettingsStay
  <2> QED BY <1>1, <1>7, RunsOfRuntime, SameSettings DEF history
<1> QED BY <1>1, <1>5, <1>6, <1>7, <1>8, <1>9, RuntimeWritten
        DEF history, Sound, Tables

LEMMA NewRuntimeSteps ==
  ASSUME Inv, NEW o \in Ops, CreateRuntime(o) \/ SaveRuntime(o)
  PROVE  Inv'
<1>1. CASE CreateRuntime(o)
  <2>1. PICK p \in Places :
          \/ /\ Ask(o, "create_runtime", None, None, p)
             /\ UNCHANGED runtime
          \/ NewRuntime(p[1], TRUE) /\ Go(o, Ended)
    BY <1>1 DEF CreateRuntime
  <2>2. CASE Ask(o, "create_runtime", None, None, p) /\ UNCHANGED runtime
    <3> DEFINE n == [Idle EXCEPT !.kind = "create_runtime", !.pc = "wait",
                       !.on = None, !.of = None, !.place = p, !.task = "sent"]
    <3>1. n \in Requests /\ Fits(n)
      BY KindsAre, AskFits
    <3> QED BY <1>1, <2>2, <3>1, NewRequest DEF CreateRuntime, Ask, Go, Arrives
  <2>3. CASE NewRuntime(p[1], TRUE) /\ Go(o, Ended)
    <3>1. Sound' /\ Explained /\ Carried
      BY <1>1, <2>3, RuntimeInserted DEF CreateRuntime
    <3>2. Ended \in Requests /\ op' = [op EXCEPT ![o] = Ended]
          /\ ~ Fills(op[o])
      BY <1>1, <2>3, IdleIsRequest DEF Go, CreateRuntime, Arrives, Fills
    <3> QED BY <3>1, <3>2, EndedFits, Step
  <2> QED BY <2>1, <2>2, <2>3
<1>2. CASE SaveRuntime(o)
  <2>1. op[o].place \in Places
    BY <1>2, InvParts DEF SaveRuntime, At, Fit, Fits, Holds
  <2>2. Sound' /\ Explained /\ Carried
    BY <1>2, <2>1, RuntimeInserted DEF SaveRuntime
  <2> QED BY <1>2, <2>2, Ends DEF SaveRuntime, At, Fills
<1> QED BY <1>1, <1>2

\* The state of a row that is there changes, or it is deleted without use.
LEMMA RuntimeMarked ==
  ASSUME Inv, NEW e \in Runtimes, RuntimeRow(e),
         NEW s \in {"usable", "offline", "deleted"},
         s = "deleted" => Uses(e) = {},
         runtime' = [runtime EXCEPT ![e].state = s],
         UNCHANGED <<scope, world, model, file, trash, inst, history>>
  PROVE  Sound' /\ Explained /\ Carried
<1>1. Sound /\ Fit
  BY InvParts
<1>2. /\ runtime' \in [Runtimes -> RuntimeRows]
      /\ \A d \in Runtimes \ {e} : runtime'[d] = runtime[d]
      /\ runtime'[e].state = s /\ runtime'[e].rev = runtime[e].rev
      /\ runtime'[e].node = runtime[e].node
  BY <1>1 DEF Sound, Tables, RuntimeRows
<1>3. RuntimesStay
  BY <1>2 DEF RuntimesStay
<1>4. \A d \in Runtimes : /\ runtime'[d].rev = runtime[d].rev
                          /\ runtime'[d].state = "none" => runtime'[d].rev = 0
  BY <1>1, <1>2 DEF Sound, Unused
<1>5. RuntimeOfInstance'
  BY <1>1, <1>2 DEF Sound, RuntimeOfInstance, RuntimeRow, InstanceRow, Tables,
                    InstanceRows, Uses
<1>6. RunningSettingsStay
  BY <1>1, <1>4, RunsOfRuntime, SameSettings DEF RunningSettingsStay, history
<1> QED BY <1>1, <1>2, <1>3, <1>4, <1>5, <1>6, RuntimeWritten
        DEF history, Sound, Tables

LEMMA MarkRuntimeSteps ==
  ASSUME Inv, NEW o \in Ops, MarkRuntime(o) \/ DeleteRuntime(o)
  PROVE  Inv'
<1> DEFINE e == op[o].on
<1>1. Sound /\ Fit /\ Fits(op[o])
  BY InvParts DEF Fit
<1>2. /\ e \in Runtimes /\ ~ Fills(op[o]) /\ Finish(o)
      /\ UNCHANGED <<scope, world, model, file, trash, inst, history>>
  BY <1>1 DEF MarkRuntime, DeleteRuntime, At, Fits, Names, Fills
<1>3. \/ runtime' = runtime
      \/ \E s \in {"usable", "offline", "deleted"} :
           /\ RuntimeRow(e) /\ (s = "deleted" => Uses(e) = {})
           /\ runtime' = [runtime EXCEPT ![e].state = s]
  <2>1. runtime = [runtime EXCEPT ![e].state = runtime[e].state]
    BY <1>1, <1>2 DEF Sound, Tables, RuntimeRows
  <2>2. CASE MarkRuntime(o)
    BY <2>1, <2>2 DEF MarkRuntime
  <2>3. CASE DeleteRuntime(o)
    BY <2>1, <2>3 DEF DeleteRuntime
  <2> QED BY <2>2, <2>3
<1> HIDE DEF e
<1>4. Sound' /\ Explained /\ Carried
  <2>1. CASE runtime' = runtime
    BY <1>1, <1>2, <2>1, Reads DEF history, Sound, Tables
  <2> QED BY <1>2, <1>3, <2>1, RuntimeMarked
<1> QED BY <1>2, <1>4, Ends

LEMMA UpdateRuntimeStep ==
  ASSUME Inv, NEW o \in Ops, UpdateRuntimeWrite(o)
  PROVE  Inv'
<1> DEFINE e == op[o].on
           n == [op[o] EXCEPT !.pc = "mark", !.todo = {}]
<1>1. /\ Sound /\ Fit /\ Fits(op[o]) /\ op[o] \in Requests
      /\ op[o].kind = "update_runtime" /\ ~ Fills(op[o])
      /\ UNCHANGED <<scope, world, model, file, trash, inst, mixed, moved,
                     offered, untraced>>
  BY InvParts DEF Fit, UpdateRuntimeWrite, At, Fills
<1>2. e \in Runtimes
  BY <1>1 DEF Fits, Names
<1>3. CASE ~ RuntimeRow(e)
  BY <1>1, <1>3, FinishStep DEF UpdateRuntimeWrite, history
<1>4. CASE RuntimeRow(e)
  <2>1. PICK ollama \in BOOLEAN :
          /\ runtime' = [runtime EXCEPT ![e].rev = @ + 1, ![e].ollama = ollama]
          /\ Drifts(o, Uses(e))
          /\ Go(o, n) \/ Finish(o)
    BY <1>4 DEF UpdateRuntimeWrite
  <2>2. n \in Requests
    BY <1>1, Pcs, Put
  <2>3. /\ n.kind = "update_runtime" /\ n.on = e /\ n.pc = "mark"
        /\ n.todo = {}
    BY <1>1 DEF Requests
  <2> HIDE DEF n, e
  <2>4. /\ runtime' \in [Runtimes -> RuntimeRows]
        /\ \A d \in Runtimes \ {e} : runtime'[d] = runtime[d]
        /\ runtime'[e].state = runtime[e].state
        /\ runtime'[e].node = runtime[e].node
    <3> DEFINE t == [runtime[e] EXCEPT !.rev = @ + 1, !.ollama = ollama]
    <3>1. runtime[e] \in RuntimeRows /\ runtime \in [Runtimes -> RuntimeRows]
      BY <1>1, <1>2 DEF Sound, Tables
    <3>2. runtime[e].rev + 1 \in Nat
      BY <3>1 DEF RuntimeRows
    <3>3. t \in RuntimeRows
      BY <3>1, <3>2 DEF RuntimeRows
    <3>4. t.state = runtime[e].state /\ t.node = runtime[e].node
      BY <3>1 DEF RuntimeRows
    <3>5. runtime' = [runtime EXCEPT ![e] = t]
      BY <2>1, <3>1
    <3> HIDE DEF t
    <3> QED BY <1>2, <3>1, <3>3, <3>4, <3>5
  <2>5. RuntimesStay
    BY <2>4 DEF RuntimesStay
  <2>6. \A d \in Runtimes : runtime'[d].state = "none" => runtime'[d].rev = 0
    BY <1>1, <1>4, <2>4 DEF Sound, Unused, RuntimeRow
  <2>7. RuntimeOfInstance'
    BY <1>1, <2>4 DEF Sound, RuntimeOfInstance, RuntimeRow, InstanceRow,
                      Tables, InstanceRows
  <2>8. RunningSettingsStay
    <3> SUFFICES ASSUME NEW i \in Instances, up[i] # None \/ StartsOf(i) # {}
                 PROVE  SettingsStay(i)
      BY DEF RunningSettingsStay
    <3>1. drifted \subseteq drifted'
      BY <2>1 DEF Drifts
    <3>2. CASE i \in Uses(e)
      <4>1. i \notin op[o].todo
        BY <1>1, <3>2 DEF Fits, Excludes, Uses, e
      <4>2. i \in drifted'
        BY <2>1, <3>2, <4>1 DEF Drifts
      <4> QED BY <1>1, <4>2 DEF SettingsStay, InstanceRow
    <3>3. CASE i \notin Uses(e)
      <4>1. InstanceRow(i) => inst[i].runtime \in Runtimes \ {e}
        BY <3>3, RunsOfRuntime DEF Uses
      <4> QED BY <1>1, <2>4, <3>1, <4>1, SameSettings
    <3> QED BY <3>2, <3>3
  <2>9. Sound' /\ Explained /\ Carried
    BY <1>1, <2>1, <2>4, <2>5, <2>6, <2>7, <2>8, RuntimeWritten
       DEF Drifts, Sound, Tables, Uses
  <2>10. CASE Go(o, n)
    <3>1. PICK k \in Requests : k = n
      BY <2>2
    <3>2. PICK d \in Runtimes : d = e
      BY <1>2
    <3>3. Fits(k)'
      BY <1>4, <2>3, <2>4, <3>1, <3>2
         DEF Fits, Names, Holds, Excludes, Verifying, Starting, Trashing,
             TaskKinds, RuntimeRow
    <3>4. op' = [op EXCEPT ![o] = k]
      BY <2>10, <3>1 DEF Go
    <3> QED BY <1>1, <2>9, <3>3, <3>4, Step
  <2> QED BY <1>1, <2>1, <2>9, <2>10, Ends
<1> QED BY <1>3, <1>4

-----------------------------------------------------------------------------
(* Models and instances. *)

LEMMA UpdateModelStep ==
  ASSUME Inv, NEW o \in Ops, UpdateModelWrite(o)
  PROVE  Inv'
<1> DEFINE m == op[o].on
<1> USE DEF world
<1>1. /\ Sound /\ Fit /\ Fits(op[o]) /\ op[o].kind = "update_model"
      /\ ~ Fills(op[o]) /\ Finish(o)
      /\ UNCHANGED <<scope, world, file, trash, runtime, inst, mixed, moved,
                     offered, untraced>>
  BY InvParts DEF Fit, UpdateModelWrite, At, Fills
<1>2. m \in Models
  BY <1>1 DEF Fits, Names
<1>3. CASE ~ Live(m)
  BY <1>1, <1>3, FinishStep DEF UpdateModelWrite, history
<1>4. CASE Live(m)
  <2>1. /\ model' = [model EXCEPT ![m].rev = @ + 1]
        /\ Drifts(o, {i \in Instances : inst[i].model = m})
    BY <1>4 DEF UpdateModelWrite
  <2>2. \A i \in Instances : inst[i].model = m => i \notin op[o].todo
    BY <1>1 DEF Fits, Excludes
  <2> HIDE DEF m
  <2>3. /\ \A k \in Models \ {m} : model'[k] = model[k]
        /\ model'[m].state = model[m].state /\ model[m].state = "live"
        /\ model' \in [Models -> ModelRows]
    BY <1>1, <1>2, <1>4, <2>1 DEF Sound, Tables, ModelRows, Live
  <2>4. \A k \in Models : model'[k].state = model[k].state
    BY <2>3
  <2>5. TablesStay /\ PlacesStay
    BY <1>1, <2>4
       DEF TablesStay, FilesStay, PlacesStay, NodesStay, KeptStay, Kept,
           FileRow, TrashOf, InTrash, ModelsStay, RuntimesStay, InstancesStay,
           HistoryGrows
  <2>6. RunningSettingsStay
    <3> SUFFICES ASSUME NEW i \in Instances, up[i] # None \/ StartsOf(i) # {}
                 PROVE  SettingsStay(i)
      BY DEF RunningSettingsStay
    <3>1. drifted \subseteq drifted'
      BY <2>1 DEF Drifts
    <3>2. CASE inst[i].model = m
      <4>1. i \in drifted'
        BY <2>1, <2>2, <3>2 DEF Drifts
      <4> QED BY <1>1, <4>1 DEF SettingsStay, InstanceRow
    <3>3. CASE inst[i].model # m
      BY <1>1, <2>3, <3>1, <3>3, SameSettings
    <3> QED BY <3>2, <3>3
  <2>7. Tables'
    BY <1>1, <2>1, <2>3 DEF Sound, Tables, Drifts
  <2>8. Unused' /\ Filled' /\ Sited'
    <3>1. Unused'
      BY <1>1, <2>3 DEF Sound, Unused, FileRow
    <3>2. /\ \A g \in Files : FileRow(g)' => /\ file'[g].model \in Models
                                             /\ file'[g].place \in Places
          /\ \A y \in Trash : InTrash(y)' => /\ trash'[y].file \in Files
                                             /\ FileRow(trash[y].file)'
      BY <1>1 DEF Sound, Filled, InTrash, FileRow
    <3> QED BY <1>1, <2>5, <3>1, <3>2, RowsStay DEF Filled, Sited
  <2>9. \A f \in Files : FileRow(f) => (Gone(f)' <=> Gone(f))
    BY <1>1, <2>4 DEF Gone, Sound, Filled
  <2>10. GoneAreKept' /\ ItemsAreOfFiles'
    <3>1. GoneAreKept'
      BY <1>1, <2>5, <2>9 DEF Sound, GoneAreKept, FileRow, TablesStay, KeptStay
    <3>2. ItemsAreOfFiles'
      BY <1>1 DEF Sound, ItemsAreOfFiles, SamePlace, InTrash
    <3> QED BY <3>1, <3>2
  <2>11. VerifiedNamesPath' /\ RuntimeOfInstance'
    BY <1>1 DEF Sound, VerifiedNamesPath, RuntimeOfInstance, InstanceRow,
                RuntimeRow
  <2>12. StartsVerified' /\ RunsAsConfigured'
    BY <1>1, <2>5, <2>6, RunningStays
  <2>13. Explained
    BY <1>1, <2>9 DEF Explained, InTrash
  <2>14. Carried
    BY <1>1, <2>5, <2>6, CarryAll DEF NewFilesKept, FileRow
  <2>15. Sound'
    BY <2>7, <2>8, <2>10, <2>11, <2>12 DEF Sound
  <2> QED BY <1>1, <2>13, <2>14, <2>15, Ends
<1> QED BY <1>3, <1>4

\* The table of instances is written, and what was there keeps its identity.
LEMMA InstancesWritten ==
  ASSUME Inv, inst' \in [Instances -> InstanceRows], InstancesStay,
         \A i \in Instances : inst[i].state = "none" /\ inst'[i].state # "none" =>
           /\ inst'[i].local \/ inst'[i].file # None
                => inst'[i].runtime \in Runtimes
           /\ inst'[i].runtime # None
                => runtime[inst'[i].runtime].state # "none"
           /\ inst'[i].file # None =>
                file[inst'[i].file].state # "none"
                /\ (\/ file[inst'[i].file].place[1]
                         = runtime[inst'[i].runtime].node
                    \/ inst'[i].file \in moved),
         RuntimeOfInstance', RunningSettingsStay, drifted' \subseteq Instances,
         UNCHANGED <<scope, world, model, file, trash, runtime, mixed, moved,
                     offered, untraced>>
  PROVE  Sound' /\ Explained /\ Carried
<1> USE DEF world
<1>1. Sound /\ Fit
  BY InvParts
<1>2. TablesStay /\ PlacesStay
  BY DEF TablesStay, FilesStay, PlacesStay, NodesStay, KeptStay, Kept, TrashOf,
         InTrash, FileRow, ModelsStay, RuntimesStay, HistoryGrows
<1>3. Tables'
  BY <1>1 DEF Sound, Tables
<1>4. Unused' /\ Filled' /\ Sited'
  <2>1. Unused'
    BY <1>1 DEF Sound, Unused, FileRow, InstancesStay
  <2>2. /\ \A g \in Files : FileRow(g)' => /\ file'[g].model \in Models
                                           /\ file'[g].place \in Places
        /\ \A y \in Trash : InTrash(y)' => /\ trash'[y].file \in Files
                                           /\ FileRow(trash[y].file)'
    BY <1>1 DEF Sound, Filled, InTrash, FileRow
  <2>3. ASSUME NEW i \in Instances, inst'[i].state # "none"
        PROVE  /\ inst'[i].local \/ inst'[i].file # None
                     => inst'[i].runtime \in Runtimes
               /\ inst'[i].runtime # None
                     => runtime'[inst'[i].runtime].state # "none"
               /\ inst'[i].file # None => FileRow(inst[i].file)'
               /\ inst'[i].file # None
                     => SameNode(inst[i].file, inst[i].runtime)'
    <3>1. CASE inst[i].state # "none"
      BY <1>1, <1>2, <3>1, RowsStay
    <3>2. CASE inst[i].state = "none"
      BY <2>3, <3>2 DEF FileRow, SameNode
    <3> QED BY <3>1, <3>2
  <2> QED BY <2>1, <2>2, <2>3 DEF Filled, Sited
<1>5. GoneAreKept' /\ ItemsAreOfFiles' /\ VerifiedNamesPath'
  BY <1>1 DEF Sound, GoneAreKept, Gone, Kept, TrashOf, FileRow,
              ItemsAreOfFiles, SamePlace, InTrash, VerifiedNamesPath
<1>6. StartsVerified' /\ RunsAsConfigured'
  BY <1>1, <1>2, RunningStays
<1>7. Explained
  BY DEF Explained, InTrash, Gone
<1>8. Carried
  BY <1>1, <1>2, CarryAll DEF NewFilesKept, FileRow
<1> QED BY <1>1, <1>3, <1>4, <1>5, <1>6, <1>7, <1>8 DEF Sound

\* A new row of model_instances.
LEMMA InstanceInserted ==
  ASSUME Inv, NEW s \in {"stopped", "running"}, NEW local \in BOOLEAN,
         NEW e \in Runtimes \cup {None}, NEW m \in Models \cup {None},
         NEW f \in Files \cup {None}, NewInstance(s, local, e, m, f),
         e # None => RuntimeRow(e), local \/ f # None => e \in Runtimes,
         f # None => FileRow(f) /\ SameNode(f, e),
         UNCHANGED <<scope, world, model, file, trash, runtime, history>>
  PROVE  Sound' /\ Explained /\ Carried
<1> DEFINE t == [state |-> s, local |-> local, runtime |-> e, model |-> m,
                 file |-> f, rev |-> 0]
<1>1. Sound /\ Fit
  BY InvParts
<1>2. PICK i \in Instances : /\ inst[i].state = "none"
                             /\ inst' = [inst EXCEPT ![i] = t]
  BY FreshIs DEF NewInstance
<1>3. t \in InstanceRows
  BY DEF InstanceRows, InstanceState
<1>4. t.state = s /\ t.local = local /\ t.runtime = e /\ t.file = f
  OBVIOUS
<1> HIDE DEF t
<1>5. /\ inst' \in [Instances -> InstanceRows] /\ inst'[i] = t
      /\ \A j \in Instances \ {i} : inst'[j] = inst[j]
  BY <1>1, <1>2, <1>3 DEF Sound, Tables
<1>6. InstancesStay
  BY <1>2, <1>5 DEF InstancesStay
<1>7. RuntimeOfInstance'
  BY <1>1, <1>4, <1>5 DEF Sound, RuntimeOfInstance, RuntimeRow, InstanceRow
<1>8. RunningSettingsStay
  <2> SUFFICES ASSUME NEW j \in Instances, up[j] # None \/ StartsOf(j) # {}
               PROVE  SettingsStay(j)
    BY DEF RunningSettingsStay
  <2>1. j # i
    BY <1>2, RunsOfRuntime
  <2> QED BY <1>1, <1>5, <2>1, SameSettings DEF history
<1>9. \A j \in Instances : inst[j].state = "none" /\ inst'[j].state # "none" =>
        j = i
  BY <1>5
<1>10. /\ inst'[i].local \/ inst'[i].file # None
            => inst'[i].runtime \in Runtimes
       /\ inst'[i].runtime # None => runtime[inst'[i].runtime].state # "none"
       /\ inst'[i].file # None =>
            /\ file[inst'[i].file].state # "none"
            /\ \/ file[inst'[i].file].place[1]
                    = runtime[inst'[i].runtime].node
               \/ inst'[i].file \in moved
  BY <1>4, <1>5 DEF RuntimeRow, FileRow, SameNode
<1> QED BY <1>1, <1>5, <1>6, <1>7, <1>8, <1>9, <1>10, InstancesWritten
        DEF history, Sound, Tables

LEMMA CreateSteps ==
  ASSUME Inv, NEW o \in Ops, CreateLocal(o) \/ CreateExternal(o)
  PROVE  Inv'
<1>1. /\ Sound /\ Fit /\ Fits(op[o]) /\ op[o] \in Requests
      /\ ~ Fills(op[o]) /\ Finish(o)
      /\ UNCHANGED <<scope, world, model, file, trash, runtime, history>>
  BY InvParts DEF Fit, CreateLocal, CreateExternal, At, Fills
<1>2. CASE UNCHANGED inst
  BY <1>1, <1>2, FinishStep
<1>3. CASE CreateLocal(o) /\ ~ UNCHANGED inst
  <2> DEFINE f == op[o].of  e == op[o].on
             m == IF f = None THEN None ELSE file[f].model
  <2>1. /\ op[o].kind = "create_local" /\ RuntimeRow(e)
        /\ NewInstance("stopped", TRUE, e, m, f)
    BY <1>3 DEF CreateLocal, At
  <2>2. /\ e \in Runtimes
        /\ f # None => f \in Files /\ FileRow(f) /\ SameNode(f, e)
    BY <1>1, <2>1 DEF Fits, Names, Holds
  <2>3. m \in Models \cup {None}
    BY <1>1, <2>2 DEF Sound, Filled
  <2> HIDE DEF f, e, m
  <2>4. Sound' /\ Explained /\ Carried
    BY <1>1, <2>1, <2>2, <2>3, InstanceInserted
  <2> QED BY <1>1, <2>4, Ends
<1>4. CASE CreateExternal(o) /\ ~ UNCHANGED inst
  <2> DEFINE e == op[o].on  m == op[o].of
  <2>1. PICK s \in {"stopped", "running"} :
          /\ op[o].kind = "create_external" /\ (e # None => RuntimeRow(e))
          /\ NewInstance(s, FALSE, e, m, None)
    BY <1>4 DEF CreateExternal, At
  <2>2. e \in Runtimes \cup {None} /\ m \in Models \cup {None}
    BY <1>1, <2>1 DEF Fits, Holds
  <2> HIDE DEF e, m
  <2>4. Sound' /\ Explained /\ Carried
    BY <1>1, <2>1, <2>2, InstanceInserted
  <2> QED BY <1>1, <2>4, Ends
<1> QED BY <1>2, <1>3, <1>4

\* The status of rows that are there changes, and nothing else of them.
LEMMA StatusWritten ==
  ASSUME Inv, inst' \in [Instances -> InstanceRows],
         \A i \in Instances :
           \/ inst'[i] = inst[i]
           \/ /\ inst[i].state # "none"
              /\ \E s \in InstanceState \cup {"deleted"} :
                   /\ inst'[i] = [inst[i] EXCEPT !.state = s]
                   /\ s # "deleted" => InstanceRow(i),
         UNCHANGED <<scope, world, model, file, trash, runtime, history>>
  PROVE  Sound' /\ Explained /\ Carried
<1>1. Sound /\ Fit
  BY InvParts
<1>2. ASSUME NEW i \in Instances
      PROVE  /\ inst'[i].local = inst[i].local
             /\ inst'[i].runtime = inst[i].runtime
             /\ inst'[i].model = inst[i].model
             /\ inst'[i].file = inst[i].file /\ inst'[i].rev = inst[i].rev
             /\ inst'[i].state = "none" <=> inst[i].state = "none"
             /\ InstanceRow(i)' => InstanceRow(i)
  <2>1. CASE inst'[i] = inst[i]
    BY <2>1 DEF InstanceRow
  <2>2. CASE inst'[i] # inst[i]
    <3>1. PICK s \in InstanceState \cup {"deleted"} :
            /\ inst[i].state # "none"
            /\ inst'[i] = [inst[i] EXCEPT !.state = s]
            /\ s # "deleted" => InstanceRow(i)
      BY <2>2
    <3>2. inst[i] \in InstanceRows
      BY <1>1 DEF Sound, Tables
    <3>3. /\ inst'[i].local = inst[i].local
          /\ inst'[i].runtime = inst[i].runtime
          /\ inst'[i].model = inst[i].model
          /\ inst'[i].file = inst[i].file /\ inst'[i].rev = inst[i].rev
          /\ inst'[i].state = s
      BY <3>1, <3>2 DEF InstanceRows
    <3> QED BY <3>1, <3>3 DEF InstanceRow, InstanceState
  <2> QED BY <2>1, <2>2
<1>3. InstancesStay
  BY <1>2 DEF InstancesStay
<1>4. RuntimeOfInstance'
  BY <1>1, <1>2 DEF Sound, RuntimeOfInstance, RuntimeRow
<1>5. RunningSettingsStay
  BY <1>1, <1>2 DEF RunningSettingsStay, SettingsStay, SettingsOf, history
<1> QED BY <1>1, <1>2, <1>3, <1>4, <1>5, InstancesWritten
        DEF history, Sound, Tables

LEMMA InstanceSet ==
  ASSUME Inv, NEW i \in Instances, NEW s \in InstanceState, SetInstance(i, s),
         UNCHANGED <<scope, world, model, file, trash, runtime, history>>
  PROVE  Sound' /\ Explained /\ Carried
<1>1. inst \in [Instances -> InstanceRows]
  BY InvParts DEF Sound, Tables
<1>2. inst[i] = [inst[i] EXCEPT !.state = inst[i].state]
      /\ [inst[i] EXCEPT !.state = s] \in InstanceRows
  BY <1>1 DEF InstanceRows
<1>3. CASE InstanceRow(i)
  <2>1. inst' = [inst EXCEPT ![i] = [inst[i] EXCEPT !.state = s]]
    BY <1>3 DEF SetInstance
  <2>2. /\ inst' \in [Instances -> InstanceRows]
        /\ inst'[i] = [inst[i] EXCEPT !.state = s]
        /\ \A j \in Instances \ {i} : inst'[j] = inst[j]
    BY <1>1, <1>2, <2>1
  <2>3. inst[i].state # "none"
    BY <1>3 DEF InstanceRow
  <2>4. \A j \in Instances :
          \/ inst'[j] = inst[j]
          \/ /\ inst[j].state # "none"
             /\ \E x \in InstanceState \cup {"deleted"} :
                  /\ inst'[j] = [inst[j] EXCEPT !.state = x]
                  /\ x # "deleted" => InstanceRow(j)
    BY <1>3, <2>2, <2>3
  <2> QED BY <2>2, <2>4, StatusWritten
<1>4. CASE ~ InstanceRow(i)
  <2>1. inst' = inst
    BY <1>1, <1>2, <1>4 DEF SetInstance
  <2> QED BY <1>1, <2>1, StatusWritten
<1> QED BY <1>3, <1>4

LEMMA CheckInstanceStep ==
  ASSUME Inv, NEW o \in Ops, CheckInstance(o)
  PROVE  Inv'
<1>1. /\ Fits(op[o]) /\ op[o].kind = "check_instance" /\ ~ Fills(op[o])
      /\ Finish(o)
      /\ UNCHANGED <<scope, world, model, file, trash, runtime, history>>
  BY InvParts DEF Fit, CheckInstance, At, Fills
<1>2. op[o].on \in Instances /\ op[o].was \in InstanceState
  BY <1>1 DEF Fits, Names, Holds
<1>3. PICK s \in InstanceState : SetInstance(op[o].on, s)
  BY <1>2 DEF CheckInstance, InstanceState
<1>4. Sound' /\ Explained /\ Carried
  BY <1>1, <1>2, <1>3, InstanceSet
<1> QED BY <1>1, <1>4, Ends

LEMMA RunQueueStep ==
  ASSUME Inv, NEW o \in Ops, RunQueue(o)
  PROVE  Inv'
<1> DEFINE n == [op[o] EXCEPT !.pc = "wait", !.task = "sent"]
<1>1. /\ op[o] \in Requests /\ Fits(op[o]) /\ op[o].kind \in TaskKinds
      /\ op[o].pc = "queue"
      /\ UNCHANGED <<scope, world, model, file, trash, runtime, history>>
  BY InvParts DEF Fit, RunQueue
<1>2. op[o].on \in Instances
  BY <1>1 DEF Fits, Names
<1>3. PICK s \in InstanceState : SetInstance(op[o].on, s)
  BY <1>1 DEF RunQueue, InstanceState, TaskKinds
<1>4. Sound' /\ Explained /\ Carried
  BY <1>1, <1>2, <1>3, InstanceSet
<1>5. n \in Requests
  BY <1>1, Pcs, Put
<1>6. /\ n.kind = op[o].kind /\ n.on = op[o].on /\ n.of = op[o].of
      /\ n.place = op[o].place /\ n.todo = op[o].todo /\ n.was = op[o].was
      /\ n.sees = op[o].sees /\ n.pc = "wait"
  BY <1>1 DEF Requests
<1>7. op' = [op EXCEPT ![o] = n]
  BY DEF RunQueue, Go
<1> HIDE DEF n
<1> QED BY <1>1, <1>4, <1>5, <1>6, <1>7, NarrowStep DEF Fills, Open

LEMMA DeleteInstanceStep ==
  ASSUME Inv, NEW o \in Ops, DeleteInstance(o)
  PROVE  Inv'
<1> DEFINE i == op[o].on
           t == [inst[i] EXCEPT !.state = "deleted"]
<1>1. /\ Sound /\ Fits(op[o]) /\ op[o].kind = "delete_instance"
      /\ ~ Fills(op[o]) /\ Finish(o) /\ inst' = [inst EXCEPT ![i] = t]
      /\ UNCHANGED <<scope, world, model, file, trash, runtime, history>>
  BY InvParts DEF Fit, DeleteInstance, At, Fills
<1>2. i \in Instances /\ inst[i].state # "none"
  BY <1>1 DEF Fits, Names
<1>3. t \in InstanceRows
  BY <1>1, <1>2 DEF Sound, Tables, InstanceRows
<1>4. /\ inst' \in [Instances -> InstanceRows] /\ inst'[i] = t
      /\ \A j \in Instances \ {i} : inst'[j] = inst[j]
  BY <1>1, <1>2, <1>3 DEF Sound, Tables
<1>5. Sound' /\ Explained /\ Carried
  BY <1>1, <1>2, <1>4, StatusWritten
<1> QED BY <1>1, <1>5, Ends

LEMMA HeartbeatStep ==
  ASSUME Inv, Heartbeat
  PROVE  Sound' /\ Explained /\ Carried /\ op' = op
<1>1. inst \in [Instances -> InstanceRows]
  BY InvParts DEF Sound, Tables
<1>2. ASSUME NEW i \in Instances
      PROVE  \/ inst'[i] = inst[i]
             \/ /\ InstanceRow(i)
                /\ \E s \in {"running", "failed"} :
                     inst'[i] = [inst[i] EXCEPT !.state = s]
  BY DEF Heartbeat
<1>3. ASSUME NEW i \in Instances PROVE inst'[i] \in InstanceRows
  <2>1. inst[i] \in InstanceRows
    BY <1>1
  <2>2. CASE inst'[i] = inst[i]
    BY <2>1, <2>2
  <2>3. ASSUME NEW s \in {"running", "failed"},
               inst'[i] = [inst[i] EXCEPT !.state = s]
        PROVE  inst'[i] \in InstanceRows
    BY <2>1, <2>3 DEF InstanceRows, InstanceState
  <2> QED BY <1>2, <2>2, <2>3
<1>4. \A i \in Instances :
        \/ inst'[i] = inst[i]
        \/ /\ inst[i].state # "none"
           /\ \E s \in InstanceState \cup {"deleted"} :
                /\ inst'[i] = [inst[i] EXCEPT !.state = s]
                /\ s # "deleted" => InstanceRow(i)
  BY <1>2 DEF InstanceRow, InstanceState
<1>5. inst' \in [Instances -> InstanceRows]
  BY <1>3 DEF Heartbeat
<1> QED BY <1>4, <1>5, StatusWritten DEF Heartbeat

LEMMA UpdateInstanceStep ==
  ASSUME Inv, NEW o \in Ops, UpdateInstanceWrite(o)
  PROVE  Inv'
<1> DEFINE i == op[o].on
<1>1. /\ Sound /\ Fit /\ Fits(op[o]) /\ op[o].kind = "update_instance"
      /\ ~ Fills(op[o]) /\ Finish(o)
      /\ UNCHANGED <<scope, world, model, file, trash, runtime, mixed, moved,
                     offered, untraced>>
  BY InvParts DEF Fit, UpdateInstanceWrite, At, Fills
<1>2. i \in Instances /\ op[o].was \in InstanceState
  BY <1>1 DEF Fits, Names, Holds
<1>3. CASE ~ InstanceRow(i)
  BY <1>1, <1>3, FinishStep DEF UpdateInstanceWrite, history
<1>4. CASE InstanceRow(i)
  <2>1. inst \in [Instances -> InstanceRows] /\ inst[i].state \in InstanceState
        /\ inst[i].rev \in Nat /\ inst[i] \in InstanceRows
    BY <1>1, <1>2, <1>4 DEF Sound, Tables, InstanceRows, InstanceRow
  <2>2. PICK s \in InstanceState :
          inst' = [inst EXCEPT ![i].state = s,
                     ![i].rev = IF i \in op[o].todo THEN @ ELSE @ + 1]
    BY <1>2, <1>4, <2>1 DEF UpdateInstanceWrite, InstanceState
  <2>3. Drifts(o, {i})
    BY <1>4 DEF UpdateInstanceWrite
  <2> DEFINE rev == IF i \in op[o].todo THEN inst[i].rev ELSE inst[i].rev + 1
             t == [inst[i] EXCEPT !.state = s, !.rev = rev]
  <2>4. inst' = [inst EXCEPT ![i] = t]
    BY <2>2
  <2>5. rev \in Nat /\ (i \in op[o].todo => rev = inst[i].rev)
    BY <2>1
  <2> HIDE DEF rev
  <2>6. t \in InstanceRows
    BY <2>1, <2>5 DEF InstanceRows
  <2>7. /\ t.state = s /\ t.local = inst[i].local /\ t.file = inst[i].file
        /\ t.runtime = inst[i].runtime /\ t.model = inst[i].model
        /\ t.rev = rev
    BY <2>1 DEF InstanceRows
  <2> HIDE DEF t, i
  <2>8. /\ inst' \in [Instances -> InstanceRows] /\ inst'[i] = t
        /\ \A j \in Instances \ {i} : inst'[j] = inst[j]
    BY <1>2, <2>1, <2>4, <2>6
  <2>9. InstancesStay
    BY <2>7, <2>8 DEF InstancesStay, InstanceState
  <2>10. RuntimeOfInstance'
    BY <1>1, <1>4, <2>7, <2>8
       DEF Sound, RuntimeOfInstance, RuntimeRow, InstanceRow
  <2>11. drifted \subseteq drifted' /\ drifted' \subseteq Instances
    BY <1>1, <1>2, <2>3 DEF Drifts, Sound, Tables
  <2>12. RunningSettingsStay
    <3> SUFFICES ASSUME NEW j \in Instances, up[j] # None \/ StartsOf(j) # {}
                 PROVE  SettingsStay(j)
      BY DEF RunningSettingsStay
    <3>1. CASE j = i /\ i \notin op[o].todo
      <4>1. j \in drifted'
        BY <2>3, <3>1 DEF Drifts
      <4> QED BY <1>4, <3>1, <4>1 DEF SettingsStay
    <3>2. CASE j = i /\ i \in op[o].todo
      BY <1>1, <1>4, <2>5, <2>7, <2>8, <2>11, <3>2
         DEF SettingsStay, SettingsOf
    <3>3. CASE j # i
      BY <1>1, <2>8, <2>11, <3>3, SameSettings
    <3> QED BY <3>1, <3>2, <3>3
  <2>13. \A j \in Instances : inst[j].state = "none" => inst'[j].state = "none"
    BY <1>4, <2>8 DEF InstanceRow
  <2>14. Sound' /\ Explained /\ Carried
    BY <1>1, <2>8, <2>9, <2>10, <2>11, <2>12, <2>13, InstancesWritten
  <2> QED BY <1>1, <2>14, Ends
<1> QED BY <1>3, <1>4

-----------------------------------------------------------------------------
(* Tasks and agents. *)

\* What runs ends, or nothing but the places with a file changes.
LEMMA EndsRunning ==
  ASSUME Inv, up' \in [Instances -> Settings \cup {None}],
         disk' \in SUBSET Places,
         \A i \in Instances : up'[i] # None => up'[i] = up[i],
         UNCHANGED <<scope, model, file, trash, runtime, inst, history>>
  PROVE  Sound' /\ Explained /\ Carried
<1> USE DEF history
<1>1. Sound /\ Fit
  BY InvParts
<1>2. Tables' /\ Unused' /\ Filled' /\ Sited'
  BY <1>1 DEF Sound, Tables, Unused, Filled, Sited, SameNode, FileRow, InTrash
<1>3. GoneAreKept' /\ ItemsAreOfFiles'
  BY <1>1 DEF Sound, GoneAreKept, ItemsAreOfFiles, Gone, Kept, TrashOf,
              SamePlace, FileRow, InTrash
<1>4. VerifiedNamesPath' /\ RuntimeOfInstance' /\ StartsVerified'
  BY <1>1 DEF Sound, VerifiedNamesPath, RuntimeOfInstance, StartsVerified,
              InstanceRow, RuntimeRow
<1>5. RunsAsConfigured'
  BY <1>1 DEF Sound, RunsAsConfigured, SettingsOf, InstanceRow
<1>6. Explained
  BY DEF Explained, InTrash, FileRow, Gone
<1>7. \A r \in Requests : Fits(r) => Fits(r)'
  BY DEF Fits, Names, Holds, Excludes, Verifying, Starting, Trashing, SameNode,
         Proper, Current, SettingsOf, InstanceRow, FileRow, About, Kept,
         TrashOf, SamePlace, InTrash
<1>8. Carried
  BY <1>1, <1>7 DEF Carried, Fit
<1> QED BY <1>1, <1>2, <1>3, <1>4, <1>5, <1>6, <1>8 DEF Sound

LEMMA ExitStep ==
  ASSUME Inv, NEW i \in Instances, Exit(i)
  PROVE  Sound' /\ Explained /\ Carried /\ op' = op
<1>1. up \in [Instances -> Settings \cup {None}] /\ disk \in SUBSET Places
  BY InvParts DEF Sound, Tables
<1>2. /\ up' = [up EXCEPT ![i] = None] /\ disk' = disk
      /\ UNCHANGED <<scope, model, file, trash, runtime, inst, history>>
      /\ op' = op
  BY DEF Exit
<1>3. up' \in [Instances -> Settings \cup {None}]
      /\ \A j \in Instances : up'[j] # None => up'[j] = up[j]
  BY <1>1, <1>2
<1> QED BY <1>1, <1>2, <1>3, EndsRunning

LEMMA LoseStep ==
  ASSUME Inv, NEW o \in Ops, Lose(o)
  PROVE  Inv'
<1> DEFINE n == [op[o] EXCEPT !.task = "over"]
<1>1. /\ op[o] \in Requests /\ Fits(op[o]) /\ InFlight(o)
      /\ UNCHANGED <<scope, world, model, file, trash, runtime, inst, history>>
      /\ Sound
  BY InvParts DEF Fit, Lose
<1>2. ~ Fills(op[o])
  BY <1>1 DEF Fits, Trashing, Fills, InFlight
<1>3. Sound' /\ Explained /\ Carried
  BY <1>1, Reads DEF Sound, Tables, history
<1>4. n \in Requests
  BY <1>1, Put
<1>5. /\ n.kind = op[o].kind /\ n.on = op[o].on /\ n.of = op[o].of
      /\ n.place = op[o].place /\ n.todo = op[o].todo /\ n.was = op[o].was
      /\ n.sees = op[o].sees /\ n.pc = op[o].pc /\ n.task = "over"
  BY <1>1 DEF Requests
<1>6. \/ op' = [op EXCEPT ![o] = n] /\ op[o].pc = "pend"
      \/ op' = [op EXCEPT ![o] = Ended]
  BY DEF Lose, Go
<1> HIDE DEF n
<1>7. CASE op' = [op EXCEPT ![o] = n] /\ op[o].pc = "pend"
  BY <1>2, <1>3, <1>4, <1>5, <1>7, NarrowStep DEF Open
<1>8. CASE op' = [op EXCEPT ![o] = Ended]
  BY <1>2, <1>3, <1>8, IdleIsRequest, EndedFits, Step
<1> QED BY <1>6, <1>7, <1>8

\* An instance is started.  It is as configured, or known not to be, and other
\* starts of it that are under way keep it so.
LEMMA Started ==
  ASSUME Inv, NEW o \in Ops, op[o].kind = "start", op[o].task = "sent",
         NEW i \in Instances, i = op[o].on, up' = [up EXCEPT ![i] = op[o].sees],
         \/ drifted' = drifted
         \/ /\ drifted' = drifted \ {i} /\ StartsOf(i) = {o}
            /\ op[o].sees = SettingsOf(i),
         UNCHANGED <<scope, disk, model, file, trash, runtime, inst, mixed,
                     moved, offered, untraced>>
  PROVE  Sound' /\ Explained /\ Carried
<1>1. Sound /\ Fit /\ Fits(op[o])
  BY InvParts DEF Fit
<1>2. /\ inst[i].state # "none" /\ inst[i].local /\ op[o].sees \in Settings
      /\ Proper(i, op[o].sees)
      /\ InstanceRow(i) => Current(i, op[o].sees) \/ i \in drifted
  BY <1>1 DEF Fits, Names, Holds, Starting, Open, TaskKinds
<1>3. /\ up' \in [Instances -> Settings \cup {None}] /\ up'[i] = op[o].sees
      /\ \A j \in Instances \ {i} : up'[j] = up[j]
  BY <1>1, <1>2 DEF Sound, Tables
<1>4. /\ drifted' \subseteq drifted /\ drifted \subseteq drifted' \cup {i}
      /\ i \in drifted' \/ i \notin drifted \/ op[o].sees = SettingsOf(i)
  OBVIOUS
<1>5. Tables' /\ Unused' /\ Filled' /\ Sited'
  <2>1. Tables'
    BY <1>1, <1>3, <1>4 DEF Sound, Tables
  <2>2. Unused'
    BY <1>1, <1>2, <1>3 DEF Sound, Unused, FileRow
  <2> QED BY <1>1, <2>1, <2>2
          DEF Sound, Filled, Sited, SameNode, FileRow, InTrash
<1>6. GoneAreKept' /\ ItemsAreOfFiles'
  BY <1>1 DEF Sound, GoneAreKept, ItemsAreOfFiles, Gone, Kept, TrashOf,
              SamePlace, FileRow, InTrash
<1>7. VerifiedNamesPath' /\ RuntimeOfInstance'
  BY <1>1 DEF Sound, VerifiedNamesPath, RuntimeOfInstance, InstanceRow,
              RuntimeRow
<1>8. StartsVerified'
  BY <1>1, <1>2, <1>3 DEF Sound, StartsVerified, Proper
<1>9. \A j \in Instances : \A x \in Settings :
        Current(j, x)' <=> Current(j, x)
  <2>1. \A j \in Instances : SettingsOf(j)' = SettingsOf(j)
    BY DEF SettingsOf
  <2> QED BY <2>1 DEF Current
<1>10. RunsAsConfigured'
  <2> SUFFICES ASSUME NEW j \in Instances, InstanceRow(j)', up'[j] # None,
                      j \notin drifted'
               PROVE  Current(j, up[j])'
    BY DEF RunsAsConfigured, Current
  <2>1. PICK x \in Settings : x = up'[j]
    BY <1>5 DEF Tables
  <2>2. InstanceRow(j)
    BY DEF InstanceRow
  <2>3. Current(j, x)
    <3>1. CASE j = i
      BY <1>2, <1>3, <1>4, <2>1, <2>2, <3>1 DEF Current
    <3>2. CASE j # i
      BY <1>1, <1>3, <1>4, <2>1, <2>2, <3>2 DEF Sound, RunsAsConfigured, Current
    <3> QED BY <3>1, <3>2
  <2>4. Current(j, x)'
    BY <1>9, <2>3
  <2> QED BY <2>1, <2>4
<1>11. Explained
  BY DEF Explained, InTrash, FileRow, Gone
<1>12. Carried
  <2> SUFFICES ASSUME NEW q \in Ops, NEW r \in Requests, r = op[q]
               PROVE  Fits(r)'
    BY DEF Carried
  <2>1. Fits(r)
    BY <1>1 DEF Fit
  <2>2. Names(r)' /\ Holds(r)' /\ Excludes(r)' /\ Verifying(r)' /\ Trashing(r)'
    BY <2>1 DEF Fits, Names, Holds, Excludes, Verifying, Trashing, SameNode,
                FileRow, About, Kept, TrashOf, SamePlace, InTrash
  <2>3. Starting(r)'
    <3> SUFFICES ASSUME r.kind = "start", Open(r)
                 PROVE  /\ Proper(r.on, r.sees)'
                        /\ InstanceRow(r.on)'
                             => Current(r.on, r.sees)' \/ r.on \in drifted'
      BY DEF Starting, Open
    <3>1. /\ r.on \in Instances /\ r.sees \in Settings /\ Proper(r.on, r.sees)
          /\ InstanceRow(r.on) => Current(r.on, r.sees) \/ r.on \in drifted
      BY <2>1 DEF Fits, Names, Holds, Starting, TaskKinds
    <3>2. Proper(r.on, r.sees)'
      BY <3>1 DEF Proper
    <3>3. InstanceRow(r.on)' => Current(r.on, r.sees) \/ r.on \in drifted'
      <4>1. CASE r.on = i /\ drifted' # drifted
        <5>1. q \in StartsOf(i)
          BY <4>1 DEF StartsOf, Open, InFlight
        <5>2. r.sees = SettingsOf(r.on)
          BY <4>1, <5>1
        <5> QED BY <5>2 DEF Current
      <4>2. CASE r.on # i \/ drifted' = drifted
        BY <1>4, <3>1, <4>2 DEF InstanceRow
      <4> QED BY <4>1, <4>2
    <3> QED BY <1>9, <3>1, <3>2, <3>3
  <2> QED BY <2>2, <2>3 DEF Fits
<1> QED BY <1>5, <1>6, <1>7, <1>8, <1>10, <1>11, <1>12 DEF Sound

LEMMA PerformStep ==
  ASSUME Inv, NEW o \in Ops, Perform(o)
  PROVE  Inv'
<1>1. /\ Sound /\ op[o] \in Requests /\ Fits(op[o]) /\ op[o].task = "sent"
      /\ UNCHANGED <<scope, model, file, trash, runtime, inst, mixed, moved,
                     offered, untraced>>
  BY InvParts DEF Fit, Perform
<1>2. PICK ok \in BOOLEAN :
        LET kind == op[o].kind  i == op[o].on
        IN /\ IF kind = "cleanup_trash" THEN Cleans(op[o].place, ok)
              ELSE UNCHANGED disk
           /\ IF kind \in TaskKinds THEN Operates(kind, i, ok, op[o].sees)
              ELSE UNCHANGED up
           /\ drifted' = IF kind = "start" /\ ok /\ StartsOf(i) = {o}
                            /\ InstanceRow(i) /\ op[o].sees = SettingsOf(i)
                         THEN drifted \ {i} ELSE drifted
           /\ Go(o, [op[o] EXCEPT !.task = IF ok THEN "ok" ELSE "failed"])
  BY DEF Perform
<1>3. Sound' /\ Explained /\ Carried
  <2>1. CASE op[o].kind = "start" /\ ok
    <3>1. PICK i \in Instances : i = op[o].on
      BY <1>1, <2>1 DEF Fits, Names, TaskKinds
    <3>2. up' = [up EXCEPT ![i] = op[o].sees] /\ UNCHANGED disk
      BY <1>2, <2>1, <3>1 DEF Operates, TaskKinds
    <3>3. \/ drifted' = drifted
          \/ /\ drifted' = drifted \ {i} /\ StartsOf(i) = {o}
             /\ op[o].sees = SettingsOf(i)
      BY <1>2, <3>1
    <3> QED BY <1>1, <2>1, <3>1, <3>2, <3>3, Started
  <2>2. CASE ~ (op[o].kind = "start" /\ ok)
    <3>1. drifted' = drifted
      BY <1>2, <2>2
    <3>2. disk' \in SUBSET Places
      BY <1>1, <1>2 DEF Cleans, Sound, Tables
    <3>3. up' = up \/ \E i \in Instances : up' = [up EXCEPT ![i] = None]
      BY <1>1, <1>2, <2>2 DEF Operates, TaskKinds, Fits, Names
    <3>4. /\ up' \in [Instances -> Settings \cup {None}]
          /\ \A i \in Instances : up'[i] # None => up'[i] = up[i]
      BY <1>1, <3>3 DEF Sound, Tables
    <3> QED BY <1>1, <3>1, <3>2, <3>4, EndsRunning DEF history
  <2> QED BY <2>1, <2>2
<1> DEFINE n == [op[o] EXCEPT !.task = IF ok THEN "ok" ELSE "failed"]
<1>4. n \in Requests
  BY <1>1, Put
<1>5. /\ n.kind = op[o].kind /\ n.on = op[o].on /\ n.of = op[o].of
      /\ n.place = op[o].place /\ n.todo = op[o].todo /\ n.was = op[o].was
      /\ n.sees = op[o].sees /\ n.pc = op[o].pc
  BY <1>1 DEF Requests
<1>6. op' = [op EXCEPT ![o] = n]
  BY <1>2 DEF Go
<1> HIDE DEF n
<1>7. op[o].pc \notin {"list", "look", "trash"}
  BY <1>1 DEF Fits, Trashing
<1>8. Open(n) => Open(op[o])
  BY <1>1 DEF Open
<1> QED BY <1>3, <1>4, <1>5, <1>6, <1>7, <1>8, NarrowStep DEF Fills

\* The result of a task is written.
LEMMA RowRecorded ==
  ASSUME Inv, NEW o \in Ops, InFlight(o), NEW ok \in BOOLEAN, RecordRow(o, ok),
         UNCHANGED <<scope, world, model, runtime, history>>
  PROVE  Sound' /\ Explained /\ Carried
<1> DEFINE x == op[o].on
<1>1. Sound /\ Fits(op[o]) /\ op[o] \in Requests
  BY InvParts DEF Fit
<1>2. CASE op[o].kind = "verify_model_file"
  <2>1. /\ file' = [file EXCEPT
                 ![x].state = IF ok THEN "verified" ELSE "failed",
                 ![x].seen = IF ok THEN op[o].place ELSE None]
        /\ UNCHANGED <<trash, inst>>
    BY <1>2 DEF RecordRow, TaskKinds
  <2>2. x \in Files /\ FileRow(x) /\ op[o].place \in Places
    BY <1>1, <1>2 DEF Fits, Names, Holds
  <2>3. op[o].place = file[x].place \/ x \in mixed
    BY <1>1, <1>2 DEF Fits, Verifying, Open, InFlight
  <2> HIDE DEF x
  <2>4. CASE ok
    BY <2>1, <2>2, <2>3, <2>4, FileVerified
  <2>5. CASE ~ ok
    BY <2>1, <2>2, <2>5, FileVerified
  <2> QED BY <2>4, <2>5
<1>3. CASE op[o].kind = "cleanup_trash"
  <2>1. /\ trash' = IF ~ InTrash(x) THEN trash
                 ELSE [trash EXCEPT ![x].gone = @ \/ ok,
                         ![x].state = IF ok THEN "cleaned"
                                      ELSE "cleanup_failed"]
        /\ UNCHANGED <<file, inst>>
    BY <1>3 DEF RecordRow, TaskKinds
  <2>2. x \in Trash
    BY <1>1, <1>3 DEF Fits, Names
  <2>3. CASE InTrash(x)
    <3> DEFINE t == [trash[x] EXCEPT !.gone = @ \/ ok,
                       !.state = IF ok THEN "cleaned" ELSE "cleanup_failed"]
    <3>1. trash[x] \in TrashRows /\ trash[x].gone \in BOOLEAN
      BY <1>1, <2>2 DEF Sound, Tables, TrashRows
    <3>2. t \in TrashRows
      BY <3>1 DEF TrashRows
    <3>3. /\ t.state \notin {"none", "deleted"} /\ t.file = trash[x].file
          /\ t.place = trash[x].place
      BY <3>1 DEF TrashRows
    <3>4. trash' = [trash EXCEPT ![x] = t]
      BY <2>1, <2>3
    <3> HIDE DEF t, x
    <3> QED BY <2>1, <2>2, <2>3, <3>2, <3>3, <3>4, ItemMarked
  <2>4. CASE ~ InTrash(x)
    BY <1>1, <2>1, <2>4, Reads DEF history, Sound, Tables
  <2> QED BY <2>3, <2>4
<1>4. CASE op[o].kind \in TaskKinds
  <2>1. UNCHANGED <<file, trash>>
    BY <1>4 DEF RecordRow, TaskKinds
  <2>2. PICK s \in InstanceState : SetInstance(x, s)
    BY <1>4 DEF RecordRow, TaskKinds, InstanceState
  <2>3. x \in Instances
    BY <1>1, <1>4 DEF Fits, Names
  <2> HIDE DEF x
  <2> QED BY <2>1, <2>2, <2>3, InstanceSet
<1>5. CASE op[o].kind \notin TaskKinds \cup {"verify_model_file",
                                            "cleanup_trash"}
  <2>1. UNCHANGED <<file, trash, inst>>
    BY <1>5 DEF RecordRow, TaskKinds
  <2> QED BY <1>1, <2>1, Reads DEF history, Sound, Tables
<1> QED BY <1>2, <1>3, <1>4, <1>5

LEMMA ReportSteps ==
  ASSUME Inv, NEW o \in Ops, Report(o) \/ TimeOut(o)
  PROVE  Inv'
<1> DEFINE a == [op[o] EXCEPT !.task = "over"]
           b == [op[o] EXCEPT !.pc = "save", !.task = "over"]
           c == [op[o] EXCEPT !.due = TRUE,
                              !.pc = IF @ = "pend" THEN @ ELSE "end"]
<1>1. /\ op[o] \in Requests /\ Fits(op[o]) /\ InFlight(o)
      /\ UNCHANGED <<scope, world, model, runtime, history>>
  BY InvParts DEF Fit, Report, TimeOut, InFlight
<1>2. op[o].pc \notin {"list", "look", "trash"}
  BY <1>1 DEF Fits, Trashing, InFlight
<1>3. PICK ok \in BOOLEAN : RecordRow(o, ok)
  BY DEF Report, TimeOut
<1>4. Sound' /\ Explained /\ Carried
  BY <1>1, <1>3, RowRecorded
<1>5. a \in Requests /\ b \in Requests /\ c \in Requests
  <2>1. a \in Requests /\ [op[o] EXCEPT !.pc = "save"] \in Requests
    BY <1>1, Pcs, Put
  <2>2. b \in Requests
    BY <2>1, Put
  <2>3. [op[o] EXCEPT !.due = TRUE] \in Requests
    BY <1>1, Put
  <2>4. [op[o] EXCEPT !.due = TRUE].pc = op[o].pc /\ op[o].pc \in Pc
    BY <1>1 DEF Requests
  <2>5. c \in Requests
    BY <2>3, <2>4, Pcs, Put
  <2> QED BY <2>1, <2>2, <2>5
<1>6. ASSUME NEW n \in {a, b, c}
      PROVE  /\ n.kind = op[o].kind /\ n.on = op[o].on /\ n.of = op[o].of
             /\ n.place = op[o].place /\ n.todo = op[o].todo
             /\ n.was = op[o].was /\ n.sees = op[o].sees
             /\ n.pc \in {op[o].pc, "save", "end"}
  <2>1. CASE n = a
    BY <1>1, <2>1 DEF Requests
  <2>2. CASE n = b
    BY <1>1, <2>2 DEF Requests
  <2>3. CASE n = c
    BY <1>1, <2>3 DEF Requests
  <2> QED BY <2>1, <2>2, <2>3
<1>7. \/ op' = [op EXCEPT ![o] = a] \/ op' = [op EXCEPT ![o] = b]
      \/ op' = [op EXCEPT ![o] = c] \/ op' = [op EXCEPT ![o] = Ended]
  BY DEF Report, TimeOut, Go
<1> HIDE DEF a, b, c
<1>8. CASE op' = [op EXCEPT ![o] = Ended]
  BY <1>2, <1>4, <1>8, IdleIsRequest, EndedFits, Step DEF Fills
<1>9. ASSUME NEW n \in Requests, n \in {a, b, c}, op' = [op EXCEPT ![o] = n]
      PROVE  Inv'
  BY <1>1, <1>2, <1>4, <1>6, <1>9, NarrowStep DEF Fills, Open, InFlight
<1> QED BY <1>5, <1>7, <1>8, <1>9

-----------------------------------------------------------------------------
(* The specification. *)

\* A step of no request.
LEMMA StillStep ==
  ASSUME Inv, Sound', Explained, Carried, op' = op
  PROVE  Inv'
<1>1. Sound /\ Fit /\ TrashOfDeleted
  BY InvParts
<1>2. ASSUME NEW o \in Ops PROVE Inv'
  <2>1. PICK r \in Requests : r = op[o]
    BY <1>1 DEF Fit
  <2>2. op' = [op EXCEPT ![o] = r] /\ Fits(r)'
    BY <1>1, <2>1 DEF Fit, Carried
  <2> QED BY <2>1, <2>2, Step DEF Fills
<1>3. CASE Ops = {}
  <2>1. TrashOfDeleted'
    BY <1>1, <1>3 DEF TrashOfDeleted, BeingTrashed, Explained, Sound, Filled,
                      Gone
  <2>2. Fit'
    BY <1>1, <1>3 DEF Fit
  <2> QED BY <2>1, <2>2, InvParts
<1> QED BY <1>2, <1>3

LEMMA InitInv == Init => Inv
<1> SUFFICES ASSUME Init PROVE Inv
  OBVIOUS
<1>1. /\ NoModel.state = "none" /\ NoModel.rev = 0 /\ NoModel \in ModelRows
      /\ NoFile.state = "none" /\ NoFile.model = None /\ ~ NoFile.deleted
      /\ NoFile \in FileRows
      /\ NoTrash.state = "none" /\ NoTrash \in TrashRows
      /\ NoRuntime.state = "none" /\ NoRuntime.rev = 0
      /\ NoRuntime \in RuntimeRows
      /\ NoInstance.state = "none" /\ NoInstance \in InstanceRows
  BY DEF NoModel, NoFile, NoTrash, NoRuntime, NoInstance, ModelRows, FileRows,
         TrashRows, RuntimeRows, InstanceRows
<1>2. PICK m \in Models, f \in Files, e \in Runtimes, i \in Instances :
        /\ m = Fresh(Models, [x \in Models |-> NoModel])
        /\ f = Fresh(Files, [x \in Files |-> NoFile])
        /\ e = Fresh(Runtimes, [x \in Runtimes |-> NoRuntime])
        /\ i = Fresh(Instances, [x \in Instances |-> NoInstance])
  <2>1. Fresh(Models, [x \in Models |-> NoModel]) \in Models
    BY <1>1, CatalogueAssumption DEF Fresh
  <2>2. Fresh(Files, [x \in Files |-> NoFile]) \in Files
    BY <1>1, CatalogueAssumption DEF Fresh
  <2>3. Fresh(Runtimes, [x \in Runtimes |-> NoRuntime]) \in Runtimes
    BY <1>1, CatalogueAssumption DEF Fresh
  <2>4. Fresh(Instances, [x \in Instances |-> NoInstance]) \in Instances
    BY <1>1, CatalogueAssumption DEF Fresh
  <2> QED BY <2>1, <2>2, <2>3, <2>4
<1> DEFINE a == [state |-> "live", rev |-> 0]
<1>3. PICK p \in Places :
        /\ model = [x \in Models |->
             IF x = Fresh(Models, [y \in Models |-> NoModel])
             THEN [state |-> "live", rev |-> 0] ELSE NoModel]
        /\ file = [x \in Files |->
             IF x = Fresh(Files, [y \in Files |-> NoFile])
             THEN [state |-> "verified",
                   model |-> Fresh(Models, [y \in Models |-> NoModel]),
                   place |-> p, deleted |-> FALSE, seen |-> p] ELSE NoFile]
        /\ runtime = [x \in Runtimes |->
             IF x = Fresh(Runtimes, [y \in Runtimes |-> NoRuntime])
             THEN [state |-> "usable", node |-> p[1], ollama |-> FALSE,
                   rev |-> 0] ELSE NoRuntime]
        /\ inst = [x \in Instances |->
             IF x = Fresh(Instances, [y \in Instances |-> NoInstance])
             THEN [state |-> "stopped", local |-> TRUE,
                   runtime |-> Fresh(Runtimes, [y \in Runtimes |-> NoRuntime]),
                   model |-> Fresh(Models, [y \in Models |-> NoModel]),
                   file |-> Fresh(Files, [y \in Files |-> NoFile]),
                   rev |-> 0] ELSE NoInstance]
  BY Zenon DEF Init
<1> DEFINE b == Verified(m, p)
           c == [state |-> "usable", node |-> p[1], ollama |-> FALSE,
                 rev |-> 0]
           d == [state |-> "stopped", local |-> TRUE, runtime |-> e,
                 model |-> m, file |-> f, rev |-> 0]
<1>4. p[1] \in Nodes
  BY DEF Nodes
<1>5. /\ a \in ModelRows /\ a.state = "live" /\ a.rev = 0
      /\ b \in FileRows /\ b.state = "verified" /\ b.model = m /\ b.place = p
      /\ b.seen = p /\ ~ b.deleted
      /\ c \in RuntimeRows /\ c.state = "usable" /\ c.node = p[1] /\ c.rev = 0
      /\ d \in InstanceRows /\ d.state = "stopped" /\ d.runtime = e
      /\ d.local /\ d.file = f
  BY <1>4 DEF Verified, ModelRows, FileRows, RuntimeRows, InstanceRows,
              InstanceState
<1>6. /\ disk = Places /\ trash = [x \in Trash |-> NoTrash]
      /\ up = [x \in Instances |-> None] /\ op = [o \in Ops |-> Idle]
      /\ mixed = {} /\ moved = {} /\ offered = {} /\ untraced = {}
      /\ drifted = {} /\ scope \in Scopes
  BY DEF Init
<1>7. /\ model = [x \in Models |-> IF x = m THEN a ELSE NoModel]
      /\ file = [x \in Files |-> IF x = f THEN b ELSE NoFile]
      /\ runtime = [x \in Runtimes |-> IF x = e THEN c ELSE NoRuntime]
      /\ inst = [x \in Instances |-> IF x = i THEN d ELSE NoInstance]
  BY <1>2, <1>3, Zenon DEF Verified
<1> HIDE DEF a, b, c, d
<1>8. Tables
  BY <1>1, <1>5, <1>6, <1>7 DEF Tables
<1>9. \A x \in Trash : ~ InTrash(x)
  BY <1>1, <1>6 DEF InTrash
<1>10. Unused
  BY <1>1, <1>5, <1>6, <1>7 DEF Unused, FileRow
<1>11. \A x \in Instances : inst[x].state # "none" => x = i
  BY <1>1, <1>7
<1>12. /\ inst[i].runtime = e /\ inst[i].file = f /\ FileRow(f)
       /\ file[f].place[1] = runtime[e].node /\ runtime[e].state = "usable"
  BY <1>5, <1>7 DEF FileRow
<1>13. Filled /\ Sited
  <2>1. \A x \in Files : FileRow(x) => /\ file[x].model \in Models
                                       /\ file[x].place \in Places
    BY <1>1, <1>5, <1>7 DEF FileRow
  <2> QED BY <1>9, <1>11, <1>12, <2>1 DEF Filled, Sited, SameNode
<1>14. GoneAreKept /\ ItemsAreOfFiles /\ TrashOfDeleted
  <2>1. \A x \in Files : FileRow(x) => ~ Gone(x)
    BY <1>1, <1>5, <1>7 DEF Gone, FileRow
  <2> QED BY <1>9, <2>1 DEF GoneAreKept, ItemsAreOfFiles, TrashOfDeleted
<1>15. VerifiedNamesPath /\ StartsVerified /\ RunsAsConfigured
  BY <1>1, <1>5, <1>6, <1>7
     DEF VerifiedNamesPath, StartsVerified, RunsAsConfigured
<1>16. RuntimeOfInstance
  BY <1>11, <1>12 DEF RuntimeOfInstance, InstanceRow, RuntimeRow
<1>17. Fit
  <2>1. Fits(Idle)
    BY IdleIsRequest, KindsAre
       DEF Fits, Names, Holds, Excludes, Verifying, Starting, Trashing,
           TaskKinds
  <2> QED BY <1>6, <2>1, IdleIsRequest DEF Fit
<1> QED BY <1>8, <1>10, <1>13, <1>14, <1>15, <1>16, <1>17, InvParts DEF Sound

LEMMA NextStep == Inv /\ [Next]_vars => Inv'
<1> SUFFICES ASSUME Inv, [Next]_vars PROVE Inv'
  OBVIOUS
<1>1. ASSUME NEW o \in Ops, ModelSteps(o) PROVE Inv'
  BY <1>1, AskStep, SaveStep, UpdateModelCheckStep, UpdateModelStep,
     DeleteModelReads, DeleteModelStep DEF ModelSteps
<1>2. ASSUME NEW o \in Ops, FileSteps(o) PROVE Inv'
  BY <1>2, AskStep, SaveStep, SaveUpdateStep, VerifyReadStep, VerifyQueueStep,
     TrashAskStep, DeleteFileStep DEF FileSteps
<1>3. ASSUME NEW o \in Ops, TrashSteps(o) PROVE Inv'
  BY <1>3, EnsureLookStep, EnsureInsertStep, CutStep, CleanupSteps,
     DeleteTrashStep DEF TrashSteps
<1>4. ASSUME NEW o \in Ops, RuntimeSteps(o) PROVE Inv'
  BY <1>4, NewRuntimeSteps, RuntimeReads, UpdateRuntimeStep, MarkRuntimeSteps
     DEF RuntimeSteps
<1>5. ASSUME NEW o \in Ops, InstanceSteps(o) PROVE Inv'
  BY <1>5, CreateReads, CreateSteps, InstanceReads, UpdateInstanceStep,
     DeleteInstanceStep, CheckInstanceStep, RunReadStep, RunQueueStep
     DEF InstanceSteps
<1>6. ASSUME NEW o \in Ops,
             Perform(o) \/ Report(o) \/ TimeOut(o) \/ Lose(o) \/ Cut(o)
      PROVE  Inv'
  BY <1>6, PerformStep, ReportSteps, LoseStep, CutStep
<1>7. ASSUME NEW i \in Instances, Exit(i) PROVE Inv'
  BY <1>7, ExitStep, StillStep
<1>8. CASE Heartbeat
  BY <1>8, HeartbeatStep, StillStep
<1>9. CASE UNCHANGED vars
  <2>1. Sound' /\ Explained /\ Carried /\ op' = op
    BY <1>9, InvParts, Reads DEF vars, world, Sound, Tables
  <2> QED BY <2>1, StillStep
<1> QED BY <1>1, <1>2, <1>3, <1>4, <1>5, <1>6, <1>7, <1>8, <1>9 DEF Next

\* What a request in flight relies on is there, and the tables agree with each
\* other and with what the agents run.
THEOREM Invariance == Spec => []Inv
BY InitInv, NextStep, PTL DEF Spec

\* The rows, the requests and what runs have the values that the tables and
\* the tasks can hold, whatever order the statements come in.
THEOREM TypeCorrect == Spec => []TypeOK
<1>1. Inv => TypeOK
  BY DEF Inv
<1> QED BY <1>1, Invariance, PTL

\* A file that says verified was verified where it is (record_agent_task_result
\* for model_file.verify, and the three requests that save a verified place),
\* unless its place changed while a verification was under way.
THEOREM VerifiedPlaces == Spec => []VerifiedNamesPath
<1>1. Inv => VerifiedNamesPath
  BY DEF Inv
<1> QED BY <1>1, Invariance, PTL

\* What an agent runs for an instance comes from a place that was verified
\* when the start was asked for, on the node of the runtime
\* (run_local_instance_task), unless the file was moved meanwhile.
THEOREM RunsVerifiedFiles == Spec => []StartsVerified
<1>1. Inv => StartsVerified
  BY DEF Inv
<1> QED BY <1>1, Invariance, PTL

\* A file that was deleted, alone or with its model (delete_model_file,
\* delete_model), has an item of its place in the trash, unless the trash was
\* emptied, the place changed, or the file came too late.
THEOREM DeletedAreInTrash == Spec => []DeletedInTrash
<1>1. Inv => DeletedInTrash
  <2> SUFFICES ASSUME Inv, NEW f \in Files, FileRow(f), Gone(f),
                      f \notin untraced
               PROVE  \E x \in TrashOf(f) : trash[x].place = file[f].place
    BY DEF DeletedInTrash, Gone
  <2>1. PICK x \in Trash : InTrash(x) /\ trash[x].file = f
    BY DEF Inv, GoneAreKept, Kept, TrashOf
  <2>2. trash[x].place = file[f].place
    BY <2>1 DEF Inv, ItemsAreOfFiles, SamePlace
  <2> QED BY <2>1, <2>2 DEF TrashOf
<1> QED BY <1>1, Invariance, PTL

\* An item of the trash is of a file that is no longer listed, or is about to
\* be, unless it was put there by a request that ended without removing the
\* file (create_model_file_trash, or a deletion that was cut).
THEOREM TrashIsOfDeleted == Spec => []TrashOfDeleted
<1>1. Inv => TrashOfDeleted
  BY DEF Inv
<1> QED BY <1>1, Invariance, PTL

\* The runtime of an instance is there as long as the instance is: the foreign
\* key decides where the counts of delete_runtime_environment and
\* create_model_instance are stale.
THEOREM RuntimesOfInstances == Spec => []RuntimeOfInstance
<1>1. Inv => RuntimeOfInstance
  BY DEF Inv
<1> QED BY <1>1, Invariance, PTL

\* What runs has the settings of its rows, unless one of the requests that
\* change them found the instance idle while it ran or was being started.
THEOREM RunsAreConfigured == Spec => []RunsAsConfigured
<1>1. Inv => RunsAsConfigured
  BY DEF Inv
<1> QED BY <1>1, Invariance, PTL

=============================================================================
