----------------------------- MODULE Catalogue -----------------------------
(***************************************************************************)
(* The catalogue of the control plane: models, their files on the nodes,   *)
(* the trash, runtime environments and model instances, with every request *)
(* that writes these tables (server/src/domain/model_catalog.rs,           *)
(* model_files.rs, model_trash.rs, runtimes.rs, instances.rs).             *)
(*                                                                         *)
(* A request is a sequence of SQL statements, a step each, and most check  *)
(* first and write later, with a task for an agent in between: the row     *)
(* that was checked may have changed.  Reads of one request that commute   *)
(* with what others can do between them are one step.  A request can be    *)
(* cut between two steps, which also stands for an offline node, a name    *)
(* that is taken and every other error that has written nothing.           *)
(*                                                                         *)
(* How a task is leased and timed out is the subject of AgentTasks.  Here  *)
(* it is sent, performed once or not at all, and may be performed after it *)
(* timed out; the statuses of a file or of a trash item that differ only   *)
(* in how a task failed, or how far it got, are one.                       *)
(***************************************************************************)
EXTENDS Naturals

CONSTANTS
  Models, Files, Trash, Runtimes, Instances,  \* ids of rows, used once
  Places,   \* what a file row names: a node and a path on it
  Named,    \* the places that are taken as they are: custom paths
  Ops,      \* requests, each sent once: their number bounds a behaviour
  Scopes,   \* sets of kinds of requests, one of which is sent in a behaviour
  None

FileKinds == {"create_model", "create_model_file", "update_model_file",
              "verify_model_file", "delete_model_file", "delete_model",
              "create_trash", "cleanup_trash", "delete_trash"}
RuntimeKinds == {"create_runtime", "update_runtime", "check_runtime",
                 "delete_runtime"}
TaskKinds == {"start", "stop", "test"}
InstanceKinds == {"create_local", "create_external", "update_instance",
                  "check_instance", "delete_instance", "update_model"}
                   \cup TaskKinds
Kinds == FileKinds \cup RuntimeKinds \cup InstanceKinds

Nodes == {p[1] : p \in Places}
Rows == Models \cup Files \cup Trash \cup Runtimes \cup Instances

ASSUME CatalogueAssumption ==
  /\ Scopes \subseteq SUBSET Kinds
  /\ Named \subseteq Places
  /\ None \notin Rows \cup Places \cup Nodes \cup Kinds
  /\ Models \cap Files = {}  \* UUIDs
  \* There are ids for the rows that Init has.
  /\ {} \notin {Models, Files, Runtimes, Instances}

VARIABLES
  scope,    \* the kinds of requests of this behaviour
  disk,     \* the places where there is a file
  model,    \* models
  file,     \* model_files; seen is a history field: the place that was
            \* verified when the state became "verified"
  trash,    \* model_file_trash; gone: file_deleted_at is set
  runtime,  \* runtime_environments; rev counts the changes of its settings
  inst,     \* model_instances; rev counts the changes of its parameters
  up,       \* what the agent runs for an instance, and with which settings
  op,       \* the requests and the task of each
  mixed,    \* history: files whose place changed while a verification of
            \* another place was under way, or about to be
  moved,    \* history: files that were moved to another node
  offered,  \* history: files put into the trash while they are still listed
  untraced, \* history: files that were added to a model under deletion, or
            \* whose trash item was removed or is of an earlier place
  drifted   \* history: instances whose settings were changed by a request
            \* that had found them idle, since the agent last started them

world == <<disk, up>>
history == <<mixed, moved, offered, untraced, drifted>>
vars == <<scope, disk, model, file, trash, runtime, inst, up, op, mixed, moved,
          offered, untraced, drifted>>

NoModel == [state |-> "none", rev |-> 0]
NoFile == [state |-> "none", model |-> None, place |-> None,
           deleted |-> FALSE, seen |-> None]
NoTrash == [state |-> "none", file |-> None, place |-> None, gone |-> FALSE]
NoRuntime == [state |-> "none", node |-> None, ollama |-> FALSE, rev |-> 0]
NoInstance == [state |-> "none", local |-> FALSE, runtime |-> None,
               model |-> None, file |-> None, rev |-> 0]

\* The id of a new row: a UUID, it does not matter which.  The ids bound the
\* rows that are ever inserted.
HasFresh(S, table) == \E x \in S : table[x].state = "none"
Fresh(S, table) == CHOOSE x \in S : table[x].state = "none"

\* on, of: the rows a request is about; todo: the rows it still has to
\* handle, or found busy; was: a status it read; sees: the settings it read;
\* task: sent to an agent, performed by it, or over; due: it timed out.
Idle == [kind |-> None, pc |-> "idle", on |-> None, of |-> None,
         place |-> None, todo |-> {}, was |-> None, sees |-> None,
         task |-> "none", due |-> FALSE]
Ended == [Idle EXCEPT !.pc = "end"]

Pc == {"idle", "wait", "save", "queue", "look", "trash", "drop", "list",
       "write", "mark", "pend", "end"}
InstanceState == {"stopped", "starting", "running", "stopping", "failed"}
Settings == [runtime : Nat, model : Nat, own : Nat,
             place : Places \cup {None}, seen : Places \cup {None}]

ModelRows == [state : {"none", "live", "deleted"}, rev : Nat]
FileRows == [state : {"none", "verified", "verify_pending", "failed"},
             model : Models \cup {None}, place : Places \cup {None},
             deleted : BOOLEAN, seen : Places \cup {None}]
TrashRows == [state : {"none", "pending", "cleanup_pending", "cleaned",
                       "cleanup_failed", "deleted"},
              file : Files \cup {None}, place : Places \cup {None},
              gone : BOOLEAN]
RuntimeRows == [state : {"none", "usable", "offline", "deleted"},
                node : Nodes \cup {None}, ollama : BOOLEAN, rev : Nat]
InstanceRows == [state : InstanceState \cup {"none", "deleted"},
                 local : BOOLEAN, runtime : Runtimes \cup {None},
                 model : Models \cup {None}, file : Files \cup {None},
                 rev : Nat]
Requests == [kind : Kinds \cup {None}, pc : Pc, on : Rows \cup {None},
             of : Rows \cup {None}, place : Places \cup {None},
             todo : SUBSET Rows, was : InstanceState \cup {None},
             sees : Settings \cup {None},
             task : {"none", "sent", "ok", "failed", "over"}, due : BOOLEAN]

TypeOK ==
  /\ scope \in Scopes /\ disk \in SUBSET Places
  /\ model \in [Models -> ModelRows]
  /\ file \in [Files -> FileRows]
  /\ trash \in [Trash -> TrashRows]
  /\ runtime \in [Runtimes -> RuntimeRows]
  /\ inst \in [Instances -> InstanceRows]
  /\ up \in [Instances -> Settings \cup {None}]
  /\ op \in [Ops -> Requests]
  /\ mixed \in SUBSET Files /\ moved \in SUBSET Files
  /\ offered \in SUBSET Files /\ untraced \in SUBSET Files
  /\ drifted \in SUBSET Instances

\* A model with a verified file, a runtime that passed its check, and an
\* instance of both that was never started.
Init ==
  /\ scope \in Scopes
  /\ \E p \in Places :
       LET m == Fresh(Models, [x \in Models |-> NoModel])
           f == Fresh(Files, [x \in Files |-> NoFile])
           e == Fresh(Runtimes, [x \in Runtimes |-> NoRuntime])
           i == Fresh(Instances, [x \in Instances |-> NoInstance])
       IN
       /\ model = [x \in Models |-> IF x = m THEN [state |-> "live", rev |-> 0]
                                    ELSE NoModel]
       /\ file = [x \in Files |-> IF x = f
            THEN [state |-> "verified", model |-> m, place |-> p,
                  deleted |-> FALSE, seen |-> p] ELSE NoFile]
       /\ runtime = [x \in Runtimes |-> IF x = e
            THEN [state |-> "usable", node |-> p[1], ollama |-> FALSE,
                  rev |-> 0] ELSE NoRuntime]
       /\ inst = [x \in Instances |-> IF x = i
            THEN [state |-> "stopped", local |-> TRUE, runtime |-> e,
                  model |-> m, file |-> f, rev |-> 0] ELSE NoInstance]
  /\ disk = Places
  /\ trash = [x \in Trash |-> NoTrash]
  /\ up = [x \in Instances |-> None]
  /\ op = [o \in Ops |-> Idle]
  /\ mixed = {} /\ moved = {} /\ offered = {} /\ untraced = {}
  /\ drifted = {}

-----------------------------------------------------------------------------

Live(m) == model[m].state = "live"
FileRow(f) == file[f].state # "none"
InTrash(x) == trash[x].state \notin {"none", "deleted"}
TrashOf(f) == {x \in Trash : InTrash(x) /\ trash[x].file = f}
RuntimeRow(e) == runtime[e].state \notin {"none", "deleted"}
InstanceRow(i) == inst[i].state \notin {"none", "deleted"}

\* Mutant: an instance that is starting does not count.
BusyRunning(i) == inst[i].state \in {"running", "stopping"}

Busy(i) == inst[i].state \in {"running", "starting", "stopping"}

\* runtime_environment_usable
Usable(e) == runtime[e].state = "usable"

Go(o, next) == op' = [op EXCEPT ![o] = next]
At(o, kind, pc) == op[o].kind = kind /\ op[o].pc = pc
InFlight(o) == op[o].task \in {"sent", "ok", "failed"}
Finish(o) == op' = [op EXCEPT ![o] = IF InFlight(o)
                                     THEN [@ EXCEPT !.pc = "end"] ELSE Ended]
\* A request of a kind that this behaviour has arrives.
Arrives(o, kind) == op[o].pc = "idle" /\ kind \in scope

\* The requests whose first step is to have an agent look at something.
Ask(o, kind, on, of, place) ==
  Go(o, [Idle EXCEPT !.kind = kind, !.pc = "wait", !.on = on, !.of = of,
                     !.place = place, !.task = "sent"])

-----------------------------------------------------------------------------
(* Model files.  A place is verified before it is saved. *)

\* create_model: verify_model_file_before_save is its first step.
AskModel(o) ==
  /\ Arrives(o, "create_model")
  /\ \E p \in Places : Ask(o, "create_model", None, None, p)
  /\ UNCHANGED <<scope, world, model, file, trash, runtime, inst, history>>

\* create_model_file: so it is here, once the model was found.
AskFile(o) ==
  /\ Arrives(o, "create_model_file")
  /\ \E p \in Places, m \in Models :
       Live(m) /\ Ask(o, "create_model_file", m, None, p)
  /\ UNCHANGED <<scope, world, model, file, trash, runtime, inst, history>>

\* update_model_file: and here.  Whether the file exists shows at the end.
AskUpdate(o) ==
  /\ Arrives(o, "update_model_file")
  /\ \E p \in Places, f \in Files :
       FileRow(f) /\ Ask(o, "update_model_file", f, None, p)
  /\ UNCHANGED <<scope, world, model, file, trash, runtime, inst, history>>

Verified(m, p) == [state |-> "verified", model |-> m, place |-> p,
                   deleted |-> FALSE, seen |-> p]

\* create_model, after the verification: one transaction.
SaveModel(o) ==
  /\ At(o, "create_model", "save")
  /\ HasFresh(Models, model) /\ HasFresh(Files, file)
  /\ LET m == Fresh(Models, model)  f == Fresh(Files, file)
     IN /\ model' = [model EXCEPT ![m] = [state |-> "live", rev |-> 0]]
        /\ file' = [file EXCEPT ![f] = Verified(m, op[o].place)]
  /\ Finish(o)
  /\ UNCHANGED <<scope, world, trash, runtime, inst, history>>

\* A deletion of model m is past the point where it lists the files.
UnderDeletion(m) ==
  \/ model[m].state = "deleted"
  \/ \E o \in Ops : /\ op[o].kind = "delete_model" /\ op[o].on = m
                    /\ op[o].pc \in {"look", "trash"}

\* create_model_file: whether the model exists was checked before.
SaveFile(o) ==
  /\ At(o, "create_model_file", "save")
  /\ HasFresh(Files, file)
  /\ LET f == Fresh(Files, file)
     IN /\ file' = [file EXCEPT ![f] = Verified(op[o].on, op[o].place)]
        /\ untraced' = IF UnderDeletion(op[o].on) THEN untraced \cup {f}
                       ELSE untraced
  /\ Finish(o)
  /\ UNCHANGED <<scope, world, model, trash, runtime, inst, mixed, moved,
                 offered, drifted>>

\* A verification that will write the row of f is about to be sent, or under
\* way, and is of another place than p.
VerifiesOther(f, p) ==
  \E o \in Ops : /\ op[o].kind = "verify_model_file" /\ op[o].on = f
                 /\ op[o].pc = "queue" \/ InFlight(o)
                 /\ op[o].place # p

\* A deletion of f has read its place for the trash and not yet written it.
PlaceRead(f) == \E o \in Ops : op[o].pc = "trash" /\ op[o].of = f

\* Mutant: the new place is saved and the old verification kept.
SaveUpdateUnverified(o) ==
  /\ At(o, "update_model_file", "save")
  /\ LET f == op[o].on  p == op[o].place
     IN /\ file' = [file EXCEPT ![f].place = p]
        /\ mixed' = IF VerifiesOther(f, p) THEN mixed \cup {f} ELSE mixed
        /\ moved' = IF p[1] # file[f].place[1] THEN moved \cup {f} ELSE moved
        /\ untraced' = IF TrashOf(f) # {} \/ PlaceRead(f)
                       THEN untraced \cup {f} ELSE untraced
  /\ Finish(o)
  /\ UNCHANGED <<scope, world, model, trash, runtime, inst, offered, drifted>>

\* update_model_file: UPDATE ... WHERE id = ?, for a deleted row too.
SaveUpdate(o) ==
  /\ At(o, "update_model_file", "save")
  /\ LET f == op[o].on  p == op[o].place
     IN /\ file' = [file EXCEPT ![f].place = p, ![f].state = "verified",
                                ![f].seen = p]
        /\ mixed' = IF VerifiesOther(f, p) THEN mixed \cup {f} ELSE mixed
        /\ moved' = IF p[1] # file[f].place[1] THEN moved \cup {f} ELSE moved
        /\ untraced' = IF TrashOf(f) # {} \/ PlaceRead(f)
                       THEN untraced \cup {f} ELSE untraced
  /\ Finish(o)
  /\ UNCHANGED <<scope, world, model, trash, runtime, inst, offered, drifted>>

\* queue_model_file_verification reads the row ...
VerifyRead(o) ==
  /\ Arrives(o, "verify_model_file")
  /\ \E f \in Files :
       /\ FileRow(f) /\ ~ file[f].deleted
       /\ Go(o, [Idle EXCEPT !.kind = "verify_model_file", !.pc = "queue",
                             !.on = f, !.place = file[f].place])
  /\ UNCHANGED <<scope, world, model, file, trash, runtime, inst, history>>

\* ... and queues the task in one transaction with the status.
VerifyQueue(o) ==
  /\ At(o, "verify_model_file", "queue")
  /\ file' = [file EXCEPT ![op[o].on].state = "verify_pending",
                          ![op[o].on].seen = None]
  /\ Go(o, [op[o] EXCEPT !.pc = "end", !.task = "sent"])
  /\ UNCHANGED <<scope, world, model, trash, runtime, inst, history>>

-----------------------------------------------------------------------------
(* The trash.  ensure_model_file_trash is called by three requests.        *)

\* create_model_file_trash and delete_model_file start with it.
TrashAsk(o) ==
  /\ \E kind \in {"create_trash", "delete_model_file"}, f \in Files :
       /\ Arrives(o, kind) /\ FileRow(f)
       /\ Go(o, [Idle EXCEPT !.kind = kind, !.pc = "look", !.on = f,
                             !.todo = {f}])
  /\ UNCHANGED <<scope, world, model, file, trash, runtime, inst, history>>

\* delete_model: the instances that protect the model are counted ...
DeleteModelCount(o) ==
  /\ Arrives(o, "delete_model")
  /\ \E m \in Models :
       /\ ~ \E i \in Instances : /\ inst[i].model = m
                                 /\ inst[i].state \in {"starting", "running"}
       /\ Go(o, [Idle EXCEPT !.kind = "delete_model", !.pc = "list",
                             !.on = m])
  /\ UNCHANGED <<scope, world, model, file, trash, runtime, inst, history>>

Listed(m) == {f \in Files : file[f].model = m /\ ~ file[f].deleted}

\* ... then the model must exist, and its files are listed.
DeleteModelList(o) ==
  /\ At(o, "delete_model", "list")
  /\ IF Live(op[o].on)
     THEN Go(o, [op[o] EXCEPT !.pc = "look", !.todo = Listed(op[o].on)])
     ELSE Finish(o)
  /\ UNCHANGED <<scope, world, model, file, trash, runtime, inst, history>>

\* A request ends that put files into the trash without removing them from
\* the model.
Offers(o) ==
  offered' = IF op[o].pc \in {"look", "trash", "drop"}
             THEN offered \cup
                    {f \in Files : /\ TrashOf(f) # {}
                                   /\ \/ op[o].on = f
                                      \/ file[f].model = op[o].on}
             ELSE offered

\* Is there an item for the file?  If not, the row is read: it must not be
\* deleted, or the whole request ends here.
EnsureLook(o) ==
  /\ op[o].pc = "look"
  /\ \E f \in op[o].todo :
       IF TrashOf(f) # {}
       THEN /\ Go(o, [op[o] EXCEPT !.todo = @ \ {f}])
            /\ UNCHANGED offered
       ELSE IF file[f].deleted THEN Finish(o) /\ Offers(o)
       ELSE /\ Go(o, [op[o] EXCEPT !.pc = "trash", !.of = f,
                                   !.place = file[f].place])
            /\ UNCHANGED offered
  /\ UNCHANGED <<scope, world, model, file, trash, runtime, inst, mixed, moved,
                 untraced, drifted>>

EnsureInsert(o) ==
  /\ op[o].pc = "trash"
  /\ HasFresh(Trash, trash)
  /\ trash' = [trash EXCEPT ![Fresh(Trash, trash)] =
                 [state |-> "pending", file |-> op[o].of,
                  place |-> op[o].place, gone |-> FALSE]]
  /\ Go(o, [op[o] EXCEPT !.pc = "look", !.todo = @ \ {op[o].of}, !.of = None,
                         !.place = None])
  /\ UNCHANGED <<scope, world, model, file, runtime, inst, history>>

\* create_model_file_trash ends: the file stays listed.
TrashCreated(o) ==
  /\ At(o, "create_trash", "look") /\ op[o].todo = {}
  /\ Finish(o) /\ Offers(o)
  /\ UNCHANGED <<scope, world, model, file, trash, runtime, inst, mixed, moved,
                 untraced, drifted>>

\* delete_model_file: UPDATE model_files SET deleted_at.
DeleteFile(o) ==
  /\ At(o, "delete_model_file", "look") /\ op[o].todo = {}
  /\ file' = [file EXCEPT ![op[o].on].deleted = TRUE]
  /\ Finish(o)
  /\ UNCHANGED <<scope, world, model, trash, runtime, inst, history>>

\* Mutants: the instances are counted again, too late to undo the items; the
\* model is deleted before its files are handled.
DeleteModelRecount(o) ==
  /\ At(o, "delete_model", "look") /\ op[o].todo = {}
  /\ model' = IF \E i \in Instances : inst[i].model = op[o].on
              THEN model ELSE [model EXCEPT ![op[o].on].state = "deleted"]
  /\ Finish(o)
  /\ UNCHANGED <<scope, world, file, trash, runtime, inst, history>>
DeleteModelEarly(o) ==
  /\ At(o, "delete_model", "look")
  /\ model' = [model EXCEPT ![op[o].on].state = "deleted"]
  /\ Finish(o)
  /\ UNCHANGED <<scope, world, file, trash, runtime, inst, history>>

\* delete_model: UPDATE models SET deleted_at ... WHERE deleted_at IS NULL.
\* The rows of its files stay as they are.
DeleteModel(o) ==
  /\ At(o, "delete_model", "look") /\ op[o].todo = {}
  /\ model' = [model EXCEPT ![op[o].on].state =
                 IF @ = "live" THEN "deleted" ELSE @]
  /\ Finish(o)
  /\ UNCHANGED <<scope, world, file, trash, runtime, inst, history>>

\* cleanup_model_file_trash reads the item and sends the task, unless the
\* file is gone already, or fails it because the node is offline ...
CleanupSend(o) ==
  /\ Arrives(o, "cleanup_trash")
  /\ \E x \in Trash :
       /\ InTrash(x) /\ ~ trash[x].gone
       /\ \/ /\ Go(o, [Idle EXCEPT !.kind = "cleanup_trash", !.pc = "pend",
                                   !.on = x, !.place = trash[x].place,
                                   !.task = "sent"])
             /\ UNCHANGED trash
          \/ /\ trash' = [trash EXCEPT ![x].state = "cleanup_failed"]
             /\ Go(o, Ended)
  /\ UNCHANGED <<scope, world, model, file, runtime, inst, history>>

SetTrash(x, state) == [trash EXCEPT ![x].state = IF InTrash(x) THEN state
                                                  ELSE @]

\* ... and then marks the item, before it waits.
CleanupPending(o) ==
  /\ At(o, "cleanup_trash", "pend")
  /\ trash' = SetTrash(op[o].on, "cleanup_pending")
  /\ IF InFlight(o) /\ ~ op[o].due
     THEN Go(o, [op[o] EXCEPT !.pc = "wait"]) ELSE Finish(o)
  /\ UNCHANGED <<scope, world, model, file, runtime, inst, history>>

\* delete_model_file_trash
DeleteTrash(o) ==
  /\ Arrives(o, "delete_trash")
  /\ \E x \in Trash :
       /\ InTrash(x)
       /\ trash' = [trash EXCEPT ![x].state = "deleted"]
       /\ untraced' = untraced \cup {trash[x].file}
  /\ Go(o, Ended)
  /\ UNCHANGED <<scope, world, model, file, runtime, inst, mixed, moved,
                 offered, drifted>>

-----------------------------------------------------------------------------
(* Runtime environments. *)

NewRuntime(n, ollama) ==
  /\ HasFresh(Runtimes, runtime)
  /\ runtime' = [runtime EXCEPT ![Fresh(Runtimes, runtime)] =
                   [state |-> "usable", node |-> n, ollama |-> ollama,
                    rev |-> 0]]

\* create_runtime_environment: an ollama runtime is inserted at once, any
\* other is checked by the agent of the node first.
CreateRuntime(o) ==
  /\ Arrives(o, "create_runtime")
  /\ \E p \in Places :
       \/ /\ Ask(o, "create_runtime", None, None, p)
          /\ UNCHANGED runtime
       \/ NewRuntime(p[1], TRUE) /\ Go(o, Ended)
  /\ UNCHANGED <<scope, world, model, file, trash, inst, history>>

SaveRuntime(o) ==
  /\ At(o, "create_runtime", "save")
  /\ NewRuntime(op[o].place[1], FALSE)
  /\ Finish(o)
  /\ UNCHANGED <<scope, world, model, file, trash, inst, history>>

\* A start of i has read the settings and not yet taken effect.
StartsOf(i) == {o \in Ops : /\ op[o].kind = "start" /\ op[o].on = i
                            /\ op[o].pc = "queue" \/ InFlight(o)}

\* The settings of instances S change.  That reaches what runs if an instance
\* was not busy when the request looked, although the agent runs it, or was
\* about to be started.
Drifts(o, S) ==
  drifted' = drifted \cup {i \in S \ op[o].todo : up[i] # None
                                                 \/ StartsOf(i) # {}}

Uses(e) == {i \in Instances : InstanceRow(i) /\ inst[i].runtime = e}
BusyNow == {i \in Instances : inst[i].state \in {"running", "starting",
                                               "stopping"}}

\* update_runtime_environment: no instance of it may be busy ...
UpdateRuntimeCheck(o) ==
  /\ Arrives(o, "update_runtime")
  /\ \E e \in Runtimes :
       /\ RuntimeRow(e)
       /\ \A i \in Uses(e) : ~ Busy(i)
       /\ Go(o, [Idle EXCEPT !.kind = "update_runtime", !.pc = "write",
                             !.on = e, !.todo = BusyNow])
  /\ UNCHANGED <<scope, world, model, file, trash, runtime, inst, history>>

\* ... when the row is written.  The result of the last check is kept.
UpdateRuntimeWrite(o) ==
  /\ At(o, "update_runtime", "write")
  /\ LET e == op[o].on
     IN IF RuntimeRow(e)
        THEN \E ollama \in BOOLEAN :
               /\ runtime' = [runtime EXCEPT ![e].rev = @ + 1,
                                             ![e].ollama = ollama]
               /\ Drifts(o, Uses(e))
               /\ IF ollama
                  THEN Go(o, [op[o] EXCEPT !.pc = "mark", !.todo = {}])
                  ELSE Finish(o)
        ELSE Finish(o) /\ UNCHANGED <<runtime, drifted>>
  /\ UNCHANGED <<scope, world, model, file, trash, inst, mixed, moved, offered,
                 untraced>>

\* check_runtime_environment: the result is written later, by id.
CheckRuntime(o) ==
  /\ Arrives(o, "check_runtime")
  /\ \E e \in Runtimes :
       /\ RuntimeRow(e)
       /\ IF runtime[e].ollama
          THEN Go(o, [Idle EXCEPT !.kind = "check_runtime", !.pc = "mark",
                                  !.on = e])
          ELSE \/ Ask(o, "check_runtime", e, None, None)
               \/ Go(o, [Idle EXCEPT !.kind = "check_runtime", !.pc = "mark",
                                     !.on = e, !.was = "failed"])
  /\ UNCHANGED <<scope, world, model, file, trash, runtime, inst, history>>

\* update_runtime_environment_check, and the UPDATE after a check that was
\* passed.  A check that fails writes nothing.
MarkRuntime(o) ==
  /\ op[o].kind \in {"update_runtime", "check_runtime"}
  /\ op[o].pc \in {"mark", "save"}
  /\ LET e == op[o].on
     IN runtime' = [runtime EXCEPT ![e].state =
          IF ~ RuntimeRow(e) THEN @
          ELSE IF op[o].was = "failed" THEN "offline" ELSE "usable"]
  /\ Finish(o)
  /\ UNCHANGED <<scope, world, model, file, trash, inst, history>>

\* delete_runtime_environment counts the instances, running or not ...
DeleteRuntimeCount(o) ==
  /\ Arrives(o, "delete_runtime")
  /\ \E e \in Runtimes :
       /\ Uses(e) = {}
       /\ Go(o, [Idle EXCEPT !.kind = "delete_runtime", !.pc = "write",
                             !.on = e])
  /\ UNCHANGED <<scope, world, model, file, trash, runtime, inst, history>>

\* Mutant: the database does not enforce foreign keys.
DeleteRuntimeUnchecked(o) ==
  /\ At(o, "delete_runtime", "write")
  /\ LET e == op[o].on
     IN runtime' = [runtime EXCEPT ![e].state =
                      IF RuntimeRow(e) THEN "deleted" ELSE @]
  /\ Finish(o)
  /\ UNCHANGED <<scope, world, model, file, trash, inst, history>>

\* ... and deletes the row, which fails if an instance refers to it by now.
DeleteRuntime(o) ==
  /\ At(o, "delete_runtime", "write")
  /\ LET e == op[o].on
     IN runtime' = [runtime EXCEPT ![e].state =
                      IF RuntimeRow(e) /\ Uses(e) = {} THEN "deleted" ELSE @]
  /\ Finish(o)
  /\ UNCHANGED <<scope, world, model, file, trash, inst, history>>

-----------------------------------------------------------------------------
(* Models and instances. *)

\* update_model: as for a runtime.
UpdateModelCheck(o) ==
  /\ Arrives(o, "update_model")
  /\ \E m \in Models :
       /\ \A i \in Instances : inst[i].model = m => ~ Busy(i)
       /\ Go(o, [Idle EXCEPT !.kind = "update_model", !.pc = "write",
                             !.on = m, !.todo = BusyNow])
  /\ UNCHANGED <<scope, world, model, file, trash, runtime, inst, history>>

UpdateModelWrite(o) ==
  /\ At(o, "update_model", "write")
  /\ LET m == op[o].on
     IN IF Live(m)
        THEN /\ model' = [model EXCEPT ![m].rev = @ + 1]
             /\ Drifts(o, {i \in Instances : inst[i].model = m})
        ELSE UNCHANGED <<model, drifted>>
  /\ Finish(o)
  /\ UNCHANGED <<scope, world, file, trash, runtime, inst, mixed, moved,
                 offered, untraced>>

\* verified_model_file_for_instance
FileForInstance(f) == /\ f # None /\ FileRow(f) /\ ~ file[f].deleted
                      /\ file[f].state = "verified"

\* create_local_model_instance reads the runtime and the file ...
CreateLocalRead(o) ==
  /\ Arrives(o, "create_local")
  /\ \E e \in Runtimes, f \in Files \cup {None} :
       /\ Usable(e)
       /\ IF runtime[e].ollama THEN f = None
          ELSE FileForInstance(f) /\ file[f].place[1] = runtime[e].node
       /\ Go(o, [Idle EXCEPT !.kind = "create_local", !.pc = "save", !.on = e,
                             !.of = f])
  /\ UNCHANGED <<scope, world, model, file, trash, runtime, inst, history>>

NewInstance(state, local, e, m, f) ==
  /\ HasFresh(Instances, inst)
  /\ inst' = [inst EXCEPT ![Fresh(Instances, inst)] =
                [state |-> state, local |-> local, runtime |-> e, model |-> m,
                 file |-> f, rev |-> 0]]

\* ... and inserts the instance, if the runtime is still there.
CreateLocal(o) ==
  /\ At(o, "create_local", "save")
  /\ LET f == op[o].of
     IN \/ /\ ~ RuntimeRow(op[o].on) /\ UNCHANGED inst
        \/ /\ RuntimeRow(op[o].on)
           /\ NewInstance("stopped", TRUE, op[o].on,
                          IF f = None THEN None ELSE file[f].model, f)
  /\ Finish(o)
  /\ UNCHANGED <<scope, world, model, file, trash, runtime, history>>

\* create_model_instance of an external service: the model must be live.
CreateExternalRead(o) ==
  /\ Arrives(o, "create_external")
  /\ \E m \in Models \cup {None}, e \in Runtimes \cup {None} :
       /\ m # None => Live(m)
       /\ Go(o, [Idle EXCEPT !.kind = "create_external", !.pc = "save",
                             !.on = e, !.of = m])
  /\ UNCHANGED <<scope, world, model, file, trash, runtime, inst, history>>

\* Mutant: two columns are bound in the wrong order.
CreateExternalSwapped(o) ==
  /\ At(o, "create_external", "save")
  /\ \E s \in {"stopped", "running"} :
       NewInstance(s, FALSE, op[o].of, op[o].on, None)
  /\ Finish(o)
  /\ UNCHANGED <<scope, world, model, file, trash, runtime, history>>

\* Any status the request names, and any runtime that exists.
CreateExternal(o) ==
  /\ At(o, "create_external", "save")
  /\ LET e == op[o].on
     IN \/ /\ e # None /\ ~ RuntimeRow(e) /\ UNCHANGED inst
        \/ /\ e # None => RuntimeRow(e)
           /\ \E s \in {"stopped", "running"} :
                NewInstance(s, FALSE, e, op[o].of, None)
  /\ Finish(o)
  /\ UNCHANGED <<scope, world, model, file, trash, runtime, history>>

\* update_model_instance: the row is read, and must not be busy if more than
\* its status or its description is to change ...
UpdateInstanceRead(o) ==
  /\ Arrives(o, "update_instance")
  /\ \E i \in Instances :
       /\ InstanceRow(i) /\ (Busy(i) => ~ inst[i].local)
       /\ Go(o, [Idle EXCEPT !.kind = "update_instance", !.pc = "write",
                             !.on = i, !.was = inst[i].state,
                             !.todo = BusyNow])
  /\ UNCHANGED <<scope, world, model, file, trash, runtime, inst, history>>

\* ... and written by id; of an external instance the status too, to the one
\* in the request or the one that was read.
UpdateInstanceWrite(o) ==
  /\ At(o, "update_instance", "write")
  /\ LET i == op[o].on
     IN IF ~ InstanceRow(i) THEN UNCHANGED <<inst, drifted>>
        ELSE /\ Drifts(o, {i})
             /\ \E s \in IF inst[i].local THEN {inst[i].state}
                         ELSE {op[o].was, "stopped", "running"} :
                  inst' = [inst EXCEPT ![i].state = s,
                             ![i].rev = IF i \in op[o].todo THEN @ ELSE @ + 1]
  /\ Finish(o)
  /\ UNCHANGED <<scope, world, model, file, trash, runtime, mixed, moved,
                 offered, untraced>>

\* delete_model_instance
DeleteInstanceRead(o) ==
  /\ Arrives(o, "delete_instance")
  /\ \E i \in Instances :
       /\ InstanceRow(i) /\ ~ Busy(i)
       /\ Go(o, [Idle EXCEPT !.kind = "delete_instance", !.pc = "write",
                             !.on = i])
  /\ UNCHANGED <<scope, world, model, file, trash, runtime, inst, history>>

DeleteInstance(o) ==
  /\ At(o, "delete_instance", "write")
  /\ inst' = [inst EXCEPT ![op[o].on].state = "deleted"]
  /\ Finish(o)
  /\ UNCHANGED <<scope, world, model, file, trash, runtime, history>>

\* update_instance_check: by id.
SetInstance(i, state) ==
  inst' = [inst EXCEPT ![i].state = IF InstanceRow(i) THEN state ELSE @]

\* check_model_instance, when it is not left to the agent: of an external
\* instance the URL is tried, of a local one whose node is offline the status
\* that was read is written back.
CheckInstanceRead(o) ==
  /\ Arrives(o, "check_instance")
  /\ \E i \in Instances :
       /\ InstanceRow(i)
       /\ inst[i].local => inst[i].state = "running" \/ inst[i].file = None
       /\ Go(o, [Idle EXCEPT !.kind = "check_instance", !.pc = "write",
                             !.on = i, !.was = inst[i].state])
  /\ UNCHANGED <<scope, world, model, file, trash, runtime, inst, history>>

CheckInstance(o) ==
  /\ At(o, "check_instance", "write")
  /\ \E s \in IF inst[op[o].on].local THEN {op[o].was}
              ELSE {"running", "failed"} : SetInstance(op[o].on, s)
  /\ Finish(o)
  /\ UNCHANGED <<scope, world, model, file, trash, runtime, history>>

\* The settings a task of instance i carries.
SettingsOf(i) ==
  LET f == IF runtime[inst[i].runtime].ollama THEN None ELSE inst[i].file
  IN [runtime |-> runtime[inst[i].runtime].rev,
      model |-> IF inst[i].model = None THEN 0 ELSE model[inst[i].model].rev,
      own |-> inst[i].rev,
      place |-> IF f = None THEN None ELSE file[f].place,
      seen |-> IF f = None THEN None ELSE file[f].seen]

\* Mutant: the file need not be verified any more.
RunReadAnyFile(o) ==
  /\ \E k \in TaskKinds, i \in Instances :
       /\ Arrives(o, k)
       /\ InstanceRow(i) /\ inst[i].local /\ Usable(inst[i].runtime)
       /\ ~ runtime[inst[i].runtime].ollama => inst[i].file # None
       /\ k = "test" => inst[i].state = "running"
       /\ Go(o, [Idle EXCEPT !.kind = k, !.pc = "queue", !.on = i,
                             !.sees = SettingsOf(i)])
  /\ UNCHANGED <<scope, world, model, file, trash, runtime, inst, history>>

\* run_local_instance_task, for a start, a stop, a test or a check: a stop
\* needs a usable runtime and a verified file as well.  An instance that was
\* created without a file is of an ollama runtime.
RunRead(o) ==
  /\ \E k \in TaskKinds, i \in Instances :
       /\ Arrives(o, k)
       /\ InstanceRow(i) /\ inst[i].local /\ Usable(inst[i].runtime)
       /\ runtime[inst[i].runtime].ollama \/ FileForInstance(inst[i].file)
       /\ k = "test" => inst[i].state = "running" \/ inst[i].file = None
       /\ Go(o, [Idle EXCEPT !.kind = k, !.pc = "queue", !.on = i,
                             !.sees = SettingsOf(i)])
  /\ UNCHANGED <<scope, world, model, file, trash, runtime, inst, history>>

\* The task and the status, in one transaction.
RunQueue(o) ==
  /\ op[o].kind \in TaskKinds /\ op[o].pc = "queue"
  /\ SetInstance(op[o].on, CASE op[o].kind = "start" -> "starting"
                             [] op[o].kind = "stop"  -> "stopping"
                             [] op[o].kind = "test"  -> "running")
  /\ Go(o, [op[o] EXCEPT !.pc = "wait", !.task = "sent"])
  /\ UNCHANGED <<scope, world, model, file, trash, runtime, history>>

-----------------------------------------------------------------------------
(* Tasks and agents. *)

VerifyKinds == {"create_model", "create_model_file", "update_model_file",
                "verify_model_file"}

\* verify_model_file_with_hint: a custom path passes without a file.
Verifies(p, ok) == ok => p \in disk \cup Named

\* cleanup_model_file, of a file that is there.
Cleans(p, ok) == /\ ok => p \in disk
                 /\ disk' = IF ok THEN disk \ {p} ELSE disk

\* What the agent runs for instance i after a task of a kind.
Operates(kind, i, ok, settings) ==
  /\ kind = "test" => ok = (up[i] # None)
  /\ up' = IF ~ ok THEN up
           ELSE CASE kind = "start" -> [up EXCEPT ![i] = settings]
                  [] kind = "stop"  -> [up EXCEPT ![i] = None]
                  [] OTHER          -> up

\* The agent carries out the task; any task may fail.
Perform(o) ==
  /\ op[o].task = "sent"
  /\ \E ok \in BOOLEAN :
       LET kind == op[o].kind  i == op[o].on
       IN /\ kind \in VerifyKinds => Verifies(op[o].place, ok)
          /\ IF kind = "cleanup_trash" THEN Cleans(op[o].place, ok)
             ELSE UNCHANGED disk
          /\ IF kind \in TaskKinds THEN Operates(kind, i, ok, op[o].sees)
             ELSE UNCHANGED up
          /\ drifted' = IF kind = "start" /\ ok /\ StartsOf(i) = {o}
                           /\ InstanceRow(i) /\ op[o].sees = SettingsOf(i)
                        THEN drifted \ {i} ELSE drifted
          /\ Go(o, [op[o] EXCEPT !.task = IF ok THEN "ok" ELSE "failed"])
  /\ UNCHANGED <<scope, model, file, trash, runtime, inst, mixed, moved,
                 offered, untraced>>

\* record_agent_task_result, by the kind of the task: the row is written by
\* id, whatever has happened to it or to the task.
RecordRow(o, ok) ==
  LET x == op[o].on
  IN CASE op[o].kind = "verify_model_file" ->
            /\ file' = [file EXCEPT
                 ![x].state = IF ok THEN "verified" ELSE "failed",
                 ![x].seen = IF ok THEN op[o].place ELSE None]
            /\ UNCHANGED <<trash, inst>>
       [] op[o].kind = "cleanup_trash" ->
            /\ trash' = IF ~ InTrash(x) THEN trash
                 ELSE [trash EXCEPT ![x].gone = @ \/ ok,
                         ![x].state = IF ok THEN "cleaned"
                                      ELSE "cleanup_failed"]
            /\ UNCHANGED <<file, inst>>
       [] op[o].kind \in TaskKinds ->
            /\ SetInstance(x, IF ~ ok THEN "failed"
                              ELSE IF op[o].kind = "stop" THEN "stopped"
                              ELSE "running")
            /\ UNCHANGED <<file, trash>>
       [] OTHER -> UNCHANGED <<file, trash, inst>>

SavingKinds == {"create_model", "create_model_file", "update_model_file",
                "create_runtime", "check_runtime"}

\* The result arrives, and the request that waits for it goes on.
Report(o) ==
  /\ op[o].task \in {"ok", "failed"}
  /\ RecordRow(o, op[o].task = "ok")
  /\ Go(o, IF op[o].pc = "pend" THEN [op[o] EXCEPT !.task = "over"]
           ELSE IF /\ op[o].pc = "wait" /\ op[o].task = "ok"
                   /\ op[o].kind \in SavingKinds
           THEN [op[o] EXCEPT !.pc = "save", !.task = "over"]
           ELSE Ended)
  /\ UNCHANGED <<scope, world, model, runtime, history>>

\* The task times out, in the request or in a sweep, and its row is failed.
\* Only what writes a row or changes a node is of interest afterwards.
TimeOut(o) ==
  /\ InFlight(o) /\ ~ op[o].due
  /\ RecordRow(o, FALSE)
  /\ Go(o, IF op[o].kind \in SavingKinds THEN Ended
           ELSE [op[o] EXCEPT !.due = TRUE,
                              !.pc = IF @ = "pend" THEN @ ELSE "end"])
  /\ UNCHANGED <<scope, world, model, runtime, history>>

\* The agent never gets a task that timed out, or its result is lost.
Lose(o) ==
  /\ InFlight(o) /\ op[o].due
  /\ Go(o, IF op[o].pc = "pend" THEN [op[o] EXCEPT !.task = "over"]
           ELSE Ended)
  /\ UNCHANGED <<scope, world, model, file, trash, runtime, inst, history>>

\* The request is dropped at an await, or one of its statements fails.
Cut(o) ==
  /\ op[o].pc \notin {"idle", "end"}
  /\ Finish(o) /\ Offers(o)
  /\ UNCHANGED <<scope, world, model, file, trash, runtime, inst, mixed, moved,
                 untraced, drifted>>

\* What runs for an instance ends by itself.
Exit(i) ==
  /\ up[i] # None
  /\ up' = [up EXCEPT ![i] = None]
  /\ UNCHANGED <<scope, disk, model, file, trash, runtime, inst, op, history>>

\* reconcile_managed_instances, of a heartbeat that is up to date.
Heartbeat ==
  /\ inst' = [i \in Instances |->
       IF ~ InstanceRow(i) \/ ~ inst[i].local \/ inst[i].file = None
       THEN inst[i]
       ELSE IF up[i] # None THEN [inst[i] EXCEPT !.state = "running"]
       ELSE IF Busy(i) THEN [inst[i] EXCEPT !.state = "failed"] ELSE inst[i]]
  /\ UNCHANGED <<scope, world, model, file, trash, runtime, op, history>>

-----------------------------------------------------------------------------

ModelSteps(o) ==
  \/ AskModel(o) \/ SaveModel(o) \/ UpdateModelCheck(o) \/ UpdateModelWrite(o)
  \/ DeleteModelCount(o) \/ DeleteModelList(o) \/ DeleteModel(o)

FileSteps(o) ==
  \/ AskFile(o) \/ SaveFile(o) \/ AskUpdate(o) \/ SaveUpdate(o)
  \/ VerifyRead(o) \/ VerifyQueue(o) \/ TrashAsk(o) \/ DeleteFile(o)

TrashSteps(o) ==
  \/ EnsureLook(o) \/ EnsureInsert(o) \/ TrashCreated(o)
  \/ CleanupSend(o) \/ CleanupPending(o) \/ DeleteTrash(o)

RuntimeSteps(o) ==
  \/ CreateRuntime(o) \/ SaveRuntime(o) \/ UpdateRuntimeCheck(o)
  \/ UpdateRuntimeWrite(o) \/ CheckRuntime(o) \/ MarkRuntime(o)
  \/ DeleteRuntimeCount(o) \/ DeleteRuntime(o)

InstanceSteps(o) ==
  \/ CreateLocalRead(o) \/ CreateLocal(o)
  \/ CreateExternalRead(o) \/ CreateExternal(o)
  \/ UpdateInstanceRead(o) \/ UpdateInstanceWrite(o)
  \/ DeleteInstanceRead(o) \/ DeleteInstance(o)
  \/ CheckInstanceRead(o) \/ CheckInstance(o)
  \/ RunRead(o) \/ RunQueue(o)

Next ==
  \/ \E o \in Ops : \/ ModelSteps(o) \/ FileSteps(o) \/ TrashSteps(o)
                    \/ RuntimeSteps(o) \/ InstanceSteps(o)
                    \/ Perform(o) \/ Report(o) \/ TimeOut(o) \/ Lose(o)
                    \/ Cut(o)
  \/ \E i \in Instances : Exit(i)
  \/ Heartbeat

Spec == Init /\ [][Next]_vars

-----------------------------------------------------------------------------
(* Properties. *)

\* A file row says verified only of a place whose verification succeeded,
\* unless its place changed during a verification: the result is written by
\* the id of the row, and verify_task_id is never compared.
VerifiedNamesPath ==
  \A f \in Files : file[f].state = "verified" /\ file[f].seen # file[f].place
                     => f \in mixed

\* An agent runs an instance only from a place that was verified when the
\* start was asked for, and that is on its own node: whether a file is on the
\* node of the runtime is only looked at when the instance is created, so a
\* file that is moved afterwards escapes it.
StartsVerified ==
  \A i \in Instances :
    up[i] # None /\ up[i].place # None =>
      /\ up[i].place = up[i].seen \/ inst[i].file \in mixed
      /\ \/ up[i].place[1] = runtime[inst[i].runtime].node
         \/ inst[i].file \in moved

\* The place of a file that was removed, alone or with its model, can be
\* found in the trash, unless somebody emptied the trash, the place was
\* changed after the item was made, or the file came too late for the
\* deletion of the model to see it.
DeletedInTrash ==
  \A f \in Files :
    FileRow(f) /\ (file[f].deleted \/ model[file[f].model].state = "deleted")
      => \/ \E x \in TrashOf(f) : trash[x].place = file[f].place
         \/ f \in untraced

\* A request that puts files into the trash has not ended.
BeingTrashed(f) ==
  \E o \in Ops : /\ op[o].pc \in {"look", "trash"}
                 /\ op[o].on \in {f, file[f].model}

\* What can be cleaned up is no longer listed, unless it was put there while
\* it stays listed, by a request for just that or one that did not finish.
TrashOfDeleted ==
  \A x \in Trash :
    LET f == trash[x].file
    IN InTrash(x) => \/ file[f].deleted
                     \/ model[file[f].model].state = "deleted"
                     \/ BeingTrashed(f) \/ f \in offered

\* No instance refers to a runtime that is gone.  The count in
\* delete_runtime_environment and the check in create_model_instance are both
\* stale when used: only the foreign key decides.
RuntimeOfInstance ==
  \A i \in Instances : InstanceRow(i) /\ inst[i].runtime # None
                          => RuntimeRow(inst[i].runtime)

\* What runs has the settings of the database, unless a change found the
\* instance idle while it ran, or overlapped its start.
RunsAsConfigured ==
  \A i \in Instances :
    InstanceRow(i) /\ up[i] # None =>
      \/ LET now == SettingsOf(i)
         IN /\ up[i].runtime = now.runtime /\ up[i].model = now.model
            /\ up[i].own = now.own
      \/ i \in drifted

-----------------------------------------------------------------------------
(* The inductive invariant. *)

\* Ids that are not in use have left no trace.
Unused ==
  /\ \A m \in Models : model[m].state = "none" => model[m].rev = 0
  /\ \A f \in Files : ~ FileRow(f) => file[f].model = None /\ ~ file[f].deleted
  /\ \A e \in Runtimes : runtime[e].state = "none" => runtime[e].rev = 0
  /\ \A i \in Instances : up[i] # None => /\ inst[i].state # "none"
                                          /\ inst[i].local

\* What a row refers to was there.
Filled ==
  /\ \A f \in Files : FileRow(f) => /\ file[f].model \in Models
                                    /\ file[f].place \in Places
  /\ \A x \in Trash : InTrash(x) => /\ trash[x].file \in Files
                                     /\ FileRow(trash[x].file)
  /\ \A i \in Instances : inst[i].state # "none" =>
       /\ inst[i].local \/ inst[i].file # None => inst[i].runtime \in Runtimes
       /\ inst[i].runtime # None => runtime[inst[i].runtime].state # "none"
       /\ inst[i].file # None => FileRow(inst[i].file)

\* A file is on the node of the instances that were created with it.
SameNode(f, e) == file[f].place[1] = runtime[e].node \/ f \in moved
Sited == \A i \in Instances : inst[i].state # "none" /\ inst[i].file # None
                                => SameNode(inst[i].file, inst[i].runtime)

\* A file is accounted for when it leaves the catalogue, and every item is of
\* the place where its file is.
Kept(f) == TrashOf(f) # {} \/ f \in untraced
Gone(f) == file[f].deleted \/ model[file[f].model].state = "deleted"
GoneAreKept == \A f \in Files : FileRow(f) /\ Gone(f) => Kept(f)
SamePlace(f, p) == p = file[f].place \/ f \in untraced
ItemsAreOfFiles ==
  \A x \in Trash : InTrash(x) => SamePlace(trash[x].file, trash[x].place)

\* The rows a request names are of its kind, and were there.
Names(r) ==
  /\ r.kind \in {"create_model_file", "delete_model", "update_model"}
       => r.on \in Models
  /\ r.kind \in {"update_model_file", "verify_model_file", "create_trash",
                 "delete_model_file"} => r.on \in Files /\ FileRow(r.on)
  /\ r.kind = "cleanup_trash" => r.on \in Trash
  /\ r.kind \in {"update_runtime", "check_runtime", "create_local"}
       => r.on \in Runtimes /\ runtime[r.on].state # "none"
  /\ r.kind = "delete_runtime" => r.on \in Runtimes
  /\ r.kind \in TaskKinds \cup {"update_instance", "delete_instance",
                              "check_instance"}
       => r.on \in Instances /\ inst[r.on].state # "none"

\* What else it has read or been given.
Holds(r) ==
  /\ r.kind \in {"create_model", "create_model_file", "update_model_file",
                 "verify_model_file", "create_runtime"} => r.place \in Places
  /\ r.kind = "create_local" /\ r.of # None =>
       r.of \in Files /\ FileRow(r.of) /\ SameNode(r.of, r.on)
  /\ r.kind = "create_external" => /\ r.on \in Runtimes \cup {None}
                                   /\ r.of \in Models \cup {None}
  /\ r.kind \in {"update_instance", "check_instance"}
       => r.was \in InstanceState
  /\ r.kind \in TaskKinds => inst[r.on].local /\ r.sees \in Settings

\* A request that found an instance busy does not go on to change the runtime
\* or the model of that one.
Excludes(r) ==
  /\ r.kind = "update_runtime" => \A i \in Instances \cap r.todo :
       inst[i].state # "none" /\ inst[i].runtime # r.on
  /\ r.kind = "update_model" => \A i \in Instances \cap r.todo :
       inst[i].state # "none" /\ inst[i].model # r.on

\* A task is about to be sent, or under way.
Open(r) == r.pc = "queue" \/ r.task \in {"sent", "ok", "failed"}
Verifying(r) == r.kind = "verify_model_file" /\ Open(r)
                  => r.place = file[r.on].place \/ r.on \in mixed

\* Settings that may be run for an instance, and those it has now.
Proper(i, s) ==
  s.place # None =>
    /\ s.place = s.seen \/ inst[i].file \in mixed
    /\ \/ s.place[1] = runtime[inst[i].runtime].node
       \/ inst[i].file \in moved
Current(i, s) ==
  LET now == SettingsOf(i)
  IN s.runtime = now.runtime /\ s.model = now.model /\ s.own = now.own
Starting(r) ==
  r.kind = "start" /\ Open(r) =>
    /\ Proper(r.on, r.sees)
    /\ InstanceRow(r.on) => Current(r.on, r.sees) \/ r.on \in drifted

\* A request that fills the trash has an item for every file it is about, or
\* still has the file to handle.
About(r, f) == r.on \in {f, file[f].model}
Trashing(r) ==
  /\ r.pc \in {"list", "look", "trash"} => r.task = "none"
  /\ r.pc \in {"look", "trash"} =>
       /\ r.kind \in {"create_trash", "delete_model_file", "delete_model"}
       /\ r.kind = "delete_model" => model[r.on].state # "none"
       /\ \A f \in r.todo : f \in Files /\ FileRow(f) /\ About(r, f)
       /\ \A f \in Files : FileRow(f) /\ About(r, f)
                           => f \in r.todo \/ Kept(f)
       /\ r.pc = "trash" => r.of \in r.todo /\ SamePlace(r.of, r.place)

Fits(r) == /\ Names(r) /\ Holds(r) /\ Excludes(r) /\ Verifying(r)
           /\ Starting(r) /\ Trashing(r)

Inv ==
  /\ TypeOK /\ Unused /\ Filled /\ Sited /\ GoneAreKept /\ ItemsAreOfFiles
  /\ VerifiedNamesPath /\ TrashOfDeleted /\ RuntimeOfInstance
  /\ StartsVerified /\ RunsAsConfigured
  /\ \A o \in Ops : Fits(op[o])

=============================================================================
