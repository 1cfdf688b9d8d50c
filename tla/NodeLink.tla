------------------------------ MODULE NodeLink ------------------------------
(***************************************************************************)
(* How an agent and the control plane keep in touch: registration and its  *)
(* token, the heartbeat with its inventory of GPUs, the policies that      *)
(* configure agents, and the registry of the collectors an agent may run.  *)
(* Agent: heartbeat.rs, state.rs, client.rs, gpu/mod.rs, collector/, and   *)
(* the poll loop of tasks/mod.rs; server: the node, policy and registry    *)
(* functions of repository.rs with their handlers in routes.rs.            *)
(*                                                                         *)
(* The agent's two loops send their requests one after the other.  Every   *)
(* SQL statement of a handler is a step; a registration and a heartbeat    *)
(* are recorded in a transaction each.  A connection may break, and the    *)
(* agent may restart, at any time; a request that was under way is then    *)
(* lost, or the server carries it out later.  Managed instances, which a   *)
(* heartbeat reports too, are the subject of AgentTasks and ManagedProcess.*)
(***************************************************************************)
EXTENDS Naturals, FiniteSets

CONSTANTS
  Agents,       \* installations of the agent
  NodeIds,      \* ids of rows of nodes
  Savers,       \* requests that save a policy
  Values,       \* what a policy can set a field to
  Fields,       \* the fields of a policy
  Collectors,   \* collector directories of an agent
  Gpus,         \* devices of an agent
  CollectorOf,  \* the collector that finds a device
  Scopes,       \* bounds, one of which holds in each behaviour: agents, and
                \* ident, the node_name and hostname each is started with;
                \* faults on restarts and broken connections; saves on saved
                \* policies; changes on devices, scripts and registrations;
                \* seconds on the time that passes;
                \* root on whether collector_root is configured,
                \* and tasks on whether the task loop runs
  Truncated,    \* the contents of a state file that does not parse
  None

Loops == {"heartbeat", "tasks"}
Hashes == 1 .. 2         \* contents of a script
Global == "global"       \* the policy of all nodes
AGENT_CONFIG_VERSION == 1
Entry == [on : BOOLEAN, hash : Hashes] \cup {None}
Registries == [Collectors -> Entry]
EmptyRegistry == [c \in Collectors |-> None]
Policies == [Fields -> Values \cup {None}]
NoPolicy == [f \in Fields |-> None]

NodeRows(s) == [of : {s.ident[a] : a \in Agents}, tok : Nat,
                ver : Nat \cup {None}]
GpuRows == [missing : BOOLEAN, at : Nat]

\* There is always an id left for a new node.
ASSUME LinkAssumption ==
  /\ CollectorOf \in [Gpus -> Collectors]
  /\ IsFiniteSet(Agents) /\ IsFiniteSet(NodeIds)
  /\ Cardinality(Agents) <= Cardinality(NodeIds)
  /\ \A s \in Scopes : /\ s.agents \subseteq Agents
                       /\ DOMAIN s.ident = Agents
                       /\ s.faults \in Nat /\ s.saves \in Nat
                       /\ s.changes \in Nat /\ s.seconds \in Nat
                       /\ s.root \in BOOLEAN
                       /\ s.tasks \in BOOLEAN
                       /\ None \notin NodeRows(s)
  /\ None \notin NodeIds \cup Values \cup {Truncated} \cup GpuRows

VARIABLES
  scope,      \* the bounds of this behaviour
  nodes,      \* nodes: who registered, the token, and the version of the
              \* configuration the last heartbeat reported (node_status)
  pol,        \* agent_config_policies: a policy and its version, or None
  registry,   \* collector_registry
  gpu,        \* gpu_status of each node: status and updated_at, or None
  save,       \* the savers: None, or the version read
  file,       \* agent.state: None, Truncated, or a node id and a token
  conf,       \* the agent's RuntimeConfig: a version and the settings
  cache,      \* its collector_registry
  loop,       \* the agent's loops, with the requests they send
  late,       \* requests of a broken connection that the server still has
  there,      \* devices that are plugged in
  script,     \* the contents of the scripts of a collector
  clock,      \* seconds, the same everywhere
  faults, saves, changes, \* how many there were
  last,       \* history: the last heartbeat recorded for a node
  gone,       \* history: devices that were not there at some time
  hidden,     \* history: devices that their collector did not report,
              \* though it did not fail either
  vetted,     \* history: scripts that were registered and enabled once
  ran,        \* history: the scripts run in this cycle
  overtaken   \* history: a save took a policy's version back

serverVars == <<nodes, pol, registry, gpu, save>>
worldVars == <<there, script, clock>>
countVars == <<scope, faults, saves, changes>>
historyVars == <<last, gone, hidden, vetted, ran, overtaken>>
vars == <<scope, nodes, pol, registry, gpu, save, file, conf, cache, loop,
          late, there, script, clock, faults, saves, changes, last, gone,
          hidden, vetted, ran, overtaken>>

-----------------------------------------------------------------------------
(* A request and what the loop that sends it has found out so far: pc, the *)
(* next step; id and tok from the state file; ver, the version to report;  *)
(* again, after a 401; reg, the registry in use; allowed, the collectors   *)
(* that the scan allows; gpus, err and at, the report; listed, the         *)
(* registry, and g, n and v, the policies and the version, to answer with. *)

Pc == {"start", "register", "truncate", "write", "fetch", "scan", "run",
       "send", "record", "list", "global", "node", "global_version",
       "node_version", "apply"}
Idle == [pc |-> "start", id |-> None, tok |-> 0, ver |-> 0, again |-> FALSE,
         reg |-> EmptyRegistry, allowed |-> {}, gpus |-> {}, err |-> FALSE,
         at |-> 0, listed |-> EmptyRegistry, g |-> NoPolicy, n |-> NoPolicy,
         v |-> 0]
Request == [pc : Pc, id : NodeIds \cup {None}, tok : Nat, ver : Nat,
            again : BOOLEAN, reg : Registries, allowed : SUBSET Collectors,
            gpus : SUBSET Gpus, err : BOOLEAN, at : Nat, listed : Registries,
            g : Policies, n : Policies, v : Nat]
OnServer == {"register", "send", "record"}  \* requests that change the server

TypeOK ==
  /\ scope \in Scopes
  /\ nodes \in [NodeIds -> NodeRows(scope) \cup {None}]
  /\ pol \in [NodeIds \cup {Global} -> [set : Policies, ver : Nat] \cup {None}]
  /\ registry \in Registries
  /\ gpu \in [NodeIds -> [Gpus -> GpuRows \cup {None}]]
  /\ save \in [Savers -> Nat \cup {None}]
  /\ file \in [Agents -> [id : NodeIds, tok : Nat] \cup {None, Truncated}]
  /\ conf \in [Agents -> [ver : Nat, set : Policies]]
  /\ cache \in [Agents -> Registries]
  /\ loop \in [Agents -> [Loops -> Request]]
  /\ late \subseteq [agent : Agents, rq : Request]
  /\ there \subseteq Gpus /\ script \in [Collectors -> Hashes]
  /\ clock \in 0 .. scope.seconds
  /\ faults \in Nat /\ saves \in Nat /\ changes \in Nat
  /\ last \in [NodeIds -> [gpus : SUBSET Gpus, err : BOOLEAN, at : Nat,
                          ordered : BOOLEAN] \cup {None}]
  /\ gone \subseteq Gpus /\ hidden \subseteq Gpus
  /\ vetted \subseteq Collectors \X Hashes
  /\ ran \in [Agents -> SUBSET (Collectors \X Hashes)]
  /\ overtaken \in BOOLEAN

Init ==
  /\ scope \in Scopes
  /\ nodes = [i \in NodeIds |-> None]
  /\ pol = [p \in NodeIds \cup {Global} |-> None]
  /\ registry = EmptyRegistry
  /\ gpu = [i \in NodeIds |-> [d \in Gpus |-> None]]
  /\ save = [s \in Savers |-> None]
  /\ file = [a \in Agents |-> None]
  /\ conf = [a \in Agents |-> [ver |-> 0, set |-> NoPolicy]]
  /\ cache = [a \in Agents |-> EmptyRegistry]
  /\ loop = [a \in Agents |-> [l \in Loops |-> Idle]]
  /\ late = {}
  /\ there = Gpus /\ script = [c \in Collectors |-> 1]
  /\ clock = 0
  /\ faults = 0 /\ saves = 0 /\ changes = 0
  /\ last = [i \in NodeIds |-> None]
  /\ gone = {} /\ hidden = {}
  /\ vetted = {}
  /\ ran = [a \in Agents |-> {}]
  /\ overtaken = FALSE

Step(a, l, next) == loop' = [loop EXCEPT ![a][l] = next]
At(a, l, pc) == a \in scope.agents /\ loop[a][l].pc = pc

-----------------------------------------------------------------------------
(* Registration. *)

\* Tokens are drawn at random and compared for equality: any that is not in
\* use stands for a new one.
FreshToken ==
  LET used == {nodes[i].tok : i \in {j \in NodeIds : nodes[j] # None}}
              \cup {file[a].tok : a \in {b \in Agents :
                                           file[b] \notin {None, Truncated}}}
              \cup {loop[a][l].tok : a \in Agents, l \in Loops}
              \cup {q.rq.tok : q \in late}
  IN CHOOSE t \in 1 .. Cardinality(used) + 1 : t \notin used

Known == {i \in NodeIds : nodes[i] # None}

\* try_register: the name belongs to another host, or the host to another
\* name.
Rejects(who) ==
  \E i \in Known : (nodes[i].of.name = who.name) # (nodes[i].of.host = who.host)

\* The node of that name on that host, if there is one.
NodeOf(who) == {i \in Known : nodes[i].of = who}

\* That node's id, or a new one.
IdFor(who) == IF NodeOf(who) # {} THEN CHOOSE i \in NodeOf(who) : TRUE
              ELSE CHOOSE i \in NodeIds : nodes[i] = None

\* register_node: a transaction, which fails if another write came between
\* its reads and its own.  The old token is no longer valid afterwards.
RegisterNode(who, tok) ==
  LET i == IdFor(who)
      ver == IF i \in Known THEN nodes[i].ver ELSE None
  IN nodes' = [nodes EXCEPT ![i] = [of |-> who, tok |-> tok, ver |-> ver]]

\* authenticate_node.
Authentic(id, tok) == nodes[id] # None /\ nodes[id].tok = tok

\* any_node_with_token.
AnyNodeWithToken(tok) == \E i \in Known : nodes[i].tok = tok

\* run_once of the heartbeat loop: the state file, or a registration if
\* there is none.  A file that does not parse ends every cycle here.
CycleLoad(a) ==
  /\ At(a, "heartbeat", "start")
  /\ file[a] # Truncated
  /\ Step(a, "heartbeat",
          IF file[a] = None
          THEN [Idle EXCEPT !.pc = "register", !.ver = conf[a].ver]
          ELSE [Idle EXCEPT !.pc = "fetch", !.ver = conf[a].ver,
                            !.id = file[a].id, !.tok = file[a].tok])
  /\ ran' = [ran EXCEPT ![a] = {}]
  /\ UNCHANGED <<serverVars, file, conf, cache, late, worldVars, countVars,
                 last, gone, hidden, vetted, overtaken>>

\* POST /api/agent/register, answered with a node id and a new token; the
\* configuration in the answer gives way to the heartbeat's.
Register(a) ==
  /\ At(a, "heartbeat", "register")
  /\ LET r == loop[a]["heartbeat"] IN
       IF Rejects(scope.ident[a])
       THEN nodes' = nodes /\ Step(a, "heartbeat", Idle)
       ELSE /\ RegisterNode(scope.ident[a], FreshToken)
            /\ Step(a, "heartbeat", [r EXCEPT !.pc = "truncate",
                                     !.id = IdFor(scope.ident[a]),
                                     !.tok = FreshToken])
  /\ UNCHANGED <<pol, registry, gpu, save, file, conf, cache, late, worldVars,
                 countVars, historyVars>>

\* state::save truncates the file, then writes it.
StateTruncate(a) ==
  /\ At(a, "heartbeat", "truncate")
  /\ file' = [file EXCEPT ![a] = Truncated]
  /\ Step(a, "heartbeat", [loop[a]["heartbeat"] EXCEPT !.pc = "write"])
  /\ UNCHANGED <<serverVars, conf, cache, late, worldVars, countVars,
                 historyVars>>

StateWrite(a) ==
  /\ At(a, "heartbeat", "write")
  /\ LET r == loop[a]["heartbeat"] IN
       /\ file' = [file EXCEPT ![a] = [id |-> r.id, tok |-> r.tok]]
       /\ Step(a, "heartbeat",
               [r EXCEPT !.pc = IF r.again THEN "send" ELSE "fetch"])
  /\ UNCHANGED <<serverVars, conf, cache, late, worldVars, countVars,
                 historyVars>>

-----------------------------------------------------------------------------
(* Collectors. *)

\* fetch_collector_registry before every collection; what the agent has is
\* used instead if the token is refused, or none is fetched at all without
\* a collector root, when nothing is collected and that is an error.
FetchRegistry(a) ==
  /\ At(a, "heartbeat", "fetch")
  /\ LET r == loop[a]["heartbeat"]
         ok == AnyNodeWithToken(r.tok)
     IN Step(a, "heartbeat",
             IF scope.root
             THEN [r EXCEPT !.pc = "scan",
                            !.reg = IF ok THEN registry ELSE cache[a]]
             ELSE [r EXCEPT !.pc = "send", !.reg = cache[a], !.err = TRUE,
                            !.at = clock])
  /\ UNCHANGED <<serverVars, file, conf, cache, late, worldVars, countVars,
                 historyVars>>

FetchFails(a) ==
  /\ At(a, "heartbeat", "fetch") /\ scope.root
  /\ faults < scope.faults /\ faults' = faults + 1
  /\ Step(a, "heartbeat", [loop[a]["heartbeat"] EXCEPT !.pc = "scan",
                                                       !.reg = cache[a]])
  /\ UNCHANGED <<serverVars, file, conf, cache, late, worldVars, scope, saves,
                 changes, historyVars>>

\* check_enabled, for a collector that the agent's configuration lists.
Enabled(c, reg) == reg[c] # None /\ reg[c].on /\ reg[c].hash = script[c]

\* scan_collector_dirs passes over a directory it cannot read, silently; a
\* collector that check_enabled refuses is an error.
Scan(a) ==
  /\ At(a, "heartbeat", "scan")
  /\ \E found \in SUBSET Collectors :
       LET r == loop[a]["heartbeat"]
           ok == {c \in found : Enabled(c, r.reg)}
       IN /\ Step(a, "heartbeat",
                  [r EXCEPT !.pc = "run", !.allowed = ok, !.err = found # ok])
          /\ hidden' = hidden \cup {d \in there : CollectorOf[d] \notin found}
  /\ UNCHANGED <<serverVars, file, conf, cache, late, worldVars, countVars,
                 last, gone, vetted, ran, overtaken>>

\* Mutant: the scripts are run as they are read, with no second look.
RunsUnchecked(c, reg) == TRUE

\* The scripts are read again, and must still be those that are registered.
Runs(c, reg) == Enabled(c, reg)

\* What a run of both scripts can give: nothing and an error (a script that
\* cannot be read, times out or fails, output that does not parse, a tool
\* that is not available, with a message); nothing, without a message; or
\* the devices discovered or measured, with an error if one was measured
\* only.  The status ok, partial or error that a script prints is not looked
\* at, and lines cut off or malformed are passed over.
Outcomes(c) ==
  LET found == {d \in there : CollectorOf[d] = c}
  IN {[gpus |-> {}, err |-> TRUE], [gpus |-> {}, err |-> FALSE]}
     \cup {[gpus |-> dm[1] \cup dm[2], err |-> ~(dm[2] \subseteq dm[1])] :
             dm \in (SUBSET found) \X (SUBSET found)}

\* collect_via_dirs, for the collectors that are allowed, and the request.
Run(a) ==
  /\ At(a, "heartbeat", "run")
  /\ LET r == loop[a]["heartbeat"]
         run == {c \in r.allowed : Runs(c, r.reg)}
     IN \E out \in [run -> UNION {Outcomes(c) : c \in run}] :
          /\ \A c \in run : out[c] \in Outcomes(c)
          /\ LET gpus == UNION {out[c].gpus : c \in run}
             IN /\ Step(a, "heartbeat",
                        [r EXCEPT !.pc = "send", !.allowed = {},
                                  !.gpus = gpus, !.at = clock,
                                  !.err = \/ @ \/ run # r.allowed
                                          \/ \E c \in run : out[c].err])
                /\ hidden' = hidden \cup
                     {d \in there \ gpus : /\ CollectorOf[d] \in run
                                           /\ ~out[CollectorOf[d]].err}
          /\ ran' = [ran EXCEPT ![a] = {<<c, script[c]>> : c \in run}]
  /\ UNCHANGED <<serverVars, file, conf, cache, late, worldVars, countVars,
                 last, gone, vetted, overtaken>>

-----------------------------------------------------------------------------
(* The heartbeat. *)

\* Mutant: after a 401 the agent goes on with the token it has.
AfterRefusalKeep(r) == Idle

\* A 401 makes the agent register and send the heartbeat again, once.
AfterRefusal(r) ==
  IF r.again THEN Idle ELSE [r EXCEPT !.pc = "register", !.again = TRUE]

Send(a) ==
  /\ At(a, "heartbeat", "send")
  /\ LET r == loop[a]["heartbeat"] IN
       Step(a, "heartbeat", IF Authentic(r.id, r.tok)
                            THEN [r EXCEPT !.pc = "record"]
                            ELSE AfterRefusal(r))
  /\ UNCHANGED <<serverVars, file, conf, cache, late, worldVars, countVars,
                 historyVars>>

\* Mutant: a device that was missing stays so.
UpsertKeeps(row, at) ==
  [missing |-> row # None /\ row.missing, at |-> at]

\* upsert_gpu_status: a device that is reported is no longer missing.
Upsert(row, at) == [missing |-> FALSE, at |-> at]

\* Mutant: whatever the collectors said.
MarksMissingAlways(r) == TRUE

\* Devices are marked missing only if no collector had an error.
MarksMissing(r) == ~r.err

\* Mutant: updated_at is not bound, and the column is cleared.
MarkMissingUntimed(row, at) ==
  IF row # None /\ row.at < at THEN [missing |-> TRUE, at |-> None] ELSE row

\* mark_missing_gpus: all rows with an older updated_at.
MarkMissing(row, at) ==
  IF row # None /\ row.at < at THEN [missing |-> TRUE, at |-> at] ELSE row

\* record_heartbeat, one transaction.
RecordHeartbeat(r) ==
  /\ nodes' = [nodes EXCEPT ![r.id].ver = r.ver]
  /\ LET up == [d \in Gpus |-> IF d \in r.gpus THEN Upsert(gpu[r.id][d], r.at)
                               ELSE gpu[r.id][d]]
     IN gpu' = [gpu EXCEPT ![r.id] =
                  IF MarksMissing(r)
                  THEN [d \in Gpus |-> MarkMissing(up[d], r.at)] ELSE up]
  /\ last' = [last EXCEPT ![r.id] =
                [gpus |-> r.gpus, err |-> r.err, at |-> r.at,
                 ordered |-> \A d \in Gpus :
                               gpu[r.id][d] # None => gpu[r.id][d].at < r.at]]

Record(a) ==
  /\ At(a, "heartbeat", "record")
  /\ RecordHeartbeat(loop[a]["heartbeat"])
  /\ Step(a, "heartbeat",
          [loop[a]["heartbeat"] EXCEPT !.pc = "list", !.gpus = {}, !.at = 0,
                                       !.err = FALSE, !.ver = 0])
  /\ UNCHANGED <<pol, registry, save, file, conf, cache, late, worldVars,
                 countVars, gone, hidden, vetted, ran, overtaken>>

\* list_collector_registry, for the answer.
ListRegistry(a) ==
  /\ At(a, "heartbeat", "list")
  /\ Step(a, "heartbeat", [loop[a]["heartbeat"] EXCEPT !.pc = "global",
                                                       !.listed = registry])
  /\ UNCHANGED <<serverVars, file, conf, cache, late, worldVars, countVars,
                 historyVars>>

-----------------------------------------------------------------------------
(* Configuration policies. *)

SetOf(p) == IF pol[p] = None THEN NoPolicy ELSE pol[p].set
VersionOf(p, default) == IF pol[p] = None THEN default ELSE pol[p].ver
MaxOf(x, y) == IF x >= y THEN x ELSE y

\* apply_policy: the node's settings over the global ones.
Layered(g, n) == [f \in Fields |-> IF n[f] # None THEN n[f] ELSE g[f]]

\* effective_agent_config reads two policies, then two versions, each in a
\* statement of its own.
Effective(id) ==
  [ver |-> MaxOf(VersionOf(Global, AGENT_CONFIG_VERSION), VersionOf(id, 0)),
   set |-> Layered(SetOf(Global), SetOf(id))]

ReadConfig(a, l) ==
  /\ a \in scope.agents
  /\ LET r == loop[a][l] IN
       \/ r.pc = "global" /\ Step(a, l, [r EXCEPT !.pc = "node",
                                                  !.g = SetOf(Global)])
       \/ r.pc = "node" /\ Step(a, l, [r EXCEPT !.pc = "global_version",
                                                !.n = SetOf(r.id)])
       \/ r.pc = "global_version"
          /\ Step(a, l, [r EXCEPT !.pc = "node_version",
                                  !.v = VersionOf(Global, AGENT_CONFIG_VERSION)])
       \/ r.pc = "node_version"
          /\ Step(a, l, [r EXCEPT !.pc = "apply",
                                  !.v = MaxOf(r.v, VersionOf(r.id, 0))])
  /\ UNCHANGED <<serverVars, file, conf, cache, late, worldVars, countVars,
                 historyVars>>

\* Mutant: only a newer version.
AcceptsNewer(new, own) == new > own

\* apply_server_config takes a configuration of the same version again.
Accepts(new, own) == new >= own

\* The loop of run: the configuration of the answer, and the registry that
\* was fetched or else the one of the answer, unless it is empty.
Apply(a, l) ==
  /\ At(a, l, "apply")
  /\ LET r == loop[a][l] IN
       /\ conf' = IF Accepts(r.v, conf[a].ver)
                  THEN [conf EXCEPT ![a] = [ver |-> r.v,
                                            set |-> Layered(r.g, r.n)]]
                  ELSE conf
       /\ cache' = CASE l = "tasks" -> cache
                     [] r.reg # EmptyRegistry -> [cache EXCEPT ![a] = r.reg]
                     [] r.listed # EmptyRegistry -> [cache EXCEPT ![a] = r.listed]
                     [] OTHER -> cache
  /\ Step(a, l, Idle)
  /\ UNCHANGED <<serverVars, file, late, worldVars, countVars, historyVars>>

\* The task loop: a poll with the state file's token, answered with the
\* configuration at the latest after the long poll's deadline.
PollLoad(a) ==
  /\ At(a, "tasks", "start") /\ scope.tasks
  /\ file[a] \notin {None, Truncated}
  /\ Step(a, "tasks", [Idle EXCEPT !.pc = "send", !.id = file[a].id,
                                   !.tok = file[a].tok])
  /\ UNCHANGED <<serverVars, file, conf, cache, late, worldVars, countVars,
                 historyVars>>

PollAuth(a) ==
  /\ At(a, "tasks", "send")
  /\ LET r == loop[a]["tasks"] IN
       Step(a, "tasks", IF Authentic(r.id, r.tok) THEN [r EXCEPT !.pc = "global"]
                        ELSE Idle)
  /\ UNCHANGED <<serverVars, file, conf, cache, late, worldVars, countVars,
                 historyVars>>

\* next_policy_version, a statement of its own.
SaveRead(s) ==
  /\ save[s] = None
  /\ saves < scope.saves /\ saves' = saves + 1
  /\ LET vers == {pol[p].ver : p \in {q \in DOMAIN pol : pol[q] # None}}
         top == IF vers = {} THEN AGENT_CONFIG_VERSION
                ELSE CHOOSE v \in vers : \A w \in vers : v >= w
     IN save' = [save EXCEPT ![s] = top + 1]
  /\ UNCHANGED <<nodes, pol, registry, gpu, file, conf, cache, loop, late,
                 worldVars, scope, faults, changes, historyVars>>

\* save_agent_config_policy, with the version read before.
SaveWrite(s) ==
  /\ save[s] # None
  /\ \E p \in Known \cup {Global}, set \in Policies :
       /\ pol' = [pol EXCEPT ![p] = [set |-> set, ver |-> save[s]]]
       /\ overtaken' = (overtaken \/ VersionOf(p, 0) > save[s])
  /\ save' = [save EXCEPT ![s] = None]
  /\ UNCHANGED <<nodes, registry, gpu, file, conf, cache, loop, late,
                 worldVars, countVars, last, gone, hidden, vetted, ran>>

\* config_sync_status of list_nodes.
SyncStatus(id) ==
  CASE nodes[id].ver = None -> "pending"
    [] nodes[id].ver = Effective(id).ver -> "synced"
    [] OTHER -> "out_of_sync"

-----------------------------------------------------------------------------
(* Administrators, devices and faults. *)

CanChange == changes < scope.changes /\ changes' = changes + 1

\* register_collector, behind the POST and the PUT of the registry, inserts
\* an entry or replaces it; update_collector_enabled is called by nobody.
RegisterCollector ==
  /\ CanChange
  /\ \E c \in Collectors, on \in BOOLEAN, h \in Hashes :
       /\ registry' = [registry EXCEPT ![c] = [on |-> on, hash |-> h]]
       /\ vetted' = IF on THEN vetted \cup {<<c, h>>} ELSE vetted
  /\ UNCHANGED <<nodes, pol, gpu, save, file, conf, cache, loop, late,
                 worldVars, scope, faults, saves, last, gone, hidden, ran,
                 overtaken>>

\* delete_collector_registry_entry.
DeleteCollector ==
  /\ CanChange
  /\ \E c \in Collectors : registry' = [registry EXCEPT ![c] = None]
  /\ UNCHANGED <<nodes, pol, gpu, save, file, conf, cache, loop, late,
                 worldVars, scope, faults, saves, historyVars>>

EditScript ==
  /\ CanChange
  /\ \E c \in Collectors, h \in Hashes :
       h # script[c] /\ script' = [script EXCEPT ![c] = h]
  /\ UNCHANGED <<serverVars, file, conf, cache, loop, late, there, clock,
                 scope, faults, saves, historyVars>>

Unplug ==
  /\ CanChange
  /\ \E d \in there : there' = there \ {d} /\ gone' = gone \cup {d}
  /\ UNCHANGED <<serverVars, file, conf, cache, loop, late, script, clock,
                 scope, faults, saves, last, hidden, vetted, ran, overtaken>>

Plug ==
  /\ CanChange
  /\ \E d \in Gpus \ there : there' = there \cup {d}
  /\ UNCHANGED <<serverVars, file, conf, cache, loop, late, script, clock,
                 scope, faults, saves, historyVars>>

Tick ==
  /\ clock < scope.seconds /\ clock' = clock + 1
  /\ UNCHANGED <<serverVars, file, conf, cache, loop, late, there, script,
                 countVars, historyVars>>

\* What the server still has of a request when the agent no longer waits.
Left(a) ==
  LET r == loop[a]["heartbeat"]
  IN IF r.pc \notin OnServer THEN {}
     ELSE {[agent |-> a,
            rq |-> IF r.pc = "register" THEN [Idle EXCEPT !.pc = "register"]
                   ELSE [Idle EXCEPT !.pc = r.pc, !.id = r.id, !.tok = r.tok,
                                     !.ver = r.ver, !.gpus = r.gpus,
                                     !.err = r.err, !.at = r.at]]}

\* The connection of a heartbeat or registration breaks, or the answer is
\* lost; a poll that fails is sent again.
Disconnect(a) ==
  /\ a \in scope.agents
  /\ loop[a]["heartbeat"].pc \in OnServer \cup {"truncate", "list", "apply"}
  /\ faults < scope.faults /\ faults' = faults + 1
  /\ late' = late \cup Left(a)
  /\ Step(a, "heartbeat", Idle)
  /\ UNCHANGED <<serverVars, file, conf, cache, worldVars, scope, saves,
                 changes, historyVars>>

\* The agent's process ends and is started again.
Restart(a) ==
  /\ a \in scope.agents
  /\ faults < scope.faults /\ faults' = faults + 1
  /\ late' = late \cup Left(a)
  /\ loop' = [loop EXCEPT ![a] = [l \in Loops |-> Idle]]
  /\ conf' = [conf EXCEPT ![a] = [ver |-> 0, set |-> NoPolicy]]
  /\ cache' = [cache EXCEPT ![a] = EmptyRegistry]
  /\ ran' = [ran EXCEPT ![a] = {}]
  /\ UNCHANGED <<serverVars, file, worldVars, scope, saves, changes, last,
                 gone, hidden, vetted, overtaken>>

\* The server goes on with a request nobody waits for.
LateRequest(q) ==
  /\ \/ /\ q.rq.pc = "register"
        /\ ~Rejects(scope.ident[q.agent])
        /\ RegisterNode(scope.ident[q.agent], FreshToken)
        /\ late' = late \ {q}
        /\ UNCHANGED <<gpu, last>>
     \/ /\ q.rq.pc = "send" /\ Authentic(q.rq.id, q.rq.tok)
        /\ late' = (late \ {q}) \cup {[q EXCEPT !.rq.pc = "record"]}
        /\ UNCHANGED <<nodes, gpu, last>>
     \/ /\ q.rq.pc = "record"
        /\ RecordHeartbeat(q.rq)
        /\ late' = late \ {q}
  /\ UNCHANGED <<pol, registry, save, file, conf, cache, loop, worldVars,
                 countVars, gone, hidden, vetted, ran, overtaken>>

LoopStep(a) ==
  \/ CycleLoad(a) \/ Register(a) \/ StateTruncate(a) \/ StateWrite(a)
  \/ FetchRegistry(a) \/ Scan(a) \/ Run(a) \/ Send(a) \/ Record(a)
  \/ ListRegistry(a) \/ ReadConfig(a, "heartbeat") \/ Apply(a, "heartbeat")

PollStep(a) ==
  PollLoad(a) \/ PollAuth(a) \/ ReadConfig(a, "tasks") \/ Apply(a, "tasks")

Next ==
  \/ \E a \in Agents : \/ LoopStep(a) \/ PollStep(a) \/ FetchFails(a)
                       \/ Disconnect(a) \/ Restart(a)
  \/ \E s \in Savers : SaveRead(s) \/ SaveWrite(s)
  \/ RegisterCollector \/ DeleteCollector \/ EditScript \/ Unplug \/ Plug \/ Tick
  \/ \E q \in late : LateRequest(q)

Spec == Init /\ [][Next]_vars

\* Both loops go on for ever, and their requests are answered.
Fairness == \A a \in Agents : WF_vars(LoopStep(a)) /\ WF_vars(PollStep(a))
FairSpec == Spec /\ Fairness

-----------------------------------------------------------------------------
(* Properties. *)

\* A device is shown as missing only if it was not there at some time, or
\* its collector left it out without an error: a collector that failed does
\* not make its devices disappear, however late a heartbeat is recorded
\* (repository.rs record_heartbeat, mark_missing_gpus).
MissingWasGone ==
  \A i \in Known, d \in Gpus :
    gpu[i][d] # None /\ gpu[i][d].missing => d \in gone \cup hidden

\* After a heartbeat without collector errors that is newer than all rows,
\* the devices shown as present are the ones it reported.
RowsAsReported ==
  \A i \in Known :
    last[i] # None /\ ~last[i].err /\ last[i].ordered =>
      {d \in Gpus : gpu[i][d] # None /\ ~gpu[i][d].missing} = last[i].gpus

\* No script is run that was not registered and enabled with that content,
\* though scripts change while they are scanned and registries are cached
\* (gpu/mod.rs collect_via_dirs).
RunsVetted == \A a \in Agents : ran[a] \subseteq vetted

Alone(a) == /\ a \in scope.agents
            /\ \A b \in scope.agents \ {a} : scope.ident[b] # scope.ident[a]
Shut(a) == file[a] = Truncated \/ Rejects(scope.ident[a])

\* An agent whose name and host no other agent uses gets through to the
\* server again and again, after any restart, lost answer or late
\* registration, unless its state file was left truncated or its name or
\* host is another's.
Reconnects ==
  \A a \in Agents :
    Alone(a) => \/ []<>(loop[a]["heartbeat"].pc = "apply")
                \/ <>[]Shut(a)

\* Once no more policies are saved, such an agent comes to run with the
\* effective configuration of its node and is shown as synced, unless a
\* save took the version of a policy back (heartbeat.rs
\* apply_server_config, repository.rs effective_agent_config).
ConfigConverges ==
  \A a \in Agents :
    Alone(a) =>
      <>[](\/ overtaken \/ Shut(a)
           \/ \E i \in NodeOf(scope.ident[a]) :
                 conf[a] = Effective(i) /\ SyncStatus(i) = "synced")

-----------------------------------------------------------------------------
(* The parts of the inductive invariant behind the safety properties.      *)

\* What a registry enables was registered as enabled once.
Vetted(reg, ok) ==
  \A c \in Collectors : reg[c] # None /\ reg[c].on => <<c, reg[c].hash>> \in ok

\* An agent is one node, and names no other.
OneNode == \A i, j \in Known : nodes[i].of = nodes[j].of => i = j
Named(r, known) == r.pc \in {"start", "register"} \/ r.id \in known

\* A report without an error leaves out only devices that may be missing;
\* so do the collectors that a scan without an error allows.
MayMiss == gone \cup hidden
Reporting(r) == \/ r.pc \in {"send", "record"}
                \/ r.again /\ r.pc \in {"register", "truncate", "write"}
Accounted(r, may) ==
  ~r.err => /\ Reporting(r) => Gpus \ r.gpus \subseteq may
            /\ r.pc = "run" =>
                 \A d \in Gpus : CollectorOf[d] \in r.allowed \/ d \in may

Bounded == /\ \A p \in DOMAIN pol : pol[p] # None => pol[p].ver <= saves + 1
           /\ \A s \in Savers : save[s] # None => save[s] <= saves + 1
Files == \A a \in Agents : file[a] \notin {None, Truncated} => file[a].id \in Known
Trusted ==
  Vetted(registry, vetted) /\ \A a \in Agents : Vetted(cache[a], vetted)
Loop == \A a \in Agents :
  /\ \A l \in Loops : /\ Named(loop[a][l], Known)
                     /\ Vetted(loop[a][l].reg, vetted)
                     /\ Vetted(loop[a][l].listed, vetted)
  /\ Accounted(loop[a]["heartbeat"], MayMiss)
Late == /\ IsFiniteSet(late)
        /\ \A q \in late : Named(q.rq, Known) /\ Accounted(q.rq, MayMiss)
Devices == /\ Gpus \ there \subseteq gone
           /\ \A i \in NodeIds, d \in Gpus :
                gpu[i][d] # None /\ gpu[i][d].missing => d \in MayMiss
Reported == \A i \in NodeIds :
  last[i] # None /\ ~last[i].err /\ last[i].ordered =>
    {d \in Gpus : gpu[i][d] # None /\ ~gpu[i][d].missing} = last[i].gpus

Inv == /\ TypeOK /\ OneNode /\ Bounded /\ Files /\ Trusted /\ Loop /\ Late
       /\ Devices /\ Reported /\ RunsVetted

=============================================================================
