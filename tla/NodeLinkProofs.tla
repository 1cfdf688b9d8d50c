--------------------------- MODULE NodeLinkProofs ---------------------------
(***************************************************************************)
(* Type correctness and the safety properties of NodeLink, for any agents, *)
(* nodes, policies, collectors, devices and scopes, from the inductive     *)
(* invariant Inv of that module.                                           *)
(***************************************************************************)
EXTENDS NodeLink, FiniteSetTheorems, WellFoundedInduction, TLAPS

-----------------------------------------------------------------------------
(* Requests. *)

LoopsType == [Agents -> [Loops -> Request]]

\* The program counters, in the form the provers use.
LEMMA Pcs ==
  /\ "start" \in Pc /\ "register" \in Pc /\ "truncate" \in Pc /\ "write" \in Pc
  /\ "fetch" \in Pc /\ "scan" \in Pc /\ "run" \in Pc /\ "send" \in Pc
  /\ "record" \in Pc /\ "list" \in Pc /\ "global" \in Pc /\ "node" \in Pc
  /\ "global_version" \in Pc /\ "node_version" \in Pc /\ "apply" \in Pc
BY DEF Pc

LEMMA Empty ==
  /\ EmptyRegistry \in Registries /\ NoPolicy \in Policies
  /\ \A ok : Vetted(EmptyRegistry, ok)
BY DEF EmptyRegistry, Registries, Entry, NoPolicy, Policies, Vetted

LEMMA IdleRequest ==
  /\ Idle \in Request /\ Idle.pc = "start"
  /\ Idle.reg = EmptyRegistry /\ Idle.listed = EmptyRegistry
  /\ ~Idle.again /\ ~Idle.err /\ Idle.id = None
BY Pcs, Empty DEF Idle, Request

\* A request stays one when a field is set.
LEMMA Put ==
  ASSUME NEW r \in Request
  PROVE  /\ \A x \in Pc : [r EXCEPT !.pc = x] \in Request
         /\ \A x \in NodeIds : [r EXCEPT !.id = x] \in Request
         /\ \A x \in Nat : /\ [r EXCEPT !.tok = x] \in Request
                           /\ [r EXCEPT !.ver = x] \in Request
                           /\ [r EXCEPT !.at = x] \in Request
                           /\ [r EXCEPT !.v = x] \in Request
         /\ \A x \in BOOLEAN : /\ [r EXCEPT !.again = x] \in Request
                               /\ [r EXCEPT !.err = x] \in Request
         /\ \A x \in Registries : /\ [r EXCEPT !.reg = x] \in Request
                                  /\ [r EXCEPT !.listed = x] \in Request
         /\ \A x \in Policies : /\ [r EXCEPT !.g = x] \in Request
                                /\ [r EXCEPT !.n = x] \in Request
         /\ \A x \in SUBSET Collectors : [r EXCEPT !.allowed = x] \in Request
         /\ \A x \in SUBSET Gpus : [r EXCEPT !.gpus = x] \in Request
<1>1. \A x \in Pc : [r EXCEPT !.pc = x] \in Request
  BY SMT DEF Request
<1>2. \A x \in NodeIds : [r EXCEPT !.id = x] \in Request
  BY SMT DEF Request
<1>3. \A x \in Nat : [r EXCEPT !.tok = x] \in Request
  BY SMT DEF Request
<1>4. \A x \in Nat : [r EXCEPT !.ver = x] \in Request
  BY SMT DEF Request
<1>5. \A x \in Nat : [r EXCEPT !.at = x] \in Request
  BY SMT DEF Request
<1>6. \A x \in Nat : [r EXCEPT !.v = x] \in Request
  BY SMT DEF Request
<1>7. \A x \in BOOLEAN : [r EXCEPT !.again = x] \in Request
  BY SMT DEF Request
<1>8. \A x \in BOOLEAN : [r EXCEPT !.err = x] \in Request
  BY SMT DEF Request
<1>9. \A x \in Registries : [r EXCEPT !.reg = x] \in Request
  BY SMT DEF Request
<1>10. \A x \in Registries : [r EXCEPT !.listed = x] \in Request
  BY SMT DEF Request
<1>11. \A x \in Policies : [r EXCEPT !.g = x] \in Request
  BY SMT DEF Request
<1>12. \A x \in Policies : [r EXCEPT !.n = x] \in Request
  BY SMT DEF Request
<1>13. \A x \in SUBSET Collectors : [r EXCEPT !.allowed = x] \in Request
  BY SMT DEF Request
<1>14. \A x \in SUBSET Gpus : [r EXCEPT !.gpus = x] \in Request
  BY SMT DEF Request
<1> QED BY <1>1, <1>2, <1>3, <1>4, <1>5, <1>6, <1>7, <1>8, <1>9, <1>10,
           <1>11, <1>12, <1>13, <1>14

\* A step of a loop changes its request, and no other.
LEMMA Stepped ==
  ASSUME loop \in LoopsType, NEW a \in Agents, NEW l \in Loops,
         NEW next \in Request, Step(a, l, next)
  PROVE  /\ loop' \in LoopsType
         /\ loop'[a][l] = next
         /\ \A b \in Agents, m \in Loops :
              b # a \/ m # l => loop'[b][m] = loop[b][m]
BY DEF LoopsType, Step

\* What is known of a request stays known when there is more to refer to.
LEMMA Grows ==
  ASSUME NEW r, NEW reg, NEW known, NEW known2, known \subseteq known2,
         NEW ok, NEW ok2, ok \subseteq ok2,
         NEW may, NEW may2, may \subseteq may2
  PROVE  /\ Named(r, known) => Named(r, known2)
         /\ Vetted(reg, ok) => Vetted(reg, ok2)
         /\ Accounted(r, may) => Accounted(r, may2)
BY DEF Named, Vetted, Accounted

LEMMA LoopMoves ==
  ASSUME loop \in LoopsType, Loop,
         NEW a \in Agents, NEW l \in Loops, NEW next \in Request,
         Step(a, l, next),
         Known \subseteq Known', vetted \subseteq vetted',
         MayMiss \subseteq MayMiss',
         Named(next, Known'), Vetted(next.reg, vetted'),
         Vetted(next.listed, vetted'),
         l = "heartbeat" => Accounted(next, MayMiss')
  PROVE  Loop'
<1>1. \A b \in Agents, m \in Loops :
        b # a \/ m # l => loop'[b][m] = loop[b][m]
  BY Stepped
<1>2. loop'[a][l] = next
  BY Stepped
<1>3. ASSUME NEW b \in Agents, NEW m \in Loops
      PROVE  /\ Named(loop'[b][m], Known')
             /\ Vetted(loop'[b][m].reg, vetted')
             /\ Vetted(loop'[b][m].listed, vetted')
  <2>1. CASE b = a /\ m = l
    BY <1>2, <2>1
  <2>2. CASE b # a \/ m # l
    <3>1. /\ Named(loop[b][m], Known) /\ Vetted(loop[b][m].reg, vetted)
          /\ Vetted(loop[b][m].listed, vetted)
      BY DEF Loop
    <3> QED BY <1>1, <2>2, <3>1, Grows
  <2> QED BY <2>1, <2>2
<1>4. ASSUME NEW b \in Agents
      PROVE  Accounted(loop'[b]["heartbeat"], MayMiss')
  <2>0. "heartbeat" \in Loops
    BY DEF Loops
  <2>1. CASE b = a /\ l = "heartbeat"
    BY <1>2, <2>1
  <2>2. CASE b # a \/ l # "heartbeat"
    <3>1. Accounted(loop[b]["heartbeat"], MayMiss)
      BY DEF Loop
    <3>2. loop'[b]["heartbeat"] = loop[b]["heartbeat"]
      BY <1>1, <2>0, <2>2
    <3> QED BY <3>1, <3>2, Grows
  <2> QED BY <2>1, <2>2
<1> QED BY <1>3, <1>4 DEF Loop

\* A step of one loop that changes at most the history of devices and of
\* scripts.
LEMMA OnlyLoop ==
  ASSUME Inv, NEW a \in Agents, NEW l \in Loops, NEW next \in Request,
         Step(a, l, next),
         Named(next, Known), Vetted(next.reg, vetted),
         Vetted(next.listed, vetted),
         l = "heartbeat" => Accounted(next, MayMiss'),
         faults' \in Nat,
         hidden \subseteq hidden', hidden' \subseteq Gpus,
         ran' \in [Agents -> SUBSET (Collectors \X Hashes)],
         \A b \in Agents : ran'[b] \subseteq vetted,
         UNCHANGED <<serverVars, file, conf, cache, late, worldVars, scope,
                     saves, changes, last, gone, vetted, overtaken>>
  PROVE  Inv'
<1> USE DEF serverVars, worldVars
<1>1. loop \in LoopsType /\ Loop
  BY DEF Inv, TypeOK, LoopsType
<1>2. Known' = Known /\ vetted' = vetted /\ MayMiss \subseteq MayMiss'
  BY DEF Known, MayMiss
<1>3. loop' \in LoopsType
  BY <1>1, Stepped
<1>4. Loop'
  BY <1>1, <1>2, LoopMoves
<1>5. TypeOK'
  BY <1>3 DEF Inv, TypeOK, LoopsType
<1>6. OneNode' /\ Bounded' /\ Files' /\ Trusted'
  BY <1>2 DEF Inv, OneNode, Bounded, Files, Trusted
<1>7. Late'
  BY <1>2, Grows DEF Inv, Late
<1>8. Devices'
  <2>1. Devices
    BY DEF Inv
  <2> QED BY <1>2, <2>1 DEF Devices
<1>9. Reported'
  BY DEF Inv, Reported
<1>10. RunsVetted'
  BY DEF RunsVetted
<1> QED BY <1>4, <1>5, <1>6, <1>7, <1>8, <1>9, <1>10 DEF Inv

LEMMA RequestOf ==
  ASSUME Inv, NEW a \in Agents, NEW l \in Loops
  PROVE  /\ loop[a][l] \in Request
         /\ Named(loop[a][l], Known)
         /\ Vetted(loop[a][l].reg, vetted)
         /\ Vetted(loop[a][l].listed, vetted)
         /\ Accounted(loop[a]["heartbeat"], MayMiss)
BY DEF Inv, TypeOK, Loop

LEMMA Counts ==
  ASSUME Inv
  PROVE  /\ faults \in Nat /\ saves \in Nat /\ changes \in Nat /\ clock \in Nat
         /\ hidden \subseteq Gpus /\ gone \subseteq Gpus
         /\ ran \in [Agents -> SUBSET (Collectors \X Hashes)]
         /\ \A b \in Agents : ran[b] \subseteq vetted
         /\ registry \in Registries /\ Vetted(registry, vetted)
         /\ \A b \in Agents : /\ cache[b] \in Registries
                              /\ Vetted(cache[b], vetted)
<1>1. clock \in 0 .. scope.seconds /\ scope \in Scopes
  BY DEF Inv, TypeOK
<1>2. clock \in Nat
  BY <1>1, LinkAssumption
<1> QED BY <1>2 DEF Inv, TypeOK, Trusted, RunsVetted

\* A step that only gives a loop its next request.
LEMMA NextRequest ==
  ASSUME Inv, NEW a \in Agents, NEW l \in Loops, NEW next \in Request,
         Step(a, l, next),
         Named(next, Known), Vetted(next.reg, vetted),
         Vetted(next.listed, vetted),
         l = "heartbeat" => Accounted(next, MayMiss),
         UNCHANGED <<serverVars, file, conf, cache, late, worldVars,
                     countVars, historyVars>>
  PROVE  Inv'
<1>1. UNCHANGED <<serverVars, file, conf, cache, late, worldVars, scope,
                  saves, changes, last, gone, vetted, overtaken>>
      /\ faults' = faults /\ hidden' = hidden /\ ran' = ran
  BY DEF countVars, historyVars
<1>2. MayMiss' = MayMiss
  BY <1>1 DEF MayMiss
<1> QED BY <1>1, <1>2, Counts, OnlyLoop

\* A request that starts again.
LEMMA IdleFits ==
  /\ Named(Idle, Known) /\ Vetted(Idle.reg, vetted)
  /\ Vetted(Idle.listed, vetted) /\ Accounted(Idle, MayMiss)
BY IdleRequest, Empty DEF Named, Accounted, Reporting

-----------------------------------------------------------------------------
(* The steps of a heartbeat up to its report. *)

LEMMA CycleLoadInv ==
  ASSUME Inv, NEW a \in Agents, CycleLoad(a)
  PROVE  Inv'
<1> DEFINE idle == [Idle EXCEPT !.pc = "register", !.ver = conf[a].ver]
           known == [Idle EXCEPT !.pc = "fetch", !.ver = conf[a].ver,
                                 !.id = file[a].id, !.tok = file[a].tok]
           next == IF file[a] = None THEN idle ELSE known
<1>0. "heartbeat" \in Loops
  BY DEF Loops
<1>1. conf[a].ver \in Nat
  BY DEF Inv, TypeOK
<1>2. idle \in Request /\ idle.pc = "register" /\ ~idle.again
      /\ idle.reg = EmptyRegistry /\ idle.listed = EmptyRegistry
  BY <1>1, Pcs, IdleRequest DEF Request
<1>3. CASE file[a] = None
  <2>1. Step(a, "heartbeat", idle)
    BY <1>3 DEF CycleLoad
  <2>2. Named(idle, Known) /\ Accounted(idle, MayMiss')
    BY <1>2 DEF Named, Accounted, Reporting
  <2>3. faults' = faults /\ hidden' = hidden /\ vetted' = vetted
        /\ ran' = [ran EXCEPT ![a] = {}]
    BY DEF CycleLoad, countVars
  <2> HIDE DEF idle
  <2> QED BY <1>0, <1>2, <2>1, <2>2, <2>3, Counts, Empty, OnlyLoop
       DEF CycleLoad, countVars
<1>4. CASE file[a] # None
  <2>1. file[a] \in [id : NodeIds, tok : Nat] /\ file[a].id \in Known
    BY <1>4 DEF CycleLoad, Inv, TypeOK, Files
  <2>2. known \in Request /\ known.pc = "fetch" /\ ~known.again
        /\ known.reg = EmptyRegistry /\ known.listed = EmptyRegistry
        /\ known.id = file[a].id
    BY <1>1, <2>1, Pcs, IdleRequest DEF Request
  <2>3. Step(a, "heartbeat", known)
    BY <1>4 DEF CycleLoad
  <2>4. Named(known, Known) /\ Accounted(known, MayMiss')
    BY <2>1, <2>2 DEF Named, Accounted, Reporting
  <2>5. faults' = faults /\ hidden' = hidden /\ vetted' = vetted
        /\ ran' = [ran EXCEPT ![a] = {}]
    BY DEF CycleLoad, countVars
  <2> HIDE DEF known
  <2> QED BY <1>0, <2>2, <2>3, <2>4, <2>5, Counts, Empty, OnlyLoop
       DEF CycleLoad, countVars
<1> QED BY <1>3, <1>4

LEMMA FetchInv ==
  ASSUME Inv, NEW a \in Agents, FetchRegistry(a) \/ FetchFails(a)
  PROVE  Inv'
<1> DEFINE r == loop[a]["heartbeat"]
           got == [r EXCEPT !.pc = "scan", !.reg = registry]
           own == [r EXCEPT !.pc = "scan", !.reg = cache[a]]
           none == [r EXCEPT !.pc = "send", !.reg = cache[a], !.err = TRUE,
                             !.at = clock]
<1>0. "heartbeat" \in Loops
  BY DEF Loops
<1>1. r \in Request /\ r.pc = "fetch" /\ Named(r, Known)
      /\ Vetted(r.listed, vetted)
  BY <1>0, RequestOf DEF FetchRegistry, FetchFails, At
<1>2. r.id \in Known
  BY <1>1 DEF Named
<1>3. ASSUME NEW next \in {got, own, none}
      PROVE  /\ next \in Request
             /\ Named(next, Known) /\ Vetted(next.reg, vetted)
             /\ Vetted(next.listed, vetted) /\ Accounted(next, MayMiss)
  <2>1. /\ next \in Request /\ next.id = r.id /\ next.listed = r.listed
        /\ next.reg \in {registry, cache[a]}
        /\ next.pc = "scan" \/ (next.pc = "send" /\ next.err)
    <3>0. registry \in Registries /\ cache[a] \in Registries /\ clock \in Nat
      BY Counts
    <3> HIDE DEF r
    <3>1. CASE next = got
      <4>1. next.pc = "scan" /\ next.id = r.id /\ next.listed = r.listed
            /\ next.reg = registry
        BY <1>1, <3>1 DEF Request
      <4>2. next \in Request
        BY <1>1, <3>0, <3>1, Pcs, Put
      <4> QED BY <4>1, <4>2
    <3>2. CASE next = own
      <4>1. next.pc = "scan" /\ next.id = r.id /\ next.listed = r.listed
            /\ next.reg = cache[a]
        BY <1>1, <3>2 DEF Request
      <4>2. next \in Request
        BY <1>1, <3>0, <3>2, Pcs, Put
      <4> QED BY <4>1, <4>2
    <3>3. CASE next = none
      BY <1>1, <3>0, <3>3, Pcs DEF Request
    <3> QED BY <3>1, <3>2, <3>3
  <2>2. Named(next, Known)
    BY <1>2, <2>1 DEF Named
  <2>3. Vetted(next.reg, vetted) /\ Vetted(next.listed, vetted)
    BY <1>1, <2>1, Counts
  <2>4. Accounted(next, MayMiss)
    <3>1. next.pc = "scan" => ~Reporting(next)
      BY Zenon, <1>1, <2>1 DEF Reporting
    <3> QED BY <2>1, <3>1 DEF Accounted
  <2> QED BY <2>1, <2>2, <2>3, <2>4
<1>4. PICK next \in {got, own, none} : Step(a, "heartbeat", next)
  BY DEF FetchRegistry, FetchFails
<1>5. /\ UNCHANGED <<serverVars, file, conf, cache, late, worldVars, scope,
                     saves, changes, historyVars>>
      /\ faults' \in Nat
  BY Counts DEF FetchRegistry, FetchFails, countVars
<1>6. hidden' = hidden /\ ran' = ran /\ MayMiss' = MayMiss
  BY <1>5 DEF historyVars, MayMiss
<1>7. UNCHANGED <<serverVars, file, conf, cache, late, worldVars, scope,
                  saves, changes, last, gone, vetted, overtaken>>
  BY <1>5 DEF historyVars
<1> HIDE DEF got, own, none
<1> QED BY <1>0, <1>3, <1>4, <1>5, <1>6, <1>7, Counts, OnlyLoop

\* A device that is not there was not there at some time.
LEMMA Absent ==
  ASSUME Inv, NEW d \in Gpus, d \notin there
  PROVE  d \in gone
BY DEF Inv, Devices

LEMMA ScanInv ==
  ASSUME Inv, NEW a \in Agents, Scan(a)
  PROVE  Inv'
<1> DEFINE r == loop[a]["heartbeat"]
<1>0. "heartbeat" \in Loops
  BY DEF Loops
<1>1. r \in Request /\ r.pc = "scan" /\ Named(r, Known)
      /\ Vetted(r.reg, vetted) /\ Vetted(r.listed, vetted)
  BY <1>0, RequestOf DEF Scan, At
<1>2. PICK found \in SUBSET Collectors :
        LET ok == {c \in found : Enabled(c, r.reg)}
        IN /\ Step(a, "heartbeat",
                   [r EXCEPT !.pc = "run", !.allowed = ok, !.err = found # ok])
           /\ hidden' = hidden \cup {d \in there : CollectorOf[d] \notin found}
  BY DEF Scan
<1> DEFINE ok == {c \in found : Enabled(c, r.reg)}
           next == [r EXCEPT !.pc = "run", !.allowed = ok, !.err = found # ok]
<1>3. Step(a, "heartbeat", next)
      /\ hidden' = hidden \cup {d \in there : CollectorOf[d] \notin found}
  BY <1>2
<1>4. ok \in SUBSET Collectors /\ (found # ok) \in BOOLEAN
  OBVIOUS
<1> HIDE DEF ok, r
<1>5. next \in Request
  BY <1>1, <1>4, Pcs, Put
<1>6. next.pc = "run" /\ next.id = r.id /\ next.allowed = ok
      /\ next.reg = r.reg /\ next.listed = r.listed
  BY <1>1 DEF Request
<1>7. ~next.err => found = ok
  BY <1>1 DEF Request
<1> HIDE DEF next
<1>8. Named(next, Known)
  BY <1>1, <1>6 DEF Named
<1>9. there \subseteq Gpus /\ gone' = gone
  BY DEF Inv, TypeOK, Scan
<1>10. Accounted(next, MayMiss')
  <2>1. ~Reporting(next)
    BY Zenon, <1>6 DEF Reporting
  <2>2. ASSUME found = ok, NEW d \in Gpus, CollectorOf[d] \notin ok
        PROVE  d \in MayMiss'
    BY <1>3, <1>9, <2>2, Absent DEF MayMiss
  <2> QED BY <1>6, <1>7, <2>1, <2>2 DEF Accounted
<1>11. hidden \subseteq hidden' /\ hidden' \subseteq Gpus
  BY <1>3, <1>9, Counts
<1> QED BY <1>0, <1>1, <1>3, <1>5, <1>6, <1>8, <1>10, <1>11, Counts, OnlyLoop
     DEF Scan, countVars

\* A run of a collector finds devices that are there.
LEMMA OutcomesFound ==
  ASSUME NEW c, NEW o \in Outcomes(c)
  PROVE  o.gpus \subseteq there
<1> DEFINE found == {d \in there : CollectorOf[d] = c}
<1>1. \/ o \in {[gpus |-> {}, err |-> TRUE], [gpus |-> {}, err |-> FALSE]}
      \/ \E dm \in (SUBSET found) \X (SUBSET found) :
           o = [gpus |-> dm[1] \cup dm[2], err |-> ~(dm[2] \subseteq dm[1])]
  BY DEF Outcomes
<1>2. CASE o \in {[gpus |-> {}, err |-> TRUE], [gpus |-> {}, err |-> FALSE]}
  BY <1>2
<1>3. ASSUME NEW dm \in (SUBSET found) \X (SUBSET found),
             o = [gpus |-> dm[1] \cup dm[2], err |-> ~(dm[2] \subseteq dm[1])]
      PROVE  o.gpus \subseteq there
  <2>1. o.gpus = dm[1] \cup dm[2]
    BY <1>3
  <2> QED BY <2>1
<1> QED BY <1>1, <1>2, <1>3

LEMMA RunInv ==
  ASSUME Inv, NEW a \in Agents, Run(a)
  PROVE  Inv'
<1> DEFINE r == loop[a]["heartbeat"]
           run == {c \in r.allowed : Runs(c, r.reg)}
<1>0. "heartbeat" \in Loops
  BY DEF Loops
<1>1. r \in Request /\ r.pc = "run" /\ Named(r, Known)
      /\ Vetted(r.reg, vetted) /\ Vetted(r.listed, vetted)
      /\ Accounted(r, MayMiss)
  BY <1>0, RequestOf DEF Run, At
<1>2. PICK out \in [run -> UNION {Outcomes(c) : c \in run}] :
        /\ \A c \in run : out[c] \in Outcomes(c)
        /\ LET gpus == UNION {out[c].gpus : c \in run}
           IN /\ Step(a, "heartbeat",
                      [r EXCEPT !.pc = "send", !.allowed = {},
                                !.gpus = gpus, !.at = clock,
                                !.err = \/ @ \/ run # r.allowed
                                        \/ \E c \in run : out[c].err])
              /\ hidden' = hidden \cup
                   {d \in there \ gpus : /\ CollectorOf[d] \in run
                                         /\ ~out[CollectorOf[d]].err}
  BY DEF Run
<1> DEFINE gpus == UNION {out[c].gpus : c \in run}
           err == r.err \/ run # r.allowed \/ \E c \in run : out[c].err
           next == [r EXCEPT !.pc = "send", !.allowed = {}, !.gpus = gpus,
                             !.at = clock, !.err = err]
<1>3. Step(a, "heartbeat", next)
      /\ hidden' = hidden \cup {d \in there \ gpus :
                                  /\ CollectorOf[d] \in run
                                  /\ ~out[CollectorOf[d]].err}
  BY <1>2
<1>4. there \subseteq Gpus /\ gone' = gone /\ clock \in Nat
  BY Counts DEF Inv, TypeOK, Run
<1>5. run \subseteq Collectors /\ \A c \in run : Runs(c, r.reg)
  BY <1>1 DEF Request
<1>6. gpus \in SUBSET Gpus
  BY <1>2, <1>4, OutcomesFound
<1>7. ran' = [ran EXCEPT ![a] = {<<c, script[c]>> : c \in run}]
  BY DEF Run
<1>8. err \in BOOLEAN
  OBVIOUS
<1>9. err \/ (~r.err /\ run = r.allowed /\ \A c \in run : ~out[c].err)
  BY Zenon
<1> HIDE DEF r, run, gpus, err
<1>10. next \in Request
  BY <1>1, <1>4, <1>6, <1>8, Pcs, Put
<1>11. next.pc = "send" /\ next.id = r.id /\ next.gpus = gpus
       /\ next.reg = r.reg /\ next.listed = r.listed
  BY <1>1 DEF Request
<1>12. next.err = err
  BY <1>1 DEF Request
<1> HIDE DEF next
<1>13. Named(next, Known)
  BY <1>1, <1>11 DEF Named
<1>14. Accounted(next, MayMiss')
  <2>1. CASE err
    BY <1>12, <2>1 DEF Accounted
  <2>2. CASE ~err
    <3>1. ~r.err /\ run = r.allowed /\ \A c \in run : ~out[c].err
      BY <1>9, <2>2
    <3>2. \A d \in Gpus : CollectorOf[d] \in run \/ d \in MayMiss
      BY <1>1, <3>1 DEF Accounted
    <3>3. ASSUME NEW d \in Gpus \ gpus
          PROVE  d \in MayMiss'
      BY <1>3, <1>4, <3>1, <3>2, Absent DEF MayMiss
    <3> QED BY <1>11, <3>3 DEF Accounted
  <2> QED BY <2>1, <2>2
<1>15. hidden \subseteq hidden' /\ hidden' \subseteq Gpus
  BY <1>3, <1>4, Counts
<1>16. \A c \in run : <<c, script[c]>> \in vetted
  BY <1>1, <1>5 DEF Vetted, Runs, Enabled
<1>17. /\ ran' \in [Agents -> SUBSET (Collectors \X Hashes)]
       /\ \A b \in Agents : ran'[b] \subseteq vetted
  <2>1. script \in [Collectors -> Hashes]
    BY DEF Inv, TypeOK
  <2>2. {<<c, script[c]>> : c \in run} \subseteq Collectors \X Hashes
    BY <1>5, <2>1
  <2>3. {<<c, script[c]>> : c \in run} \subseteq vetted
    BY <1>16
  <2> QED BY <1>7, <2>2, <2>3, Counts
<1> QED BY <1>0, <1>1, <1>3, <1>10, <1>11, <1>13, <1>14, <1>15, <1>17,
           Counts, OnlyLoop DEF Run, countVars

-----------------------------------------------------------------------------
(* Requests that are sent, and what they are answered with. *)

LEMMA SendInv ==
  ASSUME Inv, NEW a \in Agents, Send(a)
  PROVE  Inv'
<1> DEFINE r == loop[a]["heartbeat"]
           recorded == [r EXCEPT !.pc = "record"]
           refused == [r EXCEPT !.pc = "register", !.again = TRUE]
<1>0. "heartbeat" \in Loops
  BY DEF Loops
<1>1. r \in Request /\ r.pc = "send" /\ Named(r, Known)
      /\ Vetted(r.reg, vetted) /\ Vetted(r.listed, vetted)
      /\ Accounted(r, MayMiss)
  BY <1>0, RequestOf DEF Send, At
<1>2. PICK next \in {recorded, refused, Idle} : Step(a, "heartbeat", next)
  BY DEF Send, AfterRefusal
<1>3. r.id \in Known
  BY <1>1 DEF Named
<1>4. ~r.err => Gpus \ r.gpus \subseteq MayMiss
  BY <1>1 DEF Accounted, Reporting
<1> HIDE DEF r
<1>5. CASE next = Idle
  BY <1>0, <1>2, <1>5, IdleRequest, IdleFits, NextRequest DEF Send
<1>6. CASE next \in {recorded, refused}
  <2>1. next \in Request
    <3>1. CASE next = recorded
      BY <1>1, <3>1, Pcs, Put
    <3>2. CASE next = refused
      <4>1. [r EXCEPT !.pc = "register"] \in Request
        BY <1>1, Pcs, Put
      <4> QED BY <3>2, <4>1, Put
    <3> QED BY <1>6, <3>1, <3>2
  <2>2. next.pc \in {"record", "register"} /\ next.id = r.id
        /\ next.gpus = r.gpus /\ next.reg = r.reg /\ next.listed = r.listed
    BY <1>1, <1>6 DEF Request
  <2>3. ~next.err => ~r.err
    BY <1>1, <1>6 DEF Request
  <2> HIDE DEF recorded, refused
  <2>4. Named(next, Known)
    BY <1>3, <2>2 DEF Named
  <2>5. Accounted(next, MayMiss)
    BY <1>4, <2>2, <2>3 DEF Accounted
  <2> QED BY <1>0, <1>1, <1>2, <2>1, <2>2, <2>4, <2>5, NextRequest DEF Send
<1> QED BY <1>2, <1>5, <1>6

LEMMA ListRegistryInv ==
  ASSUME Inv, NEW a \in Agents, ListRegistry(a)
  PROVE  Inv'
<1> DEFINE r == loop[a]["heartbeat"]
           next == [r EXCEPT !.pc = "global", !.listed = registry]
<1>0. "heartbeat" \in Loops
  BY DEF Loops
<1>1. r \in Request /\ r.pc = "list" /\ Named(r, Known)
      /\ Vetted(r.reg, vetted)
  BY <1>0, RequestOf DEF ListRegistry, At
<1>2. Step(a, "heartbeat", next)
  BY DEF ListRegistry
<1>3. registry \in Registries /\ Vetted(registry, vetted)
  BY Counts
<1> HIDE DEF r
<1>4. next \in Request
  BY <1>1, <1>3, Pcs, Put
<1>5. next.pc = "global" /\ next.id = r.id /\ next.reg = r.reg
      /\ next.listed = registry
  BY <1>1 DEF Request
<1> HIDE DEF next
<1>6. Named(next, Known)
  BY <1>1, <1>5 DEF Named
<1>7. Accounted(next, MayMiss)
  BY <1>5 DEF Accounted, Reporting
<1> QED BY <1>0, <1>1, <1>2, <1>3, <1>4, <1>5, <1>6, <1>7, NextRequest
     DEF ListRegistry

\* What a policy and its version read as.
LEMMA ReadPolicy ==
  ASSUME Inv, NEW p \in NodeIds \cup {Global}, NEW default \in Nat
  PROVE  SetOf(p) \in Policies /\ VersionOf(p, default) \in Nat
<1>1. pol[p] \in [set : Policies, ver : Nat] \cup {None}
  BY DEF Inv, TypeOK
<1> QED BY <1>1, Empty DEF SetOf, VersionOf

LEMMA ReadConfigInv ==
  ASSUME Inv, NEW a \in Agents, NEW l \in Loops, ReadConfig(a, l)
  PROVE  Inv'
<1> DEFINE r == loop[a][l]
           one == [r EXCEPT !.pc = "node", !.g = SetOf(Global)]
           two == [r EXCEPT !.pc = "global_version", !.n = SetOf(r.id)]
           three == [r EXCEPT !.pc = "node_version",
                              !.v = VersionOf(Global, AGENT_CONFIG_VERSION)]
           four == [r EXCEPT !.pc = "apply",
                             !.v = MaxOf(r.v, VersionOf(r.id, 0))]
<1>1. r \in Request /\ Named(r, Known)
      /\ Vetted(r.reg, vetted) /\ Vetted(r.listed, vetted)
  BY RequestOf
<1>2. r.pc \in {"global", "node", "global_version", "node_version"}
  BY DEF ReadConfig
<1>3. r.id \in Known /\ r.id \in NodeIds
  BY <1>1, <1>2 DEF Named, Known
<1>4. PICK next \in {one, two, three, four} : Step(a, l, next)
  BY DEF ReadConfig
<1>5. /\ SetOf(Global) \in Policies /\ SetOf(r.id) \in Policies
      /\ VersionOf(Global, AGENT_CONFIG_VERSION) \in Nat
      /\ VersionOf(r.id, 0) \in Nat
  BY <1>3, ReadPolicy DEF AGENT_CONFIG_VERSION
<1>6. MaxOf(r.v, VersionOf(r.id, 0)) \in Nat
  BY <1>1, <1>5 DEF MaxOf, Request
<1> HIDE DEF r
<1>7. next \in Request
  <2>1. CASE next = one
    BY <1>1, <1>5, <2>1, Pcs, Put
  <2>2. CASE next = two
    BY <1>1, <1>5, <2>2, Pcs, Put
  <2>3. CASE next = three
    BY <1>1, <1>5, <2>3, Pcs, Put
  <2>4. CASE next = four
    BY <1>1, <1>6, <2>4, Pcs, Put
  <2> QED BY <1>4, <2>1, <2>2, <2>3, <2>4
<1>8. next.pc \in {"node", "global_version", "node_version", "apply"}
      /\ next.id = r.id /\ next.reg = r.reg /\ next.listed = r.listed
  BY <1>1, <1>4 DEF Request
<1> HIDE DEF one, two, three, four
<1>9. Named(next, Known)
  BY <1>3, <1>8 DEF Named
<1>10. Accounted(next, MayMiss)
  BY <1>8 DEF Accounted, Reporting
<1> QED BY <1>1, <1>4, <1>7, <1>8, <1>9, <1>10, NextRequest DEF ReadConfig

LEMMA PollLoadInv ==
  ASSUME Inv, NEW a \in Agents, PollLoad(a)
  PROVE  Inv'
<1> DEFINE next == [Idle EXCEPT !.pc = "send", !.id = file[a].id,
                                !.tok = file[a].tok]
<1>0. "tasks" \in Loops /\ "tasks" # "heartbeat"
  BY DEF Loops
<1>1. file[a] \in [id : NodeIds, tok : Nat] /\ file[a].id \in Known
  BY DEF PollLoad, Inv, TypeOK, Files
<1>2. next \in Request
  BY <1>1, IdleRequest, Pcs, Put
<1>3. next.pc = "send" /\ next.id = file[a].id
      /\ next.reg = EmptyRegistry /\ next.listed = EmptyRegistry
  BY IdleRequest DEF Request
<1>4. Step(a, "tasks", next)
  BY DEF PollLoad
<1> HIDE DEF next
<1>5. Named(next, Known)
  BY <1>1, <1>3 DEF Named
<1> QED BY <1>0, <1>2, <1>3, <1>4, <1>5, Empty, NextRequest DEF PollLoad

LEMMA PollAuthInv ==
  ASSUME Inv, NEW a \in Agents, PollAuth(a)
  PROVE  Inv'
<1> DEFINE r == loop[a]["tasks"]
           read == [r EXCEPT !.pc = "global"]
<1>0. "tasks" \in Loops /\ "tasks" # "heartbeat"
  BY DEF Loops
<1>1. r \in Request /\ r.pc = "send" /\ Named(r, Known)
      /\ Vetted(r.reg, vetted) /\ Vetted(r.listed, vetted)
  BY <1>0, RequestOf DEF PollAuth, At
<1>2. PICK next \in {read, Idle} : Step(a, "tasks", next)
  BY DEF PollAuth
<1> HIDE DEF r
<1>3. CASE next = Idle
  BY <1>0, <1>2, <1>3, IdleRequest, IdleFits, NextRequest DEF PollAuth
<1>4. CASE next = read
  <2>1. next \in Request
    BY <1>1, <1>4, Pcs, Put
  <2>2. next.pc = "global" /\ next.id = r.id /\ next.reg = r.reg
        /\ next.listed = r.listed
    BY <1>1, <1>4 DEF Request
  <2> HIDE DEF read
  <2>3. Named(next, Known)
    BY <1>1, <2>2 DEF Named
  <2> QED BY <1>0, <1>1, <1>2, <2>1, <2>2, <2>3, NextRequest DEF PollAuth
<1> QED BY <1>2, <1>3, <1>4

-----------------------------------------------------------------------------
(* Registration. *)

\* Every identity in use is one node's, so that there is an id left for an
\* agent that has no node yet.
LEMMA FreeId ==
  ASSUME Inv, NEW who \in {scope.ident[a] : a \in Agents}, NodeOf(who) = {}
  PROVE  \E i \in NodeIds : nodes[i] = None
<1> SUFFICES ASSUME \A i \in NodeIds : nodes[i] # None
             PROVE  FALSE
  OBVIOUS
<1> DEFINE idents == {scope.ident[a] : a \in Agents}
           others == idents \ {who}
           ident == [a \in Agents |-> scope.ident[a]]
           of == [i \in NodeIds |-> nodes[i].of]
<1>1. Known = NodeIds
  BY DEF Known
<1>2. \A i \in NodeIds : nodes[i].of \in idents /\ nodes[i].of # who
  BY <1>1 DEF Inv, TypeOK, NodeRows, NodeOf
<1>3. of \in Injection(NodeIds, others)
  <2>1. of \in [NodeIds -> others]
    BY <1>2
  <2>2. \A i, j \in NodeIds : of[i] = of[j] => i = j
    BY <1>1 DEF Inv, OneNode
  <2> HIDE DEF of, others
  <2> QED BY <2>1, <2>2 DEF Injection, IsInjective
<1>4. ident \in Surjection(Agents, idents)
  <2>1. ident \in [Agents -> idents]
    OBVIOUS
  <2>2. \A x \in idents : \E a \in Agents : ident[a] = x
    OBVIOUS
  <2> HIDE DEF ident, idents
  <2> QED BY <2>1, <2>2 DEF Surjection
<1>5. IsFiniteSet(Agents) /\ Cardinality(Agents) <= Cardinality(NodeIds)
  BY LinkAssumption
<1> HIDE DEF of, ident, idents
<1>6. IsFiniteSet(idents) /\ Cardinality(idents) <= Cardinality(Agents)
  BY <1>4, <1>5, FS_Surjection
<1>7. IsFiniteSet(others) /\ Cardinality(others) = Cardinality(idents) - 1
  <2>1. who \in idents
    BY DEF idents
  <2> QED BY <1>6, <2>1, FS_RemoveElement
<1> HIDE DEF others
<1>8. Cardinality(NodeIds) <= Cardinality(others)
  BY <1>3, <1>7, FS_Injection
<1>9. /\ Cardinality(Agents) \in Nat /\ Cardinality(NodeIds) \in Nat
      /\ Cardinality(idents) \in Nat
  BY <1>5, <1>6, LinkAssumption, FS_CardinalityType
<1> QED BY <1>5, <1>6, <1>7, <1>8, <1>9

LEMMA IdForNode ==
  ASSUME Inv, NEW who \in {scope.ident[a] : a \in Agents}
  PROVE  /\ IdFor(who) \in NodeIds
         /\ NodeOf(who) # {} => IdFor(who) \in NodeOf(who)
         /\ NodeOf(who) = {} => nodes[IdFor(who)] = None
<1>1. NodeOf(who) \subseteq NodeIds
  BY DEF NodeOf, Known
<1>2. CASE NodeOf(who) # {}
  BY <1>1, <1>2 DEF IdFor
<1>3. CASE NodeOf(who) = {}
  <2>1. \E i \in NodeIds : nodes[i] = None
    BY <1>3, FreeId
  <2> QED BY <1>3, <2>1 DEF IdFor
<1> QED BY <1>2, <1>3

\* The tokens in use are finitely many numbers.
LEMMA FreshTokenIsOne ==
  ASSUME Inv
  PROVE  FreshToken \in Nat
<1> DEFINE rows == {j \in NodeIds : nodes[j] # None}
           readable == {b \in Agents : file[b] \notin {None, Truncated}}
           A == {nodes[i].tok : i \in rows}
           B == {file[a].tok : a \in readable}
           H == {loop[a][l].tok : a \in Agents, l \in Loops}
           L == {q.rq.tok : q \in late}
           used == A \cup B \cup H \cup L
<1>1. IsFiniteSet(NodeIds) /\ IsFiniteSet(Agents) /\ IsFiniteSet(late)
  BY LinkAssumption DEF Inv, Late
<1>2. IsFiniteSet(A)
  <2>1. IsFiniteSet(rows)
    BY <1>1, FS_Subset
  <2>2. [i \in rows |-> nodes[i].tok] \in Surjection(rows, A)
    BY DEF Surjection
  <2> HIDE DEF rows, A
  <2> QED BY <2>1, <2>2, FS_Surjection
<1>3. IsFiniteSet(B)
  <2>1. IsFiniteSet(readable)
    BY <1>1, FS_Subset
  <2>2. [b \in readable |-> file[b].tok] \in Surjection(readable, B)
    BY DEF Surjection
  <2> HIDE DEF readable, B
  <2> QED BY <2>1, <2>2, FS_Surjection
<1>4. IsFiniteSet(H)
  <2> DEFINE Of(l) == {loop[a][l].tok : a \in Agents}
  <2>1. H = Of("heartbeat") \cup Of("tasks")
    BY DEF Loops
  <2>2. ASSUME NEW l \in Loops PROVE IsFiniteSet(Of(l))
    <3> DEFINE O == Of(l)
    <3>1. [a \in Agents |-> loop[a][l].tok] \in Surjection(Agents, O)
      BY DEF Surjection
    <3> HIDE DEF O
    <3>2. IsFiniteSet(O)
      BY <1>1, <3>1, FS_Surjection
    <3> QED BY <3>2 DEF O
  <2>3. IsFiniteSet(Of("heartbeat")) /\ IsFiniteSet(Of("tasks"))
    BY <2>2 DEF Loops
  <2> HIDE DEF Of, H
  <2> QED BY <2>1, <2>3, FS_Union
<1>5. IsFiniteSet(L)
  <2> DEFINE f == [q \in late |-> q.rq.tok]
  <2>1. f \in Surjection(late, L)
    BY DEF Surjection
  <2> HIDE DEF f, L
  <2> QED BY <1>1, <2>1, FS_Surjection
<1>6. FreshToken = CHOOSE t \in 1 .. Cardinality(used) + 1 : t \notin used
  BY DEF FreshToken
<1> HIDE DEF A, B, H, L
<1>7. IsFiniteSet(used)
  <2>1. IsFiniteSet(A \cup B)
    BY <1>2, <1>3, FS_Union
  <2>2. IsFiniteSet(A \cup B \cup H)
    BY <1>4, <2>1, FS_Union
  <2> QED BY <1>5, <2>2, FS_Union
<1> HIDE DEF used
<1>8. Cardinality(used) \in Nat
  BY <1>7, FS_CardinalityType
<1>9. \E t \in 1 .. Cardinality(used) + 1 : t \notin used
  <2> DEFINE range == 1 .. Cardinality(used) + 1
  <2>1. Cardinality(range) = Cardinality(used) + 1
    BY <1>8, FS_Interval
  <2>2. range \in SUBSET used => Cardinality(range) <= Cardinality(used)
    BY <1>7, FS_Subset
  <2> HIDE DEF range
  <2>3. \E t \in range : t \notin used
    BY <1>8, <2>1, <2>2
  <2> QED BY <2>3 DEF range
<1>10. FreshToken \in 1 .. Cardinality(used) + 1
  BY <1>6, <1>9
<1> QED BY <1>8, <1>10

\* A node is registered: a row of its own, which stays.
LEMMA Registered ==
  ASSUME Inv, NEW who \in {scope.ident[a] : a \in Agents}, NEW tok \in Nat,
         RegisterNode(who, tok), scope' = scope
  PROVE  /\ nodes' \in [NodeIds -> NodeRows(scope) \cup {None}]
         /\ IdFor(who) \in NodeIds /\ IdFor(who) \in Known'
         /\ Known \subseteq Known'
         /\ OneNode'
<1> DEFINE i == IdFor(who)
           ver == IF i \in Known THEN nodes[i].ver ELSE None
           row == [of |-> who, tok |-> tok, ver |-> ver]
<1>1. nodes \in [NodeIds -> NodeRows(scope) \cup {None}] /\ scope \in Scopes
  BY DEF Inv, TypeOK
<1>2. i \in NodeIds
  BY IdForNode
<1>3. ver \in Nat \cup {None}
  BY <1>1, <1>2 DEF Known, NodeRows
<1>4. nodes' = [nodes EXCEPT ![i] = row]
  BY DEF RegisterNode
<1>5. NodeOf(who) # {} => i \in NodeOf(who)
  BY IdForNode
<1> HIDE DEF i, ver
<1>6. row \in NodeRows(scope) /\ row # None
  <2>1. row \in NodeRows(scope)
    BY <1>3 DEF NodeRows
  <2> QED BY <1>1, <2>1, LinkAssumption
<1>7. row.of = who
  OBVIOUS
<1> HIDE DEF row
<1>8. nodes' \in [NodeIds -> NodeRows(scope) \cup {None}] /\ nodes'[i] = row
      /\ \A j \in NodeIds \ {i} : nodes'[j] = nodes[j]
  BY <1>1, <1>2, <1>4, <1>6
<1>9. Known' = Known \cup {i}
  BY <1>2, <1>6, <1>8 DEF Known
<1>10. ASSUME NEW j \in Known' \ {i}
       PROVE  nodes'[j].of # who
  <2>1. j \in Known /\ nodes'[j] = nodes[j]
    BY <1>8, <1>9, <1>10 DEF Known
  <2>2. CASE nodes[j].of = who
    <3>1. j \in NodeOf(who)
      BY <2>1, <2>2 DEF NodeOf
    <3>2. i \in Known /\ nodes[i].of = who
      BY <1>5, <3>1 DEF NodeOf
    <3>3. i = j
      BY <2>1, <2>2, <3>2 DEF Inv, OneNode
    <3> QED BY <1>10, <3>3
  <2> QED BY <2>1, <2>2
<1>11. OneNode'
  <2>1. SUFFICES ASSUME NEW j \in Known', NEW k \in Known',
                        nodes'[j].of = nodes'[k].of
                 PROVE  j = k
    BY DEF OneNode
  <2>2. nodes'[i].of = who
    BY <1>7, <1>8
  <2>3. CASE j = i \/ k = i
    BY <1>10, <2>1, <2>2, <2>3
  <2>4. CASE j # i /\ k # i
    <3>1. /\ j \in Known /\ nodes'[j] = nodes[j]
          /\ k \in Known /\ nodes'[k] = nodes[k]
      BY <1>8, <1>9, <2>4 DEF Known
    <3> QED BY <2>1, <3>1 DEF Inv, OneNode
  <2> QED BY <2>3, <2>4
<1> QED BY <1>2, <1>8, <1>9, <1>11 DEF i

\* A step that writes nodes or state files, and moves at most one loop.
LEMMA RegistryStep ==
  ASSUME Inv,
         nodes' \in [NodeIds -> NodeRows(scope) \cup {None}],
         Known \subseteq Known', OneNode',
         file' \in [Agents -> [id : NodeIds, tok : Nat] \cup {None, Truncated}],
         Files', loop' \in LoopsType, Loop',
         late' \subseteq late,
         UNCHANGED <<scope, pol, registry, gpu, save, conf, cache, worldVars,
                     countVars, historyVars>>
  PROVE  Inv'
<1> USE DEF worldVars, countVars, historyVars
<1>1. MayMiss' = MayMiss
  BY DEF MayMiss
<1>2. TypeOK'
  BY DEF Inv, TypeOK, LoopsType
<1>3. Bounded' /\ Trusted' /\ RunsVetted'
  BY DEF Inv, Bounded, Trusted, RunsVetted
<1>4. Late'
  <2>1. IsFiniteSet(late')
    BY FS_Subset DEF Inv, Late
  <2>2. \A q \in late' : Named(q.rq, Known') /\ Accounted(q.rq, MayMiss')
    BY <1>1, Grows DEF Inv, Late
  <2> QED BY <2>1, <2>2 DEF Late
<1>5. Devices' /\ Reported'
  BY <1>1 DEF Inv, Devices, Reported
<1> QED BY <1>2, <1>3, <1>4, <1>5 DEF Inv

\* Files name nodes that are known, as long as nodes stay.
LEMMA FilesKept ==
  ASSUME Inv, file' = file, Known \subseteq Known'
  PROVE  /\ Files'
         /\ file' \in [Agents -> [id : NodeIds, tok : Nat]
                                   \cup {None, Truncated}]
BY DEF Inv, TypeOK, Files

LEMMA RegisterInv ==
  ASSUME Inv, NEW a \in Agents, Register(a)
  PROVE  Inv'
<1> DEFINE r == loop[a]["heartbeat"]
           who == scope.ident[a]
           next == [r EXCEPT !.pc = "truncate", !.id = IdFor(who),
                             !.tok = FreshToken]
<1>0. "heartbeat" \in Loops
  BY DEF Loops
<1>1. r \in Request /\ r.pc = "register"
      /\ Vetted(r.reg, vetted) /\ Vetted(r.listed, vetted)
      /\ Accounted(r, MayMiss)
  BY <1>0, RequestOf DEF Register, At
<1>2. UNCHANGED <<pol, registry, gpu, save, file, conf, cache, late, worldVars,
                  countVars, historyVars>>
  BY DEF Register
<1>3. CASE Rejects(who)
  <2>1. nodes' = nodes /\ Step(a, "heartbeat", Idle)
    BY <1>3 DEF Register
  <2> QED BY <1>0, <1>2, <2>1, IdleRequest, IdleFits, NextRequest
       DEF serverVars
<1>4. CASE ~Rejects(who)
  <2>1. RegisterNode(who, FreshToken) /\ Step(a, "heartbeat", next)
    BY <1>4 DEF Register
  <2>2. scope' = scope /\ vetted' = vetted /\ MayMiss' = MayMiss
    BY <1>2 DEF countVars, historyVars, MayMiss
  <2>3. FreshToken \in Nat /\ who \in {scope.ident[b] : b \in Agents}
    BY FreshTokenIsOne
  <2>4. /\ nodes' \in [NodeIds -> NodeRows(scope) \cup {None}]
        /\ IdFor(who) \in NodeIds /\ IdFor(who) \in Known'
        /\ Known \subseteq Known' /\ OneNode'
    BY <2>1, <2>2, <2>3, Registered
  <2> HIDE DEF r, who
  <2>5. next \in Request
    <3>1. [r EXCEPT !.pc = "truncate"] \in Request
      BY <1>1, Pcs, Put
    <3>2. [r EXCEPT !.pc = "truncate", !.id = IdFor(who)] \in Request
      BY <2>4, <3>1, Put
    <3> QED BY <2>3, <3>2, Put
  <2>6. next.pc = "truncate" /\ next.id = IdFor(who) /\ next.gpus = r.gpus
        /\ next.reg = r.reg /\ next.listed = r.listed
    BY <1>1 DEF Request
  <2>7. (next.again => r.again) /\ (~next.err => ~r.err)
    BY <1>1 DEF Request
  <2> HIDE DEF next
  <2>8. Named(next, Known')
    BY <2>4, <2>6 DEF Named
  <2>9. Accounted(next, MayMiss')
    <3>1. Reporting(next) => Reporting(r)
      BY Zenon, <1>1, <2>6, <2>7 DEF Reporting
    <3> QED BY <1>1, <2>2, <2>6, <2>7, <3>1 DEF Accounted
  <2>10. loop \in LoopsType /\ Loop
    BY DEF Inv, TypeOK, LoopsType
  <2>11. loop' \in LoopsType
    BY <1>0, <2>1, <2>5, <2>10, Stepped
  <2>12. Loop'
    BY <1>0, <1>1, <2>1, <2>2, <2>4, <2>5, <2>6, <2>8, <2>9, <2>10, LoopMoves
       DEF MayMiss
  <2>13. Files' /\ file' \in [Agents -> [id : NodeIds, tok : Nat]
                                          \cup {None, Truncated}]
    BY <1>2, <2>4, FilesKept
  <2> QED BY <1>2, <2>2, <2>4, <2>11, <2>12, <2>13, RegistryStep
<1> QED BY <1>3, <1>4

\* A step that writes a state file and gives a loop its next request.
LEMMA FileStep ==
  ASSUME Inv, NEW a \in Agents, NEW next \in Request,
         Step(a, "heartbeat", next), next.id \in Known,
         Vetted(next.reg, vetted), Vetted(next.listed, vetted),
         Accounted(next, MayMiss),
         NEW to \in [id : NodeIds, tok : Nat] \cup {Truncated},
         to # Truncated => to.id \in Known,
         file' = [file EXCEPT ![a] = to],
         UNCHANGED <<serverVars, conf, cache, late, worldVars, countVars,
                     historyVars>>
  PROVE  Inv'
<1>1. /\ UNCHANGED <<scope, nodes, pol, registry, gpu, save, conf, cache,
                     late, worldVars, countVars, historyVars>>
      /\ Known' = Known /\ vetted' = vetted /\ MayMiss' = MayMiss
  BY DEF serverVars, countVars, historyVars, Known, MayMiss
<1>2. "heartbeat" \in Loops /\ Named(next, Known')
  BY <1>1 DEF Loops, Named
<1>3. loop \in LoopsType /\ Loop
  BY DEF Inv, TypeOK, LoopsType
<1>4. loop' \in LoopsType
  BY <1>2, <1>3, Stepped
<1>5. Loop'
  BY <1>1, <1>2, <1>3, LoopMoves
<1>6. file' \in [Agents -> [id : NodeIds, tok : Nat] \cup {None, Truncated}]
  BY DEF Inv, TypeOK
<1>7. Files'
  BY <1>1 DEF Inv, TypeOK, Files
<1>8. nodes' \in [NodeIds -> NodeRows(scope) \cup {None}] /\ OneNode'
  BY <1>1 DEF Inv, TypeOK, OneNode
<1> QED BY <1>1, <1>4, <1>5, <1>6, <1>7, <1>8, RegistryStep

LEMMA StateTruncateInv ==
  ASSUME Inv, NEW a \in Agents, StateTruncate(a)
  PROVE  Inv'
<1> DEFINE r == loop[a]["heartbeat"]
           next == [r EXCEPT !.pc = "write"]
<1>0. "heartbeat" \in Loops
  BY DEF Loops
<1>1. r \in Request /\ r.pc = "truncate" /\ Named(r, Known)
      /\ Vetted(r.reg, vetted) /\ Vetted(r.listed, vetted)
      /\ Accounted(r, MayMiss)
  BY <1>0, RequestOf DEF StateTruncate, At
<1>2. Step(a, "heartbeat", next) /\ file' = [file EXCEPT ![a] = Truncated]
  BY DEF StateTruncate
<1> HIDE DEF r
<1>3. next \in Request
  BY <1>1, Pcs, Put
<1>4. next.pc = "write" /\ next.id = r.id /\ next.gpus = r.gpus
      /\ next.reg = r.reg /\ next.listed = r.listed
  BY <1>1 DEF Request
<1>5. (next.again => r.again) /\ (~next.err => ~r.err)
  BY <1>1 DEF Request
<1> HIDE DEF next
<1>6. next.id \in Known
  BY <1>1, <1>4 DEF Named
<1>7. Reporting(next) => Reporting(r)
  BY Zenon, <1>1, <1>4, <1>5 DEF Reporting
<1>8. Accounted(next, MayMiss)
  BY <1>1, <1>4, <1>5, <1>7 DEF Accounted
<1> QED BY <1>1, <1>2, <1>3, <1>4, <1>6, <1>8, FileStep DEF StateTruncate

LEMMA StateWriteInv ==
  ASSUME Inv, NEW a \in Agents, StateWrite(a)
  PROVE  Inv'
<1> DEFINE r == loop[a]["heartbeat"]
           pc == IF r.again THEN "send" ELSE "fetch"
           next == [r EXCEPT !.pc = pc]
           to == [id |-> r.id, tok |-> r.tok]
<1>0. "heartbeat" \in Loops
  BY DEF Loops
<1>1. r \in Request /\ r.pc = "write" /\ Named(r, Known)
      /\ Vetted(r.reg, vetted) /\ Vetted(r.listed, vetted)
      /\ Accounted(r, MayMiss)
  BY <1>0, RequestOf DEF StateWrite, At
<1>2. Step(a, "heartbeat", next) /\ file' = [file EXCEPT ![a] = to]
  BY DEF StateWrite
<1>3. (pc = "send" /\ r.again) \/ pc = "fetch"
  OBVIOUS
<1>4. r.id \in Known /\ r.id \in NodeIds /\ r.tok \in Nat
  BY <1>1 DEF Named, Known, Request
<1> HIDE DEF r, pc
<1>5. next \in Request
  BY <1>1, <1>3, Pcs, Put
<1>6. next.pc = pc /\ next.id = r.id /\ next.gpus = r.gpus
      /\ next.reg = r.reg /\ next.listed = r.listed
  BY <1>1 DEF Request
<1>7. ~next.err => ~r.err
  BY <1>1 DEF Request
<1>8. to \in [id : NodeIds, tok : Nat] /\ to.id \in Known
  BY <1>4
<1> HIDE DEF next, to
<1>9. Reporting(next) => Reporting(r)
  BY Zenon, <1>1, <1>3, <1>6 DEF Reporting
<1>10. Accounted(next, MayMiss)
  BY <1>1, <1>3, <1>6, <1>7, <1>9 DEF Accounted
<1> QED BY <1>1, <1>2, <1>4, <1>5, <1>6, <1>8, <1>10, FileStep DEF StateWrite

-----------------------------------------------------------------------------
(* Heartbeats that are recorded, by the loop that waits or later. *)

LEMMA NoRow == None \notin GpuRows
BY LinkAssumption

\* The rows of a device that is reported, and of one that is not.
LEMMA RowWritten ==
  ASSUME NEW row \in GpuRows \cup {None}, NEW at \in Nat
  PROVE  /\ Upsert(row, at) \in GpuRows /\ ~Upsert(row, at).missing
         /\ Upsert(row, at).at = at
         /\ MarkMissing(row, at) \in GpuRows \cup {None}
         /\ MarkMissing(row, at) = row
              \/ (MarkMissing(row, at).missing /\ row # None)
         /\ row # None /\ row.at < at => MarkMissing(row, at).missing
         /\ row = None => MarkMissing(row, at) = None
<1>1. Upsert(row, at) \in GpuRows /\ ~Upsert(row, at).missing
      /\ Upsert(row, at).at = at
  BY DEF Upsert, GpuRows
<1>2. CASE row # None /\ row.at < at
  <2>1. MarkMissing(row, at) = [missing |-> TRUE, at |-> at]
    BY <1>2 DEF MarkMissing
  <2>2. MarkMissing(row, at) \in GpuRows /\ MarkMissing(row, at).missing
    BY <2>1 DEF GpuRows
  <2>3. row.at \in Nat
    BY <1>2 DEF GpuRows
  <2> QED BY <1>1, <1>2, <2>2, <2>3
<1>3. CASE ~(row # None /\ row.at < at)
  BY <1>1, <1>3 DEF MarkMissing
<1> QED BY <1>2, <1>3

LEMMA HeartbeatRecorded ==
  ASSUME Inv, NEW r \in Request, r.id \in Known, Accounted(r, MayMiss),
         r.pc = "record", RecordHeartbeat(r),
         UNCHANGED <<scope, there, gone, hidden>>
  PROVE  /\ nodes' \in [NodeIds -> NodeRows(scope) \cup {None}]
         /\ Known' = Known /\ OneNode'
         /\ gpu' \in [NodeIds -> [Gpus -> GpuRows \cup {None}]]
         /\ last' \in [NodeIds -> [gpus : SUBSET Gpus, err : BOOLEAN,
                                   at : Nat, ordered : BOOLEAN] \cup {None}]
         /\ Devices' /\ Reported'
<1> DEFINE i == r.id
           row == [nodes[i] EXCEPT !.ver = r.ver]
           up == [d \in Gpus |-> IF d \in r.gpus THEN Upsert(gpu[i][d], r.at)
                                 ELSE gpu[i][d]]
           all == [d \in Gpus |-> MarkMissing(up[d], r.at)]
           ordered == \A d \in Gpus :
                        gpu[i][d] # None => gpu[i][d].at < r.at
           report == [gpus |-> r.gpus, err |-> r.err, at |-> r.at,
                      ordered |-> ordered]
<1>1. i \in NodeIds /\ nodes[i] # None
  BY DEF Known
<1>2. /\ nodes \in [NodeIds -> NodeRows(scope) \cup {None}]
      /\ gpu \in [NodeIds -> [Gpus -> GpuRows \cup {None}]]
      /\ last \in [NodeIds -> [gpus : SUBSET Gpus, err : BOOLEAN, at : Nat,
                               ordered : BOOLEAN] \cup {None}]
      /\ scope \in Scopes /\ MayMiss' = MayMiss
  BY DEF Inv, TypeOK, MayMiss
<1>3. /\ r.ver \in Nat /\ r.at \in Nat /\ r.gpus \in SUBSET Gpus
      /\ r.err \in BOOLEAN
  BY DEF Request
<1>4. nodes' = [nodes EXCEPT ![i] = row]
  BY DEF RecordHeartbeat
<1>5. gpu' = [gpu EXCEPT ![i] = IF r.err THEN up ELSE all]
  BY DEF RecordHeartbeat, MarksMissing
<1>6. last' = [last EXCEPT ![i] = report]
  BY DEF RecordHeartbeat
<1>7. row \in NodeRows(scope) /\ row.of = nodes[i].of
  BY <1>1, <1>2, <1>3 DEF NodeRows
<1>8. row # None
  BY <1>2, <1>7, LinkAssumption
<1>9. \A d \in Gpus : gpu[i][d] \in GpuRows \cup {None}
  BY <1>1, <1>2
<1>10. up \in [Gpus -> GpuRows \cup {None}]
  BY <1>3, <1>9, RowWritten
<1>11. ASSUME NEW d \in Gpus
       PROVE  /\ up[d] \in GpuRows \cup {None}
              /\ all[d] = MarkMissing(up[d], r.at)
              /\ d \in r.gpus => /\ up[d] \in GpuRows /\ ~up[d].missing
                                 /\ up[d].at = r.at
              /\ d \notin r.gpus => up[d] = gpu[i][d]
  BY <1>3, <1>9, <1>10, RowWritten
<1>12. all \in [Gpus -> GpuRows \cup {None}]
  BY <1>3, <1>11, RowWritten
<1>13. report \in [gpus : SUBSET Gpus, err : BOOLEAN, at : Nat,
                   ordered : BOOLEAN]
  BY <1>3
<1>14. report.gpus = r.gpus /\ report.err = r.err /\ report.ordered = ordered
  OBVIOUS
<1> HIDE DEF i, row, up, all, ordered, report
<1>15. nodes' \in [NodeIds -> NodeRows(scope) \cup {None}]
       /\ nodes'[i] = row /\ \A j \in NodeIds \ {i} : nodes'[j] = nodes[j]
  BY <1>1, <1>2, <1>4, <1>7
<1>16. Known' = Known /\ OneNode'
  <2>1. Known' = Known
    BY <1>1, <1>8, <1>15 DEF Known
  <2>2. \A j \in Known : nodes'[j].of = nodes[j].of
    BY <1>7, <1>15 DEF Known
  <2> QED BY <2>1, <2>2 DEF Inv, OneNode
<1>17. gpu' \in [NodeIds -> [Gpus -> GpuRows \cup {None}]]
       /\ gpu'[i] = (IF r.err THEN up ELSE all)
       /\ \A j \in NodeIds \ {i} : gpu'[j] = gpu[j]
  BY <1>1, <1>2, <1>5, <1>10, <1>12
<1>18. last' \in [NodeIds -> [gpus : SUBSET Gpus, err : BOOLEAN, at : Nat,
                              ordered : BOOLEAN] \cup {None}]
       /\ last'[i] = report
       /\ \A j \in NodeIds \ {i} : last'[j] = last[j]
  BY <1>1, <1>2, <1>6, <1>13
<1>19. Devices'
  <2>1. Devices
    BY DEF Inv
  <2>2. ASSUME NEW d \in Gpus, up[d] # None, up[d].missing
        PROVE  d \in MayMiss
    <3>1. up[d] = gpu[i][d]
      BY <1>11, <2>2
    <3> QED BY <1>1, <2>1, <2>2, <3>1 DEF Devices
  <2>3. ASSUME NEW d \in Gpus, ~r.err, all[d] # None, all[d].missing
        PROVE  d \in MayMiss
    <3>1. CASE d \in r.gpus
      <4>1. all[d] = up[d]
        BY <1>3, <1>11, <3>1 DEF MarkMissing
      <4> QED BY <1>11, <2>3, <3>1, <4>1
    <3>2. CASE d \notin r.gpus
      BY <2>3, <3>2 DEF Accounted, Reporting
    <3> QED BY <3>1, <3>2
  <2>4. ASSUME NEW j \in NodeIds, NEW d \in Gpus,
               gpu'[j][d] # None, gpu'[j][d].missing
        PROVE  d \in MayMiss
    <3>1. CASE j # i
      BY <1>17, <2>1, <2>4, <3>1 DEF Devices
    <3>2. CASE j = i /\ r.err
      BY <1>17, <2>2, <2>4, <3>2
    <3>3. CASE j = i /\ ~r.err
      BY <1>17, <2>3, <2>4, <3>3
    <3> QED BY <3>1, <3>2, <3>3
  <2>5. Gpus \ there' \subseteq gone'
    BY <2>1 DEF Devices
  <2> QED BY <1>2, <2>4, <2>5 DEF Devices
<1>20. Reported'
  <2>1. ASSUME ~r.err, ordered, NEW d \in Gpus
        PROVE  (all[d] # None /\ ~all[d].missing) <=> d \in r.gpus
    <3>1. CASE d \in r.gpus
      <4>1. up[d] # None
        <5>1. up[d] \in GpuRows
          BY <1>11, <3>1
        <5> QED BY <5>1, NoRow
      <4>2. all[d] = up[d]
        BY <1>3, <1>11, <3>1 DEF MarkMissing
      <4> QED BY <1>11, <3>1, <4>1, <4>2
    <3>2. CASE d \notin r.gpus
      <4>1. up[d] # None => up[d].at < r.at
        BY <1>11, <2>1, <3>2 DEF ordered
      <4>2. up[d] # None => all[d].missing
        BY <1>3, <1>11, <4>1, RowWritten
      <4>3. up[d] = None => all[d] = None
        BY <1>3, <1>11, RowWritten
      <4> QED BY <3>2, <4>2, <4>3
    <3> QED BY <3>1, <3>2
  <2>2. ASSUME NEW j \in NodeIds,
               last'[j] # None, ~last'[j].err, last'[j].ordered
        PROVE  {d \in Gpus : gpu'[j][d] # None /\ ~gpu'[j][d].missing}
                 = last'[j].gpus
    <3>1. CASE j # i
      <4>1. last'[j] = last[j] /\ gpu'[j] = gpu[j]
        BY <1>17, <1>18, <3>1
      <4> QED BY <2>2, <4>1 DEF Inv, Reported
    <3>2. CASE j = i
      <4>1. ~r.err /\ ordered /\ last'[j].gpus = r.gpus
        BY <1>14, <1>18, <2>2, <3>2
      <4>2. gpu'[j] = all
        BY <1>17, <3>2, <4>1
      <4> QED BY <1>3, <2>1, <4>1, <4>2
    <3> QED BY <3>1, <3>2
  <2> QED BY <2>2 DEF Reported
<1> QED BY <1>15, <1>16, <1>17, <1>18, <1>19, <1>20

\* What is left of Inv after a heartbeat was recorded, whoever sent it.
LEMMA AfterRecord ==
  ASSUME Inv, NEW r \in Request, r.id \in Known, Accounted(r, MayMiss),
         r.pc = "record", RecordHeartbeat(r),
         loop' \in LoopsType, Loop', late' \subseteq late,
         UNCHANGED <<pol, registry, save, file, conf, cache, worldVars,
                     countVars, gone, hidden, vetted, ran, overtaken>>
  PROVE  Inv'
<1> USE DEF worldVars, countVars
<1>1. /\ nodes' \in [NodeIds -> NodeRows(scope) \cup {None}]
      /\ Known' = Known /\ OneNode'
      /\ gpu' \in [NodeIds -> [Gpus -> GpuRows \cup {None}]]
      /\ last' \in [NodeIds -> [gpus : SUBSET Gpus, err : BOOLEAN,
                                at : Nat, ordered : BOOLEAN] \cup {None}]
      /\ Devices' /\ Reported'
  BY HeartbeatRecorded
<1>2. MayMiss' = MayMiss
  BY DEF MayMiss
<1>3. TypeOK'
  BY <1>1 DEF Inv, TypeOK, LoopsType
<1>4. Bounded' /\ Files' /\ Trusted' /\ RunsVetted'
  BY <1>1 DEF Inv, Bounded, Files, Trusted, RunsVetted
<1>5. Late'
  <2>1. IsFiniteSet(late')
    BY FS_Subset DEF Inv, Late
  <2> QED BY <1>1, <1>2, <2>1 DEF Inv, Late
<1> QED BY <1>1, <1>3, <1>4, <1>5 DEF Inv

LEMMA RecordInv ==
  ASSUME Inv, NEW a \in Agents, Record(a)
  PROVE  Inv'
<1> DEFINE r == loop[a]["heartbeat"]
           next == [r EXCEPT !.pc = "list", !.gpus = {}, !.at = 0,
                             !.err = FALSE, !.ver = 0]
<1>0. "heartbeat" \in Loops
  BY DEF Loops
<1>1. r \in Request /\ r.pc = "record" /\ Named(r, Known)
      /\ Vetted(r.reg, vetted) /\ Vetted(r.listed, vetted)
      /\ Accounted(r, MayMiss)
  BY <1>0, RequestOf DEF Record, At
<1>2. RecordHeartbeat(r) /\ Step(a, "heartbeat", next)
  BY DEF Record
<1>3. UNCHANGED <<pol, registry, save, file, conf, cache, late, worldVars,
                  countVars, gone, hidden, vetted, ran, overtaken>>
  BY DEF Record
<1> HIDE DEF r
<1>4. next \in Request
  <2>1. [r EXCEPT !.pc = "list", !.gpus = {}] \in Request
    BY <1>1, Pcs, Put
  <2>2. [r EXCEPT !.pc = "list", !.gpus = {}, !.at = 0] \in Request
    BY <2>1, Put
  <2>3. [r EXCEPT !.pc = "list", !.gpus = {}, !.at = 0, !.err = FALSE]
          \in Request
    BY <2>2, Put
  <2> QED BY <2>3, Put
<1>5. next.pc = "list" /\ next.id = r.id
      /\ next.reg = r.reg /\ next.listed = r.listed
  BY <1>1 DEF Request
<1> HIDE DEF next
<1>6. r.id \in Known
  BY <1>1 DEF Named
<1>7. Known' = Known
  BY <1>1, <1>2, <1>3, <1>6, HeartbeatRecorded DEF worldVars, countVars
<1>8. vetted' = vetted /\ MayMiss' = MayMiss
  BY <1>3 DEF MayMiss
<1>9. Named(next, Known') /\ Accounted(next, MayMiss')
  BY <1>5, <1>6, <1>7 DEF Named, Accounted, Reporting
<1>10. loop \in LoopsType /\ Loop
  BY DEF Inv, TypeOK, LoopsType
<1>11. loop' \in LoopsType
  BY <1>0, <1>2, <1>4, <1>10, Stepped
<1>12. Loop'
  BY <1>0, <1>1, <1>2, <1>4, <1>5, <1>7, <1>8, <1>9, <1>10, LoopMoves
<1> QED BY <1>1, <1>2, <1>3, <1>6, <1>11, <1>12, AfterRecord

\* The loops keep what they know when the server's tables grow.
LEMMA LoopKept ==
  ASSUME Inv, loop' = loop, Known \subseteq Known', vetted \subseteq vetted',
         MayMiss \subseteq MayMiss'
  PROVE  loop' \in LoopsType /\ Loop'
<1>1. loop \in LoopsType
  BY DEF Inv, TypeOK, LoopsType
<1>2. ASSUME NEW b \in Agents, NEW m \in Loops
      PROVE  /\ Named(loop[b][m], Known')
             /\ Vetted(loop[b][m].reg, vetted')
             /\ Vetted(loop[b][m].listed, vetted')
  <2>1. /\ Named(loop[b][m], Known) /\ Vetted(loop[b][m].reg, vetted)
        /\ Vetted(loop[b][m].listed, vetted)
    BY DEF Inv, Loop
  <2> QED BY <2>1, Grows
<1>3. ASSUME NEW b \in Agents
      PROVE  Accounted(loop[b]["heartbeat"], MayMiss')
  <2>1. Accounted(loop[b]["heartbeat"], MayMiss)
    BY DEF Inv, Loop
  <2> QED BY <2>1, Grows
<1> QED BY <1>1, <1>2, <1>3 DEF Loop

LEMMA LateRequestInv ==
  ASSUME Inv, NEW q \in late, LateRequest(q)
  PROVE  Inv'
<1>1. q \in [agent : Agents, rq : Request] /\ Named(q.rq, Known)
      /\ Accounted(q.rq, MayMiss) /\ late \subseteq [agent : Agents, rq : Request]
  BY DEF Inv, TypeOK, Late
<1>2. q.rq \in Request /\ q.agent \in Agents
  BY <1>1
<1>3. /\ UNCHANGED <<pol, registry, save, file, conf, cache, loop, worldVars,
                     countVars, gone, hidden, vetted, ran, overtaken>>
      /\ vetted' = vetted /\ MayMiss' = MayMiss /\ scope' = scope
  BY DEF LateRequest, MayMiss, countVars
<1>4. CASE /\ q.rq.pc = "register"
           /\ RegisterNode(scope.ident[q.agent], FreshToken)
           /\ late' = late \ {q}
           /\ UNCHANGED <<gpu, last>>
  <2> DEFINE who == scope.ident[q.agent]
  <2>1. FreshToken \in Nat /\ who \in {scope.ident[b] : b \in Agents}
    BY <1>2, FreshTokenIsOne
  <2>2. /\ nodes' \in [NodeIds -> NodeRows(scope) \cup {None}]
        /\ Known \subseteq Known' /\ OneNode'
    BY <1>3, <1>4, <2>1, Registered
  <2>3. loop' \in LoopsType /\ Loop'
    BY <1>3, <2>2, LoopKept
  <2>4. Files' /\ file' \in [Agents -> [id : NodeIds, tok : Nat]
                                         \cup {None, Truncated}]
    BY <1>3, <2>2, FilesKept
  <2>5. UNCHANGED <<scope, pol, registry, gpu, save, conf, cache, worldVars,
                    countVars, historyVars>>
        /\ late' \subseteq late
    BY <1>3, <1>4 DEF historyVars
  <2> QED BY <2>2, <2>3, <2>4, <2>5, RegistryStep
<1>5. CASE /\ q.rq.pc = "send"
           /\ late' = (late \ {q}) \cup {[q EXCEPT !.rq.pc = "record"]}
           /\ UNCHANGED <<nodes, gpu, last>>
  <2> DEFINE rq == [q.rq EXCEPT !.pc = "record"]
             new == [q EXCEPT !.rq = rq]
  <2>1. late' = (late \ {q}) \cup {new}
    BY <1>5
  <2>2. rq \in Request
    BY <1>2, Pcs, Put
  <2>3. rq.pc = "record" /\ rq.id = q.rq.id /\ rq.gpus = q.rq.gpus
    BY <1>2 DEF Request
  <2>4. ~rq.err => ~q.rq.err
    BY <1>2 DEF Request
  <2> HIDE DEF rq
  <2>5. new \in [agent : Agents, rq : Request] /\ new.rq = rq
    BY <1>1, <2>2
  <2> HIDE DEF new
  <2>6. Known' = Known
    BY <1>5 DEF Known
  <2>7. Named(rq, Known')
    BY <1>1, <1>5, <2>3, <2>6 DEF Named
  <2>8. Accounted(rq, MayMiss')
    BY <1>1, <1>3, <1>5, <2>3, <2>4 DEF Accounted, Reporting
  <2>9. late' \subseteq [agent : Agents, rq : Request]
    BY <1>1, <2>1, <2>5
  <2>10. Late'
    <3>1. IsFiniteSet(late')
      BY <2>1, FS_AddElement, FS_RemoveElement DEF Inv, Late
    <3>2. \A p \in late' : Named(p.rq, Known') /\ Accounted(p.rq, MayMiss')
      BY <1>3, <2>1, <2>5, <2>6, <2>7, <2>8 DEF Inv, Late
    <3> QED BY <3>1, <3>2 DEF Late
  <2>11. UNCHANGED <<scope, nodes, pol, registry, gpu, save, file, conf, cache,
                     loop, there, script, clock, faults, saves, changes, last,
                     gone, hidden, vetted, ran, overtaken>>
    BY <1>3, <1>5 DEF worldVars, countVars
  <2>12. TypeOK'
    BY <2>9, <2>11 DEF Inv, TypeOK
  <2>13. OneNode' /\ Bounded' /\ Files' /\ Trusted' /\ RunsVetted'
    BY <2>6, <2>11 DEF Inv, OneNode, Bounded, Files, Trusted, RunsVetted
  <2>14. Loop'
    BY <1>3, <2>6, <2>11, LoopKept
  <2>15. Devices' /\ Reported'
    BY <1>3, <2>11 DEF Inv, Devices, Reported
  <2> QED BY <2>10, <2>12, <2>13, <2>14, <2>15 DEF Inv
<1>6. CASE q.rq.pc = "record" /\ RecordHeartbeat(q.rq) /\ late' = late \ {q}
  <2>1. q.rq.id \in Known
    BY <1>1, <1>6 DEF Named
  <2>2. Known' = Known
    BY <1>1, <1>2, <1>3, <1>6, <2>1, HeartbeatRecorded
       DEF worldVars, countVars
  <2>3. loop' \in LoopsType /\ Loop'
    BY <1>3, <2>2, LoopKept
  <2> QED BY <1>1, <1>2, <1>3, <1>6, <2>1, <2>3, AfterRecord
<1> QED BY <1>4, <1>5, <1>6 DEF LateRequest

-----------------------------------------------------------------------------
(* Configurations and policies. *)

LEMMA ApplyInv ==
  ASSUME Inv, NEW a \in Agents, NEW l \in Loops, Apply(a, l)
  PROVE  Inv'
<1> DEFINE r == loop[a][l]
           new == [ver |-> r.v, set |-> Layered(r.g, r.n)]
<1>1. r \in Request /\ Vetted(r.reg, vetted) /\ Vetted(r.listed, vetted)
  BY RequestOf
<1>2. /\ conf' = conf \/ conf' = [conf EXCEPT ![a] = new]
      /\ Step(a, l, Idle)
      /\ UNCHANGED <<serverVars, file, late, worldVars, countVars, historyVars>>
  BY DEF Apply
<1>3. \/ cache' = cache
      \/ cache' = [cache EXCEPT ![a] = r.reg]
      \/ cache' = [cache EXCEPT ![a] = r.listed]
  BY DEF Apply
<1>4. r.v \in Nat /\ r.g \in Policies /\ r.n \in Policies
      /\ r.reg \in Registries /\ r.listed \in Registries
  BY <1>1 DEF Request
<1> HIDE DEF r
<1>5. Layered(r.g, r.n) \in Policies
  BY <1>4 DEF Layered, Policies
<1>6. new \in [ver : Nat, set : Policies]
  BY <1>4, <1>5
<1> HIDE DEF new
<1>7. conf' \in [Agents -> [ver : Nat, set : Policies]]
  BY <1>2, <1>6 DEF Inv, TypeOK
<1>8. cache' \in [Agents -> Registries]
      /\ \A b \in Agents : Vetted(cache'[b], vetted)
  <2>1. cache \in [Agents -> Registries]
        /\ \A b \in Agents : Vetted(cache[b], vetted)
    BY DEF Inv, TypeOK, Trusted
  <2> QED BY <1>1, <1>3, <1>4, <2>1
<1>9. /\ UNCHANGED <<scope, nodes, pol, registry, gpu, save, file, late, there,
                     script, clock, faults, saves, changes, last, gone, hidden,
                     vetted, ran, overtaken>>
      /\ Known' = Known /\ MayMiss' = MayMiss
  BY <1>2 DEF serverVars, worldVars, countVars, historyVars, Known, MayMiss
<1>10. loop \in LoopsType /\ Loop
  BY DEF Inv, TypeOK, LoopsType
<1>11. loop' \in LoopsType
  BY <1>2, <1>10, IdleRequest, Stepped
<1>12. Loop'
  BY <1>2, <1>9, <1>10, IdleRequest, IdleFits, LoopMoves
<1>13. TypeOK'
  BY <1>7, <1>8, <1>9, <1>11 DEF Inv, TypeOK, LoopsType
<1>14. OneNode' /\ Bounded' /\ Files' /\ Late' /\ RunsVetted'
  BY <1>9 DEF Inv, OneNode, Bounded, Files, Late, RunsVetted
<1>15. Trusted'
  BY <1>8, <1>9 DEF Inv, Trusted
<1>16. Devices' /\ Reported'
  BY <1>9 DEF Inv, Devices, Reported
<1> QED BY <1>12, <1>13, <1>14, <1>15, <1>16 DEF Inv

\* A bounded set of numbers that is not empty has a greatest one.
LEMMA Greatest ==
  ASSUME NEW S \in SUBSET Nat, S # {}, NEW n \in Nat, \A x \in S : x <= n
  PROVE  \E x \in S : \A y \in S : x >= y
<1> DEFINE Above == {k \in Nat : \A x \in S : x <= k}
<1>1. IsWellFoundedOn(OpToRel(<, Nat), Nat)
  BY NatLessThanWellFounded
<1>2. Above \subseteq Nat /\ Above # {}
  OBVIOUS
<1>3. PICK m \in Above : \A k \in Above : ~(<<k, m>> \in OpToRel(<, Nat))
  <2> HIDE DEF Above
  <2> QED BY <1>1, <1>2, WFMin
<1>4. \A k \in Above : ~(k < m)
  BY <1>3 DEF OpToRel
<1>5. ASSUME m \notin S PROVE FALSE
  <2>1. \A x \in S : x < m
    BY <1>5
  <2>2. m - 1 \in Nat
    <3>1. m \in Nat
      OBVIOUS
    <3>2. PICK x \in S : x < m
      BY <2>1
    <3>3. x \in Nat
      OBVIOUS
    <3> QED BY <3>1, <3>2, <3>3
  <2>3. \A x \in S : x <= m - 1
    BY <2>1
  <2> QED BY <1>4, <2>2, <2>3
<1> QED BY <1>5

LEMMA SaveReadInv ==
  ASSUME Inv, NEW s \in Savers, SaveRead(s)
  PROVE  Inv'
<1> DEFINE saved == {q \in DOMAIN pol : pol[q] # None}
           vers == {pol[p].ver : p \in saved}
           top == IF vers = {} THEN AGENT_CONFIG_VERSION
                  ELSE CHOOSE v \in vers : \A w \in vers : v >= w
<1>1. save' = [save EXCEPT ![s] = top + 1] /\ saves' = saves + 1
  BY DEF SaveRead
<1>2. UNCHANGED <<scope, nodes, pol, registry, gpu, file, conf, cache, loop,
                  late, there, script, clock, faults, changes, last, gone,
                  hidden, vetted, ran, overtaken>>
      /\ Known' = Known /\ MayMiss' = MayMiss
  BY DEF SaveRead, worldVars, historyVars, Known, MayMiss
<1>3. /\ pol \in [NodeIds \cup {Global} -> [set : Policies, ver : Nat]
                                             \cup {None}]
      /\ save \in [Savers -> Nat \cup {None}] /\ saves \in Nat
      /\ Bounded
  BY DEF Inv, TypeOK
<1>4. vers \in SUBSET Nat /\ \A v \in vers : v <= saves + 1
  BY <1>3 DEF Bounded
<1>5. top \in Nat /\ top <= saves + 1
  <2>1. CASE vers = {}
    BY <1>3, <2>1 DEF AGENT_CONFIG_VERSION
  <2>2. CASE vers # {}
    <3> HIDE DEF vers
    <3>1. \E v \in vers : \A w \in vers : v >= w
      <4>1. saves + 1 \in Nat
        BY <1>3
      <4> QED BY <1>4, <2>2, <4>1, Greatest
    <3>2. top \in vers
      BY <2>2, <3>1
    <3> QED BY <1>4, <3>2
  <2> QED BY <2>1, <2>2
<1> HIDE DEF top
<1>6. TypeOK'
  <2>1. save' \in [Savers -> Nat \cup {None}] /\ saves' \in Nat
    BY <1>1, <1>3, <1>5
  <2> QED BY <1>2, <2>1 DEF Inv, TypeOK
<1>7. Bounded'
  <2>1. \A p \in DOMAIN pol : pol[p] # None => pol[p].ver <= saves + 1 + 1
    BY <1>3 DEF Bounded
  <2>2. ASSUME NEW t \in Savers, save'[t] # None
        PROVE  save'[t] <= saves + 1 + 1
    <3>1. CASE t = s
      BY <1>1, <1>3, <1>5, <3>1
    <3>2. CASE t # s
      <4>1. save'[t] = save[t] /\ save[t] \in Nat /\ save[t] <= saves + 1
        BY <1>1, <1>3, <2>2, <3>2 DEF Bounded
      <4> QED BY <1>3, <4>1
    <3> QED BY <3>1, <3>2
  <2> QED BY <1>1, <1>2, <2>1, <2>2 DEF Bounded
<1>8. Loop'
  BY <1>2, LoopKept
<1>9. OneNode' /\ Files' /\ Trusted' /\ Late' /\ RunsVetted'
  BY <1>2 DEF Inv, OneNode, Files, Trusted, Late, RunsVetted
<1>10. Devices' /\ Reported'
  BY <1>2 DEF Inv, Devices, Reported
<1> QED BY <1>6, <1>7, <1>8, <1>9, <1>10 DEF Inv

LEMMA SaveWriteInv ==
  ASSUME Inv, NEW s \in Savers, SaveWrite(s)
  PROVE  Inv'
<1>1. PICK p \in Known \cup {Global}, set \in Policies :
        /\ pol' = [pol EXCEPT ![p] = [set |-> set, ver |-> save[s]]]
        /\ overtaken' = (overtaken \/ VersionOf(p, 0) > save[s])
  BY DEF SaveWrite
<1>2. save[s] # None /\ save' = [save EXCEPT ![s] = None]
  BY DEF SaveWrite
<1>3. UNCHANGED <<scope, nodes, registry, gpu, file, conf, cache, loop, late,
                  there, script, clock, faults, saves, changes, last, gone,
                  hidden, vetted, ran>>
      /\ Known' = Known /\ MayMiss' = MayMiss
  BY DEF SaveWrite, worldVars, countVars, Known, MayMiss
<1>4. /\ pol \in [NodeIds \cup {Global} -> [set : Policies, ver : Nat]
                                             \cup {None}]
      /\ save \in [Savers -> Nat \cup {None}]
      /\ Bounded
  BY DEF Inv, TypeOK
<1>5. save[s] \in Nat /\ save[s] <= saves + 1 /\ p \in NodeIds \cup {Global}
  BY <1>2, <1>4 DEF Bounded, Known
<1> DEFINE row == [set |-> set, ver |-> save[s]]
<1>6. row \in [set : Policies, ver : Nat] /\ row.ver = save[s]
  BY <1>5
<1> HIDE DEF row
<1>7. pol' = [pol EXCEPT ![p] = row]
  BY <1>1 DEF row
<1>8. pol' \in [NodeIds \cup {Global} -> [set : Policies, ver : Nat]
                                           \cup {None}]
      /\ pol'[p] = row
      /\ \A q \in (NodeIds \cup {Global}) \ {p} : pol'[q] = pol[q]
  BY <1>4, <1>5, <1>6, <1>7
<1>9. TypeOK'
  <2>1. save' \in [Savers -> Nat \cup {None}]
    BY <1>2, <1>4
  <2>2. overtaken' \in BOOLEAN
    BY <1>1
  <2> QED BY <1>3, <1>8, <2>1, <2>2 DEF Inv, TypeOK
<1>10. Bounded'
  <2>1. \A q \in DOMAIN pol' : pol'[q] # None => pol'[q].ver <= saves + 1
    BY <1>4, <1>5, <1>6, <1>8 DEF Bounded
  <2>2. \A t \in Savers : save'[t] # None => save'[t] <= saves + 1
    BY <1>2, <1>4 DEF Bounded
  <2> QED BY <1>3, <2>1, <2>2 DEF Bounded
<1>11. Loop'
  BY <1>3, LoopKept
<1>12. OneNode' /\ Files' /\ Trusted' /\ Late' /\ RunsVetted'
  BY <1>3 DEF Inv, OneNode, Files, Trusted, Late, RunsVetted
<1>13. Devices' /\ Reported'
  BY <1>3 DEF Inv, Devices, Reported
<1> QED BY <1>9, <1>10, <1>11, <1>12, <1>13 DEF Inv

-----------------------------------------------------------------------------
(* The registry, devices, scripts and time. *)

\* A step that changes no request and at most the registry or the devices.
LEMMA WorldStep ==
  ASSUME Inv, registry' \in Registries, Vetted(registry, vetted)',
         vetted \subseteq vetted', vetted' \subseteq Collectors \X Hashes,
         there' \subseteq Gpus, Gpus \ there' \subseteq gone',
         gone \subseteq gone', gone' \subseteq Gpus,
         script' \in [Collectors -> Hashes], clock' \in 0 .. scope.seconds,
         changes' \in Nat,
         UNCHANGED <<scope, nodes, pol, gpu, save, file, conf, cache, loop,
                     late, faults, saves, last, hidden, ran, overtaken>>
  PROVE  Inv'
<1>1. Known' = Known /\ MayMiss \subseteq MayMiss'
  BY DEF Known, MayMiss
<1>2. TypeOK'
  BY DEF Inv, TypeOK
<1>3. OneNode' /\ Bounded' /\ Files'
  BY <1>1 DEF Inv, OneNode, Bounded, Files
<1>4. Trusted'
  <2>1. \A b \in Agents : Vetted(cache[b], vetted)
    BY DEF Inv, Trusted
  <2>2. \A b \in Agents : Vetted(cache[b], vetted')
    BY <2>1, Grows
  <2> QED BY <2>2 DEF Trusted
<1>5. Loop'
  BY <1>1, LoopKept
<1>6. Late'
  <2>1. Late
    BY DEF Inv
  <2> QED BY <1>1, <2>1, Grows DEF Late
<1>7. Devices'
  <2>1. Devices
    BY DEF Inv
  <2> QED BY <1>1, <2>1 DEF Devices
<1>8. Reported' /\ RunsVetted'
  BY DEF Inv, Reported, RunsVetted
<1> QED BY <1>2, <1>3, <1>4, <1>5, <1>6, <1>7, <1>8 DEF Inv

\* What these steps find.
LEMMA WorldNow ==
  ASSUME Inv
  PROVE  /\ registry \in Registries /\ Vetted(registry, vetted)
         /\ vetted \subseteq Collectors \X Hashes
         /\ there \subseteq Gpus /\ Gpus \ there \subseteq gone
         /\ gone \subseteq Gpus /\ script \in [Collectors -> Hashes]
         /\ clock \in 0 .. scope.seconds /\ changes \in Nat
         /\ scope \in Scopes
BY DEF Inv, TypeOK, Trusted, Devices

LEMMA RegistryInv ==
  ASSUME Inv, RegisterCollector \/ DeleteCollector
  PROVE  Inv'
<1>1. registry \in [Collectors -> Entry] /\ Vetted(registry, vetted)
      /\ vetted \subseteq Collectors \X Hashes /\ changes \in Nat
  BY WorldNow DEF Registries
<1>2. UNCHANGED <<scope, nodes, pol, gpu, save, file, conf, cache, loop, late,
                  there, script, clock, faults, saves, last, gone, hidden, ran,
                  overtaken>>
  BY DEF RegisterCollector, DeleteCollector, worldVars, historyVars
<1>3. changes' \in Nat
  BY <1>1 DEF RegisterCollector, DeleteCollector, CanChange
<1>4. PICK c \in Collectors, e \in Entry :
        /\ registry' = [registry EXCEPT ![c] = e]
        /\ vetted \subseteq vetted' /\ vetted' \subseteq Collectors \X Hashes
        /\ e # None /\ e.on => <<c, e.hash>> \in vetted'
  <2>1. CASE RegisterCollector
    <3>1. PICK c \in Collectors, on \in BOOLEAN, h \in Hashes :
            /\ registry' = [registry EXCEPT ![c] = [on |-> on, hash |-> h]]
            /\ vetted' = IF on THEN vetted \cup {<<c, h>>} ELSE vetted
      BY <2>1 DEF RegisterCollector
    <3> DEFINE e == [on |-> on, hash |-> h]
    <3>2. e \in Entry /\ e.hash = h /\ (e.on => on)
      BY DEF Entry
    <3>3. on => <<c, h>> \in vetted'
      BY <3>1
    <3>4. vetted \subseteq vetted' /\ vetted' \subseteq Collectors \X Hashes
      BY <1>1, <3>1
    <3> HIDE DEF e
    <3> QED BY <3>1, <3>2, <3>3, <3>4 DEF e
  <2>2. CASE DeleteCollector
    <3>1. vetted' = vetted /\ None \in Entry
      BY <2>2 DEF DeleteCollector, historyVars, Entry
    <3>2. PICK c \in Collectors : registry' = [registry EXCEPT ![c] = None]
      BY <2>2 DEF DeleteCollector
    <3> QED BY <1>1, <3>1, <3>2
  <2> QED BY <2>1, <2>2
<1>5. registry' \in Registries
  BY <1>1, <1>4 DEF Registries
<1>6. Vetted(registry', vetted')
  BY <1>1, <1>4 DEF Vetted
<1> QED BY <1>2, <1>3, <1>4, <1>5, <1>6, WorldNow, WorldStep

LEMMA DevicesInv ==
  ASSUME Inv, EditScript \/ Unplug \/ Plug \/ Tick
  PROVE  Inv'
<1>1. UNCHANGED <<scope, nodes, pol, registry, gpu, save, file, conf, cache,
                  loop, late, faults, saves, last, hidden, vetted, ran,
                  overtaken>>
  BY DEF EditScript, Unplug, Plug, Tick, serverVars, countVars, historyVars
<1>2. Vetted(registry', vetted') /\ registry' \in Registries
      /\ vetted \subseteq vetted' /\ vetted' \subseteq Collectors \X Hashes
  BY <1>1, WorldNow
<1>3. changes' \in Nat
  BY WorldNow DEF EditScript, Unplug, Plug, Tick, CanChange, countVars
<1>4. clock' \in 0 .. scope.seconds
  <2>1. scope.seconds \in Nat
    BY WorldNow, LinkAssumption
  <2> QED BY <2>1, WorldNow DEF EditScript, Unplug, Plug, Tick
<1>5. script' \in [Collectors -> Hashes]
  BY WorldNow DEF EditScript, Unplug, Plug, Tick
<1>6. there' \subseteq Gpus /\ Gpus \ there' \subseteq gone'
      /\ gone \subseteq gone' /\ gone' \subseteq Gpus
  <2>1. CASE Unplug
    BY <2>1, WorldNow DEF Unplug
  <2>2. CASE EditScript \/ Plug \/ Tick
    <3>1. gone' = gone
      BY <2>2 DEF EditScript, Plug, Tick, historyVars
    <3> QED BY <2>2, <3>1, WorldNow DEF EditScript, Plug, Tick
  <2> QED BY <2>1, <2>2
<1> QED BY <1>1, <1>2, <1>3, <1>4, <1>5, <1>6, WorldStep

-----------------------------------------------------------------------------
(* Broken connections and restarts. *)

\* What stays at the server of a request is known as much as the request.
LEMMA LeftIs ==
  ASSUME Inv, NEW a \in Agents, NEW q \in Left(a)
  PROVE  /\ q \in [agent : Agents, rq : Request]
         /\ Named(q.rq, Known) /\ Accounted(q.rq, MayMiss)
<1> DEFINE r == loop[a]["heartbeat"]
           registers == [Idle EXCEPT !.pc = "register"]
           reports == [Idle EXCEPT !.pc = r.pc, !.id = r.id, !.tok = r.tok,
                                   !.ver = r.ver, !.gpus = r.gpus,
                                   !.err = r.err, !.at = r.at]
<1>1. r \in Request /\ Named(r, Known) /\ Accounted(r, MayMiss)
  BY RequestOf DEF Loops
<1>2. PICK rq \in {registers, reports} :
        /\ q = [agent |-> a, rq |-> rq]
        /\ rq = registers \/ (rq = reports /\ r.pc \in {"send", "record"})
  BY DEF Left, OnServer
<1>3. CASE rq = registers
  <2>1. registers \in Request
    BY IdleRequest, Pcs, Put
  <2>2. registers.pc = "register" /\ ~registers.again
    BY IdleRequest DEF Request
  <2> HIDE DEF registers
  <2>3. Named(registers, Known) /\ Accounted(registers, MayMiss)
    BY <2>2 DEF Named, Accounted, Reporting
  <2> QED BY <1>2, <1>3, <2>1, <2>3
<1>4. CASE rq = reports /\ r.pc \in {"send", "record"}
  <2>1. r.pc \in {"send", "record"} /\ r.id \in Known
    BY <1>1, <1>4 DEF Named
  <2>2. r.id \in NodeIds
    BY <2>1 DEF Known
  <2>3. /\ r.pc \in Pc /\ r.tok \in Nat /\ r.ver \in Nat /\ r.at \in Nat
        /\ r.gpus \in SUBSET Gpus /\ r.err \in BOOLEAN
    BY <1>1 DEF Request
  <2> HIDE DEF r
  <2>4. reports \in Request
    <3>1. [Idle EXCEPT !.pc = r.pc, !.id = r.id] \in Request
      BY <2>2, <2>3, IdleRequest, Put
    <3>2. [Idle EXCEPT !.pc = r.pc, !.id = r.id, !.tok = r.tok,
                       !.ver = r.ver] \in Request
      <4>1. [Idle EXCEPT !.pc = r.pc, !.id = r.id, !.tok = r.tok] \in Request
        BY <2>3, <3>1, Put
      <4> QED BY <2>3, <4>1, Put
    <3>3. [Idle EXCEPT !.pc = r.pc, !.id = r.id, !.tok = r.tok,
                       !.ver = r.ver, !.gpus = r.gpus] \in Request
      BY <2>3, <3>2, Put
    <3>4. [Idle EXCEPT !.pc = r.pc, !.id = r.id, !.tok = r.tok,
                       !.ver = r.ver, !.gpus = r.gpus, !.err = r.err]
            \in Request
      BY <2>3, <3>3, Put
    <3> QED BY <2>3, <3>4, Put
  <2>5. reports.pc = r.pc /\ reports.id = r.id /\ reports.gpus = r.gpus
    BY IdleRequest DEF Request
  <2>6. ~reports.err => ~r.err
    BY IdleRequest DEF Request
  <2> HIDE DEF reports
  <2>7. Named(reports, Known)
    BY <2>1, <2>5 DEF Named
  <2>8. Accounted(reports, MayMiss)
    BY <1>1, <2>1, <2>5, <2>6 DEF Accounted, Reporting
  <2> QED BY <1>2, <1>4, <2>4, <2>7, <2>8
<1> QED BY <1>2, <1>3, <1>4

LEMMA LateGrows ==
  ASSUME Inv, NEW a \in Agents, late' = late \cup Left(a),
         UNCHANGED <<nodes, gone, hidden>>
  PROVE  Late' /\ late' \subseteq [agent : Agents, rq : Request]
<1>1. Known' = Known /\ MayMiss' = MayMiss
  BY DEF Known, MayMiss
<1>2. late \subseteq [agent : Agents, rq : Request] /\ Late
  BY DEF Inv, TypeOK
<1>3. IsFiniteSet(late')
  <2>1. Left(a) = {} \/ \E x : Left(a) = {x}
    BY DEF Left
  <2> QED BY <1>2, <2>1, FS_AddElement DEF Late
<1>4. \A q \in late' : Named(q.rq, Known) /\ Accounted(q.rq, MayMiss)
  BY <1>2, LeftIs DEF Late
<1>5. late' \subseteq [agent : Agents, rq : Request]
  BY <1>2, LeftIs
<1> QED BY <1>1, <1>3, <1>4, <1>5 DEF Late

LEMMA FaultInv ==
  ASSUME Inv, NEW a \in Agents, Disconnect(a) \/ Restart(a)
  PROVE  Inv'
<1>1. late' = late \cup Left(a)
  BY DEF Disconnect, Restart
<1>2. /\ UNCHANGED <<scope, nodes, pol, registry, gpu, save, file, there,
                     script, clock, saves, changes, last, gone, hidden,
                     vetted, overtaken>>
      /\ Known' = Known /\ MayMiss' = MayMiss
  BY DEF Disconnect, Restart, serverVars, worldVars, historyVars, Known,
         MayMiss
<1>3. faults' \in Nat
  BY Counts DEF Disconnect, Restart
<1>4. /\ conf' \in [Agents -> [ver : Nat, set : Policies]]
      /\ cache' \in [Agents -> Registries]
      /\ \A b \in Agents : Vetted(cache'[b], vetted)
      /\ ran' \in [Agents -> SUBSET (Collectors \X Hashes)]
      /\ \A b \in Agents : ran'[b] \subseteq vetted
  <2>1. /\ conf \in [Agents -> [ver : Nat, set : Policies]]
        /\ cache \in [Agents -> Registries]
        /\ \A b \in Agents : Vetted(cache[b], vetted)
        /\ ran \in [Agents -> SUBSET (Collectors \X Hashes)]
        /\ \A b \in Agents : ran[b] \subseteq vetted
    BY Counts DEF Inv, TypeOK
  <2>2. CASE Disconnect(a)
    BY <2>1, <2>2 DEF Disconnect, historyVars
  <2>3. CASE Restart(a)
    <3>1. conf' = [conf EXCEPT ![a] = [ver |-> 0, set |-> NoPolicy]]
          /\ cache' = [cache EXCEPT ![a] = EmptyRegistry]
          /\ ran' = [ran EXCEPT ![a] = {}]
      BY <2>3 DEF Restart
    <3> QED BY <2>1, <3>1, Empty
  <2> QED BY <2>2, <2>3
<1>5. loop \in LoopsType /\ Loop
  BY DEF Inv, TypeOK, LoopsType
<1>6. loop' \in LoopsType /\ Loop'
  <2>0. "heartbeat" \in Loops
    BY DEF Loops
  <2>1. CASE Disconnect(a)
    <3>1. Step(a, "heartbeat", Idle)
      BY <2>1 DEF Disconnect
    <3>2. loop' \in LoopsType
      BY <1>5, <2>0, <3>1, IdleRequest, Stepped
    <3>3. Loop'
      BY <1>2, <1>5, <2>0, <3>1, IdleRequest, IdleFits, LoopMoves
    <3> QED BY <3>2, <3>3
  <2>2. CASE Restart(a)
    <3>1. loop' = [loop EXCEPT ![a] = [l \in Loops |-> Idle]]
      BY <2>2 DEF Restart
    <3>2. \A b \in Agents, m \in Loops :
            loop'[b][m] = IF b = a THEN Idle ELSE loop[b][m]
      BY <1>5, <3>1 DEF LoopsType
    <3>3. loop' \in LoopsType
      BY <1>5, <3>1, IdleRequest DEF LoopsType
    <3>4. Loop'
      BY <1>2, <1>5, <2>0, <3>2, IdleFits DEF Loop
    <3> QED BY <3>3, <3>4
  <2> QED BY <2>1, <2>2
<1>7. Late' /\ late' \subseteq [agent : Agents, rq : Request]
  BY <1>1, <1>2, LateGrows
<1>8. TypeOK'
  BY <1>2, <1>3, <1>4, <1>6, <1>7 DEF Inv, TypeOK, LoopsType
<1>9. OneNode' /\ Bounded' /\ Files' /\ Trusted' /\ RunsVetted'
  BY <1>2, <1>4 DEF Inv, OneNode, Bounded, Files, Trusted, RunsVetted
<1>10. Devices' /\ Reported'
  BY <1>2 DEF Inv, Devices, Reported
<1> QED BY <1>6, <1>7, <1>8, <1>9, <1>10 DEF Inv

-----------------------------------------------------------------------------
(* The theorems. *)

LEMMA InitInv == Init => Inv
<1> SUFFICES ASSUME Init PROVE Inv
  OBVIOUS
<1>1. scope \in Scopes /\ scope.seconds \in Nat
  BY LinkAssumption DEF Init
<1>2. loop \in LoopsType
  BY IdleRequest DEF Init, LoopsType
<1>3. TypeOK
  <2>1. /\ conf \in [Agents -> [ver : Nat, set : Policies]]
        /\ cache \in [Agents -> Registries] /\ registry \in Registries
    BY Empty DEF Init
  <2>2. /\ script \in [Collectors -> Hashes] /\ there \subseteq Gpus
        /\ gone \subseteq Gpus /\ hidden \subseteq Gpus
        /\ late \subseteq [agent : Agents, rq : Request]
        /\ vetted \subseteq Collectors \X Hashes
        /\ ran \in [Agents -> SUBSET (Collectors \X Hashes)]
    BY DEF Init, Hashes
  <2>3. /\ nodes \in [NodeIds -> NodeRows(scope) \cup {None}]
        /\ pol \in [NodeIds \cup {Global} -> [set : Policies, ver : Nat]
                                                \cup {None}]
        /\ gpu \in [NodeIds -> [Gpus -> GpuRows \cup {None}]]
        /\ save \in [Savers -> Nat \cup {None}]
        /\ file \in [Agents -> [id : NodeIds, tok : Nat]
                                \cup {None, Truncated}]
        /\ last \in [NodeIds -> [gpus : SUBSET Gpus, err : BOOLEAN, at : Nat,
                                 ordered : BOOLEAN] \cup {None}]
    BY DEF Init
  <2>4. clock \in 0 .. scope.seconds
    <3>1. clock = 0
      BY DEF Init
    <3> QED BY <1>1, <3>1
  <2>5. overtaken \in BOOLEAN
    BY DEF Init
  <2>6. faults \in Nat /\ saves \in Nat /\ changes \in Nat
    BY DEF Init
  <2> QED BY <1>1, <1>2, <2>1, <2>2, <2>3, <2>4, <2>5, <2>6 DEF TypeOK, LoopsType
<1>4. Known = {}
  BY DEF Init, Known
<1>5. Named(Idle, Known) /\ Vetted(EmptyRegistry, vetted)
      /\ Accounted(Idle, MayMiss)
  BY IdleFits, Empty
<1>6. Loop
  <2>1. \A a \in Agents, l \in Loops : loop[a][l] = Idle
    BY DEF Init
  <2> QED BY <1>5, <2>1, IdleRequest DEF Loop, Loops
<1>7. OneNode /\ Files /\ Trusted
  BY <1>4, <1>5 DEF Init, OneNode, Files, Trusted
<1>8. Late
  BY FS_EmptySet DEF Init, Late
<1>9. Bounded /\ Devices /\ Reported /\ RunsVetted
  BY DEF Init, Bounded, Devices, Reported, RunsVetted
<1> QED BY <1>3, <1>6, <1>7, <1>8, <1>9 DEF Inv

LEMMA NextInv == Inv /\ Next => Inv'
<1> SUFFICES ASSUME Inv, Next PROVE Inv'
  OBVIOUS
<1>0. "heartbeat" \in Loops /\ "tasks" \in Loops
  BY DEF Loops
<1>1. ASSUME NEW a \in Agents, LoopStep(a) PROVE Inv'
  BY <1>0, <1>1, CycleLoadInv, RegisterInv, StateTruncateInv, StateWriteInv,
     FetchInv, ScanInv, RunInv, SendInv, RecordInv, ListRegistryInv,
     ReadConfigInv, ApplyInv DEF LoopStep
<1>2. ASSUME NEW a \in Agents, PollStep(a) PROVE Inv'
  BY <1>0, <1>2, PollLoadInv, PollAuthInv, ReadConfigInv, ApplyInv
     DEF PollStep
<1>3. ASSUME NEW a \in Agents, FetchFails(a) \/ Disconnect(a) \/ Restart(a)
      PROVE  Inv'
  BY <1>3, FetchInv, FaultInv
<1>4. ASSUME NEW s \in Savers, SaveRead(s) \/ SaveWrite(s) PROVE Inv'
  BY <1>4, SaveReadInv, SaveWriteInv
<1>5. CASE \/ RegisterCollector \/ DeleteCollector
           \/ EditScript \/ Unplug \/ Plug \/ Tick
  BY <1>5, RegistryInv, DevicesInv
<1>6. ASSUME NEW q \in late, LateRequest(q) PROVE Inv'
  BY <1>6, LateRequestInv
<1> QED BY <1>1, <1>2, <1>3, <1>4, <1>5, <1>6 DEF Next

LEMMA StutterInv == Inv /\ UNCHANGED vars => Inv'
<1> SUFFICES ASSUME Inv, UNCHANGED vars PROVE Inv'
  OBVIOUS
<1> USE DEF vars
<1>1. Known' = Known /\ MayMiss' = MayMiss
  BY DEF Known, MayMiss
<1>2. TypeOK'
  BY DEF Inv, TypeOK
<1>3. OneNode' /\ Bounded' /\ Files' /\ Trusted' /\ RunsVetted'
  BY <1>1 DEF Inv, OneNode, Bounded, Files, Trusted, RunsVetted
<1>4. Loop'
  BY <1>1, LoopKept
<1>5. Late' /\ Devices' /\ Reported'
  BY <1>1 DEF Inv, Late, Devices, Reported
<1> QED BY <1>2, <1>3, <1>4, <1>5 DEF Inv

\* Every reachable state satisfies Inv, in which a request or a file names
\* only nodes that exist, registries hold what was registered, and a report
\* without an error leaves out only devices that may be missing.
THEOREM Invariance == Spec => []Inv
<1>1. Inv /\ [Next]_vars => Inv'
  BY NextInv, StutterInv
<1> QED BY InitInv, <1>1, PTL DEF Spec

\* The type invariant of the agents' link to the server: all its state is
\* what the code can make of rows, files, policies and requests.
THEOREM TypeCorrect == Spec => []TypeOK
<1>1. Inv => TypeOK
  BY DEF Inv
<1> QED BY <1>1, Invariance, PTL

\* mark_missing_gpus marks no device that was there and that no collector
\* left out, however late a heartbeat is recorded.
THEOREM MissingWereGone == Spec => []MissingWasGone
<1>1. Inv => MissingWasGone
  BY DEF Inv, Devices, MissingWasGone, Known, MayMiss
<1> QED BY <1>1, Invariance, PTL

\* After record_heartbeat has recorded a report without errors that is newer
\* than all rows, the devices shown as present are the reported ones.
THEOREM RowsAreAsReported == Spec => []RowsAsReported
<1>1. Inv => RowsAsReported
  BY DEF Inv, Reported, RowsAsReported, Known
<1> QED BY <1>1, Invariance, PTL

\* collect_via_dirs runs no script that was not registered and enabled with
\* its present content.
THEOREM RunsAreVetted == Spec => []RunsVetted
<1>1. Inv => RunsVetted
  BY DEF Inv
<1> QED BY <1>1, Invariance, PTL

=============================================================================
