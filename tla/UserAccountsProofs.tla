------------------------- MODULE UserAccountsProofs -------------------------
(***************************************************************************)
(* Proofs about UserAccounts, for any number of users, groups, sessions    *)
(* and concurrent requests: every invariant that TLC checks on a small     *)
(* instance.  Each step replaces the record of one request (Puts) and      *)
(* leaves the others as they were, but for the news that users has been    *)
(* written; Entered says how a request comes to each of its statements,    *)
(* and the lemmas ...Writers who writes which table.  The steps of the     *)
(* parts of Inv follow from these.                                         *)
(***************************************************************************)
EXTENDS UserAccounts, FiniteSetTheorems, TLAPS

USE DEF userVars, groupVars

\* Request r is now next; others at most learn that users has been written.
Puts(r, next) ==
  \/ req' = [req EXCEPT ![r] = next]
  \/ AfterUserWrite(r, next)

\* What request q keeps while another one takes a step.
SameRequest(q) ==
  /\ req'[q].pc = req[q].pc /\ req'[q].by = req[q].by
  /\ req'[q].user = req[q].user /\ req'[q].eff = req[q].eff
  /\ req'[q].to = req[q].to /\ req'[q].role = req[q].role
  /\ req'[q].on = req[q].on /\ req'[q].set = req[q].set
  /\ req'[q].fresh => req[q].fresh

\* The fields of a request whose reads have become stale.
LEMMA StaleReq ==
  ASSUME NEW q \in ReqType
  PROVE  LET n == [q EXCEPT !.fresh = FALSE]
         IN /\ n \in ReqType
            /\ n.pc = q.pc /\ n.by = q.by /\ n.user = q.user /\ n.eff = q.eff
            /\ n.to = q.to /\ n.role = q.role /\ n.set = q.set
            /\ n.on = q.on /\ ~ n.fresh
  <1> DEFINE n == [q EXCEPT !.fresh = FALSE]
  <1>1. /\ n \in ReqType
        /\ n.pc = q.pc /\ n.by = q.by /\ n.user = q.user /\ n.eff = q.eff
        /\ n.to = q.to /\ n.role = q.role /\ n.set = q.set
    BY DEF ReqType
  <1>2. n.on = q.on /\ ~ n.fresh
    BY DEF ReqType
  <1>3. QED BY <1>1, <1>2

\* The record that r becomes, and what the others keep.
LEMMA PutReq ==
  ASSUME req \in [Reqs -> ReqType], NEW r \in Reqs, NEW next \in ReqType,
         Puts(r, next)
  PROVE  /\ req' \in [Reqs -> ReqType]
         /\ req'[r] = next
         /\ \A q \in Reqs \ {r} : SameRequest(q)
  <1>1. CASE req' = [req EXCEPT ![r] = next]
    BY <1>1 DEF SameRequest
  <1>2. CASE AfterUserWrite(r, next)
    <2>1. \A q \in Reqs \ {r} : req'[q] = [req[q] EXCEPT !.fresh = FALSE]
      BY <1>2 DEF AfterUserWrite
    <2>2. \A q \in Reqs : [req[q] EXCEPT !.fresh = FALSE] \in ReqType
      BY StaleReq
    <2>3. req' \in [Reqs -> ReqType] /\ req'[r] = next
      BY <1>2, <2>2 DEF AfterUserWrite
    <2>4. ASSUME NEW q \in Reqs \ {r} PROVE SameRequest(q)
      <3>1. req[q] \in ReqType /\ req'[q] = [req[q] EXCEPT !.fresh = FALSE]
        BY <2>1
      <3>2. QED BY <3>1, StaleReq DEF SameRequest
    <2>5. QED BY <2>3, <2>4
  <1>3. QED BY <1>1, <1>2 DEF Puts

\* A well-formed record in one place keeps all requests well-formed.
LEMMA CarriedPut ==
  ASSUME req \in [Reqs -> ReqType], Carried, NEW r \in Reqs,
         NEW next \in ReqType, Carries(next), Puts(r, next)
  PROVE  req' \in [Reqs -> ReqType] /\ Carried'
  <1>1. /\ req' \in [Reqs -> ReqType] /\ req'[r] = next
        /\ \A q \in Reqs \ {r} : SameRequest(q)
    BY PutReq
  <1>2. \A q \in Reqs \ {r} : Carries(req'[q])
    BY <1>1 DEF Carried, Carries, SameRequest
  <1>3. QED BY <1>1, <1>2 DEF Carried

-----------------------------------------------------------------------------
(* What each kind of step makes of its request.                            *)

Moves(r, pcs) ==
  \E next \in ReqType :
    /\ Carries(next) /\ Puts(r, next) /\ next.pc \in pcs
    /\ next.user \in {None, req[r].user}

\* Requests that end, and what is left to do after a write.
LEMMA EndMoves ==
  ASSUME NEW r \in Reqs, Done(r) \/ AfterUserWrite(r, IdleReq)
  PROVE  Moves(r, {"idle"})
  <1>1. IdleReq \in ReqType
    BY DEF IdleReq, ReqType, Pc
  <1>2. Carries(IdleReq) /\ IdleReq.pc = "idle" /\ IdleReq.user = None
    BY DEF Carries, IdleReq, OnUser, GroupPc, ForUser, UpdatePc, RevokePc
  <1>3. QED BY <1>1, <1>2 DEF Done, Moves, Puts

\* A request that is to revoke the sessions of u next.
LEMMA RevokeMoves ==
  ASSUME NEW r \in Reqs, NEW u \in Users,
         \/ req' = [req EXCEPT ![r] = RevokeNext(u)]
         \/ AfterUserWrite(r, RevokeNext(u))
  PROVE  /\ Moves(r, {RevokePc})
         /\ RevokeNext(u) \in ReqType /\ RevokeNext(u).to = u
         /\ RevokeNext(u).pc = RevokePc
  <1>1. RevokeNext(u) \in ReqType
    BY DEF RevokeNext, IdleReq, ReqType, Pc
  <1>2. /\ Carries(RevokeNext(u)) /\ RevokeNext(u).pc = RevokePc
        /\ RevokeNext(u).user = None /\ RevokeNext(u).to = u
    BY DEF Carries, RevokeNext, IdleReq, OnUser, GroupPc, ForUser, UpdatePc,
           RevokePc
  <1>3. QED BY <1>1, <1>2 DEF Moves, Puts

\* The record of a request that goes on to another statement.
LEMMA RecordOf ==
  ASSUME NEW q \in ReqType, NEW pc \in Pc
  PROVE  LET n == [q EXCEPT !.pc = pc]
         IN /\ n \in ReqType /\ n.pc = pc
            /\ n.by = q.by /\ n.user = q.user /\ n.eff = q.eff
            /\ n.to = q.to /\ n.role = q.role /\ n.set = q.set
            /\ n.on = q.on /\ n.fresh = q.fresh
  <1> DEFINE n == [q EXCEPT !.pc = pc]
  <1>1. /\ n \in ReqType /\ n.pc = pc
        /\ n.by = q.by /\ n.user = q.user /\ n.eff = q.eff
        /\ n.to = q.to /\ n.role = q.role /\ n.set = q.set
    BY DEF ReqType
  <1>2. n.on = q.on /\ n.fresh = q.fresh
    BY DEF ReqType
  <1>3. QED BY <1>1, <1>2

\* What a handler keeps of its authentication is a request.
LEMMA HandlingType ==
  ASSUME NEW r \in Reqs, req[r] \in ReqType
  PROVE  /\ Handling(r) \in ReqType /\ Handling(r).user = req[r].user
         /\ Handling(r).set = {}
  BY DEF Handling, IdleReq, ReqType, Pc

\* setup_initial_admin has counted no user.
LEMMA SetupMoves ==
  ASSUME TypeOK, NEW r \in Reqs, NEW u \in Users, SetupCount(r, u)
  PROVE  Moves(r, {"setup"})
  <1> DEFINE next == [req[r] EXCEPT !.pc = "setup", !.to = u, !.fresh = TRUE]
  <1>1. req[r] \in ReqType /\ req' = [req EXCEPT ![r] = next]
    BY DEF SetupCount, TypeOK
  <1>2. /\ next \in ReqType /\ next.pc = "setup" /\ next.to = u
        /\ next.user = req[r].user
    BY <1>1 DEF ReqType, Pc
  <1>3. Carries(next)
    BY <1>2 DEF Carries, OnUser, GroupPc, ForUser, UpdatePc, RevokePc
  <1>4. QED BY <1>1, <1>2, <1>3 DEF Moves, Puts

\* login_user has read the user's row.
LEMMA LoginMoves ==
  ASSUME TypeOK, NEW r \in Reqs, NEW u \in Users, LoginRead(r, u)
  PROVE  Moves(r, {"login_insert"})
  <1> DEFINE next == [req[r] EXCEPT !.pc = "login_insert", !.to = u,
                                    !.epoch = epoch[u]]
  <1>1. /\ req[r] \in ReqType /\ req' = [req EXCEPT ![r] = next]
        /\ epoch[u] \in Nat
    BY DEF LoginRead, TypeOK
  <1>2. /\ next \in ReqType /\ next.pc = "login_insert" /\ next.to = u
        /\ next.user = req[r].user
    BY <1>1 DEF ReqType, Pc
  <1>3. Carries(next)
    BY <1>2 DEF Carries, OnUser, GroupPc, ForUser, UpdatePc, RevokePc
  <1>4. QED BY <1>1, <1>2, <1>3 DEF Moves, Puts

\* The first administrator is written and goes on to log in.
LEMMA InsertMoves ==
  ASSUME TypeOK, Carried, NEW r \in Reqs, SetupInsert(r)
  PROVE  Moves(r, {"login_read"})
  <1> DEFINE next == [IdleReq EXCEPT !.pc = "login_read", !.to = req[r].to]
  <1>1. req[r].to \in Users /\ AfterUserWrite(r, next)
    BY DEF SetupInsert, Carried, Carries, OnUser
  <1>2. /\ next \in ReqType /\ next.pc = "login_read" /\ next.to = req[r].to
        /\ next.user = None
    BY <1>1 DEF ReqType, Pc, IdleReq
  <1>3. Carries(next)
    BY <1>1, <1>2 DEF Carries, OnUser, GroupPc, ForUser, UpdatePc, RevokePc
  <1>4. QED BY <1>1, <1>2, <1>3 DEF Moves, Puts

\* change_user_password has verified the present password.
LEMMA ChangeMoves ==
  ASSUME TypeOK, Carried, NEW r \in Reqs, ChangeRead(r)
  PROVE  Moves(r, {"change_write"})
  <1> DEFINE next == [Handling(r) EXCEPT !.pc = "change_write"]
  <1>1. /\ req[r] \in ReqType /\ req' = [req EXCEPT ![r] = next]
        /\ req[r].user \in Users
    BY DEF ChangeRead, OwnAccount, Carried, Carries, ForUser, TypeOK
  <1>2. /\ next \in ReqType /\ next.pc = "change_write"
        /\ next.user = req[r].user
    BY <1>1, HandlingType, RecordOf DEF Pc
  <1>3. Carries(next)
    BY <1>1, <1>2 DEF Carries, OnUser, GroupPc, ForUser, UpdatePc, RevokePc
  <1>4. QED BY <1>1, <1>2, <1>3 DEF Moves, Puts

\* authenticate_session has read the session, its user and the user's role.
LEMMA SelectMoves ==
  ASSUME TypeOK, Referenced, NEW r \in Reqs, NEW s \in Sessions,
         NEW on \in BOOLEAN, AuthSelect(r, s, on)
  PROVE  \E next \in ReqType :
           /\ Carries(next) /\ Puts(r, next) /\ next.pc = "auth"
           /\ next.user = sess[s].user /\ next.eff = role[sess[s].user]
           /\ next.user \in enabled
  <1> DEFINE u == sess[s].user
             m == u \in must
             next == [req[r] EXCEPT !.pc = "auth", !.by = s, !.user = u,
                                    !.eff = role[u], !.must = m, !.on = on]
  <1>1. /\ req[r] \in ReqType /\ req' = [req EXCEPT ![r] = next]
        /\ u \in enabled /\ u \in Users
    BY DEF AuthSelect, TypeOK
  <1>2. role[u] \in AllRoles
    BY <1>1 DEF Referenced, TypeOK, Exists
  <1>3. m \in BOOLEAN
    OBVIOUS
  <1> HIDE DEF u, m
  <1>4. /\ next \in ReqType /\ next.pc = "auth" /\ next.user = u /\ next.by = s
        /\ next.eff = role[u]
    <2>1. "auth" \in Pc
      BY DEF Pc
    <2>2. next \in ReqType
      BY <1>1, <1>2, <1>3, <2>1 DEF ReqType
    <2>3. next.pc = "auth" /\ next.user = u
      BY <1>1 DEF ReqType
    <2>4. next.by = s /\ next.eff = role[u]
      BY <1>1 DEF ReqType
    <2>5. QED BY <2>2, <2>3, <2>4
  <1>5. Carries(next)
    BY <1>1, <1>2, <1>4
       DEF Carries, OnUser, GroupPc, ForUser, UpdatePc, RevokePc
  <1>6. QED BY <1>1, <1>4, <1>5 DEF Puts, u

\* enrich_effective_role returns one of the roles it compares.
LEMMA EffectiveRoleIsOne ==
  ASSUME TypeOK, Referenced, NEW u \in Users, NEW own \in AllRoles
  PROVE  EffectiveRole(u, own) \in {own} \cup RolesOfGroups(u)
  <1> DEFINE all == {own} \cup RolesOfGroups(u)
  <1>1. all \subseteq AllRoles
    BY DEF RolesOfGroups, TypeOK, Referenced
  <1>2. own \in all
    OBVIOUS
  <1> HIDE DEF all
  <1>3. \E x \in all : \A y \in all : role_rank(x) >= role_rank(y)
    <2>1. /\ role_rank("admin") = 3 /\ role_rank("operator") = 2
          /\ role_rank("viewer") = 1
      BY DEF role_rank
    <2>2. CASE "admin" \in all
      BY <1>1, <2>1, <2>2 DEF AllRoles
    <2>3. CASE "admin" \notin all /\ "operator" \in all
      BY <1>1, <2>1, <2>3 DEF AllRoles
    <2>4. CASE "admin" \notin all /\ "operator" \notin all
      BY <1>1, <1>2, <2>1, <2>4 DEF AllRoles
    <2>5. QED BY <2>2, <2>3, <2>4
  <1>4. EffectiveRole(u, own)
          = CHOOSE x \in all : \A y \in all : role_rank(x) >= role_rank(y)
    BY DEF EffectiveRole, all
  <1>5. EffectiveRole(u, own) \in all
    BY <1>3, <1>4
  <1>6. QED BY <1>5 DEF all

\* Authentication ends with one of the roles it has read.
LEMMA TouchMoves ==
  ASSUME TypeOK, Carried, Referenced, NEW r \in Reqs, AuthTouch(r)
  PROVE  \E next \in ReqType :
           /\ Carries(next) /\ Puts(r, next) /\ next.pc = "handler"
           /\ next.user = req[r].user
           /\ next.eff \in {req[r].eff} \cup RolesOfGroups(req[r].user)
  <1> DEFINE e == EffectiveRole(req[r].user, req[r].eff)
             next == [req[r] EXCEPT !.pc = "handler", !.on = FALSE, !.eff = e]
  <1>1. /\ req[r] \in ReqType /\ req' = [req EXCEPT ![r] = next]
        /\ req[r].user \in Users /\ req[r].eff \in AllRoles
        /\ req[r].by \in Sessions
    BY DEF AuthTouch, TypeOK, Carried, Carries, ForUser
  <1>2. e \in {req[r].eff} \cup RolesOfGroups(req[r].user)
    BY <1>1, EffectiveRoleIsOne
  <1>3. e \in AllRoles
    BY <1>1, <1>2 DEF RolesOfGroups, TypeOK, Referenced
  <1> HIDE DEF e
  <1>4. /\ next \in ReqType /\ next.pc = "handler" /\ next.eff = e
        /\ next.user = req[r].user /\ next.by = req[r].by
    BY <1>1, <1>3 DEF ReqType, Pc
  <1>5. Carries(next)
    BY <1>1, <1>3, <1>4
       DEF Carries, OnUser, GroupPc, ForUser, UpdatePc, RevokePc
  <1>6. QED BY <1>1, <1>2, <1>4, <1>5 DEF Puts

\* Only when another administrator was counted does an update go on.
LEMMA CountMoves ==
  ASSUME TypeOK, Carried, NEW r \in Reqs, UpdateCount(r)
  PROVE  \/ Moves(r, {"idle"})
         \/ /\ OtherAdmins(req[r].to) # {}
            /\ \E next \in ReqType :
                 /\ Carries(next) /\ Puts(r, next) /\ next.pc = "update_write"
                 /\ next.user = req[r].user /\ next.to = req[r].to
                 /\ next.role = req[r].role /\ next.on = req[r].on
                 /\ next.fresh = req[r].fresh
  <1>1. CASE OtherAdmins(req[r].to) = {}
    BY <1>1, EndMoves DEF UpdateCount
  <1>2. CASE OtherAdmins(req[r].to) # {}
    <2> DEFINE next == [req[r] EXCEPT !.pc = "update_write"]
    <2>1. req[r] \in ReqType /\ req' = [req EXCEPT ![r] = next]
      BY <1>2 DEF UpdateCount, TypeOK
    <2>2. /\ next \in ReqType /\ next.pc = "update_write"
          /\ next.user = req[r].user /\ next.to = req[r].to
          /\ next.role = req[r].role /\ next.on = req[r].on
          /\ next.fresh = req[r].fresh
      BY <2>1, RecordOf DEF Pc, UpdatePc
    <2>3. Carries(next)
      <3>1. Carries(req[r]) /\ req[r].pc = "update_count"
        BY DEF UpdateCount, Carried
      <3>2. QED BY <2>2, <3>1 DEF Carries, OnUser, GroupPc, ForUser, UpdatePc,
                                  RevokePc
    <2>4. Puts(r, next)
      BY <2>1 DEF Puts
    <2>5. QED BY <1>2, <2>2, <2>3, <2>4
  <1>3. QED BY <1>1, <1>2

\* What update_user_with_policy has read when it comes to write.
LEMMA UpdateMoves ==
  ASSUME TypeOK, Carried, Referenced, NEW r \in Reqs, NEW u \in Users,
         NEW x \in Maybe(Roles), NEW on \in Maybe(BOOLEAN), NEW pw \in BOOLEAN,
         UpdateRead(r, u, x, on, pw)
  PROVE  \E next \in ReqType :
           /\ Carries(next) /\ Puts(r, next) /\ next.pc \in UpdatePc
           /\ next.user = req[r].user /\ next.to = u /\ Exists(u)
           /\ next.pc = "update_write"
                => role[u] # "admin" \/ (next.role = "admin" /\ next.on)
  <1> DEFINE newRole == IF x = None THEN role[u] ELSE x
             newOn == IF on = None THEN u \in enabled ELSE on
             check == role[u] = "admin" /\ (~ newOn \/ newRole # "admin")
             pc == IF check THEN "update_count" ELSE "update_write"
             next == [Handling(r) EXCEPT !.pc = pc, !.to = u, !.role = newRole,
                                         !.on = newOn, !.pw = pw, !.fresh = TRUE]
  <1>1. /\ req[r] \in ReqType /\ req' = [req EXCEPT ![r] = next]
        /\ req[r].user \in Users /\ Exists(u)
    BY DEF UpdateRead, ManagesUsers, TypeOK, Carried, Carries, ForUser
  <1>2. newRole \in AllRoles
    BY <1>1, AccountsAssumption DEF TypeOK, Exists, Maybe
  <1>3. newOn \in BOOLEAN
    <2>1. CASE on = None
      <3>1. newOn = (u \in enabled)
        BY <2>1, Zenon
      <3>2. (u \in enabled) \in BOOLEAN
        OBVIOUS
      <3>3. QED BY <3>1, <3>2, Zenon
    <2>2. CASE on # None
      <3>1. on \in BOOLEAN
        BY <2>2, Zenon DEF Maybe
      <3>2. newOn = on
        BY <2>2, Zenon
      <3>3. QED BY <3>1, <3>2, Zenon
    <2>3. QED BY <2>1, <2>2, Zenon
  <1>4. pc \in UpdatePc
    BY DEF UpdatePc
  <1>5. pc = "update_write" => role[u] # "admin" \/ (newRole = "admin" /\ newOn)
    OBVIOUS
  <1>6. Handling(r) \in ReqType /\ Handling(r).user = req[r].user
    BY <1>1, HandlingType
  <1> HIDE DEF newRole, newOn, check, pc
  <1>7. /\ next \in ReqType /\ next.pc = pc /\ next.to = u
        /\ next.role = newRole /\ next.user = req[r].user
    <2>1. pc \in Pc
      BY <1>4 DEF Pc
    <2>2. next \in ReqType
      BY <1>2, <1>3, <1>6, <2>1 DEF ReqType
    <2>3. /\ next.pc = pc /\ next.to = u /\ next.role = newRole
          /\ next.user = req[r].user
      BY <1>6 DEF ReqType
    <2>4. QED BY <2>2, <2>3
  <1>8. next.on = newOn
    <2>1. pc \in Pc
      BY <1>4 DEF Pc
    <2>2. QED BY <1>2, <1>3, <1>6, <2>1 DEF ReqType
  <1>9. Carries(next)
    BY <1>1, <1>2, <1>4, <1>7
       DEF Carries, OnUser, GroupPc, ForUser, UpdatePc, RevokePc
  <1>10. QED BY <1>1, <1>4, <1>5, <1>7, <1>8, <1>9 DEF Puts

-----------------------------------------------------------------------------
(* Types. *)

RequestOf(r) ==
  AccountRequests(r) \/ UserRequests(r) \/ GroupRequests(r) \/ CutRequest(r)

\* The statements that a request can reach in several ways.
PlainPc == {"idle", "login_read", "login_insert", "change_write", RevokePc}

\* Every step ends its request, or is one of those that read first.
LEMMA PlainMoves ==
  ASSUME TypeOK, Carried, NEW r \in Reqs, RequestOf(r)
  PROVE  \/ Moves(r, PlainPc)
         \/ \E u \in Users : SetupCount(r, u)
         \/ \E s \in Sessions, on \in BOOLEAN : AuthSelect(r, s, on)
         \/ AuthTouch(r)
         \/ \E u \in Users, x \in Maybe(Roles), on \in Maybe(BOOLEAN),
               pw \in BOOLEAN : UpdateRead(r, u, x, on, pw)
         \/ UpdateCount(r)
         \/ \E g \in Groups, x \in Maybe(Roles), on \in Maybe(BOOLEAN) :
              UpdateGroupRead(r, g, x, on)
         \/ \E g \in Groups, set \in SUBSET Users : MembersCheck(r, g, set)
         \/ \E g \in Groups : DeleteGroupCount(r, g)
  <1>1. ASSUME Done(r) \/ AfterUserWrite(r, IdleReq)
        PROVE  Moves(r, PlainPc)
    BY <1>1, EndMoves DEF Moves, PlainPc
  <1>2. ASSUME NEW u \in Users,
               \/ req' = [req EXCEPT ![r] = RevokeNext(u)]
               \/ AfterUserWrite(r, RevokeNext(u))
        PROVE  Moves(r, PlainPc)
    BY <1>2, RevokeMoves DEF Moves, PlainPc
  <1>3. ASSUME SetupInsert(r) PROVE Moves(r, PlainPc)
    BY <1>3, InsertMoves DEF Moves, PlainPc
  <1>4. ASSUME NEW u \in Users, LoginRead(r, u) PROVE Moves(r, PlainPc)
    BY <1>4, LoginMoves DEF Moves, PlainPc
  <1>5. ASSUME ChangeRead(r) PROVE Moves(r, PlainPc)
    BY <1>5, ChangeMoves DEF Moves, PlainPc
  <1>6. ASSUME ChangeWrite(r) PROVE Moves(r, PlainPc)
    <2>1. req[r].user \in Users
      BY <1>6 DEF ChangeWrite, Carried, Carries, ForUser
    <2>2. QED BY <1>2, <1>6, <2>1 DEF ChangeWrite
  <1>7. ASSUME UpdateWrite(r) PROVE Moves(r, PlainPc)
    <2>1. req[r].to \in Users
      BY <1>7 DEF UpdateWrite, Carried, Carries, OnUser, UpdatePc
    <2>2. QED BY <1>1, <1>2, <1>7, <2>1 DEF UpdateWrite
  <1>8. AccountRequests(r) =>
          \/ Moves(r, PlainPc)
          \/ \E u \in Users : SetupCount(r, u)
          \/ \E s \in Sessions, on \in BOOLEAN : AuthSelect(r, s, on)
          \/ AuthTouch(r)
    BY <1>1, <1>2, <1>3, <1>4, <1>5, <1>6
       DEF AccountRequests, LoginInsert, AuthIdle, Logout, Revoke, ResetPassword
  <1>9. UserRequests(r) =>
          \/ Moves(r, PlainPc)
          \/ \E u \in Users, x \in Maybe(Roles), on \in Maybe(BOOLEAN),
                pw \in BOOLEAN : UpdateRead(r, u, x, on, pw)
          \/ UpdateCount(r)
    BY <1>1, <1>7 DEF UserRequests, CreateUser
  <1>10. GroupRequests(r) =>
           \/ Moves(r, PlainPc)
           \/ \E g \in Groups, x \in Maybe(Roles), on \in Maybe(BOOLEAN) :
                UpdateGroupRead(r, g, x, on)
           \/ \E g \in Groups, set \in SUBSET Users : MembersCheck(r, g, set)
           \/ \E g \in Groups : DeleteGroupCount(r, g)
    BY <1>1 DEF GroupRequests, CreateGroup, UpdateGroupWrite, MembersWrite,
                DeleteGroup
  <1>11. CutRequest(r) => Moves(r, PlainPc)
    BY <1>1 DEF CutRequest
  <1>12. QED BY <1>8, <1>9, <1>10, <1>11 DEF RequestOf

\* The three requests about groups that check before they write.
LEMMA GroupReadMoves ==
  ASSUME TypeOK, Carried, NEW r \in Reqs, NEW g \in Groups,
         NEW x \in Maybe(Roles), NEW on \in Maybe(BOOLEAN),
         UpdateGroupRead(r, g, x, on)
  PROVE  Moves(r, {"group_write"})
  <1> DEFINE newRole == IF x = None THEN groupRole[g] ELSE x
             newOn == IF on = None THEN g \in groupOn ELSE on
             next == [Handling(r) EXCEPT !.pc = "group_write", !.to = g,
                                         !.role = newRole, !.on = newOn]
  <1>1. /\ req[r] \in ReqType /\ req' = [req EXCEPT ![r] = next]
        /\ req[r].user \in Users
    BY DEF UpdateGroupRead, ManagesUsers, TypeOK, Carried, Carries, ForUser
  <1>2. newRole \in AllRoles
    BY AccountsAssumption DEF TypeOK, UpdateGroupRead, Maybe
  <1>3. newOn \in BOOLEAN
    <2>1. CASE on = None
      <3>1. newOn = (g \in groupOn)
        BY <2>1, Zenon
      <3>2. (g \in groupOn) \in BOOLEAN
        OBVIOUS
      <3>3. QED BY <3>1, <3>2, Zenon
    <2>2. CASE on # None
      <3>1. on \in BOOLEAN
        BY <2>2, Zenon DEF Maybe
      <3>2. newOn = on
        BY <2>2, Zenon
      <3>3. QED BY <3>1, <3>2, Zenon
    <2>3. QED BY <2>1, <2>2, Zenon
  <1>4. Handling(r) \in ReqType /\ Handling(r).user = req[r].user
    BY <1>1, HandlingType
  <1> HIDE DEF newRole, newOn
  <1>5. /\ next \in ReqType /\ next.pc = "group_write" /\ next.to = g
        /\ next.role = newRole /\ next.user = req[r].user
    <2>1. "group_write" \in Pc
      BY DEF Pc, GroupPc
    <2>2. QED BY <1>2, <1>3, <1>4, <2>1 DEF ReqType
  <1>6. Carries(next)
    BY <1>1, <1>2, <1>5
       DEF Carries, OnUser, GroupPc, ForUser, UpdatePc, RevokePc
  <1>7. QED BY <1>1, <1>5, <1>6 DEF Moves, Puts

\* replace_user_group_members has found the group and the users.
LEMMA MembersMoves ==
  ASSUME TypeOK, Carried, NEW r \in Reqs, NEW g \in Groups,
         NEW set \in SUBSET Users, MembersCheck(r, g, set)
  PROVE  \E next \in ReqType :
           /\ Carries(next) /\ Puts(r, next) /\ next.pc = "members_write"
           /\ next.user = req[r].user /\ next.set = set
  <1> DEFINE next == [Handling(r) EXCEPT !.pc = "members_write", !.to = g,
                                         !.set = set]
  <1>1. /\ req[r] \in ReqType /\ req' = [req EXCEPT ![r] = next]
        /\ req[r].user \in Users
    BY DEF MembersCheck, ManagesUsers, TypeOK, Carried, Carries, ForUser
  <1>2. Handling(r) \in ReqType /\ Handling(r).user = req[r].user
    BY <1>1, HandlingType
  <1>3. /\ next \in ReqType /\ next.pc = "members_write" /\ next.to = g
        /\ next.user = req[r].user /\ next.set = set
    <2>1. "members_write" \in Pc
      BY DEF Pc, GroupPc
    <2>2. QED BY <1>2, <2>1 DEF ReqType
  <1>4. Carries(next)
    BY <1>1, <1>3 DEF Carries, OnUser, GroupPc, ForUser, UpdatePc, RevokePc
  <1>5. QED BY <1>1, <1>3, <1>4 DEF Puts

\* delete_user_group has counted no members.
LEMMA DeleteMoves ==
  ASSUME TypeOK, Carried, NEW r \in Reqs, NEW g \in Groups,
         DeleteGroupCount(r, g)
  PROVE  Moves(r, {"group_delete"})
  <1> DEFINE next == [Handling(r) EXCEPT !.pc = "group_delete", !.to = g]
  <1>1. /\ req[r] \in ReqType /\ req' = [req EXCEPT ![r] = next]
        /\ req[r].user \in Users
    BY DEF DeleteGroupCount, ManagesUsers, TypeOK, Carried, Carries, ForUser
  <1>2. Handling(r) \in ReqType /\ Handling(r).user = req[r].user
    BY <1>1, HandlingType
  <1>3. /\ next \in ReqType /\ next.pc = "group_delete" /\ next.to = g
        /\ next.user = req[r].user
    <2>1. "group_delete" \in Pc
      BY DEF Pc, GroupPc
    <2>2. QED BY <1>2, <2>1 DEF ReqType
  <1>4. Carries(next)
    BY <1>1, <1>3 DEF Carries, OnUser, GroupPc, ForUser, UpdatePc, RevokePc
  <1>5. QED BY <1>1, <1>3, <1>4 DEF Moves, Puts

\* Every step puts a well-formed record in the place of one request.
LEMMA EveryMove ==
  ASSUME TypeOK, Carried, Referenced, NEW r \in Reqs, RequestOf(r)
  PROVE  \E next \in ReqType : Carries(next) /\ Puts(r, next)
  BY PlainMoves, SetupMoves, SelectMoves, TouchMoves, UpdateMoves, CountMoves,
     GroupReadMoves, MembersMoves, DeleteMoves DEF Moves

\* The columns, and the history, without the requests.
TableTypes ==
  /\ role \in [Users -> AllRoles \cup {None}]
  /\ enabled \in SUBSET Users /\ must \in SUBSET Users
  /\ epoch \in [Users -> Nat]
  /\ groupRole \in [Groups -> AllRoles \cup {None}]
  /\ groupOn \in SUBSET Groups
  /\ member \in SUBSET (Groups \X Users)
  /\ sess \in [Sessions -> [user : Users \cup {None}, epoch : Nat,
                            state : {"none", "live", "over"}]]
  /\ managed \in Nat
  /\ bySetup \in SUBSET Users
  /\ raced \in BOOLEAN
  /\ stray \in SUBSET Users

\* Every statement writes columns of their types.
LEMMA TableStep ==
  ASSUME TypeOK, Carried, NEW r \in Reqs, RequestOf(r)
  PROVE  TableTypes'
  <1>0. /\ TableTypes /\ Carries(req[r]) /\ req[r] \in ReqType
    BY DEF TypeOK, TableTypes, Carried
  <1>1. CASE SetupInsert(r)
    <2>1. req[r].to \in Users
      BY <1>0, <1>1 DEF SetupInsert, Carries, OnUser
    <2>2. QED BY <1>0, <1>1, <2>1 DEF SetupInsert, TableTypes, AllRoles
  <1>2. ASSUME NEW s \in Sessions, LoginInsert(r, s) PROVE TableTypes'
    <2>1. req[r].to \in Users /\ req[r].epoch \in Nat
      BY <1>0, <1>2 DEF LoginInsert, Carries, OnUser, ReqType
    <2>2. QED BY <1>0, <1>2, <2>1 DEF LoginInsert, TableTypes
  <1>3. CASE AuthIdle(r) \/ Logout(r)
    <2>1. req[r].by \in Sessions
      BY <1>0, <1>3 DEF AuthIdle, Logout, OwnAccount, Carries
    <2>2. QED BY <1>0, <1>3, <2>1 DEF AuthIdle, Logout, TableTypes
  <1>4. CASE ChangeWrite(r)
    <2>1. req[r].user \in Users
      BY <1>0, <1>4 DEF ChangeWrite, Carries, ForUser
    <2>2. QED BY <1>0, <1>4, <2>1 DEF ChangeWrite, TableTypes
  <1>5. ASSUME NEW u \in Users, NEW force \in BOOLEAN,
               ResetPassword(r, u, force)
        PROVE  TableTypes'
    BY <1>0, <1>5 DEF ResetPassword, TableTypes
  <1>6. CASE Revoke(r)
    BY <1>0, <1>6 DEF Revoke, RevokedAll, TableTypes
  <1>7. ASSUME NEW u \in Users, NEW x \in Roles, CreateUser(r, u, x)
        PROVE  TableTypes'
    BY <1>0, <1>7, AccountsAssumption DEF CreateUser, ManagesUsers, TableTypes
  <1>8. CASE UpdateWrite(r)
    <2>1. req[r].to \in Users /\ req[r].role \in AllRoles
      BY <1>0, <1>8 DEF UpdateWrite, Carries, OnUser, UpdatePc
    <2>2. raced' \in BOOLEAN
      BY <1>0, <1>8 DEF UpdateWrite, TableTypes
    <2>3. epoch' \in [Users -> Nat]
      BY <1>0, <1>8, <2>1 DEF UpdateWrite, TableTypes
    <2>4. QED BY <1>0, <1>8, <2>1, <2>2, <2>3 DEF UpdateWrite, TableTypes
  <1>9. ASSUME NEW g \in Groups, NEW x \in Roles, CreateGroup(r, g, x)
        PROVE  TableTypes'
    BY <1>0, <1>9, AccountsAssumption DEF CreateGroup, ManagesUsers, TableTypes
  <1>10. CASE UpdateGroupWrite(r)
    <2>1. req[r].to \in Groups /\ req[r].role \in AllRoles
      BY <1>0, <1>10 DEF UpdateGroupWrite, Carries, GroupPc
    <2>2. QED BY <1>0, <1>10, <2>1 DEF UpdateGroupWrite, TableTypes
  <1>11. CASE MembersWrite(r) \/ DeleteGroup(r)
    <2>1. req[r].to \in Groups /\ req[r].set \in SUBSET Users
      BY <1>0, <1>11 DEF MembersWrite, DeleteGroup, Carries, GroupPc, ReqType
    <2>2. QED BY <1>0, <1>11, <2>1
              DEF MembersWrite, DeleteGroup, MembersOf, TableTypes
  <1>12. CASE CutRequest(r)
    <2>1. req[r].pc = RevokePc => req[r].to \in Users
      BY <1>0 DEF Carries, OnUser
    <2>2. QED BY <1>0, <1>12, <2>1 DEF CutRequest, TableTypes
  <1>13. ASSUME \/ UNCHANGED managed
                \/ managed' = managed + 1,
                UNCHANGED <<userVars, groupVars, sess, bySetup, raced, stray>>
         PROVE  TableTypes'
    BY <1>0, <1>13 DEF TableTypes
  <1>14. AccountRequests(r) => TableTypes'
    BY <1>1, <1>2, <1>3, <1>4, <1>5, <1>6, <1>13
       DEF AccountRequests, SetupCount, LoginRead, AuthSelect, AuthTouch,
           ChangeRead
  <1>15. UserRequests(r) => TableTypes'
    BY <1>7, <1>8, <1>13 DEF UserRequests, UpdateRead, UpdateCount, ManagesUsers
  <1>16. GroupRequests(r) => TableTypes'
    BY <1>9, <1>10, <1>11, <1>13
       DEF GroupRequests, UpdateGroupRead, MembersCheck, DeleteGroupCount,
           ManagesUsers
  <1>17. QED BY <1>12, <1>14, <1>15, <1>16 DEF RequestOf

\* The types, and what requests carry, are inductive.
LEMMA RequestsStep ==
  ASSUME TypeOK, Carried, Referenced, Next
  PROVE  TypeOK' /\ Carried'
  <1>1. PICK r \in Reqs : RequestOf(r)
    BY DEF Next, Step, RequestOf
  <1>2. req' \in [Reqs -> ReqType] /\ Carried'
    BY <1>1, EveryMove, CarriedPut DEF TypeOK
  <1>3. TableTypes'
    BY <1>1, TableStep
  <1>4. wasAdmin' \in SUBSET Reqs /\ scope' \in Scopes
    BY DEF Next, ByAdmin, Attended, TypeOK
  <1>5. QED BY <1>2, <1>3, <1>4 DEF TypeOK, TableTypes

-----------------------------------------------------------------------------
(* Who writes which table. *)

\* Three statements write users; no other changes a role or an enabled.
LEMMA UserWriters ==
  ASSUME NEW r \in Reqs, RequestOf(r)
  PROVE  \/ SetupInsert(r)
         \/ \E u \in Users, x \in Roles : CreateUser(r, u, x)
         \/ UpdateWrite(r)
         \/ UNCHANGED <<role, enabled, bySetup, raced>>
  <1>1. AccountRequests(r) => \/ SetupInsert(r)
                              \/ UNCHANGED <<role, enabled, bySetup, raced>>
    BY DEF AccountRequests, SetupCount, LoginRead, LoginInsert, AuthSelect,
           AuthIdle, AuthTouch, Logout, ChangeRead, ChangeWrite, Revoke,
           ResetPassword
  <1>2. UserRequests(r) => \/ \E u \in Users, x \in Roles : CreateUser(r, u, x)
                           \/ UpdateWrite(r)
                           \/ UNCHANGED <<role, enabled, bySetup, raced>>
    BY DEF UserRequests, UpdateRead, UpdateCount
  <1>3. GroupRequests(r) => UNCHANGED <<role, enabled, bySetup, raced>>
    BY DEF GroupRequests, CreateGroup, UpdateGroupRead, UpdateGroupWrite,
           MembersCheck, MembersWrite, DeleteGroupCount, DeleteGroup
  <1>4. CutRequest(r) => UNCHANGED <<role, enabled, bySetup, raced>>
    BY DEF CutRequest
  <1>5. QED BY <1>1, <1>2, <1>3, <1>4 DEF RequestOf

\* Four statements write the groups and their members.
LEMMA GroupWriters ==
  ASSUME NEW r \in Reqs, RequestOf(r)
  PROVE  \/ \E g \in Groups, x \in Roles : CreateGroup(r, g, x)
         \/ UpdateGroupWrite(r) \/ MembersWrite(r) \/ DeleteGroup(r)
         \/ UNCHANGED groupVars
  <1>1. AccountRequests(r) => UNCHANGED groupVars
    BY DEF AccountRequests, SetupCount, SetupInsert, LoginRead, LoginInsert,
           AuthSelect, AuthIdle, AuthTouch, Logout, ChangeRead, ChangeWrite,
           Revoke, ResetPassword
  <1>2. UserRequests(r) => UNCHANGED groupVars
    BY DEF UserRequests, CreateUser, UpdateRead, UpdateCount, UpdateWrite
  <1>3. GroupRequests(r) =>
          \/ \E g \in Groups, x \in Roles : CreateGroup(r, g, x)
          \/ UpdateGroupWrite(r) \/ MembersWrite(r) \/ DeleteGroup(r)
          \/ UNCHANGED groupVars
    BY DEF GroupRequests, UpdateGroupRead, MembersCheck, DeleteGroupCount
  <1>4. CutRequest(r) => UNCHANGED groupVars
    BY DEF CutRequest
  <1>5. QED BY <1>1, <1>2, <1>3, <1>4 DEF RequestOf

\* The statements that end sessions, or that are meant to.
LEMMA SessionWriters ==
  ASSUME NEW r \in Reqs, RequestOf(r)
  PROVE  \/ \E s \in Sessions : LoginInsert(r, s)
         \/ AuthIdle(r) \/ Logout(r) \/ Revoke(r) \/ ChangeWrite(r)
         \/ \E u \in Users, force \in BOOLEAN : ResetPassword(r, u, force)
         \/ UpdateWrite(r) \/ CutRequest(r)
         \/ UNCHANGED <<sess, epoch, must, stray>> /\ req[r].pc # RevokePc
  <1>1. AccountRequests(r) =>
          \/ \E s \in Sessions : LoginInsert(r, s)
          \/ AuthIdle(r) \/ Logout(r) \/ Revoke(r) \/ ChangeWrite(r)
          \/ \E u \in Users, force \in BOOLEAN : ResetPassword(r, u, force)
          \/ UNCHANGED <<sess, epoch, must, stray>> /\ req[r].pc # RevokePc
    BY DEF AccountRequests, SetupCount, SetupInsert, LoginRead, AuthSelect,
           AuthTouch, ChangeRead, OwnAccount, RevokePc
  <1>2. UserRequests(r) =>
          \/ UpdateWrite(r)
          \/ UNCHANGED <<sess, epoch, must, stray>> /\ req[r].pc # RevokePc
    BY DEF UserRequests, CreateUser, UpdateRead, UpdateCount, ManagesUsers,
           RevokePc
  <1>3. GroupRequests(r) =>
          UNCHANGED <<sess, epoch, must, stray>> /\ req[r].pc # RevokePc
    BY DEF GroupRequests, CreateGroup, UpdateGroupRead, UpdateGroupWrite,
           MembersCheck, MembersWrite, DeleteGroupCount, DeleteGroup,
           ManagesUsers, RevokePc
  <1>4. QED BY <1>1, <1>2, <1>3 DEF RequestOf

\* Users and groups that are named: rows of users stay.
LEMMA NamedUsers ==
  ASSUME TypeOK, Carried, Referenced, NEW r \in Reqs, RequestOf(r)
  PROVE  /\ \A u \in Users : Exists(u) => Exists(u)'
         /\ \A u \in enabled' \cup bySetup' : Exists(u)'
  <1>0. /\ role \in [Users -> AllRoles \cup {None}] /\ Carries(req[r])
        /\ enabled \in SUBSET Users /\ bySetup \in SUBSET Users
        /\ \A u \in enabled \cup bySetup : Exists(u)
    BY DEF TypeOK, Carried, Referenced
  <1>1. CASE SetupInsert(r)
    <2>1. req[r].to \in Users
      BY <1>0, <1>1 DEF SetupInsert, Carries, OnUser
    <2>2. QED BY <1>0, <1>1, <2>1, AccountsAssumption
              DEF SetupInsert, Exists, AllRoles
  <1>2. ASSUME NEW u \in Users, NEW x \in Roles, CreateUser(r, u, x)
        PROVE  /\ \A v \in Users : Exists(v) => Exists(v)'
               /\ \A v \in enabled' \cup bySetup' : Exists(v)'
    BY <1>0, <1>2, AccountsAssumption DEF CreateUser, Exists
  <1>3. CASE UpdateWrite(r)
    <2>1. /\ req[r].to \in Users /\ req[r].role \in AllRoles
          /\ Exists(req[r].to)
      BY <1>0, <1>3 DEF UpdateWrite, Carries, OnUser, UpdatePc, Referenced
    <2>2. QED BY <1>0, <1>3, <2>1, AccountsAssumption DEF UpdateWrite, Exists
  <1>4. CASE UNCHANGED <<role, enabled, bySetup, raced>>
    BY <1>0, <1>4 DEF Exists
  <1>5. QED BY <1>1, <1>2, <1>3, <1>4, UserWriters

\* An enabled group exists.
LEMMA NamedGroups ==
  ASSUME TypeOK, Carried, Referenced, NEW r \in Reqs, RequestOf(r)
  PROVE  \A g \in groupOn' : groupRole'[g] # None
  <1>0. /\ groupRole \in [Groups -> AllRoles \cup {None}] /\ Carries(req[r])
        /\ groupOn \in SUBSET Groups /\ \A g \in groupOn : groupRole[g] # None
    BY DEF TypeOK, Carried, Referenced
  <1>1. ASSUME NEW g \in Groups, NEW x \in Roles, CreateGroup(r, g, x)
        PROVE  \A h \in groupOn' : groupRole'[h] # None
    BY <1>0, <1>1, AccountsAssumption DEF CreateGroup
  <1>2. CASE UpdateGroupWrite(r)
    <2>1. req[r].to \in Groups /\ req[r].role \in AllRoles
      BY <1>0, <1>2 DEF UpdateGroupWrite, Carries, GroupPc
    <2>2. QED BY <1>0, <1>2, <2>1, AccountsAssumption DEF UpdateGroupWrite
  <1>3. CASE MembersWrite(r) \/ DeleteGroup(r)
    <2>1. req[r].to \in Groups
      BY <1>0, <1>3 DEF MembersWrite, DeleteGroup, Carries, GroupPc
    <2>2. QED BY <1>0, <1>3, <2>1 DEF MembersWrite, DeleteGroup
  <1>4. CASE UNCHANGED groupVars
    BY <1>0, <1>4
  <1>5. QED BY <1>1, <1>2, <1>3, <1>4, GroupWriters

\* A live session has a user.
LEMMA NamedSessions ==
  ASSUME TypeOK, Carried, Referenced, NEW r \in Reqs, RequestOf(r)
  PROVE  \A s \in Sessions : sess'[s].state = "live" => sess'[s].user \in Users
  <1>0. /\ sess \in [Sessions -> [user : Users \cup {None}, epoch : Nat,
                                  state : {"none", "live", "over"}]]
        /\ Carries(req[r])
        /\ \A s \in Sessions : sess[s].state = "live" => sess[s].user \in Users
    BY DEF TypeOK, Carried, Referenced
  <1>1. ASSUME NEW s \in Sessions, LoginInsert(r, s)
        PROVE  \A t \in Sessions : sess'[t].state = "live"
                                     => sess'[t].user \in Users
    <2>1. req[r].to \in Users
      BY <1>0, <1>1 DEF LoginInsert, Carries, OnUser
    <2>2. QED BY <1>0, <1>1, <2>1 DEF LoginInsert
  <1>2. CASE AuthIdle(r) \/ Logout(r)
    BY <1>0, <1>2 DEF AuthIdle, Logout
  <1>3. CASE Revoke(r)
    BY <1>0, <1>3 DEF Revoke, RevokedAll
  <1>4. CASE UNCHANGED sess
    BY <1>0, <1>4
  <1>5. QED
    BY <1>1, <1>2, <1>3, <1>4, SessionWriters
       DEF ChangeWrite, ResetPassword, UpdateWrite, CutRequest

\* The users that a request works for, updates or makes members exist.
LEMMA NamedByRequests ==
  ASSUME TypeOK, Carried, Referenced, NEW r \in Reqs, RequestOf(r)
  PROVE  \A q \in Reqs :
           /\ req'[q].user \in Users => role'[req'[q].user] # None
           /\ req'[q].pc \in UpdatePc => role'[req'[q].to] # None
           /\ req'[q].pc = "members_write"
                => \A u \in req'[q].set : role'[u] # None
  <1> DEFINE Named(n) == /\ n.user \in Users => Exists(n.user)
                         /\ n.pc \in UpdatePc => Exists(n.to)
                         /\ n.pc = "members_write" =>
                              \A u \in n.set : Exists(u)
  <1>0. /\ req \in [Reqs -> ReqType] /\ \A q \in Reqs : Named(req[q])
        /\ \A q \in Reqs : Carries(req[q])
    BY DEF TypeOK, Referenced, Carried
  <1>1. \E next \in ReqType : Puts(r, next) /\ Carries(next) /\ Named(next)
    <2>1. ASSUME Moves(r, PlainPc \cup {"setup", "group_write", "group_delete"})
          PROVE  \E next \in ReqType : Puts(r, next) /\ Carries(next) /\ Named(next)
      BY <1>0, <2>1, AccountsAssumption
         DEF Moves, PlainPc, UpdatePc, GroupPc, RevokePc
    <2>2. ASSUME NEW u \in Users, SetupCount(r, u)
          PROVE  \E next \in ReqType : Puts(r, next) /\ Carries(next) /\ Named(next)
      BY <2>1, <2>2, SetupMoves DEF Moves
    <2>3. ASSUME NEW s \in Sessions, NEW on \in BOOLEAN, AuthSelect(r, s, on)
          PROVE  \E next \in ReqType : Puts(r, next) /\ Carries(next) /\ Named(next)
      <3>1. PICK next \in ReqType :
              /\ Carries(next) /\ Puts(r, next) /\ next.pc = "auth"
              /\ next.user \in enabled
        BY <2>3, SelectMoves
      <3>2. Exists(next.user)
        BY <3>1 DEF Referenced
      <3>3. QED BY <3>1, <3>2 DEF UpdatePc
    <2>4. ASSUME AuthTouch(r)
          PROVE  \E next \in ReqType : Puts(r, next) /\ Carries(next) /\ Named(next)
      <3>1. PICK next \in ReqType :
              /\ Carries(next) /\ Puts(r, next) /\ next.pc = "handler"
              /\ next.user = req[r].user
        BY <2>4, TouchMoves
      <3>2. QED BY <1>0, <3>1 DEF UpdatePc
    <2>5. ASSUME NEW u \in Users, NEW x \in Maybe(Roles),
                 NEW on \in Maybe(BOOLEAN), NEW pw \in BOOLEAN,
                 UpdateRead(r, u, x, on, pw)
          PROVE  \E next \in ReqType : Puts(r, next) /\ Carries(next) /\ Named(next)
      <3>1. PICK next \in ReqType :
              /\ Carries(next) /\ Puts(r, next) /\ next.pc \in UpdatePc
              /\ next.user = req[r].user /\ next.to = u /\ Exists(u)
        BY <2>5, UpdateMoves
      <3>2. QED BY <1>0, <3>1 DEF UpdatePc
    <2>6. ASSUME UpdateCount(r)
          PROVE  \E next \in ReqType : Puts(r, next) /\ Carries(next) /\ Named(next)
      <3>1. CASE Moves(r, {"idle"})
        BY <2>1, <3>1 DEF Moves, PlainPc
      <3>2. CASE \E next \in ReqType :
                   /\ Carries(next) /\ Puts(r, next)
                   /\ next.pc = "update_write"
                   /\ next.user = req[r].user /\ next.to = req[r].to
        BY <1>0, <2>6, <3>2 DEF UpdateCount, UpdatePc
      <3>3. QED BY <2>6, <3>1, <3>2, CountMoves
    <2>7. ASSUME NEW g \in Groups, NEW x \in Maybe(Roles),
                 NEW on \in Maybe(BOOLEAN), UpdateGroupRead(r, g, x, on)
          PROVE  \E next \in ReqType : Puts(r, next) /\ Carries(next) /\ Named(next)
      BY <2>1, <2>7, GroupReadMoves DEF Moves
    <2>8. ASSUME NEW g \in Groups, NEW set \in SUBSET Users,
                 MembersCheck(r, g, set)
          PROVE  \E next \in ReqType : Puts(r, next) /\ Carries(next) /\ Named(next)
      <3>1. PICK next \in ReqType :
              /\ Carries(next) /\ Puts(r, next) /\ next.pc = "members_write"
              /\ next.user = req[r].user /\ next.set = set
        BY <2>8, MembersMoves
      <3>2. QED BY <1>0, <2>8, <3>1 DEF MembersCheck, UpdatePc
    <2>9. ASSUME NEW g \in Groups, DeleteGroupCount(r, g)
          PROVE  \E next \in ReqType : Puts(r, next) /\ Carries(next) /\ Named(next)
      BY <2>1, <2>9, DeleteMoves DEF Moves
    <2>10. ASSUME Moves(r, PlainPc)
           PROVE  \E next \in ReqType : Puts(r, next) /\ Carries(next) /\ Named(next)
      BY <2>1, <2>10 DEF Moves
    <2>11. QED
      BY <2>2, <2>3, <2>4, <2>5, <2>6, <2>7, <2>8, <2>9, <2>10, PlainMoves
  <1>2. PICK next \in ReqType : Puts(r, next) /\ Carries(next) /\ Named(next)
    BY <1>1
  <1>3. /\ req' \in [Reqs -> ReqType] /\ req'[r] = next
        /\ \A q \in Reqs \ {r} : SameRequest(q)
    BY <1>0, <1>2, PutReq
  <1>4. ASSUME NEW q \in Reqs
        PROVE  Named(req'[q]) /\ Carries(req'[q])
    <2>1. CASE q = r
      BY <1>2, <1>3, <2>1
    <2>2. CASE q # r
      <3>1. SameRequest(q) /\ Named(req[q]) /\ Carries(req[q])
        BY <1>0, <1>3, <2>2
      <3>2. Carries(req'[q])
        BY <3>1 DEF SameRequest, Carries
      <3>3. Named(req'[q])
        BY <3>1 DEF SameRequest
      <3>4. QED BY <3>2, <3>3
    <2>3. QED BY <2>1, <2>2
  <1>5. \A u \in Users : Exists(u) => role'[u] # None
    BY NamedUsers DEF Exists
  <1>6. ASSUME NEW q \in Reqs
        PROVE  /\ req'[q].user \in Users => role'[req'[q].user] # None
               /\ req'[q].pc \in UpdatePc => role'[req'[q].to] # None
               /\ req'[q].pc = "members_write"
                    => \A u \in req'[q].set : role'[u] # None
    <2>1. req'[q].pc \in UpdatePc => req'[q].to \in Users
      BY <1>4 DEF Carries, OnUser
    <2>2. req'[q].set \in SUBSET Users
      <3>1. req'[q] \in ReqType
        BY <1>3
      <3>2. QED BY <3>1 DEF ReqType
    <2>3. Named(req'[q])
      BY <1>4
    <2> HIDE DEF UpdatePc
    <2>4. QED BY <1>5, <2>1, <2>2, <2>3
  <1>7. QED BY <1>6

\* Who is named somewhere has a row: the conjuncts above together.
LEMMA ReferencedStep ==
  ASSUME TypeOK, Carried, Referenced, NEW r \in Reqs, RequestOf(r)
  PROVE  Referenced'
  <1>1. \A u \in enabled' \cup bySetup' : role'[u] # None
    BY NamedUsers DEF Exists
  <1>2. QED BY <1>1, NamedGroups, NamedSessions, NamedByRequests
            DEF Referenced, Exists

-----------------------------------------------------------------------------
(* How a request comes to each statement, and what the others notice.      *)

Reads(r) ==
  \/ /\ req'[r].pc \in PlainPc
  \/ /\ req'[r].pc = "setup"
     /\ \E u \in Users : SetupCount(r, u)
  \/ /\ req'[r].pc = "auth"
     /\ \E s \in Sessions, on \in BOOLEAN : AuthSelect(r, s, on)
     /\ req'[r].eff = role[req'[r].user]
  \/ /\ req'[r].pc = "handler"
     /\ AuthTouch(r)
     /\ req'[r].user = req[r].user
     /\ req'[r].eff \in {req[r].eff} \cup RolesOfGroups(req[r].user)
  \/ /\ req'[r].pc \in UpdatePc
     /\ \E u \in Users, x \in Maybe(Roles), on \in Maybe(BOOLEAN),
           pw \in BOOLEAN : UpdateRead(r, u, x, on, pw)
     /\ req'[r].pc = "update_write"
          => \/ role[req'[r].to] # "admin"
             \/ req'[r].role = "admin" /\ req'[r].on
  \/ /\ req'[r].pc = "update_write"
     /\ UpdateCount(r) /\ OtherAdmins(req'[r].to) # {}
  \/ /\ req'[r].pc \in GroupPc /\ ManagesUsers(r)

\* How the request of a step comes to its next statement.
LEMMA Entered ==
  ASSUME TypeOK, Carried, Referenced, NEW r \in Reqs, RequestOf(r)
  PROVE  /\ Reads(r)
         /\ \A q \in Reqs \ {r} : SameRequest(q)
         /\ Carries(req'[r])
  <1>0. req \in [Reqs -> ReqType]
    BY DEF TypeOK
  <1>a. ASSUME NEW next \in ReqType, Puts(r, next) PROVE req'[r] = next
    BY <1>0, <1>a, PutReq
  <1>1. ASSUME NEW pcs, Moves(r, pcs)
        PROVE  req'[r].pc \in pcs
    BY <1>1, <1>a DEF Moves
  <1>2. ASSUME Moves(r, PlainPc) PROVE Reads(r)
    BY <1>1, <1>2 DEF Reads
  <1>3. ASSUME NEW u \in Users, SetupCount(r, u)
        PROVE  Reads(r)
    BY <1>1, <1>3, SetupMoves DEF Reads
  <1>4. ASSUME NEW s \in Sessions, NEW on \in BOOLEAN, AuthSelect(r, s, on)
        PROVE  Reads(r)
    <2>1. PICK next \in ReqType :
            /\ Puts(r, next) /\ next.pc = "auth"
            /\ next.user = sess[s].user /\ next.eff = role[sess[s].user]
      BY <1>4, SelectMoves
    <2>2. req'[r] = next
      BY <1>a, <2>1
    <2>3. QED BY <1>4, <2>1, <2>2 DEF Reads
  <1>5. ASSUME AuthTouch(r) PROVE Reads(r)
    <2>1. PICK next \in ReqType :
            /\ Puts(r, next) /\ next.pc = "handler"
            /\ next.user = req[r].user
            /\ next.eff \in {req[r].eff} \cup RolesOfGroups(req[r].user)
      BY <1>5, TouchMoves
    <2>2. req'[r] = next
      BY <1>a, <2>1
    <2>3. QED BY <1>5, <2>1, <2>2 DEF Reads
  <1>6. ASSUME NEW u \in Users, NEW x \in Maybe(Roles),
               NEW on \in Maybe(BOOLEAN), NEW pw \in BOOLEAN,
               UpdateRead(r, u, x, on, pw)
        PROVE  Reads(r)
    <2>1. PICK next \in ReqType :
            /\ Puts(r, next) /\ next.pc \in UpdatePc /\ next.to = u
            /\ next.pc = "update_write"
                 => role[u] # "admin" \/ (next.role = "admin" /\ next.on)
      BY <1>6, UpdateMoves
    <2>2. req'[r] = next
      BY <1>a, <2>1
    <2>3. QED BY <1>6, <2>1, <2>2 DEF Reads
  <1>7. ASSUME UpdateCount(r) PROVE Reads(r)
    <2>1. CASE Moves(r, {"idle"})
      <3>1. req'[r].pc = "idle"
        BY <1>1, <2>1
      <3>2. QED BY <3>1 DEF Reads, PlainPc
    <2>2. ASSUME OtherAdmins(req[r].to) # {},
                 NEW next \in ReqType, Puts(r, next),
                 next.pc = "update_write", next.to = req[r].to
          PROVE  Reads(r)
      <3>1. req'[r] = next
        BY <1>a, <2>2
      <3>2. QED BY <1>7, <2>2, <3>1 DEF Reads
    <2>3. QED BY <1>7, <2>1, <2>2, CountMoves
  <1>8. ASSUME NEW g \in Groups, NEW x \in Maybe(Roles),
               NEW on \in Maybe(BOOLEAN), UpdateGroupRead(r, g, x, on)
        PROVE  Reads(r)
    <2>1. req'[r].pc = "group_write"
      BY <1>1, <1>8, GroupReadMoves
    <2>2. QED BY <1>8, <2>1 DEF Reads, GroupPc, UpdateGroupRead
  <1>9. ASSUME NEW g \in Groups, NEW set \in SUBSET Users,
               MembersCheck(r, g, set)
        PROVE  Reads(r)
    <2>1. req'[r].pc = "members_write"
      BY <1>9, <1>a, MembersMoves
    <2>2. QED BY <1>9, <2>1 DEF Reads, GroupPc, MembersCheck
  <1>10. ASSUME NEW g \in Groups, DeleteGroupCount(r, g)
         PROVE  Reads(r)
    <2>1. req'[r].pc = "group_delete"
      BY <1>1, <1>10, DeleteMoves
    <2>2. QED BY <1>10, <2>1 DEF Reads, GroupPc, DeleteGroupCount
  <1>11. Reads(r)
    BY <1>2, <1>3, <1>4, <1>5, <1>6, <1>7, <1>8, <1>9, <1>10, PlainMoves
  <1>12. PICK next \in ReqType : Carries(next) /\ Puts(r, next)
    BY EveryMove
  <1>13. QED BY <1>0, <1>11, <1>12, PutReq

\* A write of users makes every read of it stale, the writer's own included.
LEMMA WritesMakeStale ==
  ASSUME TypeOK, NEW r \in Reqs, RequestOf(r)
  PROVE  UNCHANGED <<role, enabled>> \/ \A q \in Reqs : ~ req'[q].fresh
  <1>0. req \in [Reqs -> ReqType]
    BY DEF TypeOK
  <1>1. ASSUME NEW next, AfterUserWrite(r, next), ~ next.fresh
        PROVE  \A q \in Reqs : ~ req'[q].fresh
    <2>1. req'[r] = next
      BY <1>1 DEF AfterUserWrite
    <2>2. ASSUME NEW q \in Reqs \ {r} PROVE ~ req'[q].fresh
      <3>1. /\ req[q] \in ReqType
            /\ req'[q] = [req[q] EXCEPT !.fresh = FALSE]
        BY <1>0, <1>1 DEF AfterUserWrite
      <3>2. QED BY <3>1, StaleReq
    <2>3. QED BY <1>1, <2>1, <2>2
  <1>2. CASE SetupInsert(r)
    <2>1. ~ [IdleReq EXCEPT !.pc = "login_read", !.to = req[r].to].fresh
      BY DEF IdleReq
    <2>2. QED BY <1>1, <1>2, <2>1 DEF SetupInsert
  <1>3. ~ IdleReq.fresh /\ \A u \in Users : ~ RevokeNext(u).fresh
    BY DEF IdleReq, RevokeNext
  <1>4. ASSUME NEW u \in Users, NEW x \in Roles, CreateUser(r, u, x)
        PROVE  \A q \in Reqs : ~ req'[q].fresh
    BY <1>1, <1>3, <1>4 DEF CreateUser
  <1>5. CASE UpdateWrite(r)
    <2>1. ~ RevokeNext(req[r].to).fresh
      BY DEF IdleReq, RevokeNext
    <2>2. QED BY <1>1, <1>3, <1>5, <2>1 DEF UpdateWrite
  <1>6. QED BY <1>2, <1>4, <1>5, UserWriters

-----------------------------------------------------------------------------
(* The first administrator, and the last. *)

\* While users is unwritten, the count of a setup holds.
LEMMA FreshSetupStep ==
  ASSUME TypeOK, Carried, Referenced, FreshSetup, NEW r \in Reqs, RequestOf(r)
  PROVE  FreshSetup'
  <1>1. CASE \A q \in Reqs : ~ req'[q].fresh
    BY <1>1 DEF FreshSetup
  <1>2. CASE UNCHANGED <<role, enabled>>
    <2>1. ASSUME req'[r].pc = "setup"
          PROVE  \A u \in Users : ~ Exists(u)
      <3>1. \E u \in Users : SetupCount(r, u)
        BY <2>1, Entered DEF Reads, PlainPc, UpdatePc, GroupPc, RevokePc
      <3>2. QED BY <3>1 DEF SetupCount
    <2>2. ASSUME NEW q \in Reqs \ {r}, req'[q].pc = "setup", req'[q].fresh
          PROVE  \A u \in Users : ~ Exists(u)
      BY <2>2, Entered DEF SameRequest, FreshSetup
    <2>3. QED BY <1>2, <2>1, <2>2 DEF FreshSetup, Exists
  <1>3. QED BY <1>1, <1>2, WritesMakeStale

\* A setup inserts only while there is no user, so only once.
LEMMA OneSetupStep ==
  ASSUME TypeOK, Referenced, FreshSetup, OneSetup, NEW r \in Reqs, RequestOf(r)
  PROVE  OneSetup'
  <1>1. CASE SetupInsert(r)
    <2>1. bySetup = {}
      BY <1>1 DEF SetupInsert, FreshSetup, Referenced, TypeOK
    <2>2. QED BY <1>1, <2>1 DEF SetupInsert, OneSetup
  <1>2. CASE UNCHANGED bySetup
    BY <1>2 DEF OneSetup
  <1>3. QED BY <1>1, <1>2, UserWriters DEF CreateUser, UpdateWrite

\* While users is unwritten, an update leaves an administrator.
LEMMA FreshUpdateStep ==
  ASSUME TypeOK, Carried, Referenced, FreshUpdate,
         NEW r \in Reqs, RequestOf(r)
  PROVE  FreshUpdate'
  <1> DEFINE Safe(q) == \/ req'[q].role = "admin" /\ req'[q].on
                        \/ role[req'[q].to] # "admin"
                        \/ OtherAdmins(req'[q].to) # {}
  <1>1. CASE \A q \in Reqs : ~ req'[q].fresh
    BY <1>1 DEF FreshUpdate
  <1>2. CASE UNCHANGED <<role, enabled>>
    <2>1. ASSUME req'[r].pc = "update_write" PROVE Safe(r)
      BY <2>1, Entered DEF Reads, PlainPc, UpdatePc, GroupPc, RevokePc
    <2>2. ASSUME NEW q \in Reqs \ {r},
                 req'[q].pc = "update_write", req'[q].fresh
          PROVE  Safe(q)
      BY <2>2, Entered DEF SameRequest, FreshUpdate
    <2>3. \A q \in Reqs : req'[q].pc = "update_write" /\ req'[q].fresh => Safe(q)
      BY <2>1, <2>2
    <2>4. QED BY <1>2, <2>3 DEF FreshUpdate, OtherAdmins
  <1>3. QED BY <1>1, <1>2, WritesMakeStale

\* Each of the three writes of users leaves an enabled administrator.
LEMMA AdminRemainsStep ==
  ASSUME TypeOK, Carried, Referenced, FreshUpdate, AdminRemains,
         NEW r \in Reqs, RequestOf(r)
  PROVE  AdminRemains'
  <1>0. /\ role \in [Users -> AllRoles \cup {None}] /\ enabled \in SUBSET Users
        /\ Carries(req[r])
        /\ \A u \in enabled : Exists(u)
    BY DEF TypeOK, Carried, Referenced
  <1>1. CASE SetupInsert(r)
    <2>1. req[r].to \in Users
      BY <1>0, <1>1 DEF SetupInsert, Carries, OnUser
    <2>2. req[r].to \in enabled' /\ role'[req[r].to] = "admin"
      BY <1>0, <1>1, <2>1 DEF SetupInsert
    <2>3. QED BY <2>2 DEF AdminRemains
  <1>2. ASSUME NEW u \in Users, NEW x \in Roles, CreateUser(r, u, x)
        PROVE  AdminRemains'
    <2>1. req[r].user \in Users /\ Exists(req[r].user)
      BY <1>0, <1>2 DEF CreateUser, ManagesUsers, Carries, ForUser, Referenced
    <2>2. ASSUME NEW v \in enabled, role[v] = "admin"
          PROVE  v \in enabled' /\ role'[v] = "admin"
      BY <1>0, <1>2, <2>2 DEF CreateUser, Exists
    <2>3. QED BY <1>2, <2>1, <2>2 DEF AdminRemains, CreateUser
  <1>3. CASE UpdateWrite(r)
    <2>1. req[r].to \in Users /\ Exists(req[r].to)
      BY <1>0, <1>3 DEF UpdateWrite, Carries, OnUser, UpdatePc, Referenced
    <2>2. ASSUME NEW v \in enabled, role[v] = "admin", v # req[r].to
          PROVE  v \in enabled' /\ role'[v] = "admin"
      BY <1>0, <1>3, <2>1, <2>2 DEF UpdateWrite
    <2>3. CASE raced \/ ~ req[r].fresh
      BY <1>3, <2>3 DEF UpdateWrite, AdminRemains
    <2>4. CASE req[r].role = "admin" /\ req[r].on
      <3>1. req[r].to \in enabled' /\ role'[req[r].to] = "admin"
        BY <1>0, <1>3, <2>1, <2>4 DEF UpdateWrite
      <3>2. QED BY <3>1 DEF AdminRemains
    <2>5. CASE ~ raced /\ role[req[r].to] # "admin"
      <3>1. PICK v \in enabled : role[v] = "admin"
        BY <2>1, <2>5 DEF AdminRemains
      <3>2. QED BY <2>2, <2>5, <3>1 DEF AdminRemains
    <2>6. CASE OtherAdmins(req[r].to) # {}
      BY <2>2, <2>6 DEF AdminRemains, OtherAdmins
    <2>7. QED
      BY <1>3, <2>3, <2>4, <2>5, <2>6 DEF FreshUpdate, UpdateWrite
  <1>4. CASE UNCHANGED <<role, enabled, bySetup, raced>>
    BY <1>4 DEF AdminRemains, Exists
  <1>5. QED BY <1>1, <1>2, <1>3, <1>4, UserWriters

-----------------------------------------------------------------------------
(* The sessions that a password change or a disabling is meant to end.     *)

\* Whoever is about to revoke stays so until the revocation, or the cut.
LEMMA RevokingStays ==
  ASSUME TypeOK, Carried, Referenced, NEW r \in Reqs, RequestOf(r),
         NEW u \in Users, Revoking(u),
         ~ (req[r].pc = RevokePc /\ req[r].to = u)
  PROVE  Revoking(u)'
  <1>1. PICK q \in Reqs : req[q].pc = RevokePc /\ req[q].to = u
    BY DEF Revoking
  <1>2. SameRequest(q)
    BY <1>1, Entered
  <1>3. QED BY <1>1, <1>2 DEF SameRequest, Revoking

\* Each statement that outdates sessions announces their revocation.
LEMMA SessionsCurrentStep ==
  ASSUME TypeOK, Carried, Referenced, SessionsCurrent,
         NEW r \in Reqs, RequestOf(r)
  PROVE  SessionsCurrent'
  <1> DEFINE Current(s) == \/ sess[s].epoch = epoch[sess[s].user]
                           \/ sess[s].user \in must
                           \/ Revoking(sess[s].user)
                           \/ sess[s].user \in stray
             Opened == [user : Users \cup {None}, epoch : Nat,
                        state : {"none", "live", "over"}]
  <1>0. /\ sess \in [Sessions -> Opened] /\ epoch \in [Users -> Nat]
        /\ must \in SUBSET Users /\ stray \in SUBSET Users
        /\ req \in [Reqs -> ReqType] /\ Carries(req[r])
        /\ \A s \in Sessions : sess[s].state = "live" => sess[s].user \in Users
    BY DEF TypeOK, Carried, Referenced
  <1>1. SUFFICES ASSUME NEW s \in Sessions, sess'[s].state = "live"
                 PROVE  \/ sess'[s].epoch = epoch'[sess'[s].user]
                        \/ sess'[s].user \in must'
                        \/ Revoking(sess[s].user)'
                        \/ sess'[s].user \in stray'
    BY DEF SessionsCurrent
  <1>2. ASSUME sess'[s] = sess[s]
        PROVE  sess[s].user \in Users /\ Current(s)
    BY <1>0, <1>1, <1>2 DEF SessionsCurrent
  <1>3. ASSUME NEW u \in Users, sess'[s] = sess[s], sess[s].user = u,
               Revoking(u)'
        PROVE  Revoking(sess[s].user)'
    BY <1>3 DEF Revoking
  \* What ends the sessions of one user does not disturb those of another.
  <1>4. ASSUME sess'[s] = sess[s], req[r].pc # RevokePc,
               epoch'[sess[s].user] = epoch[sess[s].user],
               sess[s].user \in must => sess[s].user \in must',
               stray' = stray
        PROVE  \/ sess'[s].epoch = epoch'[sess'[s].user]
               \/ sess'[s].user \in must'
               \/ Revoking(sess[s].user)'
               \/ sess'[s].user \in stray'
    BY <1>2, <1>3, <1>4, RevokingStays
  <1>5. ASSUME NEW u \in Users, req' = [req EXCEPT ![r] = RevokeNext(u)]
                                \/ AfterUserWrite(r, RevokeNext(u))
        PROVE  Revoking(u)'
    <2>1. /\ RevokeNext(u) \in ReqType /\ RevokeNext(u).pc = RevokePc
          /\ RevokeNext(u).to = u
      BY <1>5, RevokeMoves
    <2>2. req'[r] = RevokeNext(u)
      BY <1>0, <1>5, <2>1, PutReq DEF Puts
    <2>3. QED BY <2>1, <2>2 DEF Revoking
  <1>6. ASSUME NEW t \in Sessions, LoginInsert(r, t)
        PROVE  \/ sess'[s].epoch = epoch'[sess'[s].user]
               \/ sess'[s].user \in must'
               \/ Revoking(sess[s].user)'
               \/ sess'[s].user \in stray'
    <2>1. req[r].to \in Users /\ req[r].pc # RevokePc
      BY <1>0, <1>6 DEF LoginInsert, Carries, OnUser, RevokePc
    <2>2. CASE s = t
      BY <1>0, <1>6, <2>1, <2>2 DEF LoginInsert
    <2>3. CASE s # t
      <3>1. sess'[s] = sess[s] /\ epoch' = epoch /\ must' = must
        BY <1>0, <1>6, <2>3 DEF LoginInsert
      <3>2. sess[s].user \in stray => sess[s].user \in stray'
        BY <1>6 DEF LoginInsert
      <3>3. QED BY <1>2, <1>3, <2>1, <3>1, <3>2, RevokingStays
    <2>4. QED BY <2>2, <2>3
  <1>7. CASE AuthIdle(r) \/ Logout(r)
    <2>1. sess'[s] = sess[s]
      BY <1>0, <1>1, <1>7 DEF AuthIdle, Logout
    <2>2. QED
      BY <1>4, <1>7, <2>1 DEF AuthIdle, Logout, OwnAccount, RevokePc
  <1>8. CASE Revoke(r)
    <2>1. sess'[s] = sess[s] /\ sess[s].user # req[r].to
      BY <1>0, <1>1, <1>8 DEF Revoke, RevokedAll
    <2>2. UNCHANGED <<epoch, must, stray>>
      BY <1>8 DEF Revoke
    <2>3. QED BY <1>2, <1>3, <2>1, <2>2, RevokingStays
  <1>9. ASSUME ChangeWrite(r)
        PROVE  \/ sess'[s].epoch = epoch'[sess'[s].user]
               \/ sess'[s].user \in must'
               \/ Revoking(sess[s].user)'
               \/ sess'[s].user \in stray'
    <2>1. req[r].user \in Users /\ sess' = sess
      BY <1>0, <1>9 DEF ChangeWrite, Carries, ForUser
    <2>2. CASE sess[s].user = req[r].user
      <3>1. PICK u \in Users : u = req[r].user
        BY <2>1
      <3>2. Revoking(u)'
        BY <1>5, <1>9, <3>1 DEF ChangeWrite
      <3>3. QED BY <1>3, <2>1, <2>2, <3>1, <3>2
    <2>3. CASE sess[s].user # req[r].user
      <3>1. /\ epoch'[sess[s].user] = epoch[sess[s].user]
            /\ sess[s].user \in must => sess[s].user \in must'
            /\ stray' = stray /\ req[r].pc # RevokePc
        BY <1>0, <1>2, <1>9, <2>1, <2>3 DEF ChangeWrite, RevokePc
      <3>2. QED BY <1>4, <2>1, <3>1
    <2>4. QED BY <2>2, <2>3
  <1>10. ASSUME NEW u \in Users, NEW force \in BOOLEAN,
                ResetPassword(r, u, force)
         PROVE  \/ sess'[s].epoch = epoch'[sess'[s].user]
                \/ sess'[s].user \in must'
                \/ Revoking(sess[s].user)'
                \/ sess'[s].user \in stray'
    <2>1. sess' = sess /\ Revoking(u)'
      BY <1>0, <1>5, <1>10 DEF ResetPassword
    <2>2. CASE sess[s].user = u
      BY <1>3, <2>1, <2>2
    <2>3. CASE sess[s].user # u
      <3>1. /\ epoch'[sess[s].user] = epoch[sess[s].user]
            /\ sess[s].user \in must => sess[s].user \in must'
            /\ stray' = stray /\ req[r].pc # RevokePc
        BY <1>0, <1>2, <1>10, <2>1, <2>3 DEF ResetPassword, RevokePc
      <3>2. QED BY <1>4, <2>1, <3>1
    <2>4. QED BY <2>2, <2>3
  <1>11. CASE UpdateWrite(r)
    <2>1. /\ req[r].to \in Users /\ sess' = sess /\ stray' = stray
          /\ req[r].pc # RevokePc
      BY <1>0, <1>11 DEF UpdateWrite, Carries, OnUser, UpdatePc, RevokePc
    <2>2. CASE sess[s].user = req[r].to /\ req[r].pw
      <3>1. sess[s].user \in must'
        BY <1>11, <2>2 DEF UpdateWrite
      <3>2. QED BY <2>1, <3>1
    <2>3. CASE sess[s].user = req[r].to /\ ~ req[r].on
      <3>1. PICK u \in Users : u = req[r].to
        BY <2>1
      <3>2. Revoking(u)'
        BY <1>5, <1>11, <2>3, <3>1 DEF UpdateWrite
      <3>3. QED BY <1>3, <2>1, <2>3, <3>1, <3>2
    <2>4. CASE sess[s].user # req[r].to \/ (~ req[r].pw /\ req[r].on)
      <3>1. epoch'[sess[s].user] = epoch[sess[s].user]
        BY <1>0, <1>2, <1>11, <2>1, <2>4 DEF UpdateWrite
      <3>2. sess[s].user \in must => sess[s].user \in must'
        BY <1>11 DEF UpdateWrite
      <3>3. QED BY <1>4, <2>1, <3>1, <3>2
    <2>5. QED BY <2>2, <2>3, <2>4
  <1>12. CASE CutRequest(r)
    <2>1. /\ sess' = sess /\ UNCHANGED <<epoch, must>>
          /\ sess[s].user \in stray => sess[s].user \in stray'
          /\ req[r].pc = RevokePc /\ req[r].to = sess[s].user
               => sess[s].user \in stray'
      BY <1>12 DEF CutRequest
    <2>2. QED BY <1>2, <1>3, <2>1, RevokingStays
  <1>13. CASE UNCHANGED <<sess, epoch, must, stray>> /\ req[r].pc # RevokePc
    BY <1>4, <1>13
  <1>14. QED
    BY <1>6, <1>7, <1>8, <1>9, <1>10, <1>11, <1>12, <1>13, SessionWriters

-----------------------------------------------------------------------------
(* Who passes for an administrator, and who is a member.                   *)

\* A request passes for an administrator's only with a role its user had.
LEMMA WasAdminStep ==
  ASSUME TypeOK, Carried, Referenced, AuthWasAdmin, AdminWasAdmin,
         NEW r \in Reqs, RequestOf(r),
         wasAdmin' = (wasAdmin \cap Attended') \cup ByAdmin'
  PROVE  AuthWasAdmin' /\ AdminWasAdmin'
  <1> DEFINE Passes(q) == \/ q.pc \in {"auth", "handler"} /\ q.eff = "admin"
                          \/ q.pc \in UpdatePc \cup GroupPc
  <1>0. /\ \A q \in Reqs \ {r} : SameRequest(q)
        /\ \A q \in Reqs : Carries(req[q]) /\ Carries(req'[q])
    <2>1. \A q \in Reqs \ {r} : SameRequest(q) /\ Carries(req[q])
      BY Entered DEF Carried
    <2>2. \A q \in Reqs \ {r} : Carries(req'[q])
      BY <2>1 DEF SameRequest, Carries
    <2>3. QED BY <2>1, <2>2, Entered DEF Carried
  <1>1. \A q \in Reqs : Passes(req[q]) => q \in wasAdmin
    BY DEF AuthWasAdmin, AdminWasAdmin
  \* A request that passes still has its user.
  <1>2. ASSUME NEW q \in Reqs, Passes(req'[q])
        PROVE  req'[q].user \in Users /\ req'[q].user # None
    BY <1>0, <1>2, AccountsAssumption DEF Carries, ForUser
  <1>3. ASSUME NEW q \in Reqs, Passes(req'[q]), q \in wasAdmin
        PROVE  q \in wasAdmin'
    BY <1>2, <1>3 DEF Attended
  <1>4. ASSUME NEW q \in Reqs \ {r}, Passes(req'[q])
        PROVE  q \in wasAdmin'
    <2>1. Passes(req[q])
      BY <1>0, <1>4 DEF SameRequest
    <2>2. QED BY <1>1, <1>3, <1>4, <2>1
  <1>5. ASSUME Passes(req'[r]), Passes(req[r])
        PROVE  r \in wasAdmin'
    BY <1>1, <1>3, <1>5
  <1>6. ASSUME Passes(req'[r]),
               \/ role'[req'[r].user] = "admin"
               \/ "admin" \in RolesOfGroups(req[r].user)
                  /\ req'[r].user = req[r].user /\ UNCHANGED groupVars
        PROVE  r \in wasAdmin'
    <2>1. IsAdmin(req[r].user)'
      BY <1>6 DEF IsAdmin, RolesOfGroups
    <2>2. QED BY <1>2, <1>6, <2>1 DEF ByAdmin, Attended
  <1>7. ASSUME Passes(req'[r])
        PROVE  r \in wasAdmin'
    <2>1. CASE req'[r].pc = "auth"
      <3>1. role'[req'[r].user] = "admin"
        BY <1>7, <2>1, Entered
           DEF Reads, PlainPc, UpdatePc, GroupPc, RevokePc, AuthSelect
      <3>2. QED BY <1>6, <1>7, <3>1
    <2>2. CASE req'[r].pc = "handler"
      <3>1. /\ AuthTouch(r) /\ req'[r].user = req[r].user
            /\ req'[r].eff \in {req[r].eff} \cup RolesOfGroups(req[r].user)
        BY <2>2, Entered DEF Reads, PlainPc, UpdatePc, GroupPc, RevokePc
      <3>2. req[r].pc = "auth" /\ UNCHANGED groupVars
        BY <3>1 DEF AuthTouch
      <3>3. req'[r].eff = "admin"
        BY <1>7, <2>2 DEF UpdatePc, GroupPc
      <3>4. QED BY <1>5, <1>6, <1>7, <3>1, <3>2, <3>3
    <2>3. CASE req'[r].pc \in UpdatePc \cup GroupPc
      <3>1. \/ UpdateCount(r)
            \/ ManagesUsers(r)
        BY <2>3, Entered
           DEF Reads, PlainPc, UpdatePc, GroupPc, RevokePc, UpdateRead
      <3>2. Passes(req[r])
        BY <3>1 DEF UpdateCount, ManagesUsers, UpdatePc
      <3>3. QED BY <1>5, <1>7, <3>2
    <2>4. QED BY <1>7, <2>1, <2>2, <2>3
  <1>8. \A q \in Reqs : Passes(req'[q]) => q \in wasAdmin'
    BY <1>4, <1>7
  <1>9. QED BY <1>8 DEF AuthWasAdmin, AdminWasAdmin

\* The foreign keys of user_group_members hold.
LEMMA MembersExistStep ==
  ASSUME TypeOK, Carried, Referenced, MembersExist, NEW r \in Reqs, RequestOf(r)
  PROVE  MembersExist'
  <1>0. /\ groupRole \in [Groups -> AllRoles \cup {None}] /\ Carries(req[r])
        /\ member \in SUBSET (Groups \X Users) /\ req[r] \in ReqType
        /\ \A m \in member : groupRole[m[1]] # None /\ Exists(m[2])
    BY DEF TypeOK, Carried, MembersExist
  <1>1. \A u \in Users : Exists(u) => role'[u] # None
    BY NamedUsers DEF Exists
  <1>2. \A m \in member : /\ m \in Groups \X Users /\ m[1] \in Groups
                          /\ m[2] \in Users /\ role'[m[2]] # None
    BY <1>0, <1>1
  <1>3. SUFFICES \A m \in member' : groupRole'[m[1]] # None /\ role'[m[2]] # None
    BY DEF MembersExist, Exists
  <1>4. ASSUME NEW g \in Groups, NEW x \in Roles, CreateGroup(r, g, x)
        PROVE  \A m \in member' : groupRole'[m[1]] # None /\ role'[m[2]] # None
    BY <1>0, <1>2, <1>4, AccountsAssumption DEF CreateGroup
  <1>5. CASE UpdateGroupWrite(r)
    <2>1. req[r].to \in Groups /\ req[r].role \in AllRoles
      BY <1>0, <1>5 DEF UpdateGroupWrite, Carries, GroupPc
    <2>2. member' = member
      BY <1>5 DEF UpdateGroupWrite
    <2>3. \A g \in Groups : groupRole[g] # None => groupRole'[g] # None
      BY <1>0, <1>5, <2>1, AccountsAssumption DEF UpdateGroupWrite
    <2>4. QED BY <1>0, <1>2, <2>2, <2>3
  <1>6. CASE MembersWrite(r)
    <2>1. /\ req[r].to \in Groups /\ req[r].set \in SUBSET Users
          /\ \A u \in req[r].set : Exists(u)
      BY <1>0, <1>6 DEF MembersWrite, Carries, GroupPc, ReqType, Referenced
    <2>2. groupRole' = groupRole
      BY <1>6 DEF MembersWrite
    <2>3. CASE groupRole[req[r].to] = None
      BY <1>0, <1>2, <1>6, <2>2, <2>3 DEF MembersWrite
    <2>4. CASE groupRole[req[r].to] # None
      <3>1. ASSUME NEW u \in req[r].set, NEW m, m = <<req[r].to, u>>
            PROVE  groupRole'[m[1]] # None /\ role'[m[2]] # None
        BY <1>1, <2>1, <2>2, <2>4, <3>1
      <3>2. \A m \in member' : \/ m \in member
                               \/ \E u \in req[r].set : m = <<req[r].to, u>>
        BY <1>6, <2>4 DEF MembersWrite, MembersOf
      <3>3. QED BY <1>0, <1>2, <2>2, <3>1, <3>2
    <2>5. QED BY <2>3, <2>4
  <1>7. CASE DeleteGroup(r)
    <2>1. \A m \in member' : m \in member /\ m[1] # req[r].to
      BY <1>7 DEF DeleteGroup, MembersOf
    <2>2. \A g \in Groups : g # req[r].to => groupRole'[g] = groupRole[g]
      BY <1>0, <1>7 DEF DeleteGroup
    <2>3. QED BY <1>0, <1>2, <2>1, <2>2
  <1>8. CASE UNCHANGED groupVars
    BY <1>0, <1>2, <1>8
  <1>9. QED BY <1>4, <1>5, <1>6, <1>7, <1>8, GroupWriters

-----------------------------------------------------------------------------
(* The invariant. *)

\* An empty database satisfies the invariant.
LEMMA InitInv ==
  ASSUME Init
  PROVE  Inv
  <1>1. IdleReq \in ReqType
    BY DEF IdleReq, ReqType, Pc
  <1>2. /\ Carries(IdleReq) /\ IdleReq.pc = "idle" /\ IdleReq.user = None
        /\ ~ IdleReq.fresh
    BY DEF Carries, IdleReq, OnUser, GroupPc, ForUser, UpdatePc, RevokePc
  <1>3. TypeOK
    BY <1>1 DEF Init, TypeOK, NoSession
  <1>4. Carried
    BY <1>2 DEF Init, Carried
  <1>5. \A r \in Reqs : req[r].pc = "idle" /\ req[r].user = None
    BY <1>2 DEF Init
  <1>6. Referenced
    BY <1>5, AccountsAssumption DEF Init, Referenced, NoSession, UpdatePc
  <1>7. FreshSetup /\ OneSetup /\ FreshUpdate /\ AdminRemains
    BY <1>5 DEF Init, FreshSetup, OneSetup, FreshUpdate, AdminRemains, Exists
  <1>8. SessionsCurrent /\ MembersExist
    BY DEF Init, SessionsCurrent, MembersExist, NoSession
  <1>9. AuthWasAdmin /\ AdminWasAdmin
    BY <1>5 DEF AuthWasAdmin, AdminWasAdmin, UpdatePc, GroupPc
  <1>10. QED BY <1>3, <1>4, <1>6, <1>7, <1>8, <1>9 DEF Inv

\* So does the state after any statement, if the state before did.
LEMMA NextInv ==
  ASSUME Inv, Next
  PROVE  Inv'
  <1>0. /\ TypeOK /\ Carried /\ Referenced
        /\ FreshSetup /\ OneSetup /\ FreshUpdate /\ AdminRemains
        /\ SessionsCurrent /\ AuthWasAdmin /\ AdminWasAdmin /\ MembersExist
    BY DEF Inv
  <1>1. PICK r \in Reqs : RequestOf(r)
    BY DEF Next, Step, RequestOf
  <1>2. TypeOK' /\ Carried'
    BY <1>0, RequestsStep
  <1>3. Referenced' /\ FreshSetup' /\ OneSetup'
    BY <1>0, <1>1, ReferencedStep, FreshSetupStep, OneSetupStep
  <1>4. FreshUpdate' /\ AdminRemains'
    BY <1>0, <1>1, FreshUpdateStep, AdminRemainsStep
  <1>5. SessionsCurrent' /\ MembersExist'
    BY <1>0, <1>1, SessionsCurrentStep, MembersExistStep
  <1>6. AuthWasAdmin' /\ AdminWasAdmin'
    BY <1>0, <1>1, WasAdminStep DEF Next
  <1>7. QED BY <1>2, <1>3, <1>4, <1>5, <1>6 DEF Inv

\* Nor do steps of others than the control plane disturb it.
LEMMA StutterInv ==
  ASSUME Inv, UNCHANGED vars
  PROVE  Inv'
  <1>1. TypeOK' /\ Carried' /\ Referenced'
    BY DEF Inv, vars, TypeOK, Carried, Referenced, Exists
  <1>2. FreshSetup' /\ OneSetup' /\ FreshUpdate' /\ AdminRemains'
    BY DEF Inv, vars, FreshSetup, OneSetup, FreshUpdate, AdminRemains, Exists,
           OtherAdmins
  <1>3. SessionsCurrent' /\ MembersExist'
    BY DEF Inv, vars, SessionsCurrent, Revoking, MembersExist, Exists
  <1>4. AuthWasAdmin' /\ AdminWasAdmin'
    BY DEF Inv, vars, AuthWasAdmin, AdminWasAdmin
  <1>5. QED BY <1>1, <1>2, <1>3, <1>4 DEF Inv

\* The conjunction of the run's invariants and of the facts they rest on is
\* inductive: whatever the requests, and wherever they are cut.
THEOREM Invariance == Spec => []Inv
  <1>1. Init => Inv
    BY InitInv
  <1>2. Inv /\ [Next]_vars => Inv'
    BY NextInv, StutterInv
  <1>3. QED BY <1>1, <1>2, PTL DEF Spec

\* The rows, the sessions and the requests of the control plane keep their
\* types, whatever the numbers of users, groups, sessions and requests.
THEOREM TypeCorrect == Spec => []TypeOK
  <1>1. Inv => TypeOK
    BY DEF Inv
  <1>2. QED BY <1>1, Invariance, PTL

\* setup_initial_admin creates at most one user, however many setups overlap:
\* the count of its transaction must still hold when it inserts.
THEOREM SetupIsOnce == Spec => []SetupOnce
  <1>1. ASSUME Inv PROVE SetupOnce
    <2>1. CASE bySetup = {}
      BY <2>1, FS_EmptySet DEF SetupOnce
    <2>2. CASE bySetup # {}
      <3>1. PICK u \in bySetup : bySetup = {u}
        BY <1>1, <2>2 DEF Inv, OneSetup
      <3>2. Cardinality({u}) = 1
        BY FS_Singleton
      <3>3. QED BY <3>1, <3>2 DEF SetupOnce
    <2>3. QED BY <2>1, <2>2
  <1>2. QED BY <1>1, Invariance, PTL

\* update_user_with_policy never disables or demotes the last enabled
\* administrator, as long as no update is written on a stale read.
THEOREM AdminAlwaysRemains == Spec => []AdminRemains
  <1>1. Inv => AdminRemains
    BY DEF Inv
  <1>2. QED BY <1>1, Invariance, PTL

\* After a password change, a reset or a disabling, a session opened before is
\* over, or about to be revoked, unless a login overlapped or the request was
\* cut before the revocation.
THEOREM SessionsAreCurrent == Spec => []SessionsCurrent
  <1>1. Inv => SessionsCurrent
    BY DEF Inv
  <1>2. QED BY <1>1, Invariance, PTL

\* control_plane_auth lets nobody manage users and groups who was not an
\* effective administrator at some moment since the request arrived.
THEOREM ManagersWereAdmins == Spec => []AdminWasAdmin
  <1>1. Inv => AdminWasAdmin
    BY DEF Inv
  <1>2. QED BY <1>1, Invariance, PTL

\* replace_user_group_members and delete_user_group leave no member of a group
\* that is gone, and no member that is not a user.
THEOREM MembersAlwaysExist == Spec => []MembersExist
  <1>1. Inv => MembersExist
    BY DEF Inv
  <1>2. QED BY <1>1, Invariance, PTL

=============================================================================
