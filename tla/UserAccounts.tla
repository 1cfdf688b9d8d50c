---------------------------- MODULE UserAccounts ----------------------------
(***************************************************************************)
(* Users, groups and sessions of the control plane: the tables users,      *)
(* user_groups, user_group_members and user_sessions, the functions of     *)
(* server/src/repository.rs that read and write them, and the middleware   *)
(* and handlers of server/src/routes.rs that call these functions.         *)
(*                                                                         *)
(* A request is a sequence of SQL statements, each of which is one step;   *)
(* only the first administrator and the members of a group are written in  *)
(* a transaction.  A request may be cut between any two steps.  Reads that *)
(* no later step of the request depends on (the answer, the audit record,  *)
(* the listings) are left out.                                             *)
(*                                                                         *)
(* A user's id stands for the name too.  A password is the number of the   *)
(* change that set it, and epoch counts everything that is meant to end    *)
(* the sessions a user has: a new password, and being disabled.            *)
(***************************************************************************)
EXTENDS Naturals, FiniteSets

CONSTANTS
  Users,     \* rows of users, once created (there is no deletion)
  Groups,    \* rows of user_groups
  Sessions,  \* rows of user_sessions, each inserted by one login
  Reqs,      \* requests in progress
  Roles,     \* the roles that requests ask for
  Scopes,    \* bounds, one of which holds in each behaviour: epochs on the
             \* password changes and disablings per user, managed on the
             \* requests that manage users and groups, groups on whether
             \* there are any of groups
  None       \* no row, no session

AllRoles == {"admin", "operator", "viewer"}

ASSUME AccountsAssumption ==
  /\ Roles \subseteq AllRoles
  /\ Scopes \subseteq [epochs : Nat, managed : Nat, groups : BOOLEAN]
  /\ None \notin Users \cup Groups \cup Sessions \cup AllRoles

VARIABLES
  scope,      \* the bounds of this behaviour
  role,       \* users.role, None while the user does not exist
  enabled,    \* users with enabled = 1
  must,       \* users with must_change_password = 1
  epoch,      \* how often the user's sessions were meant to end
  groupRole,  \* user_groups.role, None while the group does not exist
  groupOn,    \* groups with enabled = 1
  member,     \* user_group_members, pairs of a group and a user
  sess,       \* user_sessions: who, opened under which epoch, and whether it
              \* is over (revoked_at is set)
  req,        \* the requests
  managed,    \* how many of them managed users and groups so far
  bySetup,    \* history: users created by setup_initial_admin
  raced,      \* history: an update was written on a stale read
  stray,      \* history: users with a login that overlapped the end of
              \* their sessions, or for whom that end was cut off
  wasAdmin    \* history: requests whose user has been an effective
              \* administrator at some moment since authentication began

userVars == <<role, enabled, must, epoch>>
groupVars == <<groupRole, groupOn, member>>
vars == <<scope, role, enabled, must, epoch, groupRole, groupOn, member, sess,
          req, managed, bySetup, raced, stray, wasAdmin>>

-----------------------------------------------------------------------------
(* Roles. *)

role_rank(x) == CASE x = "admin" -> 3 [] x = "operator" -> 2
                  [] x = "viewer" -> 1 [] OTHER -> 0

RolesOfGroups(u) ==
  {groupRole[g] : g \in {h \in groupOn : <<h, u>> \in member}}

\* Mutant: a disabled group still lends its role.
EffectiveRoleAnyGroup(u, own) ==
  LET all == {own} \cup {groupRole[m[1]] : m \in {n \in member : n[2] = u}}
  IN CHOOSE x \in all : \A y \in all : role_rank(x) >= role_rank(y)

\* enrich_effective_role: the highest of the user's own role, as read
\* before, and the roles of the enabled groups the user is in now.
EffectiveRole(u, own) ==
  LET all == {own} \cup RolesOfGroups(u)
  IN CHOOSE x \in all : \A y \in all : role_rank(x) >= role_rank(y)

IsAdmin(u) == role[u] = "admin" \/ "admin" \in RolesOfGroups(u)

-----------------------------------------------------------------------------

RevokePc == "revoke"
UpdatePc == {"update_count", "update_write"}
GroupPc == {"group_write", "members_write", "group_delete"}
Pc == {"idle", "auth", "handler", "setup", "login_read", "login_insert",
       "change_write", RevokePc} \cup UpdatePc \cup GroupPc

\* pc: the next statement; by, user, own, eff, must: the session, the user
\* and what authentication read of it; on, to, role, pw, set: the user or
\* group the request is about and what it will write; epoch: as read by a
\* login; fresh: users have not been written since the request read them.
IdleReq == [pc |-> "idle", by |-> None, user |-> None, eff |-> None,
            must |-> FALSE, to |-> None, role |-> None, on |-> FALSE,
            pw |-> FALSE, set |-> {}, epoch |-> 0, fresh |-> FALSE]
ReqType == [pc : Pc, by : Sessions \cup {None}, user : Users \cup {None},
            eff : AllRoles \cup {None}, must : BOOLEAN,
            to : Users \cup Groups \cup {None}, role : AllRoles \cup {None},
            on : BOOLEAN, pw : BOOLEAN, set : SUBSET Users, epoch : Nat,
            fresh : BOOLEAN]
NoSession == [user |-> None, epoch |-> 0, state |-> "none"]

TypeOK ==
  /\ scope \in Scopes
  /\ role \in [Users -> AllRoles \cup {None}]
  /\ enabled \in SUBSET Users /\ must \in SUBSET Users
  /\ epoch \in [Users -> Nat]
  /\ groupRole \in [Groups -> AllRoles \cup {None}]
  /\ groupOn \in SUBSET Groups
  /\ member \in SUBSET (Groups \X Users)
  /\ sess \in [Sessions -> [user : Users \cup {None}, epoch : Nat,
                            state : {"none", "live", "over"}]]
  /\ req \in [Reqs -> ReqType]
  /\ managed \in Nat
  /\ bySetup \in SUBSET Users
  /\ raced \in BOOLEAN
  /\ stray \in SUBSET Users
  /\ wasAdmin \in SUBSET Reqs

Init ==
  /\ scope \in Scopes
  /\ role = [u \in Users |-> None]
  /\ enabled = {} /\ must = {}
  /\ epoch = [u \in Users |-> 0]
  /\ groupRole = [g \in Groups |-> None]
  /\ groupOn = {} /\ member = {}
  /\ sess = [s \in Sessions |-> NoSession]
  /\ req = [r \in Reqs |-> IdleReq]
  /\ managed = 0
  /\ bySetup = {} /\ raced = FALSE /\ stray = {} /\ wasAdmin = {}

Exists(u) == role[u] # None

Done(r) == req' = [req EXCEPT ![r] = IdleReq]

\* What a handler keeps of its authentication: whom it works for.
Handling(r) == [IdleReq EXCEPT !.user = req[r].user]

\* Request r writes the table users: what the others have read is stale.
AfterUserWrite(r, next) ==
  req' = [q \in Reqs |-> IF q = r THEN next
                         ELSE [req[q] EXCEPT !.fresh = FALSE]]

RevokeNext(u) == [IdleReq EXCEPT !.pc = RevokePc, !.to = u]

\* UPDATE user_sessions SET revoked_at = .. WHERE user_id = u
\* AND revoked_at IS NULL
RevokedAll(u) ==
  [s \in Sessions |-> IF sess[s].user = u /\ sess[s].state = "live"
                      THEN [sess[s] EXCEPT !.state = "over"] ELSE sess[s]]

-----------------------------------------------------------------------------
(* Setup and login. *)

SetupCount(r, u) ==
  /\ req[r].pc = "idle"
  /\ \A v \in Users : ~ Exists(v)
  /\ req' = [req EXCEPT ![r] = [@ EXCEPT !.pc = "setup", !.to = u,
                                         !.fresh = TRUE]]
  /\ UNCHANGED <<userVars, groupVars, sess, managed, bySetup, raced, stray>>

\* Mutant: the count is not part of the transaction.
SetupInsertUnchecked(r) ==
  LET u == req[r].to
  IN /\ req[r].pc = "setup" /\ ~ Exists(u)
     /\ role' = [role EXCEPT ![u] = "admin"]
     /\ enabled' = enabled \cup {u}
     /\ bySetup' = bySetup \cup {u}
     /\ AfterUserWrite(r, [IdleReq EXCEPT !.pc = "login_read", !.to = u])
     /\ UNCHANGED <<must, epoch, groupVars, sess, managed, raced, stray>>

\* The transaction that counted the users inserts the administrator.  Its
\* snapshot must still be the latest: otherwise SQLite refuses the write,
\* and the request fails (CutRequest).  The handler then logs in.
SetupInsert(r) ==
  LET u == req[r].to
  IN /\ req[r].pc = "setup" /\ req[r].fresh
     /\ role' = [role EXCEPT ![u] = "admin"]
     /\ enabled' = enabled \cup {u}
     /\ bySetup' = bySetup \cup {u}
     /\ AfterUserWrite(r, [IdleReq EXCEPT !.pc = "login_read", !.to = u])
     /\ UNCHANGED <<must, epoch, groupVars, sess, managed, raced, stray>>

\* login_user, called by login or by setup_admin, reads the row and verifies
\* the password it was given; a wrong or expired password ends the request
\* (CutRequest), as does a disabled user.
LoginRead(r, u) ==
  /\ req[r].pc = "idle" \/ (req[r].pc = "login_read" /\ req[r].to = u)
  /\ u \in enabled
  /\ req' = [req EXCEPT ![r] = [@ EXCEPT !.pc = "login_insert", !.to = u,
                                         !.epoch = epoch[u]]]
  /\ UNCHANGED <<userVars, groupVars, sess, managed, bySetup, raced, stray>>

LoginInsert(r, s) ==
  LET u == req[r].to
  IN /\ req[r].pc = "login_insert" /\ sess[s].state = "none"
     /\ sess' = [sess EXCEPT ![s] = [user |-> u, epoch |-> req[r].epoch,
                                     state |-> "live"]]
     /\ stray' = IF req[r].epoch = epoch[u] THEN stray ELSE stray \cup {u}
     /\ Done(r)
     /\ UNCHANGED <<userVars, groupVars, managed, bySetup, raced>>

-----------------------------------------------------------------------------
(* control_plane_auth: authentication and authorisation of a request. *)

\* authenticate_session, the SELECT: session and user in one statement.
\* Time is not modelled: on says that the session has not been idle for too
\* long, and a session that has expired is one that is not chosen any more.
AuthSelect(r, s, on) ==
  LET u == sess[s].user
  IN /\ req[r].pc = "idle"
     /\ sess[s].state = "live" /\ u \in enabled
     /\ req' = [req EXCEPT ![r] = [@ EXCEPT
                  !.pc = "auth", !.by = s, !.user = u, !.eff = role[u],
                  !.must = u \in must, !.on = on]]
     /\ UNCHANGED <<userVars, groupVars, sess, managed, bySetup, raced, stray>>

\* The session has been idle for too long: it is revoked.
AuthIdle(r) ==
  /\ req[r].pc = "auth" /\ ~ req[r].on
  /\ sess' = [sess EXCEPT ![req[r].by].state = "over"]
  /\ Done(r)
  /\ UNCHANGED <<userVars, groupVars, managed, bySetup, raced, stray>>

\* last_seen_at is updated, and then the roles of the groups are read.
AuthTouch(r) ==
  LET q == req[r]
  IN /\ q.pc = "auth" /\ q.on
     /\ req' = [req EXCEPT ![r] = [@ EXCEPT !.pc = "handler", !.on = FALSE,
                                     !.eff = EffectiveRole(q.user, q.eff)]]
     /\ UNCHANGED <<userVars, groupVars, sess, managed, bySetup, raced, stray>>

\* is_authorized_for_path for /api/users and /api/groups, require_admin, and
\* the password that must be changed first.
ManagesUsers(r) == /\ req[r].pc = "handler"
                   /\ req[r].eff = "admin" /\ ~ req[r].must
                   /\ managed < scope.managed
                   /\ managed' = managed + 1

\* /api/auth/...: every role, even before the password is changed.
OwnAccount(r) == req[r].pc = "handler"

-----------------------------------------------------------------------------
(* The user's own account. *)

Logout(r) ==
  /\ OwnAccount(r)
  /\ sess' = [sess EXCEPT ![req[r].by].state = "over"]
  /\ Done(r)
  /\ UNCHANGED <<userVars, groupVars, managed, bySetup, raced, stray>>

\* change_user_password: the current password is verified ...
ChangeRead(r) ==
  /\ OwnAccount(r) /\ req[r].user \in enabled
  /\ req' = [req EXCEPT ![r] = [Handling(r) EXCEPT !.pc = "change_write"]]
  /\ UNCHANGED <<userVars, groupVars, sess, managed, bySetup, raced, stray>>

\* ... and the new one written, by id.
ChangeWrite(r) ==
  LET u == req[r].user
  IN /\ req[r].pc = "change_write" /\ epoch[u] < scope.epochs
     /\ epoch' = [epoch EXCEPT ![u] = @ + 1]
     /\ must' = must \ {u}
     /\ req' = [req EXCEPT ![r] = RevokeNext(u)]
     /\ UNCHANGED <<role, enabled, groupVars, sess, managed, bySetup, raced,
                    stray>>

\* lightai-server --reset-password, with or without force_change_after_reset.
ResetPassword(r, u, force) ==
  /\ req[r].pc = "idle" /\ Exists(u) /\ epoch[u] < scope.epochs
  /\ epoch' = [epoch EXCEPT ![u] = @ + 1]
  /\ must' = IF force THEN must \cup {u} ELSE must \ {u}
  /\ req' = [req EXCEPT ![r] = RevokeNext(u)]
  /\ UNCHANGED <<role, enabled, groupVars, sess, managed, bySetup, raced,
                 stray>>

\* Mutant: the sessions survive.
RevokeNone(r) ==
  /\ req[r].pc = RevokePc
  /\ Done(r)
  /\ UNCHANGED <<userVars, groupVars, sess, managed, bySetup, raced, stray>>

\* The statement after a password change, a reset or a disabling.
Revoke(r) ==
  /\ req[r].pc = RevokePc
  /\ sess' = RevokedAll(req[r].to)
  /\ Done(r)
  /\ UNCHANGED <<userVars, groupVars, managed, bySetup, raced, stray>>

-----------------------------------------------------------------------------
(* Management of users. *)

CreateUser(r, u, x) ==
  /\ ManagesUsers(r) /\ ~ Exists(u)
  /\ role' = [role EXCEPT ![u] = x]
  /\ enabled' = enabled \cup {u}
  /\ AfterUserWrite(r, IdleReq)
  /\ UNCHANGED <<must, epoch, groupVars, sess, bySetup, raced, stray>>

\* update_user_with_policy reads the row; a role or an enabled that the
\* request leaves out (None) keeps the value read here.  The administrators
\* are counted if this one stops being an enabled administrator.
UpdateRead(r, u, x, on, pw) ==
  LET newRole == IF x = None THEN role[u] ELSE x
      newOn == IF on = None THEN u \in enabled ELSE on
      check == role[u] = "admin" /\ (~ newOn \/ newRole # "admin")
  IN /\ ManagesUsers(r) /\ Exists(u)
     /\ req' = [req EXCEPT ![r] = [Handling(r) EXCEPT
                  !.pc = IF check THEN "update_count" ELSE "update_write",
                  !.to = u, !.role = newRole, !.on = newOn, !.pw = pw,
                  !.fresh = TRUE]]
     /\ UNCHANGED <<userVars, groupVars, sess, bySetup, raced, stray>>

OtherAdmins(u) == {v \in enabled \ {u} : role[v] = "admin"}

\* Mutant: every other enabled user counts.
UpdateCountUsers(r) ==
  /\ req[r].pc = "update_count" /\ enabled \ {req[r].to} # {}
  /\ req' = [req EXCEPT ![r].pc = "update_write"]
  /\ UNCHANGED <<userVars, groupVars, sess, managed, bySetup, raced, stray>>

\* "cannot disable or demote the last enabled admin" ends the request.
UpdateCount(r) ==
  /\ req[r].pc = "update_count"
  /\ IF OtherAdmins(req[r].to) = {} THEN Done(r)
     ELSE req' = [req EXCEPT ![r].pc = "update_write"]
  /\ UNCHANGED <<userVars, groupVars, sess, managed, bySetup, raced, stray>>

\* A new password by an administrator revokes nothing, but must be changed.
UpdateWrite(r) ==
  LET q == req[r]  u == q.to  ends == q.pw \/ ~ q.on
  IN /\ q.pc = "update_write" /\ (ends => epoch[u] < scope.epochs)
     /\ role' = [role EXCEPT ![u] = q.role]
     /\ enabled' = IF q.on THEN enabled \cup {u} ELSE enabled \ {u}
     /\ must' = IF q.pw THEN must \cup {u} ELSE must
     /\ epoch' = IF ends THEN [epoch EXCEPT ![u] = @ + 1] ELSE epoch
     /\ raced' = (raced \/ ~ q.fresh)
     /\ AfterUserWrite(r, IF q.on THEN IdleReq ELSE RevokeNext(u))
     /\ UNCHANGED <<groupVars, sess, managed, bySetup, stray>>

-----------------------------------------------------------------------------
(* Management of groups. *)

CreateGroup(r, g, x) ==
  /\ ManagesUsers(r) /\ groupRole[g] = None
  /\ groupRole' = [groupRole EXCEPT ![g] = x]
  /\ groupOn' = groupOn \cup {g}
  /\ Done(r)
  /\ UNCHANGED <<userVars, member, sess, bySetup, raced, stray>>

UpdateGroupRead(r, g, x, on) ==
  /\ ManagesUsers(r) /\ groupRole[g] # None
  /\ req' = [req EXCEPT ![r] = [Handling(r) EXCEPT
               !.pc = "group_write", !.to = g,
               !.role = IF x = None THEN groupRole[g] ELSE x,
               !.on = IF on = None THEN g \in groupOn ELSE on]]
  /\ UNCHANGED <<userVars, groupVars, sess, bySetup, raced, stray>>

\* UPDATE ... WHERE id = g: nothing to do if the group was deleted.
UpdateGroupWrite(r) ==
  LET g == req[r].to
  IN /\ req[r].pc = "group_write"
     /\ IF groupRole[g] = None THEN UNCHANGED <<groupRole, groupOn>>
        ELSE /\ groupRole' = [groupRole EXCEPT ![g] = req[r].role]
             /\ groupOn' = IF req[r].on THEN groupOn \cup {g}
                           ELSE groupOn \ {g}
     /\ Done(r)
     /\ UNCHANGED <<userVars, member, sess, managed, bySetup, raced, stray>>

MembersCheck(r, g, set) ==
  /\ ManagesUsers(r) /\ groupRole[g] # None /\ \A u \in set : Exists(u)
  /\ req' = [req EXCEPT ![r] = [Handling(r) EXCEPT
               !.pc = "members_write", !.to = g, !.set = set]]
  /\ UNCHANGED <<userVars, groupVars, sess, bySetup, raced, stray>>

\* Mutant: the two columns are bound in the wrong order.
MembersOfSwapped(set, g) ==
  {m \in member : m[1] # g} \cup {<<u, g>> : u \in set}

MembersOf(set, g) ==
  {m \in member : m[1] # g} \cup {<<g, u>> : u \in set}

\* Mutant: the foreign key is not enforced.
MembersWriteAnyway(r) ==
  LET g == req[r].to
  IN /\ req[r].pc = "members_write"
     /\ member' = MembersOf(req[r].set, g)
     /\ Done(r)
     /\ UNCHANGED <<userVars, groupRole, groupOn, sess, managed, bySetup,
                    raced, stray>>

\* One transaction; the foreign keys refuse members of a deleted group.
MembersWrite(r) ==
  LET g == req[r].to
  IN /\ req[r].pc = "members_write"
     /\ member' = IF groupRole[g] = None THEN member
                  ELSE MembersOf(req[r].set, g)
     /\ Done(r)
     /\ UNCHANGED <<userVars, groupRole, groupOn, sess, managed, bySetup,
                    raced, stray>>

\* delete_user_group counts the members, then deletes by id.
DeleteGroupCount(r, g) ==
  /\ ManagesUsers(r) /\ \A m \in member : m[1] # g
  /\ req' = [req EXCEPT ![r] = [Handling(r) EXCEPT !.pc = "group_delete",
                                                   !.to = g]]
  /\ UNCHANGED <<userVars, groupVars, sess, bySetup, raced, stray>>

\* The members that were added in between go with it (ON DELETE CASCADE).
DeleteGroup(r) ==
  LET g == req[r].to
  IN /\ req[r].pc = "group_delete"
     /\ groupRole' = [groupRole EXCEPT ![g] = None]
     /\ groupOn' = groupOn \ {g}
     /\ member' = MembersOf({}, g)
     /\ Done(r)
     /\ UNCHANGED <<userVars, sess, managed, bySetup, raced, stray>>

-----------------------------------------------------------------------------
(* The rest: refused requests, requests that only read, cuts. *)

CutRequest(r) ==
  /\ req[r].pc # "idle"
  /\ stray' = IF req[r].pc = RevokePc THEN stray \cup {req[r].to} ELSE stray
  /\ Done(r)
  /\ UNCHANGED <<userVars, groupVars, sess, managed, bySetup, raced>>

Maybe(S) == S \cup {None}

UserRequests(r) ==
  \/ \E u \in Users, x \in Roles : CreateUser(r, u, x)
  \/ \E u \in Users, x \in Maybe(Roles), on \in Maybe(BOOLEAN),
        pw \in BOOLEAN : UpdateRead(r, u, x, on, pw)
  \/ UpdateCount(r) \/ UpdateWrite(r)

GroupRequests(r) ==
  \/ \E g \in Groups, x \in Roles : CreateGroup(r, g, x)
  \/ \E g \in Groups, x \in Maybe(Roles), on \in Maybe(BOOLEAN) :
       UpdateGroupRead(r, g, x, on)
  \/ UpdateGroupWrite(r)
  \/ \E g \in Groups, set \in SUBSET Users : MembersCheck(r, g, set)
  \/ MembersWrite(r)
  \/ \E g \in Groups : DeleteGroupCount(r, g)
  \/ DeleteGroup(r)

AccountRequests(r) ==
  \/ \E u \in Users : SetupCount(r, u) \/ LoginRead(r, u)
  \/ SetupInsert(r)
  \/ \E s \in Sessions : LoginInsert(r, s)
  \/ \E s \in Sessions, on \in BOOLEAN : AuthSelect(r, s, on)
  \/ AuthIdle(r) \/ AuthTouch(r)
  \/ Logout(r) \/ ChangeRead(r) \/ ChangeWrite(r) \/ Revoke(r)
  \/ \E u \in Users, force \in BOOLEAN : ResetPassword(r, u, force)

Step ==
  \E r \in Reqs : \/ AccountRequests(r) \/ UserRequests(r)
                  \/ scope.groups /\ GroupRequests(r)
                  \/ CutRequest(r)

\* What the property AdminWasAdmin remembers: the requests in progress whose
\* user is, or has been since they arrived, an effective administrator.
Attended == {r \in Reqs : req[r].user # None}
ByAdmin == {r \in Attended : IsAdmin(req[r].user)}

Next == /\ Step
        /\ scope' = scope
        /\ wasAdmin' = (wasAdmin \cap Attended') \cup ByAdmin'

Spec == Init /\ [][Next]_vars

-----------------------------------------------------------------------------
(* Properties. *)

\* Two setups at the same time create one administrator, not two: the count
\* of setup_initial_admin holds until its insert commits.
SetupOnce == Cardinality(bySetup) <= 1

\* Once there are users, one of them is an enabled administrator, whatever
\* the order of creations, updates and cut requests, unless an update was
\* written after its read of the row, or its count, had become stale.
AdminRemains ==
  \/ raced \/ \A u \in Users : ~ Exists(u)
  \/ \E u \in enabled : role[u] = "admin"

\* Somebody is about to revoke the sessions of u.
Revoking(u) == \E r \in Reqs : req[r].pc = RevokePc /\ req[r].to = u

\* A live session was opened with the present password, and not before its
\* user was last disabled.  It may be older only while its user must change
\* the password (which ends it), while the statement that revokes it is still
\* to come, or where a login overlapped that statement or the request was cut
\* before it.
SessionsCurrent ==
  \A s \in Sessions :
    LET u == sess[s].user
    IN sess[s].state = "live" =>
         \/ sess[s].epoch = epoch[u] \/ u \in must
         \/ Revoking(u) \/ u \in stray

\* A request that passes for an administrator's, and so may manage users and
\* groups, is made for somebody who really was an effective administrator at
\* some moment since its authentication, although the user's role, and the
\* roles of the groups, are read one after the other while others change them.
AdminWasAdmin ==
  \A r \in Reqs :
    \/ req[r].pc = "handler" /\ req[r].eff = "admin"
    \/ req[r].pc \in UpdatePc \cup GroupPc
    => r \in wasAdmin

\* Members belong to a group that exists, though the group may be deleted
\* between the checks of a request for its members and the write.
MembersExist == \A m \in member : groupRole[m[1]] # None /\ Exists(m[2])

-----------------------------------------------------------------------------
(* The parts of the inductive invariant behind these properties.           *)

OnUser == {"setup", "login_read", "login_insert", RevokePc} \cup UpdatePc
ForUser == {"auth", "handler", "change_write"} \cup UpdatePc \cup GroupPc

\* What a request carries at each of its statements.
Carries(q) ==
  /\ q.pc \in OnUser => q.to \in Users
  /\ q.pc \in GroupPc => q.to \in Groups
  /\ q.pc \in ForUser => q.user \in Users
  /\ q.pc \in {"auth", "handler"} => q.by \in Sessions /\ q.eff \in AllRoles
  /\ q.pc \in UpdatePc \cup {"group_write"} => q.role \in AllRoles

Carried == \A r \in Reqs : Carries(req[r])

\* Who is named somewhere has a row in users, and no row of users goes away.
Referenced ==
  /\ \A u \in enabled \cup bySetup : Exists(u)
  /\ \A g \in groupOn : groupRole[g] # None
  /\ \A s \in Sessions : sess[s].state = "live" => sess[s].user \in Users
  /\ \A r \in Reqs :
       /\ req[r].user \in Users => Exists(req[r].user)
       /\ req[r].pc \in UpdatePc => Exists(req[r].to)
       /\ req[r].pc = "members_write" => \A u \in req[r].set : Exists(u)

\* What holds as long as users has not been written since a request read it.
FreshSetup ==
  \A r \in Reqs : req[r].pc = "setup" /\ req[r].fresh
                    => \A u \in Users : ~ Exists(u)

FreshUpdate ==
  \A r \in Reqs :
    req[r].pc = "update_write" /\ req[r].fresh
      => \/ req[r].role = "admin" /\ req[r].on
         \/ role[req[r].to] # "admin"
         \/ OtherAdmins(req[r].to) # {}

OneSetup == \A u, v \in bySetup : u = v

\* The first half of an authentication that finds an administrator.
AuthWasAdmin ==
  \A r \in Reqs : req[r].pc = "auth" /\ req[r].eff = "admin" => r \in wasAdmin

Inv == /\ TypeOK /\ Carried /\ Referenced
       /\ FreshSetup /\ OneSetup /\ FreshUpdate /\ AdminRemains
       /\ SessionsCurrent /\ AuthWasAdmin /\ AdminWasAdmin /\ MembersExist

=============================================================================
