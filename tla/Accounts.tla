------------------------------ MODULE Accounts ------------------------------
(***************************************************************************)
(* Human accounts of the hub: login and sessions (handlers_auth.go,        *)
(* middleware_auth.go), administration of users and passwords              *)
(* (handlers_users.go) and the users and sessions tables                   *)
(* (internal/store/sqlite.go).  The audit log, which is written after each *)
(* change and which nothing reads back, is left out.                       *)
(*                                                                         *)
(* A handler authenticates its caller once and then acts on what it has    *)
(* read; each store call is one atomic step (the store has one database    *)
(* connection, and the calls that check and write do so in a transaction). *)
(* Answers that change nothing (a wrong password, a missing role, an       *)
(* unknown user) are steps not taken.                                      *)
(***************************************************************************)
EXTENDS Naturals, FiniteSets

CONSTANTS
    Users,       \* ids of users; an id nothing refers to may be drawn again
    Roles,       \* roles of a user, "admin" among them
    Passwords,   \* a bcrypt hash is represented by the password it verifies
    Tokens,      \* session tokens; one nothing refers to may be drawn again
    Handlers,    \* bound: HTTP handlers in flight
    None         \* no password

ASSUME ConstantsAssumption ==
    /\ Users # {} /\ IsFiniteSet(Users)
    /\ "admin" \in Roles /\ "none" \notin Roles
    /\ Passwords # {} /\ None \notin Passwords

VARIABLES
    users,        \* the users table: users[u] is the row of u, or NoRow
    sessions,     \* the sessions table
    req           \* req[h]: what handler h has read and is about to do

vars == <<users, sessions, req>>

Row == [role : Roles, disabled : BOOLEAN, password : Passwords]
NoRow == [role |-> "none", disabled |-> TRUE, password |-> None]

(* "password" is the one the login verified and "overtaken" tells that the *)
(* password was changed between that and the insert: neither is stored.    *)
Session == [token : Tokens, user : Users, password : Passwords,
            expired : BOOLEAN, overtaken : BOOLEAN]

Login == [pc : {"login"}, target : Users, password : Passwords, overtaken : BOOLEAN]
Logout == [pc : {"logout"}, token : Tokens]
Administer == [pc : {"create", "update", "delete"}, actor : Users]
ChangePassword == [pc : {"lookup", "reset"}, actor : Users, target : Users]
Idle == [pc |-> "idle"]
Request == Login \cup Logout \cup Administer \cup ChangePassword \cup {Idle}

Exists(u) == users[u] # NoRow
HasUsers == \E u \in Users : Exists(u)
Enabled(row) == row.role = "admin" /\ ~row.disabled
EnabledAdmins == {u \in Users : Enabled(users[u])}

TypeOK ==
    /\ users \in [Users -> Row \cup {NoRow}]
    /\ sessions \subseteq Session
    /\ \A s \in sessions : Exists(s.user)
    /\ req \in [Handlers -> Request]

(* The first administrator, on a start of the hub without any user; none   *)
(* if no bootstrap administrator is configured.                            *)
BootstrapAdmin(table) ==
    IF \E u \in Users : table[u] # NoRow
      THEN {table}
      ELSE {table} \cup
           {[table EXCEPT ![u] = [role |-> "admin", disabled |-> FALSE, password |-> p]] :
               u \in Users, p \in Passwords}

Init ==
    /\ users \in BootstrapAdmin([u \in Users |-> NoRow])
    /\ sessions = {}
    /\ req = [h \in Handlers |-> Idle]

-----------------------------------------------------------------------------
(* Login.                                                                  *)

Goto(h, r) == req' = [req EXCEPT ![h] = r]

(* handleLogin up to VerifyPassword, which takes its time.                 *)
VerifyPassword(h, u, p) ==
    /\ req[h] = Idle
    /\ Exists(u)
    /\ ~users[u].disabled
    /\ users[u].password = p
    /\ Goto(h, [pc |-> "login", target |-> u, password |-> p, overtaken |-> FALSE])
    /\ UNCHANGED <<users, sessions>>

(* NewSessionToken draws a token nobody has.                               *)
Fresh(k) ==
    /\ \A s \in sessions : s.token # k
    /\ \A h \in Handlers : req[h].pc = "logout" => req[h].token # k

(* Mutant: the session is inserted although its user has been deleted.     *)
CreateSession_NoForeignKey(h, k) ==
    /\ req[h].pc = "login"
    /\ Fresh(k)
    /\ sessions' = sessions \cup
          {[token |-> k, user |-> req[h].target, password |-> req[h].password,
            expired |-> FALSE, overtaken |-> req[h].overtaken]}
    /\ Goto(h, Idle)
    /\ UNCHANGED users

(* CreateSession; user_id is a foreign key, nothing else is checked again. *)
CreateSession(h, k) ==
    /\ req[h].pc = "login"
    /\ Fresh(k)
    /\ Exists(req[h].target)
    /\ sessions' = sessions \cup
          {[token |-> k, user |-> req[h].target, password |-> req[h].password,
            expired |-> FALSE, overtaken |-> req[h].overtaken]}
    /\ Goto(h, Idle)
    /\ UNCHANGED users

-----------------------------------------------------------------------------
(* Authenticated requests: requireAuth and requireRole, then the handler.  *)

(* GetSessionUser finds an enabled user.  The demo mode, which admits      *)
(* visitors without a session, admits them to requests that change nothing.*)
Authentic(s) == s \in sessions /\ ~s.expired /\ ~users[s.user].disabled

requireAuth(h, s, r) ==
    /\ req[h] = Idle
    /\ Authentic(s)
    /\ Goto(h, r)
    /\ UNCHANGED <<users, sessions>>

StartLogout(h, s) == requireAuth(h, s, [pc |-> "logout", token |-> s.token])

(* requireRole(admin) of handleCreateUser, -UpdateUser and -DeleteUser.    *)
StartAdministration(h, s, op) ==
    /\ users[s.user].role = "admin"
    /\ requireAuth(h, s, [pc |-> op, actor |-> s.user])

(* handleUpdateUserPassword until it looks the target up.                  *)
StartPasswordChange(h, s, u) ==
    /\ u = s.user \/ users[s.user].role = "admin"
    /\ requireAuth(h, s, [pc |-> "lookup", actor |-> s.user, target |-> u])

DeleteSession(h) ==
    /\ req[h].pc = "logout"
    /\ sessions' = {s \in sessions : s.token # req[h].token}
    /\ Goto(h, Idle)
    /\ UNCHANGED users

RefersTo(r, u) ==
    \/ r.pc \in {"login", "lookup", "reset"} /\ r.target = u
    \/ r.pc \in {"create", "update", "delete", "lookup", "reset"} /\ r.actor = u

(* CreateUser; a username or email in use (conflict) is a step not taken.  *)
CreateUser(h, u, row) ==
    /\ req[h].pc = "create"
    /\ ~Exists(u)
    /\ \A g \in Handlers : ~RefersTo(req[g], u)
    /\ ~row.disabled
    /\ users' = [users EXCEPT ![u] = row]
    /\ Goto(h, Idle)
    /\ UNCHANGED sessions

(* Mutant: disabled administrators count as administrators.                *)
withLastAdminGuard_AnyAdmin(u, row) ==
    /\ Exists(u)
    /\ Enabled(users[u]) /\ ~Enabled(row) =>
          Cardinality({v \in Users : users[v].role = "admin"}) > 1
    /\ users' = [users EXCEPT ![u] = row]

(* withLastAdminGuard: the row of u becomes "row" (NoRow: it is deleted).  *)
withLastAdminGuard(u, row) ==
    /\ Exists(u)
    /\ Enabled(users[u]) /\ ~Enabled(row) => Cardinality(EnabledAdmins) > 1
    /\ users' = [users EXCEPT ![u] = row]

updatedRow(u, role, disabled) == [users[u] EXCEPT !.role = role, !.disabled = disabled]

(* UpdateUser changes role and disabled.                                   *)
UpdateUser(h, u, role, disabled) ==
    /\ req[h].pc = "update"
    /\ withLastAdminGuard(u, updatedRow(u, role, disabled))
    /\ Goto(h, Idle)
    /\ UNCHANGED sessions

(* DeleteUser, whose sessions are deleted by cascade.                      *)
DeleteUser(h, u) ==
    /\ req[h].pc = "delete"
    /\ u # req[h].actor
    /\ withLastAdminGuard(u, NoRow)
    /\ sessions' = {s \in sessions : s.user # u}
    /\ Goto(h, Idle)

(* GetUserByID; one's own current password is verified on what was read,   *)
(* a wrong one ends the request.                                           *)
GetUserByID(h) ==
    /\ req[h].pc = "lookup"
    /\ Exists(req[h].target)
    /\ Goto(h, [req[h] EXCEPT !.pc = "reset"])
    /\ UNCHANGED <<users, sessions>>

(* Mutant: the sessions of the user stay.                                  *)
sessionsAfterReset_Kept(u) == sessions

(* The sessions ResetUserPassword leaves.                                  *)
sessionsAfterReset(u) == {s \in sessions : s.user # u}

(* ResetUserPassword; a login of u that is in flight is overtaken.         *)
ResetUserPassword(h, p) ==
    LET u == req[h].target IN
    /\ req[h].pc = "reset"
    /\ Exists(u)
    /\ users' = [users EXCEPT ![u].password = p]
    /\ sessions' = sessionsAfterReset(u)
    /\ req' = [g \in Handlers |->
          IF g = h THEN Idle
          ELSE IF req[g].pc = "login" /\ req[g].target = u THEN [req[g] EXCEPT !.overtaken = TRUE]
          ELSE req[g]]

-----------------------------------------------------------------------------
(* The environment.                                                        *)

(* The handler ends early: its client has gone, which cancels the context  *)
(* of its store calls, a store call fails, or the answer is an error.      *)
RequestEnds(h) ==
    /\ req[h] # Idle
    /\ Goto(h, Idle)
    /\ UNCHANGED <<users, sessions>>

HubRestart ==
    /\ users' \in BootstrapAdmin(users)
    /\ req' = [h \in Handlers |-> Idle]
    /\ UNCHANGED sessions

Expire(s) ==
    /\ s \in sessions
    /\ sessions' = (sessions \ {s}) \cup {[s EXCEPT !.expired = TRUE]}
    /\ UNCHANGED <<users, req>>

(* pruneExpiredSessions.                                                   *)
DeleteExpiredSessions ==
    /\ sessions' = {s \in sessions : ~s.expired}
    /\ UNCHANGED <<users, req>>

Start(h) ==
    \/ \E u \in Users, p \in Passwords : VerifyPassword(h, u, p)
    \/ \E s \in sessions :
          \/ StartLogout(h, s)
          \/ \E op \in {"create", "update", "delete"} : StartAdministration(h, s, op)
          \/ \E u \in Users : StartPasswordChange(h, s, u)

Step(h) ==
    \/ \E k \in Tokens : CreateSession(h, k)
    \/ DeleteSession(h)
    \/ \E u \in Users, row \in Row : CreateUser(h, u, row)
    \/ \E u \in Users, role \in Roles, disabled \in BOOLEAN : UpdateUser(h, u, role, disabled)
    \/ \E u \in Users : DeleteUser(h, u)
    \/ GetUserByID(h)
    \/ \E p \in Passwords : ResetUserPassword(h, p)

Next ==
    \/ \E h \in Handlers : Start(h) \/ Step(h) \/ RequestEnds(h)
    \/ \E s \in sessions : Expire(s)
    \/ DeleteExpiredSessions
    \/ HubRestart

Spec == Init /\ [][Next]_vars

-----------------------------------------------------------------------------
(* Properties.                                                             *)

(* No sequence of updates and deletions by administrators, who may have    *)
(* been demoted, disabled or deleted since they were authenticated, leaves *)
(* a hub that has users without an enabled administrator                   *)
(* (withLastAdminGuard, BootstrapAdmin).                                   *)
AnAdminRemains == HasUsers => EnabledAdmins # {}

(* A session obtained with a password that is no longer the user's comes   *)
(* from a login that a password change overtook: ResetUserPassword ends    *)
(* all the others, in the interleavings of all handlers.                   *)
OldPasswordsOvertaken ==
    \A s \in sessions : s.password # users[s.user].password => s.overtaken
=============================================================================
