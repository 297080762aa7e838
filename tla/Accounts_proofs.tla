-------------------------- MODULE Accounts_proofs --------------------------
(***************************************************************************)
(* Theorems about Accounts, for any finite set of users, any roles,        *)
(* passwords and tokens, and any number of concurrent handlers.            *)
(***************************************************************************)
EXTENDS Accounts, FiniteSetTheorems, TLAPS

(* OldPasswordsOvertaken is not inductive: a session is inserted by a      *)
(* login that verified its password earlier.  The strengthening says the   *)
(* same of the logins in flight.                                           *)
LoginsOvertaken ==
    \A h \in Handlers :
        req[h].pc = "login" /\ Exists(req[h].target) =>
            \/ req[h].password = users[req[h].target].password
            \/ req[h].overtaken

(* Without users nobody is authenticated.                                  *)
NobodyIsServed == HasUsers \/ \A h \in Handlers : req[h] = Idle

AccountsInv ==
    /\ TypeOK
    /\ AnAdminRemains
    /\ NobodyIsServed
    /\ OldPasswordsOvertaken
    /\ LoginsOvertaken

-----------------------------------------------------------------------------

(* A row is never confused with the absence of one.                        *)
LEMMA RowIsNotNoRow == NoRow \notin Row
  BY ConstantsAssumption DEF NoRow, Row

(* What the count of withLastAdminGuard buys: of more than one enabled     *)
(* administrator another one remains.                                      *)
LEMMA AnotherAdmin ==
  ASSUME NEW u, Cardinality(EnabledAdmins) > 1
  PROVE  \E v \in EnabledAdmins : v # u
<1>1. SUFFICES ASSUME EnabledAdmins \subseteq {u} PROVE FALSE
  OBVIOUS
<1>2. IsFiniteSet({u}) /\ Cardinality({u}) = 1
  BY FS_Singleton
<1>3. Cardinality(EnabledAdmins) <= 1
  BY <1>1, <1>2, FS_Subset
<1>4. Cardinality(EnabledAdmins) \in Nat
  BY <1>1, <1>2, FS_Subset, FS_CardinalityType
<1> QED BY <1>3, <1>4

(* Where there is an enabled administrator after a step there are users.   *)
LEMMA AdminsAreUsersNext ==
  ASSUME EnabledAdmins' # {}
  PROVE  AnAdminRemains' /\ NobodyIsServed'
BY DEF EnabledAdmins, Enabled, HasUsers, Exists, NoRow, AnAdminRemains, NobodyIsServed

(* withLastAdminGuard leaves an enabled administrator.                     *)
LEMMA GuardKeepsAdmin ==
  ASSUME TypeOK, AnAdminRemains, NEW u \in Users, NEW row, withLastAdminGuard(u, row)
  PROVE  EnabledAdmins' # {}
<1>0. EnabledAdmins # {}
  BY DEF AnAdminRemains, HasUsers, withLastAdminGuard
<1>1. \A v \in Users : v # u => users'[v] = users[v]
  BY DEF TypeOK, withLastAdminGuard
<1>2. users'[u] = row
  BY DEF TypeOK, withLastAdminGuard
<1>3. CASE Enabled(row)
  BY <1>2, <1>3 DEF EnabledAdmins, Enabled
<1>4. CASE ~Enabled(users[u])
  BY <1>0, <1>1, <1>4 DEF EnabledAdmins, Enabled
<1>5. CASE ~Enabled(row) /\ Enabled(users[u])
  <2>1. PICK v \in EnabledAdmins : v # u
    BY <1>5, AnotherAdmin DEF withLastAdminGuard
  <2> QED BY <2>1, <1>1 DEF EnabledAdmins, Enabled
<1> QED BY <1>3, <1>4, <1>5

(* A start of the hub: either nothing is written, or there was no row and  *)
(* now there is that of an enabled administrator.                          *)
LEMMA Bootstrap ==
  ASSUME NEW table \in [Users -> Row \cup {NoRow}], NEW new \in BootstrapAdmin(table)
  PROVE  \/ new = table
         \/ /\ \A v \in Users : table[v] = NoRow
            /\ new \in [Users -> Row \cup {NoRow}]
            /\ \E u \in Users : Enabled(new[u])
<1> SUFFICES ASSUME new # table PROVE /\ \A v \in Users : table[v] = NoRow
                                      /\ new \in [Users -> Row \cup {NoRow}]
                                      /\ \E u \in Users : Enabled(new[u])
  OBVIOUS
<1>1. \A v \in Users : table[v] = NoRow
  BY DEF BootstrapAdmin
<1>2. PICK u \in Users, p \in Passwords :
        new = [table EXCEPT ![u] = [role |-> "admin", disabled |-> FALSE, password |-> p]]
  BY <1>1 DEF BootstrapAdmin
<1>3. new[u] = [role |-> "admin", disabled |-> FALSE, password |-> p]
  BY <1>2
<1>4. new \in [Users -> Row \cup {NoRow}]
  BY <1>2, ConstantsAssumption DEF Row
<1> QED BY <1>1, <1>3, <1>4 DEF Enabled

(* The tables after the first start of the hub.                            *)
LEMMA AccountsInit == Init => AccountsInv
<1> SUFFICES ASSUME Init PROVE AccountsInv
  OBVIOUS
<1> DEFINE table == [v \in Users |-> NoRow]
<1>1. table \in [Users -> Row \cup {NoRow}] /\ users \in BootstrapAdmin(table)
  BY DEF Init
<1>2. \A v \in Users : table[v] = NoRow
  OBVIOUS
<1> HIDE DEF table
<1>3. users \in [Users -> Row \cup {NoRow}] /\ (users = table \/ \E u \in Users : Enabled(users[u]))
  BY <1>1, Bootstrap
<1>4. AnAdminRemains
  BY <1>2, <1>3 DEF AnAdminRemains, EnabledAdmins, HasUsers, Exists
<1>5. req \in [Handlers -> Request]
  BY DEF Init, Request
<1>6. NobodyIsServed
  BY DEF Init, NobodyIsServed
<1> QED BY <1>3, <1>4, <1>5, <1>6
        DEF Init, AccountsInv, TypeOK, OldPasswordsOvertaken, LoginsOvertaken, Idle

(* Steps of a handler that touch neither table.                            *)
LEMMA StartKeeps ==
  ASSUME AccountsInv, NEW h \in Handlers, NEW r \in Request,
         Goto(h, r), UNCHANGED <<users, sessions>>, HasUsers,
         r.pc = "login" => r.password = users[r.target].password
  PROVE  AccountsInv'
<1> USE DEF AccountsInv
<1>1. TypeOK'
  BY DEF TypeOK, Goto, Exists
<1>2. AnAdminRemains' /\ OldPasswordsOvertaken' /\ NobodyIsServed'
  BY DEF AnAdminRemains, EnabledAdmins, HasUsers, Exists, OldPasswordsOvertaken, NobodyIsServed
<1>3. LoginsOvertaken'
  <2>1. req'[h] = r /\ \A g \in Handlers : g # h => req'[g] = req[g]
    BY DEF TypeOK, Goto
  <2> QED BY <2>1 DEF LoginsOvertaken, Exists
<1> QED BY <1>1, <1>2, <1>3

(* A handler that starts holds what it has just read.                      *)
LEMMA StartStep ==
  ASSUME AccountsInv, NEW h \in Handlers, Start(h)
  PROVE  AccountsInv'
<1> USE DEF AccountsInv
<1>1. CASE \E u \in Users, p \in Passwords : VerifyPassword(h, u, p)
  <2>1. PICK u \in Users, p \in Passwords : VerifyPassword(h, u, p)
    BY <1>1
  <2> DEFINE r == [pc |-> "login", target |-> u, password |-> p, overtaken |-> FALSE]
  <2>2. r \in Request
    BY DEF Request, Login
  <2>3. HasUsers
    BY <2>1 DEF VerifyPassword, HasUsers
  <2> QED BY <2>1, <2>2, <2>3, StartKeeps DEF VerifyPassword
<1>0. ASSUME NEW s \in sessions PROVE HasUsers
  BY DEF TypeOK, Session, HasUsers
<1>2. ASSUME NEW s \in sessions, StartLogout(h, s)
      PROVE  AccountsInv'
  <2> DEFINE r == [pc |-> "logout", token |-> s.token]
  <2>1. r \in Request
    BY DEF Request, Logout, TypeOK, Session
  <2> QED BY <1>0, <1>2, <2>1, StartKeeps DEF StartLogout, requireAuth
<1>3. ASSUME NEW s \in sessions, NEW op \in {"create", "update", "delete"},
             StartAdministration(h, s, op)
      PROVE  AccountsInv'
  <2> DEFINE r == [pc |-> op, actor |-> s.user]
  <2>1. r \in Request
    BY DEF Request, Administer, TypeOK, Session
  <2> QED BY <1>0, <1>3, <2>1, StartKeeps DEF StartAdministration, requireAuth
<1>4. ASSUME NEW s \in sessions, NEW u \in Users, StartPasswordChange(h, s, u)
      PROVE  AccountsInv'
  <2> DEFINE r == [pc |-> "lookup", actor |-> s.user, target |-> u]
  <2>1. r \in Request
    BY DEF Request, ChangePassword, TypeOK, Session
  <2> QED BY <1>0, <1>4, <2>1, StartKeeps DEF StartPasswordChange, requireAuth
<1> QED BY <1>1, <1>2, <1>3, <1>4 DEF Start

(* What the steps of a request read of it is there.                        *)
LEMMA RequestFields ==
  ASSUME TypeOK, NEW h \in Handlers
  PROVE  /\ req[h].pc = "login" => req[h] \in Login
         /\ req[h].pc \in {"lookup", "reset"} => req[h] \in ChangePassword
  BY DEF TypeOK, Request, Login, Logout, Administer, ChangePassword, Idle

(* A handler that ends, and does nothing else to the users.                *)
LEMMA FinishKeepsLogins ==
  ASSUME TypeOK, LoginsOvertaken, NobodyIsServed, NEW h \in Handlers, Goto(h, Idle), UNCHANGED users
  PROVE  LoginsOvertaken' /\ NobodyIsServed' /\ req' \in [Handlers -> Request]
<1>1. req'[h] = Idle /\ \A g \in Handlers : g # h => req'[g] = req[g]
  BY DEF TypeOK, Goto
<1>2. Idle \in Request /\ Idle.pc # "login"
  BY DEF Request, Idle
<1>3. req' \in [Handlers -> Request]
  BY <1>2 DEF TypeOK, Goto
<1> QED BY <1>1, <1>2, <1>3 DEF LoginsOvertaken, NobodyIsServed, HasUsers, Exists

(* The insert of a session: its login was overtaken or is up to date.      *)
LEMMA CreateSessionStep ==
  ASSUME AccountsInv, NEW h \in Handlers, NEW k \in Tokens, CreateSession(h, k)
  PROVE  AccountsInv'
<1> USE DEF AccountsInv
<1> DEFINE s == [token |-> k, user |-> req[h].target, password |-> req[h].password,
                 expired |-> FALSE, overtaken |-> req[h].overtaken]
<1>1. req[h] \in Login
  BY RequestFields DEF CreateSession
<1>2. s \in Session
  BY <1>1 DEF Session, Login
<1>3. LoginsOvertaken' /\ NobodyIsServed' /\ req' \in [Handlers -> Request]
  BY FinishKeepsLogins DEF CreateSession
<1>4. sessions' = sessions \cup {s} /\ users' = users
  BY DEF CreateSession
<1>5. Exists(s.user)
  BY DEF CreateSession
<1>6. TypeOK'
  BY <1>2, <1>3, <1>4, <1>5 DEF TypeOK, Exists
<1>7. s.password # users[s.user].password => s.overtaken
  BY <1>5 DEF LoginsOvertaken, CreateSession
<1>8. OldPasswordsOvertaken'
  BY <1>4, <1>7 DEF OldPasswordsOvertaken
<1>9. AnAdminRemains'
  BY <1>4 DEF AnAdminRemains, EnabledAdmins, HasUsers, Exists
<1> QED BY <1>3, <1>6, <1>8, <1>9

(* Sessions may go at any time.                                            *)
LEMMA FewerSessions ==
  ASSUME AccountsInv, sessions' \subseteq sessions, UNCHANGED users,
         LoginsOvertaken', NobodyIsServed', req' \in [Handlers -> Request]
  PROVE  AccountsInv'
<1> USE DEF AccountsInv
<1>1. TypeOK'
  BY DEF TypeOK, Exists
<1>2. AnAdminRemains' /\ OldPasswordsOvertaken'
  BY DEF AnAdminRemains, EnabledAdmins, HasUsers, Exists, OldPasswordsOvertaken
<1> QED BY <1>1, <1>2

(* CreateUser draws an id nobody refers to.                                *)
LEMMA CreateUserStep ==
  ASSUME AccountsInv, NEW h \in Handlers, NEW u \in Users, NEW row \in Row, CreateUser(h, u, row)
  PROVE  AccountsInv'
<1> USE DEF AccountsInv
<1>1. users'[u] = row /\ \A v \in Users : v # u => users'[v] = users[v]
  BY DEF CreateUser, TypeOK
<1>2. users' \in [Users -> Row \cup {NoRow}]
  BY DEF CreateUser, TypeOK
<1>3. ~Exists(u) /\ sessions' = sessions
  BY DEF CreateUser
<1>4. \A s \in sessions : s.user \in Users /\ s.user # u
  BY <1>3 DEF TypeOK, Session
<1>5. req'[h] = Idle /\ \A g \in Handlers : g # h => req'[g] = req[g]
  BY DEF TypeOK, CreateUser, Goto
<1>6. req' \in [Handlers -> Request]
  BY DEF TypeOK, CreateUser, Goto, Request
<1>7. TypeOK'
  BY <1>1, <1>2, <1>3, <1>4, <1>6 DEF TypeOK, Exists
<1>8. OldPasswordsOvertaken'
  BY <1>1, <1>3, <1>4 DEF OldPasswordsOvertaken
<1>9. AnAdminRemains' /\ NobodyIsServed'
  <2>1. ~Enabled(users[u])
    BY <1>3 DEF Exists, Enabled, NoRow
  <2>2. HasUsers
    BY DEF CreateUser, NobodyIsServed, Idle
  <2>3. EnabledAdmins' # {}
    BY <1>1, <2>1, <2>2 DEF AnAdminRemains, EnabledAdmins, Enabled
  <2> QED BY <2>3, AdminsAreUsersNext
<1>10. LoginsOvertaken'
  <2> SUFFICES ASSUME NEW g \in Handlers, req'[g].pc = "login", Exists(req[g].target)'
               PROVE  \/ req'[g].password = users'[req'[g].target].password
                      \/ req'[g].overtaken
    BY DEF LoginsOvertaken
  <2>1. g # h /\ req'[g] = req[g]
    BY <1>5 DEF Idle
  <2>2. req[g].target \in Users /\ req[g].target # u
    BY <2>1, RequestFields DEF CreateUser, RefersTo, Login
  <2>3. users'[req[g].target] = users[req[g].target]
    BY <1>1, <2>2
  <2> QED BY <2>1, <2>3 DEF LoginsOvertaken, Exists
<1> QED BY <1>7, <1>8, <1>9, <1>10

(* UpdateUser changes no password.                                         *)
LEMMA UpdateUserStep ==
  ASSUME AccountsInv, NEW h \in Handlers, NEW u \in Users, NEW role \in Roles,
         NEW disabled \in BOOLEAN, UpdateUser(h, u, role, disabled)
  PROVE  AccountsInv'
<1> USE DEF AccountsInv
<1> DEFINE row == [users[u] EXCEPT !.role = role, !.disabled = disabled]
<1>1. withLastAdminGuard(u, row)
  BY DEF UpdateUser, updatedRow
<1>2. AnAdminRemains' /\ NobodyIsServed'
  BY <1>1, GuardKeepsAdmin, AdminsAreUsersNext
<1>3. users[u] \in Row
  BY <1>1 DEF TypeOK, withLastAdminGuard, Exists
<1>4. row \in Row /\ row.password = users[u].password
  BY <1>3 DEF Row
<1>5. users'[u] = row /\ \A v \in Users : v # u => users'[v] = users[v]
  BY <1>1 DEF TypeOK, withLastAdminGuard
<1>6. users' \in [Users -> Row \cup {NoRow}]
  BY <1>1, <1>4 DEF TypeOK, withLastAdminGuard
<1>7. \A v \in Users : users'[v].password = users[v].password /\ (Exists(v)' <=> Exists(v))
  BY <1>3, <1>4, <1>5, RowIsNotNoRow DEF Exists
<1>8. sessions' = sessions
  BY DEF UpdateUser
<1>9. req'[h] = Idle /\ \A g \in Handlers : g # h => req'[g] = req[g]
  BY DEF TypeOK, UpdateUser, Goto
<1>10. req' \in [Handlers -> Request]
  BY DEF TypeOK, UpdateUser, Goto, Request
<1>11. \A s \in sessions : s.user \in Users
  BY DEF TypeOK, Session
<1>12. TypeOK'
  BY <1>6, <1>7, <1>8, <1>10, <1>11 DEF TypeOK
<1>13. OldPasswordsOvertaken'
  BY <1>7, <1>8, <1>11 DEF OldPasswordsOvertaken
<1>14. LoginsOvertaken'
  <2> SUFFICES ASSUME NEW g \in Handlers, req'[g].pc = "login", Exists(req[g].target)'
               PROVE  \/ req'[g].password = users'[req'[g].target].password
                      \/ req'[g].overtaken
    BY DEF LoginsOvertaken
  <2>1. req'[g] = req[g]
    BY <1>9 DEF Idle
  <2>2. req[g].target \in Users
    BY <2>1, RequestFields DEF Login
  <2> QED BY <1>7, <2>1, <2>2 DEF LoginsOvertaken
<1> QED BY <1>2, <1>12, <1>13, <1>14

(* DeleteUser takes the sessions of the user along.                        *)
LEMMA DeleteUserStep ==
  ASSUME AccountsInv, NEW h \in Handlers, NEW u \in Users, DeleteUser(h, u)
  PROVE  AccountsInv'
<1> USE DEF AccountsInv
<1>1. withLastAdminGuard(u, NoRow)
  BY DEF DeleteUser
<1>2. AnAdminRemains' /\ NobodyIsServed'
  BY <1>1, GuardKeepsAdmin, AdminsAreUsersNext
<1>3. users'[u] = NoRow /\ \A v \in Users : v # u => users'[v] = users[v]
  BY <1>1 DEF TypeOK, withLastAdminGuard
<1>4. users' \in [Users -> Row \cup {NoRow}]
  BY <1>1 DEF TypeOK, withLastAdminGuard
<1>5. \A s \in sessions' : s \in sessions /\ s.user \in Users /\ s.user # u
  BY DEF DeleteUser, TypeOK, Session
<1>6. req'[h] = Idle /\ \A g \in Handlers : g # h => req'[g] = req[g]
  BY DEF TypeOK, DeleteUser, Goto
<1>7. req' \in [Handlers -> Request]
  BY DEF TypeOK, DeleteUser, Goto, Request
<1>8. TypeOK'
  BY <1>3, <1>4, <1>5, <1>7 DEF TypeOK, Exists
<1>9. OldPasswordsOvertaken'
  BY <1>3, <1>5 DEF OldPasswordsOvertaken
<1>10. LoginsOvertaken'
  <2> SUFFICES ASSUME NEW g \in Handlers, req'[g].pc = "login", Exists(req[g].target)'
               PROVE  \/ req'[g].password = users'[req'[g].target].password
                      \/ req'[g].overtaken
    BY DEF LoginsOvertaken
  <2>1. req'[g] = req[g]
    BY <1>6 DEF Idle
  <2>2. req[g].target \in Users /\ req[g].target # u
    BY <1>3, <2>1, RequestFields DEF Login, Exists
  <2> QED BY <1>3, <2>1, <2>2 DEF LoginsOvertaken, Exists
<1> QED BY <1>2, <1>8, <1>9, <1>10

(* ResetUserPassword ends the sessions of the user and marks the logins.   *)
LEMMA ResetUserPasswordStep ==
  ASSUME AccountsInv, NEW h \in Handlers, NEW p \in Passwords, ResetUserPassword(h, p)
  PROVE  AccountsInv'
<1> USE DEF AccountsInv
<1> DEFINE u == req[h].target
<1>1. u \in Users
  BY RequestFields DEF ResetUserPassword, ChangePassword
<1>2. users[u] \in Row
  BY <1>1 DEF TypeOK, ResetUserPassword, Exists
<1>3. /\ users'[u] = [users[u] EXCEPT !.password = p]
      /\ \A v \in Users : v # u => users'[v] = users[v]
  BY <1>1 DEF TypeOK, ResetUserPassword
<1>4. users'[u] \in Row /\ users'[u].role = users[u].role /\ users'[u].disabled = users[u].disabled
  BY <1>2, <1>3 DEF Row
<1>5. users' \in [Users -> Row \cup {NoRow}]
  <2>1. [users[u] EXCEPT !.password = p] \in Row
    BY <1>2 DEF Row
  <2> QED BY <1>1, <2>1 DEF TypeOK, ResetUserPassword
<1>6. \A v \in Users : Exists(v)' <=> Exists(v)
  BY <1>2, <1>3, <1>4, RowIsNotNoRow DEF Exists
<1>7. \A s \in sessions' : s \in sessions /\ s.user \in Users /\ s.user # u
  BY DEF ResetUserPassword, sessionsAfterReset, TypeOK, Session
<1>8. req'[h] = Idle
  BY DEF ResetUserPassword
<1>9. ASSUME NEW g \in Handlers, g # h, req[g].pc = "login", req[g].target = u
       PROVE  req'[g] = [req[g] EXCEPT !.overtaken = TRUE] /\ req'[g] \in Login /\ req'[g].overtaken
  <2>1. req'[g] = [req[g] EXCEPT !.overtaken = TRUE]
    BY <1>9 DEF ResetUserPassword
  <2>2. req[g] \in Login
    BY <1>9, RequestFields
  <2> QED BY <2>1, <2>2 DEF Login
<1>10. ASSUME NEW g \in Handlers, g # h, ~(req[g].pc = "login" /\ req[g].target = u)
       PROVE  req'[g] = req[g]
  BY <1>10 DEF ResetUserPassword
<1>11. req' \in [Handlers -> Request]
  <2>2. \A g \in Handlers : req'[g] \in Request
    BY <1>8, <1>9, <1>10 DEF Request, TypeOK
  <2>3. req' = [g \in Handlers |-> req'[g]]
    BY DEF ResetUserPassword
  <2> QED BY <2>2, <2>3
<1>12. TypeOK'
  BY <1>5, <1>6, <1>7, <1>11 DEF TypeOK
<1>13. OldPasswordsOvertaken'
  BY <1>3, <1>7 DEF OldPasswordsOvertaken
<1>14. AnAdminRemains' /\ NobodyIsServed'
  <2>1. \A v \in Users : Enabled(users[v])' <=> Enabled(users[v])
    BY <1>1, <1>3, <1>4 DEF Enabled
  <2>2. HasUsers
    BY <1>1 DEF ResetUserPassword, HasUsers
  <2>3. EnabledAdmins' # {}
    BY <2>1, <2>2 DEF AnAdminRemains, EnabledAdmins
  <2> QED BY <2>3, AdminsAreUsersNext
<1>15. LoginsOvertaken'
  <2> SUFFICES ASSUME NEW g \in Handlers, req'[g].pc = "login", Exists(req[g].target)'
               PROVE  \/ req'[g].password = users'[req'[g].target].password
                      \/ req'[g].overtaken
    BY DEF LoginsOvertaken
  <2>1. g # h
    BY <1>8 DEF Idle
  <2>2. CASE req[g].pc = "login" /\ req[g].target = u
    BY <1>9, <2>1, <2>2
  <2>3. CASE ~(req[g].pc = "login" /\ req[g].target = u)
    <3>1. req'[g] = req[g]
      BY <1>10, <2>1, <2>3
    <3>2. req[g].target \in Users /\ req[g].target # u
      BY <2>3, <3>1, RequestFields DEF Login
    <3> QED BY <1>3, <3>1, <3>2 DEF LoginsOvertaken, Exists
  <2> QED BY <2>2, <2>3
<1> QED BY <1>12, <1>13, <1>14, <1>15

(* Every other step of a handler.                                          *)
LEMMA HandlerStep ==
  ASSUME AccountsInv, NEW h \in Handlers, Step(h) \/ RequestEnds(h)
  PROVE  AccountsInv'
<1> USE DEF AccountsInv
<1>1. CASE DeleteSession(h)
  <2>1. LoginsOvertaken' /\ NobodyIsServed' /\ req' \in [Handlers -> Request]
    BY <1>1, FinishKeepsLogins DEF DeleteSession
  <2> QED BY <1>1, <2>1, FewerSessions DEF DeleteSession, TypeOK
<1>2. CASE GetUserByID(h)
  <2> DEFINE r == [req[h] EXCEPT !.pc = "reset"]
  <2>1. req[h] \in ChangePassword
    BY <1>2, RequestFields DEF GetUserByID
  <2>2. r \in ChangePassword /\ r.pc = "reset"
    BY <2>1 DEF ChangePassword
  <2>3. r \in Request
    BY <2>2 DEF Request
  <2>4. Goto(h, r) /\ UNCHANGED <<users, sessions>>
    BY <1>2 DEF GetUserByID
  <2>5. HasUsers
    BY <1>2, <2>1 DEF GetUserByID, ChangePassword, HasUsers
  <2> HIDE DEF r
  <2> QED BY <2>2, <2>3, <2>4, <2>5, StartKeeps
<1>3. CASE RequestEnds(h)
  <2>1. LoginsOvertaken' /\ NobodyIsServed' /\ req' \in [Handlers -> Request]
    BY <1>3, FinishKeepsLogins DEF RequestEnds
  <2> QED BY <1>3, <2>1, FewerSessions DEF RequestEnds, TypeOK
<1> QED BY <1>1, <1>2, <1>3, CreateSessionStep, CreateUserStep, UpdateUserStep,
           DeleteUserStep, ResetUserPasswordStep DEF Step

(* Time, the pruning of sessions, restarts and stuttering.                 *)
LEMMA EnvironmentStep ==
  ASSUME AccountsInv,
         (\E s \in sessions : Expire(s)) \/ DeleteExpiredSessions \/ HubRestart \/ UNCHANGED vars
  PROVE  AccountsInv'
<1> USE DEF AccountsInv
<1>1. ASSUME NEW s \in sessions, Expire(s)
      PROVE  AccountsInv'
  <2> DEFINE t == [s EXCEPT !.expired = TRUE]
  <2>1. /\ t \in Session
        /\ t.user = s.user /\ t.password = s.password /\ t.overtaken = s.overtaken
    BY DEF TypeOK, Session
  <2>2. \A x \in sessions' : x \in sessions \/ x = t
    BY <1>1 DEF Expire
  <2>3. UNCHANGED <<users, req>>
    BY <1>1 DEF Expire
  <2>4. Exists(t.user) /\ (t.password # users[t.user].password => t.overtaken)
    BY <2>1 DEF TypeOK, OldPasswordsOvertaken
  <2> HIDE DEF t
  <2>5. TypeOK'
    BY <2>1, <2>2, <2>3, <2>4 DEF TypeOK, Exists
  <2>6. OldPasswordsOvertaken'
    BY <2>2, <2>3, <2>4 DEF OldPasswordsOvertaken
  <2>7. AnAdminRemains' /\ LoginsOvertaken' /\ NobodyIsServed'
    BY <2>3 DEF AnAdminRemains, EnabledAdmins, HasUsers, LoginsOvertaken, NobodyIsServed, Exists
  <2> QED BY <2>5, <2>6, <2>7
<1>2. CASE DeleteExpiredSessions
  <2>1. LoginsOvertaken' /\ NobodyIsServed' /\ req' \in [Handlers -> Request]
    BY <1>2 DEF DeleteExpiredSessions, LoginsOvertaken, NobodyIsServed, HasUsers, Exists, TypeOK
  <2> QED BY <1>2, <2>1, FewerSessions DEF DeleteExpiredSessions, TypeOK
<1>3. CASE HubRestart
  <2>1. sessions' = sessions /\ \A h \in Handlers : req'[h] = Idle
    BY <1>3 DEF HubRestart
  <2>2. req' \in [Handlers -> Request]
    BY <1>3 DEF HubRestart, Request
  <2>3. LoginsOvertaken' /\ NobodyIsServed'
    BY <2>1 DEF LoginsOvertaken, NobodyIsServed, Idle
  <2>4. CASE users' = users
    BY <2>1, <2>2, <2>3, <2>4, FewerSessions
  <2>5. CASE users' # users
    <3>1. /\ \A v \in Users : users[v] = NoRow
          /\ users' \in [Users -> Row \cup {NoRow}]
          /\ \E u \in Users : Enabled(users'[u])
      BY <1>3, <2>5, Bootstrap DEF HubRestart, TypeOK
    <3>2. sessions = {}
      BY <3>1 DEF TypeOK, Session, Exists
    <3>3. TypeOK' /\ OldPasswordsOvertaken'
      BY <2>1, <2>2, <3>1, <3>2 DEF TypeOK, OldPasswordsOvertaken
    <3>4. AnAdminRemains'
      BY <3>1 DEF AnAdminRemains, EnabledAdmins, Enabled
    <3> QED BY <2>3, <3>3, <3>4
  <2> QED BY <2>4, <2>5
<1>4. CASE UNCHANGED vars
  <2>1. LoginsOvertaken' /\ NobodyIsServed' /\ req' \in [Handlers -> Request]
    BY <1>4 DEF vars, LoginsOvertaken, NobodyIsServed, HasUsers, Exists, TypeOK
  <2> QED BY <1>4, <2>1, FewerSessions DEF vars, TypeOK
<1> QED BY <1>1, <1>2, <1>3, <1>4

-----------------------------------------------------------------------------

(* AccountsInv is inductive.                                               *)
THEOREM AccountsInductive == Spec => []AccountsInv
<1>1. Init => AccountsInv
  BY AccountsInit
<1>2. AccountsInv /\ [Next]_vars => AccountsInv'
  BY StartStep, HandlerStep, EnvironmentStep DEF Next
<1> QED BY <1>1, <1>2, PTL DEF Spec

(* Rows stay well formed and a session never outlives its user, in every   *)
(* interleaving of any number of handlers.                                 *)
THEOREM TypeCorrect == Spec => []TypeOK
  BY AccountsInductive, PTL DEF AccountsInv

(* The transaction of withLastAdminGuard suffices: however administrators  *)
(* demote, disable and delete each other, an enabled one remains as soon   *)
(* as there are users.                                                     *)
THEOREM AdminGuard == Spec => []AnAdminRemains
  BY AccountsInductive, PTL DEF AccountsInv

(* The race of a login with a password change is the only way for a        *)
(* session to survive the change.                                          *)
THEOREM OnlyTheRaceSurvives == Spec => []OldPasswordsOvertaken
  BY AccountsInductive, PTL DEF AccountsInv
=============================================================================
