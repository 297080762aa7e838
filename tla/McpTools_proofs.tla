--------------------------- MODULE McpTools_proofs ---------------------------
(***************************************************************************)
(* Theorems about McpTools, for any number of concurrent tool calls, any   *)
(* clusters, times, page sizes, batch sizes and retention.                 *)
(***************************************************************************)
EXTENDS McpTools, FiniteSetTheorems, TLAPS

(* RetryHasSession is not inductive: it says nothing of a call whose retry *)
(* is still under way.                                                     *)

(* authMu is held by the call that is logging in.                          *)
LoginHoldsLock ==
    \A c \in Calls : call[c].pc \in {"login", "welcome"} <=> authMu = c

(* Only a call that has returned has a result.                             *)
ResultsAreFinal ==
    \A c \in Calls : call[c].pc # "idle" => call[c].result = "none"

(* Since call c has put the flag down no session has ended, so the flag,   *)
(* the jar and every login response stand for a session that is live.      *)
Unended(c) == call[c].retry /\ ~ended[c]

SessionsLast ==
    \A c \in Calls : Unended(c) =>
        /\ loggedIn => jar \in live
        /\ \A d \in Calls : call[d].pc = "welcome" => call[d].cookie \in live
        /\ call[c].pc = "get" => jar \in live
        /\ call[c].pc = "sent" => call[c].cookie \in live

ClientInv ==
    /\ C!ClientTypeOK
    /\ LoginHoldsLock
    /\ ResultsAreFinal
    /\ SessionsLast
    /\ RetryHasSession

(* The query in the hub is the one the tool has asked for; its cursor's    *)
(* time is that of the last event the assistant has seen.                  *)
QueryIsAsked(t) ==
    query[t].pc # "idle" =>
        /\ call[t].pc = "serve"
        /\ tool[t].step = "fetch"
        /\ query[t].scope = tool[t].scope
        /\ query[t].since = Format(tool[t].since)
        /\ query[t].until = Format(tool[t].until)
        /\ query[t].before = tool[t].before
        /\ query[t].pc = "resolve" => query[t].before # 0
        /\ query[t].pc = "list" /\ query[t].before # 0 => query[t].time = tool[t].last.at

(* A row that is gone has expired.                                         *)
ThereOrExpired(e) == e \in events \/ e.at < pruner.cutoff

(* The cursor is the last event seen; its id, and until it is seen again   *)
(* its key, is that of no other row before it.                             *)
CursorIsLast(t) ==
    LET last == tool[t].last IN
    /\ tool[t].before = last.id
    /\ last.id <= lastId
    /\ last.id # 0 => ThereOrExpired(last)
    /\ \A e \in events :
          e.id = last.id \/ (e.id < last.id /\ T!key(e) = T!key(last)) => e = last

(* What has not been seen was asked for, and comes after the last event    *)
(* seen, unless it has expired.                                            *)
DueComesAfter(t) ==
    \A e \in tool[t].due :
        /\ InScope(e.cluster, tool[t].scope)
        /\ e.at >= tool[t].since
        /\ e.at < Format(tool[t].until)
        /\ e.id <= lastId
        /\ ThereOrExpired(e)
        /\ e \in events => T!newer(tool[t].last, e)

(* The cutoff only moves forward.                                          *)
CutoffPast == pruner.cutoff = 0 \/ pruner.cutoff + Retention <= now

Reading(t) == QueryIsAsked(t) /\ CursorIsLast(t) /\ DueComesAfter(t)

ReadingInv ==
    /\ TypeOK
    /\ CutoffPast
    /\ \A t \in Calls : Reading(t)
    /\ PagesComplete

ToolsInv == ClientInv /\ ReadingInv

-----------------------------------------------------------------------------
(* The client.                                                             *)

(* The modules' own instances of Cardinality are the one the theorems on   *)
(* finite sets are about.                                                  *)
LEMMA ClientCardinality == \A S : C!Cardinality(S) = Cardinality(S)
BY DEF C!Cardinality, Cardinality

(* The same for Timeline.                                                  *)
LEMMA TimelineCardinality == \A S : T!Cardinality(S) = Cardinality(S)
BY Zenon DEF T!Cardinality, Cardinality

(* There is a session number that nobody carries, as each call carries at  *)
(* most one and the jar one more.                                          *)
LEMMA FreshSession ==
    ASSUME C!ClientTypeOK
    PROVE  \E s \in C!Sessions : s \notin C!Carried
<1> DEFINE cookies == {call[c].cookie : c \in Calls}
           n == Cardinality(Calls)
<1>1. IsFiniteSet(Calls) /\ n \in Nat
  BY ToolsAssumption, FS_CardinalityType
<1>2. IsFiniteSet(cookies) /\ Cardinality(cookies) <= n /\ Cardinality(cookies) \in Nat
  <2> DEFINE f == [c \in Calls |-> call[c].cookie]
  <2>1. f \in Surjection(Calls, cookies)
    BY DEF Surjection
  <2>2. IsFiniteSet(cookies) /\ Cardinality(cookies) <= n
    BY <1>1, <2>1, FS_Surjection
  <2> QED
    BY <2>2, FS_CardinalityType
<1> HIDE DEF cookies, n
<1>3. /\ IsFiniteSet(cookies \cup {jar}) /\ Cardinality(cookies \cup {jar}) \in Nat
      /\ Cardinality(cookies \cup {jar}) <= n + 1
  <2>1. /\ IsFiniteSet(cookies \cup {jar})
        /\ Cardinality(cookies \cup {jar}) =
              IF jar \in cookies THEN Cardinality(cookies) ELSE Cardinality(cookies) + 1
    BY <1>2, FS_AddElement
  <2> QED
    BY <1>1, <1>2, <2>1
<1>4. C!Carried = cookies \cup {jar}
  BY DEF C!Carried, cookies
<1>5. IsFiniteSet(C!Sessions) /\ Cardinality(C!Sessions) = n + 2
  <2>1. n + 2 \in Int /\ ~(1 > n + 2) /\ (n + 2) - 1 + 1 = n + 2
    BY <1>1
  <2>2. IsFiniteSet(1..(n + 2)) /\ Cardinality(1..(n + 2)) = n + 2
    BY <2>1, FS_Interval
  <2>3. C!Sessions = 1..(n + 2)
    BY ClientCardinality DEF C!Sessions, n
  <2> QED
    BY <2>2, <2>3
<1>6. ~(C!Sessions \subseteq C!Carried)
  <2> SUFFICES ASSUME C!Sessions \subseteq cookies \cup {jar} PROVE FALSE
    BY <1>4
  <2>1. Cardinality(C!Sessions) <= Cardinality(cookies \cup {jar})
    BY <1>3, FS_Subset
  <2> QED
    BY <1>1, <1>3, <1>5, <2>1
<1> QED
  BY <1>6

(* Returning, a call takes along only the session nobody else carries.     *)
LEMMA ReturnClient ==
    ASSUME ClientInv, NEW c \in Calls, NEW result \in C!Results, C!Return(c, result),
           UNCHANGED <<loggedIn, jar, allowed>>,
           result = "unauthorized" => ended[c],
           authMu' = IF authMu = c THEN Nobody ELSE authMu
    PROVE  ClientInv'
<1> DEFINE r == [C!NoCall EXCEPT !.result = result]
<1>1. r \in C!Call /\ r.pc = "idle" /\ ~r.retry /\ r.result = result
  BY DEF C!NoCall, C!Call, C!Results
<1>2. /\ call \in [Calls -> C!Call] /\ authMu \in Calls \cup {Nobody} /\ live \subseteq C!Sessions
      /\ call' = [call EXCEPT ![c] = r] /\ UNCHANGED ended
  BY DEF ClientInv, C!ClientTypeOK, C!Return
<1>3. live' = live \cap ({jar} \cup {call[d].cookie : d \in Calls \ {c}})
  BY DEF C!Return
<1> HIDE DEF r
<1>4. call' \in [Calls -> C!Call] /\ call'[c] = r /\ \A d \in Calls : d # c => call'[d] = call[d]
  BY <1>1, <1>2
<1>5. C!ClientTypeOK'
  BY <1>2, <1>3, <1>4 DEF ClientInv, C!ClientTypeOK
<1>6. LoginHoldsLock'
  BY <1>1, <1>4, ToolsAssumption DEF ClientInv, LoginHoldsLock
<1>7. ResultsAreFinal'
  BY <1>1, <1>4 DEF ClientInv, ResultsAreFinal
<1>8. SessionsLast'
  <2> SUFFICES ASSUME NEW d \in Calls, Unended(d)'
               PROVE  /\ loggedIn => jar \in live'
                      /\ \A e \in Calls : call'[e].pc = "welcome" => call'[e].cookie \in live'
                      /\ call'[d].pc = "get" => jar \in live'
                      /\ call'[d].pc = "sent" => call'[d].cookie \in live'
    BY DEF SessionsLast
  <2>1. d # c /\ Unended(d)
    BY <1>1, <1>2, <1>4 DEF Unended
  <2> QED
    BY <1>1, <1>3, <1>4, <2>1 DEF ClientInv, SessionsLast
<1>9. RetryHasSession'
  BY <1>1, <1>2, <1>4 DEF ClientInv, RetryHasSession
<1> QED
  BY <1>5, <1>6, <1>7, <1>8, <1>9 DEF ClientInv

(* A new request begins.                                                   *)
LEMMA OpenClient ==
    ASSUME ClientInv, NEW c \in Calls, C!open(c) \/ C!openLoggedIn(c)
    PROVE  ClientInv'
<1>1. /\ call \in [Calls -> C!Call] /\ ended \in [Calls -> BOOLEAN]
      /\ call[c].pc = "idle" /\ UNCHANGED <<loggedIn, authMu, jar, live, allowed>>
      /\ jar \in C!Sessions \cup {0}
  BY DEF ClientInv, C!ClientTypeOK, C!open, C!openLoggedIn
<1>2. PICK r \in C!Call : /\ call' = [call EXCEPT ![c] = r] /\ ~r.retry /\ r.result = "none"
                          /\ r.pc \in {"ensure", "serve"}
  <2>1. CASE C!open(c)
    <3> DEFINE r == [C!NoCall EXCEPT !.pc = "ensure"]
    <3>1. r \in C!Call /\ ~r.retry /\ r.result = "none" /\ r.pc = "ensure"
      BY DEF C!NoCall, C!Call, C!Results
    <3> QED
      BY <2>1, <3>1 DEF C!open
  <2>2. CASE C!openLoggedIn(c)
    <3> DEFINE r == [C!NoCall EXCEPT !.pc = "serve", !.cookie = jar]
    <3>1. r \in C!Call /\ ~r.retry /\ r.result = "none" /\ r.pc = "serve"
      BY <1>1 DEF C!NoCall, C!Call, C!Results
    <3> QED
      BY <2>2, <3>1 DEF C!openLoggedIn
  <2> QED
    BY <2>1, <2>2
<1>3. call' \in [Calls -> C!Call] /\ call'[c] = r /\ \A d \in Calls : d # c => call'[d] = call[d]
  BY <1>1, <1>2
<1>4. ended' \in [Calls -> BOOLEAN] /\ \A d \in Calls : d # c => ended'[d] = ended[d]
  BY <1>1 DEF C!open, C!openLoggedIn
<1>5. C!ClientTypeOK'
  BY <1>1, <1>3, <1>4 DEF ClientInv, C!ClientTypeOK
<1>6. LoginHoldsLock'
  BY <1>1, <1>2, <1>3 DEF ClientInv, LoginHoldsLock
<1>7. ResultsAreFinal'
  BY <1>2, <1>3 DEF ClientInv, ResultsAreFinal
<1>8. SessionsLast'
  <2> SUFFICES ASSUME NEW d \in Calls, Unended(d)'
               PROVE  /\ loggedIn => jar \in live
                      /\ \A e \in Calls : call'[e].pc = "welcome" => call'[e].cookie \in live
                      /\ call'[d].pc = "get" => jar \in live
                      /\ call'[d].pc = "sent" => call'[d].cookie \in live
    BY <1>1 DEF SessionsLast
  <2>1. d # c /\ Unended(d)
    BY <1>2, <1>3, <1>4 DEF Unended
  <2> QED
    BY <1>2, <1>3, <2>1 DEF ClientInv, SessionsLast
<1>9. RetryHasSession'
  BY <1>2, <1>3, <1>4 DEF ClientInv, RetryHasSession
<1> QED
  BY <1>5, <1>6, <1>7, <1>8, <1>9 DEF ClientInv

(* The shape of the steps of a call on its way to the handler.             *)
LEMMA Advance ==
    ASSUME C!ClientTypeOK, NEW c \in Calls,
           NEW pc \in {"idle", "ensure", "login", "welcome", "get", "sent", "serve", "reset"},
           NEW cookie \in C!Sessions \cup {0},
           \/ call' = [call EXCEPT ![c].pc = pc] /\ cookie = call[c].cookie
           \/ call' = [call EXCEPT ![c].pc = pc, ![c].cookie = cookie]
    PROVE  /\ call' \in [Calls -> C!Call]
           /\ \A d \in Calls : d # c => call'[d] = call[d]
           /\ \A d \in Calls : call'[d].retry = call[d].retry /\ call'[d].result = call[d].result
           /\ call'[c].pc = pc /\ call'[c].cookie = cookie
BY DEF C!ClientTypeOK, C!Call

(* A step in which one call advances keeps the invariant, if the lock goes *)
(* with a login and the sessions it relies on are live.                    *)
LEMMA AdvanceClient ==
    ASSUME ClientInv, NEW c \in Calls, C!ClientTypeOK',
           call[c].pc # "idle", UNCHANGED ended,
           \A d \in Calls : d # c => call'[d] = call[d],
           \A d \in Calls : call'[d].retry = call[d].retry /\ call'[d].result = call[d].result,
           \A d \in Calls : call'[d].pc \in {"login", "welcome"} <=> authMu' = d,
           \A d \in Calls : Unended(d) =>
               /\ loggedIn' => jar' \in live'
               /\ \A e \in Calls : call'[e].pc = "welcome" => call'[e].cookie \in live'
               /\ call'[d].pc = "get" => jar' \in live'
               /\ call'[d].pc = "sent" => call'[d].cookie \in live'
    PROVE  ClientInv'
<1>1. LoginHoldsLock'
  BY DEF LoginHoldsLock
<1>2. ResultsAreFinal'
  BY DEF ClientInv, ResultsAreFinal
<1>3. \A d \in Calls : Unended(d)' => Unended(d)
  BY DEF Unended
<1>4. SessionsLast'
  BY <1>3 DEF SessionsLast
<1>5. RetryHasSession'
  BY DEF ClientInv, RetryHasSession
<1> QED
  BY <1>1, <1>2, <1>4, <1>5 DEF ClientInv

(* ensureAuthenticated keeps the lock for a login.                         *)
LEMMA ensureAuthenticatedClient ==
    ASSUME ClientInv, NEW c \in Calls, C!ensureAuthenticated(c) PROVE ClientInv'
<1> DEFINE pc == IF loggedIn THEN "get" ELSE "login"
<1>1. /\ C!ClientTypeOK /\ call[c].pc = "ensure" /\ authMu = Nobody
      /\ UNCHANGED <<loggedIn, jar, live, allowed, ended>>
      /\ call' = [call EXCEPT ![c].pc = pc]
      /\ authMu' = IF loggedIn THEN Nobody ELSE c
      /\ pc \in {"get", "login"} /\ (pc = "get" <=> loggedIn)
  BY DEF ClientInv, C!ensureAuthenticated
<1> HIDE DEF pc
<1>2. call[c].cookie \in C!Sessions \cup {0}
  BY <1>1 DEF C!ClientTypeOK, C!Call
<1>3. /\ call' \in [Calls -> C!Call]
      /\ \A d \in Calls : d # c => call'[d] = call[d]
      /\ \A d \in Calls : call'[d].retry = call[d].retry /\ call'[d].result = call[d].result
      /\ call'[c].pc = pc /\ call'[c].cookie = call[c].cookie
  BY <1>1, <1>2, Advance, ZenonT(30)
<1>4. C!ClientTypeOK'
  BY <1>1, <1>3 DEF C!ClientTypeOK
<1>5. \A d \in Calls : call'[d].pc \in {"login", "welcome"} <=> authMu' = d
  BY <1>1, <1>3, ToolsAssumption DEF ClientInv, LoginHoldsLock
<1>6. \A d \in Calls : Unended(d) =>
          /\ loggedIn' => jar' \in live'
          /\ \A e \in Calls : call'[e].pc = "welcome" => call'[e].cookie \in live'
          /\ call'[d].pc = "get" => jar' \in live'
          /\ call'[d].pc = "sent" => call'[d].cookie \in live'
  BY <1>1, <1>3 DEF ClientInv, SessionsLast
<1> QED
  BY <1>1, <1>3, <1>4, <1>5, <1>6, AdvanceClient

(* A login makes its session live.                                         *)
LEMMA handleLoginClient ==
    ASSUME ClientInv, NEW c \in Calls, C!handleLogin(c) PROVE ClientInv'
<1>1. /\ C!ClientTypeOK /\ call[c].pc = "login" /\ UNCHANGED <<loggedIn, authMu, jar, allowed, ended>>
  BY DEF ClientInv, C!handleLogin
<1>2. PICK s \in C!Sessions : /\ live' = live \cup {s}
                              /\ call' = [call EXCEPT ![c].pc = "welcome", ![c].cookie = s]
  BY <1>1, FreshSession DEF C!handleLogin
<1>3. /\ call' \in [Calls -> C!Call]
      /\ \A d \in Calls : d # c => call'[d] = call[d]
      /\ \A d \in Calls : call'[d].retry = call[d].retry /\ call'[d].result = call[d].result
      /\ call'[c].pc = "welcome" /\ call'[c].cookie = s
  BY <1>1, <1>2, Advance
<1>4. C!ClientTypeOK'
  BY <1>1, <1>2, <1>3 DEF C!ClientTypeOK
<1>5. \A d \in Calls : call'[d].pc \in {"login", "welcome"} <=> authMu' = d
  BY <1>1, <1>3 DEF ClientInv, LoginHoldsLock
<1>6. \A d \in Calls : Unended(d) =>
          /\ loggedIn' => jar' \in live'
          /\ \A e \in Calls : call'[e].pc = "welcome" => call'[e].cookie \in live'
          /\ call'[d].pc = "get" => jar' \in live'
          /\ call'[d].pc = "sent" => call'[d].cookie \in live'
  BY <1>1, <1>2, <1>3 DEF ClientInv, SessionsLast
<1> QED
  BY <1>1, <1>3, <1>4, <1>5, <1>6, AdvanceClient

(* Its response puts a live session into the jar.                          *)
LEMMA loginReturnsClient ==
    ASSUME ClientInv, NEW c \in Calls, C!loginReturns(c) PROVE ClientInv'
<1>1. /\ C!ClientTypeOK /\ call[c].pc = "welcome" /\ UNCHANGED <<allowed, ended>>
      /\ jar' = call[c].cookie /\ loggedIn' = TRUE /\ authMu' = Nobody
      /\ call' = [call EXCEPT ![c].pc = "get", ![c].cookie = 0]
      /\ live' = live \cap ({call[c].cookie} \cup {call[d].cookie : d \in Calls \ {c}})
  BY DEF ClientInv, C!loginReturns
<1>2. /\ call' \in [Calls -> C!Call]
      /\ \A d \in Calls : d # c => call'[d] = call[d]
      /\ \A d \in Calls : call'[d].retry = call[d].retry /\ call'[d].result = call[d].result
      /\ call'[c].pc = "get" /\ call'[c].cookie = 0
  BY <1>1, Advance
<1>3. call[c].cookie \in C!Sessions \cup {0}
  BY <1>1 DEF C!ClientTypeOK, C!Call
<1>4. C!ClientTypeOK'
  BY <1>1, <1>2, <1>3 DEF C!ClientTypeOK
<1>5. \A d \in Calls : call'[d].pc \in {"login", "welcome"} <=> authMu' = d
  BY <1>1, <1>2, ToolsAssumption DEF ClientInv, LoginHoldsLock
<1>6. ASSUME NEW d \in Calls, Unended(d)
      PROVE  /\ loggedIn' => jar' \in live'
             /\ \A e \in Calls : call'[e].pc = "welcome" => call'[e].cookie \in live'
             /\ call'[d].pc = "get" => jar' \in live'
             /\ call'[d].pc = "sent" => call'[d].cookie \in live'
  <2>1. \A e \in Calls : call[e].pc = "welcome" => call[e].cookie \in live
    BY <1>6 DEF ClientInv, SessionsLast
  <2>2. call[d].pc = "sent" => call[d].cookie \in live
    BY <1>6 DEF ClientInv, SessionsLast
  <2>3. \A e \in Calls : e # c /\ call[e].cookie \in live => call[e].cookie \in live'
    BY <1>1
  <2>4. jar' \in live'
    BY <1>1, <2>1
  <2> QED
    BY <1>2, <2>1, <2>2, <2>3, <2>4
<1> QED
  BY <1>1, <1>2, <1>4, <1>5, <1>6, AdvanceClient

(* doGet, requireAuth and the first 401 change nothing but the call.       *)
LEMMA requestClient ==
    ASSUME ClientInv, NEW c \in Calls,
           \/ C!doGet(c) \/ C!requireAuth(c)
           \/ C!unauthorized(c) /\ ~call[c].retry
    PROVE  ClientInv'
<1>1. /\ C!ClientTypeOK /\ call[c].pc \in {"get", "sent"}
      /\ UNCHANGED <<loggedIn, authMu, jar, live, allowed, ended>>
  BY DEF ClientInv, C!doGet, C!requireAuth, C!unauthorized
<1>2. jar \in C!Sessions \cup {0} /\ call[c].cookie \in C!Sessions \cup {0}
  BY <1>1 DEF C!ClientTypeOK, C!Call
<1>3. \E pc \in {"sent", "serve", "reset"}, cookie \in C!Sessions \cup {0} :
        /\ pc = "sent" => call[c].pc = "get" /\ cookie = jar
        /\ call' \in [Calls -> C!Call]
        /\ \A d \in Calls : d # c => call'[d] = call[d]
        /\ \A d \in Calls : call'[d].retry = call[d].retry /\ call'[d].result = call[d].result
        /\ call'[c].pc = pc /\ call'[c].cookie = cookie
  <2>1. CASE C!doGet(c)
    <3>1. call[c].pc = "get" /\ call' = [call EXCEPT ![c].pc = "sent", ![c].cookie = jar]
      BY <2>1 DEF C!doGet
    <3>2. /\ call' \in [Calls -> C!Call]
          /\ \A d \in Calls : d # c => call'[d] = call[d]
          /\ \A d \in Calls : call'[d].retry = call[d].retry /\ call'[d].result = call[d].result
          /\ call'[c].pc = "sent" /\ call'[c].cookie = jar
      BY <1>1, <1>2, <3>1, Advance
    <3> QED
      BY <1>2, <3>1, <3>2
  <2>2. CASE C!requireAuth(c)
    <3>1. call' = [call EXCEPT ![c].pc = "serve"]
      BY <2>2 DEF C!requireAuth
    <3>2. /\ call' \in [Calls -> C!Call]
          /\ \A d \in Calls : d # c => call'[d] = call[d]
          /\ \A d \in Calls : call'[d].retry = call[d].retry /\ call'[d].result = call[d].result
          /\ call'[c].pc = "serve" /\ call'[c].cookie = call[c].cookie
      BY <1>1, <3>1 DEF C!ClientTypeOK, C!Call
    <3> QED
      BY <1>2, <3>1, <3>2
  <2>3. CASE C!unauthorized(c) /\ ~call[c].retry
    <3>1. call' = [call EXCEPT ![c].pc = "reset", ![c].cookie = 0]
      BY <2>3 DEF C!unauthorized
    <3>2. /\ call' \in [Calls -> C!Call]
          /\ \A d \in Calls : d # c => call'[d] = call[d]
          /\ \A d \in Calls : call'[d].retry = call[d].retry /\ call'[d].result = call[d].result
          /\ call'[c].pc = "reset" /\ call'[c].cookie = 0
      BY <1>1, <1>2, <3>1, Advance
    <3> QED
      BY <1>2, <3>1, <3>2
  <2> QED
    BY <2>1, <2>2, <2>3
<1>4. C!ClientTypeOK'
  BY <1>1, <1>3 DEF C!ClientTypeOK
<1>5. \A d \in Calls : call'[d].pc \in {"login", "welcome"} <=> authMu' = d
  BY <1>1, <1>3 DEF ClientInv, LoginHoldsLock
<1>6. \A d \in Calls : Unended(d) =>
          /\ loggedIn' => jar' \in live'
          /\ \A e \in Calls : call'[e].pc = "welcome" => call'[e].cookie \in live'
          /\ call'[d].pc = "get" => jar' \in live'
          /\ call'[d].pc = "sent" => call'[d].cookie \in live'
  BY <1>1, <1>3 DEF ClientInv, SessionsLast
<1> QED
  BY <1>1, <1>3, <1>4, <1>5, <1>6, AdvanceClient

(* The flag is put down with the lock free: no older login is under way.   *)
LEMMA resetClient ==
    ASSUME ClientInv, NEW c \in Calls, C!reset(c) PROVE ClientInv'
<1>1. /\ C!ClientTypeOK /\ call[c].pc = "reset" /\ authMu = Nobody /\ loggedIn' = FALSE
      /\ call' = [call EXCEPT ![c].pc = "ensure", ![c].retry = TRUE]
      /\ ended' = [ended EXCEPT ![c] = FALSE]
      /\ UNCHANGED <<authMu, jar, live, allowed>>
  BY DEF ClientInv, C!reset
<1>2. /\ call' \in [Calls -> C!Call]
      /\ \A d \in Calls : d # c => call'[d] = call[d]
      /\ call'[c].pc = "ensure" /\ call'[c].result = call[c].result
  BY <1>1, ZenonT(30) DEF C!ClientTypeOK, C!Call
<1>3. ended' \in [Calls -> BOOLEAN] /\ \A d \in Calls : d # c => ended'[d] = ended[d]
  BY <1>1 DEF C!ClientTypeOK
<1>4. C!ClientTypeOK'
  BY <1>1, <1>2, <1>3 DEF C!ClientTypeOK
<1>5. LoginHoldsLock'
  BY <1>1, <1>2 DEF ClientInv, LoginHoldsLock
<1>6. call[c].result = "none" /\ ResultsAreFinal'
  BY <1>1, <1>2 DEF ClientInv, ResultsAreFinal
<1>7. \A d \in Calls : call'[d].pc # "welcome"
  BY <1>1, <1>5, ToolsAssumption DEF LoginHoldsLock
<1>8. SessionsLast'
  <2> SUFFICES ASSUME NEW d \in Calls, Unended(d)'
               PROVE  /\ call'[d].pc = "get" => jar \in live
                      /\ call'[d].pc = "sent" => call'[d].cookie \in live
    BY <1>1, <1>7 DEF SessionsLast
  <2>1. CASE d = c
    BY <1>2, <2>1
  <2>2. CASE d # c
    BY <1>2, <1>3, <2>2 DEF ClientInv, SessionsLast, Unended
  <2> QED
    BY <2>1, <2>2
<1>9. RetryHasSession'
  BY <1>2, <1>3, <1>6 DEF ClientInv, RetryHasSession
<1> QED
  BY <1>4, <1>5, <1>6, <1>8, <1>9 DEF ClientInv

(* Every step of a call towards the handler keeps the client's invariant.  *)
LEMMA ClientStepClient ==
    ASSUME ClientInv, NEW c \in Calls, C!ClientStep(c) PROVE ClientInv'
<1>1. CASE C!loginRefused(c)
  <2>1. /\ C!Return(c, "rejected") /\ UNCHANGED <<loggedIn, jar, allowed>>
        /\ authMu' = Nobody /\ authMu = c
    BY <1>1 DEF C!loginRefused, ClientInv, LoginHoldsLock
  <2> QED
    BY <2>1, ReturnClient DEF C!Results
<1>2. CASE C!unauthorized(c) /\ call[c].retry
  <2>1. /\ C!Return(c, "unauthorized") /\ UNCHANGED <<loggedIn, authMu, jar, allowed>>
        /\ call[c].pc = "sent" /\ call[c].cookie \notin live
    BY <1>2 DEF C!unauthorized
  <2>2. ended[c]
    BY <1>2, <2>1 DEF ClientInv, SessionsLast, Unended
  <2>3. authMu # c
    BY <2>1 DEF ClientInv, LoginHoldsLock
  <2> QED
    BY <2>1, <2>2, <2>3, ReturnClient DEF C!Results
<1> QED
  BY <1>1, <1>2, ensureAuthenticatedClient, handleLoginClient, loginReturnsClient,
     requestClient, resetClient DEF C!ClientStep

(* An answer, and a failure.                                               *)
LEMMA AnswerClient ==
    ASSUME ClientInv, NEW c \in Calls, NEW result \in C!Results, result # "unauthorized",
           C!Answer(c, result)
    PROVE  ClientInv'
<1>1. C!Return(c, result) /\ UNCHANGED <<loggedIn, authMu, jar, allowed>> /\ call[c].pc = "serve"
  BY DEF C!Answer
<1>2. authMu # c
  BY <1>1 DEF ClientInv, LoginHoldsLock
<1> QED
  BY <1>1, <1>2, ReturnClient

(* The same for a request that fails.                                      *)
LEMMA RequestFailsClient ==
    ASSUME ClientInv, NEW c \in Calls, C!RequestFails(c) PROVE ClientInv'
BY ReturnClient DEF C!RequestFails, C!Results

(* Sessions end for everybody, and an account comes back.                  *)
LEMMA HubsideClient ==
    ASSUME ClientInv, C!EndSessions \/ C!AccountRestored PROVE ClientInv'
<1>1. CASE C!EndSessions
  <2>1. /\ UNCHANGED <<loggedIn, authMu, jar, call>>
        /\ live' \subseteq live /\ allowed' \in BOOLEAN
        /\ ended' = [c \in Calls |-> ended[c] \/ call[c].retry]
    BY <1>1 DEF C!EndSessions
  <2>2. ended' \in [Calls -> BOOLEAN] /\ \A c \in Calls : ended'[c] <=> ended[c] \/ call[c].retry
    BY <2>1
  <2>3. C!ClientTypeOK'
    BY <2>1, <2>2 DEF ClientInv, C!ClientTypeOK
  <2>4. LoginHoldsLock' /\ ResultsAreFinal'
    BY <2>1 DEF ClientInv, LoginHoldsLock, ResultsAreFinal
  <2>5. SessionsLast'
    BY <2>1, <2>2 DEF SessionsLast, Unended
  <2>6. RetryHasSession'
    BY <2>1, <2>2 DEF ClientInv, RetryHasSession
  <2> QED
    BY <2>3, <2>4, <2>5, <2>6 DEF ClientInv
<1>2. CASE C!AccountRestored
  <2>1. UNCHANGED <<loggedIn, authMu, jar, live, call, ended>> /\ allowed' = TRUE
    BY <1>2 DEF C!AccountRestored
  <2> QED
    BY <2>1 DEF ClientInv, C!ClientTypeOK, LoginHoldsLock, ResultsAreFinal, SessionsLast,
                Unended, RetryHasSession
<1> QED
  BY <1>1, <1>2

-----------------------------------------------------------------------------
(* Pages.                                                                  *)

(* What the bounds are.                                                    *)
LEMMA Bounds ==
    /\ MaxTime \in Nat /\ MaxRows \in Nat /\ Retention \in Nat
    /\ PageLimit \in Nat /\ PageLimit # 0 /\ Second \in Nat /\ Second # 0
    /\ Fleet \notin Clusters
BY ToolsAssumption

(* Rows have numbers for ids and times.                                    *)
LEMMA RowFields ==
    ASSUME NEW e \in T!Row
    PROVE  e.id \in 1..MaxRows /\ e.at \in 0..MaxTime /\ e.cluster \in Clusters
BY DEF T!Row, T!Times

(* Formatting a time rounds it down.                                       *)
LEMMA FormatFacts ==
    ASSUME NEW time \in 0..Forever
    PROVE  /\ Format(time) \in 0..Forever /\ Format(time) <= time
           /\ time <= MaxTime => Format(time) \in 0..MaxTime
<1>1. CASE time = Forever
  BY <1>1, Bounds DEF Format, Forever
<1>2. CASE time # Forever
  <2>1. time \in Nat /\ time <= MaxTime
    BY <1>2, Bounds DEF Forever
  <2>2. time % Second \in 0..(Second - 1) /\ time % Second \in Nat
    BY <2>1, Bounds
  <2>3. time % Second <= time
    BY <2>1, <2>2, Bounds
  <2> QED
    BY <1>2, <2>1, <2>2, <2>3, Bounds DEF Format, Forever
<1> QED
  BY <1>1, <1>2

(* Rows with different ids are ordered.                                    *)
LEMMA NewerTotal ==
    ASSUME NEW e \in T!Row, NEW f \in T!Row, e.id # f.id
    PROVE  (T!newer(e, f) \/ T!newer(f, e)) /\ ~(T!newer(e, f) /\ T!newer(f, e))
BY RowFields, Bounds DEF T!newer

(* The order is a strict one.                                              *)
LEMMA NewerOrder ==
    ASSUME NEW e \in T!Row, NEW f \in T!Row, NEW g \in T!Row
    PROVE  ~T!newer(e, e) /\ (T!newer(e, f) /\ T!newer(f, g) => T!newer(e, g))
BY RowFields, Bounds DEF T!newer

(* A set of rows whose ids differ is finite.                               *)
LEMMA RowsFinite ==
    ASSUME NEW rows \in SUBSET T!Row, \A e, f \in rows : e.id = f.id => e = f
    PROVE  IsFiniteSet(rows) /\ Cardinality(rows) \in Nat
<1> DEFINE id == [e \in rows |-> e.id]
<1>1. id \in Injection(rows, 1..MaxRows)
  <2>1. id \in [rows -> 1..MaxRows]
    BY RowFields
  <2> QED
    BY <2>1 DEF Injection, IsInjective
<1>2. IsFiniteSet(1..MaxRows)
  BY Bounds, FS_Interval
<1>3. IsFiniteSet(rows)
  BY <1>1, <1>2, FS_Injection
<1> QED
  BY <1>3, FS_CardinalityType

PageLength(rows) == IF Cardinality(rows) < PageLimit THEN Cardinality(rows) ELSE PageLimit

(* Every set of rows has a first page: the place of a row is the number of *)
(* newer ones, which numbers the rows without gaps.                        *)
LEMMA PageExists ==
    ASSUME NEW rows \in SUBSET T!Row, \A e, f \in rows : e.id = f.id => e = f
    PROVE  T!PageOf(rows) \in [1..PageLength(rows) -> rows] /\ T!isPage(T!PageOf(rows), rows)
<1> DEFINE above(e) == {f \in rows : T!newer(f, e)}
           size == Cardinality(rows)
           n == PageLength(rows)
           rank == [e \in rows |-> Cardinality(above(e)) + 1]
<1>1. IsFiniteSet(rows) /\ size \in Nat
  BY RowsFinite
<1>2. n \in 0..size
  BY <1>1, Bounds DEF PageLength
<1>3. ASSUME NEW e \in rows
      PROVE  /\ IsFiniteSet(above(e)) /\ Cardinality(above(e)) \in Nat
             /\ Cardinality(above(e)) + 1 \in 1..size
  <2>1. above(e) \in SUBSET (rows \ {e})
    BY NewerOrder
  <2>2. IsFiniteSet(rows \ {e}) /\ Cardinality(rows \ {e}) = size - 1
    BY <1>1, FS_RemoveElement
  <2> HIDE DEF above, size
  <2>3. IsFiniteSet(above(e)) /\ Cardinality(above(e)) <= size - 1
    BY <2>1, <2>2, FS_Subset
  <2>4. Cardinality(above(e)) \in Nat
    BY <2>3, FS_CardinalityType
  <2> QED
    BY <1>1, <2>3, <2>4
<1>4. ASSUME NEW e \in rows, NEW f \in rows, T!newer(e, f)
      PROVE  Cardinality(above(e)) < Cardinality(above(f))
  <2>1. above(e) \in SUBSET above(f)
    BY <1>4, NewerOrder
  <2>2. e \in above(f) /\ e \notin above(e)
    BY <1>4, NewerOrder
  <2> HIDE DEF above
  <2>3. /\ Cardinality(above(e)) <= Cardinality(above(f))
        /\ Cardinality(above(e)) # Cardinality(above(f))
    BY <1>3, <2>1, <2>2, FS_Subset
  <2> QED
    BY <1>3, <2>3
<1>5. \A e \in rows : rank[e] = Cardinality(above(e)) + 1
  OBVIOUS
<1> HIDE DEF above
<1>6. rank \in [rows -> 1..size]
  BY <1>3
<1>7. ASSUME NEW e \in rows, NEW f \in rows
      PROVE  /\ rank[e] < rank[f] <=> T!newer(e, f)
             /\ rank[e] = rank[f] => e = f
  <2>1. CASE e = f
    BY <1>3, <1>5, <2>1, NewerOrder
  <2>2. CASE e # f
    <3>1. (T!newer(e, f) \/ T!newer(f, e)) /\ ~(T!newer(e, f) /\ T!newer(f, e))
      BY <2>2, NewerTotal
    <3>2. CASE T!newer(e, f)
      BY <1>3, <1>4, <1>5, <3>2
    <3>3. CASE T!newer(f, e)
      BY <1>3, <1>4, <1>5, <3>1, <3>3
    <3> QED
      BY <3>1, <3>2, <3>3
  <2> QED
    BY <2>1, <2>2
<1> HIDE DEF rank
<1>8. \A i \in 1..size : \E e \in rows : rank[e] = i
  <2>1. rank \in Injection(rows, 1..size)
    BY <1>6, <1>7 DEF Injection, IsInjective
  <2>2. IsFiniteSet(1..size) /\ Cardinality(1..size) = size
    BY <1>1, FS_Interval
  <2>3. rank \in Surjection(rows, 1..size)
    BY <2>1, <2>2, FS_Injection
  <2> QED
    BY <2>3 DEF Surjection
<1> DEFINE shown == [i \in 1..n |-> CHOOSE e \in rows : rank[e] = i]
<1>9. \A i \in 1..n : shown[i] \in rows /\ rank[shown[i]] = i
  <2> SUFFICES ASSUME NEW i \in 1..n PROVE shown[i] \in rows /\ rank[shown[i]] = i
    OBVIOUS
  <2>1. i \in 1..size
    BY <1>1, <1>2
  <2> HIDE DEF size, n
  <2> QED
    BY <1>8, <2>1
<1>10. shown \in [1..n -> rows] /\ DOMAIN shown = 1..n
  BY <1>9
<1> HIDE DEF shown
<1>11. T!isPage(shown, rows)
  <2>1. \A i, j \in 1..n : i < j => T!newer(shown[i], shown[j])
    BY <1>7, <1>9
  <2>2. ASSUME NEW i \in 1..n, NEW e \in rows, e \notin {shown[j] : j \in 1..n}
        PROVE  T!newer(shown[i], e)
    <3>1. rank[e] \in 1..size /\ rank[e] \notin 1..n
      BY <1>6, <1>7, <1>9, <2>2
    <3>2. rank[shown[i]] < rank[e]
      BY <1>2, <1>9, <3>1
    <3> QED
      BY <1>7, <1>9, <3>2
  <2> QED
    BY <1>10, <2>1, <2>2 DEF T!isPage
<1>12. T!PageOf(rows) = CHOOSE p \in [1..n -> rows] : T!isPage(p, rows)
  <2> DEFINE m == IF T!Cardinality(rows) < PageLimit THEN T!Cardinality(rows) ELSE PageLimit
  <2>1. m = n
    BY TimelineCardinality DEF PageLength
  <2>2. T!PageOf(rows) = CHOOSE p \in [1..m -> rows] : T!isPage(p, rows)
    BY Zenon DEF T!PageOf
  <2> HIDE DEF m, n
  <2> QED
    BY <2>1, <2>2
<1>13. T!PageOf(rows) \in [1..n -> rows] /\ T!isPage(T!PageOf(rows), rows)
  <2> HIDE DEF n
  <2> QED
    BY <1>10, <1>11, <1>12
<1> QED
  BY <1>13

(* A page shows the newest rows: all of them if it is the last one, and    *)
(* otherwise all but older ones than that of the cursor.                   *)
LEMMA PageShows ==
    ASSUME NEW rows \in SUBSET T!Row, \A e, f \in rows : e.id = f.id => e = f
    PROVE  LET shown == T!PageOf(rows)
               next == T!nextCursor(rows) IN
           /\ DOMAIN shown = 1..Len(shown) /\ Len(shown) \in Nat
           /\ \A i \in DOMAIN shown : shown[i] \in rows
           /\ next = 0 => Range(shown) = rows
           /\ next # 0 => /\ Len(shown) \in DOMAIN shown /\ next = shown[Len(shown)].id
                          /\ \A e \in rows \ Range(shown) : T!newer(shown[Len(shown)], e)
<1> DEFINE shown == T!PageOf(rows)
           size == Cardinality(rows)
           n == PageLength(rows)
<1>1. shown \in [1..n -> rows] /\ T!isPage(shown, rows)
  BY PageExists
<1>2. IsFiniteSet(rows) /\ size \in Nat
  BY RowsFinite
<1>3. n \in Nat
  BY <1>2, Bounds DEF PageLength
<1>4. T!nextCursor(rows) = IF size > PageLimit THEN shown[PageLimit].id ELSE 0
  BY TimelineCardinality DEF T!nextCursor
<1>5. n = IF size < PageLimit THEN size ELSE PageLimit
  BY DEF PageLength
<1> HIDE DEF shown, n
<1>6. DOMAIN shown = 1..n /\ Len(shown) = n
  BY <1>1, <1>3
<1>7. \A i \in 1..n : shown[i] \in rows
  BY <1>1
<1>8. Range(shown) = {shown[i] : i \in 1..n}
  BY <1>6 DEF Range
<1>9. \A i, j \in 1..n : shown[i] = shown[j] => i = j
  <2> SUFFICES ASSUME NEW i \in 1..n, NEW j \in 1..n, i < j, shown[i] = shown[j] PROVE FALSE
    OBVIOUS
  <2>1. T!newer(shown[i], shown[j])
    BY <1>1, <1>6 DEF T!isPage
  <2>2. shown[i] \in T!Row
    BY <1>7
  <2> QED
    BY <2>1, <2>2, NewerOrder
<1>10. CASE size > PageLimit
  <2>1. n = PageLimit /\ PageLimit \in 1..n /\ shown[PageLimit] \in T!Row
    BY <1>2, <1>5, <1>7, <1>10, Bounds
  <2>2. T!nextCursor(rows) = shown[PageLimit].id /\ shown[PageLimit].id # 0
    BY <1>4, <1>10, <2>1, RowFields
  <2>3. \A e \in rows \ Range(shown) : T!newer(shown[PageLimit], e)
    BY <1>1, <1>6, <1>8, <2>1 DEF T!isPage
  <2> QED
    BY <1>3, <1>6, <1>7, <2>1, <2>2, <2>3 DEF shown
<1>11. CASE ~(size > PageLimit)
  <2>1. n = size /\ T!nextCursor(rows) = 0
    BY <1>2, <1>4, <1>5, <1>11, Bounds
  <2>2. shown \in Injection(1..n, rows)
    BY <1>1, <1>9 DEF Injection, IsInjective
  <2>3. Cardinality(1..n) = n
    BY <1>3, FS_Interval
  <2>4. shown \in Surjection(1..n, rows)
    BY <1>2, <2>1, <2>2, <2>3, FS_Injection
  <2>5. Range(shown) = rows
    BY <1>7, <1>8, <2>4 DEF Surjection
  <2> QED
    BY <1>3, <1>6, <1>7, <2>1, <2>5 DEF shown
<1> QED
  BY <1>10, <1>11

-----------------------------------------------------------------------------
(* Readings.                                                               *)

(* What the types say of the tables, a query and a tool call.              *)
LEMMA Typed ==
    ASSUME TypeOK
    PROVE  /\ events \subseteq T!Row /\ lastId \in 0..MaxRows /\ lastId \in Nat
           /\ pruner.cutoff \in 0..MaxTime /\ now \in 0..MaxTime
           /\ \A e \in events : e.id <= lastId
           /\ \A e, f \in events : e.id = f.id \/ T!key(e) = T!key(f) => e = f
           /\ query \in [Calls -> T!Query] /\ tool \in [Calls -> Tool]
           /\ \A t \in Calls :
                 /\ tool[t].scope \in Clusters \cup {Fleet}
                 /\ tool[t].since \in 0..MaxTime /\ tool[t].until \in 0..Forever
                 /\ tool[t].before \in 0..MaxRows
                 /\ tool[t].last.id \in 0..MaxRows /\ tool[t].last.at \in 0..Forever
                 /\ tool[t].last.id # 0 => tool[t].last \in T!Row
                 /\ tool[t].due \subseteq T!Row
<1>1. \A t \in Calls : tool[t] \in Tool
  BY DEF TypeOK
<1>2. ASSUME NEW r \in T!Row \cup {NoRow}
      PROVE  r.id \in 0..MaxRows /\ r.at \in 0..Forever /\ (r.id # 0 => r \in T!Row)
  BY <1>2, RowFields, Bounds DEF NoRow, Forever
<1>3. ASSUME NEW t \in Calls
      PROVE  /\ tool[t].scope \in Clusters \cup {Fleet}
             /\ tool[t].since \in 0..MaxTime /\ tool[t].until \in 0..Forever
             /\ tool[t].before \in 0..MaxRows
             /\ tool[t].last \in T!Row \cup {NoRow}
             /\ tool[t].due \subseteq T!Row
  BY <1>1 DEF Tool
<1>4. lastId \in Nat
  BY Bounds DEF TypeOK, T!TimelineTypeOK
<1>5. pruner.cutoff \in 0..MaxTime /\ now \in 0..MaxTime
  BY DEF TypeOK, T!TimelineTypeOK, T!Times
<1> QED
  BY <1>2, <1>3, <1>4, <1>5 DEF TypeOK, T!TimelineTypeOK

(* Rows are appended with new ids and go when they have expired.           *)
LEMMA TableMoves ==
    ASSUME ReadingInv, TypeOK', CutoffPast', UNCHANGED <<call, tool, query>>,
           pruner'.cutoff >= pruner.cutoff, lastId' >= lastId,
           \A e \in events : e \in events' \/ e.at < pruner'.cutoff,
           \A e \in events' : e \in events \/ e.id > lastId
    PROVE  ReadingInv'
<1>1. TypeOK
  BY DEF ReadingInv
<1>2. /\ lastId \in Nat /\ lastId' \in Nat /\ pruner.cutoff \in Nat /\ pruner'.cutoff \in Nat
      /\ events' \subseteq T!Row
  <2>1. /\ events' \subseteq T!Row /\ lastId' \in 0..MaxRows
        /\ pruner' \in [running : BOOLEAN, cutoff : 0..MaxTime]
    BY DEF TypeOK, T!TimelineTypeOK
  <2> QED
    BY <1>1, <2>1, Typed, Bounds
<1>3. ASSUME NEW e \in T!Row, ThereOrExpired(e) PROVE ThereOrExpired(e)'
  BY <1>2, <1>3, RowFields, Bounds DEF ThereOrExpired
<1>4. ASSUME NEW t \in Calls PROVE Reading(t)'
  <2>1. Reading(t)
    BY DEF ReadingInv
  <2>2. QueryIsAsked(t)'
    BY <2>1 DEF Reading, QueryIsAsked
  <2>3. CursorIsLast(t)'
    <3> DEFINE last == tool[t].last
    <3>1. /\ tool[t].before = last.id /\ last.id <= lastId /\ last.id \in Nat
          /\ last.id # 0 => ThereOrExpired(last) /\ last \in T!Row
          /\ \A e \in events :
                e.id = last.id \/ (e.id < last.id /\ T!key(e) = T!key(last)) => e = last
      BY <1>1, <2>1, Typed DEF Reading, CursorIsLast
    <3> HIDE DEF last
    <3>2. \A e \in events' : e \notin events => e.id > last.id
      BY <1>2, <3>1, RowFields
    <3>3. last.id <= lastId'
      BY <1>2, <3>1
    <3>4. \A e \in events' :
             e.id = last.id \/ (e.id < last.id /\ T!key(e) = T!key(last)) => e = last
      BY <1>2, <3>1, <3>2, RowFields
    <3> QED
      BY <1>3, <3>1, <3>3, <3>4 DEF CursorIsLast, last, T!key
  <2>4. DueComesAfter(t)'
    <3> SUFFICES ASSUME NEW e \in tool[t].due
                 PROVE  /\ InScope(e.cluster, tool[t].scope)
                        /\ e.at >= tool[t].since
                        /\ e.at < Format(tool[t].until)
                        /\ e.id <= lastId'
                        /\ ThereOrExpired(e)'
                        /\ e \in events' => T!newer(tool[t].last, e)
      BY DEF DueComesAfter, Format, InScope, T!newer
    <3>1. e \in T!Row
      BY <1>1, Typed
    <3>2. /\ InScope(e.cluster, tool[t].scope) /\ e.at >= tool[t].since
          /\ e.at < Format(tool[t].until)
          /\ e.id <= lastId /\ ThereOrExpired(e)
          /\ e \in events => T!newer(tool[t].last, e)
      BY <2>1 DEF Reading, DueComesAfter
    <3>3. e \in events' => e \in events
      BY <1>2, <3>1, <3>2, RowFields
    <3>4. e.id <= lastId'
      BY <1>2, <3>1, <3>2, RowFields
    <3> QED
      BY <1>3, <3>1, <3>2, <3>3, <3>4
  <2> QED
    BY <2>2, <2>3, <2>4 DEF Reading
<1>5. PagesComplete'
  BY DEF ReadingInv, PagesComplete
<1> QED
  BY <1>4, <1>5 DEF ReadingInv

(* Steps of the calls that leave the handlers at work.                     *)
LEMMA CallsMove ==
    ASSUME ReadingInv, TypeOK', UNCHANGED <<timelineVars, tool>>,
           \A t \in Calls : query[t].pc # "idle" => call'[t].pc = "serve"
    PROVE  ReadingInv'
<1>1. UNCHANGED <<events, lastId, now, pruner, clusters, query, tool>>
  BY DEF timelineVars
<1>2. ASSUME NEW t \in Calls PROVE Reading(t)'
  <2>1. Reading(t)
    BY DEF ReadingInv
  <2>2. QueryIsAsked(t)'
    BY <1>1, <2>1 DEF Reading, QueryIsAsked
  <2>3. CursorIsLast(t)' /\ DueComesAfter(t)'
    BY <1>1, <2>1 DEF Reading, CursorIsLast, DueComesAfter, ThereOrExpired
  <2> QED
    BY <2>2, <2>3 DEF Reading
<1>3. CutoffPast' /\ PagesComplete'
  BY <1>1 DEF ReadingInv, CutoffPast, PagesComplete
<1> QED
  BY <1>2, <1>3 DEF ReadingInv

(* A step of one reading.                                                  *)
LEMMA OneReads ==
    ASSUME ReadingInv, TypeOK', NEW t \in Calls, UNCHANGED <<events, lastId, now, pruner>>,
           \A u \in Calls : u # t => /\ tool'[u] = tool[u] /\ query'[u] = query[u]
                                     /\ call'[u].pc = call[u].pc,
           Reading(t)', tool'[t].step = "done" => tool'[t].due = {}
    PROVE  ReadingInv'
<1>1. ASSUME NEW u \in Calls, u # t PROVE Reading(u)'
  <2>1. Reading(u)
    BY DEF ReadingInv
  <2>2. tool'[u] = tool[u] /\ query'[u] = query[u] /\ call'[u].pc = call[u].pc
    BY <1>1
  <2>3. QueryIsAsked(u)'
    BY <2>1, <2>2 DEF Reading, QueryIsAsked
  <2>4. CursorIsLast(u)' /\ DueComesAfter(u)'
    BY <2>1, <2>2 DEF Reading, CursorIsLast, DueComesAfter, ThereOrExpired
  <2> QED
    BY <2>3, <2>4 DEF Reading
<1>2. \A u \in Calls : Reading(u)'
  BY <1>1
<1>3. CutoffPast'
  BY DEF ReadingInv, CutoffPast
<1>4. PagesComplete'
  BY DEF ReadingInv, PagesComplete
<1> QED
  BY <1>2, <1>3, <1>4 DEF ReadingInv

(* AppendEvent gives a row a new id, and none that conflicts.              *)
LEMMA AppendReading ==
    ASSUME ReadingInv, C!ClientTypeOK', NEW c \in Clusters, NEW kind \in T!Kinds,
           NEW content \in Contents, NEW at \in 0..MaxTime,
           T!AppendEvent(c, kind, content, at), UNCHANGED <<call, tool, instance>>
    PROVE  ReadingInv'
<1> DEFINE e == [id |-> lastId + 1, cluster |-> c, kind |-> kind, content |-> content, at |-> at]
<1>1. TypeOK /\ lastId \in 0..MaxRows /\ lastId \in Nat /\ events \subseteq T!Row
      /\ \A f \in events : f.id <= lastId
  BY Typed DEF ReadingInv
<1>2. /\ lastId < MaxRows /\ events' = events \cup {e} /\ lastId' = lastId + 1
      /\ ~T!conflicts(e) /\ UNCHANGED <<now, pruner, clusters, query>>
  BY DEF T!AppendEvent
<1>3. e \in T!Row /\ e.id = lastId + 1
  <2>1. lastId + 1 \in 1..MaxRows
    BY <1>1, <1>2, Bounds
  <2> QED
    BY <2>1 DEF T!Row, T!Times
<1> HIDE DEF e
<1>4. T!TimelineTypeOK'
  <2>1. events' \subseteq T!Row /\ lastId' \in 0..MaxRows
    BY <1>1, <1>2, <1>3, Bounds
  <2>2. \A f \in events : f.id \in Nat
    BY <1>1, RowFields
  <2>3. \A f \in events' : f.id <= lastId'
    BY <1>1, <1>2, <1>3, <2>2
  <2>4. \A f \in events : f.id # e.id /\ T!key(f) # T!key(e)
    BY <1>1, <1>2, <1>3, <2>2 DEF T!conflicts
  <2>5. \A f, g \in events' : f.id = g.id \/ T!key(f) = T!key(g) => f = g
    BY <1>1, <1>2, <2>4, Typed
  <2>6. \A f \in events' : \A g \in events' : f.id = g.id \/ T!key(f)' = T!key(g)' => f = g
    BY <2>5 DEF T!key
  <2> QED
    BY <1>1, <1>2, <2>1, <2>3, <2>6 DEF TypeOK, T!TimelineTypeOK
<1>5. TypeOK'
  BY <1>1, <1>4 DEF TypeOK
<1>6. CutoffPast' /\ pruner'.cutoff >= pruner.cutoff
  BY <1>1, <1>2, Typed DEF ReadingInv, CutoffPast
<1>7. lastId' >= lastId /\ \A f \in events' : f \in events \/ f.id > lastId
  BY <1>1, <1>2, <1>3
<1> QED
  BY <1>2, <1>5, <1>6, <1>7, TableMoves

(* The pruner removes what has expired, and its cutoff moves forward.      *)
LEMMA PrunerReading ==
    ASSUME ReadingInv, C!ClientTypeOK', UNCHANGED <<call, tool, instance>>,
           \/ T!pruneExpiredEvents \/ T!PruneEventsBefore \/ T!PruneFails \/ T!Tick
           \/ \E c \in Clusters : T!DeleteCluster(c)
    PROVE  ReadingInv'
<1>1. /\ TypeOK /\ now \in 0..MaxTime /\ pruner.cutoff \in 0..MaxTime
      /\ pruner \in [running : BOOLEAN, cutoff : 0..MaxTime] /\ clusters \subseteq Clusters
  BY Typed DEF ReadingInv, TypeOK, T!TimelineTypeOK
<1>2. UNCHANGED <<lastId, query>> /\ clusters' \subseteq clusters
  BY DEF T!pruneExpiredEvents, T!PruneEventsBefore, T!PruneFails, T!Tick, T!DeleteCluster
<1>3. /\ now' \in 0..MaxTime /\ now' >= now
      /\ pruner' \in [running : BOOLEAN, cutoff : 0..MaxTime] /\ pruner'.cutoff >= pruner.cutoff
      /\ CutoffPast'
  <2>0. CutoffPast
    BY DEF ReadingInv
  <2>1. CASE T!pruneExpiredEvents
    <3>1. /\ now >= Retention /\ pruner' = [running |-> TRUE, cutoff |-> now - Retention]
          /\ UNCHANGED now
      BY <2>1 DEF T!pruneExpiredEvents
    <3>2. now - Retention \in 0..MaxTime /\ pruner'.cutoff = now - Retention
      BY <1>1, <3>1, Bounds
    <3>3. pruner' \in [running : BOOLEAN, cutoff : 0..MaxTime]
      BY <3>1, <3>2
    <3>4. pruner'.cutoff >= pruner.cutoff
      BY <1>1, <2>0, <3>1, <3>2, Bounds DEF CutoffPast
    <3>5. pruner'.cutoff + Retention <= now'
      BY <1>1, <3>1, <3>2, Bounds
    <3> QED
      BY <1>1, <3>1, <3>3, <3>4, <3>5 DEF CutoffPast
  <2>2. CASE T!PruneEventsBefore
    <3>1. UNCHANGED now
      BY <2>2 DEF T!PruneEventsBefore
    <3>2. PICK batch : pruner' = [pruner EXCEPT !.running = ~T!isLastBatch(batch)]
      BY <2>2, Zenon DEF T!PruneEventsBefore
    <3> DEFINE b == ~T!isLastBatch(batch)
    <3>3. b \in BOOLEAN /\ pruner' = [pruner EXCEPT !.running = b]
      BY <3>2
    <3> HIDE DEF b
    <3> QED
      BY <1>1, <2>0, <3>1, <3>3 DEF CutoffPast
  <2>3. CASE T!PruneFails
    <3> DEFINE b == FALSE
    <3>1. UNCHANGED now /\ pruner' = [pruner EXCEPT !.running = b] /\ b \in BOOLEAN
      BY <2>3 DEF T!PruneFails
    <3> HIDE DEF b
    <3> QED
      BY <1>1, <2>0, <3>1 DEF CutoffPast
  <2>4. CASE T!Tick
    <3>1. now < MaxTime /\ now' = now + 1 /\ UNCHANGED pruner
      BY <2>4 DEF T!Tick
    <3> QED
      BY <1>1, <2>0, <3>1, Bounds DEF CutoffPast
  <2>5. CASE \E c \in Clusters : T!DeleteCluster(c)
    <3>1. UNCHANGED <<now, pruner>>
      BY <2>5 DEF T!DeleteCluster
    <3> QED
      BY <1>1, <2>0, <3>1 DEF CutoffPast
  <2> QED
    BY <2>1, <2>2, <2>3, <2>4, <2>5
<1>4. events' \subseteq events /\ \A e \in events : e \in events' \/ e.at < pruner'.cutoff
  <2>1. CASE T!PruneEventsBefore
    <3>1. PICK batch \in SUBSET {e \in events : T!expired(e)} :
             events' = events \ batch /\ pruner' = [pruner EXCEPT !.running = ~T!isLastBatch(batch)]
      BY <2>1, Zenon DEF T!PruneEventsBefore
    <3> DEFINE b == ~T!isLastBatch(batch)
    <3>2. pruner' = [pruner EXCEPT !.running = b]
      BY <3>1
    <3> HIDE DEF b
    <3>3. pruner'.cutoff = pruner.cutoff
      BY <1>1, <3>2
    <3>4. \A e \in batch : e.at < pruner'.cutoff
      BY <3>1, <3>3 DEF T!expired
    <3> QED
      BY <3>1, <3>4
  <2>2. CASE UNCHANGED events
    BY <2>2
  <2> QED
    BY <2>1, <2>2 DEF T!pruneExpiredEvents, T!PruneFails, T!Tick, T!DeleteCluster
<1>5. T!TimelineTypeOK'
  <2>1. \A e, f \in events' : e.id = f.id \/ T!key(e)' = T!key(f)' => e = f
    BY <1>1, <1>4, Typed DEF T!key
  <2> QED
    BY <1>1, <1>2, <1>3, <1>4, <2>1 DEF TypeOK, T!TimelineTypeOK, T!Times
<1>6. TypeOK'
  BY <1>1, <1>5 DEF TypeOK
<1>7. lastId' >= lastId
  BY <1>1, <1>2, Typed
<1> QED
  BY <1>2, <1>3, <1>4, <1>6, <1>7, TableMoves

(* The call whose request is under way at the hub, after an answer.        *)
LEMMA AnswerCalls ==
    ASSUME C!ClientTypeOK, NEW t \in Calls, NEW result,
           C!Return(t, result) \/ C!open(t) \/ C!openLoggedIn(t)
    PROVE  \A u \in Calls : u # t => call'[u] = call[u]
BY DEF C!ClientTypeOK, C!Return, C!open, C!openLoggedIn

(* A reading that has seen nothing has no cursor.                          *)
LEMMA NoCursor ==
    ASSUME TypeOK, NEW t \in Calls, UNCHANGED <<events, lastId, pruner>>,
           tool'[t].before = 0, tool'[t].last = NoRow
    PROVE  CursorIsLast(t)'
<1>1. \A e \in events : e.id # 0 /\ ~(e.id < 0)
  BY Typed, RowFields
<1>2. NoRow.id = 0 /\ lastId \in Nat
  BY Typed DEF NoRow
<1> QED
  BY <1>1, <1>2 DEF CursorIsLast

(* A new reading: what is due is there.                                    *)
LEMMA getTimelineReading ==
    ASSUME ReadingInv, C!ClientTypeOK', NEW t \in Calls, UNCHANGED instance,
           NEW scope \in Clusters \cup {Fleet}, NEW since \in 0..MaxTime, NEW until \in 0..Forever,
           getTimeline(t, scope, since, until)
    PROVE  ReadingInv'
<1> DEFINE due == {e \in events : InScope(e.cluster, scope) /\ e.at >= since /\ e.at < Format(until)}
           new == [NoTool EXCEPT !.step = FirstStep(scope), !.scope = scope,
                                 !.since = since, !.until = until, !.due = due]
<1>1. /\ TypeOK /\ C!ClientTypeOK /\ tool \in [Calls -> Tool] /\ events \subseteq T!Row
      /\ \A e \in events : e.id <= lastId
  BY Typed DEF ReadingInv, TypeOK
<1>2. /\ call[t].pc = "idle" /\ UNCHANGED timelineVars
      /\ tool' = [tool EXCEPT ![t] = new]
      /\ C!open(t) \/ C!openLoggedIn(t)
  BY DEF getTimeline, Over, Failed, request
<1>3. due \subseteq T!Row
  BY <1>1
<1>4. ASSUME NEW e \in due
      PROVE  e \in events /\ InScope(e.cluster, scope) /\ e.at >= since /\ e.at < Format(until)
  OBVIOUS
<1> HIDE DEF due
<1>5. /\ new \in Tool /\ new.step \in {"list", "fetch"} /\ new.scope = scope
      /\ new.since = since /\ new.until = until /\ new.due = due
      /\ new.before = 0 /\ new.last = NoRow
  <2>1. FirstStep(scope) \in {"list", "fetch"}
    BY DEF FirstStep
  <2>2. NoTool \in Tool /\ NoTool.before = 0 /\ NoTool.last = NoRow
    BY Bounds DEF NoTool, Tool, Forever
  <2> QED
    BY <1>3, <2>1, <2>2 DEF Tool
<1> HIDE DEF new
<1>6. tool' \in [Calls -> Tool] /\ tool'[t] = new /\ \A u \in Calls : u # t => tool'[u] = tool[u]
  BY <1>1, <1>2, <1>5
<1>7. UNCHANGED <<events, lastId, now, pruner, clusters, query>>
  BY <1>2 DEF timelineVars
<1>8. TypeOK'
  BY <1>1, <1>6, <1>7 DEF TypeOK, T!TimelineTypeOK
<1>9. query[t].pc = "idle"
  BY <1>2 DEF ReadingInv, Reading, QueryIsAsked
<1>10. Reading(t)'
  <2>1. QueryIsAsked(t)'
    BY <1>7, <1>9 DEF QueryIsAsked
  <2>2. CursorIsLast(t)'
    BY <1>1, <1>5, <1>6, <1>7, NoCursor
  <2>3. DueComesAfter(t)'
    <3>1. \A e \in due : e.id <= lastId /\ T!newer(NoRow, e)
      <4> SUFFICES ASSUME NEW e \in due PROVE e.id <= lastId /\ T!newer(NoRow, e)
        OBVIOUS
      <4>1. e \in events /\ e \in T!Row
        BY <1>1, <1>4
      <4>2. NoRow.at = MaxTime + 1 /\ e.at \in 0..MaxTime
        BY <4>1, RowFields DEF NoRow, Forever
      <4> QED
        BY <1>1, <4>1, <4>2, Bounds DEF T!newer
    <3> QED
      BY <1>4, <1>5, <1>6, <1>7, <3>1 DEF DueComesAfter, ThereOrExpired
  <2> QED
    BY <2>1, <2>2, <2>3 DEF Reading
<1>11. \A u \in Calls : u # t => call'[u] = call[u]
  BY <1>1, <1>2, AnswerCalls
<1> QED
  BY <1>5, <1>6, <1>7, <1>8, <1>10, <1>11, OneReads

(* Steps in which a reading goes on where it was, its query idle or not.   *)
LEMMA SameReading ==
    ASSUME ReadingInv, TypeOK', NEW t \in Calls, UNCHANGED <<events, lastId, now, pruner>>,
           \A u \in Calls : u # t => /\ tool'[u] = tool[u] /\ query'[u] = query[u]
                                     /\ call'[u].pc = call[u].pc,
           tool'[t] = tool[t] \/ tool'[t].step # "done",
           /\ tool'[t].scope = tool[t].scope /\ tool'[t].since = tool[t].since
           /\ tool'[t].until = tool[t].until /\ tool'[t].before = tool[t].before
           /\ tool'[t].last = tool[t].last /\ tool'[t].due = tool[t].due,
           QueryIsAsked(t)'
    PROVE  ReadingInv'
<1>1. Reading(t)
  BY DEF ReadingInv
<1>2. CursorIsLast(t)' /\ DueComesAfter(t)'
  BY <1>1 DEF Reading, CursorIsLast, DueComesAfter, ThereOrExpired
<1>3. Reading(t)'
  BY <1>2 DEF Reading
<1>4. tool'[t].step = "done" => tool'[t].due = {}
  BY DEF ReadingInv, PagesComplete
<1> QED
  BY <1>3, <1>4, OneReads

(* The listing is answered.                                                *)
LEMMA listClustersReading ==
    ASSUME ReadingInv, C!ClientTypeOK', NEW t \in Calls, UNCHANGED instance, listClusters(t)
    PROVE  ReadingInv'
<1>1. TypeOK /\ C!ClientTypeOK /\ tool \in [Calls -> Tool]
  BY Typed DEF ReadingInv, TypeOK
<1>2. /\ tool[t].step = "list" /\ tool' = [tool EXCEPT ![t].step = "fetch"]
      /\ UNCHANGED <<events, lastId, now, pruner, clusters, query>>
      /\ \E result : C!Return(t, result)
  BY DEF listClusters, timelineVars, C!Answer
<1>3. /\ tool' \in [Calls -> Tool] /\ \A u \in Calls : u # t => tool'[u] = tool[u]
      /\ tool'[t].step = "fetch"
      /\ tool'[t].scope = tool[t].scope /\ tool'[t].since = tool[t].since
      /\ tool'[t].until = tool[t].until /\ tool'[t].before = tool[t].before
      /\ tool'[t].last = tool[t].last /\ tool'[t].due = tool[t].due
  BY <1>1, <1>2 DEF Tool
<1>4. TypeOK'
  BY <1>1, <1>2, <1>3 DEF TypeOK, T!TimelineTypeOK
<1>5. \A u \in Calls : u # t => call'[u] = call[u]
  BY <1>1, <1>2, AnswerCalls
<1>6. query[t].pc = "idle"
  BY <1>2 DEF ReadingInv, Reading, QueryIsAsked
<1>7. QueryIsAsked(t)'
  BY <1>2, <1>6 DEF QueryIsAsked
<1> QED
  BY <1>2, <1>3, <1>4, <1>5, <1>7, SameReading

(* The handler takes over what the tool has asked for, or refuses it.      *)
LEMMA serveTimelineReading ==
    ASSUME ReadingInv, C!ClientTypeOK', NEW t \in Calls, UNCHANGED instance, serveTimeline(t)
    PROVE  ReadingInv'
<1>1. TypeOK /\ C!ClientTypeOK /\ query \in [Calls -> T!Query]
  BY Typed DEF ReadingInv, TypeOK
<1>2. tool[t].step = "fetch" /\ call[t].pc = "serve" /\ UNCHANGED tool
  BY DEF serveTimeline
<1>3. CASE /\ T!serveTimeline(t, tool[t].scope, Format(tool[t].since), Format(tool[t].until),
                              tool[t].before)
           /\ UNCHANGED clientVars
  <2> DEFINE q == [pc |-> IF tool[t].before = 0 THEN "list" ELSE "resolve",
                   scope |-> tool[t].scope, since |-> Format(tool[t].since),
                   until |-> Format(tool[t].until), before |-> tool[t].before, time |-> 0]
  <2>1. /\ query' = [query EXCEPT ![t] = q] /\ UNCHANGED <<events, lastId, now, pruner, clusters, call>>
    BY <1>3 DEF T!serveTimeline, clientVars
  <2>2. /\ tool[t].scope \in Clusters \cup {Fleet} /\ Format(tool[t].since) \in 0..MaxTime
        /\ Format(tool[t].until) \in 0..Forever /\ tool[t].before \in 0..MaxRows
    <3>1. /\ tool[t].since \in 0..Forever /\ tool[t].since <= MaxTime
          /\ tool[t].until \in 0..Forever
      BY <1>1, Typed, Bounds DEF Forever
    <3> QED
      BY <1>1, <3>1, Typed, FormatFacts
  <2>3. /\ q.pc \in {"list", "resolve"} /\ q.scope = tool[t].scope /\ q.before = tool[t].before
        /\ q.since = Format(tool[t].since) /\ q.until = Format(tool[t].until)
        /\ q.pc = "resolve" <=> q.before # 0
    OBVIOUS
  <2>4. q \in T!Query
    <3>1. 0..Forever = 0..MaxTime \cup {MaxTime + 1} /\ 0 \in 0..MaxTime
      BY Bounds DEF Forever
    <3> QED
      BY <2>2, <3>1 DEF T!Query, T!Times, T!Forever
  <2> HIDE DEF q
  <2>5. query' \in [Calls -> T!Query] /\ query'[t] = q /\ \A u \in Calls : u # t => query'[u] = query[u]
    BY <1>1, <2>1, <2>4
  <2>6. TypeOK'
    BY <1>1, <1>2, <2>1, <2>5 DEF TypeOK, T!TimelineTypeOK
  <2>7. QueryIsAsked(t)'
    BY <1>2, <2>1, <2>3, <2>5 DEF QueryIsAsked, Format
  <2> QED
    BY <1>2, <2>1, <2>5, <2>6, <2>7, SameReading
<1>4. CASE query[t].pc = "idle" /\ C!Answer(t, "refused") /\ UNCHANGED timelineVars
  <2>1. /\ UNCHANGED <<events, lastId, now, pruner, clusters, query>>
        /\ \A u \in Calls : u # t => call'[u] = call[u]
    BY <1>1, <1>4, AnswerCalls DEF timelineVars, C!Answer
  <2>2. TypeOK'
    BY <1>1, <1>2, <2>1 DEF TypeOK, T!TimelineTypeOK
  <2>3. QueryIsAsked(t)'
    BY <1>4, <2>1 DEF QueryIsAsked
  <2> QED
    BY <1>2, <2>1, <2>2, <2>3, SameReading
<1> QED
  BY <1>3, <1>4 DEF serveTimeline

(* The row with the cursor's id is the last one seen.                      *)
LEMMA resolveCursorReading ==
    ASSUME ReadingInv, C!ClientTypeOK', NEW t \in Calls, UNCHANGED instance, resolveCursor(t)
    PROVE  ReadingInv'
<1>1. TypeOK /\ query \in [Calls -> T!Query] /\ events \subseteq T!Row /\ Reading(t)
  BY Typed DEF ReadingInv
<1>2. /\ query[t].pc = "resolve" /\ UNCHANGED <<call, tool, events, lastId, now, pruner, clusters>>
  BY DEF resolveCursor, T!resolveCursor, clientVars
<1>3. PICK e \in T!cursorRow(t) : query' = [query EXCEPT ![t].pc = "list", ![t].time = e.at]
  BY DEF resolveCursor, T!resolveCursor
<1>4. e \in events /\ e.id = query[t].before /\ e.at \in 0..MaxTime
  BY <1>1, RowFields DEF T!cursorRow
<1>5. e = tool[t].last
  BY <1>1, <1>2, <1>4 DEF Reading, QueryIsAsked, CursorIsLast
<1>6. /\ query' \in [Calls -> T!Query] /\ \A u \in Calls : u # t => query'[u] = query[u]
      /\ query'[t].pc = "list" /\ query'[t].time = e.at
      /\ query'[t].scope = query[t].scope /\ query'[t].since = query[t].since
      /\ query'[t].until = query[t].until /\ query'[t].before = query[t].before
  BY <1>1, <1>3, <1>4 DEF T!Query, T!Times
<1>7. TypeOK'
  BY <1>1, <1>2, <1>6 DEF TypeOK, T!TimelineTypeOK
<1>8. QueryIsAsked(t)'
  BY <1>1, <1>2, <1>5, <1>6 DEF Reading, QueryIsAsked, Format
<1> QED
  BY <1>2, <1>6, <1>7, <1>8, SameReading

(* An event that is due and still there is one of the rows the page is     *)
(* taken from.                                                             *)
LEMMA DueMatches ==
    ASSUME ReadingInv, NEW t \in Calls, query[t].pc = "list",
           NEW e \in tool[t].due, e \in events
    PROVE  e \in T!Matching(t)
<1>1. TypeOK /\ Reading(t)
  BY DEF ReadingInv
<1>2. /\ query[t].scope = tool[t].scope /\ query[t].since = Format(tool[t].since)
      /\ query[t].until = Format(tool[t].until) /\ query[t].before = tool[t].last.id
      /\ query[t].before # 0 => query[t].time = tool[t].last.at
  BY <1>1 DEF Reading, QueryIsAsked, CursorIsLast
<1>3. /\ InScope(e.cluster, tool[t].scope) /\ e.at >= tool[t].since
      /\ e.at < Format(tool[t].until) /\ T!newer(tool[t].last, e)
  BY <1>1 DEF Reading, DueComesAfter
<1>4. e.at \in 0..MaxTime /\ tool[t].since \in 0..MaxTime
      /\ tool[t].last.at \in 0..Forever /\ tool[t].last.id \in 0..MaxRows /\ e.id \in 1..MaxRows
  BY <1>1, Typed, RowFields
<1>5. e.at >= Format(tool[t].since)
  <2>1. tool[t].since \in 0..Forever
    BY <1>4, Bounds DEF Forever
  <2>2. Format(tool[t].since) \in 0..Forever /\ Format(tool[t].since) <= tool[t].since
    BY <2>1, FormatFacts
  <2> QED
    BY <1>3, <1>4, <2>2, Bounds DEF Forever
<1>6. query[t].before # 0 => T!afterCursor(e, query[t])
  BY <1>2, <1>3, <1>4, Bounds DEF T!afterCursor, T!newer, Forever
<1>7. query[t].scope = Fleet \/ e.cluster = query[t].scope
  BY <1>2, <1>3 DEF InScope
<1> QED
  BY <1>2, <1>3, <1>5, <1>6, <1>7 DEF T!Matching, T!matches

(* The end of a reading to which nothing is due that has not expired.      *)
LEMMA EndReading ==
    ASSUME ReadingInv, C!ClientTypeOK', NEW t \in Calls, UNCHANGED instance,
           T!Done(t), C!Answer(t, "ok"), NEW due \in SUBSET tool[t].due,
           \A e \in due : e.at < pruner.cutoff,
           tool' = [tool EXCEPT ![t] = Ended(due)]
    PROVE  ReadingInv'
<1>1. TypeOK /\ C!ClientTypeOK /\ tool \in [Calls -> Tool] /\ query \in [Calls -> T!Query]
  BY Typed DEF ReadingInv, TypeOK
<1>2. \A e \in due : ~(e.at >= pruner.cutoff)
  <2>1. \A e \in due : e.at \in 0..MaxTime
    BY <1>1, Typed, RowFields
  <2> QED
    BY <1>1, <2>1, Typed, Bounds
<1>3. NoTool \in Tool /\ NoTool.before = 0 /\ NoTool.last = NoRow /\ NoTool.due = {}
  BY Bounds DEF NoTool, Tool, Forever
<1>4. Ended(due) = NoTool
  <2>1. {e \in due : e.at >= pruner.cutoff} = {}
    BY <1>2
  <2>2. Ended(due) = [NoTool EXCEPT !.due = {}]
    BY <2>1 DEF Ended
  <2> QED
    BY <1>3, <2>2 DEF Tool
<1>5. tool' \in [Calls -> Tool] /\ tool'[t] = NoTool /\ \A u \in Calls : u # t => tool'[u] = tool[u]
  BY <1>1, <1>3, <1>4
<1>6. /\ query' = [query EXCEPT ![t] = T!NoQuery] /\ T!NoQuery.pc = "idle" /\ T!NoQuery \in T!Query
      /\ UNCHANGED <<events, lastId, now, pruner, clusters>>
  BY Bounds DEF T!Done, T!NoQuery, T!Query, T!Times, T!Forever
<1>7. query' \in [Calls -> T!Query] /\ query'[t].pc = "idle"
      /\ \A u \in Calls : u # t => query'[u] = query[u]
  BY <1>1, <1>6
<1>8. TypeOK'
  BY <1>1, <1>5, <1>6, <1>7 DEF TypeOK, T!TimelineTypeOK
<1>9. Reading(t)'
  <2>1. QueryIsAsked(t)'
    BY <1>7 DEF QueryIsAsked
  <2>2. CursorIsLast(t)'
    BY <1>1, <1>3, <1>5, <1>6, NoCursor
  <2>3. DueComesAfter(t)'
    BY <1>3, <1>5 DEF DueComesAfter
  <2> QED
    BY <2>1, <2>2, <2>3 DEF Reading
<1>10. \A u \in Calls : u # t => call'[u] = call[u]
  BY <1>1, AnswerCalls DEF C!Answer
<1> QED
  BY <1>3, <1>5, <1>6, <1>7, <1>8, <1>9, <1>10, OneReads

(* The cursor's row is gone: it has expired, and so has all that is older. *)
LEMMA cursorGoneReading ==
    ASSUME ReadingInv, C!ClientTypeOK', NEW t \in Calls, UNCHANGED instance, cursorGone(t)
    PROVE  ReadingInv'
<1> DEFINE last == tool[t].last
<1>1. TypeOK /\ Reading(t)
  BY DEF ReadingInv
<1>2. /\ query[t].pc = "resolve" /\ T!cursorRow(t) = {} /\ T!Done(t) /\ C!Answer(t, "ok")
      /\ tool' = [tool EXCEPT ![t] = Ended(tool[t].due)]
  BY DEF cursorGone, T!cursorGone
<1>3. query[t].before = last.id /\ last.id # 0 /\ ThereOrExpired(last)
  BY <1>1, <1>2 DEF Reading, QueryIsAsked, CursorIsLast
<1>4. last.at < pruner.cutoff
  BY <1>2, <1>3 DEF T!cursorRow, ThereOrExpired
<1>5. ASSUME NEW e \in tool[t].due PROVE e.at < pruner.cutoff
  <2>1. e.at \in 0..MaxTime /\ last.at \in 0..Forever /\ pruner.cutoff \in 0..MaxTime
    BY <1>1, Typed, RowFields
  <2>2. e \in events => T!newer(last, e)
    BY <1>1 DEF Reading, DueComesAfter
  <2>3. ThereOrExpired(e)
    BY <1>1 DEF Reading, DueComesAfter
  <2> HIDE DEF last
  <2> QED
    BY <1>4, <2>1, <2>2, <2>3, Bounds DEF T!newer, ThereOrExpired, Forever
<1> QED
  BY <1>2, <1>5, EndReading

(* A page is taken from the rows that match; what it leaves comes after it.*)
LEMMA pageReading ==
    ASSUME ReadingInv, C!ClientTypeOK', NEW t \in Calls, UNCHANGED instance, page(t)
    PROVE  ReadingInv'
<1> DEFINE rows == T!Matching(t)
           found == T!PageOf(rows)
           next == T!nextCursor(rows)
           due == tool[t].due \ Range(found)
           last == found[Len(found)]
<1>1. /\ TypeOK /\ C!ClientTypeOK /\ Reading(t) /\ events \subseteq T!Row
      /\ \A e, f \in events : e.id = f.id \/ T!key(e) = T!key(f) => e = f
      /\ tool \in [Calls -> Tool] /\ query \in [Calls -> T!Query]
  BY Typed DEF ReadingInv, TypeOK
<1>2. /\ query[t].pc = "list" /\ T!Done(t) /\ C!Answer(t, "ok")
      /\ tool' = [tool EXCEPT ![t] =
            IF next = 0 THEN Ended(due)
            ELSE [tool[t] EXCEPT !.due = due, !.last = last, !.before = next,
                                 !.step = FirstStep(tool[t].scope)]]
  BY DEF page, T!ListTimelineEvents
<1>3. rows \subseteq events
  BY DEF T!Matching
<1>4. \A e \in tool[t].due : e \in events => e \in rows
  BY <1>2, DueMatches
<1>5. \A e \in tool[t].due : ThereOrExpired(e)
  BY <1>1 DEF Reading, DueComesAfter
<1>6. /\ next = 0 => Range(found) = rows
      /\ next # 0 => /\ last \in rows /\ next = last.id
                     /\ \A e \in rows \ Range(found) : T!newer(last, e)
  <2>1. rows \in SUBSET T!Row /\ \A e, f \in rows : e.id = f.id => e = f
    BY <1>1, <1>3
  <2> HIDE DEF rows
  <2> QED
    BY <2>1, PageShows
<1> HIDE DEF rows, found, next
<1>7. CASE next = 0
  <2>1. tool' = [tool EXCEPT ![t] = Ended(due)]
    BY <1>2, <1>7
  <2>2. due \in SUBSET tool[t].due /\ \A e \in due : e.at < pruner.cutoff
    BY <1>4, <1>5, <1>6, <1>7 DEF ThereOrExpired
  <2> HIDE DEF due
  <2> QED
    BY <1>2, <2>1, <2>2, EndReading
<1>8. CASE next # 0
  <2> DEFINE new == [tool[t] EXCEPT !.due = due, !.last = last, !.before = next,
                                    !.step = FirstStep(tool[t].scope)]
  <2>1. tool' = [tool EXCEPT ![t] = new]
    BY <1>2, <1>8
  <2>2. /\ last \in events /\ last \in T!Row /\ last.id \in 1..MaxRows /\ next = last.id
        /\ last.id \in 0..MaxRows
        /\ \A e \in due : e \in tool[t].due /\ (e \in events => T!newer(last, e))
    BY <1>1, <1>3, <1>4, <1>6, <1>8, RowFields
  <2>3. due \in SUBSET T!Row
    BY <1>1, Typed
  <2> HIDE DEF due, last
  <2>4. /\ new \in Tool /\ new.step # "done" /\ new.due = due /\ new.last = last
        /\ new.before = last.id /\ new.scope = tool[t].scope /\ new.since = tool[t].since
        /\ new.until = tool[t].until
    <3>1. FirstStep(tool[t].scope) \in {"list", "fetch"} /\ tool[t] \in Tool
      BY <1>1 DEF FirstStep
    <3>2. next \in 0..MaxRows
      BY <2>2
    <3> QED
      BY <2>2, <2>3, <3>1, <3>2 DEF Tool
  <2> HIDE DEF new
  <2>5. tool' \in [Calls -> Tool] /\ tool'[t] = new /\ \A u \in Calls : u # t => tool'[u] = tool[u]
    BY <1>1, <2>1, <2>4
  <2>6. /\ query' = [query EXCEPT ![t] = T!NoQuery] /\ T!NoQuery.pc = "idle" /\ T!NoQuery \in T!Query
        /\ UNCHANGED <<events, lastId, now, pruner, clusters>>
    BY <1>2, Bounds DEF T!Done, T!NoQuery, T!Query, T!Times, T!Forever
  <2>7. query' \in [Calls -> T!Query] /\ query'[t].pc = "idle"
        /\ \A u \in Calls : u # t => query'[u] = query[u]
    BY <1>1, <2>6
  <2>8. TypeOK'
    BY <1>1, <2>5, <2>6, <2>7 DEF TypeOK, T!TimelineTypeOK
  <2>9. CursorIsLast(t)'
    <3>1. last.id <= lastId
      BY <1>1, <2>2, Typed
    <3>2. \A e \in events :
             e.id = last.id \/ (e.id < last.id /\ T!key(e) = T!key(last)) => e = last
      BY <1>1, <2>2
    <3> QED
      BY <2>2, <2>4, <2>5, <2>6, <3>1, <3>2 DEF CursorIsLast, ThereOrExpired, T!key
  <2>10. DueComesAfter(t)'
    <3>1. \A e \in due : /\ InScope(e.cluster, tool[t].scope) /\ e.at >= tool[t].since
                         /\ e.at < Format(tool[t].until) /\ e.id <= lastId /\ ThereOrExpired(e)
      BY <1>1, <2>2 DEF Reading, DueComesAfter
    <3> QED
      BY <2>2, <2>4, <2>5, <2>6, <3>1 DEF DueComesAfter, ThereOrExpired, T!newer
  <2>11. Reading(t)'
    BY <2>7, <2>9, <2>10 DEF Reading, QueryIsAsked
  <2>12. \A u \in Calls : u # t => call'[u] = call[u]
    BY <1>1, <1>2, AnswerCalls DEF C!Answer
  <2> QED
    BY <2>4, <2>5, <2>6, <2>7, <2>8, <2>11, <2>12, OneReads
<1> QED
  BY <1>7, <1>8

(* A request that fails leaves no handler behind.                          *)
LEMMA RequestFailsReading ==
    ASSUME ReadingInv, C!ClientTypeOK', NEW t \in Calls, UNCHANGED instance, RequestFails(t)
    PROVE  ReadingInv'
<1>1. TypeOK /\ C!ClientTypeOK /\ query \in [Calls -> T!Query]
  BY Typed DEF ReadingInv, TypeOK
<1>2. /\ query' = [query EXCEPT ![t] = T!NoQuery] /\ T!NoQuery.pc = "idle" /\ T!NoQuery \in T!Query
      /\ UNCHANGED <<events, lastId, now, pruner, clusters, tool>>
  BY Bounds DEF RequestFails, T!NoQuery, T!Query, T!Times, T!Forever
<1>3. query' \in [Calls -> T!Query] /\ query'[t].pc = "idle"
      /\ \A u \in Calls : u # t => query'[u] = query[u]
  BY <1>1, <1>2
<1>4. TypeOK'
  BY <1>1, <1>2, <1>3 DEF TypeOK, T!TimelineTypeOK
<1>5. QueryIsAsked(t)'
  BY <1>3 DEF QueryIsAsked
<1>6. \A u \in Calls : u # t => call'[u] = call[u]
  BY <1>1, AnswerCalls DEF RequestFails, C!RequestFails
<1> QED
  BY <1>2, <1>3, <1>4, <1>5, <1>6, SameReading

-----------------------------------------------------------------------------

(* With or without a session at first, nobody has asked for anything.      *)
LEMMA ToolsInit == Init => ToolsInv
<1> SUFFICES ASSUME Init PROVE ToolsInv
  OBVIOUS
<1>1. /\ instance \in Instances /\ events = {} /\ lastId = 0 /\ now = 0
      /\ pruner = [running |-> FALSE, cutoff |-> 0] /\ clusters = Clusters
      /\ query = [t \in Calls |-> T!NoQuery] /\ tool = [t \in Calls |-> NoTool]
  BY DEF Init, T!TimelineInit
<1>2. /\ authMu = Nobody /\ call = [t \in Calls |-> C!NoCall]
      /\ loggedIn \in BOOLEAN /\ jar \in {0, 1} /\ live \subseteq {1} /\ allowed = TRUE
      /\ ended = [t \in Calls |-> FALSE]
  BY DEF Init, C!ClientInit, C!LoggedInInit
<1>3. /\ C!NoCall \in C!Call /\ C!NoCall.pc = "idle" /\ ~C!NoCall.retry /\ C!NoCall.result = "none"
  BY DEF C!NoCall, C!Call, C!Results
<1>4. ClientInv
  <2>1. 1 \in C!Sessions
    <3>1. Cardinality(Calls) \in Nat
      BY ToolsAssumption, FS_CardinalityType
    <3> QED
      BY <3>1, ClientCardinality DEF C!Sessions
  <2>2. C!ClientTypeOK
    BY <1>2, <1>3, <2>1 DEF C!ClientTypeOK
  <2> QED
    BY <1>2, <1>3, <2>2, ToolsAssumption DEF ClientInv, LoginHoldsLock, ResultsAreFinal,
       SessionsLast, Unended, RetryHasSession
<1>5. NoTool \in Tool /\ NoTool.before = 0 /\ NoTool.last = NoRow /\ NoTool.due = {}
  BY Bounds DEF NoTool, Tool, Forever
<1>6. T!NoQuery \in T!Query /\ T!NoQuery.pc = "idle"
  BY Bounds DEF T!NoQuery, T!Query, T!Times, T!Forever
<1>7. TypeOK
  <2>1. T!TimelineTypeOK
    BY <1>1, <1>6, Bounds DEF T!TimelineTypeOK, T!Times
  <2> QED
    BY <1>1, <1>4, <1>5, <2>1 DEF TypeOK, ClientInv
<1>8. ASSUME NEW t \in Calls PROVE Reading(t)
  <2>1. QueryIsAsked(t)
    BY <1>1, <1>6 DEF QueryIsAsked
  <2>2. CursorIsLast(t)
    BY <1>1, <1>5 DEF CursorIsLast, NoRow
  <2>3. DueComesAfter(t)
    BY <1>1, <1>5 DEF DueComesAfter
  <2> QED
    BY <2>1, <2>2, <2>3 DEF Reading
<1>9. CutoffPast /\ PagesComplete
  BY <1>1, <1>5 DEF CutoffPast, PagesComplete
<1> QED
  BY <1>4, <1>7, <1>8, <1>9 DEF ToolsInv, ReadingInv

(* Every step keeps the invariant of the client ...                        *)
LEMMA ClientNext == ClientInv /\ [Next]_vars => ClientInv'
<1> SUFFICES ASSUME ClientInv, [Next]_vars PROVE ClientInv'
  OBVIOUS
<1>1. CASE UNCHANGED clientVars
  BY <1>1 DEF clientVars, ClientInv, C!ClientTypeOK, LoginHoldsLock, ResultsAreFinal,
              SessionsLast, Unended, RetryHasSession
<1>2. ASSUME NEW t \in Calls, request(t) PROVE ClientInv'
  BY <1>2, OpenClient DEF request
<1>3. ASSUME NEW t \in Calls, NEW result \in {"ok", "refused"}, C!Answer(t, result)
      PROVE  ClientInv'
  BY <1>3, AnswerClient DEF C!Results
<1>4. ASSUME NEW t \in Calls, Ask(t) PROVE ClientInv'
  BY <1>2, <1>4 DEF Ask, getTimeline
<1>5. ASSUME NEW t \in Calls, ClientStep(t) PROVE ClientInv'
  BY <1>5, ClientStepClient DEF ClientStep
<1>6. ASSUME NEW t \in Calls, ToolStep(t) PROVE ClientInv'
  <2>1. CASE nextRequest(t)
    BY <1>2, <2>1 DEF nextRequest
  <2>2. CASE listClusters(t)
    <3>1. \E result \in {"ok", "refused"} : C!Answer(t, result)
      BY <2>2 DEF listClusters
    <3> QED
      BY <1>3, <3>1
  <2>3. CASE serveTimeline(t)
    <3>1. UNCHANGED clientVars \/ C!Answer(t, "refused")
      BY <2>3 DEF serveTimeline
    <3> QED
      BY <1>1, <1>3, <3>1
  <2>4. CASE resolveCursor(t)
    BY <1>1, <2>4 DEF resolveCursor
  <2>5. CASE cursorGone(t) \/ page(t)
    <3>1. C!Answer(t, "ok")
      BY <2>5 DEF cursorGone, page
    <3> QED
      BY <1>3, <3>1
  <2> QED
    BY <1>6, <2>1, <2>2, <2>3, <2>4, <2>5 DEF ToolStep
<1>7. CASE TimelineStep
  BY <1>1, <1>7 DEF TimelineStep
<1>8. CASE Unrest
  BY <1>8, RequestFailsClient, HubsideClient DEF Unrest, RequestFails
<1>9. CASE UNCHANGED vars
  BY <1>1, <1>9 DEF vars
<1> QED
  BY <1>4, <1>5, <1>6, <1>7, <1>8, <1>9 DEF Next

(* ... and that of the readings.                                           *)
LEMMA ReadingNext == ReadingInv /\ C!ClientTypeOK' /\ [Next]_vars => ReadingInv'
<1> SUFFICES ASSUME ReadingInv, C!ClientTypeOK', [Next]_vars PROVE ReadingInv'
  OBVIOUS
<1>1. TypeOK /\ C!ClientTypeOK /\ UNCHANGED instance /\ instance \in Instances
  BY DEF ReadingInv, TypeOK, Next, vars
<1>2. \A t \in Calls : query[t].pc # "idle" => call[t].pc = "serve"
  BY DEF ReadingInv, Reading, QueryIsAsked
<1>3. ASSUME UNCHANGED <<timelineVars, tool>>,
             \A t \in Calls : call[t].pc = "serve" => call'[t].pc = "serve"
      PROVE  ReadingInv'
  <2>1. TypeOK'
    BY <1>1, <1>3 DEF TypeOK, T!TimelineTypeOK, timelineVars
  <2> QED
    BY <1>2, <1>3, <2>1, CallsMove
<1>4. ASSUME NEW t \in Calls, Ask(t) PROVE ReadingInv'
  <2>1. PICK scope \in instance.scopes, w \in instance.times : getTimeline(t, scope, w[1], w[2])
    BY <1>4 DEF Ask
  <2>2. /\ instance.scopes \subseteq Clusters \cup {Fleet}
        /\ instance.times \subseteq (0..MaxTime) \X (0..(MaxTime + 1))
    BY <1>1, ToolsAssumption
  <2>3. scope \in Clusters \cup {Fleet} /\ w[1] \in 0..MaxTime /\ w[2] \in 0..Forever
    BY <2>2 DEF Forever
  <2> QED
    BY <1>1, <2>1, <2>3, getTimelineReading
<1>5. ASSUME NEW t \in Calls, ClientStep(t) PROVE ReadingInv'
  <2>1. C!ClientStep(t) /\ UNCHANGED <<timelineVars, tool>>
    BY <1>5 DEF ClientStep
  <2>2. call[t].pc # "serve" /\ \A u \in Calls : u # t => call'[u] = call[u]
    BY <1>1, <2>1 DEF C!ClientTypeOK, C!ClientStep, C!ensureAuthenticated, C!handleLogin,
       C!loginRefused, C!loginReturns, C!doGet, C!requireAuth, C!unauthorized, C!reset, C!Return
  <2> QED
    BY <1>3, <2>1, <2>2
<1>6. ASSUME NEW t \in Calls, nextRequest(t) PROVE ReadingInv'
  <2>1. /\ C!open(t) \/ C!openLoggedIn(t)
        /\ UNCHANGED <<timelineVars, tool>> /\ call[t].pc = "idle"
    BY <1>6 DEF nextRequest, request, C!open, C!openLoggedIn
  <2>2. \A u \in Calls : u # t => call'[u] = call[u]
    BY <1>1, <2>1, AnswerCalls
  <2> QED
    BY <1>3, <2>1, <2>2
<1>7. ASSUME NEW t \in Calls, ToolStep(t) PROVE ReadingInv'
  BY <1>1, <1>6, <1>7, listClustersReading, serveTimelineReading, resolveCursorReading,
     cursorGoneReading, pageReading DEF ToolStep
<1>8. CASE TimelineStep
  <2>1. UNCHANGED <<call, tool>>
    BY <1>8 DEF TimelineStep, clientVars
  <2>2. ASSUME NEW src \in instance.sources, NEW at \in 0..MaxTime,
               AppendRow(src[1], src[2], src[3], at)
        PROVE  ReadingInv'
    <3>1. src[1] \in Clusters /\ src[2] \in {"health", "disconnected", "finding"}
          /\ src[3] \in Contents
      <4>1. instance.sources \subseteq Clusters \X {"health", "disconnected", "finding"} \X Contents
        BY <1>1, ToolsAssumption
      <4> QED
        BY <4>1
    <3>2. T!AppendEvent(src[1], src[2], src[3], at)
      BY <2>2 DEF AppendRow, T!recordEvent, T!handleRecordPolicyFinding
    <3> QED
      BY <1>1, <2>1, <3>1, <3>2, AppendReading DEF T!Kinds
  <2>3. CASE \/ T!pruneExpiredEvents \/ T!PruneEventsBefore \/ T!PruneFails \/ T!Tick
             \/ \E c \in Clusters : T!DeleteCluster(c)
    BY <1>1, <2>1, <2>3, PrunerReading
  <2> QED
    BY <1>8, <2>2, <2>3 DEF TimelineStep
<1>9. CASE Unrest
  <2>1. ASSUME C!EndSessions \/ C!AccountRestored, UNCHANGED <<timelineVars, tool>>
        PROVE  ReadingInv'
    <3>1. UNCHANGED call
      BY <2>1 DEF C!EndSessions, C!AccountRestored
    <3> QED
      BY <1>3, <2>1, <3>1
  <2> QED
    BY <1>1, <1>9, <2>1, RequestFailsReading DEF Unrest
<1>10. CASE UNCHANGED vars
  <2>1. UNCHANGED <<timelineVars, tool, call>>
    BY <1>10 DEF vars, clientVars
  <2> QED
    BY <1>3, <2>1
<1> QED
  BY <1>4, <1>5, <1>7, <1>8, <1>9, <1>10 DEF Next

-----------------------------------------------------------------------------

(* Whatever the assistants, the writers, the pruner and the sessions do,   *)
(* the queries are the ones asked for, their cursors the last events seen, *)
(* and what is due comes after them (open, handleListTimelineEvents,       *)
(* ListTimelineEvents, PruneEventsBefore).                                 *)
THEOREM ToolsInductive == Spec => []ToolsInv
<1>1. ToolsInv /\ [Next]_vars => ToolsInv'
  BY ClientNext, ReadingNext DEF ToolsInv, ClientInv
<1> QED
  BY <1>1, ToolsInit, PTL DEF Spec

(* The client, the timeline and the tools are always well formed; no two   *)
(* rows share an id, or a cluster, kind and key (the UNIQUE constraint of  *)
(* operational_events).                                                    *)
THEOREM TypeCorrect == Spec => []TypeOK
<1>1. ToolsInv => TypeOK
  BY DEF ToolsInv, ReadingInv
<1> QED
  BY <1>1, ToolsInductive, PTL

(* An assistant that has followed the cursors to the end has seen every    *)
(* event there was when it began and that has not expired, for any page    *)
(* size, batch size and retention (ListTimelineEvents, PruneEventsBefore). *)
THEOREM NothingMissed == Spec => []PagesComplete
<1>1. ToolsInv => PagesComplete
  BY DEF ToolsInv, ReadingInv
<1> QED
  BY <1>1, ToolsInductive, PTL

(* A tool fails with 401 only if a session has ended since it put the flag *)
(* down, for any number of concurrent calls (open, ensureAuthenticated).   *)
THEOREM RetriesWork == Spec => []RetryHasSession
<1>1. ToolsInv => RetryHasSession
  BY DEF ToolsInv, ClientInv
<1> QED
  BY <1>1, ToolsInductive, PTL

(* Page after page the events get older, and none is shown twice           *)
(* (ListTimelineEvents, AppendEvent).                                      *)
THEOREM PagesInOrder == Spec => NewestFirst
<1>1. ASSUME ToolsInv, NEW t \in Calls, page(t)
      PROVE  LET rows == T!PageOf(T!Matching(t))
                 last == tool[t].last IN
             \A i \in DOMAIN rows :
                 /\ InScope(rows[i].cluster, tool[t].scope)
                 /\ rows[i].at >= Format(tool[t].since)
                 /\ rows[i].at < tool[t].until
                 /\ rows[i].at <= last.at
                 /\ rows[i].at = last.at => rows[i].id < last.id
                 /\ T!key(rows[i]) # T!key(last)
  <2> DEFINE shown == T!PageOf(T!Matching(t))
             last == tool[t].last
  <2>1. TypeOK /\ Reading(t) /\ query[t].pc = "list"
    BY <1>1 DEF ToolsInv, ReadingInv, page, T!ListTimelineEvents
  <2>2. \A i \in DOMAIN shown : shown[i] \in T!Matching(t)
    <3>1. /\ T!Matching(t) \in SUBSET T!Row
          /\ \A e, f \in T!Matching(t) : e.id = f.id => e = f
      BY <2>1, Typed DEF T!Matching
    <3> QED
      BY <3>1, PageShows
  <2>3. ASSUME NEW e \in T!Matching(t)
        PROVE  /\ InScope(e.cluster, tool[t].scope)
               /\ e.at >= Format(tool[t].since)
               /\ e.at < tool[t].until
               /\ e.at <= last.at
               /\ e.at = last.at => e.id < last.id
               /\ T!key(e) # T!key(last)
    <3>1. e \in events /\ T!matches(e, query[t])
      BY DEF T!Matching
    <3>2. e \in T!Row /\ e.at \in 0..MaxTime /\ e.id \in 1..MaxRows
      BY <2>1, <3>1, Typed, RowFields
    <3>3. /\ query[t].scope = tool[t].scope /\ query[t].since = Format(tool[t].since)
          /\ query[t].until = Format(tool[t].until) /\ query[t].before = last.id
          /\ query[t].before # 0 => query[t].time = last.at
          /\ \A f \in events :
                f.id = last.id \/ (f.id < last.id /\ T!key(f) = T!key(last)) => f = last
      BY <2>1 DEF Reading, QueryIsAsked, CursorIsLast
    <3>4. InScope(e.cluster, tool[t].scope) /\ e.at >= Format(tool[t].since)
      BY <3>1, <3>3 DEF T!matches, InScope
    <3>5. e.at < tool[t].until
      <4>1. tool[t].until \in 0..Forever
        BY <2>1, Typed
      <4>2. Format(tool[t].until) \in 0..Forever /\ Format(tool[t].until) <= tool[t].until
        BY <4>1, FormatFacts
      <4> QED
        BY <3>1, <3>2, <3>3, <4>1, <4>2, Bounds DEF T!matches, Forever
    <3>6. CASE last.id = 0
      <4>1. last = NoRow
        <5>1. last \in T!Row \cup {NoRow}
          <6>1. tool[t] \in Tool
            BY <2>1 DEF TypeOK
          <6> QED
            BY <6>1 DEF Tool
        <5> QED
          BY <3>6, <5>1, RowFields
      <4>2. e.at < last.at
        BY <3>2, <4>1, Bounds DEF NoRow, Forever
      <4> QED
        BY <3>2, <3>4, <3>5, <4>1, <4>2, Bounds DEF T!key, NoRow, Forever
    <3>7. CASE last.id # 0
      <4>1. last \in T!Row /\ last.at \in 0..MaxTime /\ last.id \in 1..MaxRows
        BY <2>1, <3>7, Typed, RowFields
      <4>2. e.at < last.at \/ (e.at = last.at /\ e.id < last.id)
        BY <3>1, <3>3, <3>7 DEF T!matches, T!afterCursor
      <4>3. T!key(e) = T!key(last) => e.at = last.at
        BY DEF T!key
      <4>4. T!key(e) # T!key(last)
        BY <3>1, <3>2, <3>3, <4>1, <4>2, <4>3, Bounds
      <4> HIDE DEF last
      <4> QED
        BY <3>2, <3>4, <3>5, <4>1, <4>2, <4>4, Bounds
    <3> QED
      BY <3>6, <3>7
  <2> QED
    BY <2>2, <2>3
<1>2. ToolsInv => [\A t \in Calls : page(t) =>
          LET rows == T!PageOf(T!Matching(t))
              last == tool[t].last IN
          \A i \in DOMAIN rows :
              /\ InScope(rows[i].cluster, tool[t].scope)
              /\ rows[i].at >= Format(tool[t].since)
              /\ rows[i].at < tool[t].until
              /\ rows[i].at <= last.at
              /\ rows[i].at = last.at => rows[i].id < last.id
              /\ T!key(rows[i]) # T!key(last)]_vars
  BY <1>1
<1> QED
  BY <1>2, ToolsInductive, PTL DEF NewestFirst
=============================================================================
