----------------------------- MODULE HubClient -----------------------------
(***************************************************************************)
(* The hub client of the MCP server (internal/mcp/hubclient/client.go):    *)
(* concurrent calls share one cookie jar and one flag loggedIn under       *)
(* authMu, log in when the flag is down, and on a 401 put it down, log in  *)
(* and try once more.                                                      *)
(*                                                                         *)
(* authMu is held while the login request is under way.  A session is a    *)
(* number; "live" are the ones the hub accepts.  Sessions that neither the *)
(* jar nor a request carries are forgotten, so their numbers are used      *)
(* again.                                                                  *)
(***************************************************************************)
EXTENDS Naturals, FiniteSets

CONSTANTS
    Calls,      \* goroutines that use the client
    Nobody      \* authMu is free

VARIABLES
    loggedIn,   \* Client.loggedIn
    authMu,     \* who holds Client.authMu
    jar,        \* session in the cookie jar (0: none)
    live,       \* sessions the hub accepts
    allowed,    \* does the hub accept the user name and the password?
    call,       \* call[c]: where open is
    ended       \* ended[c]: has a session ended since c put the flag down?

clientVars == <<loggedIn, authMu, jar, live, allowed, call, ended>>

Sessions == 1..(Cardinality(Calls) + 2)
Results == {"none", "ok", "unauthorized", "rejected", "error", "refused"}

(* "login" and "sent" wait for the hub, "welcome" for a login response on  *)
(* its way back, "serve" for the handler behind requireAuth.               *)
Call == [pc : {"idle", "ensure", "login", "welcome", "get", "sent", "serve", "reset"},
         retry : BOOLEAN, cookie : Sessions \cup {0}, result : Results]
NoCall == [pc |-> "idle", retry |-> FALSE, cookie |-> 0, result |-> "none"]

ClientTypeOK ==
    /\ loggedIn \in BOOLEAN
    /\ authMu \in Calls \cup {Nobody}
    /\ jar \in Sessions \cup {0}
    /\ live \subseteq Sessions
    /\ allowed \in BOOLEAN
    /\ call \in [Calls -> Call]
    /\ ended \in [Calls -> BOOLEAN]

ClientInit ==
    /\ loggedIn = FALSE
    /\ authMu = Nobody
    /\ jar = 0
    /\ live = {}
    /\ allowed = TRUE
    /\ call = [c \in Calls |-> NoCall]
    /\ ended = [c \in Calls |-> FALSE]

(* After a login.                                                          *)
LoggedInInit ==
    /\ loggedIn = TRUE
    /\ authMu = Nobody
    /\ jar = 1
    /\ live = {1}
    /\ allowed = TRUE
    /\ call = [c \in Calls |-> NoCall]
    /\ ended = [c \in Calls |-> FALSE]

-----------------------------------------------------------------------------

Carried == {jar} \cup {call[c].cookie : c \in Calls}

(* A call ends; "live" forgets the session only it has carried.            *)
Return(c, result) ==
    /\ call' = [call EXCEPT ![c] = [NoCall EXCEPT !.result = result]]
    /\ live' = live \cap ({jar} \cup {call[d].cookie : d \in Calls \ {c}})
    /\ UNCHANGED ended

(* open, for the next request of a goroutine.                              *)
open(c) ==
    /\ call[c].pc = "idle"
    /\ call' = [call EXCEPT ![c] = [NoCall EXCEPT !.pc = "ensure"]]
    /\ ended' = [ended EXCEPT ![c] = FALSE]
    /\ UNCHANGED <<loggedIn, authMu, jar, live, allowed>>

(* open, ensureAuthenticated, doGet and requireAuth of a client that is    *)
(* logged in, with nobody about.                                           *)
openLoggedIn(c) ==
    /\ call[c].pc = "idle"
    /\ loggedIn /\ authMu = Nobody /\ jar \in live
    /\ call' = [call EXCEPT ![c] = [NoCall EXCEPT !.pc = "serve", !.cookie = jar]]
    /\ UNCHANGED <<loggedIn, authMu, jar, live, allowed, ended>>

(* ensureAuthenticated takes the lock, and keeps it for a login.           *)
ensureAuthenticated(c) ==
    /\ call[c].pc = "ensure"
    /\ authMu = Nobody
    /\ authMu' = IF loggedIn THEN Nobody ELSE c
    /\ call' = [call EXCEPT ![c].pc = IF loggedIn THEN "get" ELSE "login"]
    /\ UNCHANGED <<loggedIn, jar, live, allowed, ended>>

(* handleLogin starts a session.                                           *)
handleLogin(c) ==
    /\ call[c].pc = "login"
    /\ allowed
    /\ \E s \in {CHOOSE s \in Sessions : s \notin Carried} :
          /\ live' = live \cup {s}
          /\ call' = [call EXCEPT ![c].pc = "welcome", ![c].cookie = s]
    /\ UNCHANGED <<loggedIn, authMu, jar, allowed, ended>>

loginRefused(c) ==
    /\ call[c].pc = "login"
    /\ ~allowed
    /\ Return(c, "rejected")
    /\ authMu' = Nobody
    /\ UNCHANGED <<loggedIn, jar, allowed>>

(* The response arrives: its cookie is in the jar before the flag is up.   *)
loginReturns(c) ==
    /\ call[c].pc = "welcome"
    /\ jar' = call[c].cookie
    /\ loggedIn' = TRUE
    /\ authMu' = Nobody
    /\ call' = [call EXCEPT ![c].pc = "get", ![c].cookie = 0]
    /\ live' = live \cap ({call[c].cookie} \cup {call[d].cookie : d \in Calls \ {c}})
    /\ UNCHANGED <<allowed, ended>>

(* The request carries the cookie the jar holds now.                       *)
doGet(c) ==
    /\ call[c].pc = "get"
    /\ call' = [call EXCEPT ![c].pc = "sent", ![c].cookie = jar]
    /\ UNCHANGED <<loggedIn, authMu, jar, live, allowed, ended>>

(* requireAuth of the hub lets the request through.                        *)
requireAuth(c) ==
    /\ call[c].pc = "sent"
    /\ call[c].cookie \in live
    /\ call' = [call EXCEPT ![c].pc = "serve"]
    /\ UNCHANGED <<loggedIn, authMu, jar, live, allowed, ended>>

(* Mutant: every 401 is followed by another login.                         *)
unauthorized_RetriesAlways(c) ==
    /\ call[c].pc = "sent"
    /\ call[c].cookie \notin live
    /\ call' = [call EXCEPT ![c].pc = "reset", ![c].cookie = 0]
    /\ UNCHANGED <<loggedIn, authMu, jar, live, allowed, ended>>

(* ... or answers 401, which open accepts once.                            *)
unauthorized(c) ==
    /\ call[c].pc = "sent"
    /\ call[c].cookie \notin live
    /\ IF call[c].retry
         THEN Return(c, "unauthorized")
         ELSE /\ call' = [call EXCEPT ![c].pc = "reset", ![c].cookie = 0]
              /\ UNCHANGED <<live, ended>>
    /\ UNCHANGED <<loggedIn, authMu, jar, allowed>>

(* Mutant: the flag stays up.                                              *)
reset_KeepsFlag(c) ==
    /\ call[c].pc = "reset"
    /\ authMu = Nobody
    /\ call' = [call EXCEPT ![c].pc = "ensure", ![c].retry = TRUE]
    /\ ended' = [ended EXCEPT ![c] = FALSE]
    /\ UNCHANGED <<loggedIn, authMu, jar, live, allowed>>

(* After the first 401 the flag goes down, whoever has put it up.          *)
reset(c) ==
    /\ call[c].pc = "reset"
    /\ authMu = Nobody
    /\ loggedIn' = FALSE
    /\ call' = [call EXCEPT ![c].pc = "ensure", ![c].retry = TRUE]
    /\ ended' = [ended EXCEPT ![c] = FALSE]
    /\ UNCHANGED <<authMu, jar, live, allowed>>

(* The handler's answer arrives.                                           *)
Answer(c, result) ==
    /\ call[c].pc = "serve"
    /\ Return(c, result)
    /\ UNCHANGED <<loggedIn, authMu, jar, allowed>>

(* A request fails, or takes longer than requestTimeout.                   *)
RequestFails(c) ==
    /\ call[c].pc \in {"login", "welcome", "sent", "serve"}
    /\ Return(c, "error")
    /\ authMu' = IF authMu = c THEN Nobody ELSE authMu
    /\ UNCHANGED <<loggedIn, jar, allowed>>

-----------------------------------------------------------------------------
(* The hub's side of the sessions.                                         *)

(* A session expires, or the account's sessions are revoked, with or       *)
(* without the right to log in again.                                      *)
EndSessions ==
    /\ live # {}
    /\ \E s \in live : live' \in {{}, live \ {s}}
    /\ allowed' \in BOOLEAN
    /\ ended' = [c \in Calls |-> ended[c] \/ call[c].retry]
    /\ UNCHANGED <<loggedIn, authMu, jar, call>>

AccountRestored ==
    /\ ~allowed
    /\ allowed' = TRUE
    /\ UNCHANGED <<loggedIn, authMu, jar, live, call, ended>>

(* One step of call c up to the handler.                                   *)
ClientStep(c) ==
    \/ ensureAuthenticated(c)
    \/ handleLogin(c) \/ loginRefused(c) \/ loginReturns(c)
    \/ doGet(c) \/ requireAuth(c) \/ unauthorized(c) \/ reset(c)

=============================================================================
