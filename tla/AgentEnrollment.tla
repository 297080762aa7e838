--------------------------- MODULE AgentEnrollment ---------------------------
(***************************************************************************)
(* How an agent process obtains, proves and loses the credential of one    *)
(* cluster name: the hub's POST /api/v1/agents/register handler, the       *)
(* operator's create, approve and delete handlers and the rotation of the  *)
(* registration token (internal/server), with the agent's registration and *)
(* heartbeat loop (cmd/agent, internal/agent/registrar).                   *)
(*                                                                         *)
(* The hub runs handlers concurrently over a store with one connection, so *)
(* every store call is one atomic step and any other step may fall between *)
(* two of them.  A handler occupies a slot; the agent that sent the        *)
(* request may stop waiting for it, and the handler then runs on.          *)
(*                                                                         *)
(* Names are unique per tenant and never interact, so one name in one      *)
(* tenant is modelled.  Its row in "clusters" is the id of the incarnation *)
(* (0: no row), its row in "agents" the token and the approval (token 0:   *)
(* no row).  Tokens are the natural numbers 1, 2, ... in minting order and *)
(* issuedTo[t] remembers for whom t was minted.                            *)
(***************************************************************************)
EXTENDS Naturals, Sequences, FiniteSets

CONSTANTS
    Procs,          \* agent processes configured with this name; a restarted
                    \* pod is another process, because tokens live in memory
    Operator,       \* the human behind POST /api/v1/clusters
    Slots,          \* handler goroutines the hub can have in flight
    StaticToken,    \* is KFLEET_REGISTRATION_TOKEN configured?
    ByHand,         \* do operators also register this name themselves?
    MaxIds,         \* bound: incarnations of the cluster name
    MaxTokens,      \* bound: agent tokens minted
    MaxFaults,      \* bound: timeouts, handler failures and hub restarts
    MaxRotations,   \* bound: registration token rotations
    MaxRemovals     \* bound: cluster deletions

ASSUME ConstantsAssumption ==
    /\ Operator \notin Procs
    /\ {StaticToken, ByHand} \subseteq BOOLEAN
    /\ {MaxIds, MaxTokens, MaxFaults, MaxRotations, MaxRemovals} \subseteq Nat

VARIABLES
    regHash,     \* settings row of the rotated registration token (0: never rotated)
    cluster,     \* id of the clusters row (0: none)
    agentRow,    \* [token, approved] of the agents row (token 0: none)
    ids,         \* cluster ids handed out so far
    issuedTo,    \* issuedTo[t]: the principal token t was minted for
    creator,     \* the principal whose request created the current clusters row
    req,         \* req[s]: the registration handler in slot s
    proc,        \* proc[p]: the agent process p
    approvals,   \* times agents.approved went from 0 to 1
    signals,     \* signals[p]: times Heartbeat told p to re-register
    faults,      \* faults so far
    removals     \* deletions so far

hubVars == <<regHash, cluster, agentRow, ids, issuedTo, creator>>
vars == <<regHash, cluster, agentRow, ids, issuedTo, creator, req, proc,
          approvals, signals, faults, removals>>

Principals == Procs \cup {Operator}
NoRow == [token |-> 0, approved |-> FALSE]

(* The store calls a handler still has to make, in the order of the code.  *)
StoreCalls == {"auth", "find", "create", "validate", "issue", "approve", "readApproval"}
Outcomes == {"none", "ok", "pending", "conflict", "unauthorized", "error"}

Request == [pc : StoreCalls \cup {"idle", "respond"}, by : Principals, gen : Nat,
            existing : Nat, id : Nat, token : Nat, outcome : Outcomes]
Idle == [pc |-> "idle", by |-> Operator, gen |-> 0, existing |-> 0, id |-> 0,
         token |-> 0, outcome |-> "none"]

(* "await" waits for the response in slot; "backoff" sleeps before the next *)
(* registration; "run" is runAgentLoop.                                     *)
Process == [pc : {"new", "register", "await", "run", "backoff", "dead"}, gen : Nat,
            token : Nat, approved : BOOLEAN, slot : Slots \cup {0}]
NewProcess == [pc |-> "new", gen |-> 0, token |-> 0, approved |-> FALSE, slot |-> 0]

TypeOK ==
    /\ regHash \in Nat
    /\ ids \in Nat
    /\ cluster \in 0..ids
    /\ agentRow \in [token : 0..Len(issuedTo), approved : BOOLEAN]
    /\ cluster = 0 => agentRow = NoRow      \* the foreign key of agents
    /\ issuedTo \in Seq(Principals)
    /\ creator \in Principals
    /\ req \in [Slots -> Request]
    /\ proc \in [Procs -> Process]
    /\ approvals \in Nat
    /\ signals \in [Procs -> Nat]
    /\ faults \in Nat
    /\ removals \in Nat

Init ==
    /\ regHash = 0
    /\ cluster = 0
    /\ agentRow = NoRow
    /\ ids = 0
    /\ issuedTo = << >>
    /\ creator = Operator
    /\ req = [s \in Slots |-> Idle]
    /\ proc = [p \in Procs |-> NewProcess]
    /\ approvals = 0
    /\ signals = [p \in Procs |-> 0]
    /\ faults = 0
    /\ removals = 0

-----------------------------------------------------------------------------
(* What the handlers read from the store.                                  *)

(* ValidateAgentToken finds a row: the token is the current one of id.     *)
ValidateAgentToken(id, token) ==
    /\ id # 0
    /\ cluster = id
    /\ token # 0
    /\ agentRow.token = token

(* A presented registration token of generation gen is the credential.     *)
RegistrationOK(gen) ==
    IF regHash # 0 THEN gen = regHash ELSE StaticToken /\ gen = 0

(* Handler s moves on to its next store call, or to its response.          *)
GoTo(s, pc) == req' = [req EXCEPT ![s].pc = pc]
Respond(s, outcome) == req' = [req EXCEPT ![s].pc = "respond", ![s].outcome = outcome]

-----------------------------------------------------------------------------
(* The registration handler, one action per store call.                    *)

checkRegistrationAuth(s) ==
    /\ req[s].pc = "auth"
    /\ IF RegistrationOK(req[s].gen) THEN GoTo(s, "find") ELSE Respond(s, "unauthorized")
    /\ UNCHANGED <<hubVars, proc, approvals, signals, faults, removals>>

findClusterByName(s) ==
    /\ req[s].pc = "find"
    /\ IF cluster = 0
         THEN GoTo(s, "create")
         ELSE req' = [req EXCEPT ![s].pc = "validate", ![s].id = cluster]
    /\ UNCHANGED <<hubVars, proc, approvals, signals, faults, removals>>

(* UNIQUE(tenant_id, name): a row inserted since the lookup fails the      *)
(* insert, which the handler answers with an error.                        *)
CreateCluster(s) ==
    /\ req[s].pc = "create"
    /\ IF cluster = 0
         THEN /\ ids < MaxIds
              /\ ids' = ids + 1
              /\ cluster' = ids + 1
              /\ creator' = req[s].by
              /\ req' = [req EXCEPT ![s].pc = "issue", ![s].id = ids + 1]
         ELSE /\ Respond(s, "error")
              /\ UNCHANGED <<ids, cluster, creator>>
    /\ UNCHANGED <<regHash, agentRow, issuedTo, proc, approvals, signals, faults, removals>>

(* Mutant: the shared registration token alone re-registers a name.        *)
validExistingAgentToken_NoProof(s) ==
    /\ req[s].pc = "validate"
    /\ GoTo(s, "issue")
    /\ UNCHANGED <<hubVars, proc, approvals, signals, faults, removals>>

validExistingAgentToken(s) ==
    /\ req[s].pc = "validate"
    /\ IF ValidateAgentToken(req[s].id, req[s].existing)
         THEN GoTo(s, "issue")
         ELSE Respond(s, "conflict")
    /\ UNCHANGED <<hubVars, proc, approvals, signals, faults, removals>>

(* Mutant: ON CONFLICT also takes approved from the inserted row.          *)
upsertToken_ResetsApproval(token) == [token |-> token, approved |-> FALSE]

(* INSERT ... ON CONFLICT(cluster_id) DO UPDATE: a new row is not approved *)
(* (NoRow is not), an existing one keeps its approval.                     *)
upsertToken(token) == [agentRow EXCEPT !.token = token]

(* generateToken and the upsert; without a clusters row of that id it      *)
(* affects no row, which is an error.                                      *)
IssueAgentToken(s) ==
    /\ req[s].pc = "issue"
    /\ IF cluster = req[s].id
         THEN /\ Len(issuedTo) < MaxTokens
              /\ issuedTo' = Append(issuedTo, req[s].by)
              /\ agentRow' = upsertToken(Len(issuedTo) + 1)
              /\ req' = [req EXCEPT
                    ![s].pc = IF req[s].by = Operator THEN "approve" ELSE "readApproval",
                    ![s].token = Len(issuedTo) + 1]
         ELSE /\ Respond(s, "error")
              /\ UNCHANGED <<issuedTo, agentRow>>
    /\ UNCHANGED <<regHash, cluster, ids, creator, proc, approvals, signals, faults, removals>>

(* The handler reads the approval of the token it has just issued; another *)
(* registration may have replaced that token, or an operator deleted it.   *)
readApproval(s) ==
    /\ req[s].pc = "readApproval"
    /\ Respond(s, IF ~ValidateAgentToken(req[s].id, req[s].token) THEN "error"
                  ELSE IF agentRow.approved THEN "ok" ELSE "pending")
    /\ UNCHANGED <<hubVars, proc, approvals, signals, faults, removals>>

(* UPDATE agents SET approved = 1 WHERE cluster_id = id.                   *)
ApproveAgent(id) ==
    /\ cluster = id
    /\ agentRow.token # 0
    /\ agentRow' = [agentRow EXCEPT !.approved = TRUE]
    /\ approvals' = IF agentRow.approved THEN approvals ELSE approvals + 1

(* handleRegisterCluster approves the agent it has just created.           *)
approveOperatorCluster(s) ==
    /\ req[s].pc = "approve"
    /\ \/ ApproveAgent(req[s].id) /\ Respond(s, "ok")
       \/ /\ cluster # req[s].id \/ agentRow.token = 0
          /\ Respond(s, "error")
          /\ UNCHANGED <<agentRow, approvals>>
    /\ UNCHANGED <<regHash, cluster, ids, issuedTo, creator, proc, signals, faults, removals>>

(* Mutant: the approval is read from the body, which does not carry it.    *)
Received_ApprovedFromBody(p, r) ==
    IF r.outcome \in {"ok", "pending"}
    THEN [proc[p] EXCEPT !.pc = "run", !.slot = 0, !.token = r.token, !.approved = FALSE]
    ELSE [proc[p] EXCEPT !.pc = "backoff", !.slot = 0]

(* What Register does with the response, if its caller still waits for it. *)
Received(p, r) ==
    IF r.outcome \in {"ok", "pending"}
    THEN [proc[p] EXCEPT !.pc = "run", !.slot = 0, !.token = r.token,
                         !.approved = (r.outcome = "ok")]
    ELSE [proc[p] EXCEPT !.pc = "backoff", !.slot = 0]

Awaits(p, s) == proc[p].pc = "await" /\ proc[p].slot = s

writeResponse(s) ==
    /\ req[s].pc = "respond"
    /\ proc' = [p \in Procs |-> IF Awaits(p, s) THEN Received(p, req[s]) ELSE proc[p]]
    /\ req' = [req EXCEPT ![s] = Idle]
    /\ UNCHANGED <<hubVars, approvals, signals, faults, removals>>

-----------------------------------------------------------------------------
(* The operator.                                                           *)

(* handleAgentApprove, by the id of a pending agent the operator was shown *)
(* (ListPendingAgents); an id that is gone answers 404.                    *)
handleAgentApprove ==
    /\ ~agentRow.approved
    /\ cluster # 0
    /\ ApproveAgent(cluster)
    /\ UNCHANGED <<regHash, cluster, ids, issuedTo, creator, req, proc, signals, faults, removals>>

(* handleRegisterCluster begins: it goes straight to the insert.           *)
handleRegisterCluster(s) ==
    /\ ByHand
    /\ req[s].pc = "idle"
    /\ req' = [req EXCEPT ![s] = [Idle EXCEPT !.pc = "create"]]
    /\ ids < MaxIds
    /\ UNCHANGED <<hubVars, proc, approvals, signals, faults, removals>>

(* Mutant: foreign keys are not enforced, the agents row is left behind.   *)
handleDeleteCluster_NoCascade ==
    /\ cluster # 0
    /\ removals < MaxRemovals
    /\ cluster' = 0
    /\ removals' = removals + 1
    /\ UNCHANGED <<regHash, agentRow, ids, issuedTo, creator, req, proc, approvals, signals, faults>>

(* Mutant: the agent is deleted but the name stays taken.                  *)
handleDeleteCluster_KeepsName ==
    /\ cluster # 0
    /\ removals < MaxRemovals
    /\ agentRow' = NoRow
    /\ removals' = removals + 1
    /\ UNCHANGED <<regHash, cluster, ids, issuedTo, creator, req, proc, approvals, signals, faults>>

(* DeleteCluster; the agents row goes with it (ON DELETE CASCADE).         *)
handleDeleteCluster ==
    /\ cluster # 0
    /\ removals < MaxRemovals
    /\ cluster' = 0
    /\ agentRow' = NoRow
    /\ removals' = removals + 1
    /\ UNCHANGED <<regHash, ids, issuedTo, creator, req, proc, approvals, signals, faults>>

handleRotateRegistrationToken ==
    /\ regHash < MaxRotations
    /\ regHash' = regHash + 1
    /\ UNCHANGED <<cluster, agentRow, ids, issuedTo, creator, req, proc, approvals, signals,
                   faults, removals>>

-----------------------------------------------------------------------------
(* The agent process.                                                      *)

(* A process is deployed with the registration token current at the time.  *)
Start(p) ==
    /\ proc[p].pc = "new"
    /\ proc' = [proc EXCEPT ![p].pc = "register", ![p].gen = regHash]
    /\ UNCHANGED <<hubVars, req, approvals, signals, faults, removals>>

(* Register sends the request; ExistingAgentToken is the per-agent token,  *)
(* once there is one.                                                      *)
Register(p, s) ==
    /\ proc[p].pc = "register"
    /\ req[s].pc = "idle"
    /\ proc' = [proc EXCEPT ![p].pc = "await", ![p].slot = s]
    /\ req' = [req EXCEPT ![s] = [Idle EXCEPT !.pc = "auth", !.by = p, !.gen = proc[p].gen,
                                              !.existing = proc[p].token]]
    /\ UNCHANGED <<hubVars, approvals, signals, faults, removals>>

waitForRetry(p) ==
    /\ proc[p].pc = "backoff"
    /\ proc' = [proc EXCEPT ![p].pc = "register"]
    /\ UNCHANGED <<hubVars, req, approvals, signals, faults, removals>>

(* Heartbeat, answered by handleAgentLiveness: a 401 and the news of the   *)
(* approval both leave runAgentLoop.  (What the handler writes to the      *)
(* clusters row is the subject of ClusterHealth.)                          *)
Heartbeat(p) ==
    /\ proc[p].pc = "run"
    /\ \/ /\ ~ValidateAgentToken(cluster, proc[p].token)
          /\ proc' = [proc EXCEPT ![p].pc = "backoff"]
          /\ UNCHANGED signals
       \/ /\ ValidateAgentToken(cluster, proc[p].token)
          /\ agentRow.approved /\ ~proc[p].approved
          /\ proc' = [proc EXCEPT ![p].pc = "backoff", ![p].approved = TRUE]
          /\ signals' = [signals EXCEPT ![p] = @ + 1]
    /\ UNCHANGED <<hubVars, req, approvals, faults, removals>>

(* The process ends; with it goes the only copy of its token.              *)
Stop(p) ==
    /\ proc[p].pc \notin {"new", "dead"}
    /\ proc' = [proc EXCEPT ![p] = [NewProcess EXCEPT !.pc = "dead"]]
    /\ UNCHANGED <<hubVars, req, approvals, signals, faults, removals>>

-----------------------------------------------------------------------------
(* Faults.                                                                 *)

Fault == faults < MaxFaults /\ faults' = faults + 1

(* The agent's HTTP client gives up; the handler runs on.                  *)
RequestTimesOut(p) ==
    /\ Fault
    /\ proc[p].pc = "await"
    /\ proc' = [proc EXCEPT ![p].pc = "backoff", ![p].slot = 0]
    /\ UNCHANGED <<hubVars, req, approvals, signals, removals>>

(* A heartbeat is lost, times out or meets a hub error.                    *)
HeartbeatFails(p) ==
    /\ Fault
    /\ proc[p].pc = "run"
    /\ proc' = [proc EXCEPT ![p].pc = "backoff"]
    /\ UNCHANGED <<hubVars, req, approvals, signals, removals>>

(* A store call fails, or its context is cancelled: the handler answers 500 *)
HandlerFails(s) ==
    /\ Fault
    /\ req[s].pc \in StoreCalls
    /\ Respond(s, "error")
    /\ UNCHANGED <<hubVars, proc, approvals, signals, removals>>

(* The hub stops and starts again: the store survives, the handlers do not. *)
HubRestart ==
    /\ Fault
    /\ req' = [s \in Slots |-> Idle]
    /\ proc' = [p \in Procs |-> IF proc[p].pc = "await"
                                THEN [proc[p] EXCEPT !.pc = "backoff", !.slot = 0]
                                ELSE proc[p]]
    /\ UNCHANGED <<hubVars, approvals, signals, removals>>

-----------------------------------------------------------------------------

Handler(s) ==
    \/ checkRegistrationAuth(s)
    \/ findClusterByName(s)
    \/ CreateCluster(s)
    \/ validExistingAgentToken(s)
    \/ IssueAgentToken(s)
    \/ readApproval(s)
    \/ approveOperatorCluster(s)
    \/ writeResponse(s)

Agent(p) ==
    \/ Start(p)
    \/ waitForRetry(p)
    \/ Heartbeat(p)
    \/ \E s \in Slots : Register(p, s)

Faulty ==
    \/ \E p \in Procs : RequestTimesOut(p) \/ HeartbeatFails(p)
    \/ \E s \in Slots : HandlerFails(s)
    \/ HubRestart

Next ==
    \/ \E s \in Slots : Handler(s) \/ handleRegisterCluster(s)
    \/ \E p \in Procs : Agent(p) \/ Stop(p)
    \/ handleAgentApprove
    \/ handleDeleteCluster
    \/ handleRotateRegistrationToken
    \/ Faulty

Spec == Init /\ [][Next]_vars

(* Go schedules every handler and every agent goroutine, each request ends  *)
(* or times out, the agent's timers fire, and operators work through the    *)
(* list of pending agents.  Nobody is obliged to start, stop, delete or     *)
(* rotate anything beyond that.                                             *)
Fairness ==
    /\ \A s \in Slots : WF_vars(Handler(s))
    /\ \A p \in Procs : WF_vars(Agent(p))
    /\ WF_vars(handleAgentApprove)

FairSpec == Spec /\ Fairness

(* The recovery docs/operations.md prescribes: an operator deletes the      *)
(* cluster of a name whose agent keeps being refused, and only then.        *)
Refused(p) ==
    /\ proc[p].pc \in {"backoff", "register"}
    /\ ~ValidateAgentToken(cluster, proc[p].token)

removeRefusedCluster == handleDeleteCluster /\ \E p \in Procs : Refused(p)

RecoveryNext ==
    \/ \E s \in Slots : Handler(s)
    \/ \E p \in Procs : Agent(p) \/ Stop(p)
    \/ handleAgentApprove
    \/ removeRefusedCluster
    \/ Faulty

RecoverySpec == Init /\ [][RecoveryNext]_vars /\ Fairness /\ SF_vars(removeRefusedCluster)

-----------------------------------------------------------------------------
(* Properties.                                                             *)

Up(p) == proc[p].pc \notin {"new", "dead"}

(* p holds the hub's current, approved credential.                         *)
Credentialed(p) ==
    /\ Up(p)
    /\ ValidateAgentToken(cluster, proc[p].token)
    /\ agentRow.approved

(* ... has learnt of the approval, and is in the loop that uses it.        *)
Reporting(p) == Credentialed(p) /\ proc[p].approved /\ proc[p].pc = "run"

(* The credential of a cluster only ever belongs to the principal that     *)
(* created it: whatever registrations, retries, deletions and crashes      *)
(* interleave, holding the shared registration token never suffices to     *)
(* take over a registered cluster's identity (handleAgentRegister).        *)
NoTakeover ==
    cluster # 0 /\ agentRow.token # 0 => issuedTo[agentRow.token] = creator

(* Registrar.Heartbeat's signal to re-register fires at most once per      *)
(* approval transition, also when registrations fail or race an approval.  *)
SignalOncePerApproval ==
    \A p \in Procs : signals[p] <= approvals

(* Rotating the agent token never withdraws an operator's approval: only   *)
(* the deletion of the cluster does (IssueAgentToken's upsert).            *)
ApprovalSurvivesRotation ==
    [][cluster' = cluster /\ agentRow.approved => agentRow'.approved]_vars

(* From some point on every process reports with a current credential and  *)
(* knows it to be approved, unless it was stopped: no registration that is *)
(* lost, fails half done or races an approval keeps it out, and no approval *)
(* goes unannounced (run, runAgentLoop, Heartbeat).                        *)
EnrollmentCompletes ==
    \A p \in Procs : <>[](Reporting(p) \/ proc[p].pc = "dead")

(* docs/authentication.md, on the rotation of the registration token:      *)
(* agents that were approved and reporting continue to report normally.    *)
ReportersOutliveRotation ==
    \A p \in Procs :
        [](Reporting(p) => [](Credentialed(p) => <>(Reporting(p) \/ ~Credentialed(p))))

(* The registry of names this implements: the clusters row says who holds  *)
(* the name, the agents row which credential is valid.                     *)
Registry == INSTANCE NameRegistry WITH
    holder <- IF cluster = 0 THEN {} ELSE {creator},
    minted <- issuedTo,
    valid <- agentRow.token,
    approved <- agentRow.approved

(* However handlers interleave, time out, fail and are retried, what they  *)
(* do to a name is what one careful registry would do: every step claims   *)
(* it, renews the holder's credential, approves or releases it, or changes *)
(* nothing of that (handleAgentRegister, IssueAgentToken).                 *)
ImplementsRegistry == Registry!Spec
=============================================================================
