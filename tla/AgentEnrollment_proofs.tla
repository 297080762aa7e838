----------------------- MODULE AgentEnrollment_proofs -----------------------
(***************************************************************************)
(* Theorems about AgentEnrollment, for any number of agent processes and   *)
(* handler slots and any bounds.                                           *)
(***************************************************************************)
EXTENDS AgentEnrollment, TLAPS

(* NoTakeover is not inductive: a handler that has passed its checks but   *)
(* not yet issued a token is about to change the row.  The strengthening   *)
(* says whose every token in flight is.                                    *)

(* A process only holds tokens that were minted for it.                    *)
HoldsOwn ==
    \A p \in Procs : proc[p].token # 0 =>
        /\ proc[p].token \in 1..Len(issuedTo)
        /\ issuedTo[proc[p].token] = p

(* So does a request on its behalf, for the proof it presents and for the  *)
(* token its response will carry; and its cluster id is not a future one.  *)
RequestsOwn ==
    \A s \in Slots :
        /\ req[s].id <= ids
        /\ req[s].existing # 0 =>
               /\ req[s].existing \in 1..Len(issuedTo)
               /\ issuedTo[req[s].existing] = req[s].by
        /\ req[s].token # 0 =>
               /\ req[s].token \in 1..Len(issuedTo)
               /\ issuedTo[req[s].token] = req[s].by

(* A handler about to issue a token names a cluster, and if it is the      *)
(* present one, acts for its creator.                                      *)
IssuersCreated ==
    \A s \in Slots :
        req[s].pc = "issue" =>
            /\ req[s].id # 0
            /\ req[s].id = cluster => req[s].by = creator

(* The response a process waits for is to its own request.                 *)
AwaitsOwn ==
    \A p \in Procs, s \in Slots :
        Awaits(p, s) => req[s].pc # "idle" /\ req[s].by = p

OwnershipInv ==
    /\ TypeOK
    /\ HoldsOwn
    /\ RequestsOwn
    /\ IssuersCreated
    /\ AwaitsOwn
    /\ NoTakeover

(* SignalOncePerApproval is not inductive either: it does not say that p   *)
(* has not had its signal for an approval it has yet to hear of.  It has   *)
(* yet to hear of it while it holds the current token unapproved, or waits *)
(* for a response that will give it that token as a pending one.           *)
BringsPending(s) ==
    req[s].pc = "respond" /\ req[s].outcome = "pending" /\ req[s].token = agentRow.token

Unsignalled(p) ==
    /\ agentRow.token # 0
    /\ \/ proc[p].token = agentRow.token /\ ~proc[p].approved
       \/ \E s \in Slots : Awaits(p, s) /\ BringsPending(s)

SignalsInv ==
    \A p \in Procs :
        /\ signals[p] <= approvals
        /\ agentRow.approved /\ Unsignalled(p) => signals[p] < approvals

-----------------------------------------------------------------------------

(* An empty store, idle handlers and fresh processes own nothing.          *)
LEMMA OwnershipInit == Init => OwnershipInv
<1> SUFFICES ASSUME Init PROVE OwnershipInv
  OBVIOUS
<1> USE DEF Init
<1>1. TypeOK
  <2>1. \A s \in Slots : req[s] \in Request
    BY DEF Request, Idle, Principals, StoreCalls, Outcomes
  <2>2. \A p \in Procs : proc[p] \in Process
    BY DEF Process, NewProcess
  <2>3. agentRow \in [token : 0..Len(issuedTo), approved : BOOLEAN]
    BY DEF NoRow
  <2> QED
    BY <2>1, <2>2, <2>3 DEF TypeOK, Principals
<1>2. HoldsOwn
  BY DEF HoldsOwn, NewProcess
<1>3. RequestsOwn
  BY DEF RequestsOwn, Idle
<1>4. IssuersCreated
  BY DEF IssuersCreated, Idle
<1>5. AwaitsOwn
  BY DEF AwaitsOwn, Awaits, NewProcess
<1>6. NoTakeover
  BY DEF NoTakeover
<1> QED
  BY <1>1, <1>2, <1>3, <1>4, <1>5, <1>6 DEF OwnershipInv

(* A step that only moves handlers forward keeps the invariant: they keep  *)
(* whom they act for and what they carry, and get to "issue" only with the *)
(* current token in hand.                                                  *)
LEMMA HandlersMove ==
    ASSUME OwnershipInv, TypeOK',
           UNCHANGED <<cluster, ids, issuedTo, creator, proc>>,
           agentRow'.token = agentRow.token,
           \A t \in Slots :
               /\ req'[t].by = req[t].by
               /\ req'[t].existing = req[t].existing
               /\ req'[t].token = req[t].token
               /\ req'[t].id \in {req[t].id, cluster}
               /\ req'[t].pc = "idle" => req[t].pc = "idle"
               /\ req'[t].pc = "issue" =>
                      /\ req'[t].id = req[t].id
                      /\ \/ req[t].pc = "issue"
                         \/ ValidateAgentToken(req[t].id, req[t].existing)
    PROVE  OwnershipInv'
<1>1. HoldsOwn'
  BY DEF OwnershipInv, HoldsOwn
<1>2. RequestsOwn'
  <2>1. cluster \in Nat /\ ids \in Nat /\ cluster <= ids
    BY DEF OwnershipInv, TypeOK
  <2> QED
    BY <2>1 DEF OwnershipInv, RequestsOwn
<1>3. IssuersCreated'
  <2> SUFFICES ASSUME NEW t \in Slots, req'[t].pc = "issue"
               PROVE  /\ req'[t].id # 0
                      /\ req'[t].id = cluster => req'[t].by = creator
    BY DEF IssuersCreated
  <2>1. CASE req[t].pc = "issue"
    BY <2>1 DEF OwnershipInv, IssuersCreated
  <2>2. CASE ValidateAgentToken(req[t].id, req[t].existing)
    BY <2>2 DEF OwnershipInv, ValidateAgentToken, NoTakeover, RequestsOwn
  <2> QED
    BY <2>1, <2>2
<1>4. AwaitsOwn'
  <2>1. \A t \in Slots, p \in Procs : Awaits(p, t)' <=> Awaits(p, t)
    BY DEF Awaits
  <2> QED
    BY <2>1 DEF OwnershipInv, AwaitsOwn
<1>5. NoTakeover'
  BY DEF OwnershipInv, NoTakeover
<1> QED
  BY <1>1, <1>2, <1>3, <1>4, <1>5 DEF OwnershipInv

(* So does a step of agent processes in which none gains a token or starts *)
(* to wait for a response.                                                 *)
LEMMA ProcessesMove ==
    ASSUME OwnershipInv, TypeOK',
           UNCHANGED <<cluster, agentRow, ids, issuedTo, creator, req>>,
           \A p \in Procs : /\ proc'[p].token \in {0, proc[p].token}
                            /\ proc'[p].pc = "await" => proc'[p] = proc[p]
    PROVE  OwnershipInv'
<1>1. HoldsOwn'
  BY DEF OwnershipInv, HoldsOwn
<1>2. RequestsOwn'
  BY DEF OwnershipInv, RequestsOwn
<1>3. IssuersCreated'
  BY DEF OwnershipInv, IssuersCreated
<1>4. AwaitsOwn'
  <2>1. \A t \in Slots, p \in Procs : Awaits(p, t)' => Awaits(p, t)
    BY DEF Awaits
  <2> QED
    BY <2>1 DEF OwnershipInv, AwaitsOwn
<1>5. NoTakeover'
  BY DEF OwnershipInv, NoTakeover
<1> QED
  BY <1>1, <1>2, <1>3, <1>4, <1>5 DEF OwnershipInv

-----------------------------------------------------------------------------
PCs == StoreCalls \cup {"idle", "respond"}

(* What GoTo does to the fields of a request.                              *)
LEMMA GoToFacts ==
    ASSUME NEW s \in Slots, NEW pc \in PCs, req \in [Slots -> Request], GoTo(s, pc)
    PROVE  /\ req' \in [Slots -> Request]
           /\ \A t \in Slots : t # s => req'[t] = req[t]
           /\ req'[s].pc = pc /\ req'[s].by = req[s].by /\ req'[s].existing = req[s].existing
           /\ req'[s].id = req[s].id /\ req'[s].token = req[s].token
BY DEF GoTo, Request, PCs

(* The same for a response.                                                *)
LEMMA RespondFacts ==
    ASSUME NEW s \in Slots, NEW o \in Outcomes, req \in [Slots -> Request], Respond(s, o)
    PROVE  /\ req' \in [Slots -> Request]
           /\ \A t \in Slots : t # s => req'[t] = req[t]
           /\ req'[s].pc = "respond" /\ req'[s].by = req[s].by
           /\ req'[s].existing = req[s].existing
           /\ req'[s].id = req[s].id /\ req'[s].token = req[s].token
BY DEF Respond, Request, PCs

(* Updates of a request that also learn a cluster id or a token.           *)
LEMMA LearnIdTyped ==
    ASSUME NEW s \in Slots, NEW pc \in PCs, NEW id \in Nat, req \in [Slots -> Request],
           req' = [req EXCEPT ![s].pc = pc, ![s].id = id]
    PROVE  req' \in [Slots -> Request]
BY ZenonT(30) DEF Request, PCs

(* The same for a token.                                                   *)
LEMMA LearnTokenTyped ==
    ASSUME NEW s \in Slots, NEW pc \in PCs, NEW token \in Nat, req \in [Slots -> Request],
           req' = [req EXCEPT ![s].pc = pc, ![s].token = token]
    PROVE  req' \in [Slots -> Request]
BY ZenonT(30) DEF Request, PCs

(* A handler that only responds keeps the invariant.                       *)
LEMMA RespondStep ==
    ASSUME NEW s \in Slots, NEW o \in Outcomes, OwnershipInv, Respond(s, o),
           UNCHANGED <<hubVars, proc, approvals, signals, removals>>, faults' \in Nat
    PROVE  OwnershipInv'
<1>1. /\ req' \in [Slots -> Request]
      /\ \A t \in Slots : t # s => req'[t] = req[t]
      /\ req'[s].pc = "respond" /\ req'[s].by = req[s].by
      /\ req'[s].existing = req[s].existing
      /\ req'[s].id = req[s].id /\ req'[s].token = req[s].token
  BY RespondFacts DEF OwnershipInv, TypeOK
<1>2. TypeOK'
  BY <1>1 DEF OwnershipInv, TypeOK, hubVars
<1> QED
  BY <1>1, <1>2, HandlersMove DEF hubVars

(* checkRegistrationAuth moves its handler on or answers 401.              *)
LEMMA checkRegistrationAuthStep ==
    ASSUME NEW s \in Slots, OwnershipInv, checkRegistrationAuth(s) PROVE OwnershipInv'
<1>1. req \in [Slots -> Request] /\ faults \in Nat
  BY DEF OwnershipInv, TypeOK
<1>2. UNCHANGED <<hubVars, proc, approvals, signals, faults, removals>>
  BY DEF checkRegistrationAuth
<1>3. CASE GoTo(s, "find")
  <2>1. /\ req' \in [Slots -> Request]
        /\ \A t \in Slots : t # s => req'[t] = req[t]
        /\ req'[s].pc = "find" /\ req'[s].by = req[s].by
        /\ req'[s].existing = req[s].existing
        /\ req'[s].id = req[s].id /\ req'[s].token = req[s].token
    BY <1>1, <1>3, GoToFacts DEF PCs, StoreCalls
  <2>2. TypeOK'
    BY <1>2, <2>1 DEF OwnershipInv, TypeOK, hubVars
  <2> QED
    BY <1>2, <2>1, <2>2, HandlersMove DEF hubVars
<1>4. CASE Respond(s, "unauthorized")
  BY <1>1, <1>2, <1>4, RespondStep DEF Outcomes
<1> QED
  BY <1>3, <1>4 DEF checkRegistrationAuth

(* findClusterByName only tells its handler which cluster it is about.     *)
LEMMA findClusterByNameStep ==
    ASSUME NEW s \in Slots, OwnershipInv, findClusterByName(s) PROVE OwnershipInv'
<1>1. req \in [Slots -> Request] /\ cluster \in Nat
  BY DEF OwnershipInv, TypeOK
<1>2. /\ req' \in [Slots -> Request]
      /\ \A t \in Slots : t # s => req'[t] = req[t]
      /\ req'[s].pc \in {"create", "validate"} /\ req'[s].by = req[s].by
      /\ req'[s].existing = req[s].existing
      /\ req'[s].id \in {req[s].id, cluster} /\ req'[s].token = req[s].token
  <2>1. CASE GoTo(s, "create")
    BY <1>1, <2>1, GoToFacts DEF PCs, StoreCalls
  <2>2. CASE req' = [req EXCEPT ![s].pc = "validate", ![s].id = cluster]
    BY <1>1, <2>2 DEF Request, StoreCalls
  <2> QED
    BY <2>1, <2>2 DEF findClusterByName
<1>3. UNCHANGED <<hubVars, proc, approvals, signals, faults, removals>>
  BY DEF findClusterByName
<1>4. TypeOK'
  BY <1>2, <1>3 DEF OwnershipInv, TypeOK, hubVars
<1> QED
  BY <1>2, <1>3, <1>4, HandlersMove DEF hubVars

(* CreateCluster makes its caller the creator of a new, unused id.         *)
LEMMA CreateClusterStep ==
    ASSUME NEW s \in Slots, OwnershipInv, CreateCluster(s) PROVE OwnershipInv'
<1>1. /\ req \in [Slots -> Request] /\ ids \in Nat /\ cluster \in Nat /\ cluster <= ids
      /\ faults \in Nat /\ req[s].by \in Principals
  BY DEF OwnershipInv, TypeOK, Request
<1>2. CASE cluster = 0
  <2>1. /\ req' = [req EXCEPT ![s].pc = "issue", ![s].id = ids + 1]
        /\ ids' = ids + 1 /\ cluster' = ids + 1 /\ creator' = req[s].by
        /\ UNCHANGED <<regHash, agentRow, issuedTo, proc, approvals, signals, faults, removals>>
    BY <1>2 DEF CreateCluster
  <2>2. req' \in [Slots -> Request]
    <3>1. ids + 1 \in Nat /\ "issue" \in PCs
      BY <1>1 DEF PCs, StoreCalls
    <3> QED
      BY <1>1, <2>1, <3>1, LearnIdTyped
  <2>3. /\ \A t \in Slots : t # s => req'[t] = req[t]
        /\ req'[s].pc = "issue" /\ req'[s].by = req[s].by
        /\ req'[s].existing = req[s].existing
        /\ req'[s].id = ids + 1 /\ req'[s].token = req[s].token
    BY <1>1, <2>1 DEF Request
  <2>4. agentRow = NoRow /\ agentRow.token = 0
    BY <1>2 DEF OwnershipInv, TypeOK, NoRow
  <2>5. TypeOK'
    BY <1>1, <2>1, <2>2 DEF OwnershipInv, TypeOK
  <2>6. HoldsOwn'
    BY <2>1 DEF OwnershipInv, HoldsOwn
  <2>7. RequestsOwn'
    BY <1>1, <2>1, <2>3 DEF OwnershipInv, RequestsOwn, Request
  <2>8. IssuersCreated'
    BY <1>1, <2>1, <2>3 DEF OwnershipInv, IssuersCreated, RequestsOwn, Request
  <2>9. AwaitsOwn'
    <3>1. \A t \in Slots, p \in Procs : Awaits(p, t)' <=> Awaits(p, t)
      BY <2>1 DEF Awaits
    <3> QED
      BY <2>3, <3>1 DEF OwnershipInv, AwaitsOwn
  <2>10. NoTakeover'
    BY <2>1, <2>4 DEF NoTakeover
  <2> QED
    BY <2>5, <2>6, <2>7, <2>8, <2>9, <2>10 DEF OwnershipInv
<1>3. CASE cluster # 0
  <2>1. /\ Respond(s, "error")
        /\ UNCHANGED <<hubVars, proc, approvals, signals, faults, removals>>
    BY <1>3 DEF CreateCluster, hubVars
  <2> QED
    BY <1>1, <2>1, RespondStep DEF Outcomes
<1> QED
  BY <1>2, <1>3

(* validExistingAgentToken lets only the holder of the current token on.   *)
LEMMA validExistingAgentTokenStep ==
    ASSUME NEW s \in Slots, OwnershipInv, validExistingAgentToken(s) PROVE OwnershipInv'
<1>1. req \in [Slots -> Request] /\ faults \in Nat
  BY DEF OwnershipInv, TypeOK
<1>2. UNCHANGED <<hubVars, proc, approvals, signals, faults, removals>>
  BY DEF validExistingAgentToken
<1>3. CASE ValidateAgentToken(req[s].id, req[s].existing)
  <2>1. GoTo(s, "issue")
    BY <1>3 DEF validExistingAgentToken
  <2>2. /\ req' \in [Slots -> Request]
        /\ \A t \in Slots : t # s => req'[t] = req[t]
        /\ req'[s].pc = "issue" /\ req'[s].by = req[s].by
        /\ req'[s].existing = req[s].existing
        /\ req'[s].id = req[s].id /\ req'[s].token = req[s].token
    BY <1>1, <2>1, GoToFacts DEF PCs, StoreCalls
  <2>3. TypeOK'
    BY <1>2, <2>2 DEF OwnershipInv, TypeOK, hubVars
  <2> QED
    BY <1>2, <1>3, <2>2, <2>3, HandlersMove DEF hubVars
<1>4. CASE ~ValidateAgentToken(req[s].id, req[s].existing)
  <2>1. Respond(s, "conflict")
    BY <1>4 DEF validExistingAgentToken
  <2> QED
    BY <1>1, <1>2, <2>1, RespondStep DEF Outcomes
<1> QED
  BY <1>3, <1>4

(* IssueAgentToken mints the row's token for the creator of the cluster.   *)
LEMMA IssueAgentTokenStep ==
    ASSUME NEW s \in Slots, OwnershipInv, IssueAgentToken(s) PROVE OwnershipInv'
<1>1. /\ req \in [Slots -> Request] /\ req[s].by \in Principals
      /\ issuedTo \in Seq(Principals) /\ req[s].pc = "issue"
      /\ faults \in Nat /\ agentRow \in [token : 0..Len(issuedTo), approved : BOOLEAN]
  BY DEF OwnershipInv, TypeOK, Request, IssueAgentToken
<1>2. CASE cluster = req[s].id
  <2> DEFINE tok == Len(issuedTo) + 1
  <2>1. /\ issuedTo' = Append(issuedTo, req[s].by)
        /\ agentRow' = [agentRow EXCEPT !.token = tok]
        /\ UNCHANGED <<regHash, cluster, ids, creator, proc, approvals, signals, faults, removals>>
        /\ req' = [req EXCEPT
              ![s].pc = IF req[s].by = Operator THEN "approve" ELSE "readApproval",
              ![s].token = tok]
    BY <1>2 DEF IssueAgentToken, upsertToken
  <2>2. /\ issuedTo' \in Seq(Principals)
        /\ Len(issuedTo') = tok
        /\ tok \in Nat \ {0}
        /\ issuedTo'[tok] = req[s].by
        /\ \A n \in 1..Len(issuedTo) : n \in 1..tok /\ issuedTo'[n] = issuedTo[n]
    BY <1>1, <2>1
  <2>3. agentRow'.token = tok /\ agentRow' \in [token : 0..tok, approved : BOOLEAN]
    BY <1>1, <2>1, <2>2
  <2>4. cluster # 0 /\ req[s].by = creator
    BY <1>1, <1>2 DEF OwnershipInv, IssuersCreated
  <2>5. req' \in [Slots -> Request]
    <3> DEFINE pc == IF req[s].by = Operator THEN "approve" ELSE "readApproval"
    <3>1. pc \in PCs /\ tok \in Nat
      BY <2>2 DEF PCs, StoreCalls
    <3>2. req' = [req EXCEPT ![s].pc = pc, ![s].token = tok]
      BY <2>1
    <3> HIDE DEF pc, tok
    <3> QED
      BY <1>1, <3>1, <3>2, LearnTokenTyped
  <2>6. /\ \A t \in Slots : t # s => req'[t] = req[t]
        /\ req'[s].by = req[s].by /\ req'[s].existing = req[s].existing
        /\ req'[s].token = tok /\ req'[s].id = req[s].id
        /\ req'[s].pc # "issue" /\ req'[s].pc # "idle"
    BY <1>1, <2>1 DEF Request
  <2>7. TypeOK'
    BY <2>1, <2>2, <2>3, <2>4, <2>5 DEF OwnershipInv, TypeOK
  <2>8. HoldsOwn'
    BY <2>1, <2>2 DEF OwnershipInv, HoldsOwn
  <2>9. RequestsOwn'
    <3> SUFFICES ASSUME NEW t \in Slots
                 PROVE  /\ req'[t].id <= ids'
                        /\ req'[t].existing # 0 =>
                               /\ req'[t].existing \in 1..Len(issuedTo')
                               /\ issuedTo'[req'[t].existing] = req'[t].by
                        /\ req'[t].token # 0 =>
                               /\ req'[t].token \in 1..Len(issuedTo')
                               /\ issuedTo'[req'[t].token] = req'[t].by
      BY DEF RequestsOwn
    <3>1. /\ req[t].id <= ids
          /\ req[t].existing # 0 =>
                 /\ req[t].existing \in 1..Len(issuedTo)
                 /\ issuedTo[req[t].existing] = req[t].by
          /\ req[t].token # 0 =>
                 /\ req[t].token \in 1..Len(issuedTo)
                 /\ issuedTo[req[t].token] = req[t].by
      BY DEF OwnershipInv, RequestsOwn
    <3>2. CASE t = s
      BY <2>1, <2>2, <2>6, <3>1, <3>2
    <3>3. CASE t # s
      BY <2>1, <2>2, <2>6, <3>1, <3>3
    <3> QED
      BY <3>2, <3>3
  <2>10. IssuersCreated'
    BY <2>1, <2>6 DEF OwnershipInv, IssuersCreated
  <2>11. AwaitsOwn'
    <3>1. \A t \in Slots, p \in Procs : Awaits(p, t)' <=> Awaits(p, t)
      BY <2>1 DEF Awaits
    <3> QED
      BY <2>6, <3>1 DEF OwnershipInv, AwaitsOwn
  <2>12. NoTakeover'
    BY <2>1, <2>2, <2>3, <2>4 DEF NoTakeover
  <2> QED
    BY <2>7, <2>8, <2>9, <2>10, <2>11, <2>12 DEF OwnershipInv
<1>3. CASE cluster # req[s].id
  <2>1. /\ Respond(s, "error")
        /\ UNCHANGED <<hubVars, proc, approvals, signals, faults, removals>>
    BY <1>3 DEF IssueAgentToken, hubVars
  <2> QED
    BY <1>1, <2>1, RespondStep DEF Outcomes
<1> QED
  BY <1>2, <1>3

(* readApproval only chooses the answer.                                   *)
LEMMA readApprovalStep ==
    ASSUME NEW s \in Slots, OwnershipInv, readApproval(s) PROVE OwnershipInv'
<1> DEFINE o == IF ~ValidateAgentToken(req[s].id, req[s].token) THEN "error"
                ELSE IF agentRow.approved THEN "ok" ELSE "pending"
<1>1. faults \in Nat /\ o \in Outcomes
  BY DEF OwnershipInv, TypeOK, Outcomes
<1>2. Respond(s, o) /\ UNCHANGED <<hubVars, proc, approvals, signals, faults, removals>>
  BY DEF readApproval
<1> HIDE DEF o
<1> QED
  BY <1>1, <1>2, RespondStep

(* ApproveAgent leaves the token alone.                                    *)
LEMMA ApproveAgentFacts ==
    ASSUME OwnershipInv, NEW id, ApproveAgent(id), UNCHANGED <<cluster, issuedTo>>
    PROVE  /\ agentRow' \in [token : 0..Len(issuedTo), approved : BOOLEAN]
           /\ agentRow'.token = agentRow.token
           /\ cluster # 0
           /\ approvals' \in Nat
<1>1. /\ agentRow \in [token : 0..Len(issuedTo), approved : BOOLEAN]
      /\ approvals \in Nat
      /\ cluster = 0 => agentRow = NoRow
  BY DEF OwnershipInv, TypeOK
<1>2. cluster # 0
  BY <1>1 DEF ApproveAgent, NoRow
<1>3. agentRow' = [agentRow EXCEPT !.approved = TRUE]
  BY DEF ApproveAgent
<1>4. /\ agentRow' \in [token : 0..Len(issuedTo), approved : BOOLEAN]
      /\ agentRow'.token = agentRow.token
  BY <1>1, <1>3
<1>5. approvals' = approvals \/ approvals' = approvals + 1
  BY DEF ApproveAgent
<1> QED
  BY <1>1, <1>2, <1>4, <1>5

(* handleRegisterCluster's approval leaves the token alone.                *)
LEMMA approveOperatorClusterStep ==
    ASSUME NEW s \in Slots, OwnershipInv, approveOperatorCluster(s) PROVE OwnershipInv'
<1>1. req \in [Slots -> Request] /\ faults \in Nat /\ UNCHANGED <<cluster, issuedTo>>
  BY DEF OwnershipInv, TypeOK, approveOperatorCluster
<1>2. UNCHANGED <<regHash, cluster, ids, issuedTo, creator, proc, signals, faults, removals>>
  BY DEF approveOperatorCluster
<1>3. CASE ApproveAgent(req[s].id) /\ Respond(s, "ok")
  <2>1. /\ req' \in [Slots -> Request]
        /\ \A t \in Slots : t # s => req'[t] = req[t]
        /\ req'[s].pc = "respond" /\ req'[s].by = req[s].by
        /\ req'[s].existing = req[s].existing
        /\ req'[s].id = req[s].id /\ req'[s].token = req[s].token
    BY <1>1, <1>3, RespondFacts DEF Outcomes
  <2>2. /\ agentRow' \in [token : 0..Len(issuedTo), approved : BOOLEAN]
        /\ agentRow'.token = agentRow.token /\ cluster # 0 /\ approvals' \in Nat
    BY <1>1, <1>3, ApproveAgentFacts
  <2>3. TypeOK'
    BY <1>2, <2>1, <2>2 DEF OwnershipInv, TypeOK
  <2> QED
    BY <1>2, <2>1, <2>2, <2>3, HandlersMove
<1>4. CASE Respond(s, "error") /\ UNCHANGED <<agentRow, approvals>>
  BY <1>1, <1>2, <1>4, RespondStep DEF Outcomes, hubVars
<1> QED
  BY <1>3, <1>4 DEF approveOperatorCluster

(* So does an operator's.                                                  *)
LEMMA handleAgentApproveStep ==
    ASSUME OwnershipInv, handleAgentApprove PROVE OwnershipInv'
<1>1. UNCHANGED <<regHash, cluster, ids, issuedTo, creator, req, proc, signals, faults, removals>>
  BY DEF handleAgentApprove
<1>2. /\ agentRow' \in [token : 0..Len(issuedTo), approved : BOOLEAN]
      /\ agentRow'.token = agentRow.token /\ cluster # 0 /\ approvals' \in Nat
  BY <1>1, ApproveAgentFacts DEF handleAgentApprove
<1>3. TypeOK'
  BY <1>1, <1>2 DEF OwnershipInv, TypeOK
<1> QED
  BY <1>1, <1>2, <1>3, HandlersMove

(* The response hands a process the token minted for it.                   *)
LEMMA writeResponseStep ==
    ASSUME NEW s \in Slots, OwnershipInv, writeResponse(s) PROVE OwnershipInv'
<1>1. /\ req \in [Slots -> Request] /\ proc \in [Procs -> Process]
      /\ UNCHANGED <<hubVars, approvals, signals, faults, removals>>
      /\ req' = [req EXCEPT ![s] = Idle]
      /\ proc' = [p \in Procs |-> IF Awaits(p, s) THEN Received(p, req[s]) ELSE proc[p]]
  BY DEF OwnershipInv, TypeOK, writeResponse
<1>2. /\ \A t \in Slots : t # s => req'[t] = req[t]
      /\ req'[s] = Idle /\ Idle \in Request
  BY <1>1 DEF Idle, Request, Principals, Outcomes
<1>3. \A p \in Procs :
        /\ proc'[p] \in Process
        /\ proc'[p].token \in {proc[p].token, req[s].token}
        /\ Awaits(p, s) => proc'[p].pc # "await"
        /\ ~Awaits(p, s) => proc'[p] = proc[p]
  <2> SUFFICES ASSUME NEW p \in Procs
               PROVE  /\ proc'[p] \in Process
                      /\ proc'[p].token \in {proc[p].token, req[s].token}
                      /\ Awaits(p, s) => proc'[p].pc # "await"
                      /\ ~Awaits(p, s) => proc'[p] = proc[p]
    OBVIOUS
  <2>1. CASE ~Awaits(p, s)
    BY <1>1, <2>1
  <2>2. CASE Awaits(p, s)
    <3>1. /\ proc'[p] = Received(p, req[s]) /\ proc[p] \in Process /\ req[s] \in Request
          /\ req[s].token \in Nat
      BY <1>1, <2>2 DEF Request
    <3>2. CASE req[s].outcome \in {"ok", "pending"}
      <4> DEFINE a == (req[s].outcome = "ok")
      <4>1. proc'[p] = [proc[p] EXCEPT !.pc = "run", !.slot = 0, !.token = req[s].token,
                                       !.approved = a]
        BY <3>1, <3>2 DEF Received
      <4>2. a \in BOOLEAN
        OBVIOUS
      <4> HIDE DEF a
      <4> QED
        BY <2>2, <3>1, <4>1, <4>2 DEF Process
    <3>3. CASE req[s].outcome \notin {"ok", "pending"}
      <4>1. proc'[p] = [proc[p] EXCEPT !.pc = "backoff", !.slot = 0]
        BY <3>1, <3>3 DEF Received
      <4> QED
        BY <2>2, <3>1, <4>1 DEF Process
    <3> QED
      BY <3>2, <3>3
  <2> QED
    BY <2>1, <2>2
<1>4. TypeOK'
  <2>1. req' \in [Slots -> Request] /\ proc' \in [Procs -> Process]
    BY <1>1, <1>2, <1>3
  <2> QED
    BY <1>1, <2>1 DEF OwnershipInv, TypeOK, hubVars
<1>5. HoldsOwn'
  <2> SUFFICES ASSUME NEW p \in Procs, proc'[p].token # 0
               PROVE  /\ proc'[p].token \in 1..Len(issuedTo)
                      /\ issuedTo[proc'[p].token] = p
    BY <1>1 DEF HoldsOwn, hubVars
  <2>1. CASE proc'[p].token = proc[p].token
    BY <2>1 DEF OwnershipInv, HoldsOwn
  <2>2. CASE Awaits(p, s) /\ proc'[p].token = req[s].token
    BY <2>2 DEF OwnershipInv, RequestsOwn, AwaitsOwn
  <2> QED
    BY <1>3, <2>1, <2>2
<1>6. RequestsOwn'
  <2>1. ids \in Nat
    BY DEF OwnershipInv, TypeOK
  <2> QED
    BY <1>1, <1>2, <2>1 DEF OwnershipInv, RequestsOwn, Idle, hubVars
<1>7. IssuersCreated'
  BY <1>1, <1>2 DEF OwnershipInv, IssuersCreated, Idle, hubVars
<1>8. AwaitsOwn'
  <2> SUFFICES ASSUME NEW p \in Procs, NEW t \in Slots, Awaits(p, t)'
               PROVE  req'[t].pc # "idle" /\ req'[t].by = p
    BY DEF AwaitsOwn
  <2>1. Awaits(p, t) /\ t # s
    BY <1>3 DEF Awaits
  <2> QED
    BY <1>2, <2>1 DEF OwnershipInv, AwaitsOwn
<1>9. NoTakeover'
  BY <1>1 DEF OwnershipInv, NoTakeover, hubVars
<1> QED
  BY <1>4, <1>5, <1>6, <1>7, <1>8, <1>9 DEF OwnershipInv

(* A free slot takes a fresh request; an agent's waits for the response.   *)
LEMMA NewRequest ==
    ASSUME OwnershipInv, TypeOK', NEW s \in Slots, req[s].pc = "idle",
           UNCHANGED <<cluster, agentRow, ids, issuedTo, creator>>,
           \A t \in Slots : t # s => req'[t] = req[t],
           req'[s].id = 0, req'[s].token = 0, req'[s].pc \notin {"idle", "issue"},
           req'[s].existing # 0 =>
               /\ req'[s].existing \in 1..Len(issuedTo)
               /\ issuedTo[req'[s].existing] = req'[s].by,
           \A p \in Procs : /\ proc'[p].token = proc[p].token
                            /\ \/ proc'[p] = proc[p]
                               \/ proc'[p].slot = s /\ req'[s].by = p
    PROVE  OwnershipInv'
<1>1. HoldsOwn'
  BY DEF OwnershipInv, HoldsOwn
<1>2. RequestsOwn'
  <2>1. ids \in Nat
    BY DEF OwnershipInv, TypeOK
  <2> QED
    BY <2>1 DEF OwnershipInv, RequestsOwn
<1>3. IssuersCreated'
  BY DEF OwnershipInv, IssuersCreated
<1>4. AwaitsOwn'
  <2> SUFFICES ASSUME NEW p \in Procs, NEW t \in Slots, Awaits(p, t)'
               PROVE  req'[t].pc # "idle" /\ req'[t].by = p
    BY DEF AwaitsOwn
  <2>1. CASE proc'[p] = proc[p]
    <3>1. Awaits(p, t) /\ t # s
      BY <2>1 DEF Awaits, OwnershipInv, AwaitsOwn
    <3> QED
      BY <3>1 DEF OwnershipInv, AwaitsOwn
  <2>2. CASE proc'[p].slot = s /\ req'[s].by = p
    BY <2>2 DEF Awaits
  <2> QED
    BY <2>1, <2>2
<1>5. NoTakeover'
  BY DEF OwnershipInv, NoTakeover
<1> QED
  BY <1>1, <1>2, <1>3, <1>4, <1>5 DEF OwnershipInv

(* handleRegisterCluster starts with nothing in hand.                      *)
LEMMA handleRegisterClusterStep ==
    ASSUME NEW s \in Slots, OwnershipInv, handleRegisterCluster(s) PROVE OwnershipInv'
<1>1. /\ req \in [Slots -> Request]
      /\ UNCHANGED <<hubVars, proc, approvals, signals, faults, removals>>
      /\ req[s].pc = "idle"
      /\ req' = [req EXCEPT ![s] = [Idle EXCEPT !.pc = "create"]]
  BY DEF OwnershipInv, TypeOK, handleRegisterCluster
<1>2. [Idle EXCEPT !.pc = "create"] \in Request
  BY DEF Idle, Request, Principals, Outcomes, StoreCalls
<1>3. /\ \A t \in Slots : t # s => req'[t] = req[t]
      /\ req'[s].id = 0 /\ req'[s].token = 0 /\ req'[s].existing = 0
      /\ req'[s].pc = "create"
  BY <1>1 DEF Idle
<1>4. TypeOK'
  <2>1. req' \in [Slots -> Request]
    BY <1>1, <1>2
  <2> QED
    BY <1>1, <2>1 DEF OwnershipInv, TypeOK, hubVars
<1> QED
  BY <1>1, <1>3, <1>4, NewRequest DEF hubVars

(* Register presents the process's own token.                              *)
LEMMA RegisterStep ==
    ASSUME NEW p \in Procs, NEW s \in Slots, OwnershipInv, Register(p, s) PROVE OwnershipInv'
<1> DEFINE r == [Idle EXCEPT !.pc = "auth", !.by = p, !.gen = proc[p].gen,
                             !.existing = proc[p].token]
<1>1. /\ req \in [Slots -> Request] /\ proc \in [Procs -> Process]
      /\ UNCHANGED <<hubVars, approvals, signals, faults, removals>>
      /\ req[s].pc = "idle"
      /\ req' = [req EXCEPT ![s] = r]
      /\ proc' = [proc EXCEPT ![p].pc = "await", ![p].slot = s]
  BY DEF OwnershipInv, TypeOK, Register
<1>2. /\ r \in Request
      /\ r.id = 0 /\ r.token = 0 /\ r.existing = proc[p].token /\ r.pc = "auth" /\ r.by = p
  <2>1. proc[p].gen \in Nat /\ proc[p].token \in Nat
    BY <1>1 DEF Process
  <2> QED
    BY <2>1 DEF Idle, Request, Principals, Outcomes, StoreCalls
<1> HIDE DEF r
<1>3. /\ req' \in [Slots -> Request]
      /\ \A t \in Slots : t # s => req'[t] = req[t]
      /\ req'[s] = r
  BY <1>1, <1>2
<1>4. /\ proc' \in [Procs -> Process]
      /\ proc'[p].token = proc[p].token /\ proc'[p].slot = s
      /\ \A q \in Procs : q # p => proc'[q] = proc[q]
  BY <1>1 DEF Process
<1>5. TypeOK'
  BY <1>1, <1>3, <1>4 DEF OwnershipInv, TypeOK, hubVars
<1>6. r.existing # 0 => r.existing \in 1..Len(issuedTo) /\ issuedTo[r.existing] = r.by
  BY <1>2 DEF OwnershipInv, HoldsOwn
<1>7. \A q \in Procs : /\ proc'[q].token = proc[q].token
                       /\ \/ proc'[q] = proc[q]
                          \/ proc'[q].slot = s /\ req'[s].by = q
  BY <1>2, <1>3, <1>4
<1>8. /\ UNCHANGED <<cluster, agentRow, ids, issuedTo, creator>>
      /\ req'[s].id = 0 /\ req'[s].token = 0 /\ req'[s].pc \notin {"idle", "issue"}
  BY <1>1, <1>2, <1>3 DEF hubVars
<1>9. req'[s].existing # 0 =>
          /\ req'[s].existing \in 1..Len(issuedTo)
          /\ issuedTo[req'[s].existing] = req'[s].by
  BY <1>3, <1>6
<1> QED
  BY <1>1, <1>3, <1>5, <1>7, <1>8, <1>9, NewRequest

(* Deletion takes the agents row with the clusters row, and no handler     *)
(* names cluster 0.                                                        *)
LEMMA handleDeleteClusterStep ==
    ASSUME OwnershipInv, handleDeleteCluster PROVE OwnershipInv'
<1>1. /\ cluster' = 0 /\ agentRow' = NoRow /\ removals' = removals + 1
      /\ UNCHANGED <<regHash, ids, issuedTo, creator, req, proc, approvals, signals, faults>>
  BY DEF handleDeleteCluster
<1>2. TypeOK'
  BY <1>1 DEF OwnershipInv, TypeOK, NoRow
<1>3. HoldsOwn' /\ RequestsOwn'
  BY <1>1 DEF OwnershipInv, HoldsOwn, RequestsOwn
<1>4. IssuersCreated'
  BY <1>1 DEF OwnershipInv, IssuersCreated
<1>5. AwaitsOwn'
  <2>1. \A t \in Slots, p \in Procs : Awaits(p, t)' <=> Awaits(p, t)
    BY <1>1 DEF Awaits
  <2> QED
    BY <1>1, <2>1 DEF OwnershipInv, AwaitsOwn
<1>6. NoTakeover'
  BY <1>1 DEF NoTakeover
<1> QED
  BY <1>2, <1>3, <1>4, <1>5, <1>6 DEF OwnershipInv

(* Rotating the registration token touches no agent token.                 *)
LEMMA handleRotateRegistrationTokenStep ==
    ASSUME OwnershipInv, handleRotateRegistrationToken PROVE OwnershipInv'
<1>1. /\ regHash' = regHash + 1
      /\ UNCHANGED <<cluster, agentRow, ids, issuedTo, creator, req, proc, approvals,
                     signals, faults, removals>>
  BY DEF handleRotateRegistrationToken
<1>2. TypeOK'
  BY <1>1 DEF OwnershipInv, TypeOK
<1> QED
  BY <1>1, <1>2, ProcessesMove

(* The steps of one agent process that send no registration.               *)
LEMMA AgentStep ==
    ASSUME NEW p \in Procs, OwnershipInv,
           \/ Start(p) \/ waitForRetry(p) \/ Heartbeat(p) \/ Stop(p)
           \/ RequestTimesOut(p) \/ HeartbeatFails(p)
    PROVE  OwnershipInv'
<1>1. /\ proc \in [Procs -> Process] /\ regHash \in Nat /\ signals \in [Procs -> Nat]
      /\ faults \in Nat
  BY DEF OwnershipInv, TypeOK
<1>2. UNCHANGED <<hubVars, req, approvals, removals>>
  BY DEF Start, waitForRetry, Heartbeat, Stop, RequestTimesOut, HeartbeatFails
<1>3. signals' \in [Procs -> Nat] /\ faults' \in Nat
  BY <1>1 DEF Start, waitForRetry, Heartbeat, Stop, RequestTimesOut, HeartbeatFails, Fault
<1>4. /\ proc' \in [Procs -> Process]
      /\ \A q \in Procs : q # p => proc'[q] = proc[q]
      /\ proc'[p].token \in {0, proc[p].token}
      /\ proc'[p].pc # "await"
  <2>1. CASE Start(p)
    BY <1>1, <2>1, ZenonT(30) DEF Start, Process
  <2>2. CASE waitForRetry(p)
    BY <1>1, <2>2 DEF waitForRetry, Process
  <2>3. CASE Heartbeat(p)
    <3>1. \/ proc' = [proc EXCEPT ![p].pc = "backoff"]
          \/ proc' = [proc EXCEPT ![p].pc = "backoff", ![p].approved = TRUE]
      BY <2>3 DEF Heartbeat
    <3> QED
      BY <1>1, <3>1 DEF Process
  <2>4. CASE Stop(p)
    <3>1. proc' = [proc EXCEPT ![p] = [NewProcess EXCEPT !.pc = "dead"]]
      BY <2>4 DEF Stop
    <3> QED
      BY <1>1, <3>1 DEF Process, NewProcess
  <2>5. CASE RequestTimesOut(p)
    BY <1>1, <2>5, ZenonT(30) DEF RequestTimesOut, Process
  <2>6. CASE HeartbeatFails(p)
    BY <1>1, <2>6 DEF HeartbeatFails, Process
  <2> QED
    BY <2>1, <2>2, <2>3, <2>4, <2>5, <2>6
<1>5. TypeOK'
  BY <1>2, <1>3, <1>4 DEF OwnershipInv, TypeOK, hubVars
<1>6. \A q \in Procs : /\ proc'[q].token \in {0, proc[q].token}
                       /\ proc'[q].pc = "await" => proc'[q] = proc[q]
  BY <1>4
<1> QED
  BY <1>2, <1>5, <1>6, ProcessesMove DEF hubVars

(* A failing store call ends its handler with an error.                    *)
LEMMA HandlerFailsStep ==
    ASSUME NEW s \in Slots, OwnershipInv, HandlerFails(s) PROVE OwnershipInv'
<1>1. faults' \in Nat
  BY DEF OwnershipInv, TypeOK, HandlerFails, Fault
<1>2. Respond(s, "error") /\ UNCHANGED <<hubVars, proc, approvals, signals, removals>>
  BY DEF HandlerFails
<1> QED
  BY <1>1, <1>2, RespondStep DEF Outcomes

(* A restart forgets the requests and disappoints those who wait.          *)
LEMMA HubRestartStep ==
    ASSUME OwnershipInv, HubRestart PROVE OwnershipInv'
<1>1. /\ proc \in [Procs -> Process]
      /\ UNCHANGED <<hubVars, approvals, signals, removals>> /\ faults' = faults + 1
      /\ req' = [s \in Slots |-> Idle]
      /\ proc' = [p \in Procs |-> IF proc[p].pc = "await"
                                  THEN [proc[p] EXCEPT !.pc = "backoff", !.slot = 0]
                                  ELSE proc[p]]
  BY DEF OwnershipInv, TypeOK, HubRestart, Fault
<1>2. req' \in [Slots -> Request] /\ \A s \in Slots : req'[s] = Idle
  BY <1>1 DEF Idle, Request, Principals, Outcomes
<1>3. \A p \in Procs : /\ proc'[p] \in Process
                       /\ proc'[p].token = proc[p].token
                       /\ proc'[p].pc # "await"
  BY <1>1 DEF Process
<1>4. TypeOK'
  <2>1. proc' \in [Procs -> Process]
    BY <1>1, <1>3
  <2>2. faults' \in Nat
    <3>1. faults \in Nat
      BY DEF OwnershipInv, TypeOK
    <3>2. faults' = faults + 1
      BY <1>1
    <3> QED
      BY <3>1, <3>2
  <2>3. UNCHANGED <<regHash, cluster, agentRow, ids, issuedTo, creator, approvals, signals,
                    removals>>
    BY <1>1 DEF hubVars
  <2> QED
    BY <1>2, <2>1, <2>2, <2>3 DEF OwnershipInv, TypeOK
<1>5. HoldsOwn'
  BY <1>1, <1>3 DEF OwnershipInv, HoldsOwn, hubVars
<1>6. RequestsOwn'
  <2>1. ids \in Nat /\ UNCHANGED ids
    BY <1>1 DEF OwnershipInv, TypeOK, hubVars
  <2>2. Idle.id = 0 /\ Idle.existing = 0 /\ Idle.token = 0
    BY DEF Idle
  <2> QED
    BY <1>2, <2>1, <2>2 DEF RequestsOwn
<1>7. IssuersCreated'
  BY <1>2 DEF IssuersCreated, Idle
<1>8. AwaitsOwn'
  BY <1>3 DEF AwaitsOwn, Awaits
<1>9. NoTakeover'
  BY <1>1 DEF OwnershipInv, NoTakeover, hubVars
<1> QED
  BY <1>4, <1>5, <1>6, <1>7, <1>8, <1>9 DEF OwnershipInv

(* Every step keeps the invariant.                                         *)
LEMMA OwnershipNext == OwnershipInv /\ [Next]_vars => OwnershipInv'
<1> SUFFICES ASSUME OwnershipInv, [Next]_vars PROVE OwnershipInv'
  OBVIOUS
<1>1. ASSUME NEW s \in Slots, Handler(s) PROVE OwnershipInv'
  BY <1>1, checkRegistrationAuthStep, findClusterByNameStep, CreateClusterStep,
     validExistingAgentTokenStep, IssueAgentTokenStep, readApprovalStep,
     approveOperatorClusterStep, writeResponseStep DEF Handler
<1>2. ASSUME NEW s \in Slots, handleRegisterCluster(s) PROVE OwnershipInv'
  BY <1>2, handleRegisterClusterStep
<1>3. ASSUME NEW p \in Procs, Agent(p) \/ Stop(p) PROVE OwnershipInv'
  BY <1>3, AgentStep, RegisterStep DEF Agent
<1>4. CASE handleAgentApprove
  BY <1>4, handleAgentApproveStep
<1>5. CASE handleDeleteCluster
  BY <1>5, handleDeleteClusterStep
<1>6. CASE handleRotateRegistrationToken
  BY <1>6, handleRotateRegistrationTokenStep
<1>7. CASE Faulty
  BY <1>7, AgentStep, HandlerFailsStep, HubRestartStep DEF Faulty
<1>8. CASE UNCHANGED vars
  <2>1. UNCHANGED <<cluster, agentRow, ids, issuedTo, creator, req, proc>> /\ TypeOK'
    BY <1>8 DEF vars, OwnershipInv, TypeOK
  <2> QED
    BY <2>1, ProcessesMove
<1> QED
  BY <1>1, <1>2, <1>3, <1>4, <1>5, <1>6, <1>7, <1>8 DEF Next

-----------------------------------------------------------------------------

(* A step that approves and signals nobody keeps SignalsInv if no process  *)
(* comes to be due a signal by it.                                         *)
LEMMA NothingDue ==
    ASSUME SignalsInv, UNCHANGED <<approvals, signals>>,
           agentRow'.approved => agentRow.approved,
           \A p \in Procs : agentRow'.approved /\ Unsignalled(p)' => Unsignalled(p)
    PROVE  SignalsInv'
BY DEF SignalsInv

(* That is so when handlers move on, as none answers "pending" about an    *)
(* approved row.                                                           *)
LEMMA HandlersDueNothing ==
    ASSUME SignalsInv, UNCHANGED <<agentRow, proc, approvals, signals>>,
           \A t \in Slots :
               \/ req'[t] = req[t]
               \/ req'[t].pc # "respond"
               \/ req'[t].outcome = "pending" => ~agentRow.approved
    PROVE  SignalsInv'
<1>1. ASSUME NEW p \in Procs, agentRow'.approved, Unsignalled(p)' PROVE Unsignalled(p)
  <2>1. CASE proc[p].token = agentRow.token /\ ~proc[p].approved
    BY <1>1, <2>1 DEF Unsignalled
  <2>2. ASSUME NEW t \in Slots, Awaits(p, t)', BringsPending(t)' PROVE Unsignalled(p)
    <3>1. Awaits(p, t)
      BY <2>2 DEF Awaits
    <3>2. BringsPending(t)
      BY <1>1, <2>2 DEF BringsPending
    <3> QED
      BY <1>1, <3>1, <3>2 DEF Unsignalled
  <2> QED
    BY <1>1, <2>1, <2>2 DEF Unsignalled
<1> QED
  BY <1>1, NothingDue

(* It is so when processes move on without learning anything.              *)
LEMMA ProcessesDueNothing ==
    ASSUME SignalsInv, UNCHANGED <<agentRow, req, approvals, signals>>,
           \A p \in Procs :
               /\ \/ proc'[p].token = 0
                  \/ proc'[p].token = proc[p].token /\ proc'[p].approved = proc[p].approved
               /\ proc'[p].pc = "await" => proc'[p] = proc[p]
    PROVE  SignalsInv'
<1>1. ASSUME NEW p \in Procs, Unsignalled(p)' PROVE Unsignalled(p)
  <2>1. CASE proc'[p].token = agentRow.token /\ ~proc'[p].approved
    BY <1>1, <2>1 DEF Unsignalled
  <2>2. ASSUME NEW t \in Slots, Awaits(p, t)', BringsPending(t)' PROVE Unsignalled(p)
    <3>1. Awaits(p, t)
      BY <2>2 DEF Awaits
    <3>2. BringsPending(t)
      BY <2>2 DEF BringsPending
    <3> QED
      BY <1>1, <3>1, <3>2 DEF Unsignalled
  <2> QED
    BY <1>1, <2>1, <2>2 DEF Unsignalled
<1> QED
  BY <1>1, NothingDue

(* The store calls that leave the agents row alone.                        *)
LEMMA ReadsSignal ==
    ASSUME NEW s \in Slots, OwnershipInv, SignalsInv,
           \/ checkRegistrationAuth(s) \/ findClusterByName(s) \/ CreateCluster(s)
           \/ validExistingAgentToken(s) \/ readApproval(s) \/ HandlerFails(s)
           \/ handleRegisterCluster(s)
    PROVE  SignalsInv'
<1>1. req \in [Slots -> Request]
  BY DEF OwnershipInv, TypeOK
<1>2. UNCHANGED <<agentRow, proc, approvals, signals>>
  BY DEF checkRegistrationAuth, findClusterByName, CreateCluster, validExistingAgentToken,
         readApproval, HandlerFails, handleRegisterCluster, hubVars
<1>3. ASSUME NEW o \in Outcomes, Respond(s, o), o = "pending" => ~agentRow.approved
      PROVE  SignalsInv'
  <2>1. req'[s].outcome = o /\ \A t \in Slots : t # s => req'[t] = req[t]
    BY <1>1, <1>3 DEF Respond, Request
  <2> QED
    BY <1>2, <1>3, <2>1, HandlersDueNothing
<1>4. ASSUME NEW r, r.pc # "respond", req' = [req EXCEPT ![s] = r] PROVE SignalsInv'
  <2>1. req'[s] = r /\ \A t \in Slots : t # s => req'[t] = req[t]
    BY <1>1, <1>4
  <2> QED
    BY <1>2, <1>4, <2>1, HandlersDueNothing
<1>5. ASSUME NEW pc \in PCs, pc # "respond", GoTo(s, pc) PROVE SignalsInv'
  <2>1. req'[s].pc = pc /\ \A t \in Slots : t # s => req'[t] = req[t]
    BY <1>1, <1>5, GoToFacts
  <2> QED
    BY <1>2, <1>5, <2>1, HandlersDueNothing
<1>6. ASSUME NEW pc \in PCs, pc # "respond", NEW id \in Nat,
             req' = [req EXCEPT ![s].pc = pc, ![s].id = id]
      PROVE  SignalsInv'
  <2>1. req'[s].pc = pc /\ \A t \in Slots : t # s => req'[t] = req[t]
    BY <1>1, <1>6 DEF Request
  <2> QED
    BY <1>2, <1>6, <2>1, HandlersDueNothing
<1>7. CASE readApproval(s)
  <2> DEFINE o == IF ~ValidateAgentToken(req[s].id, req[s].token) THEN "error"
                  ELSE IF agentRow.approved THEN "ok" ELSE "pending"
  <2>1. o \in Outcomes /\ Respond(s, o) /\ (o = "pending" => ~agentRow.approved)
    BY <1>7 DEF readApproval, Outcomes
  <2> HIDE DEF o
  <2> QED
    BY <1>3, <2>1
<1>8. CASE HandlerFails(s)
  BY <1>3, <1>8 DEF HandlerFails, Outcomes
<1>9. CASE handleRegisterCluster(s)
  <2> DEFINE r == [Idle EXCEPT !.pc = "create"]
  <2>1. r.pc # "respond" /\ req' = [req EXCEPT ![s] = r]
    BY <1>9 DEF handleRegisterCluster, Idle
  <2> HIDE DEF r
  <2> QED
    BY <1>4, <2>1
<1>10. CASE checkRegistrationAuth(s)
  BY <1>3, <1>5, <1>10 DEF checkRegistrationAuth, Outcomes, PCs, StoreCalls
<1>11. CASE validExistingAgentToken(s)
  BY <1>3, <1>5, <1>11 DEF validExistingAgentToken, Outcomes, PCs, StoreCalls
<1>12. CASE findClusterByName(s)
  <2>1. cluster \in Nat
    BY DEF OwnershipInv, TypeOK
  <2> QED
    BY <1>5, <1>6, <1>12, <2>1 DEF findClusterByName, PCs, StoreCalls
<1>13. CASE CreateCluster(s)
  <2>1. ids + 1 \in Nat
    BY DEF OwnershipInv, TypeOK
  <2> QED
    BY <1>3, <1>6, <1>13, <2>1 DEF CreateCluster, PCs, StoreCalls, Outcomes
<1> QED
  BY <1>7, <1>8, <1>9, <1>10, <1>11, <1>12, <1>13

(* A token that has just been minted is in nobody's hands, and no response *)
(* carries it yet.                                                         *)
LEMMA IssueSignal ==
    ASSUME NEW s \in Slots, OwnershipInv, SignalsInv, IssueAgentToken(s)
    PROVE  SignalsInv'
<1>1. /\ req \in [Slots -> Request] /\ issuedTo \in Seq(Principals)
      /\ agentRow \in [token : 0..Len(issuedTo), approved : BOOLEAN]
  BY DEF OwnershipInv, TypeOK
<1>2. UNCHANGED <<proc, approvals, signals>>
  BY DEF IssueAgentToken
<1>3. CASE cluster = req[s].id
  <2> DEFINE tok == Len(issuedTo) + 1
             pc == IF req[s].by = Operator THEN "approve" ELSE "readApproval"
  <2>1. /\ agentRow' = [agentRow EXCEPT !.token = tok]
        /\ req' = [req EXCEPT ![s].pc = pc, ![s].token = tok]
        /\ pc # "respond"
    BY <1>3 DEF IssueAgentToken, upsertToken
  <2>2. tok \in Nat /\ tok \notin 1..Len(issuedTo) /\ tok # 0
    BY <1>1
  <2> HIDE DEF tok, pc
  <2>3. agentRow'.token = tok /\ agentRow'.approved = agentRow.approved
    BY <1>1, <2>1
  <2>4. /\ \A t \in Slots : t # s => req'[t] = req[t]
        /\ req'[s].pc # "respond"
    BY <1>1, <2>1 DEF Request
  <2>5. ASSUME NEW p \in Procs PROVE ~Unsignalled(p)'
    <3>1. proc'[p].token # agentRow'.token
      BY <1>2, <2>2, <2>3 DEF OwnershipInv, HoldsOwn
    <3>2. \A t \in Slots : ~BringsPending(t)'
      BY <2>2, <2>3, <2>4 DEF OwnershipInv, RequestsOwn, BringsPending
    <3> QED
      BY <3>1, <3>2 DEF Unsignalled
  <2> QED
    BY <1>2, <2>3, <2>5, NothingDue
<1>4. CASE cluster # req[s].id
  <2>1. Respond(s, "error") /\ UNCHANGED agentRow
    BY <1>4 DEF IssueAgentToken
  <2>2. req'[s].outcome = "error" /\ \A t \in Slots : t # s => req'[t] = req[t]
    BY <1>1, <2>1 DEF Respond, Request
  <2> QED
    BY <1>2, <2>1, <2>2, HandlersDueNothing
<1> QED
  BY <1>3, <1>4

(* An approval pays for the signal it makes due.                           *)
LEMMA ApprovalSignal ==
    ASSUME OwnershipInv, SignalsInv, NEW id, ApproveAgent(id), UNCHANGED <<proc, signals>>,
           \A t \in Slots : req'[t] = req[t]
                            \/ req'[t].outcome = "ok"
    PROVE  SignalsInv'
<1>1. /\ approvals \in Nat /\ signals \in [Procs -> Nat]
      /\ agentRow \in [token : 0..Len(issuedTo), approved : BOOLEAN]
  BY DEF OwnershipInv, TypeOK
<1>2. CASE agentRow.approved
  <2>1. agentRow' = agentRow /\ approvals' = approvals
    BY <1>1, <1>2 DEF ApproveAgent
  <2> QED
    BY <2>1, HandlersDueNothing
<1>3. CASE ~agentRow.approved
  <2>1. approvals' = approvals + 1
    BY <1>3 DEF ApproveAgent
  <2> QED
    BY <1>1, <2>1 DEF SignalsInv
<1> QED
  BY <1>2, <1>3

(* Both kinds of approval.                                                 *)
LEMMA ApprovalsSignal ==
    ASSUME OwnershipInv, SignalsInv,
           handleAgentApprove \/ \E s \in Slots : approveOperatorCluster(s)
    PROVE  SignalsInv'
<1>1. CASE handleAgentApprove
  BY <1>1, ApprovalSignal DEF handleAgentApprove
<1>2. ASSUME NEW s \in Slots, approveOperatorCluster(s) PROVE SignalsInv'
  <2>1. UNCHANGED <<proc, signals>> /\ req \in [Slots -> Request]
    BY <1>2 DEF approveOperatorCluster, OwnershipInv, TypeOK
  <2>2. CASE ApproveAgent(req[s].id) /\ Respond(s, "ok")
    <3>1. req'[s].outcome = "ok" /\ \A t \in Slots : t # s => req'[t] = req[t]
      BY <2>1, <2>2 DEF Respond, Request
    <3> QED
      BY <2>1, <2>2, <3>1, ApprovalSignal
  <2>3. CASE Respond(s, "error") /\ UNCHANGED <<agentRow, approvals>>
    <3>1. req'[s].outcome = "error" /\ \A t \in Slots : t # s => req'[t] = req[t]
      BY <2>1, <2>3 DEF Respond, Request
    <3> QED
      BY <2>1, <2>3, <3>1, HandlersDueNothing
  <2> QED
    BY <1>2, <2>2, <2>3 DEF approveOperatorCluster
<1> QED
  BY <1>1, <1>2

(* A response makes no signal due: the process that receives a pending     *)
(* token was due one when it waited for it.                                *)
LEMMA ResponseSignal ==
    ASSUME NEW s \in Slots, OwnershipInv, SignalsInv, writeResponse(s)
    PROVE  SignalsInv'
<1>1. /\ req \in [Slots -> Request] /\ proc \in [Procs -> Process]
      /\ UNCHANGED <<agentRow, approvals, signals>>
      /\ req[s].pc = "respond"
      /\ req' = [req EXCEPT ![s] = Idle]
      /\ proc' = [p \in Procs |-> IF Awaits(p, s) THEN Received(p, req[s]) ELSE proc[p]]
  BY DEF OwnershipInv, TypeOK, writeResponse, hubVars
<1>2. /\ \A t \in Slots : t # s => req'[t] = req[t]
      /\ req'[s].pc = "idle"
  BY <1>1 DEF Idle
<1>3. ASSUME NEW p \in Procs, ~Awaits(p, s), Unsignalled(p)' PROVE Unsignalled(p)
  <2>1. proc'[p] = proc[p]
    BY <1>1, <1>3
  <2>2. ASSUME NEW t \in Slots, Awaits(p, t)', BringsPending(t)'
        PROVE  Awaits(p, t) /\ BringsPending(t)
    BY <1>1, <1>2, <2>1, <2>2 DEF Awaits, BringsPending
  <2> QED
    BY <1>1, <1>3, <2>1, <2>2 DEF Unsignalled
<1>4. ASSUME NEW p \in Procs, Awaits(p, s), Unsignalled(p)' PROVE Unsignalled(p)
  <2>1. proc'[p] = Received(p, req[s]) /\ proc[p] \in Process
    BY <1>1, <1>4
  <2>2. CASE req[s].outcome \in {"ok", "pending"}
    <3> DEFINE a == (req[s].outcome = "ok")
    <3>1. proc'[p] = [proc[p] EXCEPT !.pc = "run", !.slot = 0, !.token = req[s].token,
                                     !.approved = a]
      BY <2>1, <2>2 DEF Received
    <3>2. proc'[p].pc = "run" /\ proc'[p].token = req[s].token /\ (proc'[p].approved <=> a)
      BY <2>1, <3>1 DEF Process
    <3>3. \A t \in Slots : ~Awaits(p, t)'
      BY <3>2 DEF Awaits
    <3>4. req[s].token = agentRow.token /\ ~a /\ agentRow.token # 0
      BY <1>1, <1>4, <3>2, <3>3 DEF Unsignalled
    <3>5. BringsPending(s)
      BY <1>1, <2>2, <3>4 DEF BringsPending
    <3> QED
      BY <1>4, <3>4, <3>5 DEF Unsignalled
  <2>3. CASE req[s].outcome \notin {"ok", "pending"}
    <3>1. proc'[p] = [proc[p] EXCEPT !.pc = "backoff", !.slot = 0]
      BY <2>1, <2>3 DEF Received
    <3>2. /\ proc'[p].pc = "backoff" /\ proc'[p].token = proc[p].token
          /\ proc'[p].approved = proc[p].approved
      BY <2>1, <3>1 DEF Process
    <3> QED
      BY <1>1, <1>4, <3>2 DEF Unsignalled, Awaits
  <2> QED
    BY <2>2, <2>3
<1> QED
  BY <1>1, <1>3, <1>4, NothingDue

(* A registration begins with no answer.                                   *)
LEMMA RegisterSignal ==
    ASSUME NEW p \in Procs, NEW s \in Slots, OwnershipInv, SignalsInv, Register(p, s)
    PROVE  SignalsInv'
<1> DEFINE r == [Idle EXCEPT !.pc = "auth", !.by = p, !.gen = proc[p].gen,
                             !.existing = proc[p].token]
<1>1. /\ req \in [Slots -> Request] /\ proc \in [Procs -> Process]
      /\ UNCHANGED <<agentRow, approvals, signals>>
      /\ req' = [req EXCEPT ![s] = r]
      /\ proc' = [proc EXCEPT ![p].pc = "await", ![p].slot = s]
      /\ r.pc # "respond"
  BY DEF OwnershipInv, TypeOK, Register, hubVars, Idle
<1> HIDE DEF r
<1>2. req'[s].pc # "respond" /\ \A t \in Slots : t # s => req'[t] = req[t]
  BY <1>1
<1>3. /\ proc'[p].token = proc[p].token /\ proc'[p].approved = proc[p].approved
      /\ proc'[p].slot = s
      /\ \A q \in Procs : q # p => proc'[q] = proc[q]
  BY <1>1 DEF Process
<1>4. ASSUME NEW q \in Procs, Unsignalled(q)' PROVE Unsignalled(q)
  <2>1. CASE proc'[q].token = agentRow.token /\ ~proc'[q].approved
    BY <1>1, <1>3, <1>4, <2>1 DEF Unsignalled
  <2>2. ASSUME NEW t \in Slots, Awaits(q, t)', BringsPending(t)' PROVE Unsignalled(q)
    <3>1. t # s
      BY <1>2, <2>2 DEF BringsPending
    <3>2. q # p
      BY <1>3, <2>2, <3>1 DEF Awaits
    <3>3. Awaits(q, t) /\ BringsPending(t)
      BY <1>1, <1>2, <1>3, <2>2, <3>1, <3>2 DEF Awaits, BringsPending
    <3> QED
      BY <1>1, <1>4, <3>3 DEF Unsignalled
  <2> QED
    BY <1>1, <1>4, <2>1, <2>2 DEF Unsignalled
<1> QED
  BY <1>1, <1>4, NothingDue

(* A signal is given only when it is due, and then is due no more.         *)
LEMMA HeartbeatSignal ==
    ASSUME NEW p \in Procs, OwnershipInv, SignalsInv, Heartbeat(p)
    PROVE  SignalsInv'
<1>1. /\ proc \in [Procs -> Process] /\ signals \in [Procs -> Nat] /\ approvals \in Nat
      /\ UNCHANGED <<agentRow, req, approvals>> /\ proc[p].pc = "run"
  BY DEF OwnershipInv, TypeOK, Heartbeat, hubVars
<1>2. CASE proc' = [proc EXCEPT ![p].pc = "backoff"] /\ UNCHANGED signals
  <2>1. \A q \in Procs : /\ proc'[q].token = proc[q].token
                         /\ proc'[q].approved = proc[q].approved
                         /\ proc'[q].pc = "await" => proc'[q] = proc[q]
    BY <1>1, <1>2 DEF Process
  <2> QED
    BY <1>1, <1>2, <2>1, ProcessesDueNothing
<1>3. CASE /\ ValidateAgentToken(cluster, proc[p].token)
           /\ agentRow.approved /\ ~proc[p].approved
           /\ proc' = [proc EXCEPT ![p].pc = "backoff", ![p].approved = TRUE]
           /\ signals' = [signals EXCEPT ![p] = @ + 1]
  <2>1. signals[p] < approvals
    BY <1>3 DEF SignalsInv, Unsignalled, ValidateAgentToken
  <2>2. /\ proc'[p].pc = "backoff" /\ proc'[p].approved
        /\ \A q \in Procs : q # p => proc'[q] = proc[q]
    BY <1>1, <1>3 DEF Process
  <2>3. signals'[p] = signals[p] + 1 /\ \A q \in Procs : q # p => signals'[q] = signals[q]
    BY <1>1, <1>3
  <2>4. ~Unsignalled(p)'
    BY <2>2 DEF Unsignalled, Awaits
  <2>5. ASSUME NEW q \in Procs, q # p, Unsignalled(q)' PROVE Unsignalled(q)
    <3>1. \A t \in Slots : (Awaits(q, t)' <=> Awaits(q, t)) /\ (BringsPending(t)' <=> BringsPending(t))
      BY <1>1, <2>2, <2>5 DEF Awaits, BringsPending
    <3> QED
      BY <1>1, <2>2, <2>5, <3>1 DEF Unsignalled
  <2>6. SUFFICES ASSUME NEW q \in Procs
                 PROVE  /\ signals'[q] <= approvals
                        /\ agentRow.approved /\ Unsignalled(q)' => signals'[q] < approvals
    BY <1>1 DEF SignalsInv
  <2>7. CASE q = p
    BY <1>1, <2>1, <2>3, <2>4, <2>7
  <2>8. CASE q # p
    BY <2>3, <2>5, <2>8 DEF SignalsInv
  <2> QED
    BY <2>7, <2>8
<1> QED
  BY <1>2, <1>3 DEF Heartbeat

(* The other steps of a process teach it nothing.                          *)
LEMMA AgentSignal ==
    ASSUME NEW p \in Procs, OwnershipInv, SignalsInv,
           Start(p) \/ waitForRetry(p) \/ Stop(p) \/ RequestTimesOut(p) \/ HeartbeatFails(p)
    PROVE  SignalsInv'
<1>1. proc \in [Procs -> Process] /\ UNCHANGED <<agentRow, req, approvals, signals>>
  BY DEF OwnershipInv, TypeOK, Start, waitForRetry, Stop, RequestTimesOut, HeartbeatFails, hubVars
<1>2. /\ \A q \in Procs : q # p => proc'[q] = proc[q]
      /\ proc'[p].pc # "await"
      /\ \/ proc'[p].token = 0
         \/ proc'[p].token = proc[p].token /\ proc'[p].approved = proc[p].approved
  <2>1. CASE Start(p)
    BY <1>1, <2>1 DEF Start, Process
  <2>2. CASE waitForRetry(p)
    BY <1>1, <2>2 DEF waitForRetry, Process
  <2>3. CASE Stop(p)
    BY <1>1, <2>3 DEF Stop, NewProcess
  <2>4. CASE RequestTimesOut(p)
    BY <1>1, <2>4 DEF RequestTimesOut, Process
  <2>5. CASE HeartbeatFails(p)
    BY <1>1, <2>5 DEF HeartbeatFails, Process
  <2> QED
    BY <2>1, <2>2, <2>3, <2>4, <2>5
<1> QED
  BY <1>1, <1>2, ProcessesDueNothing

(* A restart forgets the answers and disappoints those who wait.           *)
LEMMA RestartSignal ==
    ASSUME OwnershipInv, SignalsInv, HubRestart PROVE SignalsInv'
<1>1. /\ proc \in [Procs -> Process] /\ UNCHANGED <<agentRow, approvals, signals>>
      /\ proc' = [p \in Procs |-> IF proc[p].pc = "await"
                                  THEN [proc[p] EXCEPT !.pc = "backoff", !.slot = 0]
                                  ELSE proc[p]]
  BY DEF OwnershipInv, TypeOK, HubRestart, hubVars
<1>2. \A p \in Procs : /\ proc'[p].pc # "await" /\ proc'[p].token = proc[p].token
                       /\ proc'[p].approved = proc[p].approved
  BY <1>1 DEF Process
<1>3. ASSUME NEW p \in Procs, Unsignalled(p)' PROVE Unsignalled(p)
  BY <1>1, <1>2, <1>3 DEF Unsignalled, Awaits
<1> QED
  BY <1>1, <1>3, NothingDue

(* Every step keeps the signals within the approvals.                      *)
LEMMA SignalsNext == OwnershipInv /\ SignalsInv /\ [Next]_vars => SignalsInv'
<1> SUFFICES ASSUME OwnershipInv, SignalsInv, [Next]_vars PROVE SignalsInv'
  OBVIOUS
<1>1. ASSUME NEW s \in Slots, Handler(s) \/ handleRegisterCluster(s) PROVE SignalsInv'
  BY <1>1, ReadsSignal, IssueSignal, ApprovalsSignal, ResponseSignal DEF Handler
<1>2. ASSUME NEW p \in Procs, Agent(p) \/ Stop(p) PROVE SignalsInv'
  BY <1>2, AgentSignal, HeartbeatSignal, RegisterSignal DEF Agent
<1>3. CASE handleAgentApprove
  BY <1>3, ApprovalsSignal
<1>4. CASE handleDeleteCluster
  <2>1. ~agentRow'.approved /\ UNCHANGED <<approvals, signals>>
    BY <1>4 DEF handleDeleteCluster, NoRow
  <2> QED
    BY <2>1, NothingDue
<1>5. CASE handleRotateRegistrationToken \/ UNCHANGED vars
  <2>1. UNCHANGED <<agentRow, req, proc, approvals, signals>>
    BY <1>5 DEF handleRotateRegistrationToken, vars
  <2> QED
    BY <2>1, HandlersDueNothing
<1>6. CASE Faulty
  BY <1>6, AgentSignal, ReadsSignal, RestartSignal DEF Faulty
<1> QED
  BY <1>1, <1>2, <1>3, <1>4, <1>5, <1>6 DEF Next

-----------------------------------------------------------------------------

(* Every behaviour of the enrollment protocol keeps each token, request    *)
(* and response with the principal it was made for (handleAgentRegister,   *)
(* Registrar.Register).                                                    *)
THEOREM Ownership == Spec => []OwnershipInv
  BY OwnershipInit, OwnershipNext, PTL DEF Spec

(* The rows, requests and processes are always well formed; an agents row  *)
(* never outlives its clusters row (the foreign key in sqlite.go).         *)
THEOREM TypeCorrect == Spec => []TypeOK
<1>1. OwnershipInv => TypeOK
  BY DEF OwnershipInv
<1> QED
  BY <1>1, Ownership, PTL

(* No interleaving of registrations, retries, deletions, timeouts and      *)
(* restarts gives a cluster's credential to a principal other than the one *)
(* that created it (handleAgentRegister, IssueAgentToken).                 *)
THEOREM TakeoverImpossible == Spec => []NoTakeover
<1>1. OwnershipInv => NoTakeover
  BY DEF OwnershipInv
<1> QED
  BY <1>1, Ownership, PTL

(* Only the deletion of the cluster withdraws an approval: no other step,  *)
(* and no rotation of the agent token in particular, does (IssueAgentToken).*)
THEOREM ApprovalIsKept == Spec => ApprovalSurvivesRotation
<1>1. OwnershipInv /\ [Next]_vars
        => [cluster' = cluster /\ agentRow.approved => agentRow'.approved]_vars
  <2> SUFFICES ASSUME OwnershipInv, [Next]_vars, cluster' = cluster, agentRow.approved
               PROVE  agentRow'.approved
    OBVIOUS
  <2>1. CASE UNCHANGED agentRow
    BY <2>1
  <2>2. ASSUME NEW s \in Slots, IssueAgentToken(s) PROVE agentRow'.approved
    <3>1. \/ UNCHANGED agentRow
          \/ agentRow' = [agentRow EXCEPT !.token = Len(issuedTo) + 1]
      BY <2>2 DEF IssueAgentToken, upsertToken
    <3>2. agentRow \in [token : 0..Len(issuedTo), approved : BOOLEAN]
      BY DEF OwnershipInv, TypeOK
    <3> QED
      BY <3>1, <3>2
  <2>3. ASSUME NEW id, ApproveAgent(id) PROVE agentRow'.approved
    <3>1. agentRow \in [token : 0..Len(issuedTo), approved : BOOLEAN]
      BY DEF OwnershipInv, TypeOK
    <3> QED
      BY <2>3, <3>1 DEF ApproveAgent
  <2>4. CASE handleDeleteCluster
    BY <2>4 DEF handleDeleteCluster
  <2>5. \/ UNCHANGED agentRow
        \/ \E s \in Slots : IssueAgentToken(s)
        \/ \E id : ApproveAgent(id)
        \/ handleDeleteCluster
    BY DEF Next, vars, hubVars, Handler, Agent, Faulty, checkRegistrationAuth,
       findClusterByName, CreateCluster, validExistingAgentToken, readApproval,
       approveOperatorCluster, writeResponse, handleAgentApprove, handleRegisterCluster,
       handleRotateRegistrationToken, Start, Register, waitForRetry, Heartbeat, Stop,
       RequestTimesOut, HeartbeatFails, HandlerFails, HubRestart
  <2> QED
    BY <2>1, <2>2, <2>3, <2>4, <2>5
<1> QED
  BY <1>1, Ownership, PTL DEF Spec, ApprovalSurvivesRotation

(* A process is told to re-register at most once for each time an operator *)
(* approved its agent, whatever registrations fail, time out or race the   *)
(* approval (Registrar.Heartbeat, handleAgentRegister).                    *)
THEOREM SignalledOnce == Spec => []SignalOncePerApproval
<1>1. Init => SignalsInv
  BY DEF Init, SignalsInv, NoRow
<1>2. SignalsInv => SignalOncePerApproval
  BY DEF SignalsInv, SignalOncePerApproval
<1> QED
  BY <1>1, <1>2, Ownership, SignalsNext, PTL DEF Spec

(* Handlers that interleave, fail and are retried do to a name only what   *)
(* the registry of names allows (handleAgentRegister, handleRegisterCluster,*)
(* handleAgentApprove, handleDeleteCluster).                               *)
THEOREM RegistryImplemented == Spec => ImplementsRegistry
<1>1. Init => Registry!Init
  BY DEF Init, Registry!Init, NoRow
<1>2. OwnershipInv /\ [Next]_vars => [Registry!Next]_(Registry!vars)
  <2> SUFFICES ASSUME OwnershipInv, [Next]_vars
               PROVE  Registry!Next \/ UNCHANGED Registry!vars
    OBVIOUS
  <2>1. /\ agentRow \in [token : 0..Len(issuedTo), approved : BOOLEAN]
        /\ cluster = 0 => agentRow = NoRow
        /\ req \in [Slots -> Request]
        /\ ids \in Nat
    BY DEF OwnershipInv, TypeOK
  <2>2. ASSUME NEW s \in Slots, CreateCluster(s) PROVE Registry!Next \/ UNCHANGED Registry!vars
    <3>1. CASE cluster = 0
      <4>1. req[s].by \in Principals
        BY <2>1 DEF Request
      <4>2. Registry!Claim(req[s].by)
        BY <2>1, <2>2, <3>1 DEF CreateCluster, Registry!Claim
      <4> QED BY <4>1, <4>2 DEF Registry!Next
    <3>2. CASE cluster # 0
      BY <2>2, <3>2 DEF CreateCluster, Registry!vars
    <3> QED BY <3>1, <3>2
  <2>3. ASSUME NEW s \in Slots, IssueAgentToken(s) PROVE Registry!Next \/ UNCHANGED Registry!vars
    <3>1. CASE cluster = req[s].id
      <4>1. req[s].by \in Principals /\ req[s].by = creator /\ cluster # 0
        BY <2>1, <2>3, <3>1 DEF Request, OwnershipInv, IssuersCreated, IssueAgentToken
      <4>2. Registry!Issue(req[s].by)
        BY <2>1, <2>3, <3>1, <4>1 DEF IssueAgentToken, upsertToken, Registry!Issue
      <4> QED BY <4>1, <4>2 DEF Registry!Next
    <3>2. CASE cluster # req[s].id
      BY <2>3, <3>2 DEF IssueAgentToken, Registry!vars
    <3> QED BY <3>1, <3>2
  <2>4. ASSUME NEW id, ApproveAgent(id), UNCHANGED <<cluster, creator, issuedTo>>
        PROVE  Registry!Next
    <3>1. Registry!Approve
      BY <2>1, <2>4 DEF ApproveAgent, Registry!Approve
    <3> QED BY <3>1 DEF Registry!Next
  <2>5. CASE handleDeleteCluster
    <3>1. Registry!Release
      BY <2>5 DEF handleDeleteCluster, NoRow, Registry!Release
    <3> QED BY <3>1 DEF Registry!Next
  <2>6. CASE UNCHANGED <<cluster, creator, issuedTo, agentRow>>
    BY <2>6 DEF Registry!vars
  <2>7. ASSUME NEW s \in Slots, approveOperatorCluster(s)
        PROVE  Registry!Next \/ UNCHANGED Registry!vars
    <3>1. UNCHANGED <<cluster, creator, issuedTo>>
      BY <2>7 DEF approveOperatorCluster
    <3>2. ApproveAgent(req[s].id) \/ UNCHANGED agentRow
      BY <2>7 DEF approveOperatorCluster
    <3> QED BY <2>4, <2>6, <3>1, <3>2
  <2>8. CASE handleAgentApprove
    <3>1. ApproveAgent(cluster) /\ UNCHANGED <<cluster, creator, issuedTo>>
      BY <2>8 DEF handleAgentApprove
    <3> QED BY <2>4, <3>1
  <2> DEFINE Same == UNCHANGED <<cluster, creator, issuedTo, agentRow>>
  <2>9. ASSUME NEW s \in Slots, Handler(s) \/ handleRegisterCluster(s)
        PROVE  \/ Same
               \/ CreateCluster(s) \/ IssueAgentToken(s) \/ approveOperatorCluster(s)
    BY <2>9 DEF Handler, hubVars, checkRegistrationAuth, findClusterByName,
                validExistingAgentToken, readApproval, writeResponse, handleRegisterCluster
  <2>10. ASSUME NEW p \in Procs, Agent(p) \/ Stop(p) PROVE Same
    BY <2>10 DEF Agent, Stop, hubVars, Start, Register, waitForRetry, Heartbeat
  <2>11. ASSUME NEW p \in Procs, RequestTimesOut(p) \/ HeartbeatFails(p) PROVE Same
    BY <2>11 DEF RequestTimesOut, HeartbeatFails, hubVars
  <2>12. ASSUME NEW s \in Slots, HandlerFails(s) PROVE Same
    BY <2>12 DEF HandlerFails, hubVars
  <2>13. ASSUME HubRestart PROVE Same
    BY <2>13 DEF HubRestart, hubVars
  <2>14. ASSUME handleRotateRegistrationToken \/ UNCHANGED vars PROVE Same
    BY <2>14 DEF handleRotateRegistrationToken, vars
  <2> QED BY <2>2, <2>3, <2>5, <2>6, <2>7, <2>8, <2>9, <2>10, <2>11,
            <2>12, <2>13, <2>14 DEF Next, Faulty
<1> QED BY <1>1, <1>2, Ownership, PTL DEF Spec, ImplementsRegistry, Registry!Spec
=============================================================================
