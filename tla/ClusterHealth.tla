---------------------------- MODULE ClusterHealth ----------------------------
(***************************************************************************)
(* How the hub knows that a cluster is healthy, degraded or unreachable,   *)
(* and the alerts that follow: the staleness monitor                       *)
(* (internal/server/server.go), the handlers of an agent's heartbeats,     *)
(* snapshots and farewell (handlers_agents.go, handlers_clusters.go) and   *)
(* the alert manager's Evaluate (internal/alerts), for one cluster with an *)
(* approved agent.                                                         *)
(*                                                                         *)
(* Every task (a handler in a slot, or the monitor) reads the clusters row *)
(* and writes it in separate store calls, so tasks overwrite each other's  *)
(* results; each store call is one atomic step.  Alerts are evaluated on   *)
(* the copy the task holds.                                                *)
(*                                                                         *)
(* Time is counted in heartbeat intervals, and only ages are kept: how     *)
(* long ago the row's last_heartbeat, an alert's triggered_at or a task's  *)
(* last reading of the clock was.  Ages stop growing where the code can no *)
(* longer tell them apart, so behaviours are unbounded and states finite.  *)
(***************************************************************************)
EXTENDS Naturals, FiniteSets

CONSTANTS
    Slots,        \* handler goroutines in flight
    Monitor,      \* the goroutine of monitorStaleClusters
    HubFaults,    \* may store calls fail and the hub restart?
    StaleAfter,   \* missed intervals that make a cluster stale (3 in the code)
    Cooldown,     \* cooldown of the default alert rules, in intervals
    MaxDelay,     \* bound: intervals that pass between two reads of the clock
                  \* by one task
    Regimes       \* bound: the values of "regime"

ASSUME ConstantsAssumption ==
    /\ Monitor \notin Slots
    /\ HubFaults \in BOOLEAN
    /\ {StaleAfter, Cooldown, MaxDelay} \subseteq Nat
    /\ Regimes \subseteq [conditions : {{"healthy"}, {"healthy", "degraded"}}, delay : 0..MaxDelay]

VARIABLES
    row,       \* health and age of last_heartbeat in the clusters row
    task,      \* task[t]: the handler in slot t, or the monitor
    alerts,    \* the alerts of this cluster, without the resolved ones that
               \* are beyond their cooldown: nothing looks at those again
    agent,     \* is the agent "up", "cut" off or "gone" (deregistered)
    nodes,     \* what a snapshot taken now would say: "healthy" or "degraded"
    sent,      \* what the agent's tickers have sent in this interval
    calm,      \* intervals without a fault or a change of agent or nodes
    regime     \* bound: the conditions the cluster's nodes can be in, and
               \* the delay of a task

vars == <<row, task, alerts, agent, nodes, sent, calm, regime>>
environment == <<agent, nodes, sent, calm>>

Stale == StaleAfter + 1              \* any age beyond the cutoff
Never == Stale + 1                   \* last_heartbeat is NULL
AlertAge == Cooldown + MaxDelay      \* any age beyond the cooldown

(* Calm intervals after which the hub knows: MaxDelay for the handlers in   *)
(* flight, the missed ones, one for the check, and 3 * MaxDelay when it is  *)
(* late because the monitor is still evaluating the last one.               *)
Settled == StaleAfter + 2 + 4 * regime.delay

Healths == {"unknown", "healthy", "degraded", "unreachable"}
Rules == {"degraded", "unreachable"} \* the rules seedDefaultAlertRules installs
Tasks == Slots \cup {Monitor}
Requests == {"liveness", "report"}

Task == [pc : {"idle", "read", "write", "reread", "resolve", "create"},
         kind : Requests \cup {"deregister", "monitor"},
         health : Healths, at : 0..MaxDelay, awaited : BOOLEAN]
Idle == [pc |-> "idle", kind |-> "monitor", health |-> "unknown", at |-> 0,
         awaited |-> FALSE]

TypeOK ==
    /\ row \in [health : Healths, age : 0..Never]
    /\ row.age = Never => row.health = "unknown"
    /\ task \in [Tasks -> Task]
    /\ alerts \subseteq [health : Rules, age : 0..AlertAge, active : BOOLEAN]
    /\ agent \in {"up", "cut", "gone"}
    /\ regime \in Regimes
    /\ nodes \in regime.conditions
    /\ sent \subseteq Requests
    /\ calm \in 0..Settled

Init ==
    /\ row = [health |-> "unknown", age |-> Never]
    /\ task = [t \in Tasks |-> Idle]
    /\ alerts = {}
    /\ agent = "up"
    /\ nodes = "healthy"
    /\ sent = {}
    /\ calm = 0
    /\ regime \in Regimes

-----------------------------------------------------------------------------
(* What the agent and the hub's ticker start.                              *)

CheckStaleness ==
    [pc |-> "read", kind |-> "monitor", health |-> "unreachable", at |-> 0, awaited |-> FALSE]

Request(t, kind, health) ==
    task' = [task EXCEPT ![t] = [pc |-> "read", kind |-> kind, health |-> health, at |-> 0,
                                 awaited |-> TRUE]]

(* A heartbeat (handleAgentLiveness) or a report (handleClusterSnapshot,   *)
(* handleHeartbeat), whose health snapshotHealth derives from the nodes.   *)
(* runAgentLoop makes one request at a time.                               *)
Send(t, kind) ==
    /\ agent = "up"
    /\ kind \in Requests \ sent
    /\ \A u \in Slots : ~task[u].awaited
    /\ task[t].pc = "idle"
    /\ Request(t, kind, IF kind = "report" THEN nodes ELSE "unknown")
    /\ sent' = sent \cup {kind}
    /\ UNCHANGED <<row, alerts, agent, nodes, calm>>

(* Deregister, on graceful shutdown, which aborts the request in flight.   *)
Deregister(t) ==
    /\ agent = "up"
    /\ task[t].pc = "idle"
    /\ Request(t, "deregister", "unreachable")
    /\ agent' = "gone"
    /\ calm' = 0
    /\ UNCHANGED <<row, alerts, nodes, sent>>

-----------------------------------------------------------------------------
(* The tasks, one action per store call.                                   *)

Finish(t) == task' = [task EXCEPT ![t] = Idle]

(* Of the rest of its state a task goes on with what it needs.             *)
Goto(t, pc, health, at) ==
    task' = [task EXCEPT ![t] = [Idle EXCEPT !.pc = pc, !.health = health, !.at = at,
                                             !.awaited = task[t].awaited]]

(* clusterByIDOrName (and the token check, which changes nothing) of the   *)
(* handlers; a heartbeat will write back the health it has read here.      *)
readCluster(t) ==
    /\ task[t].pc = "read"
    /\ t # Monitor
    /\ task' = [task EXCEPT
          ![t].pc = "write",
          ![t].health = IF task[t].kind = "liveness" THEN row.health ELSE task[t].health]
    /\ UNCHANGED <<row, alerts, environment>>

(* Mutant: only the clusters last seen healthy are looked at.              *)
staleRow_HealthyOnly == row.age = Stale /\ row.health = "healthy"

(* The rows markStaleClusters does not skip.  The code compares with the   *)
(* time of the tick, which is at most MaxDelay before the listing compared  *)
(* with here: the model may mark a row one check before the code does.     *)
staleRow == row.age = Stale /\ row.health # "unreachable"

listStaleClusters(t) ==
    /\ task[t].pc = "read"
    /\ t = Monitor
    /\ IF staleRow
         THEN task' = [task EXCEPT ![t].pc = "write"]
         ELSE Finish(t)
    /\ UNCHANGED <<row, alerts, environment>>

(* The store's UpdateHealth: no write looks at what it overwrites.         *)
storeHealth(health, age) ==
    row' = [health |-> health, age |-> IF age < Stale THEN age ELSE Stale]

(* UpdateHealth of the handlers, and ReplaceSnapshot's part of it; "now"   *)
(* was read somewhere between the read of the row and this write.          *)
UpdateHealth(t) ==
    /\ task[t].pc = "write"
    /\ t # Monitor
    /\ \E now \in 0..task[t].at : storeHealth(task[t].health, now)
    /\ CASE task[t].kind = "liveness" -> Finish(t)
         [] task[t].kind = "report" -> Goto(t, "reread", "unknown", task[t].at)
         [] task[t].kind = "deregister" -> Goto(t, "resolve", task[t].health, 0)
    /\ UNCHANGED <<alerts, environment>>

(* The monitor's UpdateHealth puts the last_heartbeat it has read back.    *)
markStaleClusters(t) ==
    /\ task[t].pc = "write"
    /\ t = Monitor
    /\ storeHealth("unreachable", Stale)
    /\ Goto(t, "resolve", "unreachable", 0)
    /\ UNCHANGED <<alerts, environment>>

(* A report evaluates the row as it now is.                                *)
rereadCluster(t) ==
    /\ task[t].pc = "reread"
    /\ Goto(t, "resolve", row.health, 0)
    /\ UNCHANGED <<row, alerts, environment>>

relevant(as) == {a \in as : a.active \/ a.age < AlertAge}

(* Mutant: alerts for states the cluster has left stay active.             *)
resolved_Nothing(health) == alerts

(* ResolveClusterAlerts(health).                                           *)
resolved(health) ==
    relevant({[a EXCEPT !.active = @ /\ a.health = health] : a \in alerts})

(* Mutant: a rule applies whatever its health.                             *)
matchesRule_AnyHealth(health) == TRUE

(* Some rule is for this health (each of the default rules is enabled).    *)
matchesRule(health) == health \in Rules

(* The first store call of Evaluate; its clock was read just before.       *)
ResolveClusterAlerts(t) ==
    /\ task[t].pc = "resolve"
    /\ alerts' = resolved(task[t].health)
    /\ IF matchesRule(task[t].health)
         THEN \E now \in 0..task[t].at : Goto(t, "create", task[t].health, now)
         ELSE Finish(t)
    /\ UNCHANGED <<row, environment>>

(* Mutant: only alerts that are still active are looked up.                *)
due_ActiveOnly(health, at) ==
    \A a \in alerts : a.health = health /\ a.active => a.age >= at + Cooldown

(* The cooldown check: no alert of this dedupe key was triggered less than *)
(* Cooldown before "at".                                                   *)
due(health, at) ==
    \A a \in alerts : a.health = health => a.age >= at + Cooldown

CreateAlertIfDue(t) ==
    /\ task[t].pc = "create"
    /\ alerts' = IF due(task[t].health, task[t].at)
                 THEN alerts \cup {[health |-> task[t].health, age |-> task[t].at, active |-> TRUE]}
                 ELSE alerts
    /\ Finish(t)
    /\ UNCHANGED <<row, environment>>

TaskStep(t) ==
    \/ readCluster(t)
    \/ listStaleClusters(t)
    \/ UpdateHealth(t)
    \/ markStaleClusters(t)
    \/ rereadCluster(t)
    \/ ResolveClusterAlerts(t)
    \/ CreateAlertIfDue(t)

-----------------------------------------------------------------------------
(* The environment.                                                        *)

(* A request is lost, or the agent fails to collect the state it reports.  *)
Lose(kind) ==
    /\ agent = "up"
    /\ kind \in Requests \ sent
    /\ sent' = sent \cup {kind}
    /\ calm' = 0
    /\ UNCHANGED <<row, task, alerts, agent, nodes>>

(* The agent's HTTP client gives up on a request; its handler runs on.     *)
RequestTimesOut(t) ==
    /\ task[t].awaited
    /\ task' = [task EXCEPT ![t].awaited = FALSE]
    /\ calm' = 0
    /\ UNCHANGED <<row, alerts, agent, nodes, sent>>

(* A store call fails and the task gives up.                               *)
TaskFails(t) ==
    /\ HubFaults
    /\ task[t].pc # "idle"
    /\ Finish(t)
    /\ calm' = 0
    /\ UNCHANGED <<row, alerts, agent, nodes, sent>>

HubRestart ==
    /\ HubFaults
    /\ task' = [t \in Tasks |-> Idle]
    /\ calm' = 0
    /\ UNCHANGED <<row, alerts, agent, nodes, sent>>

(* The agent, or the network to it, goes away without a word, and returns. *)
Disconnect ==
    /\ agent = "up"
    /\ agent' = "cut"
    /\ calm' = 0
    /\ UNCHANGED <<row, task, alerts, nodes, sent>>

Reconnect ==
    /\ agent = "cut"
    /\ agent' = "up"
    /\ calm' = 0
    /\ UNCHANGED <<row, task, alerts, nodes, sent>>

NodesChange ==
    /\ nodes' \in regime.conditions \ {nodes}
    /\ calm' = 0
    /\ UNCHANGED <<row, task, alerts, agent, sent>>

Capped(n, cap) == IF n < cap THEN n + 1 ELSE n

(* One heartbeat interval ends: the agent's tickers have fired in it, no   *)
(* task keeps an older reading of the clock than allowed, and the ticker  *)
(* of monitorStaleClusters fires, unless the last check is still running.  *)
(* (A Go ticker keeps one tick for that case.  The check it starts as soon *)
(* as the last one ends is left out: it compares with the time of the tick *)
(* that was kept, and what it marks the next check marks as well.)         *)
Tick ==
    /\ agent = "up" => sent = Requests
    /\ \A t \in Tasks : task[t].pc # "idle" => task[t].at < regime.delay
    /\ row' = [row EXCEPT !.age = IF @ = Never THEN @ ELSE Capped(@, Stale)]
    /\ task' = [t \in Tasks |->
                    IF task[t].pc # "idle" THEN [task[t] EXCEPT !.at = @ + 1]
                    ELSE IF t = Monitor THEN CheckStaleness
                    ELSE Idle]
    /\ alerts' = relevant({[a EXCEPT !.age = Capped(@, AlertAge)] : a \in alerts})
    /\ sent' = {}
    /\ calm' = Capped(calm, Settled)
    /\ UNCHANGED <<agent, nodes>>

Next ==
    /\ \/ \E t \in Slots :
             Deregister(t) \/ RequestTimesOut(t) \/ \E kind \in Requests : Send(t, kind)
       \/ \E t \in Tasks : TaskStep(t) \/ TaskFails(t)
       \/ \E kind \in Requests : Lose(kind)
       \/ HubRestart
       \/ Disconnect
       \/ Reconnect
       \/ NodesChange
       \/ Tick
    /\ UNCHANGED regime

Spec == Init /\ [][Next]_vars

-----------------------------------------------------------------------------
(* Properties.                                                             *)

(* The agent has sent nothing, or only healthy reports, for long.          *)
Silent == agent # "up" /\ calm = Settled
Steady == agent = "up" /\ nodes = "healthy" /\ calm = Settled

(* A cluster the hub has heard of whose agent falls silent is unreachable  *)
(* after StaleAfter missed intervals and the time one check takes, however *)
(* late handlers and the monitor interleave (markStaleClusters).           *)
SilentIsUnreachable ==
    Silent /\ row.age # Never => row.health = "unreachable"

(* A cluster that has been healthy and reporting for long enough is shown  *)
(* as healthy and has no active alert, whatever the hub believed before    *)
(* (handleClusterSnapshot, Evaluate).                                      *)
SteadyIsHealthy ==
    Steady => row.health = "healthy" /\ \A a \in alerts : ~a.active

(* Alerts of one rule are at least its cooldown apart, although concurrent *)
(* evaluations insert them out of order (CreateAlertIfDue).                *)
AlertsSpaced ==
    \A a, b \in alerts :
        a # b /\ a.health = b.health /\ a.age <= b.age =>
            \/ b.age >= a.age + Cooldown
            \/ b.age = AlertAge

(* docs/operations.md: the hub raises unreachable alerts after three       *)
(* missed heartbeats.  A cluster that has been silent for long has one, or *)
(* had its last one so recently that the cooldown of docs/alerts.md        *)
(* suppresses another (markStaleClusters, CreateAlertIfDue).               *)
SilentIsAlerted ==
    Silent /\ row.age # Never =>
        \E a \in alerts : a.health = "unreachable" /\ (a.active \/ a.age < Cooldown)
=============================================================================
