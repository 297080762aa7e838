------------------------ MODULE ClusterHealth_proofs ------------------------
(***************************************************************************)
(* Theorems about ClusterHealth, for any number of handlers, any delay,    *)
(* cooldown and number of missed intervals.                                *)
(***************************************************************************)
EXTENDS ClusterHealth, TLAPS

(* What a task holds besides its types: nobody but a handler has a kind,   *)
(* none is later than the regime lets it be, and only tasks that a rule is *)
(* for create alerts.                                                      *)
TasksInv ==
    /\ task[Monitor].kind = "monitor" /\ ~task[Monitor].awaited
    /\ task[Monitor].pc # "reread"
    /\ \A t \in Slots : task[t].pc \in {"read", "write"} => task[t].kind # "monitor"
    /\ \A t \in Tasks :
          /\ task[t].at <= regime.delay
          /\ task[t].pc = "idle" => ~task[t].awaited
          /\ task[t].pc = "create" => task[t].health \in Rules

(* A report or a heartbeat is awaited by an agent that waits for no other. *)
OneAwaited ==
    agent # "gone" =>
        /\ \A t, u \in Slots : task[t].awaited /\ task[u].awaited => t = u
        /\ \A t \in Slots : task[t].pc \in {"read", "write"} => task[t].kind # "deregister"

-----------------------------------------------------------------------------
(* SilentIsUnreachable is not inductive: it only speaks of the end of the  *)
(* calm.  What is true on the way there is how late everyone can be.       *)

(* The handlers of a silent agent are older than the calm,                 *)
SilentHandlers ==
    \A t \in Slots : task[t].pc \in {"read", "write"} => task[t].at >= calm

(* so that the heartbeat they write is at most their delay younger,        *)
SilentRow == row.age < Stale => calm <= row.age + regime.delay

(* and the monitor, if its work is not done, or undone by a late handler,  *)
(* has its check before it.                                                *)
SilentMonitor ==
    LET m == task[Monitor] IN
    row.age # Never /\ row.health # "unreachable" =>
        /\ m.pc = "idle" => calm <= StaleAfter + 3 * regime.delay
        /\ m.pc \in {"read", "write"} => calm <= StaleAfter + 3 * regime.delay + 1 + m.at
        /\ m.pc = "resolve" => calm <= regime.delay + m.at
        /\ m.pc = "create" => calm <= 2 * regime.delay + m.at

SilentInv == agent # "up" => SilentHandlers /\ SilentRow /\ SilentMonitor

-----------------------------------------------------------------------------
(* SteadyIsHealthy needs more: requests that arrive one after the other    *)
(* while handlers that were given up, and the monitor, work on what they   *)
(* have read before.                                                       *)

Awaited == {t \in Slots : task[t].awaited}

(* Handlers whose agent has timed out are older than the calm.             *)
GivenUp ==
    \A t \in Slots \ Awaited :
        /\ task[t].pc \in {"read", "write", "reread"} => task[t].at >= calm
        /\ task[t].pc = "resolve" => calm <= regime.delay + task[t].at
        /\ task[t].pc = "create" => calm <= 2 * regime.delay + task[t].at

(* The others were sent in this interval, or at the end of the last one.   *)
SentLately ==
    \A t \in Awaited : task[t].pc \in {"read", "write", "reread"} =>
        \/ task[t].at >= calm
        \/ task[t].at = 0
        \/ task[t].at = 1 /\ sent = {}

SentHealthy ==
    \A t \in Awaited : task[t].pc \in {"read", "write"} /\ task[t].kind = "report" =>
        task[t].at >= calm \/ task[t].health = "healthy"

Marked(age) == row.age <= age \/ row.health = "unreachable"

(* The first request of an interval is through before the second is sent,  *)
(* so the row never grows stale,                                           *)
RowFresh ==
    /\ calm > regime.delay /\ sent # {} =>
          \/ Marked(0)
          \/ sent # Requests /\ \E t \in Awaited : task[t].pc \in {"read", "write"}
    /\ calm > regime.delay + 1 => Marked(1)

(* and a monitor that has found it stale did so long ago.                  *)
SteadyMonitor ==
    LET m == task[Monitor] IN
    /\ m.pc = "write" => calm <= regime.delay + 1 + m.at
    /\ m.pc = "resolve" => calm <= 2 * regime.delay + 1 + m.at
    /\ m.pc = "create" => calm <= 3 * regime.delay + 1 + m.at

(* The row is healthy and nobody has read anything else to write back.     *)
HealthyRow ==
    /\ row.health = "healthy"
    /\ \A t \in Awaited : task[t].pc = "write" => task[t].health = "healthy"

Reporting == \E t \in Awaited : task[t].kind = "report" /\ task[t].pc \in {"read", "write"}

(* A report that is sent after the monitor's last mark is stored.          *)
RowHealthy ==
    /\ calm >= 2 * regime.delay + 2 /\ "report" \in sent => HealthyRow \/ Reporting
    /\ calm >= 2 * regime.delay + 3 => HealthyRow \/ (sent = {} /\ Reporting)
    /\ calm >= 2 * regime.delay + 4 => HealthyRow

(* From then on reports evaluate a healthy row,                            *)
Alarmed(t) == task[t].pc \in {"resolve", "create"} /\ task[t].health \in Rules

NoAlarms ==
    /\ calm >= 2 * regime.delay + 3 =>
          \A t \in Awaited : Alarmed(t) => sent = {} /\ regime.delay > 0
    /\ calm >= 2 * regime.delay + 4 => \A t \in Awaited : ~Alarmed(t)

NoActive == \A a \in alerts : ~a.active
Evaluating == Reporting \/ \E t \in Awaited : task[t].pc \in {"reread", "resolve"}

(* and the first one that is sent when nobody evaluates an old row any     *)
(* more resolves what is left of the alerts.                               *)
AlertsResolved ==
    /\ calm >= 4 * regime.delay + 3 /\ "report" \in sent => NoActive \/ Evaluating
    /\ calm >= 4 * regime.delay + 4 => NoActive \/ (sent = {} /\ Evaluating)
    /\ calm >= 4 * regime.delay + 5 => NoActive

SteadyInv ==
    agent = "up" /\ nodes = "healthy" =>
        /\ GivenUp
        /\ SentLately
        /\ SentHealthy
        /\ RowFresh
        /\ SteadyMonitor
        /\ RowHealthy
        /\ NoAlarms
        /\ AlertsResolved

HandlersInv == TypeOK /\ TasksInv /\ OneAwaited

-----------------------------------------------------------------------------
(* What a step does to one task.                                           *)

Becomes(t, new) ==
    /\ task' \in [Tasks -> Task]
    /\ task'[t] = new
    /\ \A u \in Tasks \ {t} : task'[u] = task[u]

(* The numbers that the types speak of are natural.                        *)
LEMMA Numbers ==
    /\ {StaleAfter, Cooldown, MaxDelay, Stale, Never, AlertAge} \subseteq Nat
    /\ Stale = StaleAfter + 1 /\ Never = StaleAfter + 2
    /\ AlertAge = Cooldown + MaxDelay
    /\ Regimes \subseteq [conditions : {{"healthy"}, {"healthy", "degraded"}}, delay : 0..MaxDelay]
    /\ Monitor \notin Slots
BY ConstantsAssumption DEF Stale, Never, AlertAge

(* A task that ends is idle.                                               *)
LEMMA FinishBecomes ==
    ASSUME TypeOK, NEW t \in Tasks, Finish(t)
    PROVE  Becomes(t, Idle)
BY Numbers DEF TypeOK, Finish, Becomes, Idle, Task, Healths

(* A task that goes on keeps only whether it is awaited.                   *)
LEMMA GotoBecomes ==
    ASSUME TypeOK, NEW t \in Tasks, NEW pc \in {"reread", "resolve", "create"},
           NEW health \in Healths, NEW at \in 0..MaxDelay, Goto(t, pc, health, at)
    PROVE  Becomes(t, [pc |-> pc, kind |-> "monitor", health |-> health, at |-> at,
                       awaited |-> task[t].awaited])
BY Numbers DEF TypeOK, Goto, Becomes, Idle, Task

(* A request starts with a reading of the clock.                           *)
LEMMA RequestBecomes ==
    ASSUME TypeOK, NEW t \in Tasks, NEW kind \in Requests \cup {"deregister"},
           NEW health \in Healths, Request(t, kind, health)
    PROVE  Becomes(t, [pc |-> "read", kind |-> kind, health |-> health, at |-> 0,
                       awaited |-> TRUE])
<1> DEFINE new == [pc |-> "read", kind |-> kind, health |-> health, at |-> 0, awaited |-> TRUE]
<1>1. new \in Task
  BY Numbers DEF Task
<1>2. task' = [task EXCEPT ![t] = new]
  BY DEF Request
<1>3. task \in [Tasks -> Task]
  BY DEF TypeOK
<1> HIDE DEF new
<1>4. Becomes(t, new)
  BY <1>1, <1>2, <1>3 DEF Becomes
<1> QED BY <1>4 DEF new

-----------------------------------------------------------------------------
(* The handlers and their types.                                           *)

(* What the types say of one task.                                         *)
LEMMA TaskFacts ==
    ASSUME HandlersInv
    PROVE  /\ regime.delay \in 0..MaxDelay /\ regime.delay \in Nat
           /\ calm \in Nat /\ row.age \in 0..Never /\ row.health \in Healths
           /\ \A t \in Tasks :
                /\ task[t].pc \in {"idle", "read", "write", "reread", "resolve", "create"}
                /\ task[t].kind \in Requests \cup {"deregister", "monitor"}
                /\ task[t].health \in Healths
                /\ task[t].at \in 0..MaxDelay /\ task[t].at \in 0..regime.delay
                /\ task[t].awaited \in BOOLEAN
BY Numbers DEF HandlersInv, TypeOK, TasksInv, Task, Settled

(* One task changes and the others do not: what is to show of it for the   *)
(* invariants on tasks.                                                    *)
LEMMA TasksKept ==
    ASSUME HandlersInv, NEW t \in Tasks, NEW new \in Task, Becomes(t, new),
           UNCHANGED <<agent, regime>>,
           new.at <= regime.delay,
           new.pc = "idle" => ~new.awaited,
           new.pc = "create" => new.health \in Rules,
           new.awaited => task[t].awaited,
           t = Monitor => new.kind = "monitor" /\ new.pc # "reread",
           t # Monitor /\ new.pc \in {"read", "write"} => new.kind = task[t].kind /\ task[t].pc \in {"read", "write"}
    PROVE  task' \in [Tasks -> Task] /\ TasksInv' /\ OneAwaited'
<1> USE DEF HandlersInv, Becomes
<1>1. TasksInv'
  BY Numbers DEF TasksInv, Tasks
<1>2. OneAwaited'
  BY Numbers DEF OneAwaited, Tasks, TasksInv
<1> QED BY <1>1, <1>2

-----------------------------------------------------------------------------
(* What the steps of the tasks do.                                         *)

At(pc, kind, health, at, awaited) ==
    [pc |-> pc, kind |-> kind, health |-> health, at |-> at, awaited |-> awaited]

(* The fields of such a record.                                            *)
LEMMA Fields ==
    /\ \A pc, kind, health, at, awaited :
          /\ At(pc, kind, health, at, awaited).pc = pc
          /\ At(pc, kind, health, at, awaited).kind = kind
          /\ At(pc, kind, health, at, awaited).health = health
          /\ At(pc, kind, health, at, awaited).at = at
          /\ At(pc, kind, health, at, awaited).awaited = awaited
    /\ Idle.pc = "idle" /\ Idle.kind = "monitor" /\ Idle.health = "unknown" /\ Idle.at = 0
    /\ Idle.awaited = FALSE
    /\ Idle \in Task
BY Numbers DEF At, Idle, Task, Healths

(* A handler goes on to write what it was sent, or what it has read.       *)
LEMMA ReadBecomes ==
    ASSUME HandlersInv, NEW t \in Tasks, readCluster(t)
    PROVE  /\ t \in Slots /\ task[t].pc = "read"
           /\ Becomes(t, At("write", task[t].kind,
                            IF task[t].kind = "liveness" THEN row.health ELSE task[t].health,
                            task[t].at, task[t].awaited))
           /\ UNCHANGED <<row, alerts, agent, nodes, sent, calm>>
<1>1. t \in Slots /\ task[t].pc = "read" /\ UNCHANGED <<row, alerts, agent, nodes, sent, calm>>
  BY DEF readCluster, Tasks, environment
<1>2. task \in [Tasks -> Task] /\ row.health \in Healths
  BY DEF HandlersInv, TypeOK
<1> DEFINE h == IF task[t].kind = "liveness" THEN row.health ELSE task[t].health
<1>3. h \in Healths
  BY <1>2 DEF Task
<1>4. task' = [[task EXCEPT ![t].pc = "write"] EXCEPT ![t].health = h]
  BY DEF readCluster
<1> HIDE DEF h
<1>5. Becomes(t, At("write", task[t].kind, h, task[t].at, task[t].awaited))
  BY <1>2, <1>3, <1>4, ZenonT(30) DEF Becomes, At, Task
<1> QED BY <1>1, <1>5 DEF h

(* The monitor goes on if the row is stale, and is idle otherwise.         *)
LEMMA ListBecomes ==
    ASSUME HandlersInv, NEW t \in Tasks, listStaleClusters(t)
    PROVE  /\ t = Monitor /\ task[t].pc = "read"
           /\ \/ staleRow /\ Becomes(t, At("write", task[t].kind, task[t].health, task[t].at, task[t].awaited))
              \/ ~staleRow /\ Becomes(t, Idle)
           /\ UNCHANGED <<row, alerts, agent, nodes, sent, calm>>
<1>1. t = Monitor /\ task[t].pc = "read" /\ UNCHANGED <<row, alerts, agent, nodes, sent, calm>>
  BY DEF listStaleClusters, environment
<1>2. task \in [Tasks -> Task]
  BY DEF HandlersInv, TypeOK
<1>3. CASE staleRow
  <2>1. task' = [task EXCEPT ![t].pc = "write"]
    BY <1>3 DEF listStaleClusters
  <2>2. Becomes(t, At("write", task[t].kind, task[t].health, task[t].at, task[t].awaited))
    BY <1>2, <2>1 DEF Becomes, At, Task
  <2> QED BY <1>1, <1>3, <2>2
<1>4. CASE ~staleRow
  <2>1. Becomes(t, Idle)
    BY <1>4, FinishBecomes DEF listStaleClusters, HandlersInv
  <2> QED BY <1>1, <1>4, <2>1
<1> QED BY <1>3, <1>4

(* What a handler writes is not older than it is.                          *)
LEMMA UpdateBecomes ==
    ASSUME HandlersInv, NEW t \in Tasks, UpdateHealth(t)
    PROVE  /\ t \in Slots /\ task[t].pc = "write"
           /\ row' \in [health : Healths, age : 0..Stale]
           /\ row'.health = task[t].health /\ row'.age <= task[t].at
           /\ \/ task[t].kind = "liveness" /\ Becomes(t, Idle)
              \/ task[t].kind = "report"
                 /\ Becomes(t, At("reread", "monitor", "unknown", task[t].at, task[t].awaited))
              \/ task[t].kind = "deregister"
                 /\ Becomes(t, At("resolve", "monitor", task[t].health, 0, task[t].awaited))
           /\ UNCHANGED <<alerts, agent, nodes, sent, calm>>
<1>1. t \in Slots /\ task[t].pc = "write" /\ UNCHANGED <<alerts, agent, nodes, sent, calm>>
  BY DEF UpdateHealth, Tasks, environment
<1>2. TypeOK /\ task[t].health \in Healths /\ task[t].at \in 0..MaxDelay
      /\ 0 \in 0..MaxDelay /\ "unknown" \in Healths
  BY Numbers, TaskFacts DEF HandlersInv, Healths
<1>3. PICK now \in 0..task[t].at : storeHealth(task[t].health, now)
  BY DEF UpdateHealth
<1>4. /\ row' \in [health : Healths, age : 0..Stale]
      /\ row'.health = task[t].health /\ row'.age <= task[t].at
  BY <1>2, <1>3, Numbers DEF storeHealth
<1>5. task[t].kind \in {"liveness", "report", "deregister"}
  BY <1>1, TaskFacts DEF HandlersInv, TasksInv, Requests
<1>6. CASE task[t].kind = "liveness"
  <2>1. Finish(t)
    BY <1>6 DEF UpdateHealth
  <2> QED BY <1>1, <1>2, <1>4, <1>6, <2>1, FinishBecomes
<1>7. CASE task[t].kind = "report"
  <2>1. Goto(t, "reread", "unknown", task[t].at)
    BY <1>7 DEF UpdateHealth
  <2> QED BY <1>1, <1>2, <1>4, <1>7, <2>1, GotoBecomes DEF At
<1>8. CASE task[t].kind = "deregister"
  <2>1. Goto(t, "resolve", task[t].health, 0)
    BY <1>8 DEF UpdateHealth
  <2> QED BY <1>1, <1>2, <1>4, <1>8, <2>1, GotoBecomes DEF At
<1> QED BY <1>5, <1>6, <1>7, <1>8

(* The monitor marks the cluster.                                          *)
LEMMA MarkBecomes ==
    ASSUME HandlersInv, NEW t \in Tasks, markStaleClusters(t)
    PROVE  /\ t = Monitor /\ task[t].pc = "write"
           /\ row' = [health |-> "unreachable", age |-> Stale]
           /\ Becomes(t, At("resolve", "monitor", "unreachable", 0, task[t].awaited))
           /\ UNCHANGED <<alerts, agent, nodes, sent, calm>>
<1>1. t = Monitor /\ task[t].pc = "write" /\ UNCHANGED <<alerts, agent, nodes, sent, calm>>
      /\ row' = [health |-> "unreachable", age |-> Stale]
  BY Numbers DEF markStaleClusters, environment, storeHealth
<1>2. Becomes(t, At("resolve", "monitor", "unreachable", 0, task[t].awaited))
  BY Numbers, GotoBecomes DEF markStaleClusters, HandlersInv, Healths, At
<1> QED BY <1>1, <1>2

(* A report goes on with what the row says.                                *)
LEMMA RereadBecomes ==
    ASSUME HandlersInv, NEW t \in Tasks, rereadCluster(t)
    PROVE  /\ task[t].pc = "reread"
           /\ Becomes(t, At("resolve", "monitor", row.health, 0, task[t].awaited))
           /\ UNCHANGED <<row, alerts, agent, nodes, sent, calm>>
<1>1. task[t].pc = "reread" /\ UNCHANGED <<row, alerts, agent, nodes, sent, calm>>
  BY DEF rereadCluster, environment
<1>2. row.health \in Healths
  BY TaskFacts
<1>3. Becomes(t, At("resolve", "monitor", row.health, 0, task[t].awaited))
  BY <1>2, Numbers, GotoBecomes DEF rereadCluster, HandlersInv, At
<1> QED BY <1>1, <1>3

(* An evaluation goes on if there is a rule for the health.                *)
LEMMA ResolveBecomes ==
    ASSUME HandlersInv, NEW t \in Tasks, ResolveClusterAlerts(t)
    PROVE  /\ task[t].pc = "resolve"
           /\ alerts' = resolved(task[t].health)
           /\ \/ task[t].health \notin Rules /\ Becomes(t, Idle)
              \/ /\ task[t].health \in Rules
                 /\ \E now \in 0..task[t].at :
                       Becomes(t, At("create", "monitor", task[t].health, now, task[t].awaited))
           /\ UNCHANGED <<row, agent, nodes, sent, calm>>
<1>1. /\ task[t].pc = "resolve" /\ alerts' = resolved(task[t].health)
      /\ UNCHANGED <<row, agent, nodes, sent, calm>>
  BY DEF ResolveClusterAlerts, environment
<1>2. TypeOK /\ task[t].health \in Healths /\ 0..task[t].at \subseteq 0..MaxDelay
  BY Numbers, TaskFacts DEF HandlersInv
<1>3. CASE task[t].health \in Rules
  <2>1. PICK now \in 0..task[t].at : Goto(t, "create", task[t].health, now)
    BY <1>3 DEF ResolveClusterAlerts, matchesRule
  <2> QED BY <1>1, <1>2, <1>3, <2>1, GotoBecomes DEF At
<1>4. CASE task[t].health \notin Rules
  <2>1. Finish(t)
    BY <1>4 DEF ResolveClusterAlerts, matchesRule
  <2> QED BY <1>1, <1>2, <1>4, <2>1, FinishBecomes
<1> QED BY <1>3, <1>4

(* The last step adds an alert, or not.                                    *)
LEMMA CreateBecomes ==
    ASSUME HandlersInv, NEW t \in Tasks, CreateAlertIfDue(t)
    PROVE  /\ task[t].pc = "create"
           /\ Becomes(t, Idle)
           /\ UNCHANGED <<row, agent, nodes, sent, calm>>
BY FinishBecomes DEF CreateAlertIfDue, environment, HandlersInv

(* A request is sent when no other is awaited.                             *)
LEMMA SendBecomes ==
    ASSUME HandlersInv, NEW t \in Slots, NEW kind \in Requests, Send(t, kind)
    PROVE  /\ agent = "up" /\ kind \notin sent /\ sent' = sent \cup {kind}
           /\ \A u \in Slots : ~task[u].awaited
           /\ task[t].pc = "idle"
           /\ Becomes(t, At("read", kind, IF kind = "report" THEN nodes ELSE "unknown", 0, TRUE))
           /\ UNCHANGED <<row, alerts, agent, nodes, calm>>
<1>1. /\ agent = "up" /\ kind \notin sent /\ sent' = sent \cup {kind}
      /\ \A u \in Slots : ~task[u].awaited
      /\ task[t].pc = "idle"
      /\ UNCHANGED <<row, alerts, agent, nodes, calm>>
  BY DEF Send
<1> DEFINE h == IF kind = "report" THEN nodes ELSE "unknown"
<1>2. h \in Healths /\ t \in Tasks /\ TypeOK /\ kind \in Requests \cup {"deregister"}
  BY Numbers DEF HandlersInv, TypeOK, Healths, Tasks
<1>3. Request(t, kind, h)
  BY DEF Send
<1> HIDE DEF h
<1>4. Becomes(t, At("read", kind, h, 0, TRUE))
  BY <1>2, <1>3, RequestBecomes DEF At
<1> QED BY <1>1, <1>4 DEF h

(* Everyone is an interval older, and the monitor starts if it is idle.    *)
LEMMA TickBecomes ==
    ASSUME HandlersInv, Tick
    PROVE  /\ agent = "up" => sent = Requests
           /\ sent' = {} /\ UNCHANGED <<agent, nodes>>
           /\ calm' \in 0..Settled /\ calm' <= calm + 1
           /\ row' \in [health : Healths, age : 0..Never]
           /\ row'.health = row.health
           /\ row'.age = IF row.age >= Stale THEN row.age ELSE row.age + 1
           /\ task' \in [Tasks -> Task]
           /\ \A t \in Tasks :
                /\ task[t].pc # "idle" =>
                      /\ task[t].at < regime.delay
                      /\ task'[t] = At(task[t].pc, task[t].kind, task[t].health, task[t].at + 1,
                                       task[t].awaited)
                /\ task[t].pc = "idle" /\ t = Monitor =>
                      task'[t] = At("read", "monitor", "unreachable", 0, FALSE)
                /\ task[t].pc = "idle" /\ t # Monitor => task'[t] = Idle
<1>1. /\ agent = "up" => sent = Requests
      /\ sent' = {} /\ UNCHANGED <<agent, nodes>>
  BY DEF Tick
<1>2. calm' \in 0..Settled /\ calm' <= calm + 1
  <2>1. calm \in 0..Settled /\ Settled \in Nat
    BY Numbers, TaskFacts DEF HandlersInv, TypeOK, Settled
  <2> QED BY <2>1 DEF Tick, Capped
<1>3. /\ row' \in [health : Healths, age : 0..Never]
      /\ row'.health = row.health
      /\ row'.age = IF row.age >= Stale THEN row.age ELSE row.age + 1
  <2>1. row \in [health : Healths, age : 0..Never]
    BY DEF HandlersInv, TypeOK
  <2> DEFINE older == IF row.age = Never THEN row.age ELSE Capped(row.age, Stale)
  <2>2. row' = [row EXCEPT !.age = older]
    BY DEF Tick
  <2>3. older = IF row.age >= Stale THEN row.age ELSE row.age + 1
    BY <2>1, Numbers DEF Capped
  <2> HIDE DEF older
  <2> QED BY <2>1, <2>2, <2>3, Numbers
<1>4. \A t \in Tasks : task[t].pc # "idle" => task[t].at < regime.delay
  BY DEF Tick
<1> DEFINE new(t) == IF task[t].pc # "idle" THEN [task[t] EXCEPT !.at = task[t].at + 1]
                     ELSE IF t = Monitor THEN CheckStaleness
                     ELSE Idle
<1>5. task' = [t \in Tasks |-> new(t)]
  BY DEF Tick
<1>6. ASSUME NEW t \in Tasks
      PROVE  /\ new(t) \in Task
             /\ task[t].pc # "idle" =>
                   new(t) = At(task[t].pc, task[t].kind, task[t].health, task[t].at + 1,
                               task[t].awaited)
             /\ task[t].pc = "idle" /\ t = Monitor =>
                   new(t) = At("read", "monitor", "unreachable", 0, FALSE)
             /\ task[t].pc = "idle" /\ t # Monitor => new(t) = Idle
  <2>1. task[t] \in Task /\ regime.delay \in 0..MaxDelay
    BY TaskFacts DEF HandlersInv, TypeOK
  <2>2. CASE task[t].pc # "idle"
    <3>1. task[t].at + 1 \in 0..MaxDelay
      BY <1>4, <2>1, <2>2, Numbers DEF Task
    <3>2. new(t) = [task[t] EXCEPT !.at = task[t].at + 1]
      BY <2>2
    <3> HIDE DEF new
    <3> QED BY <2>1, <2>2, <3>1, <3>2 DEF Task, At
  <2>3. CASE task[t].pc = "idle" /\ t = Monitor
    <3>1. new(t) = CheckStaleness
      BY <2>3
    <3> HIDE DEF new
    <3>2. CheckStaleness = At("read", "monitor", "unreachable", 0, FALSE)
      BY DEF CheckStaleness, At
    <3>3. At("read", "monitor", "unreachable", 0, FALSE) \in Task
      BY Numbers DEF At, Task, Healths
    <3> QED BY <2>3, <3>1, <3>2, <3>3
  <2>4. CASE task[t].pc = "idle" /\ t # Monitor
    <3>1. new(t) = Idle
      BY <2>4
    <3> HIDE DEF new
    <3> QED BY <2>4, <3>1, Fields
  <2> QED BY <2>2, <2>3, <2>4
<1> HIDE DEF new
<1> QED BY <1>1, <1>2, <1>3, <1>4, <1>5, <1>6

(* Field by field.                                                         *)
LEMMA TickFields ==
    ASSUME HandlersInv, Tick, NEW t \in Tasks
    PROVE  \/ /\ task[t].pc # "idle" /\ task[t].at < regime.delay
              /\ task'[t].pc = task[t].pc /\ task'[t].kind = task[t].kind
              /\ task'[t].health = task[t].health /\ task'[t].at = task[t].at + 1
              /\ task'[t].awaited = task[t].awaited
           \/ /\ task[t].pc = "idle" /\ t = Monitor
              /\ task'[t].pc = "read" /\ task'[t].kind = "monitor" /\ task'[t].at = 0
              /\ task'[t].awaited = FALSE
           \/ /\ task[t].pc = "idle" /\ t # Monitor
              /\ task'[t].pc = "idle" /\ task'[t].at = 0 /\ task'[t].awaited = FALSE
<1>1. CASE task[t].pc # "idle"
  <2>1. /\ task[t].at < regime.delay
        /\ task'[t] = At(task[t].pc, task[t].kind, task[t].health, task[t].at + 1, task[t].awaited)
    BY <1>1, TickBecomes
  <2> QED BY <1>1, <2>1, Fields
<1>2. CASE task[t].pc = "idle" /\ t = Monitor
  <2>1. task'[t] = At("read", "monitor", "unreachable", 0, FALSE)
    BY <1>2, TickBecomes
  <2> QED BY <1>2, <2>1 DEF At
<1>3. CASE task[t].pc = "idle" /\ t # Monitor
  <2>1. task'[t] = Idle
    BY <1>3, TickBecomes
  <2> QED BY <1>3, <2>1, Fields
<1> QED BY <1>1, <1>2, <1>3

-----------------------------------------------------------------------------
(* The types, and the alerts.                                              *)

Alert == [health : Rules, age : 0..AlertAge, active : BOOLEAN]

(* Time and evaluations leave alerts that are alerts; nothing comes to be  *)
(* active.                                                                 *)
LEMMA ResolvedAlerts ==
    ASSUME alerts \subseteq Alert, NEW health
    PROVE  /\ resolved(health) \subseteq Alert
           /\ \A a \in resolved(health) : \E b \in alerts :
                 /\ a.age = b.age /\ a.health = b.health
                 /\ a.active => b.active /\ a.health = health
<1>1. ASSUME NEW a \in resolved(health)
      PROVE  a \in Alert /\ \E b \in alerts :
                /\ a.age = b.age /\ a.health = b.health
                /\ a.active => b.active /\ a.health = health
  <2>1. PICK b \in alerts : a = [b EXCEPT !.active = b.active /\ b.health = health]
    BY <1>1 DEF resolved, relevant
  <2>2. b \in Alert /\ (b.active /\ b.health = health) \in BOOLEAN
    BY DEF Alert
  <2> QED BY <2>1, <2>2 DEF Alert
<1> QED BY <1>1

(* Time passes: each alert is an older copy of one that was there.         *)
LEMMA OlderAlerts ==
    ASSUME HandlersInv, Tick
    PROVE  /\ alerts' \subseteq Alert
           /\ \A a \in alerts' : \E b \in alerts :
                 a = [health |-> b.health, age |-> Capped(b.age, AlertAge), active |-> b.active]
<1>1. ASSUME NEW a \in alerts'
      PROVE  a \in Alert /\ \E b \in alerts :
                a = [health |-> b.health, age |-> Capped(b.age, AlertAge), active |-> b.active]
  <2>1. PICK b \in alerts : a = [b EXCEPT !.age = Capped(b.age, AlertAge)]
    BY <1>1 DEF Tick, relevant
  <2>2. b \in Alert
    BY DEF HandlersInv, TypeOK, Alert
  <2>3. Capped(b.age, AlertAge) \in 0..AlertAge
    BY <2>2, Numbers DEF Capped, Alert
  <2> QED BY <2>1, <2>2, <2>3 DEF Alert
<1> QED BY <1>1

-----------------------------------------------------------------------------
(* Types, and what tasks hold, step by step.                               *)

(* The types of all that a step of a task may change.                      *)
LEMMA TypesKept ==
    ASSUME HandlersInv, UNCHANGED <<regime, agent, nodes, sent, calm>>,
           task' \in [Tasks -> Task],
           row' \in [health : Healths, age : 0..Never],
           row'.age = Never => row'.health = "unknown",
           alerts' \subseteq Alert
    PROVE  TypeOK'
BY DEF HandlersInv, TypeOK, Alert, Settled

(* A step of a handler or of the monitor keeps the handlers in order.      *)
LEMMA TaskStepHandlers ==
    ASSUME HandlersInv, NEW t \in Tasks, TaskStep(t), UNCHANGED regime
    PROVE  HandlersInv'
<1>1. /\ alerts \subseteq Alert /\ row \in [health : Healths, age : 0..Never]
      /\ row.age = Never => row.health = "unknown"
      /\ task[t] \in Task
  BY DEF HandlersInv, TypeOK, Alert
<1>2. task[t].at <= regime.delay /\ task[t].at \in 0..MaxDelay /\ regime.delay \in Nat
  BY TaskFacts
<1>3. ASSUME NEW new \in Task, Becomes(t, new), UNCHANGED <<agent, nodes, sent, calm>>,
             new.at <= regime.delay,
             new.pc = "idle" => ~new.awaited,
             new.pc = "create" => new.health \in Rules,
             new.awaited => task[t].awaited,
             t = Monitor => new.kind = "monitor" /\ new.pc # "reread",
             t # Monitor /\ new.pc \in {"read", "write"} =>
                 new.kind = task[t].kind /\ task[t].pc \in {"read", "write"},
             row' \in [health : Healths, age : 0..Never],
             row'.age = Never => row'.health = "unknown",
             alerts' \subseteq Alert
      PROVE  HandlersInv'
  BY <1>3, TasksKept, TypesKept DEF HandlersInv
<1>4. Idle \in Task /\ Idle.at = 0 /\ Idle.pc = "idle" /\ ~Idle.awaited /\ Idle.kind = "monitor"
  BY Numbers DEF Idle, Task, Healths
<1>5. /\ {"unknown", "unreachable", row.health, task[t].health} \subseteq Healths
      /\ Rules \subseteq Healths /\ 0 \in 0..MaxDelay /\ 0..Stale \subseteq 0..Never
      /\ t = Monitor => task[t].kind = "monitor"
  BY <1>1, Numbers DEF Healths, Rules, Task, HandlersInv, TasksInv
<1>6. CASE readCluster(t)
  <2> DEFINE h == IF task[t].kind = "liveness" THEN row.health ELSE task[t].health
             new == At("write", task[t].kind, h, task[t].at, task[t].awaited)
  <2>1. h \in Healths
    BY <1>5
  <2> HIDE DEF h
  <2>2. /\ new \in Task /\ new.pc = "write" /\ new.at = task[t].at /\ new.kind = task[t].kind
        /\ new.awaited = task[t].awaited
    BY <1>1, <2>1 DEF At, Task
  <2> HIDE DEF new
  <2>3. /\ Becomes(t, new) /\ task[t].pc = "read" /\ t # Monitor
        /\ UNCHANGED <<row, alerts, agent, nodes, sent, calm>>
    BY <1>6, ReadBecomes, Numbers DEF h, new
  <2> QED BY <1>1, <1>2, <1>3, <2>2, <2>3
<1>7. CASE listStaleClusters(t)
  <2> DEFINE new == At("write", task[t].kind, task[t].health, task[t].at, task[t].awaited)
  <2>1. /\ new \in Task /\ new.pc = "write" /\ new.at = task[t].at /\ new.kind = task[t].kind
        /\ new.awaited = task[t].awaited
    BY <1>1 DEF At, Task
  <2> HIDE DEF new
  <2>2. /\ Becomes(t, new) \/ Becomes(t, Idle)
        /\ t = Monitor
        /\ UNCHANGED <<row, alerts, agent, nodes, sent, calm>>
    BY <1>7, ListBecomes DEF new
  <2> QED BY <1>1, <1>2, <1>3, <1>4, <1>5, <2>1, <2>2
<1>8. CASE UpdateHealth(t)
  <2> DEFINE reread == At("reread", "monitor", "unknown", task[t].at, task[t].awaited)
             resolve == At("resolve", "monitor", task[t].health, 0, task[t].awaited)
  <2>1. /\ reread \in Task /\ reread.pc = "reread" /\ reread.at = task[t].at
        /\ reread.kind = "monitor" /\ reread.awaited = task[t].awaited
        /\ resolve \in Task /\ resolve.pc = "resolve" /\ resolve.at = 0
        /\ resolve.kind = "monitor" /\ resolve.awaited = task[t].awaited
    BY <1>1, <1>2, <1>5 DEF At, Task
  <2> HIDE DEF reread, resolve
  <2>2. /\ Becomes(t, reread) \/ Becomes(t, resolve) \/ Becomes(t, Idle)
        /\ t # Monitor
        /\ row' \in [health : Healths, age : 0..Stale]
        /\ UNCHANGED <<alerts, agent, nodes, sent, calm>>
    BY <1>8, UpdateBecomes, Numbers DEF reread, resolve
  <2>3. row' \in [health : Healths, age : 0..Never] /\ row'.age # Never
    BY <2>2, Numbers
  <2> QED BY <1>1, <1>2, <1>3, <1>4, <2>1, <2>2, <2>3
<1>9. CASE markStaleClusters(t)
  <2> DEFINE new == At("resolve", "monitor", "unreachable", 0, task[t].awaited)
  <2>1. /\ new \in Task /\ new.pc = "resolve" /\ new.at = 0 /\ new.kind = "monitor"
        /\ new.awaited = task[t].awaited
    BY <1>1, <1>5 DEF At, Task
  <2> HIDE DEF new
  <2>2. /\ Becomes(t, new)
        /\ row' = [health |-> "unreachable", age |-> Stale]
        /\ UNCHANGED <<alerts, agent, nodes, sent, calm>>
    BY <1>9, MarkBecomes DEF new
  <2>3. row' \in [health : Healths, age : 0..Never] /\ row'.age # Never
    BY <1>5, <2>2, Numbers
  <2> QED BY <1>1, <1>2, <1>3, <2>1, <2>2, <2>3
<1>10. CASE rereadCluster(t)
  <2> DEFINE new == At("resolve", "monitor", row.health, 0, task[t].awaited)
  <2>1. /\ new \in Task /\ new.pc = "resolve" /\ new.at = 0 /\ new.kind = "monitor"
        /\ new.awaited = task[t].awaited
    BY <1>1, <1>5 DEF At, Task
  <2> HIDE DEF new
  <2>2. /\ Becomes(t, new)
        /\ UNCHANGED <<row, alerts, agent, nodes, sent, calm>>
    BY <1>10, RereadBecomes DEF new
  <2> QED BY <1>1, <1>2, <1>3, <2>1, <2>2
<1>11. CASE ResolveClusterAlerts(t)
  <2>1. alerts' \subseteq Alert /\ UNCHANGED <<row, agent, nodes, sent, calm>>
    BY <1>1, <1>11, ResolveBecomes, ResolvedAlerts
  <2>2. CASE Becomes(t, Idle)
    BY <1>1, <1>2, <1>3, <1>4, <2>1, <2>2
  <2>3. ASSUME task[t].health \in Rules, NEW now \in 0..task[t].at,
               Becomes(t, At("create", "monitor", task[t].health, now, task[t].awaited))
        PROVE  HandlersInv'
    <3> DEFINE new == At("create", "monitor", task[t].health, now, task[t].awaited)
    <3>1. /\ new \in Task /\ new.pc = "create" /\ new.at = now /\ new.kind = "monitor"
          /\ new.awaited = task[t].awaited /\ new.health = task[t].health
      <4>1. now \in 0..MaxDelay /\ task[t].health \in Healths /\ task[t].awaited \in BOOLEAN
        BY <1>2, <1>5, TaskFacts, Numbers
      <4> QED BY <4>1 DEF At, Task
    <3> HIDE DEF new
    <3>2. Becomes(t, new) /\ now <= regime.delay
      BY <1>2, <2>3 DEF new
    <3> QED BY <1>1, <1>2, <1>3, <2>1, <2>3, <3>1, <3>2
  <2> QED BY <1>11, ResolveBecomes, <2>2, <2>3
<1>12. CASE CreateAlertIfDue(t)
  <2>1. Becomes(t, Idle) /\ UNCHANGED <<row, agent, nodes, sent, calm>>
    BY <1>12, CreateBecomes
  <2>2. [health |-> task[t].health, age |-> task[t].at, active |-> TRUE] \in Alert
    BY <1>2, <1>12, Numbers DEF CreateAlertIfDue, HandlersInv, TasksInv, Alert
  <2>3. alerts' \subseteq Alert
    BY <1>1, <1>12, <2>2 DEF CreateAlertIfDue
  <2> QED BY <1>1, <1>2, <1>3, <1>4, <2>1, <2>3
<1> QED BY <1>6, <1>7, <1>8, <1>9, <1>10, <1>11, <1>12 DEF TaskStep

(* A request is the only one that is awaited.                              *)
LEMMA SendHandlers ==
    ASSUME HandlersInv, NEW t \in Slots, NEW kind \in Requests, Send(t, kind), UNCHANGED regime
    PROVE  HandlersInv'
<1> DEFINE h == IF kind = "report" THEN nodes ELSE "unknown"
           new == At("read", kind, h, 0, TRUE)
<1>1. /\ Becomes(t, new) /\ UNCHANGED <<row, alerts, agent, nodes, calm>>
      /\ sent' = sent \cup {kind} /\ agent = "up" /\ \A u \in Slots : ~task[u].awaited
  BY SendBecomes
<1>2. /\ new.pc = "read" /\ new.kind = kind /\ new.at = 0 /\ new.awaited = TRUE
  BY DEF At
<1> HIDE DEF new
<1>3. TypeOK'
  BY <1>1 DEF HandlersInv, TypeOK, Becomes, Settled
<1>4. TasksInv'
  BY <1>1, <1>2, TaskFacts, Numbers DEF HandlersInv, TasksInv, Becomes, Tasks, Requests
<1>5. OneAwaited'
  BY <1>1, <1>2, Numbers DEF HandlersInv, OneAwaited, Becomes, Tasks, Requests
<1> QED BY <1>3, <1>4, <1>5 DEF HandlersInv

(* The steps that end the calm.                                            *)
Restless ==
    \/ \E t \in Slots : Deregister(t) \/ RequestTimesOut(t)
    \/ \E t \in Tasks : TaskFails(t)
    \/ \E kind \in Requests : Lose(kind)
    \/ HubRestart
    \/ Disconnect
    \/ Reconnect
    \/ NodesChange

(* So does each step that ends the calm.                                   *)
LEMMA RestlessHandlers ==
    ASSUME HandlersInv, Restless, UNCHANGED regime
    PROVE  HandlersInv' /\ calm' = 0
<1>1. calm' = 0 /\ 0 \in 0..Settled
  BY TaskFacts, Numbers DEF Restless, Deregister, RequestTimesOut, TaskFails, Lose, HubRestart,
     Disconnect, Reconnect, NodesChange, Settled
<1>2. /\ Idle \in Task /\ Idle.at = 0 /\ Idle.pc = "idle" /\ ~Idle.awaited /\ Idle.kind = "monitor"
      /\ regime.delay \in Nat
  BY Numbers, TaskFacts DEF Idle, Task, Healths
<1>3. ASSUME NEW t \in Slots, Deregister(t) PROVE HandlersInv'
  <2> DEFINE new == At("read", "deregister", "unreachable", 0, TRUE)
  <2>1. /\ agent' = "gone" /\ UNCHANGED <<row, alerts, nodes, sent>>
        /\ Request(t, "deregister", "unreachable") /\ t \in Tasks
    BY <1>3 DEF Deregister, Tasks
  <2>2. Becomes(t, new)
    BY <2>1, RequestBecomes DEF HandlersInv, Healths, At
  <2>3. new.pc = "read" /\ new.kind = "deregister" /\ new.at = 0 /\ new.awaited = TRUE
    BY DEF At
  <2> HIDE DEF new
  <2>4. TypeOK'
    BY <1>1, <2>1, <2>2 DEF HandlersInv, TypeOK, Becomes, Settled
  <2>5. TasksInv'
    BY <1>2, <2>1, <2>2, <2>3, Numbers DEF HandlersInv, TasksInv, Becomes, Tasks
  <2>6. OneAwaited'
    BY <2>1 DEF OneAwaited
  <2> QED BY <2>4, <2>5, <2>6 DEF HandlersInv
<1>4. ASSUME NEW t \in Slots, RequestTimesOut(t) PROVE HandlersInv'
  <2> DEFINE new == At(task[t].pc, task[t].kind, task[t].health, task[t].at, FALSE)
  <2>1. /\ UNCHANGED <<row, alerts, agent, nodes, sent>> /\ t \in Tasks
        /\ task' = [task EXCEPT ![t].awaited = FALSE]
    BY <1>4 DEF RequestTimesOut, Tasks
  <2>2. task \in [Tasks -> Task]
    BY DEF HandlersInv, TypeOK
  <2>3. Becomes(t, new)
    BY <2>1, <2>2 DEF Becomes, At, Task
  <2>4. /\ new.pc = task[t].pc /\ new.kind = task[t].kind /\ new.at = task[t].at
        /\ new.health = task[t].health /\ new.awaited = FALSE
    BY DEF At
  <2> HIDE DEF new
  <2>5. TypeOK'
    BY <1>1, <2>1, <2>3 DEF HandlersInv, TypeOK, Becomes, Settled
  <2>6. TasksInv'
    BY <2>1, <2>3, <2>4, Numbers DEF HandlersInv, TasksInv, Becomes, Tasks
  <2>7. OneAwaited'
    BY <2>1, <2>3, <2>4, Numbers DEF HandlersInv, OneAwaited, Becomes, Tasks
  <2> QED BY <2>5, <2>6, <2>7 DEF HandlersInv
<1>5. ASSUME NEW t \in Tasks, TaskFails(t) PROVE HandlersInv'
  <2>1. Becomes(t, Idle) /\ UNCHANGED <<row, alerts, agent, nodes, sent>>
    BY <1>5, FinishBecomes DEF TaskFails, HandlersInv
  <2>2. TypeOK'
    BY <1>1, <2>1 DEF HandlersInv, TypeOK, Becomes, Settled
  <2>3. TasksInv' /\ OneAwaited'
    BY <1>2, <2>1, TasksKept
  <2> QED BY <2>2, <2>3 DEF HandlersInv
<1>6. CASE HubRestart
  <2>1. /\ task' = [t \in Tasks |-> Idle] /\ UNCHANGED <<row, alerts, agent, nodes, sent>>
    BY <1>6 DEF HubRestart
  <2>2. TypeOK'
    BY <1>1, <1>2, <2>1 DEF HandlersInv, TypeOK, Settled
  <2>3. \A t \in Tasks : task'[t] = Idle
    BY <2>1
  <2>4. TasksInv' /\ OneAwaited'
    BY <1>2, <2>3, Fields DEF TasksInv, OneAwaited, Tasks
  <2> QED BY <1>1, <2>2, <2>4 DEF HandlersInv
<1>7. CASE \/ \E kind \in Requests : Lose(kind)
           \/ Disconnect \/ Reconnect \/ NodesChange
  <2>1. /\ UNCHANGED <<row, task, alerts>> /\ agent' \in {"up", "cut", "gone"}
        /\ agent = "gone" => agent' = "gone"
        /\ nodes' \in regime.conditions /\ sent' \subseteq Requests
    BY <1>7 DEF Lose, Disconnect, Reconnect, NodesChange, HandlersInv, TypeOK
  <2>2. TypeOK'
    BY <1>1, <2>1 DEF HandlersInv, TypeOK, Settled
  <2>3. TasksInv'
    BY <2>1 DEF HandlersInv, TasksInv
  <2>4. OneAwaited'
    BY <2>1 DEF HandlersInv, OneAwaited
  <2> QED BY <1>1, <2>2, <2>3, <2>4 DEF HandlersInv
<1> QED BY <1>1, <1>3, <1>4, <1>5, <1>6, <1>7 DEF Restless

(* So does the time that passes, which may start a check of the monitor.   *)
LEMMA TickHandlers ==
    ASSUME HandlersInv, Tick, UNCHANGED regime
    PROVE  HandlersInv'
<1>1. /\ Idle \in Task /\ Idle.at = 0 /\ Idle.pc = "idle" /\ ~Idle.awaited /\ Idle.kind = "monitor"
      /\ regime.delay \in Nat
  BY Numbers, TaskFacts DEF Idle, Task, Healths
<1>2. ASSUME NEW t \in Tasks
      PROVE  \/ /\ task[t].pc # "idle" /\ task'[t].pc = task[t].pc /\ task'[t].kind = task[t].kind
                /\ task'[t].health = task[t].health /\ task'[t].at <= regime.delay
                /\ task'[t].awaited = task[t].awaited
             \/ /\ task'[t].pc = "read" /\ task'[t].kind = "monitor" /\ task'[t].at = 0
                /\ task'[t].awaited = FALSE /\ t = Monitor
             \/ /\ task'[t].pc = "idle" /\ task'[t].at = 0 /\ task'[t].awaited = FALSE
                /\ t # Monitor
  <2>1. task[t].at \in Nat
    BY TaskFacts, Numbers
  <2>2. CASE task[t].pc # "idle"
    <3>1. /\ task[t].at < regime.delay
          /\ task'[t].pc = task[t].pc /\ task'[t].kind = task[t].kind
          /\ task'[t].health = task[t].health /\ task'[t].at = task[t].at + 1
          /\ task'[t].awaited = task[t].awaited
      BY <2>2, TickFields
    <3> QED BY <1>1, <2>1, <2>2, <3>1
  <2>3. CASE task[t].pc = "idle"
    BY <2>3, TickFields
  <2> QED BY <2>2, <2>3
<1>3. TypeOK'
  <2>1. row.age \in 0..Never /\ (row.age = Never => row.health = "unknown")
    BY DEF HandlersInv, TypeOK
  <2>2. row'.age = Never => row'.health = "unknown"
    BY <2>1, TickBecomes, Numbers
  <2>3. alerts' \subseteq Alert
    BY OlderAlerts
  <2>4. /\ task' \in [Tasks -> Task] /\ row' \in [health : Healths, age : 0..Never]
        /\ UNCHANGED <<agent, nodes>> /\ sent' = {} /\ calm' \in 0..Settled
    BY TickBecomes
  <2> QED BY <2>2, <2>3, <2>4 DEF HandlersInv, TypeOK, Alert, Settled
<1>4. TasksInv'
  <2>1. Monitor \in Tasks /\ Slots \subseteq Tasks /\ TasksInv
    BY DEF Tasks, HandlersInv
  <2>2. task'[Monitor].kind = "monitor" /\ ~task'[Monitor].awaited /\ task'[Monitor].pc # "reread"
    BY <1>2, <2>1 DEF TasksInv
  <2>3. ASSUME NEW t \in Slots, task'[t].pc \in {"read", "write"} PROVE task'[t].kind # "monitor"
    BY <1>2, <2>1, <2>3, Numbers DEF TasksInv
  <2>4. ASSUME NEW t \in Tasks
        PROVE  /\ task'[t].at <= regime.delay
               /\ task'[t].pc = "idle" => ~task'[t].awaited
               /\ task'[t].pc = "create" => task'[t].health \in Rules
    <3>1. task'[t].at <= regime.delay \/ task'[t].at = 0
      BY <1>2
    <3>2. task'[t].at <= regime.delay
      BY <1>1, <3>1
    <3> QED BY <1>2, <2>1, <3>2 DEF TasksInv
  <2> QED BY <2>2, <2>3, <2>4 DEF TasksInv
<1>5. OneAwaited'
  <2>1. UNCHANGED agent
    BY TickBecomes
  <2> QED BY <1>2, <2>1, Numbers DEF HandlersInv, OneAwaited, Tasks
<1> QED BY <1>3, <1>4, <1>5 DEF HandlersInv

-----------------------------------------------------------------------------
(* A silent agent, and the end of the calm.                                *)

(* What holds after a calm holds trivially when there is none.             *)
LEMMA RestlessTiming ==
    ASSUME HandlersInv', calm' = 0
    PROVE  SilentInv' /\ SteadyInv'
<1>1. /\ regime'.delay \in Nat /\ row'.age \in Nat
      /\ \A t \in Tasks : task'[t].at \in Nat
  BY Numbers DEF HandlersInv, TypeOK, Task
<1>2. SilentInv'
  BY <1>1, Numbers DEF SilentInv, SilentHandlers, SilentRow, SilentMonitor, Tasks
<1>3. GivenUp' /\ SentLately' /\ SentHealthy' /\ SteadyMonitor'
  BY <1>1 DEF GivenUp, SentLately, SentHealthy, SteadyMonitor, Tasks, Awaited
<1>4. RowFresh' /\ RowHealthy' /\ NoAlarms' /\ AlertsResolved'
  BY <1>1 DEF RowFresh, RowHealthy, NoAlarms, AlertsResolved
<1> QED BY <1>2, <1>3, <1>4 DEF SteadyInv

(* No handler and no check makes a silent cluster look younger than it is. *)
LEMMA SilentTaskStep ==
    ASSUME HandlersInv, SilentInv, NEW t \in Tasks, TaskStep(t), UNCHANGED regime
    PROVE  SilentInv'
<1>1. SUFFICES ASSUME agent # "up" PROVE SilentHandlers' /\ SilentRow' /\ SilentMonitor'
  <2>1. UNCHANGED agent
    BY ReadBecomes, ListBecomes, UpdateBecomes, MarkBecomes, RereadBecomes, ResolveBecomes,
       CreateBecomes DEF TaskStep
  <2> QED BY <2>1 DEF SilentInv
<1>2. /\ SilentHandlers /\ SilentRow /\ SilentMonitor
      /\ Monitor \in Tasks /\ Monitor \notin Slots /\ Slots \subseteq Tasks
      /\ StaleAfter \in Nat /\ Stale = StaleAfter + 1 /\ Never = StaleAfter + 2
      /\ regime.delay \in Nat /\ row.age \in 0..Never /\ calm \in Nat
      /\ \A u \in Tasks : task[u].at \in 0..regime.delay
  BY <1>1, TaskFacts, Numbers DEF SilentInv, Tasks
<1>3. CASE readCluster(t)
  <2>1. /\ t \in Slots /\ task[t].pc = "read" /\ UNCHANGED <<row, calm>>
        /\ task'[t].at = task[t].at /\ \A u \in Tasks \ {t} : task'[u] = task[u]
    BY <1>3, ReadBecomes, Fields DEF Becomes
  <2> QED BY <1>2, <2>1 DEF SilentHandlers, SilentRow, SilentMonitor
<1>4. CASE listStaleClusters(t)
  <2>1. /\ t = Monitor /\ task[t].pc = "read" /\ UNCHANGED <<row, calm>>
        /\ \/ task'[t].at = task[t].at /\ task'[t].pc = "write"
           \/ task'[t].pc = "idle" /\ (row.age # Stale \/ row.health = "unreachable")
        /\ \A u \in Tasks \ {t} : task'[u] = task[u]
    BY <1>4, ListBecomes, Fields DEF Becomes, staleRow
  <2>2. SilentHandlers' /\ SilentRow'
    BY <1>2, <2>1 DEF SilentHandlers, SilentRow
  <2>3. ASSUME row.age # Stale, row.age # Never PROVE calm <= StaleAfter + regime.delay
    BY <1>2, <2>3 DEF SilentRow
  <2>4. SilentMonitor'
    BY <1>2, <2>1, <2>3 DEF SilentMonitor
  <2> QED BY <2>2, <2>4
<1>5. CASE UpdateHealth(t)
  <2>1. /\ t \in Slots /\ task[t].pc = "write" /\ UNCHANGED calm
        /\ row'.age \in 0..Stale /\ row'.age <= task[t].at
        /\ task'[t].pc \notin {"read", "write"} /\ \A u \in Tasks \ {t} : task'[u] = task[u]
    BY <1>5, UpdateBecomes, Fields DEF Becomes
  <2>2. calm <= regime.delay /\ task[t].at \in Nat
    BY <1>2, <2>1 DEF SilentHandlers
  <2> QED BY <1>2, <2>1, <2>2 DEF SilentHandlers, SilentRow, SilentMonitor
<1>6. CASE markStaleClusters(t)
  <2>1. /\ t = Monitor /\ UNCHANGED calm /\ row'.age = Stale /\ row'.health = "unreachable"
        /\ \A u \in Tasks \ {t} : task'[u] = task[u]
    BY <1>6, MarkBecomes DEF Becomes
  <2> QED BY <1>2, <2>1 DEF SilentHandlers, SilentRow, SilentMonitor
<1>7. CASE rereadCluster(t)
  <2>1. /\ task[t].pc = "reread" /\ t # Monitor
        /\ task'[t].pc = "resolve" /\ UNCHANGED <<row, calm>>
        /\ \A u \in Tasks \ {t} : task'[u] = task[u]
    BY <1>7, RereadBecomes, Fields DEF Becomes, HandlersInv, TasksInv
  <2> QED BY <1>2, <2>1 DEF SilentHandlers, SilentRow, SilentMonitor
<1>8. CASE ResolveClusterAlerts(t)
  <2>1. /\ task[t].pc = "resolve" /\ UNCHANGED <<row, calm>>
        /\ task'[t].pc = "idle" \/ (task'[t].pc = "create" /\ task'[t].at \in 0..task[t].at)
        /\ \A u \in Tasks \ {t} : task'[u] = task[u]
    BY <1>8, ResolveBecomes, Fields DEF Becomes
  <2> QED BY <1>2, <2>1 DEF SilentHandlers, SilentRow, SilentMonitor
<1>9. CASE CreateAlertIfDue(t)
  <2>1. /\ task[t].pc = "create" /\ UNCHANGED <<row, calm>>
        /\ task'[t].pc = "idle"
        /\ \A u \in Tasks \ {t} : task'[u] = task[u]
    BY <1>9, CreateBecomes, Fields DEF Becomes
  <2> QED BY <1>2, <2>1 DEF SilentHandlers, SilentRow, SilentMonitor
<1> QED BY <1>3, <1>4, <1>5, <1>6, <1>7, <1>8, <1>9 DEF TaskStep

(* An interval makes everyone older, the calm too.                         *)
LEMMA SilentTick ==
    ASSUME HandlersInv, SilentInv, Tick, UNCHANGED regime
    PROVE  SilentInv'
<1>1. SUFFICES ASSUME agent # "up" PROVE SilentHandlers' /\ SilentRow' /\ SilentMonitor'
  BY TickBecomes DEF SilentInv
<1>2. /\ SilentHandlers /\ SilentRow /\ SilentMonitor
      /\ Monitor \in Tasks /\ Monitor \notin Slots /\ Slots \subseteq Tasks
      /\ StaleAfter \in Nat /\ Stale = StaleAfter + 1 /\ Never = StaleAfter + 2
      /\ regime.delay \in Nat /\ row.age \in 0..Never /\ calm \in Nat
      /\ \A u \in Tasks : task[u].at \in 0..regime.delay
  BY <1>1, TaskFacts, Numbers DEF SilentInv, Tasks
<1>3. /\ calm' \in Nat /\ calm' <= calm + 1 /\ row'.health = row.health
      /\ row'.age = IF row.age >= Stale THEN row.age ELSE row.age + 1
  BY TickBecomes
<1>4. /\ \A t \in Slots : task'[t].pc \in {"read", "write"} =>
            task[t].pc \in {"read", "write"} /\ task'[t].at = task[t].at + 1
      /\ \/ task[Monitor].pc = "idle" /\ task'[Monitor].pc = "read" /\ task'[Monitor].at = 0
         \/ /\ task[Monitor].pc # "idle" /\ task'[Monitor].pc = task[Monitor].pc
            /\ task'[Monitor].at = task[Monitor].at + 1
  BY <1>2, TickFields
<1>5. SilentHandlers'
  BY <1>2, <1>3, <1>4 DEF SilentHandlers
<1>6. SilentRow'
  BY <1>2, <1>3 DEF SilentRow
<1>7. SilentMonitor'
  BY <1>2, <1>3, <1>4 DEF SilentMonitor
<1> QED BY <1>5, <1>6, <1>7

-----------------------------------------------------------------------------
(* A steady agent.                                                         *)

Steadily ==
    /\ agent = "up" /\ nodes = "healthy"
    /\ GivenUp /\ SentLately /\ SentHealthy /\ RowFresh
    /\ SteadyMonitor /\ RowHealthy /\ NoAlarms /\ AlertsResolved

(* What is known of everything there is.                                   *)
LEMMA SteadyFacts ==
    ASSUME HandlersInv, Steadily
    PROVE  /\ Monitor \in Tasks /\ Monitor \notin Slots /\ Slots \subseteq Tasks
           /\ Tasks = Slots \cup {Monitor}
           /\ regime.delay \in Nat /\ row.age \in Nat /\ calm \in Nat
           /\ \A u \in Tasks : task[u].at \in 0..regime.delay
           /\ \A u \in Tasks : task[u].pc = "create" => task[u].health \in Rules
           /\ \A u \in Tasks : task[u].pc = "idle" => ~task[u].awaited
           /\ \A u, v \in Awaited : u = v
           /\ \A u \in Slots : task[u].pc \in {"read", "write"} => task[u].kind \in {"liveness", "report"}
           /\ Awaited \subseteq Slots
<1>1. \A u \in Slots : task[u].pc \in {"read", "write"} => task[u].kind \in {"liveness", "report"}
  BY TaskFacts DEF HandlersInv, TasksInv, OneAwaited, Steadily, Tasks, Requests
<1>2. \A u, v \in Awaited : u = v
  BY DEF HandlersInv, OneAwaited, Steadily, Awaited
<1>3. Tasks = Slots \cup {Monitor} /\ Awaited \subseteq Slots
  BY DEF Tasks, Awaited
<1>4. \A u \in Tasks : /\ task[u].pc = "create" => task[u].health \in Rules
                       /\ task[u].pc = "idle" => ~task[u].awaited
  BY DEF HandlersInv, TasksInv
<1> QED BY <1>1, <1>2, <1>3, <1>4, TaskFacts, Numbers

(* Once the calm has lasted for the delay, handlers on their way to the    *)
(* row are awaited, were sent just now and carry what is true.             *)
LEMMA WritersAreNew ==
    ASSUME HandlersInv, Steadily, calm > regime.delay,
           NEW t \in Slots, task[t].pc \in {"read", "write", "reread"}
    PROVE  /\ t \in Awaited
           /\ task[t].at = 0 \/ (task[t].at = 1 /\ sent = {})
           /\ task[t].pc # "reread" /\ task[t].kind = "report" => task[t].health = "healthy"
<1>1. ~(task[t].at >= calm)
  BY SteadyFacts
<1>2. t \in Awaited
  BY <1>1 DEF Steadily, GivenUp
<1> QED BY <1>1, <1>2 DEF Steadily, SentLately, SentHealthy

(* What depends on the handlers alone stays if they stay.                  *)
LEMMA SlotsKept ==
    ASSUME HandlersInv, Steadily, \A u \in Slots : task'[u] = task[u],
           UNCHANGED <<calm, sent, regime>>
    PROVE  /\ GivenUp' /\ SentLately' /\ SentHealthy' /\ NoAlarms'
           /\ Awaited' = Awaited /\ (Reporting' <=> Reporting) /\ (Evaluating' <=> Evaluating)
<1>1. Awaited' = Awaited /\ Awaited \subseteq Slots
  BY DEF Awaited
<1>2. GivenUp' /\ SentLately' /\ SentHealthy'
  BY <1>1 DEF Steadily, GivenUp, SentLately, SentHealthy
<1>3. NoAlarms'
  BY <1>1 DEF Steadily, NoAlarms, Alarmed
<1>4. Reporting' <=> Reporting
  BY <1>1 DEF Reporting
<1>5. Evaluating' <=> Evaluating
  BY <1>1, <1>4 DEF Evaluating
<1> QED BY <1>1, <1>2, <1>3, <1>4, <1>5

(* A request of a healthy agent is sent, and awaited alone.                *)
LEMMA SteadySend ==
    ASSUME HandlersInv, Steadily, NEW t \in Slots, NEW kind \in Requests, Send(t, kind),
           UNCHANGED regime
    PROVE  Steadily'
<1>1. /\ \A u \in Slots : ~task[u].awaited
      /\ task'[t].pc = "read" /\ task'[t].kind = kind /\ task'[t].at = 0
      /\ kind = "report" => task'[t].health = "healthy"
      /\ task'[t].awaited
      /\ \A u \in Tasks \ {t} : task'[u] = task[u]
      /\ kind \notin sent /\ sent' = sent \cup {kind}
      /\ UNCHANGED <<row, alerts, agent, nodes, calm>>
  <2>1. nodes = "healthy"
    BY DEF Steadily
  <2>2. Becomes(t, At("read", kind, IF kind = "report" THEN nodes ELSE "unknown", 0, TRUE))
    BY SendBecomes
  <2>3. /\ task'[t] = At("read", kind, IF kind = "report" THEN nodes ELSE "unknown", 0, TRUE)
        /\ \A u \in Tasks \ {t} : task'[u] = task[u]
    BY <2>2 DEF Becomes
  <2>4. /\ task'[t].pc = "read" /\ task'[t].kind = kind /\ task'[t].at = 0
        /\ kind = "report" => task'[t].health = "healthy"
        /\ task'[t].awaited
    BY <2>1, <2>3 DEF At
  <2> QED BY <2>3, <2>4, SendBecomes
<1>2. Awaited = {} /\ Awaited' = {t}
  BY <1>1, SteadyFacts DEF Awaited
<1>3. ~Reporting /\ ~Evaluating
  BY <1>2 DEF Reporting, Evaluating
<1>4. GivenUp'
  BY <1>1, <1>2, SteadyFacts DEF Steadily, GivenUp
<1>5. SentLately' /\ SentHealthy'
  BY <1>1, <1>2 DEF SentLately, SentHealthy
<1>6. RowFresh'
  <2>1. sent' # Requests \/ sent # {}
    BY <1>1 DEF Requests
  <2> QED BY <1>1, <1>2, <2>1 DEF Steadily, RowFresh, Marked
<1>7. SteadyMonitor'
  BY <1>1, SteadyFacts DEF Steadily, SteadyMonitor
<1>8. HealthyRow => HealthyRow'
  BY <1>1, <1>2 DEF HealthyRow
<1>9. kind = "report" => Reporting' /\ Evaluating'
  BY <1>1, <1>2 DEF Reporting, Evaluating
<1>10. RowHealthy'
  BY <1>1, <1>3, <1>8, <1>9 DEF Steadily, RowHealthy
<1>11. NoAlarms'
  BY <1>1, <1>2 DEF NoAlarms, Alarmed
<1>12. AlertsResolved'
  BY <1>1, <1>3, <1>9 DEF Steadily, AlertsResolved, NoActive
<1> QED BY <1>1, <1>4, <1>5, <1>6, <1>7, <1>10, <1>11, <1>12 DEF Steadily

(* A handler reads the row, which is healthy once a report has been        *)
(* stored.                                                                 *)
LEMMA SteadyRead ==
    ASSUME HandlersInv, Steadily, NEW t \in Tasks, readCluster(t), UNCHANGED regime
    PROVE  Steadily'
<1>1. /\ t \in Slots /\ task[t].pc = "read"
      /\ task'[t].pc = "write" /\ task'[t].kind = task[t].kind /\ task'[t].at = task[t].at
      /\ task'[t].health = (IF task[t].kind = "liveness" THEN row.health ELSE task[t].health)
      /\ task'[t].awaited = task[t].awaited
      /\ \A u \in Tasks \ {t} : task'[u] = task[u]
      /\ UNCHANGED <<row, alerts, agent, nodes, sent, calm>>
  BY ReadBecomes, Fields DEF Becomes
<1>2. Awaited' = Awaited
  BY <1>1, SteadyFacts DEF Awaited
<1>3. GivenUp' /\ SentLately' /\ SentHealthy'
  BY <1>1, <1>2, SteadyFacts DEF Steadily, GivenUp, SentLately, SentHealthy
<1>4. RowFresh'
  BY <1>1, <1>2, SteadyFacts DEF Steadily, RowFresh, Marked
<1>5. SteadyMonitor'
  BY <1>1, SteadyFacts DEF Steadily, SteadyMonitor
<1>6. (Reporting => Reporting') /\ (Evaluating => Evaluating')
  BY <1>1, <1>2, SteadyFacts DEF Reporting, Evaluating
<1>7. HealthyRow /\ calm > regime.delay => HealthyRow'
  <2>1. calm > regime.delay /\ task[t].kind # "liveness" => task[t].health = "healthy"
    BY <1>1, WritersAreNew, SteadyFacts
  <2> QED BY <1>1, <1>2, <2>1, SteadyFacts DEF HealthyRow
<1>8. RowHealthy'
  <2>1. calm >= 2 * regime.delay + 2 => calm > regime.delay
    BY SteadyFacts
  <2> QED BY <1>1, <1>6, <1>7, <2>1, SteadyFacts DEF Steadily, RowHealthy
<1>9. NoAlarms'
  BY <1>1, <1>2, SteadyFacts DEF Steadily, NoAlarms, Alarmed
<1>10. AlertsResolved'
  BY <1>1, <1>6 DEF Steadily, AlertsResolved, NoActive
<1> QED BY <1>1, <1>3, <1>4, <1>5, <1>8, <1>9, <1>10 DEF Steadily

(* The monitor finds no stale row once a request has been served.          *)
LEMMA SteadyList ==
    ASSUME HandlersInv, Steadily, StaleAfter > 0, NEW t \in Tasks, listStaleClusters(t),
           UNCHANGED regime
    PROVE  Steadily'
<1>1. /\ t = Monitor /\ \A u \in Tasks \ {t} : task'[u] = task[u]
      /\ \/ staleRow /\ task'[t].pc = "write"
         \/ task'[t].pc = "idle"
      /\ task'[t].at \in Nat
      /\ UNCHANGED <<row, alerts, agent, nodes, sent, calm>>
  BY ListBecomes, Fields, SteadyFacts DEF Becomes
<1>2. \A u \in Slots : task'[u] = task[u]
  BY <1>1, SteadyFacts
<1>3. /\ GivenUp' /\ SentLately' /\ SentHealthy' /\ NoAlarms'
      /\ Awaited' = Awaited /\ (Reporting' <=> Reporting) /\ (Evaluating' <=> Evaluating)
  BY <1>1, <1>2, SlotsKept
<1>4. SteadyMonitor'
  <2>1. staleRow => calm <= regime.delay + 1
    BY Numbers, SteadyFacts DEF staleRow, Steadily, RowFresh, Marked
  <2> QED BY <1>1, <2>1, SteadyFacts DEF SteadyMonitor
<1>5. RowFresh'
  BY <1>1, <1>2, <1>3, SteadyFacts DEF Steadily, RowFresh, Marked
<1>6. HealthyRow' <=> HealthyRow
  BY <1>1, <1>2, <1>3, SteadyFacts DEF HealthyRow
<1>7. RowHealthy' /\ AlertsResolved'
  BY <1>1, <1>3, <1>6 DEF Steadily, RowHealthy, AlertsResolved, NoActive
<1> QED BY <1>1, <1>3, <1>4, <1>5, <1>7 DEF Steadily

(* A handler that writes the row has just been sent.                       *)
LEMMA SteadyUpdate ==
    ASSUME HandlersInv, Steadily, NEW t \in Tasks, UpdateHealth(t), UNCHANGED regime
    PROVE  Steadily'
<1>1. /\ t \in Slots /\ task[t].pc = "write"
      /\ row'.health = task[t].health /\ row'.age \in Nat /\ row'.age <= task[t].at
      /\ \/ task[t].kind = "liveness" /\ task'[t].pc = "idle" /\ ~task'[t].awaited
         \/ /\ task[t].kind = "report" /\ task'[t].pc = "reread" /\ task'[t].at = task[t].at
            /\ task'[t].awaited = task[t].awaited
      /\ \A u \in Tasks \ {t} : task'[u] = task[u]
      /\ UNCHANGED <<alerts, agent, nodes, sent, calm>>
  <2>1. task[t].kind # "deregister"
    BY UpdateBecomes, SteadyFacts
  <2> QED BY <2>1, UpdateBecomes, Fields, Numbers DEF Becomes
<1>2. \A u \in Slots : u # t => task'[u] = task[u]
  BY <1>1, SteadyFacts
<1>3. Awaited' \subseteq Awaited
  BY <1>1, <1>2 DEF Awaited
<1>4. calm > regime.delay =>
         /\ t \in Awaited /\ Awaited = {t}
         /\ task[t].at = 0 \/ (task[t].at = 1 /\ sent = {})
         /\ task[t].kind = "report" => task[t].health = "healthy"
  BY <1>1, WritersAreNew, SteadyFacts
<1>5. GivenUp'
  BY <1>1, <1>2 DEF Steadily, GivenUp, Awaited
<1>6. SentLately' /\ SentHealthy'
  BY <1>1, <1>2, <1>3, SteadyFacts DEF Steadily, SentLately, SentHealthy
<1>7. RowFresh'
  <2>1. calm > regime.delay => row'.age <= 1 /\ (sent # {} => row'.age <= 0)
    BY <1>1, <1>4
  <2>2. calm > regime.delay + 1 => calm > regime.delay
    BY SteadyFacts
  <2> QED BY <1>1, <2>1, <2>2 DEF RowFresh, Marked
<1>8. SteadyMonitor'
  BY <1>1, SteadyFacts DEF Steadily, SteadyMonitor
<1>9. ASSUME calm > regime.delay PROVE HealthyRow \/ Reporting => HealthyRow'
  <2>1. \A u \in Awaited' : u = t /\ task'[u].pc # "write"
    BY <1>1, <1>3, <1>4, <1>9
  <2>2. CASE task[t].kind = "report"
    BY <1>1, <1>4, <1>9, <2>1, <2>2 DEF HealthyRow
  <2>3. CASE task[t].kind = "liveness"
    BY <1>1, <1>4, <1>9, <2>1, <2>3 DEF HealthyRow, Reporting
  <2> QED BY <1>1, <2>2, <2>3
<1>10. RowHealthy'
  <2>1. calm >= 2 * regime.delay + 2 => calm > regime.delay
    BY SteadyFacts
  <2> QED BY <1>1, <1>9, <2>1, SteadyFacts DEF Steadily, RowHealthy
<1>11. NoAlarms'
  BY <1>1, <1>2, <1>3, SteadyFacts DEF Steadily, NoAlarms, Alarmed
<1>12. ASSUME calm > regime.delay PROVE Evaluating => Evaluating'
  <2>1. CASE task[t].kind = "report"
    <3>1. t \in Awaited' /\ task'[t].pc = "reread"
      BY <1>1, <1>4, <1>12, <2>1 DEF Awaited
    <3> QED BY <3>1 DEF Evaluating
  <2>2. CASE task[t].kind = "liveness"
    BY <1>1, <1>4, <1>12, <2>2 DEF Evaluating, Reporting
  <2> QED BY <1>1, <2>1, <2>2
<1>13. AlertsResolved'
  <2>1. calm >= 4 * regime.delay + 3 => calm > regime.delay
    BY SteadyFacts
  <2> QED BY <1>1, <1>12, <2>1, SteadyFacts DEF Steadily, AlertsResolved, NoActive
<1> QED BY <1>1, <1>5, <1>6, <1>7, <1>8, <1>10, <1>11, <1>13 DEF Steadily

(* A mark that is still to come comes before any report that counts.       *)
LEMMA SteadyMark ==
    ASSUME HandlersInv, Steadily, NEW t \in Tasks, markStaleClusters(t), UNCHANGED regime
    PROVE  Steadily'
<1>1. /\ t = Monitor /\ task[t].pc = "write" /\ \A u \in Tasks \ {t} : task'[u] = task[u]
      /\ task'[t].pc = "resolve" /\ task'[t].at = 0
      /\ row'.health = "unreachable"
      /\ UNCHANGED <<alerts, agent, nodes, sent, calm>>
  BY MarkBecomes, Fields DEF Becomes
<1>2. \A u \in Slots : task'[u] = task[u]
  BY <1>1, SteadyFacts
<1>3. /\ GivenUp' /\ SentLately' /\ SentHealthy' /\ NoAlarms'
      /\ (Reporting' <=> Reporting) /\ (Evaluating' <=> Evaluating)
  BY <1>1, <1>2, SlotsKept
<1>4. calm <= 2 * regime.delay + 1
  BY <1>1, SteadyFacts DEF Steadily, SteadyMonitor
<1>5. SteadyMonitor'
  BY <1>1, <1>4, SteadyFacts DEF SteadyMonitor
<1>6. RowFresh'
  BY <1>1 DEF RowFresh, Marked
<1>7. RowHealthy'
  BY <1>1, <1>4, SteadyFacts DEF RowHealthy
<1>8. AlertsResolved'
  BY <1>1, <1>3 DEF Steadily, AlertsResolved, NoActive
<1> QED BY <1>1, <1>3, <1>5, <1>6, <1>7, <1>8 DEF Steadily

(* A report evaluates the row it has made healthy.                         *)
LEMMA SteadyReread ==
    ASSUME HandlersInv, Steadily, NEW t \in Tasks, rereadCluster(t), UNCHANGED regime
    PROVE  Steadily'
<1>1. /\ task[t].pc = "reread" /\ \A u \in Tasks \ {t} : task'[u] = task[u]
      /\ task'[t].pc = "resolve" /\ task'[t].at = 0 /\ task'[t].health = row.health
      /\ task'[t].awaited = task[t].awaited
      /\ UNCHANGED <<row, alerts, agent, nodes, sent, calm>>
  BY RereadBecomes, Fields DEF Becomes
<1>2. t \in Slots
  BY <1>1, SteadyFacts DEF HandlersInv, TasksInv
<1>3. Awaited' = Awaited
  BY <1>1, <1>2, SteadyFacts DEF Awaited
<1>4. GivenUp'
  BY <1>1, <1>2, <1>3, SteadyFacts DEF Steadily, GivenUp
<1>5. SentLately' /\ SentHealthy'
  BY <1>1, <1>2, <1>3, SteadyFacts DEF Steadily, SentLately, SentHealthy
<1>6. RowFresh'
  BY <1>1, <1>2, <1>3, SteadyFacts DEF Steadily, RowFresh, Marked
<1>7. SteadyMonitor'
  BY <1>1, <1>2, SteadyFacts DEF Steadily, SteadyMonitor
<1>8. /\ HealthyRow => HealthyRow'
      /\ Reporting => Reporting'
      /\ Evaluating => Evaluating'
  BY <1>1, <1>2, <1>3, SteadyFacts DEF HealthyRow, Reporting, Evaluating
<1>9. RowHealthy'
  BY <1>1, <1>8 DEF Steadily, RowHealthy
<1>10. NoAlarms'
  <2>1. calm >= 2 * regime.delay + 3 /\ t \in Awaited => row.health = "healthy"
    <3>1. t \in Awaited => ~Reporting
      BY <1>1, SteadyFacts DEF Reporting
    <3> QED BY <3>1 DEF Steadily, RowHealthy, HealthyRow
  <2>2. calm >= 2 * regime.delay + 4 => calm >= 2 * regime.delay + 3
    BY SteadyFacts
  <2> QED BY <1>1, <1>2, <1>3, <2>1, <2>2, SteadyFacts DEF Steadily, NoAlarms, Alarmed, Rules
<1>11. AlertsResolved'
  BY <1>1, <1>8 DEF Steadily, AlertsResolved, NoActive
<1> QED BY <1>1, <1>4, <1>5, <1>6, <1>7, <1>9, <1>10, <1>11 DEF Steadily

(* Once nobody evaluates an old row, an evaluation resolves every alert.   *)
LEMMA NobodyAlarmed ==
    ASSUME HandlersInv, Steadily, calm >= 4 * regime.delay + 3, NEW t \in Tasks, Alarmed(t)
    PROVE  FALSE
<1>1. task[t].at \in 0..regime.delay /\ regime.delay \in Nat /\ calm \in Nat
  BY SteadyFacts
<1>2. t # Monitor
  BY <1>1, SteadyFacts DEF Steadily, SteadyMonitor, Alarmed
<1>3. t \in Slots
  BY <1>2, SteadyFacts
<1>4. t \in Awaited
  BY <1>1, <1>3 DEF Steadily, GivenUp, Alarmed
<1>5. regime.delay > 0
  BY <1>1, <1>4 DEF Steadily, NoAlarms
<1> QED BY <1>1, <1>4, <1>5 DEF Steadily, NoAlarms

(* A healthy evaluation resolves the alerts, an old one of another health  *)
(* finds no calm.                                                          *)
LEMMA SteadyResolve ==
    ASSUME HandlersInv, Steadily, NEW t \in Tasks, ResolveClusterAlerts(t), UNCHANGED regime
    PROVE  Steadily'
<1>1. /\ task[t].pc = "resolve" /\ \A u \in Tasks \ {t} : task'[u] = task[u]
      /\ \/ task[t].health \notin Rules /\ task'[t].pc = "idle" /\ ~task'[t].awaited
         \/ /\ task[t].health \in Rules /\ task'[t].pc = "create"
            /\ task'[t].at \in 0..task[t].at /\ task'[t].health = task[t].health
            /\ task'[t].awaited = task[t].awaited
      /\ alerts' = resolved(task[t].health)
      /\ UNCHANGED <<row, agent, nodes, sent, calm>>
  BY ResolveBecomes, Fields DEF Becomes
<1>2. alerts \subseteq Alert
  BY DEF HandlersInv, TypeOK, Alert
<1>3. NoActive => NoActive'
  BY <1>1, <1>2, ResolvedAlerts DEF NoActive
<1>4. task[t].health \notin Rules => NoActive'
  BY <1>1, <1>2, ResolvedAlerts DEF NoActive, Alert
<1>5. Awaited' \subseteq Awaited /\ \A u \in Slots : u # t => task'[u] = task[u]
  BY <1>1, SteadyFacts DEF Awaited
<1>6. GivenUp'
  <2>1. ASSUME NEW u \in Slots, u \notin Awaited', u # t
        PROVE  u \notin Awaited /\ task'[u] = task[u]
    BY <1>5, <2>1 DEF Awaited
  <2>2. ASSUME t \in Slots, t \notin Awaited', task'[t].pc = "create"
        PROVE  calm <= 2 * regime.delay + task'[t].at
    <3>1. t \notin Awaited /\ task'[t].at \in Nat
      BY <1>1, <2>2, SteadyFacts DEF Awaited
    <3> QED BY <1>1, <2>2, <3>1, SteadyFacts DEF Steadily, GivenUp
  <2> QED BY <1>1, <2>1, <2>2 DEF Steadily, GivenUp
<1>7. SentLately' /\ SentHealthy'
  BY <1>1, <1>5, SteadyFacts DEF Steadily, SentLately, SentHealthy
<1>8. \A u \in Awaited : task[u].pc \in {"read", "write"} => u \in Awaited' /\ task'[u] = task[u]
  BY <1>1, <1>5, SteadyFacts DEF Awaited
<1>9. RowFresh'
  BY <1>1, <1>8 DEF Steadily, RowFresh, Marked
<1>10. SteadyMonitor'
  BY <1>1, SteadyFacts DEF Steadily, SteadyMonitor
<1>11. (HealthyRow => HealthyRow') /\ (Reporting => Reporting')
  BY <1>1, <1>5, <1>8, SteadyFacts DEF HealthyRow, Reporting
<1>12. RowHealthy'
  BY <1>1, <1>11 DEF Steadily, RowHealthy
<1>13. NoAlarms'
  <2>1. \A u \in Awaited' : Alarmed(u)' => u \in Awaited /\ Alarmed(u)
    BY <1>1, <1>5, SteadyFacts DEF Alarmed
  <2> QED BY <1>1, <2>1 DEF Steadily, NoAlarms
<1>14. ASSUME calm >= 4 * regime.delay + 3 PROVE NoActive'
  <2>1. task[t].health \notin Rules
    BY <1>1, <1>14, NobodyAlarmed DEF Alarmed
  <2> QED BY <1>4, <2>1
<1>15. AlertsResolved'
  <2>1. /\ calm >= 4 * regime.delay + 4 => calm >= 4 * regime.delay + 3
        /\ calm >= 4 * regime.delay + 5 => calm >= 4 * regime.delay + 3
    BY SteadyFacts
  <2> QED BY <1>1, <1>14, <2>1 DEF AlertsResolved
<1> QED BY <1>1, <1>6, <1>7, <1>9, <1>10, <1>12, <1>13, <1>15 DEF Steadily

(* No evaluation of another health than healthy is left to create an       *)
(* alert.                                                                  *)
LEMMA SteadyCreate ==
    ASSUME HandlersInv, Steadily, NEW t \in Tasks, CreateAlertIfDue(t), UNCHANGED regime
    PROVE  Steadily'
<1>1. /\ task[t].pc = "create" /\ \A u \in Tasks \ {t} : task'[u] = task[u]
      /\ task'[t].pc = "idle" /\ ~task'[t].awaited
      /\ UNCHANGED <<row, agent, nodes, sent, calm>>
  BY CreateBecomes, Fields DEF Becomes
<1>2. Awaited' \subseteq Awaited /\ \A u \in Slots : u # t => task'[u] = task[u]
  BY <1>1, SteadyFacts DEF Awaited
<1>3. GivenUp'
  <2>1. ASSUME NEW u \in Slots, u \notin Awaited', u # t
        PROVE  u \notin Awaited /\ task'[u] = task[u]
    BY <1>2, <2>1 DEF Awaited
  <2> QED BY <1>1, <2>1 DEF Steadily, GivenUp
<1>4. SentLately' /\ SentHealthy'
  BY <1>1, <1>2, SteadyFacts DEF Steadily, SentLately, SentHealthy
<1>5. \A u \in Awaited : task[u].pc \in {"read", "write"} => u \in Awaited' /\ task'[u] = task[u]
  BY <1>1, <1>2, SteadyFacts DEF Awaited
<1>6. RowFresh'
  BY <1>1, <1>5 DEF Steadily, RowFresh, Marked
<1>7. SteadyMonitor'
  BY <1>1, SteadyFacts DEF Steadily, SteadyMonitor
<1>8. (HealthyRow => HealthyRow') /\ (Reporting => Reporting')
  BY <1>1, <1>2, <1>5, SteadyFacts DEF HealthyRow, Reporting
<1>9. RowHealthy'
  BY <1>1, <1>8 DEF Steadily, RowHealthy
<1>10. NoAlarms'
  <2>1. \A u \in Awaited' : Alarmed(u)' => u \in Awaited /\ Alarmed(u)
    BY <1>1, <1>2, SteadyFacts DEF Alarmed
  <2> QED BY <1>1, <2>1 DEF Steadily, NoAlarms
<1>11. ~(calm >= 4 * regime.delay + 3)
  BY <1>1, NobodyAlarmed, SteadyFacts DEF Alarmed
<1>12. AlertsResolved'
  <2>1. /\ calm >= 4 * regime.delay + 4 => calm >= 4 * regime.delay + 3
        /\ calm >= 4 * regime.delay + 5 => calm >= 4 * regime.delay + 3
    BY SteadyFacts
  <2> QED BY <1>1, <1>11, <2>1 DEF AlertsResolved
<1> QED BY <1>1, <1>3, <1>4, <1>6, <1>7, <1>9, <1>10, <1>12 DEF Steadily

(* An interval passes only when both requests were sent in it.             *)
LEMMA SteadyTick ==
    ASSUME HandlersInv, Steadily, Tick, UNCHANGED regime
    PROVE  Steadily'
<1>1. /\ sent = Requests /\ sent' = {} /\ UNCHANGED <<agent, nodes>>
      /\ calm' \in Nat /\ calm' <= calm + 1
      /\ row'.health = row.health /\ row'.age = IF row.age >= Stale THEN row.age ELSE row.age + 1
  BY TickBecomes DEF Steadily
<1>2. "report" \in sent /\ sent # {}
  BY <1>1 DEF Requests
<1>3. ASSUME NEW u \in Slots
      PROVE  \/ /\ task[u].pc # "idle" /\ task[u].at < regime.delay
                /\ task'[u].pc = task[u].pc /\ task'[u].kind = task[u].kind
                /\ task'[u].health = task[u].health /\ task'[u].at = task[u].at + 1
                /\ task'[u].awaited = task[u].awaited
             \/ task[u].pc = "idle" /\ task'[u].pc = "idle" /\ ~task'[u].awaited
  <2>1. u \in Tasks /\ u # Monitor
    BY SteadyFacts
  <2> QED BY <2>1, TickFields
<1>4. Awaited' = Awaited
  BY <1>3, SteadyFacts DEF Awaited
<1>5. GivenUp'
  BY <1>1, <1>3, <1>4, SteadyFacts DEF Steadily, GivenUp
<1>6. SentLately'
  <2> SUFFICES ASSUME NEW u \in Awaited, task'[u].pc \in {"read", "write", "reread"}
               PROVE  \/ task'[u].at >= calm'
                      \/ task'[u].at = 1 /\ sent' = {}
    BY <1>4 DEF SentLately
  <2>1. task'[u].at = task[u].at + 1 /\ task'[u].pc = task[u].pc
    BY <1>3, SteadyFacts
  <2>2. task[u].at >= calm \/ task[u].at = 0
    BY <1>2, <2>1 DEF Steadily, SentLately
  <2> QED BY <1>1, <2>1, <2>2, SteadyFacts
<1>7. SentHealthy'
  <2> SUFFICES ASSUME NEW u \in Awaited, task'[u].pc \in {"read", "write"},
                      task'[u].kind = "report"
               PROVE  task'[u].at >= calm' \/ task'[u].health = "healthy"
    BY <1>4 DEF SentHealthy
  <2>1. /\ task'[u].at = task[u].at + 1 /\ task'[u].pc = task[u].pc
        /\ task'[u].kind = task[u].kind /\ task'[u].health = task[u].health
    BY <1>3, SteadyFacts
  <2>2. task[u].at >= calm \/ task[u].health = "healthy"
    BY <2>1 DEF Steadily, SentHealthy
  <2> QED BY <1>1, <2>1, <2>2, SteadyFacts
<1>8. RowFresh'
  <2>1. calm' > regime.delay + 1 => calm > regime.delay
    BY <1>1, SteadyFacts
  <2>2. calm > regime.delay => Marked(0)
    BY <1>1, <1>2 DEF Steadily, RowFresh
  <2>3. Marked(0) => Marked(1)'
    BY <1>1, SteadyFacts, Numbers DEF Marked
  <2> QED BY <1>1, <2>1, <2>2, <2>3 DEF RowFresh
<1>9. SteadyMonitor'
  <2>1. \/ task'[Monitor].pc = "read"
        \/ task'[Monitor].pc = task[Monitor].pc /\ task'[Monitor].at = task[Monitor].at + 1
    BY SteadyFacts, TickFields
  <2> QED BY <1>1, <2>1, SteadyFacts DEF Steadily, SteadyMonitor
<1>10. /\ HealthyRow => HealthyRow'
       /\ Reporting => Reporting'
       /\ Evaluating => Evaluating'
  BY <1>1, <1>3, <1>4, SteadyFacts DEF HealthyRow, Reporting, Evaluating
<1>11. RowHealthy'
  <2>1. /\ calm' >= 2 * regime.delay + 3 => calm >= 2 * regime.delay + 2
        /\ calm' >= 2 * regime.delay + 4 => calm >= 2 * regime.delay + 3
    BY <1>1, SteadyFacts
  <2> QED BY <1>1, <1>2, <1>10, <2>1 DEF Steadily, RowHealthy
<1>12. NoAlarms'
  <2>1. calm' >= 2 * regime.delay + 4 => calm >= 2 * regime.delay + 3
    BY <1>1, SteadyFacts
  <2>2. ASSUME NEW u \in Awaited, Alarmed(u)' PROVE Alarmed(u) /\ regime.delay > 0
    <3>1. u \in Slots /\ task[u].at \in Nat /\ regime.delay \in Nat
      BY SteadyFacts
    <3> QED BY <1>3, <2>2, <3>1 DEF Alarmed
  <2> QED BY <1>1, <1>2, <1>4, <2>1, <2>2 DEF Steadily, NoAlarms
<1>13. NoActive => NoActive'
  BY OlderAlerts DEF NoActive
<1>14. AlertsResolved'
  <2>1. /\ calm' >= 4 * regime.delay + 4 => calm >= 4 * regime.delay + 3
        /\ calm' >= 4 * regime.delay + 5 => calm >= 4 * regime.delay + 4
    BY <1>1, SteadyFacts
  <2> QED BY <1>1, <1>2, <1>10, <1>13, <2>1 DEF Steadily, AlertsResolved
<1> QED BY <1>1, <1>5, <1>6, <1>7, <1>8, <1>9, <1>11, <1>12, <1>14 DEF Steadily

-----------------------------------------------------------------------------
(* The alerts of one rule.                                                 *)

(* An evaluation resolves alerts and leaves their times alone.             *)
LEMMA ResolveSpaced ==
    ASSUME HandlersInv, AlertsSpaced, NEW t \in Tasks, ResolveClusterAlerts(t)
    PROVE  AlertsSpaced'
<1>1. alerts \subseteq Alert
  BY DEF HandlersInv, TypeOK, Alert
<1> DEFINE h == task[t].health
           image(b) == [health |-> b.health, age |-> b.age, active |-> b.active /\ b.health = h]
<1>2. ASSUME NEW a \in alerts' PROVE \E b \in alerts : a = image(b)
  <2>1. PICK b \in alerts : a = [b EXCEPT !.active = b.active /\ b.health = h]
    BY <1>2 DEF ResolveClusterAlerts, resolved, relevant
  <2>2. b \in Alert /\ (b.active /\ b.health = h) \in BOOLEAN
    BY <1>1 DEF Alert
  <2> QED BY <2>1, <2>2 DEF Alert
<1>3. ASSUME NEW a \in alerts', NEW b \in alerts', a # b, a.health = b.health, a.age <= b.age
      PROVE  b.age >= a.age + Cooldown \/ b.age = AlertAge
  <2>1. PICK c \in alerts : a = image(c)
    BY <1>2
  <2>2. PICK d \in alerts : b = image(d)
    BY <1>2
  <2>3. c # d
    BY <1>3, <2>1, <2>2
  <2>4. c.age = a.age /\ c.health = a.health /\ d.age = b.age /\ d.health = b.health
    BY <2>1, <2>2
  <2> QED BY <1>3, <2>3, <2>4 DEF AlertsSpaced
<1> QED BY <1>3 DEF AlertsSpaced

(* An alert that is due is its cooldown younger than all of its rule.      *)
LEMMA CreateSpaced ==
    ASSUME HandlersInv, AlertsSpaced, NEW t \in Tasks, CreateAlertIfDue(t)
    PROVE  AlertsSpaced'
<1>1. alerts \subseteq Alert /\ task[t].at \in Nat /\ Cooldown \in Nat
  BY TaskFacts, Numbers DEF HandlersInv, TypeOK, Alert
<1>2. CASE ~due(task[t].health, task[t].at)
  BY <1>2 DEF CreateAlertIfDue, AlertsSpaced
<1>3. CASE due(task[t].health, task[t].at)
  <2> DEFINE new == [health |-> task[t].health, age |-> task[t].at, active |-> TRUE]
  <2>1. /\ alerts' = alerts \cup {new}
        /\ \A b \in alerts : b.health = new.health => b.age >= new.age + Cooldown
        /\ new.age \in Nat
    BY <1>1, <1>3 DEF CreateAlertIfDue, due
  <2> HIDE DEF new
  <2>2. \A b \in alerts : b.age \in Nat
    BY <1>1, Numbers DEF Alert
  <2>3. ASSUME NEW a \in alerts', NEW b \in alerts', a # b, a.health = b.health, a.age <= b.age
        PROVE  b.age >= a.age + Cooldown \/ b.age = AlertAge
    <3>1. CASE a \in alerts /\ b \in alerts
      BY <2>3, <3>1 DEF AlertsSpaced
    <3>2. CASE a = new /\ b \in alerts
      BY <2>1, <2>3, <3>2
    <3>3. CASE a \in alerts /\ b = new
      BY <1>1, <2>1, <2>2, <2>3, <3>3
    <3> QED BY <2>1, <2>3, <3>1, <3>2, <3>3
  <2> QED BY <2>3 DEF AlertsSpaced
<1> QED BY <1>2, <1>3

(* Alerts grow older together, as far as it matters.                       *)
LEMMA TickSpaced ==
    ASSUME HandlersInv, AlertsSpaced, Tick
    PROVE  AlertsSpaced'
<1>1. alerts \subseteq Alert /\ Cooldown \in Nat /\ AlertAge \in Nat
  BY Numbers DEF HandlersInv, TypeOK, Alert
<1>2. ASSUME NEW a \in alerts', NEW b \in alerts', a # b, a.health = b.health, a.age <= b.age
      PROVE  b.age >= a.age + Cooldown \/ b.age = AlertAge
  <2>1. PICK c \in alerts :
           a = [health |-> c.health, age |-> Capped(c.age, AlertAge), active |-> c.active]
    BY OlderAlerts
  <2>2. PICK d \in alerts :
           b = [health |-> d.health, age |-> Capped(d.age, AlertAge), active |-> d.active]
    BY OlderAlerts
  <2>3. c # d /\ c.health = d.health
    BY <1>2, <2>1, <2>2
  <2>4. /\ a.age = IF c.age < AlertAge THEN c.age + 1 ELSE c.age
        /\ b.age = IF d.age < AlertAge THEN d.age + 1 ELSE d.age
        /\ c.age \in 0..AlertAge /\ d.age \in 0..AlertAge
    BY <1>1, <2>1, <2>2 DEF Capped, Alert
  <2>5. c.age <= d.age \/ b.age = AlertAge
    BY <1>1, <1>2, <2>4
  <2>6. c.age <= d.age => d.age >= c.age + Cooldown \/ d.age = AlertAge
    BY <2>3 DEF AlertsSpaced
  <2> QED BY <1>1, <2>4, <2>5, <2>6
<1> QED BY <1>2 DEF AlertsSpaced

-----------------------------------------------------------------------------
(* The theorems.                                                           *)

(* The steps of Next, the ones that end the calm together.                 *)
LEMMA Steps ==
    ASSUME Next
    PROVE  /\ UNCHANGED regime
           /\ \/ \E t \in Slots, kind \in Requests : Send(t, kind)
              \/ \E t \in Tasks : TaskStep(t)
              \/ Restless
              \/ Tick
BY DEF Next, Restless

(* All steps keep the handlers in order.                                   *)
LEMMA HandlersStep ==
    ASSUME HandlersInv, [Next]_vars
    PROVE  HandlersInv'
<1>1. CASE UNCHANGED vars
  BY <1>1 DEF vars, HandlersInv, TypeOK, TasksInv, OneAwaited, Settled
<1>2. CASE Next
  BY <1>2, Steps, SendHandlers, TaskStepHandlers, RestlessHandlers, TickHandlers
<1> QED BY <1>1, <1>2

(* The hub starts without handlers, over the row an earlier run has left.  *)
LEMMA HandlersInit == Init => HandlersInv
<1> SUFFICES ASSUME Init PROVE HandlersInv
  OBVIOUS
<1>1. TypeOK
  <2>1. regime \in Regimes /\ regime.delay \in Nat /\ nodes \in regime.conditions
    BY Numbers DEF Init
  <2>2. row \in [health : Healths, age : 0..Never] /\ row.health = "unknown"
    BY Numbers DEF Init, Healths
  <2>3. task \in [Tasks -> Task]
    BY Fields DEF Init
  <2>4. alerts = {} /\ agent = "up" /\ sent = {} /\ calm = 0 /\ 0 \in 0..Settled
    BY <2>1, Numbers DEF Init, Settled
  <2> QED BY <2>1, <2>2, <2>3, <2>4 DEF TypeOK
<1>2. \A t \in Tasks : task[t] = Idle
  BY DEF Init
<1>3. TasksInv /\ OneAwaited
  <2>1. regime.delay \in Nat
    BY Numbers DEF Init
  <2> QED BY <1>2, <2>1, Fields DEF TasksInv, OneAwaited, Tasks
<1> QED BY <1>1, <1>3 DEF HandlersInv

(* Rows, tasks and alerts keep their shape, and no evaluation creates an   *)
(* alert no rule is for (UpdateHealth, Evaluate).                          *)
THEOREM TypeCorrect == Spec => []TypeOK
<1>1. Init => HandlersInv
  BY HandlersInit
<1>2. HandlersInv /\ [Next]_vars => HandlersInv'
  BY HandlersStep
<1>3. HandlersInv => TypeOK
  BY DEF HandlersInv
<1> QED BY <1>1, <1>2, <1>3, PTL DEF Spec

(* CreateAlertIfDue keeps the alerts of one rule its cooldown apart, for   *)
(* any number of concurrent evaluations and any delay of their clocks.     *)
THEOREM CooldownKept == Spec => []AlertsSpaced
<1>1. Init => HandlersInv /\ AlertsSpaced
  BY HandlersInit DEF Init, AlertsSpaced
<1>2. ASSUME HandlersInv, AlertsSpaced, [Next]_vars PROVE AlertsSpaced'
  <2>1. CASE UNCHANGED alerts
    BY <1>2, <2>1 DEF AlertsSpaced
  <2>2. CASE UNCHANGED vars
    BY <2>1, <2>2 DEF vars
  <2>3. ASSUME NEW t \in Slots, NEW kind \in Requests, Send(t, kind) PROVE AlertsSpaced'
    BY <2>1, <2>3 DEF Send
  <2>4. ASSUME NEW t \in Tasks, TaskStep(t) PROVE AlertsSpaced'
    <3>1. CASE ResolveClusterAlerts(t)
      BY <1>2, <3>1, ResolveSpaced
    <3>2. CASE CreateAlertIfDue(t)
      BY <1>2, <3>2, CreateSpaced
    <3>3. CASE \/ readCluster(t) \/ listStaleClusters(t) \/ UpdateHealth(t)
               \/ markStaleClusters(t) \/ rereadCluster(t)
      BY <2>1, <3>3 DEF readCluster, listStaleClusters, UpdateHealth, markStaleClusters, rereadCluster
    <3> QED BY <2>4, <3>1, <3>2, <3>3 DEF TaskStep
  <2>5. CASE Restless
    BY <2>1, <2>5 DEF Restless, Deregister, RequestTimesOut, TaskFails, Lose, HubRestart,
       Disconnect, Reconnect, NodesChange
  <2>6. CASE Tick
    BY <1>2, <2>6, TickSpaced
  <2> QED BY <1>2, <2>2, <2>3, <2>4, <2>5, <2>6, Steps
<1>3. HandlersInv /\ AlertsSpaced /\ [Next]_vars => (HandlersInv /\ AlertsSpaced)'
  BY <1>2, HandlersStep
<1> QED BY <1>1, <1>3, PTL DEF Spec

(* However late its handlers and the monitor are, and whatever happened    *)
(* before, a silent cluster is unreachable after StaleAfter intervals and  *)
(* the time a check takes (markStaleClusters).                             *)
THEOREM SilenceNoticed == Spec => []SilentIsUnreachable
<1>1. Init => HandlersInv /\ SilentInv
  BY HandlersInit DEF Init, SilentInv
<1>2. ASSUME HandlersInv, SilentInv, [Next]_vars PROVE SilentInv'
  <2>1. HandlersInv'
    BY <1>2, HandlersStep
  <2>2. CASE UNCHANGED vars
    BY <1>2, <2>2 DEF vars, SilentInv, SilentHandlers, SilentRow, SilentMonitor
  <2>3. ASSUME NEW t \in Slots, NEW kind \in Requests, Send(t, kind) PROVE SilentInv'
    BY <2>3 DEF Send, SilentInv
  <2>4. ASSUME NEW t \in Tasks, TaskStep(t), UNCHANGED regime PROVE SilentInv'
    BY <1>2, <2>4, SilentTaskStep
  <2>5. CASE Restless /\ UNCHANGED regime
    BY <1>2, <2>1, <2>5, RestlessHandlers, RestlessTiming
  <2>6. CASE Tick /\ UNCHANGED regime
    BY <1>2, <2>6, SilentTick
  <2> QED BY <1>2, <2>2, <2>3, <2>4, <2>5, <2>6, Steps
<1>3. HandlersInv /\ SilentInv /\ [Next]_vars => (HandlersInv /\ SilentInv)'
  BY <1>2, HandlersStep
<1>4. HandlersInv /\ SilentInv => SilentIsUnreachable
  <2> SUFFICES ASSUME HandlersInv, SilentInv, agent # "up", calm = Settled, row.age # Never,
                      row.health # "unreachable"
               PROVE  FALSE
    BY DEF SilentIsUnreachable, Silent
  <2>1. /\ SilentMonitor /\ regime.delay \in Nat /\ StaleAfter \in Nat
        /\ task[Monitor].at \in 0..regime.delay
        /\ task[Monitor].pc \in {"idle", "read", "write", "resolve", "create"}
        /\ calm = StaleAfter + 2 + 4 * regime.delay
    BY TaskFacts, Numbers DEF SilentInv, Settled, Tasks, HandlersInv, TasksInv
  <2> QED BY <2>1 DEF SilentMonitor
<1> QED BY <1>1, <1>3, <1>4, PTL DEF Spec

(* A cluster that reports healthy nodes in calm is shown as healthy, and   *)
(* without an active alert, whatever the handlers of lost requests and the *)
(* monitor had still in hand, for any delay of theirs; the time it takes   *)
(* fits into the calm that SteadyIsHealthy allows if a cluster is stale    *)
(* after no less than three missed intervals, as in the code               *)
(* (handleClusterSnapshot, Evaluate).                                      *)
THEOREM RecoveryShown ==
    ASSUME StaleAfter >= 3
    PROVE  Spec => []SteadyIsHealthy
<1>1. Init => HandlersInv /\ SteadyInv
  <2> SUFFICES ASSUME Init PROVE HandlersInv /\ SteadyInv
    OBVIOUS
  <2>1. HandlersInv
    BY HandlersInit
  <2>2. calm = 0 /\ alerts = {} /\ \A t \in Tasks : task[t] = Idle
    BY DEF Init
  <2>3. regime.delay \in Nat
    BY <2>1, TaskFacts
  <2>4. GivenUp /\ SentLately /\ SentHealthy /\ SteadyMonitor /\ NoAlarms
    BY <2>2, <2>3, Fields DEF GivenUp, SentLately, SentHealthy, SteadyMonitor, NoAlarms, Alarmed,
       Awaited, Tasks
  <2>5. RowFresh /\ RowHealthy /\ AlertsResolved
    BY <2>2, <2>3 DEF RowFresh, RowHealthy, AlertsResolved
  <2> QED BY <2>1, <2>4, <2>5 DEF SteadyInv
<1>2. ASSUME HandlersInv, SteadyInv, [Next]_vars PROVE SteadyInv'
  <2>1. HandlersInv'
    BY <1>2, HandlersStep
  <2>2. CASE UNCHANGED vars
    <3>1. /\ UNCHANGED <<row, task, alerts, agent, nodes, sent, calm, regime>>
          /\ UNCHANGED Awaited
      BY <2>2 DEF vars, Awaited
    <3>2. /\ GivenUp' = GivenUp /\ SentLately' = SentLately /\ SentHealthy' = SentHealthy
          /\ RowFresh' = RowFresh /\ SteadyMonitor' = SteadyMonitor
      BY <3>1 DEF GivenUp, SentLately, SentHealthy, RowFresh, SteadyMonitor, Marked
    <3>3. RowHealthy' = RowHealthy /\ NoAlarms' = NoAlarms /\ AlertsResolved' = AlertsResolved
      BY <3>1 DEF RowHealthy, NoAlarms, AlertsResolved, HealthyRow, Reporting, Alarmed, NoActive,
         Evaluating
    <3> QED BY <1>2, <3>1, <3>2, <3>3 DEF SteadyInv
  <2>3. CASE Restless /\ UNCHANGED regime
    BY <1>2, <2>1, <2>3, RestlessHandlers, RestlessTiming
  <2>4. CASE /\ UNCHANGED regime
             /\ \/ \E t \in Slots, kind \in Requests : Send(t, kind)
                \/ \E t \in Tasks : TaskStep(t)
                \/ Tick
    <3>1. UNCHANGED <<agent, nodes>>
      BY <2>4 DEF Send, TaskStep, Tick, readCluster, listStaleClusters, UpdateHealth,
         markStaleClusters, rereadCluster, ResolveClusterAlerts, CreateAlertIfDue, environment
    <3>2. CASE agent = "up" /\ nodes = "healthy"
      <4>1. Steadily /\ HandlersInv /\ StaleAfter > 0
        BY <1>2, <3>2, Numbers DEF SteadyInv, Steadily
      <4>2. Steadily'
        BY <2>4, <4>1, SteadySend, SteadyRead, SteadyList, SteadyUpdate, SteadyMark, SteadyReread,
           SteadyResolve, SteadyCreate, SteadyTick DEF TaskStep
      <4> QED BY <4>2 DEF Steadily, SteadyInv
    <3>3. CASE ~(agent = "up" /\ nodes = "healthy")
      BY <3>1, <3>3 DEF SteadyInv
    <3> QED BY <3>2, <3>3
  <2> QED BY <1>2, <2>2, <2>3, <2>4, Steps
<1>3. HandlersInv /\ SteadyInv /\ [Next]_vars => (HandlersInv /\ SteadyInv)'
  BY <1>2, HandlersStep
<1>4. HandlersInv /\ SteadyInv => SteadyIsHealthy
  <2> SUFFICES ASSUME HandlersInv, SteadyInv, agent = "up", nodes = "healthy", calm = Settled
               PROVE  row.health = "healthy" /\ \A a \in alerts : ~a.active
    BY DEF SteadyIsHealthy, Steady
  <2>1. RowHealthy /\ AlertsResolved
    BY DEF SteadyInv
  <2>2. calm >= 2 * regime.delay + 4 /\ calm >= 4 * regime.delay + 5
    BY TaskFacts, Numbers DEF Settled
  <2> QED BY <2>1, <2>2 DEF RowHealthy, HealthyRow, AlertsResolved, NoActive
<1> QED BY <1>1, <1>3, <1>4, PTL DEF Spec

=============================================================================
