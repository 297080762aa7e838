# kfleet: a TLA+ verification project

kfleet is a fleet dashboard for Kubernetes clusters. One **hub** (Go, one SQLite connection)
serves an HTTP API, Server-Sent Events and WebSockets; one **agent** per cluster registers with
the hub, waits for an operator's approval, then sends heartbeats and snapshots and serves pod logs
over a WebSocket it dials itself. This directory models the parts of the hub and the agent whose
correctness depends on the order of concurrent steps, checks them with TLC on small instances, and
proves every safety property, the refinements included, with TLAPS for every value of the constants.

Paths below are relative to the repository root (`src/`).

## 1. Inventory

### Components, state, operations

| component | code | state | operations |
|---|---|---|---|
| agent enrollment | `internal/server/handlers_agents.go`, `handlers_clusters.go`, `handlers_admin.go`; `internal/agent/registrar`; `cmd/agent/main.go` | rows of `clusters` and `agents`, the registration token in `settings`; an agent's token in memory | register, re-register with proof, operator registration, approve, delete, rotate; the agent's register / heartbeat / back-off loop |
| cluster health, alert evaluation | `internal/server/server.go`, `handlers_agents.go`, `handlers_clusters.go`; `internal/alerts/manager.go`; `internal/store/alerts.go` | `health` and `last_heartbeat` of a cluster, its alerts | heartbeat, report, farewell, staleness check, resolve and create alerts |
| alert delivery | `internal/alerts/manager.go`, `internal/store/alerts.go`, `handlers_alerts.go` | delivery columns of `alerts`, the batch of the delivery loop | poll, send, record success or failure, acknowledge, resolve |
| accounts and sessions | `handlers_users.go`, `handlers_auth.go`, `middleware_auth.go`, `bootstrap.go`, `internal/store/sqlite.go` | rows of `users` and `sessions` | login, logout, create / update / delete user, reset or change password, expiry, pruning, bootstrap |
| pod log relay | `internal/server/logrelay.go`, `handlers_logs.go`; `internal/agent/logs` | agent channels, streams and their queues; the agent's workers | connect, replace, start, relay, stop, close |
| live updates | `internal/server/hub.go`, `handlers_ws.go` | clients of the broadcast loop and their queues | register, initial frames, broadcast, drop a slow client, unregister, stop |
| policy drift | `internal/policy/engine.go`, `handlers_policies.go`; snapshot tables of `internal/store/sqlite.go` | stored snapshots; the reads of one evaluation | replace a snapshot, evaluate seven policies |
| operational timeline | `events.go`, `handlers_events.go`, `monitorEventRetention` in `server.go`; `operational_events` in the store | events; the pruner's pass | append with a dedupe key, record a finding, list a page after a cursor, prune in batches |
| MCP server | `internal/mcp/tools.go`, `internal/mcp/hubclient` | the flag `loggedIn`, the lock `authMu` and the cookie jar that all calls share | tool calls, login on demand, one retry after a 401, paging through the timeline |
| metrics, probes, agent readiness | `metrics.go`, `internal/agent/health`, `internal/agent/hubcontact` | last contact of the agent | not modelled, section 8 |
| CLI | `cmd/kfleet` | a state file, the process id of a port-forward | not modelled, section 8 |
| configuration, migrations, collector, demo data, web dashboard, charts | see `PROJECT.json` | none that outlives a request | not modelled, section 8 |

### How they interact

* Every handler is a goroutine. The store has a single connection
  (`SetMaxOpenConns(1)`), so **one store call is one atomic step**, and any step of any other
  goroutine may fall between two store calls. A transaction is one step.
* A request that times out at the agent does not stop its handler: the handler runs on and takes
  effect later. The models let the client leave and the handler complete.
* Enrollment creates the rows that health, snapshots and log streams use; health calls
  `alerts.Manager.Evaluate` in the handler that stored the health; the alerts it inserts are taken
  up by the delivery loop, which shares nothing with it but the table. Health changes and reports
  are broadcast to WebSocket clients. Policies read what reports have stored. Enrollment, health and
  approvals leave events in the timeline, written after the change they report.
* The MCP server is a client of the API: each request passes the hub's session check, and pages of
  the timeline are read while handlers append to it and the pruner deletes from it.
* The agent stops its log client, and waits for it, before it registers again or says farewell.
* The registration token, agent tokens and sessions are credentials checked at the start of a
  request and not again.

### Which behaviours are hard

1. read – compute – write over separate store calls (registration proof and token rotation, the
   staleness monitor, heartbeats that write back the health they read, logins that verify a hash);
2. late handlers after a timeout, and retries that race them;
3. closing of Go channels by several goroutines (log relay, broadcast loop), where a second close
   or a send on a closed channel ends the process;
4. bounded queues: what is dropped, who is cut off, who blocks;
5. retry schedules and cooldowns kept in a table across restarts;
6. evaluations that are many reads over changing tables, and listings read page by page;
7. a lock that is held during a network request, and a login that many callers share.

`PROJECT.json` lists these as hazards, each at its line with the properties that would catch it.

### What makes each component correct

* enrollment: a credential belongs to the creator of the cluster; approval is lost only by
  deletion; agents get in, and get back in after faults;
* health: the hub's view converges to the truth in both directions; alerts respect their cooldown;
* delivery: the delivery history is true and final, back-off is kept, each alert settles;
* accounts: a hub that has users has an enabled administrator; a password change ends the sessions of the
  old password;
* log relay: no double close; no silent gap; no leaked worker, stream or channel;
* live updates: the loop never panics; a client skips no update; clients that have gone are removed;
* policies: verdicts agree with the definition of the fleet's mode and rest on reported evidence;
* timeline: whoever follows the cursors sees every event that has not expired, once, newest first;
  what has expired goes;
* MCP client: calls do not spoil each other's retry, and all of them return.

## 2. Modules

| module | models | composes / extends |
|---|---|---|
| `NameRegistry` | abstract: a name with one holder and one valid credential | – |
| `AgentEnrollment` | enrollment, hub and agent together | implements `NameRegistry` |
| `AgentEnrollment_proofs` | theorems about it | `AgentEnrollment`, `TLAPS` |
| `ClusterHealth` | handlers, monitor and alert evaluation of one cluster | – |
| `ClusterHealth_proofs` | theorems about it | `ClusterHealth`, `TLAPS` |
| `AlertLifecycle` | abstract: an alert waits, then is delivered or dead | – |
| `AlertDelivery` | the delivery loop over the alerts table | implements `AlertLifecycle` |
| `AlertDelivery_proofs` | theorems about its outcomes and its schedule | `AlertDelivery`, `FiniteSetTheorems`, `TLAPS` |
| `Accounts` | users, sessions, handlers | – |
| `Accounts_proofs` | theorems about it | `Accounts`, `TLAPS` |
| `LogPipe` | abstract: lines in order without a gap, then the truth about the rest | – |
| `LogRelay` | both ends of the pod log channel | implements `LogPipe` |
| `LogRelay_proofs` | theorems about it | `LogRelay`, `SequenceTheorems`, `TLAPS` |
| `BroadcastHub` | the broadcast loop and its clients | – |
| `BroadcastHub_proofs` | theorems about it | `BroadcastHub`, `SequenceTheorems`, `TLAPS` |
| `PolicyDrift` | one evaluation over changing snapshots | – |
| `PolicyDrift_proofs` | theorems about it | `PolicyDrift`, `FiniteSetTheorems`, `TLAPS` |
| `Timeline` | the events table, its writers, readers and pruner | – |
| `HubClient` | the login that concurrent MCP calls share | – |
| `McpTools` | tool calls that page through the timeline | instantiates `HubClient` and `Timeline` |
| `McpTools_proofs` | theorems about it | `McpTools`, `FiniteSetTheorems`, `TLAPS` |
| `MC<module>` | symmetry sets and data sets for TLC | the module it is named after |

Definitions keep the names of the functions they model; `PROJECT.json` maps each to its lines. A
definition named `X_Something` and marked "Mutant" is a plausible bug in `X`; it is used by nothing
and serves to show that a property would notice it.

### AgentEnrollment

One cluster name in one tenant (names never interact). `cluster` is the id of its row, `agentRow`
the token hash and the approval; tokens are numbers in minting order and `issuedTo` records for
whom each was minted. A registration handler in a slot takes one step per store call: `auth`,
`find`, `create` or `validate`, `issue`, then `approve` or `readApproval`, and the response. Agents
run `register → await → run`, with `backoff` between attempts. A restarted pod is a new process,
because agent tokens live in memory. Faults are a request whose client gives up, a lost heartbeat,
a failed store call, and a hub restart that ends all handlers.

`NameRegistry` is what this amounts to: a name is claimed, credentials are given to its holder only,
the last one is the valid one, a replaced or withdrawn one never is valid again, approval lasts until
release. The mapping takes the holder from the creator of the present cluster, the minted
credentials from `issuedTo`, and the valid one and the approval from the `agents` row; everything
else (requests, slots, processes) is hidden.

### ClusterHealth

One cluster with an approved agent. A task is a handler or the monitor and holds the copy of the
row it has read. Time is counted in heartbeat intervals and only ages are kept; an age stops growing
where the code no longer distinguishes it, so behaviours are unbounded while states are finite.
`MaxDelay` bounds how many intervals pass between two readings of the clock by one task, and
`Settled = StaleAfter + 2 + 4 * delay` is the number of calm intervals after which the hub must
know, where `delay` is the regime's own: one `delay` for handlers in flight, the missed intervals, one interval for the check, and three
delays of a check that is late because the monitor is still working on the previous one. `regime`,
chosen in `Init` and never changed, says how late tasks are and which conditions nodes can be in.

### AlertDelivery

Columns of the `alerts` table as functions of the alert, the loop as a record with the batch it has
read, and times relative to now. A crash may fall between any two steps, in particular between a
request and the record of its outcome. `Overdue` bounds how late a due row is remembered to be (it
is used for the order of a poll), `MaxSendTime` how long a send takes. It is assumed to be at most
`MaxRetryDelay`: the HTTP client gives up after 10 s (`manager.go:71`), the longest delay is an hour.
`retryDelay` is the loop of the code; the property compares it with `Backoff`, the closed form over
powers of two.

`AlertLifecycle` forgets the batch, the schedule and the operators: an alert waits until the webhook
has accepted it or `MaxAttempts` requests have been counted, and then is over for good.

### Accounts

`users` is a function from users to rows, `sessions` a set. A session records the password it was
obtained with, and `overtaken` whether that password was changed between the verification and the
insert of the session. Administrators are checked when a request starts, and can be demoted,
disabled or deleted while it runs. The last-administrator guard and the change it protects are one
transaction, as in the code. A hub starts without users, and stays without them as long as no
bootstrap administrator is configured. Demo mode is left out: it only admits requests that change
nothing.

### LogRelay

`hub` and `agent` are the two ends of a channel, `send` and `up` the frames in each direction,
`stream` the browser's request with its queue, `worker` the agent's reader of a pod's log. Closing a
Go channel is counted (`closes`), so that a second close is visible. A full stream queue ends the
stream with an error; a full control queue drops the frame (`unstopped` remembers a stop frame that
was lost this way). `Close` has two lock sections, the stop frame and `removeStream`, and so does an
`open` that fails; other goroutines find the stream in between. `Break` is a failed connection, or the agent's own cancellation before it
registers again. `LogPipe` is the browser's view: lines in order without a gap, and at the end either
"that was all", which must then be true, or an error. `instance` says which channels, streams and
lines there are.

### BroadcastHub

Frames are numbers: 0 a frame of the initial listing, *n* the *n*-th update. `Run` is one goroutine
with `members` and two queues; handlers list, register, fill and serve. `registerClient` is two
steps, the hand-over to `Run` (`addClient`) and its confirmation, and the end of `Run` may win
against either. A handler that sends on a closed queue panics, and its deferred unregister still
runs; it waits while the queue for removal is full. All clients and clusters are of one tenant, so
that the tenant filter of the loop lets every update through.

### PolicyDrift

`snapshot[c]` is what the tables hold of a cluster, `eval` the reads one evaluation has made so far.
Init is any content an earlier run of the hub may have left. The policies are operators on the
evidence `e` of a call, its rows and what it has read of them; `mode` is the loop of the code, a
recursive function over the places of the list, and `only` keeps the rows of a list that a query or a
condition selects. A cluster without a tenant was never registered: the hub draws a new id for each
registration, so that of a deleted cluster is not used again. Of services and events only their
namespaces are kept (`others`), which `ListNamespaces` unites with the others. The two store calls of
the old `handleHeartbeat`, a version and a time, are one step. `reported` remembers what the hub has
held of each cluster since the evaluation began, nothing after a deletion. The properties compare the
result with a definition of the mode that does not follow the code (`IsBaseline`), and ask for one
report of each cluster that explains all verdicts of a policy (`Views`).

### Timeline, HubClient, McpTools

`Timeline` keeps the rows of `operational_events` with their id, cluster, kind, content and time. Ids are in
the order of insertion, times are not: findings bring their own, handlers write late. The unique
index compares cluster, kind and dedupe key; the key is the content of the event and, but for
registrations and approvals, its time, so that two different findings of one time are two rows. A page is two store calls, the lookup of the cursor's time and the listing. One
pass of the pruner is any number of `DELETE`s of at most `BatchSize` rows, each a step of its own.

`HubClient` is `open` and `ensureAuthenticated` for calls that share `loggedIn`, `authMu` and the
jar. A login request holds `authMu`; the session it starts is valid in the hub before its cookie is
in the jar. Sessions end at any time, with or without the right to log in again. `ended[c]` records
whether one has ended since `c` put the flag down.

`McpTools` composes the two: an assistant calls `get_recent_events`, follows `nextCursor` until
there is none, and looks its cluster up again in each call. `due` are the events that were there when
it began and that it has not seen. `GetTimeline` sends whole seconds, so `Format` truncates.

## 3. Runs

Passing runs:

| run | instance | shows |
|---|---|---|
| `enroll_safety` | 2 agent processes and operators, 2 handlers, 2 incarnations, 3 tokens, 1 fault, 1 rotation, 1 deletion | `NoTakeover`, `SignalOncePerApproval`, `ImplementsRegistry` in every interleaving |
| `enroll_recovery` | 1 process, 2 handlers, 2 faults, deletions by an operator who sees the agent refused | `EnrollmentCompletes`: the process reports with the valid credential and has been told of its approval |
| `health` | 2 handlers and the monitor, faults and restarts without bound; regimes: nodes that degrade with tasks within an interval, and tasks that span an interval and hold an old clock reading | `SilentIsUnreachable`, `SteadyIsHealthy`, `AlertsSpaced` |
| `accounts_safety` | 2 users, 2 passwords, 2 sessions, 3 handlers, restarts with and without a bootstrap administrator | `AnAdminRemains`, `OldPasswordsOvertaken` |
| `logs` | 1 stream of 2 lines over 1 channel, 1 stream over 2 channels and 2 streams over 1 channel with 1 line each; queues of length 1 (control queue 2) | `QueuesClosedOnce`, `LatestIsActive`, `StreamsEnd`, `ServeReturns`, `WorkersStop`, `ImplementsPipe` |
| `broadcast` | 2 clients, 3 updates, client queue 1, broadcast queue 2, queue for removal 1 | `RunNeverPanics`, `NoUpdateSkipped`, `UpdatesArrive`, `LeaversRemoved` |
| `delivery` | 2 alerts, 3 attempts, polls of 1, delays 3 then 4 (capped), 1 fault | `BackoffKept`, `StatusAdvances`, `AlertsSettle`, `ImplementsLifecycle` |
| `policy` | up to 3 clusters in 2 tenants, any order, 1 change during an evaluation | `PassIsFleetMode`, `DriftNeedsPeer`, `VerdictsAreReported` |
| `tools` | 2 concurrent calls over sessions that end; 1 reader of 3 events with a lasting session; 1 reader of one cluster that may be deleted, over sessions that end; pages and batches of 1 | `PagesComplete`, `NewestFirst`, `RetryHasSession`, `CallsReturn`, `ExpiredRemoved` |

Runs that exhibit a disagreement between the code and what the repository says of it:

| run | says | does |
|---|---|---|
| `enroll_rotation` | docs/authentication.md:207: approved agents "continue reporting normally" after a rotation of the registration token | one failed heartbeat sends the agent back to register, where only the new registration token is accepted: it is refused although its own token is current |
| `health_unalerted` | docs/operations.md:112: the hub raises unreachable alerts "after three missed heartbeat intervals" | a second outage within the cooldown of the first alert, resolved meanwhile, has no alert even when the cooldown is over, because the monitor skips clusters that are unreachable already. In this run handlers and monitor do not overlap (`OneTaskAtATime`), so that the trace is that of the two outages and not of a race |
| `broadcast_connect` | docs/api.md:89: a client is sent one snapshot frame per cluster on connect | the client is registered before anything reads its queue; with as many clusters as the queue holds, one update blocks the handler for ever and a second one panics it |

`ApprovalSurvivesRotation`, `HistoryIsTrue` and `OutcomeIsFinal` are consequences of the two
refinements that say something a reader may look for; they have theorems of their own (section 4)
and are not checked a second time by TLC.

### Bounds, and why they are enough

* *Enrollment*: two processes and two handlers are the least for a retry to race a late handler or
  another process; two incarnations let a deleted cluster be registered again while an old handler
  is in flight; three tokens let one be replaced twice. `enroll_recovery` has more ids, tokens and
  deletions than its two faults can use up, so no bound stops a recovery. TLC makes no deadlock
  check there: a system whose processes have all been stopped may stop.
* *Health*: only ages are kept, so there is no bound on time, restarts or lost requests. `StaleAfter`
  has the code's value 3. With a `StaleAfter` no larger than the delays `SteadyIsHealthy` fails: the
  monitor's overwrite (section 7) needs a whole interval to be corrected. The product of degraded
  nodes and late tasks is out of reach, so `Init` chooses one of the two regimes; both have a
  cooldown of 2, which outlasts an outage.
* *Accounts*: a guard can be defeated by two administrators acting on each other plus a third
  request; three handlers and two users cover that. Two passwords suffice because only equality
  with the current one matters.
* *Logs*: one stream already races every closer of its queue; two channels let one replace the
  other; two streams that share a channel fill the control queue (`SendQueue = 2`), so that a stop
  frame is dropped; a second line overflows the queue of a stream. `Init` chooses between the three
  instances.
* *Broadcast*: 3 updates overflow a client queue of 1 and a broadcast queue of 2; of two clients that
  leave, the second finds the queue for removal full.
* *Delivery*: `BatchLimit = 1` with two alerts makes polls leave work behind, three attempts with
  base 3 and maximum 4 reach the cap that is not a power of two times the base. Longer doubling, and
  sends that take longer than the base delay, are left to the theorem (`RetriesKeepBackoff`).
* *Policy*: three clusters are the least for a majority of two and for a tie that a third cluster
  breaks; ties, missing values and fleets of one are all reachable.
* *Tools*: with pages and batches of one event, three events are enough for a cursor whose row is
  pruned, for two different findings of the same time on both sides of a cursor, and for an event that is pruned
  and reported again while a reader pages. Two calls are the least that share a login; a third adds
  only another waiter for the lock. The clock stops at `MaxTime` = 2, twice the retention. Two
  points of time make a second, so that a time asked for may fall between two seconds.

### Fairness

* `AgentEnrollment`: weak fairness of every handler and every agent goroutine (Go schedules them,
  HTTP clients have timeouts, timers fire) and of approval (an operator works through the pending
  list). `RecoverySpec` adds the manual recovery that docs/operations.md prescribes, with strong
  fairness: the operator who keeps seeing an agent refused deletes its cluster in the end. Nobody is
  assumed to start, stop or rotate anything.
* `LogRelay`: weak fairness of goroutines that can run. Nothing is assumed of browsers, pods and the
  network; a pod may be silent for ever.
* `BroadcastHub`: weak fairness of the loop, the handlers and the writers. Arrival and removal of
  each client are fair on their own, because Go's `select` chooses among ready cases at random.
* `AlertDelivery`: time passes, the loop polls on its ticker, sends end by the HTTP timeout. Faults
  are bounded: a store that fails for ever records nothing.
* `McpTools`: weak fairness of goroutines and of the hub's handlers. Taking `authMu` is strongly
  fair: Go's `sync.Mutex` hands itself over to a waiter that has starved for a millisecond. Each
  tick starts a pass of the pruner; a `DELETE` is strongly fair, that is, it does not fail for ever.
  Nothing is assumed of sessions, of assistants, or of the right to log in.
* The other modules have no liveness property. The two directions of `ClusterHealth` are stated as
  invariants with a deadline, which says more than "eventually".

## 4. Proofs

All theorems hold for any sets of processes, handlers, users, tokens, alerts, and any values of the
bounds that satisfy the modules' `ASSUME`s.

* **`AgentEnrollment_proofs`**: `TypeCorrect`, `TakeoverImpossible` (`NoTakeover`), `ApprovalIsKept`
  (`ApprovalSurvivesRotation`). `NoTakeover` alone is not inductive: a handler that has proved its
  token holds a permission to rotate while the cluster is deleted and created anew by someone else.
  `OwnershipInv` adds whose every token in flight is: a process holds only tokens minted for it
  (`HoldsOwn`), a request presents and will carry only tokens minted for its sender, and names no
  future id (`RequestsOwn`), a handler about to issue a token for the present cluster acts for its
  creator (`IssuersCreated`), and a process waits for the response to its own request (`AwaitsOwn`).
  `RegistryImplemented` proves the refinement `Spec => ImplementsRegistry`: only `CreateCluster`,
  `IssueAgentToken`, the two approvals and deletion change
  what `NameRegistry` sees, and `IssuersCreated` is why an issue is always one to the holder.
* **`Accounts_proofs`**: `TypeCorrect`, `AdminGuard` (`AnAdminRemains`), `OnlyTheRaceSurvives`
  (`OldPasswordsOvertaken`). The invariant adds `LoginsOvertaken`: a login in flight whose verified
  password is no longer current has been marked as overtaken, so that the session it inserts is; and
  `NobodyIsServed`: as long as there are no users, no handler is at work, because nobody can log in.
* **`AlertDelivery_proofs`**: `DeliveryInductive`, `HistoryTrue` (`HistoryIsTrue`), `OutcomesFinal`
  (`OutcomeIsFinal`). The invariant says that the batch is current (each row still to be delivered is
  as the poll read it, and appears once), that attempts recorded never exceed requests made, and that
  the request being recorded is not yet counted. The proofs cover every `BatchLimit`, 25 included.
  `LifecycleImplemented` proves `Spec => ImplementsLifecycle` from the same invariant: a row is
  recorded only while its alert is waiting, because the batch is current.
  The same module has `TimingInductive`, `TypeCorrect`, `RetriesKeepBackoff` (`BackoffKept`) and
  `StatusesAdvance` (`StatusAdvances`). `BackoffKept` speaks of the moment of a request; the
  invariant says of each alert that waits for a retry that the time since its last request and the
  time until the next one together make up the back-off (`DelaysKept`), and that rows of the batch
  are due. `RequestsExplained` bounds `sends`: a request is counted, in flight, or lost to a fault.
  That the loop of `retryDelay` computes the closed form (`DelayIsBackoff`) is an induction over the
  attempts. The induction theorems of the library cannot be used, so `SetInduction` proves the one
  instance needed, for a set of numbers, from the fact that an injection of a finite set into
  itself reaches all of it; `IterationExists` and, from it, the equations of the two recursive
  functions follow.
* **`ClusterHealth_proofs`**: `TypeCorrect`, `CooldownKept` (`AlertsSpaced`), `SilenceNoticed`
  (`SilentIsUnreachable`), `RecoveryShown` (`SteadyIsHealthy`), for any number of handlers, any
  delay and cooldown. The two deadlines say nothing before they have passed; `SilentInv` and
  `SteadyInv` say at each point of the calm who can still be how late. A handler of a silent agent is
  older than the calm, so the heartbeat it writes is at most its delay younger, so the monitor that
  has not marked the row yet has its check before it. In the other direction: handlers whose agent has
  timed out are gone first, then the row stays fresh, then the monitor's last mark is overwritten by
  a report, then nobody evaluates another health, then the next report resolves what is left.
  `RecoveryShown` has the hypothesis `StaleAfter >= 3`, the number in the code: with 1, TLC finds a
  row that goes stale between two requests of a healthy agent.
* **`LogRelay_proofs`**: `RelayInductive`, `TypeCorrect`, `ClosedOnce` (`QueuesClosedOnce`),
  `LatestServed` (`LatestIsActive`), `PipeImplemented` (`ImplementsPipe`), for any number of channels,
  streams and lines and any queue lengths. Of a stream that is still in the map of its channel nothing
  is lost: the lines the hub has not taken are on the channel, in order (`UpInv`, `FlowInv`); the
  queue goes on where the browser is, and an end in it is its last frame and comes after all lines
  (`QueueInv`); a worker is started once (`StartInv`). So each line the browser is shown is the next
  one of `LogPipe`, and "end" is told only when it is true.
* **`BroadcastHub_proofs`**: `BroadcastInductive`, `TypeCorrect`, `NoPanic` (`RunNeverPanics`),
  `UpdatesContiguous` (`NoUpdateSkipped`). The broadcast queue holds consecutive updates
  (`HubInv`); what a member has been sent ends where that queue begins (`MemberInv`), so the next
  update leaves no gap; a client that is no member any more is sent nothing; the queue for removal
  never holds more clients than fit (`UnregisterOK`).
* **`McpTools_proofs`**: `ToolsInductive`, `TypeCorrect`, `NothingMissed` (`PagesComplete`),
  `PagesInOrder` (`NewestFirst`), `RetriesWork` (`RetryHasSession`), for any number of calls and
  events and any page size. For the login: as long as no session has ended since a call put the flag
  down, the flag, the jar and every response to a login stand for a live session (`SessionsLast`). For
  the pages: an event that is due comes after the last one seen or has expired (`DueComesAfter`), and
  neither the id nor the dedupe key of the last event seen belongs to an older row (`CursorIsLast`).
  `PageExists` shows that the page the code asks for exists, by the rank of each row and without
  induction; that a new session can be had, `FreshSession`, is a count of those in use.
* **`PolicyDrift_proofs`**: `DriftInductive`, `TypeCorrect`, `VerdictsReported`
  (`VerdictsAreReported`), `PeersNeeded` (`DriftNeedsPeer`), `PassesAreFleetMode`
  (`PassIsFleetMode`), for any clusters, tenants and snapshots and any number of changes between the
  reads. `DriftInv` says that the rows of an evaluation are clusters of its tenant, each once
  (`RowsInv`); that the stored rows of a cluster are those of its last report, and none after a
  deletion (`TablesInv`), so that each read returned the rows of something the hub has held since the
  evaluation began (`SeenInv`); and that what an answer needs has been read or is still to be
  read (`StepsInv`). About the algorithm: `ordered` and `only` are what their names say
  (`OrderedExists`, `OnlyFacts`, `OnlyDistinct`), `less` is a strict total order on strings
  (`LessTransitive`, `LessTotal`), and after each turn the loop of `mode` holds the best of the
  values seen so far (`BestOf`, `BetterIsBest`), by `SetInduction`, which this module proves for
  itself too. The list of values has each fresh cluster once, so a value occurs in it as often as it
  has votes in the fleet (`VotesAreOccurrences`, a bijection), and the mode does not depend on the
  order of registration (`ModeIsBaseline`). That gives the verdicts for what was read
  (`PassIsModeSeen`); each table is read once per cluster, so one report of each cluster accounts for
  all that was read of it (`ReadFromAView`).
* The signal of `AgentEnrollment` (`SignalledOnce`, `SignalOncePerApproval`): a process that is still
  to hear of the current approval, because it holds the current token unapproved or waits for a
  response that brings it as pending, has had fewer signals than there were approvals (`SignalsInv`).

Each inductive invariant was first checked by TLC on the instance of the component's run.

One proof failed because the model was wrong. `RowsInv` was not inductive while `CreateCluster` could
register the id of a deleted cluster again, in another tenant: an evaluation that had listed the
cluster before would then judge a cluster of a tenant it is not for, which TLC shows with
`MaxChanges = 3`. The hub never draws the same id twice; the model now says so.

Only model-checked: all liveness (`EnrollmentCompletes`, `StreamsEnd`,
`ServeReturns`, `WorkersStop`, `UpdatesArrive`, `LeaversRemoved`, `AlertsSettle`, `CallsReturn`,
`ExpiredRemoved`), as the prover has no rules for fairness and `ENABLED`.

## 5. Plan

Order: what the fleet depends on first (enrollment, health), then credentials of people, then
transports, then evaluations, then the clients of the API. Done: the modules above, and the proofs of
all their safety properties. Left, in this order:

1. Deletion of clusters and edited rules in `ClusterHealth`, with the alert rows that survive a
   deleted cluster.
2. The filters and the summary of the policy endpoints, over the results `PolicyDrift` proves right.

## 6. Reading and running

Each `.cfg` names the specification, the constants and the properties of one run; the module is
`MC` followed by the component (`tlc -config Health.cfg MCClusterHealth`). The proofs are
checked with `tlapm <module>_proofs.tla`. No run takes more than a few minutes on two cores.

## 7. Behaviour worth knowing

Seen while modelling, and not kept as runs:

* A registration whose response is lost leaves a token the agent does not know: it is answered 409
  until an operator deletes the cluster (`handlers_agents.go:204`; docs/authentication.md:191).
  `EnrollmentCompletes` holds because the documented deletion is available.
* Two overlapping re-registrations both pass the proof of the old token (`handlers_agents.go:186`).
* A handler that ends between `CreateCluster` and `IssueAgentToken` leaves a cluster without an
  agent whose name is taken (`handlers_agents.go:170`).
* `markStaleClusters` writes back rows from a listing and can overwrite a fresh report
  (`server.go:273`); the next report corrects it.
* A login that has verified a password before it is changed inserts its session afterwards
  (`handlers_auth.go:65`; docs/authentication.md:96). `OldPasswordsOvertaken` says that this is the
  only way a session outlives its password.
* A user's own password change that was verified before an administrator's reset overwrites it
  (`handlers_users.go:194`; docs/authentication.md:90).
* Audit entries are inserted after the commit, on the request's context: a client that has gone
  leaves a change without one (`audit.go:50`; docs/authentication.md:100).
* A stop frame is dropped when the control queue is full, and the agent's worker reads on until the
  channel or the log ends (`logrelay.go:129`, `:163`; docs/pod-logs.md:66). `WorkersStop` allows
  exactly that, and only while the channel works.
* An update between listing and registration reaches no frame of a new WebSocket client, and an
  update may precede an older frame of the initial listing (`handlers_ws.go:24`, `:57`).
* A crash between a webhook request and its record makes a request that is not counted
  (`manager.go:182`; docs/operations.md:29); hence `attempts <= sends`, not equality.
* Freshness of policy evidence is the cluster's `last_heartbeat`, not the age of its snapshot
  (`engine.go:472`; docs/policy-drift.md:16, 18, 34 speak of the age of the snapshot). The "fresh" of
  `PassIsFleetMode` is that of the code, so a verdict may rest on an old snapshot of a cluster that
  still sends heartbeats: what the documentation says of stale evidence does not hold.
* A finding without `occurredAt` is given the present time, which is part of its dedupe key, so its
  retry is stored a second time (`handlers_events.go:150`; docs/api.md:161 says a retry with
  identical content returns `200`; README.md:94 speaks of the same timestamp).
* The hub client sends times in whole seconds: the rest of a second is dropped from `since` and from
  `until`, and a `since` and an `until` within one second are refused (`client.go:247`).
  `PagesComplete` promises events up to the second that was sent.
* A tool looks a cluster up by its name in each call; if the cluster is deleted and registered again
  between two pages, the next page is one of the new cluster, with the old cursor (`tools.go:230`).
* A call that is answered 401 puts the flag down even if another call has logged in since; the
  needless second login is harmless, since sessions do not replace each other (`client.go:304`).
* Alerts have no foreign key to clusters: an alert of a deleted cluster stays active
  (`internal/store/alerts.go:26`).

## 8. Not modelled

* Configuration, migrations, charts, demo data, the landing page: no behaviour over time.
* The CLI: `quickstart`, `status` and `cleanup` run `kind`, `helm`, `kubectl` and `docker` one after
  the other and keep a state file and the process id of a port-forward. What can go wrong lies in
  those programs, of which the code assumes nothing but an exit status.
* The other tools of the MCP server are the same requests with other paths; the cut of a log to a
  byte budget is a pure function over text. The collector: reads of the Kubernetes API without state.
  The web dashboard: pages that render responses.
* Agent readiness: one timestamp that a successful request sets and a probe compares with the clock.
  The lengths of back-off delays: `AgentEnrollment` lets any time pass between attempts.
* Order of reports: a report that timed out may be stored after the next one (`handlers_clusters.go:223`);
  nothing promises an order, and `ClusterHealth` covers the effect on health.
* Cryptography (bcrypt, token hashes, webhook signatures), formats of frames, events and payloads,
  origin checks, pings, logging, metrics.
* Tenancy is modelled where it selects data (`PolicyDrift`); cluster names are unique per tenant, so
  the other modules have one tenant.
* Alert rules are the two the hub seeds; the audit log is left out, as nothing reads it back.
