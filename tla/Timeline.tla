------------------------------ MODULE Timeline ------------------------------
(***************************************************************************)
(* The operational timeline: handlers append events, readers page through  *)
(* them newest first, a pruner removes the expired ones                    *)
(* (internal/server/events.go, handlers_events.go, monitorEventRetention   *)
(* in server.go, the operational_events table in internal/store/sqlite.go),*)
(* for one tenant.                                                         *)
(*                                                                         *)
(* Every store call is one atomic step.  Reading a page takes two: the     *)
(* cursor row is looked up before the page is listed, and appends and      *)
(* batches of the pruner fall in between.  occurred_at is independent of   *)
(* the order of ids: findings bring their own time, handlers write late.   *)
(***************************************************************************)
EXTENDS Integers, Sequences, FiniteSets

CONSTANTS
    Clusters,   \* cluster ids
    Readers,    \* requests for a page that can be in flight
    Fleet,      \* the scope of GET /api/v1/timeline
    Contents,   \* what events of a kind say
    MaxTime,    \* bound: the last point of time
    MaxRows,    \* bound: rows ever inserted
    Retention,  \* KFLEET_EVENT_RETENTION
    PageLimit,  \* events of a page (the "limit" of the request)
    BatchSize   \* rows one DELETE removes at most (pruneBatchSize)

VARIABLES
    events,     \* the rows of operational_events
    lastId,     \* its AUTOINCREMENT sequence
    now,        \* the hub's clock
    pruner,     \* PruneEventsBefore: is it running, and its last cutoff
    clusters,   \* the clusters that exist
    query       \* query[r]: ListTimelineEvents for reader r

timelineVars == <<events, lastId, now, pruner, clusters, query>>

Times == 0..MaxTime
Forever == MaxTime + 1          \* no "until"

(* Of the kinds of events there are two that a handler records at the same *)
(* time, and the findings of agents.                                       *)
Kinds == {"health", "disconnected", "finding"}

Row == [id : 1..MaxRows, cluster : Clusters, kind : Kinds, content : Contents, at : Times]

(* What UNIQUE (cluster_id, kind, dedupe_key) compares: the key of an      *)
(* event holds what it says (from which health to which, the reason, or    *)
(* all of a finding) and its time.  (Those of registrations and approvals  *)
(* have no time; a second one is dropped, as any event of the hub may be.) *)
key(e) == <<e.cluster, e.kind, e.content, e.at>>

(* "time" is the time of the cursor row once it has been looked up.        *)
Query == [pc : {"idle", "resolve", "list"}, scope : Clusters \cup {Fleet},
          since : Times, until : Times \cup {Forever}, before : 0..MaxRows, time : Times]
NoQuery == [pc |-> "idle", scope |-> Fleet, since |-> 0, until |-> Forever,
            before |-> 0, time |-> 0]

TimelineTypeOK ==
    /\ events \subseteq Row
    /\ \A e \in events : e.id <= lastId
    /\ \A e, f \in events :
          e.id = f.id \/ key(e) = key(f) => e = f
    /\ lastId \in 0..MaxRows
    /\ now \in Times
    /\ pruner \in [running : BOOLEAN, cutoff : 0..MaxTime]
    /\ clusters \subseteq Clusters
    /\ query \in [Readers -> Query]

TimelineInit ==
    /\ events = {}
    /\ lastId = 0
    /\ now = 0
    /\ pruner = [running |-> FALSE, cutoff |-> 0]
    /\ clusters = Clusters
    /\ query = [r \in Readers |-> NoQuery]

-----------------------------------------------------------------------------
(* Writers.                                                                *)

(* Mutant: every insert makes a row.                                       *)
conflicts_Never(e) == FALSE

conflicts(e) == \E f \in events : key(e) = key(f)

(* INSERT ... ON CONFLICT DO NOTHING.                                      *)
AppendEvent(c, kind, content, at) ==
    LET e == [id |-> lastId + 1, cluster |-> c, kind |-> kind, content |-> content, at |-> at] IN
    /\ lastId < MaxRows
    /\ ~conflicts(e)
    /\ events' = events \cup {e}
    /\ lastId' = lastId + 1
    /\ UNCHANGED <<now, pruner, clusters, query>>

(* An event of the hub, recorded after the change it reports (or lost, if  *)
(* that fails) with the time its handler read before, even if the cluster  *)
(* has gone since.                                                         *)
recordEvent(c, kind, content, at) ==
    kind # "finding" /\ at <= now /\ AppendEvent(c, kind, content, at)

(* An approved agent reports a finding, of any time.                       *)
handleRecordPolicyFinding(c, content, at) ==
    c \in clusters /\ AppendEvent(c, "finding", content, at)

(* There is no foreign key: events outlive their cluster.                  *)
DeleteCluster(c) ==
    /\ c \in clusters
    /\ clusters' = clusters \ {c}
    /\ UNCHANGED <<events, lastId, now, pruner, query>>

-----------------------------------------------------------------------------
(* Retention.                                                              *)

(* Mutant: the cutoff is the one of the first pass.                        *)
pruneExpiredEvents_FirstCutoff ==
    /\ ~pruner.running
    /\ now >= Retention
    /\ pruner' = [pruner EXCEPT !.running = TRUE]
    /\ UNCHANGED <<events, lastId, now, clusters, query>>

(* A tick of monitorEventRetention, or the first pass of a hub.            *)
pruneExpiredEvents ==
    /\ ~pruner.running
    /\ now >= Retention
    /\ pruner' = [running |-> TRUE, cutoff |-> now - Retention]
    /\ UNCHANGED <<events, lastId, now, clusters, query>>

expired(e) == e.at < pruner.cutoff

(* A batch smaller than the limit was the last one.                        *)
isLastBatch(batch) == Cardinality(batch) < BatchSize

(* One DELETE; which rows a LIMIT without an ORDER BY takes is not said.   *)
PruneEventsBefore ==
    /\ pruner.running
    /\ LET old == {e \in events : expired(e)} IN
       \E batch \in SUBSET old :
          /\ Cardinality(batch) = IF Cardinality(old) < BatchSize THEN Cardinality(old) ELSE BatchSize
          /\ events' = events \ batch
          /\ pruner' = [pruner EXCEPT !.running = ~isLastBatch(batch)]
    /\ UNCHANGED <<lastId, now, clusters, query>>

(* The DELETE fails, which is logged, or the hub restarts.                 *)
PruneFails ==
    /\ pruner.running
    /\ pruner' = [pruner EXCEPT !.running = FALSE]
    /\ UNCHANGED <<events, lastId, now, clusters, query>>

Tick ==
    /\ now < MaxTime
    /\ now' = now + 1
    /\ UNCHANGED <<events, lastId, pruner, clusters, query>>

-----------------------------------------------------------------------------
(* Readers.                                                                *)

(* The handler has a valid filter; a cluster that is gone answers 404, and *)
(* "since" has to be before "until".                                       *)
validFilter(scope, since, until) ==
    /\ scope # Fleet => scope \in clusters
    /\ until # Forever => since < until

serveTimeline(r, scope, since, until, before) ==
    /\ query[r].pc = "idle"
    /\ validFilter(scope, since, until)
    /\ query' = [query EXCEPT ![r] =
          [pc |-> IF before = 0 THEN "list" ELSE "resolve", scope |-> scope, since |-> since,
           until |-> until, before |-> before, time |-> 0]]
    /\ UNCHANGED <<events, lastId, now, pruner, clusters>>

cursorRow(r) == {e \in events : e.id = query[r].before}

(* The lookup of the cursor's time.                                        *)
resolveCursor(r) ==
    /\ query[r].pc = "resolve"
    /\ \E e \in cursorRow(r) :
          query' = [query EXCEPT ![r].pc = "list", ![r].time = e.at]
    /\ UNCHANGED <<events, lastId, now, pruner, clusters>>

Done(r) ==
    /\ query' = [query EXCEPT ![r] = NoQuery]
    /\ UNCHANGED <<events, lastId, now, pruner, clusters>>

(* The row of the cursor has been pruned: an empty, last page.             *)
cursorGone(r) ==
    /\ query[r].pc = "resolve"
    /\ cursorRow(r) = {}
    /\ Done(r)

(* ORDER BY occurred_at DESC, id DESC.                                     *)
newer(e, f) == e.at > f.at \/ (e.at = f.at /\ e.id > f.id)

(* Mutant: the page starts after the time of the cursor.                   *)
afterCursor_TimeOnly(e, q) == e.at < q.time

(* Mutant: every other row of the cursor's time comes after it.            *)
afterCursor_SameTime(e, q) == e.at <= q.time /\ e.id # q.before

afterCursor(e, q) == e.at < q.time \/ (e.at = q.time /\ e.id < q.before)

matches(e, q) ==
    /\ q.scope = Fleet \/ e.cluster = q.scope
    /\ e.at >= q.since
    /\ e.at < q.until
    /\ q.before = 0 \/ afterCursor(e, q)

Matching(r) == {e \in events : matches(e, query[r])}

(* The page of reader r: the newest PageLimit of the matching rows.        *)
isPage(page, rows) ==
    /\ \A i, j \in DOMAIN page : i < j => newer(page[i], page[j])
    /\ \A i \in DOMAIN page, e \in rows \ {page[j] : j \in DOMAIN page} : newer(page[i], e)

PageOf(rows) ==
    LET n == IF Cardinality(rows) < PageLimit THEN Cardinality(rows) ELSE PageLimit
    IN  CHOOSE page \in [1..n -> rows] : isPage(page, rows)

(* The id of the last row of a page that leaves rows behind.               *)
nextCursor(rows) ==
    IF Cardinality(rows) > PageLimit THEN PageOf(rows)[PageLimit].id ELSE 0

ListTimelineEvents(r) == query[r].pc = "list" /\ Done(r)

=============================================================================
