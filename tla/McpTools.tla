------------------------------ MODULE McpTools ------------------------------
(***************************************************************************)
(* The tools of the MCP server (internal/mcp/tools.go) at work: assistants *)
(* page through the timeline with get_recent_events.  Every request of a   *)
(* tool goes through the shared HubClient to a handler of the hub; the     *)
(* ones for pages are served by Timeline.                                  *)
(***************************************************************************)
EXTENDS Integers, Sequences, FiniteSets, Functions

CONSTANTS
    Calls, Nobody,                                  \* of HubClient
    Clusters, Fleet, Contents, MaxTime, MaxRows,    \* of Timeline
    Retention, PageLimit, BatchSize,
    Second,     \* points of time in a second: the client sends whole ones
    Instances   \* bound: the values of "instance"

ASSUME ToolsAssumption ==
    /\ Nobody \notin Calls /\ IsFiniteSet(Calls)
    /\ Fleet \notin Clusters
    /\ {MaxTime, MaxRows, Retention} \subseteq Nat
    /\ {PageLimit, BatchSize, Second} \subseteq Nat \ {0}
    /\ Instances \subseteq
          [calls : SUBSET Calls, scopes : SUBSET (Clusters \cup {Fleet}),
           times : SUBSET ((0..MaxTime) \X (0..(MaxTime + 1))),
           sources : SUBSET (Clusters \X {"health", "disconnected", "finding"} \X Contents),
           rows : 0..MaxRows, unrest : BOOLEAN]

VARIABLES
    loggedIn, authMu, jar, live, allowed, call, ended,  \* of HubClient
    events, lastId, now, pruner, clusters, query,       \* of Timeline
    tool,       \* tool[t]: the tool calls of goroutine t, and what they found
    instance    \* bound: the goroutines that call tools, the scopes and
                \* times they ask for, the clusters, kinds and contents of the
                \* rows that are inserted and how many there are, and
                \* whether sessions end and requests fail

C == INSTANCE HubClient
T == INSTANCE Timeline WITH Readers <- Calls

clientVars == <<loggedIn, authMu, jar, live, allowed, call, ended>>
timelineVars == <<events, lastId, now, pruner, clusters, query>>
vars == <<clientVars, timelineVars, tool, instance>>

Forever == MaxTime + 1
NoRow == [id |-> 0, cluster |-> Fleet, kind |-> "finding", content |-> Fleet, at |-> Forever]
InScope(c, scope) == scope \in {Fleet, c}

(* An assistant asks for the events of a scope and a time, and follows the *)
(* cursors; "last" is the last event it has seen, "due" are the ones there *)
(* were when it began that it has not seen.                                *)
Tool == [step : {"list", "fetch", "done"},
         scope : Clusters \cup {Fleet}, since : 0..MaxTime, until : 0..Forever,
         before : 0..MaxRows, last : T!Row \cup {NoRow}, due : SUBSET T!Row]
NoTool == [step |-> "done", scope |-> Fleet, since |-> 0, until |-> Forever,
           before |-> 0, last |-> NoRow, due |-> {}]

TypeOK ==
    /\ C!ClientTypeOK
    /\ T!TimelineTypeOK
    /\ tool \in [Calls -> Tool]
    /\ instance \in Instances

Init ==
    /\ instance \in Instances
    /\ \/ instance.unrest /\ C!ClientInit
       \/ ~instance.unrest /\ C!LoggedInInit
    /\ T!TimelineInit
    /\ tool = [t \in Calls |-> NoTool]

-----------------------------------------------------------------------------
(* Tool calls.                                                             *)

(* A tool whose request has failed reports the error, and is over.         *)
Failed(t) == call[t].pc = "idle" /\ call[t].result \notin {"none", "ok"}
Over(t) == call[t].pc = "idle" /\ (Failed(t) \/ tool[t].step = "done")

(* GetTimeline formats times as RFC 3339, which drops fractions of seconds. *)
Format(time) == IF time = Forever THEN Forever ELSE time - (time % Second)

(* A client that is logged in, and has nothing to fear, is at the handler  *)
(* at once.                                                                *)
request(t) == IF instance.unrest THEN C!open(t) ELSE C!openLoggedIn(t)

(* Its first request: a cluster is looked up in the listing.               *)
FirstStep(scope) == IF scope = Fleet THEN "fetch" ELSE "list"

getTimeline(t, scope, since, until) ==
    /\ Over(t)
    /\ request(t)
    /\ tool' = [tool EXCEPT ![t] = [NoTool EXCEPT
          !.step = FirstStep(scope), !.scope = scope,
          !.since = since, !.until = until,
          !.due = {e \in events : InScope(e.cluster, scope) /\ e.at >= since /\ e.at < Format(until)}]]
    /\ UNCHANGED timelineVars

(* The next request of a tool whose last one was answered.                 *)
nextRequest(t) ==
    /\ call[t].result = "ok"
    /\ tool[t].step # "done"
    /\ request(t)
    /\ UNCHANGED <<timelineVars, tool>>

-----------------------------------------------------------------------------
(* Answers of the hub.                                                     *)

(* handleListClusters, and findCluster in the answer.                      *)
listClusters(t) ==
    /\ tool[t].step = "list"
    /\ C!Answer(t, IF tool[t].scope \in clusters THEN "ok" ELSE "refused")
    /\ tool' = [tool EXCEPT ![t].step = "fetch"]
    /\ UNCHANGED timelineVars

serveTimeline(t) ==
    LET since == Format(tool[t].since)
        until == Format(tool[t].until) IN
    /\ tool[t].step = "fetch"
    /\ call[t].pc = "serve"
    /\ \/ /\ T!serveTimeline(t, tool[t].scope, since, until, tool[t].before)
          /\ UNCHANGED clientVars
       \/ /\ query[t].pc = "idle"
          /\ ~T!validFilter(tool[t].scope, since, until)
          /\ C!Answer(t, "refused")
          /\ UNCHANGED timelineVars
    /\ UNCHANGED tool

resolveCursor(t) == T!resolveCursor(t) /\ UNCHANGED <<clientVars, tool>>

(* The last page is there.                                                 *)
Ended(due) == [NoTool EXCEPT !.due = {e \in due : e.at >= pruner.cutoff}]

cursorGone(t) ==
    /\ T!cursorGone(t)
    /\ C!Answer(t, "ok")
    /\ tool' = [tool EXCEPT ![t] = Ended(tool[t].due)]

(* A page arrives; the assistant asks for the next one, with a new call of *)
(* the tool, or is through.                                                *)
page(t) ==
    LET rows == T!Matching(t)
        found == T!PageOf(rows)
        next == T!nextCursor(rows)
        due == tool[t].due \ Range(found) IN
    /\ T!ListTimelineEvents(t)
    /\ C!Answer(t, "ok")
    /\ tool' = [tool EXCEPT ![t] =
          IF next = 0 THEN Ended(due)
          ELSE [tool[t] EXCEPT !.due = due, !.last = found[Len(found)], !.before = next,
                               !.step = FirstStep(tool[t].scope)]]

(* A request that fails takes its handler with it.                         *)
RequestFails(t) ==
    /\ C!RequestFails(t)
    /\ query' = [query EXCEPT ![t] = T!NoQuery]
    /\ UNCHANGED <<events, lastId, now, pruner, clusters, tool>>

ToolStep(t) ==
    \/ nextRequest(t)
    \/ listClusters(t)
    \/ serveTimeline(t)
    \/ resolveCursor(t)
    \/ cursorGone(t)
    \/ page(t)

ClientStep(t) == C!ClientStep(t) /\ UNCHANGED <<timelineVars, tool>>

Ask(t) ==
    /\ t \in instance.calls
    /\ \E scope \in instance.scopes, w \in instance.times : getTimeline(t, scope, w[1], w[2])

AppendRow(c, kind, content, at) ==
    /\ lastId < instance.rows
    /\ \/ T!recordEvent(c, kind, content, at)
       \/ kind = "finding" /\ T!handleRecordPolicyFinding(c, content, at)

TimelineStep ==
    /\ \/ \E src \in instance.sources, at \in 0..MaxTime : AppendRow(src[1], src[2], src[3], at)
       \/ \E c \in Clusters \cap instance.scopes : T!DeleteCluster(c)
       \/ T!pruneExpiredEvents
       \/ T!PruneEventsBefore
       \/ T!PruneFails
       \/ instance.rows > 0 /\ T!Tick
    /\ UNCHANGED <<clientVars, tool>>

Unrest ==
    /\ instance.unrest
    /\ \/ \E t \in Calls : RequestFails(t)
       \/ (C!EndSessions \/ C!AccountRestored) /\ UNCHANGED <<timelineVars, tool>>

Next ==
    /\ \/ \E t \in Calls : Ask(t) \/ ClientStep(t) \/ ToolStep(t)
       \/ TimelineStep
       \/ Unrest
    /\ UNCHANGED instance

Spec == Init /\ [][Next]_vars

Locking(t) ==
    (C!ensureAuthenticated(t) \/ C!reset(t)) /\ UNCHANGED <<timelineVars, tool, instance>>
StartPass == T!pruneExpiredEvents /\ UNCHANGED <<clientVars, tool, instance>>
PruneBatch == T!PruneEventsBefore /\ UNCHANGED <<clientVars, tool, instance>>

(* Goroutines run and requests end, answered or not.  A lock that is free  *)
(* again and again is got in the end (sync.Mutex hands it over to a waiter *)
(* that has starved), and a DELETE does not fail for ever.                 *)
Fairness ==
    /\ \A t \in Calls :
          /\ WF_vars((ClientStep(t) \/ ToolStep(t)) /\ UNCHANGED instance)
          /\ SF_vars(Locking(t))
    /\ WF_vars(StartPass)
    /\ SF_vars(PruneBatch)

FairSpec == Spec /\ Fairness

-----------------------------------------------------------------------------
(* Properties.                                                             *)

(* README.md: events "remain available until retention removes them": an   *)
(* assistant that has followed the cursors to the end has seen every event *)
(* there was when it began, up to the second it asked for, unless it has   *)
(* expired since, although events with older and with equal times are      *)
(* appended and any batch is pruned, also the row of its cursor, between   *)
(* two pages and within one (ListTimelineEvents, PruneEventsBefore).       *)
PagesComplete ==
    \A t \in Calls : tool[t].step = "done" => tool[t].due = {}

(* The pages of one reading go on where the last one ended: older events,  *)
(* in order, of the cluster and the time asked for, and none twice, not    *)
(* even one that was pruned and reported again (ListTimelineEvents,        *)
(* AppendEvent).                                                           *)
NewestFirst ==
    [][\A t \in Calls : page(t) =>
          LET rows == T!PageOf(T!Matching(t))
              last == tool[t].last IN
          \A i \in DOMAIN rows :
              /\ InScope(rows[i].cluster, tool[t].scope)
              /\ rows[i].at >= Format(tool[t].since)
              /\ rows[i].at < tool[t].until
              /\ rows[i].at <= last.at
              /\ rows[i].at = last.at => rows[i].id < last.id
              /\ T!key(rows[i]) # T!key(last)]_vars

(* A tool fails with 401 only if a session has ended after it had put the  *)
(* flag down: concurrent calls that share the jar and the flag do not      *)
(* spoil each other's retry (open, ensureAuthenticated).                   *)
RetryHasSession ==
    \A t \in Calls : call[t].result = "unauthorized" => ended[t]

(* Every request returns, although authMu is held during a login and the   *)
(* login may be refused or lost (ensureAuthenticated).                     *)
CallsReturn ==
    \A t \in Calls : call[t].pc # "idle" ~> call[t].pc = "idle"

(* What has expired is removed in the end, batch by batch, although passes *)
(* fail (monitorEventRetention, PruneEventsBefore).                        *)
ExpiredRemoved ==
    \A i \in 1..MaxRows :
        LET old == \E e \in events : e.id = i /\ e.at < now - Retention
        IN  old ~> ~old
=============================================================================
