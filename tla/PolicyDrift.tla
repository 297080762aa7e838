----------------------------- MODULE PolicyDrift -----------------------------
(***************************************************************************)
(* Policy evaluation: agents replace the stored snapshot of their cluster  *)
(* (handleClusterSnapshot, ReplaceSnapshot), and the policy engine         *)
(* (internal/policy/engine.go) judges the clusters of one tenant by what   *)
(* it reads of them, in one store call after the other, while snapshots    *)
(* and clusters come and go.                                               *)
(*                                                                         *)
(* A string that is compared (a version, a hash, a joined list of          *)
(* namespaces) is a sequence of numbers that stand for its parts in their  *)
(* lexical order; <<>> is the empty string.  Time is counted in heartbeat  *)
(* intervals.                                                              *)
(***************************************************************************)
EXTENDS Naturals, Sequences, SequencesExt, FiniteSets

CONSTANTS
    Clusters, Tenants,
    Labelled,         \* the clusters registered with all of requiredClusterLabels
    Snapshots,        \* what the agents may report
    SystemNamespaces, \* names of isSystemNamespace
    StaleAfter,       \* staleAfter, in intervals (3 in the code)
    MaxChanges        \* bound: changes of the tables, and ticks, in a behaviour

VARIABLES
    registered, \* the clusters, by registered_at
    tenantOf,   \* tenantOf[c]: the tenant_id c was registered with
    heartbeat,  \* heartbeat[c]: age of last_heartbeat
    snapshot,   \* snapshot[c]: the snapshot_* tables of c, and its version
    changes,
    reported,   \* what the agent of c has reported last (Empty: deleted since),
                \* and all the hub has held of that since the evaluation began
    eval        \* a call of Evaluate

tables == <<registered, tenantOf, heartbeat, snapshot, changes>>
vars == <<tables, reported, eval>>

Never == StaleAfter + 1    \* no heartbeat, or an old one
NoTenant == ""             \* of a cluster that was never registered
Empty == [version |-> <<>>, namespaces |-> {}, workloads |-> {}, pods |-> {}, others |-> {}]

(* Namespaces are numbers; a workload has the hash of its configuration,   *)
(* or <<>> from an old agent, whose pods have no known security context    *)
(* either and whose namespaces come without their configuration.  Of       *)
(* services and events only the namespaces are read.                       *)
Namespace == [name : Nat, enforces : BOOLEAN]
Workload == [namespace : Nat, name : Nat, hash : Seq(Nat), available : BOOLEAN]
Pod == [namespace : Nat, name : Nat, known : BOOLEAN, violates : BOOLEAN]
Snapshot == [version : Seq(Nat), namespaces : SUBSET Namespace,
             workloads : SUBSET Workload, pods : SUBSET Pod, others : SUBSET Nat]

Status == {"pass", "fail", "unknown", "stale"}
Policies == {"versions", "labels", "namespaces", "drift", "availability", "pods", "enforcement"}
Subject == [kind : {"cluster", "Deployment", "Pod", "Namespace"}, namespace : Nat, name : Nat]
Result == [policy : Policies, cluster : Clusters, subject : Subject, status : Status]
Tables == {"namespaces", "deployments", "pods", "configs"}

(* "rows" are the clusters as ListClustersForTenant has returned them,     *)
(* "seen" what was read of each of them, "todo" what is still to be read.  *)
Idle == [pc |-> "idle", tenant |-> NoTenant, rows |-> <<>>,
         todo |-> <<>>, seen |-> <<>>, results |-> {}]

ASSUME ConstantsAssumption ==
    /\ Labelled \subseteq Clusters
    /\ NoTenant \notin Tenants    \* normalizeTenantID
    /\ StaleAfter \in Nat /\ MaxChanges \in Nat
    /\ Snapshots \subseteq Snapshot
    /\ \A s \in Snapshots :
          /\ IsFiniteSet(s.namespaces) /\ IsFiniteSet(s.workloads)
          /\ IsFiniteSet(s.pods) /\ IsFiniteSet(s.others)
          /\ \A v, w \in s.workloads :
                v.namespace = w.namespace /\ v.name = w.name => v = w  \* PRIMARY KEY

TypeOK ==
    /\ registered \in Seq(Clusters)
    /\ tenantOf \in [Clusters -> Tenants \cup {NoTenant}]
    /\ heartbeat \in [Clusters -> 0..Never]
    /\ snapshot \in [Clusters -> Snapshot]
    /\ eval.pc \in {"idle", "clock", "read", "done"}
    /\ \A i \in DOMAIN eval.todo : eval.todo[i] \in Tables \X Clusters
    /\ eval.results \subseteq Result

Exists(c) == \E i \in DOMAIN registered : registered[i] = c

(* The numbers of a finite set, in order.                                  *)
ordered(S) ==
    CHOOSE s \in [1..Cardinality(S) -> S] :
        \A i, j \in 1..Cardinality(S) : i < j => s[i] < s[j]

(* What a sequence has at some of its places.                              *)
only(s, places) == LET p == ordered(places) IN [i \in 1..Cardinality(places) |-> s[p[i]]]

(* The hub starts with whatever an earlier run has left in the tables.     *)
Init ==
    /\ registered \in UNION {SetToSeqs(S) : S \in {T \in SUBSET Clusters : IsFiniteSet(T)}}
    /\ tenantOf \in [Clusters -> Tenants \cup {NoTenant}]
    /\ snapshot \in [Clusters -> Snapshots \cup {Empty}]
    /\ heartbeat \in [Clusters -> 0..Never]
    /\ \A c \in Clusters :
          IF Exists(c) THEN tenantOf[c] # NoTenant
          ELSE tenantOf[c] = NoTenant /\ snapshot[c] = Empty /\ heartbeat[c] = Never
    /\ changes = 0
    /\ reported = [c \in Clusters |-> [last |-> snapshot[c], all |-> {}]]
    /\ eval = Idle

-----------------------------------------------------------------------------
(* What the hub stores.                                                    *)

Change == changes < MaxChanges /\ changes' = changes + 1

(* Identifiers are not used again.                                         *)
CreateCluster(c, t) ==
    /\ Change
    /\ tenantOf[c] = NoTenant
    /\ registered' = Append(registered, c)
    /\ tenantOf' = [tenantOf EXCEPT ![c] = t]
    /\ UNCHANGED <<heartbeat, snapshot, reported, eval>>

(* handleAgentLiveness: a heartbeat without a snapshot.                    *)
handleAgentLiveness(c) ==
    /\ Change
    /\ Exists(c)
    /\ heartbeat' = [heartbeat EXCEPT ![c] = 0]
    /\ UNCHANGED <<registered, tenantOf, snapshot, reported, eval>>

(* handleHeartbeat, from older agents: the version and no resources; its   *)
(* two store calls are one step here.                                      *)
handleHeartbeat(c, version) ==
    /\ Change
    /\ Exists(c)
    /\ snapshot' = [snapshot EXCEPT ![c].version = version]
    /\ heartbeat' = [heartbeat EXCEPT ![c] = 0]
    /\ UNCHANGED <<registered, tenantOf, reported, eval>>

(* Mutant: tables the new snapshot has nothing for keep their rows.        *)
stored_Merged(c, s) == [s EXCEPT !.namespaces = IF @ = {} THEN snapshot[c].namespaces ELSE @]

(* ReplaceSnapshot clears every table before it inserts the new rows.      *)
stored(c, s) == s

ReplaceSnapshot(c, s) ==
    /\ Change
    /\ Exists(c)
    /\ snapshot' = [snapshot EXCEPT ![c] = stored(c, s)]
    /\ heartbeat' = [heartbeat EXCEPT ![c] = 0]
    /\ reported' = [reported EXCEPT ![c] = [last |-> s, all |-> @.all \cup {s}]]
    /\ UNCHANGED <<registered, tenantOf, eval>>

(* The rows of the snapshot go with the cluster (ON DELETE CASCADE).       *)
DeleteCluster(c) ==
    /\ Change
    /\ Exists(c)
    /\ registered' = only(registered, {i \in DOMAIN registered : registered[i] # c})
    /\ snapshot' = [snapshot EXCEPT ![c] = Empty]
    /\ reported' = [reported EXCEPT ![c] = [last |-> Empty, all |-> @.all \cup {Empty}]]
    /\ UNCHANGED <<tenantOf, heartbeat, eval>>

-----------------------------------------------------------------------------
(* The engine's helpers.                                                   *)

(* The order of strings.                                                   *)
less(s, t) ==
    \E i \in 1..Len(t) :
        /\ i - 1 <= Len(s)
        /\ \A j \in 1..(i - 1) : s[j] = t[j]
        /\ i > Len(s) \/ s[i] < t[i]

(* How often v is one of the first n values.                               *)
Occurrences(v, values, n) == Cardinality({i \in 1..n : values[i] = v})

(* Mutant: of equally common values the one counted last is kept.          *)
mode_LastWins(values) ==
    LET best[i \in 0..Len(values)] ==
            IF i = 0 THEN <<>>
            ELSE LET count(v) == IF v = <<>> THEN 0 ELSE Occurrences(v, values, i)
                 IN  IF values[i] # <<>> /\ count(values[i]) >= count(best[i - 1])
                     THEN values[i] ELSE best[i - 1]
    IN  best[Len(values)]

(* One turn of the loop of mode: the best value so far, <<>> at first,     *)
(* gives way to one that has now been seen more often, or as often and is  *)
(* smaller.                                                                *)
better(values, i, best) ==
    LET counts == Occurrences(values[i], values, i)
    IN  IF /\ values[i] # <<>>
           /\ \/ counts > best.count
              \/ counts = best.count /\ less(values[i], best.value)
        THEN [value |-> values[i], count |-> counts]
        ELSE best

mode(values) ==
    LET best[i \in 0..Len(values)] ==
            IF i = 0 THEN [value |-> <<>>, count |-> 0] ELSE better(values, i, best[i - 1])
    IN  best[Len(values)].value

isSystemNamespace(n) == n \in SystemNamespaces

isStale(age) == age > StaleAfter

(* A version is its major and minor number and a patch level; one without  *)
(* a minor number has no version line.                                     *)
versionLine(v) == IF Len(v) < 2 THEN <<>> ELSE SubSeq(v, 1, 2)

ClusterSubject == [kind |-> "cluster", namespace |-> 0, name |-> 0]
SubjectOf(kind, namespace, name) == [kind |-> kind, namespace |-> namespace, name |-> name]

-----------------------------------------------------------------------------
(* The verdicts of a call of Evaluate, from the rows e.rows and from       *)
(* e.seen, what it has read of each of them.                               *)

seen(e, what, c) == e.seen[<<what, c>>]
freshRows(e) == only(e.rows, {i \in DOMAIN e.rows : ~isStale(e.rows[i].age)})
isFresh(e, c) == \E i \in DOMAIN freshRows(e) : freshRows(e)[i].cluster = c
listed(e) == {e.rows[i].cluster : i \in DOMAIN e.rows}

(* The result of one policy that judges a cluster as a whole.              *)
wholeCluster(e, policy, judgement(_)) ==
    {[policy |-> policy, cluster |-> c, subject |-> ClusterSubject,
      status |-> IF isFresh(e, c) THEN judgement(c) ELSE "stale"] : c \in listed(e)}

rowOf(e, c) == e.rows[CHOOSE i \in DOMAIN e.rows : e.rows[i].cluster = c]

(* Compared with a baseline; missing evidence is no difference.            *)
compared(actual, baseline) ==
    IF actual = <<>> \/ baseline = <<>> THEN "unknown"
    ELSE IF actual = baseline THEN "pass" ELSE "fail"

versionBaseline(e) ==
    mode([i \in DOMAIN freshRows(e) |-> versionLine(freshRows(e)[i].version)])

evaluateVersions(e) ==
    wholeCluster(e, "versions", LAMBDA c : compared(versionLine(rowOf(e, c).version), versionBaseline(e)))

evaluateLabels(e) ==
    wholeCluster(e, "labels", LAMBDA c : IF rowOf(e, c).labelled THEN "pass" ELSE "fail")

(* A list of namespaces, sorted and joined.                                *)
signature(names) == ordered(names)

namespaceBaseline(e) ==
    mode([i \in DOMAIN freshRows(e) |-> signature(seen(e, "namespaces", freshRows(e)[i].cluster))])

evaluateNamespaces(e) ==
    wholeCluster(e, "namespaces",
                 LAMBDA c : compared(signature(seen(e, "namespaces", c)), namespaceBaseline(e)))

(* The hash a cluster has reported for the deployment w, <<>> if none, and *)
(* the hashes of all clusters.                                             *)
hashIn(e, c, w) ==
    LET same == {v \in seen(e, "deployments", c) : v.namespace = w.namespace /\ v.name = w.name}
    IN  IF same = {} THEN <<>> ELSE (CHOOSE v \in same : TRUE).hash

hashes(e, w) == [i \in DOMAIN freshRows(e) |-> hashIn(e, freshRows(e)[i].cluster, w)]

peers(e, w) == {i \in DOMAIN freshRows(e) : hashes(e, w)[i] # <<>>}

(* Mutant: a deployment is its own peer.                                   *)
driftOf_Alone(e, w) == compared(w.hash, mode(hashes(e, w)))

driftOf(e, w) ==
    IF Cardinality(peers(e, w)) < 2 THEN "unknown" ELSE compared(w.hash, mode(hashes(e, w)))

availabilityOf(w) == IF w.available THEN "pass" ELSE "fail"

(* The results for the items of one kind that a cluster has reported, or   *)
(* one for the cluster if there are none.                                  *)
eachItem(e, policy, kind, items(_), name(_), judgement(_)) ==
    UNION {
        IF ~isFresh(e, c) THEN
             {[policy |-> policy, cluster |-> c, subject |-> ClusterSubject, status |-> "stale"]}
        ELSE IF items(c) = {} THEN
             {[policy |-> policy, cluster |-> c, subject |-> ClusterSubject, status |-> "unknown"]}
        ELSE {[policy |-> policy, cluster |-> c, subject |-> SubjectOf(kind, name(x)[1], name(x)[2]),
               status |-> judgement(x)] : x \in items(c)} : c \in listed(e)}

nameOf(x) == <<x.namespace, x.name>>

evaluateWorkloads(e) ==
    LET deployments(c) == seen(e, "deployments", c)
    IN  eachItem(e, "drift", "Deployment", deployments, nameOf, LAMBDA w : driftOf(e, w))
        \cup eachItem(e, "availability", "Deployment", deployments, nameOf, availabilityOf)

(* Mutant: the status of a pod without a known context is left empty.      *)
podSecurity_Unset(p) == IF ~p.known THEN "" ELSE IF p.violates THEN "fail" ELSE "pass"

podSecurity(p) == IF ~p.known THEN "unknown" ELSE IF p.violates THEN "fail" ELSE "pass"
namespaceSecurity(n) == IF n.enforces THEN "pass" ELSE "fail"

evaluateSecurity(e) ==
    LET pods(c) == {p \in seen(e, "pods", c) : ~isSystemNamespace(p.namespace)}
        configs(c) == {n \in seen(e, "configs", c) : ~isSystemNamespace(n.name)}
    IN  eachItem(e, "pods", "Pod", pods, nameOf, podSecurity)
        \cup eachItem(e, "enforcement", "Namespace", configs, LAMBDA n : <<n.name, n.name>>, namespaceSecurity)

evaluated(e) ==
    evaluateVersions(e) \cup evaluateLabels(e) \cup evaluateNamespaces(e)
    \cup evaluateWorkloads(e) \cup evaluateSecurity(e)

-----------------------------------------------------------------------------
(* The steps of Evaluate.                                                  *)

(* What the call under way has to judge by.                                *)
evidence == [rows |-> eval.rows, seen |-> eval.seen]

ListClustersForTenant(t) ==
    only(registered, {i \in DOMAIN registered : tenantOf[registered[i]] = t})

Evaluate(t) ==
    /\ eval.pc = "idle"
    /\ eval' = [Idle EXCEPT
          !.pc = "clock", !.tenant = t,
          !.rows = LET own == ListClustersForTenant(t)
                   IN  [i \in DOMAIN own |->
                           [cluster |-> own[i], version |-> snapshot[own[i]].version,
                            labelled |-> own[i] \in Labelled, age |-> heartbeat[own[i]]]]]
    /\ reported' = [c \in Clusters |-> [reported[c] EXCEPT !.all = {reported[c].last}]]
    /\ UNCHANGED tables

(* The reads of Evaluate, in order: stale clusters are left out.           *)
reads(e) ==
    LET rows == freshRows(e)
        of(what) == [i \in DOMAIN rows |-> <<what, rows[i].cluster>>]
        security == [i \in 1..(2 * Len(rows)) |->
                        <<IF i % 2 = 1 THEN "pods" ELSE "configs", rows[(i + 1) \div 2].cluster>>]
    IN  of("namespaces") \o of("deployments") \o security

(* The clock is read once, after the list.                                 *)
readClock ==
    /\ eval.pc = "clock"
    /\ eval' = [eval EXCEPT !.pc = "read", !.todo = reads(evidence)]
    /\ UNCHANGED <<tables, reported>>

(* ListNamespaces: those of the configurations and of every other table.   *)
ListNamespaces(s) ==
    {n.name : n \in s.namespaces} \cup {x.namespace : x \in s.workloads \cup s.pods} \cup s.others

ListDeployments(s) == s.workloads
ListPods(s) == s.pods
ListNamespaceConfigs(s) == s.namespaces

(* What one read returns of a snapshot; a cluster deleted since has none.  *)
readOf(what, s) ==
    CASE what = "namespaces" -> ListNamespaces(s)
      [] what = "deployments" -> ListDeployments(s)
      [] what = "pods" -> ListPods(s)
      [] what = "configs" -> ListNamespaceConfigs(s)

read ==
    /\ eval.pc = "read"
    /\ eval.todo # <<>>
    /\ LET k == Head(eval.todo)
       IN  eval' = [eval EXCEPT
              !.todo = Tail(@),
              !.seen = [x \in DOMAIN @ \cup {k} |-> IF x = k THEN readOf(k[1], snapshot[k[2]]) ELSE @[x]]]
    /\ UNCHANGED <<tables, reported>>

(* A read fails: the request is answered with an error and no results.     *)
readFails ==
    /\ eval.pc = "read"
    /\ eval.todo # <<>>
    /\ eval' = Idle
    /\ UNCHANGED <<tables, reported>>

(* The answer to the request; the order of the results is left out.        *)
respond ==
    /\ eval.pc = "read"
    /\ eval.todo = <<>>
    /\ eval' = [eval EXCEPT !.pc = "done", !.results = evaluated(evidence)]
    /\ UNCHANGED <<tables, reported>>

(* The next request.                                                       *)
reset ==
    /\ eval.pc = "done"
    /\ eval' = Idle
    /\ UNCHANGED <<tables, reported>>

Older(age) == IF age = Never THEN Never ELSE age + 1

Tick ==
    /\ Change
    /\ heartbeat' = [c \in Clusters |-> Older(heartbeat[c])]
    /\ eval' = IF eval.pc = "clock"
               THEN LET older(row) == [row EXCEPT !.age = Older(row.age)]
                    IN  [eval EXCEPT !.rows = [i \in DOMAIN eval.rows |-> older(eval.rows[i])]]
               ELSE eval
    /\ UNCHANGED <<registered, tenantOf, snapshot, reported>>

Next ==
    \/ \E c \in Clusters :
          \/ \E t \in Tenants : CreateCluster(c, t)
          \/ handleAgentLiveness(c)
          \/ \E s \in Snapshots : ReplaceSnapshot(c, s) \/ handleHeartbeat(c, s.version)
          \/ DeleteCluster(c)
    \/ \E t \in Tenants : Evaluate(t)
    \/ readClock
    \/ read
    \/ readFails
    \/ respond
    \/ reset
    \/ Tick

Spec == Init /\ [][Next]_vars

-----------------------------------------------------------------------------
(* Properties.                                                             *)

done == eval.pc = "done"
verdicts == {r \in eval.results : r.status \in {"pass", "fail"}}

(* The clusters a verdict may rest on: those of the tenant that isStale    *)
(* takes for fresh, by the last_heartbeat that was listed.                 *)
fleet == {c \in listed(evidence) : tenantOf[c] = eval.tenant /\ isFresh(evidence, c)}

(* What the hub may have held of each of them when it was read: one report *)
(* of each cluster, of those it has had since the evaluation began.        *)
Views == {at \in [fleet -> UNION {reported[c].all : c \in fleet}] :
            \A c \in fleet : at[c] \in reported[c].all}

lineOf(c) == versionLine(rowOf(evidence, c).version)
setOf(s) == signature(ListNamespaces(s))

(* The hashes a cluster with these deployments has for one of them.        *)
hashesOf(workloads, subject) ==
    {w.hash : w \in {w \in workloads : w.namespace = subject.namespace /\ w.name = subject.name}}
hashOf(workloads, subject) ==
    IF hashesOf(workloads, subject) = {} THEN <<>>
    ELSE CHOOSE h \in hashesOf(workloads, subject) : TRUE

(* Of the values f of the clusters in S the most common one that is not    *)
(* empty, and of several the smallest.                                     *)
IsBaseline(v, S, f(_)) ==
    LET votes(w) == Cardinality({c \in S : f(c) = w})
    IN  \A c \in S : f(c) # <<>> =>
            \/ votes(v) > votes(f(c))
            \/ votes(v) = votes(f(c)) /\ ~less(f(c), v)

(* The baseline is the most common value of the clusters the engine takes  *)
(* for fresh, with ties in lexical order, and a cluster passes if and only *)
(* if it has that value, in whatever order clusters are listed.  Snapshots *)
(* that are replaced and clusters that are deleted between the reads do    *)
(* not blur that: all verdicts of a policy are those of one report of each *)
(* cluster, which the hub held during the evaluation (mode,                *)
(* evaluateVersions, evaluateNamespaces, evaluateWorkloads).               *)
PassIsFleetMode ==
    done =>
        /\ \A r \in verdicts :
              /\ r.cluster \in fleet
              /\ r.policy = "versions" =>
                    (r.status = "pass" <=> IsBaseline(lineOf(r.cluster), fleet, lineOf))
        /\ \E at \in Views : \A r \in verdicts : r.policy = "namespaces" =>
              LET set(c) == setOf(at[c])
              IN  r.status = "pass" <=> IsBaseline(set(r.cluster), fleet, set)
        /\ \E at \in Views : \A r \in verdicts : r.policy = "drift" =>
              LET hash(c) == hashOf(at[c].workloads, r.subject)
              IN  r.status = "pass" <=> IsBaseline(hash(r.cluster), fleet, hash)

(* A deployment is judged only by its peers: another cluster of the tenant *)
(* has reported a hash for it (evaluateWorkloads).                         *)
DriftNeedsPeer ==
    done => \A r \in verdicts : r.policy = "drift" =>
        \E c \in fleet \ {r.cluster} :
            hashesOf(seen(evidence, "deployments", c), r.subject) \ {<<>>} # {}

(* No verdict rests on evidence older than the evaluation and the report   *)
(* before it: rows of earlier snapshots, of agents that reported more than *)
(* the present one, are gone (ReplaceSnapshot).                            *)
VerdictsAreReported ==
    done => \A r \in verdicts :
        LET all == reported[r.cluster].all
        IN  /\ r.policy \in {"drift", "availability"} =>
                  \E s \in all : \E w \in s.workloads : nameOf(w) = <<r.subject.namespace, r.subject.name>>
            /\ r.policy = "pods" =>
                  \E s \in all : \E p \in s.pods : nameOf(p) = <<r.subject.namespace, r.subject.name>> /\ p.known
            /\ r.policy = "enforcement" =>
                  \E s \in all : \E n \in s.namespaces : n.name = r.subject.name
=============================================================================
