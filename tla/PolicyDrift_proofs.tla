------------------------- MODULE PolicyDrift_proofs -------------------------
(***************************************************************************)
(* Theorems about PolicyDrift, for any clusters, tenants and snapshots,    *)
(* and any number of changes while an evaluation reads.                    *)
(***************************************************************************)
EXTENDS PolicyDrift, FiniteSetTheorems, TLAPS

-----------------------------------------------------------------------------
(* The inductive invariant.                                                *)

Row == [cluster : Clusters, version : Seq(Nat), labelled : BOOLEAN, age : 0..Never]

(* What an agent may report: ConstantsAssumption says it of Snapshots.     *)
WellFormed(s) ==
    /\ s \in Snapshot
    /\ IsFiniteSet(s.namespaces) /\ IsFiniteSet(s.workloads)
    /\ IsFiniteSet(s.pods) /\ IsFiniteSet(s.others)
    /\ \A v, w \in s.workloads : v.namespace = w.namespace /\ v.name = w.name => v = w

SameRows(s, t) ==
    /\ s.namespaces = t.namespaces /\ s.workloads = t.workloads
    /\ s.pods = t.pods /\ s.others = t.others

(* A cluster is registered once, in a tenant.                              *)
RegistryInv ==
    /\ registered \in Seq(Clusters)
    /\ \A i, j \in DOMAIN registered : registered[i] = registered[j] => i = j
    /\ tenantOf \in [Clusters -> Tenants \cup {NoTenant}]
    /\ \A i \in DOMAIN registered : tenantOf[registered[i]] # NoTenant

(* The rows s of a cluster are those of the last of its reports r.         *)
Kept(r, s) ==
    /\ WellFormed(r.last)
    /\ \A u \in r.all : WellFormed(u)
    /\ SameRows(s, r.last)

TablesInv ==
    /\ heartbeat \in [Clusters -> 0..Never]
    /\ snapshot \in [Clusters -> Snapshot]
    /\ reported \in [Clusters -> [last : Snapshot, all : SUBSET Snapshot]]
    /\ \A c \in Clusters : Kept(reported[c], snapshot[c])

(* The rows an evaluation works on: clusters of its tenant, each once.     *)
RowsInv ==
    /\ eval.rows \in Seq(Row)
    /\ \A i, j \in DOMAIN eval.rows : eval.rows[i].cluster = eval.rows[j].cluster => i = j
    /\ \A i \in DOMAIN eval.rows :
          tenantOf[eval.rows[i].cluster] = eval.tenant /\ eval.tenant \in Tenants

(* What e has to read before it can answer.                                *)
needed(e) == {k \in Tables \X Clusters : isFresh(e, k[2])}

(* What was read of a cluster was its evidence at some time since the      *)
(* evaluation began.                                                       *)
SeenInv ==
    /\ DOMAIN eval.seen \subseteq Tables \X Clusters
    /\ \A what \in Tables, c \in Clusters : <<what, c>> \in DOMAIN eval.seen =>
          \E s \in reported[c].all : eval.seen[<<what, c>>] = readOf(what, s)
    /\ eval.pc # "idle" => \A c \in Clusters : reported[c].last \in reported[c].all

(* Every read is done or still to be done, and the answer is what the      *)
(* policies say of what was read.                                          *)
StepsInv ==
    /\ eval = [pc |-> eval.pc, tenant |-> eval.tenant, rows |-> eval.rows,
               todo |-> eval.todo, seen |-> eval.seen, results |-> eval.results]
    /\ eval.pc \in {"idle", "clock", "read", "done"}
    /\ eval.todo \in Seq(Tables \X Clusters)
    /\ eval.pc = "read" => \A k \in needed(evidence) :
          k \in DOMAIN eval.seen \/ \E i \in DOMAIN eval.todo : eval.todo[i] = k
    /\ eval.pc = "done" => needed(evidence) \subseteq DOMAIN eval.seen
    /\ eval.results = IF eval.pc = "done" THEN evaluated(evidence) ELSE {}

DriftInv == RegistryInv /\ TablesInv /\ RowsInv /\ SeenInv /\ StepsInv

-----------------------------------------------------------------------------
(* Numbers, in order.                                                      *)

(* Induction, from the fact that an injection of a finite set into itself  *)
(* reaches all of it: x - 1 would map the numbers up to n that are missing *)
(* in S into each other, and reach n from none of them.                    *)
LEMMA SetInduction ==
  ASSUME NEW S, 0 \in S, \A n \in Nat : n \in S => n + 1 \in S
  PROVE  Nat \subseteq S
<1> SUFFICES ASSUME NEW n \in Nat, n \notin S PROVE FALSE
  OBVIOUS
<1> DEFINE T == {k \in 0..n : k \notin S}
           f == [k \in T |-> k - 1]
<1>1. IsFiniteSet(T)
  <2>1. IsFiniteSet(0..n) /\ T \in SUBSET (0..n)
    BY FS_Interval
  <2> QED BY <2>1, FS_Subset
<1>2. \A k \in T : k \in Nat /\ k - 1 \in T
  <2> TAKE k \in T
  <2>1. k # 0 /\ k \in Nat /\ (k - 1) + 1 = k
    OBVIOUS
  <2>2. k - 1 \in 0..n /\ k - 1 \in Nat
    BY <2>1
  <2> QED BY <2>1, <2>2
<1>3. n \in T /\ T \subseteq 0..n
  OBVIOUS
<1> HIDE DEF T
<1>4. f \in Injection(T, T)
  <2>1. f \in [T -> T]
    BY <1>2
  <2>2. \A a, b \in T : f[a] = f[b] => a = b
    BY <1>2
  <2> QED BY <2>1, <2>2 DEF Injection, IsInjective
<1>5. f \in Surjection(T, T)
  BY <1>1, <1>4, FS_Injection
<1>6. PICK k \in T : f[k] = n
  BY <1>3, <1>5 DEF Surjection
<1> QED BY <1>3, <1>6

(* A set of numbers that is not empty has a smallest one.                  *)
LEMMA Smallest ==
  ASSUME NEW S \in SUBSET Nat, S # {}
  PROVE  \E n \in S : \A m \in S : n <= m
<1> SUFFICES ASSUME \A n \in S : \E m \in S : ~(n <= m) PROVE FALSE
  OBVIOUS
<1> DEFINE T == {n \in Nat : \A m \in S : n < m}
<1>1. 0 \in T
  <2>1. ASSUME 0 \in S PROVE FALSE
    BY <2>1
  <2> QED BY <2>1
<1>2. ASSUME NEW n \in Nat, n \in T PROVE n + 1 \in T
  <2>1. n + 1 \notin S
    BY <1>2
  <2> QED BY <1>2, <2>1
<1> HIDE DEF T
<1>3. Nat \subseteq T
  BY <1>1, <1>2, SetInduction
<1>4. PICK n \in S : TRUE
  OBVIOUS
<1>5. n \in Nat /\ n < n
  BY <1>3, <1>4 DEF T
<1> QED BY <1>5

(* ordered(S) has each number of S once: the place of a number is one more *)
(* than there are smaller ones.                                            *)
LEMMA OrderedExists ==
  ASSUME NEW S \in SUBSET Nat, IsFiniteSet(S)
  PROVE  /\ Cardinality(S) \in Nat
         /\ ordered(S) \in Bijection(1..Cardinality(S), S)
         /\ \A i, j \in 1..Cardinality(S) : i < j => ordered(S)[i] < ordered(S)[j]
<1> DEFINE below(e) == {f \in S : f < e}
           size == Cardinality(S)
           rank == [e \in S |-> Cardinality(below(e)) + 1]
<1>1. size \in Nat
  BY FS_CardinalityType
<1>2. ASSUME NEW e \in S
      PROVE  /\ IsFiniteSet(below(e)) /\ Cardinality(below(e)) \in Nat
             /\ Cardinality(below(e)) + 1 \in 1..size
  <2>1. below(e) \in SUBSET (S \ {e})
    OBVIOUS
  <2>2. IsFiniteSet(S \ {e}) /\ Cardinality(S \ {e}) = size - 1
    BY FS_RemoveElement
  <2> HIDE DEF below, size
  <2>3. IsFiniteSet(below(e)) /\ Cardinality(below(e)) <= size - 1
    BY <2>1, <2>2, FS_Subset
  <2> DEFINE k == Cardinality(below(e))
  <2>4. k \in Nat
    BY <2>3, FS_CardinalityType
  <2>5. k <= size - 1
    BY <2>3
  <2> HIDE DEF k
  <2>6. k + 1 \in 1..size
    BY <1>1, <2>4, <2>5
  <2> QED BY <2>3, <2>4, <2>6 DEF k
<1>3. ASSUME NEW e \in S, NEW f \in S, e < f
      PROVE  Cardinality(below(e)) < Cardinality(below(f))
  <2>1. below(e) \in SUBSET below(f)
    <3> SUFFICES ASSUME NEW g \in S, g < e PROVE g < f
      OBVIOUS
    <3>1. e \in Nat /\ f \in Nat /\ g \in Nat
      OBVIOUS
    <3> QED BY <1>3, <3>1
  <2>2. e \in Nat /\ e \in below(f) /\ e \notin below(e)
    BY <1>3
  <2> HIDE DEF below
  <2>3. /\ Cardinality(below(e)) <= Cardinality(below(f))
        /\ Cardinality(below(e)) # Cardinality(below(f))
    BY <1>2, <2>1, <2>2, FS_Subset
  <2> QED BY <1>2, <2>3
<1>4. \A e \in S : rank[e] = Cardinality(below(e)) + 1
  OBVIOUS
<1> HIDE DEF below
<1>5. rank \in [S -> 1..size]
  BY <1>2
<1>6. ASSUME NEW e \in S, NEW f \in S
      PROVE  /\ rank[e] < rank[f] => e < f
             /\ rank[e] = rank[f] => e = f
  <2>1. e < f \/ f < e \/ e = f
    OBVIOUS
  <2> QED BY <1>2, <1>3, <1>4, <2>1
<1> HIDE DEF rank
<1>7. \A i \in 1..size : \E e \in S : rank[e] = i
  <2>1. rank \in Injection(S, 1..size)
    BY <1>5, <1>6 DEF Injection, IsInjective
  <2>2. IsFiniteSet(1..size) /\ Cardinality(1..size) = size
    BY <1>1, FS_Interval
  <2>3. rank \in Surjection(S, 1..size)
    BY <2>1, <2>2, FS_Injection
  <2> QED BY <2>3 DEF Surjection
<1> DEFINE at == [i \in 1..size |-> CHOOSE e \in S : rank[e] = i]
<1>8. \A i \in 1..size : at[i] \in S /\ rank[at[i]] = i
  BY <1>7
<1>9. at \in [1..size -> S]
  BY <1>8
<1> HIDE DEF at
<1>10. \A i, j \in 1..size : i < j => at[i] < at[j]
  <2> SUFFICES ASSUME NEW i \in 1..size, NEW j \in 1..size, i < j PROVE at[i] < at[j]
    OBVIOUS
  <2>1. at[i] \in S /\ at[j] \in S /\ rank[at[i]] < rank[at[j]]
    BY <1>8
  <2> QED BY <1>6, <2>1
<1> DEFINE o == ordered(S)
<1>11. o \in [1..size -> S] /\ \A i, j \in 1..size : i < j => o[i] < o[j]
  <2>1. o = CHOOSE s \in [1..size -> S] : \A i, j \in 1..size : i < j => s[i] < s[j]
    BY Zenon DEF ordered
  <2> HIDE DEF o, size
  <2> QED BY <1>9, <1>10, <2>1
<1> HIDE DEF o
<1>12. o \in Injection(1..size, S)
  <2>1. ASSUME NEW i \in 1..size, NEW j \in 1..size, o[i] = o[j] PROVE i = j
    <3> HIDE DEF size
    <3>1. o[i] \in S /\ o[j] \in S
      BY <1>11
    <3>2. i < j \/ j < i \/ i = j
      BY <1>1
    <3>3. o[i] \in Nat /\ o[j] \in Nat
      BY <3>1
    <3>4. ~(o[i] < o[j]) /\ ~(o[j] < o[i])
      BY <2>1, <3>3
    <3> QED BY <1>11, <3>2, <3>4
  <2> QED BY <1>11, <2>1 DEF Injection, IsInjective
<1>13. o \in Surjection(1..size, S)
  <2>1. IsFiniteSet(1..size) /\ Cardinality(1..size) = size
    BY <1>1, FS_Interval
  <2> QED BY <1>12, <2>1, FS_Injection
<1> QED BY <1>1, <1>11, <1>12, <1>13 DEF Bijection, o

(* What only(s, places) keeps: each place's value once, and nothing else.  *)
LEMMA OnlyFacts ==
  ASSUME NEW T, NEW s \in Seq(T), NEW places \in SUBSET DOMAIN s
  PROVE  \E p : /\ IsFiniteSet(places)
                /\ Cardinality(places) \in Nat
                /\ p \in Bijection(1..Cardinality(places), places)
                /\ \A i, j \in 1..Cardinality(places) : i < j => p[i] < p[j]
                /\ only(s, places) = [i \in 1..Cardinality(places) |-> s[p[i]]]
                /\ only(s, places) \in Seq(T)
                /\ Len(only(s, places)) = Cardinality(places)
                /\ DOMAIN only(s, places) = 1..Cardinality(places)
<1> DEFINE p == ordered(places)
           size == Cardinality(places)
           kept == only(s, places)
<1>1. IsFiniteSet(places) /\ places \in SUBSET Nat
  <2>1. DOMAIN s = 1..Len(s) /\ Len(s) \in Nat
    OBVIOUS
  <2>2. IsFiniteSet(1..Len(s)) /\ places \in SUBSET (1..Len(s))
    BY <2>1, FS_Interval
  <2> QED BY <2>1, <2>2, FS_Subset
<1>2. /\ size \in Nat
      /\ p \in Bijection(1..size, places)
      /\ \A i, j \in 1..size : i < j => p[i] < p[j]
  BY <1>1, OrderedExists
<1>3. kept = [i \in 1..size |-> s[p[i]]]
  BY DEF only
<1> HIDE DEF p, size, kept
<1>4. \A i \in 1..size : s[p[i]] \in T
  <2> TAKE i \in 1..size
  <2>1. p[i] \in places
    BY <1>2 DEF Bijection, Injection
  <2> QED BY <2>1
<1>5. kept \in Seq(T) /\ Len(kept) = size /\ DOMAIN kept = 1..size
  BY <1>2, <1>3, <1>4
<1> QED BY <1>1, <1>2, <1>3, <1>5 DEF p, size, kept

(* The values kept are the values at the places kept.                      *)
LEMMA OnlyValues ==
  ASSUME NEW T, NEW s \in Seq(T), NEW places \in SUBSET DOMAIN s
  PROVE  /\ \A i \in DOMAIN only(s, places) : \E j \in places : only(s, places)[i] = s[j]
         /\ \A j \in places : \E i \in DOMAIN only(s, places) : only(s, places)[i] = s[j]
<1>1. PICK p : /\ p \in Bijection(1..Cardinality(places), places)
               /\ only(s, places) = [i \in 1..Cardinality(places) |-> s[p[i]]]
               /\ DOMAIN only(s, places) = 1..Cardinality(places)
  BY OnlyFacts
<1> DEFINE size == Cardinality(places)
           kept == only(s, places)
<1> HIDE DEF size, kept
<1>2. /\ p \in Bijection(1..size, places)
      /\ kept = [i \in 1..size |-> s[p[i]]]
      /\ DOMAIN kept = 1..size
  BY <1>1 DEF size, kept
<1>3. \A i \in 1..size : p[i] \in places /\ kept[i] = s[p[i]]
  BY <1>2 DEF Bijection, Injection
<1>4. \A j \in places : \E i \in 1..size : p[i] = j
  BY <1>2 DEF Bijection, Surjection
<1> QED BY <1>2, <1>3, <1>4 DEF kept

(* No two places of the sequence have the same key.                        *)
Distinct(s, key) == \A i, j \in DOMAIN s : key[s[i]] = key[s[j]] => i = j

(* Without repetitions there are none in what is kept.                     *)
LEMMA OnlyDistinct ==
  ASSUME NEW T, NEW s \in Seq(T), NEW places \in SUBSET DOMAIN s, NEW key, Distinct(s, key)
  PROVE  Distinct(only(s, places), key)
<1>1. PICK p : /\ p \in Bijection(1..Cardinality(places), places)
               /\ only(s, places) = [i \in 1..Cardinality(places) |-> s[p[i]]]
               /\ DOMAIN only(s, places) = 1..Cardinality(places)
  BY OnlyFacts
<1> DEFINE size == Cardinality(places)
           kept == only(s, places)
<1> HIDE DEF size, kept
<1>2. /\ p \in Bijection(1..size, places)
      /\ kept = [i \in 1..size |-> s[p[i]]]
      /\ DOMAIN kept = 1..size
  BY <1>1 DEF size, kept
<1>3. \A i \in 1..size : p[i] \in places /\ kept[i] = s[p[i]]
  BY <1>2 DEF Bijection, Injection
<1>4. \A i, j \in 1..size : p[i] = p[j] => i = j
  BY <1>2 DEF Bijection, Injection, IsInjective
<1>5. \A i, j \in 1..size : key[kept[i]] = key[kept[j]] => i = j
  <2> SUFFICES ASSUME NEW i \in 1..size, NEW j \in 1..size, key[kept[i]] = key[kept[j]] PROVE i = j
    OBVIOUS
  <2>1. p[i] \in DOMAIN s /\ p[j] \in DOMAIN s /\ key[s[p[i]]] = key[s[p[j]]]
    BY <1>3
  <2>2. p[i] = p[j]
    BY <2>1 DEF Distinct
  <2> QED BY <1>4, <2>2
<1> QED BY <1>2, <1>5 DEF kept, Distinct

-----------------------------------------------------------------------------
(* The order of strings.                                                   *)

(* No string comes before itself.                                          *)
LEMMA LessIrreflexive ==
  ASSUME NEW s \in Seq(Nat)
  PROVE  ~less(s, s)
<1> SUFFICES ASSUME NEW i \in 1..Len(s), i > Len(s) \/ s[i] < s[i] PROVE FALSE
  BY DEF less
<1>1. i \in DOMAIN s /\ Len(s) \in Nat
  OBVIOUS
<1>2. s[i] \in Nat
  BY <1>1
<1> QED BY <1>1, <1>2

(* Two strings in order are in order with what follows the second.         *)
LEMMA LessTransitive ==
  ASSUME NEW s \in Seq(Nat), NEW t \in Seq(Nat), NEW u \in Seq(Nat), less(s, t), less(t, u)
  PROVE  less(s, u)
<1>1. PICK i \in 1..Len(t) : /\ i - 1 <= Len(s)
                             /\ \A j \in 1..(i - 1) : s[j] = t[j]
                             /\ i > Len(s) \/ s[i] < t[i]
  BY DEF less
<1>2. PICK k \in 1..Len(u) : /\ k - 1 <= Len(t)
                             /\ \A j \in 1..(k - 1) : t[j] = u[j]
                             /\ k > Len(t) \/ t[k] < u[k]
  BY DEF less
<1>3. /\ Len(s) \in Nat /\ Len(t) \in Nat /\ Len(u) \in Nat
      /\ \A j \in 1..Len(s) : s[j] \in Nat
      /\ \A j \in 1..Len(t) : t[j] \in Nat
      /\ \A j \in 1..Len(u) : u[j] \in Nat
  BY SMTT(20)
<1>4. CASE i < k
  <2>1. i \in 1..Len(u) /\ t[i] = u[i]
    BY <1>2, <1>3, <1>4
  <2>2. \A j \in 1..(i - 1) : s[j] = u[j]
    BY <1>1, <1>2, <1>4
  <2>3. i > Len(s) \/ s[i] < u[i]
    BY <1>1, <2>1
  <2> QED BY <1>1, <2>1, <2>2, <2>3 DEF less
<1>5. CASE k <= i
  <2>1. \A j \in 1..(k - 1) : s[j] = u[j]
    BY <1>1, <1>2, <1>5
  <2>2. k \in 1..Len(t) /\ t[k] < u[k] /\ k - 1 <= Len(s)
    BY <1>1, <1>2, <1>3, <1>5
  <2>3. k > Len(s) \/ s[k] < u[k]
    <3>1. CASE k = i
      <4>1. ASSUME k \in 1..Len(s), s[k] < t[k] PROVE s[k] < u[k]
        <5>1. s[k] \in Nat /\ t[k] \in Nat /\ u[k] \in Nat
          BY <1>3, <2>2, <4>1
        <5>2. \A a, b, d \in Nat : a < b /\ b < d => a < d
          OBVIOUS
        <5> QED BY <2>2, <4>1, <5>1, <5>2, Zenon
      <4> QED BY <1>1, <1>3, <3>1, <4>1
    <3>2. CASE k < i
      <4>1. s[k] = t[k]
        BY <1>1, <3>2
      <4> QED BY <2>2, <4>1
    <3> QED BY <1>5, <3>1, <3>2
  <2> QED BY <2>1, <2>2, <2>3 DEF less
<1> QED BY <1>4, <1>5

(* Of two different strings one comes first: they differ somewhere first.  *)
LEMMA LessTotal ==
  ASSUME NEW s \in Seq(Nat), NEW t \in Seq(Nat), s # t
  PROVE  less(s, t) \/ less(t, s)
<1> DEFINE D == {i \in Nat : i # 0 /\ (i > Len(s) \/ i > Len(t) \/ s[i] # t[i])}
<1>1. Len(s) \in Nat /\ Len(t) \in Nat
  OBVIOUS
<1>2. Len(s) + 1 \in D
  BY <1>1
<1>3. PICK i \in D : \A j \in D : i <= j
  BY <1>2, Smallest
<1>4. \A j \in 1..(i - 1) : j <= Len(s) /\ j <= Len(t) /\ s[j] = t[j]
  BY <1>1, <1>3
<1>5. i - 1 <= Len(s) /\ i - 1 <= Len(t)
  BY <1>1, <1>3, <1>4
<1>6. i \in Nat /\ i # 0 /\ (i > Len(s) \/ i > Len(t) \/ s[i] # t[i])
  BY <1>3
<1> HIDE DEF D
<1>7. CASE i > Len(s) /\ i > Len(t)
  <2>1. Len(s) = i - 1 /\ Len(t) = i - 1
    BY <1>1, <1>5, <1>6, <1>7
  <2>2. s = t
    <3>1. DOMAIN s = 1..(i - 1) /\ DOMAIN t = 1..(i - 1)
      BY <2>1
    <3>2. s = [j \in DOMAIN s |-> s[j]] /\ t = [j \in DOMAIN t |-> t[j]]
      OBVIOUS
    <3> QED BY <1>4, <3>1, <3>2
  <2> QED BY <2>2
<1>8. CASE i > Len(s) /\ i <= Len(t)
  BY <1>1, <1>4, <1>5, <1>6, <1>8 DEF less
<1>9. CASE i <= Len(s) /\ i > Len(t)
  BY <1>1, <1>4, <1>5, <1>6, <1>9 DEF less
<1>10. CASE i <= Len(s) /\ i <= Len(t)
  <2>1. i \in 1..Len(s) /\ i \in 1..Len(t) /\ s[i] # t[i]
    BY <1>1, <1>6, <1>10
  <2>2. s[i] \in Nat /\ t[i] \in Nat
    BY <2>1
  <2>3. s[i] < t[i] \/ t[i] < s[i]
    BY <2>1, <2>2
  <2> QED BY <1>4, <1>5, <2>1, <2>3 DEF less
<1> QED BY <1>1, <1>6, <1>7, <1>8, <1>9, <1>10

-----------------------------------------------------------------------------
(* The mode.                                                               *)

(* One more value is one more occurrence of it, and of no other.           *)
LEMMA OneMore ==
  ASSUME NEW values, NEW n \in Nat, NEW v
  PROVE  /\ Occurrences(v, values, n) \in Nat
         /\ values[n + 1] = v => Occurrences(v, values, n + 1) = Occurrences(v, values, n) + 1
         /\ values[n + 1] # v => Occurrences(v, values, n + 1) = Occurrences(v, values, n)
<1> DEFINE at(k) == {i \in 1..k : values[i] = v}
<1>1. IsFiniteSet(at(n)) /\ n + 1 \notin at(n)
  <2>1. IsFiniteSet(1..n) /\ at(n) \in SUBSET (1..n)
    BY FS_Interval
  <2>2. n + 1 \notin 1..n
    OBVIOUS
  <2> QED BY <2>1, <2>2, FS_Subset
<1>2. values[n + 1] = v => at(n + 1) = at(n) \cup {n + 1}
  OBVIOUS
<1>3. values[n + 1] # v => at(n + 1) = at(n)
  OBVIOUS
<1>4. Occurrences(v, values, n) = Cardinality(at(n)) /\ Occurrences(v, values, n + 1) = Cardinality(at(n + 1))
  BY DEF Occurrences
<1> HIDE DEF at
<1>5. Cardinality(at(n)) \in Nat
  BY <1>1, FS_CardinalityType
<1>6. Cardinality(at(n) \cup {n + 1}) = Cardinality(at(n)) + 1
  BY <1>1, FS_AddElement
<1> QED BY <1>2, <1>3, <1>4, <1>5, <1>6

(* What the loop of mode keeps, of the first n values: the most common     *)
(* that is not empty, of several the smallest, and how often it occurs.    *)
BestOf(b, values, n) ==
    /\ b \in [value : Seq(Nat), count : Nat]
    /\ b.value = <<>> => b.count = 0
    /\ b.value # <<>> => /\ b.count = Occurrences(b.value, values, n)
                         /\ \E i \in 1..n : values[i] = b.value
    /\ \A i \in 1..n : values[i] # <<>> =>
          \/ Occurrences(values[i], values, n) < b.count
          \/ Occurrences(values[i], values, n) = b.count /\ ~less(values[i], b.value)

(* One turn of the loop keeps it.                                          *)
LEMMA BetterIsBest ==
  ASSUME NEW values \in Seq(Seq(Nat)), NEW n \in Nat, n + 1 <= Len(values),
         NEW b, BestOf(b, values, n)
  PROVE  BestOf(better(values, n + 1, b), values, n + 1)
<1> DEFINE w == values[n + 1]
           c == Occurrences(w, values, n + 1)
           r == better(values, n + 1, b)
<1>1. /\ w \in Seq(Nat) /\ Len(values) \in Nat
      /\ \A i \in 1..(n + 1) : values[i] \in Seq(Nat)
      /\ \A i \in 1..(n + 1) : i \in 1..n \/ i = n + 1
      /\ \A i \in 1..n : i \in 1..(n + 1)
      /\ n + 1 \in 1..(n + 1)
  OBVIOUS
<1>2. /\ \A v : Occurrences(v, values, n) \in Nat
      /\ \A v : v # w => Occurrences(v, values, n + 1) = Occurrences(v, values, n)
      /\ c = Occurrences(w, values, n) + 1
      /\ c \in Nat
  <2>1. w = values[n + 1] /\ c = Occurrences(w, values, n + 1)
    OBVIOUS
  <2> HIDE DEF w, c
  <2>2. ASSUME NEW v
        PROVE  /\ Occurrences(v, values, n) \in Nat
               /\ w = v => Occurrences(v, values, n + 1) = Occurrences(v, values, n) + 1
               /\ w # v => Occurrences(v, values, n + 1) = Occurrences(v, values, n)
    BY <2>1, OneMore
  <2>3. Occurrences(w, values, n) \in Nat /\ c = Occurrences(w, values, n) + 1
    BY <2>1, <2>2
  <2>4. c \in Nat
    BY <2>3
  <2>5. \A v : Occurrences(v, values, n) \in Nat
    BY <2>2
  <2>6. \A v : v # w => Occurrences(v, values, n + 1) = Occurrences(v, values, n)
    BY <2>2
  <2> QED BY <2>3, <2>4, <2>5, <2>6, Zenon
<1>3. /\ b \in [value : Seq(Nat), count : Nat] /\ b.value \in Seq(Nat) /\ b.count \in Nat
      /\ b.value = <<>> => b.count = 0
      /\ b.value # <<>> => /\ b.count = Occurrences(b.value, values, n)
                           /\ \E i \in 1..n : values[i] = b.value
      /\ \A i \in 1..n : values[i] # <<>> =>
            \/ Occurrences(values[i], values, n) < b.count
            \/ Occurrences(values[i], values, n) = b.count /\ ~less(values[i], b.value)
  BY DEF BestOf
<1>4. r = IF w # <<>> /\ (c > b.count \/ (c = b.count /\ less(w, b.value)))
          THEN [value |-> w, count |-> c] ELSE b
  BY DEF better
<1> HIDE DEF w, c, r
<1>5. CASE w # <<>> /\ (c > b.count \/ (c = b.count /\ less(w, b.value)))
  <2>1. r = [value |-> w, count |-> c] /\ r.value = w /\ r.count = c
    BY <1>4, <1>5
  <2>2. \E i \in 1..(n + 1) : values[i] = w
    BY <1>1 DEF w
  <2>3. ASSUME NEW i \in 1..(n + 1), values[i] # <<>>
        PROVE  \/ Occurrences(values[i], values, n + 1) < c
               \/ Occurrences(values[i], values, n + 1) = c /\ ~less(values[i], w)
    <3>1. CASE values[i] = w
      BY <1>1, <3>1, LessIrreflexive DEF c
    <3>2. CASE values[i] # w
      <4>1. i \in 1..n /\ values[i] \in Seq(Nat)
        BY <1>1, <3>2 DEF w
      <4> DEFINE k == Occurrences(values[i], values, n)
      <4>2. k \in Nat /\ Occurrences(values[i], values, n + 1) = k
        BY <1>2, <3>2
      <4>3. k < b.count \/ (k = b.count /\ ~less(values[i], b.value))
        BY <1>3, <2>3, <4>1
      <4> HIDE DEF k
      <4>4. k < c \/ (k = c /\ k = b.count /\ less(w, b.value))
        BY <1>2, <1>3, <1>5, <4>2, <4>3
      <4>5. CASE k = c /\ k = b.count /\ less(w, b.value)
        <5>1. ~less(values[i], b.value)
          BY <1>3, <4>2, <4>3, <4>5
        <5>2. ~less(values[i], w)
          BY <1>1, <1>3, <4>1, <4>5, <5>1, LessTransitive
        <5> QED BY <4>2, <4>5, <5>2
      <4> QED BY <4>2, <4>4, <4>5
    <3> QED BY <3>1, <3>2
  <2>4. r \in [value : Seq(Nat), count : Nat] /\ r.value # <<>>
    BY <1>1, <1>2, <1>5, <2>1
  <2>5. r.count = Occurrences(r.value, values, n + 1)
    BY <2>1 DEF c
  <2> QED BY <2>1, <2>2, <2>3, <2>4, <2>5 DEF BestOf, r
<1>6. CASE ~(w # <<>> /\ (c > b.count \/ (c = b.count /\ less(w, b.value))))
  <2>1. r = b
    BY <1>4, <1>6
  <2>2. b.value # w \/ w = <<>>
    BY <1>2, <1>3, <1>6
  <2>3. b.value # <<>> => /\ b.count = Occurrences(b.value, values, n + 1)
                         /\ \E i \in 1..(n + 1) : values[i] = b.value
    BY <1>1, <1>2, <1>3, <2>2
  <2>4. ASSUME NEW i \in 1..(n + 1), values[i] # <<>>
        PROVE  \/ Occurrences(values[i], values, n + 1) < b.count
               \/ Occurrences(values[i], values, n + 1) = b.count /\ ~less(values[i], b.value)
    <3>1. CASE values[i] = w
      BY <1>2, <1>3, <1>6, <2>4, <3>1 DEF c
    <3>2. CASE values[i] # w
      <4>1. i \in 1..n
        BY <1>1, <3>2 DEF w
      <4> QED BY <1>2, <1>3, <2>4, <3>2, <4>1
    <3> QED BY <3>1, <3>2
  <2> QED BY <1>3, <2>1, <2>3, <2>4 DEF BestOf, r
<1> QED BY <1>5, <1>6

(* The loop from its first turn to its last.                               *)
LEMMA ModeIsBest ==
  ASSUME NEW values \in Seq(Seq(Nat))
  PROVE  \E b : BestOf(b, values, Len(values)) /\ mode(values) = b.value
<1> DEFINE m == Len(values)
           first == [value |-> <<>>, count |-> 0]
           turn(i, b) == better(values, i, b)
           loop(f, k) == [i \in 0..k |-> IF i = 0 THEN first ELSE turn(i, f[i - 1])]
           S == {k \in Nat : \E g : g = loop(g, k)}
<1>1. m \in Nat
  OBVIOUS
<1>2. \E g : g = loop(g, m)
  <2> HIDE DEF first, turn, m
  <2>1. 0 \in S
    <3> DEFINE g == [i \in 0..0 |-> first]
    <3>1. g = loop(g, 0)
      OBVIOUS
    <3> QED BY <3>1
  <2>2. ASSUME NEW k \in Nat, k \in S PROVE k + 1 \in S
    <3>1. PICK g : g = loop(g, k)
      BY <2>2
    <3> DEFINE h == [i \in 0..(k + 1) |-> IF i = k + 1 THEN turn(k + 1, g[k]) ELSE g[i]]
    <3>2. \A i \in 0..k : g[i] = IF i = 0 THEN first ELSE turn(i, g[i - 1])
      BY <3>1
    <3>3. \A i \in 0..(k + 1) : h[i] = IF i = k + 1 THEN turn(k + 1, g[k]) ELSE g[i]
      OBVIOUS
    <3>4. h = [i \in 0..(k + 1) |-> h[i]]
      OBVIOUS
    <3> HIDE DEF h
    <3>5. \A i \in 0..(k + 1) : h[i] = IF i = 0 THEN first ELSE turn(i, h[i - 1])
      <4> TAKE i \in 0..(k + 1)
      <4>1. CASE i = 0
        BY <3>2, <3>3, <4>1
      <4>2. CASE i \in 1..k
        <5>1. i # k + 1 /\ i \in 0..k /\ i - 1 # k + 1 /\ i - 1 \in 0..(k + 1) /\ i # 0
          BY <4>2
        <5>2. h[i] = g[i] /\ h[i - 1] = g[i - 1]
          BY <3>3, <5>1
        <5> QED BY <3>2, <5>1, <5>2
      <4>3. CASE i = k + 1
        <5>1. k \in 0..(k + 1) /\ k # k + 1 /\ i - 1 = k /\ i # 0
          BY <4>3
        <5>2. h[i] = turn(k + 1, g[k]) /\ h[k] = g[k]
          BY <3>3, <4>3, <5>1
        <5> QED BY <4>3, <5>1, <5>2
      <4>4. i = 0 \/ i \in 1..k \/ i = k + 1
        OBVIOUS
      <4> QED BY <4>1, <4>2, <4>3, <4>4
    <3>6. h = loop(h, k + 1)
      BY <3>4, <3>5
    <3> QED BY <3>6
  <2> HIDE DEF S
  <2>3. Nat \subseteq S
    BY <2>1, <2>2, SetInduction
  <2> QED BY <1>1, <2>3 DEF S
<1> DEFINE best == CHOOSE f : f = loop(f, m)
<1>3. best = loop(best, m)
  BY <1>2, Zenon
<1>4. mode(values) = best[m].value
  BY Zenon DEF mode
<1> HIDE DEF best
<1>5. \A i \in 0..m : best[i] = IF i = 0 THEN first ELSE better(values, i, best[i - 1])
  BY <1>3
<1> DEFINE T == {k \in Nat : k <= m => BestOf(best[k], values, k)}
<1>6. 0 \in T
  <2>1. best[0] = first
    BY <1>1, <1>5
  <2>2. BestOf(first, values, 0)
    <3>1. \A i \in 1..0 : FALSE
      OBVIOUS
    <3>2. first \in [value : Seq(Nat), count : Nat] /\ first.value = <<>> /\ first.count = 0
      OBVIOUS
    <3> HIDE DEF first
    <3> QED BY <3>1, <3>2 DEF BestOf
  <2> QED BY <2>1, <2>2
<1>7. ASSUME NEW k \in Nat, k \in T PROVE k + 1 \in T
  <2> SUFFICES ASSUME k + 1 <= m PROVE BestOf(best[k + 1], values, k + 1)
    OBVIOUS
  <2>1. BestOf(best[k], values, k) /\ best[k + 1] = better(values, k + 1, best[k])
    BY <1>1, <1>5, <1>7
  <2>2. k + 1 <= Len(values)
    OBVIOUS
  <2> HIDE DEF m, T
  <2> QED BY <2>1, <2>2, BetterIsBest
<1> HIDE DEF T
<1>8. Nat \subseteq T
  BY <1>6, <1>7, SetInduction
<1>9. BestOf(best[m], values, m)
  BY <1>1, <1>8 DEF T
<1> QED BY <1>4, <1>9

(* IsBaseline, for a function.                                             *)
Votes(w, S, g) == Cardinality({c \in S : g[c] = w})
Baseline(v, S, g) ==
    \A c \in S : g[c] # <<>> =>
        \/ Votes(v, S, g) > Votes(g[c], S, g)
        \/ Votes(v, S, g) = Votes(g[c], S, g) /\ ~less(g[c], v)

(* The n values are those that g has for the members of S, one by one in   *)
(* the order of key.                                                       *)
Lists(values, n, key, S, g) ==
    /\ n \in Nat
    /\ g \in [S -> Seq(Nat)]
    /\ key \in [1..n -> S]
    /\ \A i, j \in 1..n : key[i] = key[j] => i = j
    /\ \A c \in S : \E i \in 1..n : key[i] = c
    /\ values = [i \in 1..n |-> g[key[i]]]

(* A value occurs as often in the list of the values of S, in any order,   *)
(* as it has votes.                                                        *)
LEMMA VotesAreOccurrences ==
  ASSUME NEW n, NEW S, NEW key, NEW g, NEW values, Lists(values, n, key, S, g)
  PROVE  \A w : Votes(w, S, g) = Occurrences(w, values, n)
<1> SUFFICES ASSUME NEW w PROVE Votes(w, S, g) = Occurrences(w, values, n)
  OBVIOUS
<1> DEFINE A == {i \in 1..n : values[i] = w}
           B == {c \in S : g[c] = w}
           k == [i \in A |-> key[i]]
<1>1. IsFiniteSet(A)
  <2>1. A \in SUBSET (1..n)
    OBVIOUS
  <2>2. 1 \in Int /\ n \in Int
    BY DEF Lists
  <2>3. IsFiniteSet(1..n)
    BY <2>2, FS_Interval, Zenon
  <2> QED BY <2>1, <2>3, FS_Subset
<1>2. /\ n \in Nat /\ key \in [1..n -> S]
      /\ \A i, j \in 1..n : key[i] = key[j] => i = j
      /\ \A c \in S : \E i \in 1..n : key[i] = c
      /\ \A i \in 1..n : values[i] = g[key[i]]
  BY DEF Lists
<1>3. k \in [A -> B]
  BY <1>2
<1>4. \A i, j \in A : k[i] = k[j] => i = j
  BY <1>2
<1>5. \A c \in B : \E i \in A : k[i] = c
  <2> TAKE c \in B
  <2>1. PICK i \in 1..n : key[i] = c
    BY <1>2
  <2>2. i \in A
    BY <1>2, <2>1
  <2> QED BY <2>1, <2>2
<1>6. Votes(w, S, g) = Cardinality(B) /\ Occurrences(w, values, n) = Cardinality(A)
  BY DEF Votes, Occurrences
<1> HIDE DEF A, B, k
<1>7. k \in Bijection(A, B)
  BY <1>3, <1>4, <1>5 DEF Bijection, Injection, Surjection, IsInjective
<1>8. ExistsBijection(A, B)
  BY <1>7 DEF ExistsBijection
<1> QED BY <1>1, <1>6, <1>8, FS_Bijection

(* Whatever the order of the list, a value of S that is not empty is the   *)
(* mode if and only if it is the baseline of S.                            *)
LEMMA ModeIsBaseline ==
  ASSUME NEW n, NEW S, NEW key, NEW g, NEW values, Lists(values, n, key, S, g),
         NEW v \in S, g[v] # <<>>, mode(values) # <<>>
  PROVE  g[v] = mode(values) <=> Baseline(g[v], S, g)
<1>0. n \in Nat /\ g \in [S -> Seq(Nat)]
  BY DEF Lists
<1>1. PICK b : BestOf(b, values, n) /\ mode(values) = b.value
  <2>1. values \in Seq(Seq(Nat)) /\ Len(values) = n
    BY DEF Lists
  <2> QED BY <2>1, ModeIsBest
<1> DEFINE m == b.value
           count(w) == Occurrences(w, values, n)
<1>2. \A w : Votes(w, S, g) = count(w) /\ count(w) \in Nat
  <2>1. \A w : Occurrences(w, values, n) \in Nat
    BY <1>0, OneMore
  <2>2. \A w : Votes(w, S, g) = Occurrences(w, values, n)
    BY VotesAreOccurrences
  <2> QED BY <2>1, <2>2
<1>3. /\ \A c \in S : \E i \in 1..n : values[i] = g[c]
      /\ \A i \in 1..n : \E c \in S : values[i] = g[c]
  <2>1. \A i \in 1..n : key[i] \in S /\ values[i] = g[key[i]]
    BY DEF Lists
  <2>2. ASSUME NEW c \in S PROVE \E i \in 1..n : values[i] = g[c]
    <3>1. PICK i \in 1..n : key[i] = c
      BY DEF Lists
    <3> QED BY <2>1, <3>1
  <2> QED BY <2>1, <2>2
<1>4. /\ m # <<>> /\ m \in Seq(Nat) /\ b.count = count(m)
      /\ \E i \in 1..n : values[i] = m
      /\ \A i \in 1..n : values[i] # <<>> =>
            \/ count(values[i]) < b.count
            \/ count(values[i]) = b.count /\ ~less(values[i], m)
  BY <1>1 DEF BestOf
<1> HIDE DEF m, count
<1>5. ASSUME NEW c \in S, g[c] # <<>>
      PROVE  \/ count(g[c]) < count(m)
             \/ count(g[c]) = count(m) /\ ~less(g[c], m)
  BY <1>3, <1>4, <1>5
<1>6. ASSUME g[v] = m PROVE Baseline(g[v], S, g)
  BY <1>2, <1>5, <1>6 DEF Baseline
<1>7. ASSUME Baseline(g[v], S, g) PROVE g[v] = m
  <2>1. PICK c \in S : g[c] = m
    BY <1>3, <1>4
  <2>2. \/ count(g[v]) > count(m)
        \/ count(g[v]) = count(m) /\ ~less(m, g[v])
    BY <1>2, <1>4, <1>7, <2>1 DEF Baseline
  <2>3. \/ count(g[v]) < count(m)
        \/ count(g[v]) = count(m) /\ ~less(g[v], m)
    BY <1>5
  <2>4. count(m) \in Nat /\ count(g[v]) \in Nat
    BY <1>2
  <2>5. ~less(m, g[v]) /\ ~less(g[v], m)
    BY <2>2, <2>3, <2>4
  <2> QED BY <1>0, <1>4, <2>5, LessTotal
<1> QED BY <1>1, <1>6, <1>7 DEF m

-----------------------------------------------------------------------------
(* The rows of an evaluation.                                              *)

RowsOK(e) ==
    /\ e.rows \in Seq(Row)
    /\ \A i, j \in DOMAIN e.rows : e.rows[i].cluster = e.rows[j].cluster => i = j

(* The fresh rows are some of the rows, each cluster once.                 *)
LEMMA FreshRows ==
  ASSUME NEW e, RowsOK(e)
  PROVE  /\ freshRows(e) \in Seq(Row)
         /\ \A i, j \in DOMAIN freshRows(e) : freshRows(e)[i].cluster = freshRows(e)[j].cluster => i = j
         /\ \A i \in DOMAIN freshRows(e) : \E j \in DOMAIN e.rows : freshRows(e)[i] = e.rows[j]
         /\ \A c : isFresh(e, c) => c \in listed(e) /\ c \in Clusters
<1> DEFINE places == {i \in DOMAIN e.rows : ~isStale(e.rows[i].age)}
           f == only(e.rows, places)
           clusterOf == [x \in Row |-> x.cluster]
<1>1. e.rows \in Seq(Row) /\ places \in SUBSET DOMAIN e.rows /\ freshRows(e) = f
  BY DEF RowsOK, freshRows
<1>2. \A i \in DOMAIN e.rows : e.rows[i] \in Row
  BY <1>1
<1>3. clusterOf \in [Row -> Clusters] /\ \A x \in Row : clusterOf[x] = x.cluster
  BY DEF Row
<1>4. \A i, j \in DOMAIN e.rows : clusterOf[e.rows[i]] = clusterOf[e.rows[j]] => i = j
  BY <1>2, <1>3 DEF RowsOK
<1> HIDE DEF places, f, clusterOf
<1>5. f \in Seq(Row)
  BY <1>1, OnlyFacts DEF f
<1>6. \A i \in DOMAIN f : \E j \in DOMAIN e.rows : f[i] = e.rows[j]
  BY <1>1, OnlyValues DEF f
<1>7. \A i, j \in DOMAIN f : clusterOf[f[i]] = clusterOf[f[j]] => i = j
  <2>1. Distinct(e.rows, clusterOf)
    BY <1>4 DEF Distinct
  <2>2. Distinct(f, clusterOf)
    BY <1>1, <2>1, OnlyDistinct DEF f
  <2> QED BY <2>2 DEF Distinct
<1>8. \A i \in DOMAIN f : f[i] \in Row /\ f[i].cluster \in Clusters
  BY <1>2, <1>6 DEF Row
<1>9. \A i, j \in DOMAIN f : f[i].cluster = f[j].cluster => i = j
  BY <1>3, <1>7, <1>8
<1>10. ASSUME NEW c, isFresh(e, c) PROVE c \in listed(e) /\ c \in Clusters
  BY <1>1, <1>6, <1>8, <1>10 DEF isFresh, listed
<1> QED BY <1>1, <1>5, <1>6, <1>9, <1>10

(* Whatever the answer needs is among the reads.                           *)
LEMMA ReadsAreNeeded ==
  ASSUME NEW e, RowsOK(e)
  PROVE  /\ reads(e) \in Seq(Tables \X Clusters)
         /\ \A k \in needed(e) : \E i \in DOMAIN reads(e) : reads(e)[i] = k
<1> DEFINE rows == freshRows(e)
           n == Len(rows)
           of(what) == [i \in 1..n |-> <<what, rows[i].cluster>>]
           security == [i \in 1..(2 * n) |->
                           <<IF i % 2 = 1 THEN "pods" ELSE "configs", rows[(i + 1) \div 2].cluster>>]
           K == Tables \X Clusters
<1>1. rows \in Seq(Row)
  BY FreshRows
<1>2. n \in Nat /\ DOMAIN rows = 1..n /\ \A i \in 1..n : rows[i].cluster \in Clusters
  <2> HIDE DEF rows
  <2>1. n \in Nat /\ DOMAIN rows = 1..n
    BY <1>1
  <2>2. \A i \in 1..n : rows[i] \in Row
    BY <1>1
  <2> HIDE DEF n
  <2> QED BY <2>1, <2>2 DEF Row
<1>3. reads(e) = of("namespaces") \o of("deployments") \o security
  BY <1>2, Zenon DEF reads
<1> HIDE DEF rows, n
<1>4. \A what \in Tables : of(what) \in Seq(K) /\ Len(of(what)) = n
  BY <1>2
<1>5. "namespaces" \in Tables /\ "deployments" \in Tables /\ "pods" \in Tables /\ "configs" \in Tables
  BY DEF Tables
<1>6. \A i \in 1..(2 * n) : (i + 1) \div 2 \in 1..n
  BY <1>2
<1>7. security \in Seq(K) /\ Len(security) = 2 * n
  <2>1. \A i \in 1..(2 * n) : security[i] \in K
    BY <1>2, <1>5, <1>6
  <2> QED BY <1>2, <2>1
<1> DEFINE a == of("namespaces")
           b == of("deployments")
<1>8. a \in Seq(K) /\ b \in Seq(K) /\ Len(a) = n /\ Len(b) = n
  BY <1>4, <1>5
<1>9. /\ \A i \in 1..n : a[i] = <<"namespaces", rows[i].cluster>>
      /\ \A i \in 1..n : b[i] = <<"deployments", rows[i].cluster>>
  OBVIOUS
<1>10. \A i \in 1..n : /\ 2 * i \in 1..(2 * n) /\ security[2 * i] = <<"configs", rows[i].cluster>>
                       /\ 2 * i - 1 \in 1..(2 * n) /\ security[2 * i - 1] = <<"pods", rows[i].cluster>>
  <2> TAKE i \in 1..n
  <2>1. /\ 2 * i \in 1..(2 * n) /\ 2 * i - 1 \in 1..(2 * n)
        /\ (2 * i) % 2 # 1 /\ (2 * i - 1) % 2 = 1
        /\ (2 * i + 1) \div 2 = i /\ ((2 * i - 1) + 1) \div 2 = i
    BY <1>2
  <2> QED BY <2>1
<1> HIDE DEF a, b, security, K
<1>11. a \o b \o security \in Seq(K) /\ Len(a \o b \o security) = n + n + 2 * n
  BY <1>2, <1>7, <1>8
<1>12. \A i \in 1..n : /\ (a \o b \o security)[i] = a[i]
                       /\ (a \o b \o security)[n + i] = b[i]
  BY <1>2, <1>7, <1>8
<1>13. \A i \in 1..(2 * n) : (a \o b \o security)[n + n + i] = security[i]
  BY <1>2, <1>7, <1>8
<1> DEFINE r == a \o b \o security
<1>14. \A i \in 1..n : /\ i \in DOMAIN r /\ n + i \in DOMAIN r
                       /\ n + n + 2 * i \in DOMAIN r /\ n + n + (2 * i - 1) \in DOMAIN r
  <2>1. DOMAIN r = 1..(n + n + 2 * n)
    BY <1>11
  <2> QED BY <1>2, <2>1
<1>15. \A i \in 1..n : /\ r[i] = <<"namespaces", rows[i].cluster>>
                       /\ r[n + i] = <<"deployments", rows[i].cluster>>
                       /\ r[n + n + 2 * i] = <<"configs", rows[i].cluster>>
                       /\ r[n + n + (2 * i - 1)] = <<"pods", rows[i].cluster>>
  BY <1>9, <1>10, <1>12, <1>13
<1> HIDE DEF r
<1>16. ASSUME NEW k \in needed(e) PROVE \E i \in DOMAIN r : r[i] = k
  <2>1. PICK i \in 1..n : rows[i].cluster = k[2]
    BY <1>2 DEF needed, isFresh, rows
  <2>2. k \in Tables \X Clusters
    BY DEF needed
  <2>3. k = <<k[1], rows[i].cluster>> /\ k[1] \in {"namespaces", "deployments", "pods", "configs"}
    BY <2>1, <2>2 DEF Tables
  <2> QED BY <1>14, <1>15, <2>3
<1> QED BY <1>3, <1>11, <1>16 DEF a, b, r, K

-----------------------------------------------------------------------------
(* The tables.                                                             *)

(* What agents report, and nothing, is well formed.                        *)
LEMMA Reports ==
  /\ \A s \in Snapshots : WellFormed(s)
  /\ WellFormed(Empty)
  /\ Empty \in Snapshot /\ Snapshots \subseteq Snapshot
<1>1. Empty \in Snapshot /\ Snapshots \subseteq Snapshot
  BY ConstantsAssumption DEF Empty, Snapshot
<1>2. \A s \in Snapshots : WellFormed(s)
  BY <1>1, ConstantsAssumption DEF WellFormed
<1>3. WellFormed(Empty)
  <2>1. IsFiniteSet({})
    BY FS_EmptySet
  <2>2. Empty.namespaces = {} /\ Empty.workloads = {} /\ Empty.pods = {} /\ Empty.others = {}
    BY DEF Empty
  <2> QED BY <1>1, <2>1, <2>2 DEF WellFormed
<1> QED BY <1>1, <1>2, <1>3

(* The clusters listed for a tenant are its own, each once.                *)
LEMMA OwnClusters ==
  ASSUME RegistryInv, NEW t
  PROVE  /\ ListClustersForTenant(t) \in Seq(Clusters)
         /\ \A i, j \in DOMAIN ListClustersForTenant(t) :
               ListClustersForTenant(t)[i] = ListClustersForTenant(t)[j] => i = j
         /\ \A i \in DOMAIN ListClustersForTenant(t) : tenantOf[ListClustersForTenant(t)[i]] = t
<1> DEFINE places == {i \in DOMAIN registered : tenantOf[registered[i]] = t}
           own == only(registered, places)
           id == [c \in Clusters |-> c]
<1>1. ListClustersForTenant(t) = own
  BY DEF ListClustersForTenant
<1>2. /\ registered \in Seq(Clusters) /\ places \in SUBSET DOMAIN registered
      /\ \A i \in places : tenantOf[registered[i]] = t
  BY DEF RegistryInv
<1>3. Distinct(registered, id)
  BY DEF RegistryInv, Distinct
<1> HIDE DEF places
<1>4. own \in Seq(Clusters)
  BY <1>2, OnlyFacts
<1>5. Distinct(own, id)
  BY <1>2, <1>3, OnlyDistinct
<1>6. \A i \in DOMAIN own : \E j \in places : own[i] = registered[j]
  BY <1>2, OnlyValues
<1> HIDE DEF own
<1>7. \A i, j \in DOMAIN own : own[i] = own[j] => i = j
  BY <1>4, <1>5 DEF Distinct
<1>8. \A i \in DOMAIN own : tenantOf[own[i]] = t
  BY <1>2, <1>6
<1> QED BY <1>1, <1>4, <1>7, <1>8

(* Registering and deleting keep the registry; nothing else touches it.    *)
LEMMA RegistryStep ==
  ASSUME DriftInv, Next
  PROVE  /\ RegistryInv'
         /\ \A c \in Clusters : tenantOf[c] # NoTenant => tenantOf'[c] = tenantOf[c]
<1>1. ASSUME NEW c \in Clusters, NEW t \in Tenants, CreateCluster(c, t)
      PROVE  /\ RegistryInv'
             /\ \A d \in Clusters : tenantOf[d] # NoTenant => tenantOf'[d] = tenantOf[d]
  <2>1. /\ tenantOf[c] = NoTenant /\ registered' = Append(registered, c)
        /\ tenantOf' = [tenantOf EXCEPT ![c] = t]
    BY <1>1 DEF CreateCluster
  <2>2. RegistryInv
    BY DEF DriftInv
  <2>3. /\ registered \in Seq(Clusters)
        /\ \A i, j \in DOMAIN registered : registered[i] = registered[j] => i = j
        /\ tenantOf \in [Clusters -> Tenants \cup {NoTenant}]
        /\ \A i \in DOMAIN registered : tenantOf[registered[i]] # NoTenant
    BY <2>2 DEF RegistryInv
  <2>4. t # NoTenant
    BY ConstantsAssumption
  <2>5. /\ tenantOf' \in [Clusters -> Tenants \cup {NoTenant}] /\ tenantOf'[c] = t
        /\ \A d \in Clusters : d # c => tenantOf'[d] = tenantOf[d]
    BY <2>1, <2>3
  <2>6. /\ registered' \in Seq(Clusters) /\ Len(registered) \in Nat
        /\ DOMAIN registered = 1..Len(registered)
        /\ DOMAIN registered' = 1..(Len(registered) + 1)
        /\ registered'[Len(registered) + 1] = c
        /\ \A i \in DOMAIN registered : registered'[i] = registered[i]
    BY <2>1, <2>3
  <2>7. \A i \in DOMAIN registered' : i \in DOMAIN registered \/ i = Len(registered) + 1
    BY <2>6
  <2>8. \A i \in DOMAIN registered : registered[i] # c /\ registered[i] \in Clusters
    BY <2>1, <2>3
  <2>9. \A i, j \in DOMAIN registered' : registered'[i] = registered'[j] => i = j
    BY <2>3, <2>6, <2>7, <2>8
  <2>10. \A i \in DOMAIN registered' : tenantOf'[registered'[i]] # NoTenant
    BY <2>3, <2>4, <2>5, <2>6, <2>7, <2>8
  <2> QED BY <2>1, <2>5, <2>6, <2>9, <2>10 DEF RegistryInv
<1>2. ASSUME NEW c \in Clusters, DeleteCluster(c)
      PROVE  RegistryInv' /\ tenantOf' = tenantOf
  <2> DEFINE places == {i \in DOMAIN registered : registered[i] # c}
             id == [d \in Clusters |-> d]
  <2>1. registered' = only(registered, places) /\ tenantOf' = tenantOf
    BY <1>2 DEF DeleteCluster
  <2>2. /\ registered \in Seq(Clusters) /\ places \in SUBSET DOMAIN registered
        /\ tenantOf \in [Clusters -> Tenants \cup {NoTenant}]
        /\ \A i \in DOMAIN registered : tenantOf[registered[i]] # NoTenant
    BY DEF DriftInv, RegistryInv
  <2>3. Distinct(registered, id)
    BY DEF DriftInv, RegistryInv, Distinct
  <2> HIDE DEF places
  <2>4. registered' \in Seq(Clusters)
    BY <2>1, <2>2, OnlyFacts
  <2>5. Distinct(registered', id)
    BY <2>1, <2>2, <2>3, OnlyDistinct
  <2>6. \A i \in DOMAIN registered' : \E j \in places : registered'[i] = registered[j]
    BY <2>1, <2>2, OnlyValues
  <2>7. \A i, j \in DOMAIN registered' : registered'[i] = registered'[j] => i = j
    BY <2>4, <2>5 DEF Distinct
  <2> QED BY <2>1, <2>2, <2>4, <2>6, <2>7 DEF RegistryInv
<1>3. ASSUME UNCHANGED <<registered, tenantOf>> PROVE RegistryInv' /\ tenantOf' = tenantOf
  BY <1>3 DEF DriftInv, RegistryInv
<1>4. \/ \E c \in Clusters, t \in Tenants : CreateCluster(c, t)
      \/ \E c \in Clusters : DeleteCluster(c)
      \/ UNCHANGED <<registered, tenantOf>>
  BY DEF Next, handleAgentLiveness, ReplaceSnapshot, handleHeartbeat, Evaluate, readClock, read,
         readFails, respond, reset, Tick, tables
<1> QED BY <1>1, <1>2, <1>3, <1>4

(* The ages stay in their range.                                           *)
LEMMA HeartbeatStep ==
  ASSUME DriftInv, Next
  PROVE  heartbeat' \in [Clusters -> 0..Never]
<1>1. heartbeat \in [Clusters -> 0..Never] /\ Never \in Nat
  BY ConstantsAssumption DEF DriftInv, TablesInv, Never
<1>2. ASSUME NEW c \in Clusters, heartbeat' = [heartbeat EXCEPT ![c] = 0]
      PROVE  heartbeat' \in [Clusters -> 0..Never]
  BY <1>1, <1>2
<1>3. ASSUME Tick PROVE heartbeat' \in [Clusters -> 0..Never]
  <2>1. heartbeat' = [c \in Clusters |-> Older(heartbeat[c])]
    BY <1>3 DEF Tick
  <2>2. \A c \in Clusters : Older(heartbeat[c]) \in 0..Never
    BY <1>1 DEF Older
  <2> QED BY <2>1, <2>2
<1>4. \/ UNCHANGED heartbeat
      \/ \E c \in Clusters : heartbeat' = [heartbeat EXCEPT ![c] = 0]
      \/ Tick
  BY DEF Next, CreateCluster, DeleteCluster, handleAgentLiveness, ReplaceSnapshot, handleHeartbeat,
         Evaluate, readClock, read, readFails, respond, reset, tables
<1> QED BY <1>1, <1>2, <1>3, <1>4

(* The rows of a cluster are those of its last report, and what was        *)
(* reported stays reported until the next evaluation.                      *)
LEMMA ReportedStep ==
  ASSUME DriftInv, Next
  PROVE  /\ TablesInv'
         /\ \/ \E t \in Tenants : Evaluate(t)
            \/ \A c \in Clusters : reported[c].all \subseteq reported'[c].all
<1>1. /\ snapshot \in [Clusters -> Snapshot]
      /\ reported \in [Clusters -> [last : Snapshot, all : SUBSET Snapshot]]
      /\ \A c \in Clusters : Kept(reported[c], snapshot[c])
  BY DEF DriftInv, TablesInv
<1>2. heartbeat' \in [Clusters -> 0..Never]
  BY HeartbeatStep
<1>3. ASSUME UNCHANGED <<snapshot, reported>>
      PROVE  TablesInv' /\ reported' = reported
  BY <1>1, <1>2, <1>3 DEF TablesInv
<1>4. ASSUME NEW c \in Clusters, NEW s \in Snapshots, handleHeartbeat(c, s.version)
      PROVE  TablesInv' /\ reported' = reported
  <2> DEFINE new == [snapshot[c] EXCEPT !.version = s.version]
  <2>1. snapshot' = [snapshot EXCEPT ![c] = new] /\ reported' = reported
    BY <1>1, <1>4 DEF handleHeartbeat
  <2>2. s \in Snapshot /\ snapshot[c] \in Snapshot
    BY <1>1, Reports
  <2>3. new \in Snapshot /\ SameRows(new, snapshot[c])
    BY <2>2 DEF Snapshot, SameRows
  <2> HIDE DEF new
  <2>4. snapshot' \in [Clusters -> Snapshot]
    BY <1>1, <2>1, <2>3
  <2>5. ASSUME NEW d \in Clusters
        PROVE  Kept(reported'[d], snapshot'[d])
    <3>1. snapshot'[d] = snapshot[d] \/ (d = c /\ snapshot'[d] = new)
      BY <1>1, <2>1
    <3>2. Kept(reported[c], snapshot[c]) /\ Kept(reported[d], snapshot[d]) /\ reported'[d] = reported[d]
      BY <1>1, <2>1
    <3>3. Kept(reported[c], new)
      BY <2>3, <3>2 DEF Kept, SameRows
    <3> QED BY <3>1, <3>2, <3>3
  <2> QED BY <1>1, <1>2, <2>1, <2>4, <2>5 DEF TablesInv
<1>5. ASSUME NEW c \in Clusters, NEW s, s \in Snapshots \/ s = Empty,
             snapshot' = [snapshot EXCEPT ![c] = s],
             reported' = [reported EXCEPT ![c] = [last |-> s, all |-> reported[c].all \cup {s}]]
      PROVE  TablesInv' /\ \A d \in Clusters : reported[d].all \subseteq reported'[d].all
  <2> DEFINE new == [last |-> s, all |-> reported[c].all \cup {s}]
  <2>1. snapshot' = [snapshot EXCEPT ![c] = s] /\ reported' = [reported EXCEPT ![c] = new]
    BY <1>5
  <2>2. s \in Snapshot /\ WellFormed(s)
    BY <1>5, Reports
  <2>3. /\ new \in [last : Snapshot, all : SUBSET Snapshot]
        /\ new.last = s /\ new.all = reported[c].all \cup {s}
    BY <1>1, <2>2
  <2> HIDE DEF new
  <2>4. /\ snapshot' \in [Clusters -> Snapshot]
        /\ reported' \in [Clusters -> [last : Snapshot, all : SUBSET Snapshot]]
        /\ snapshot'[c] = s /\ reported'[c] = new
        /\ \A d \in Clusters : d # c => snapshot'[d] = snapshot[d] /\ reported'[d] = reported[d]
    BY <1>1, <2>1, <2>2, <2>3
  <2>5. ASSUME NEW d \in Clusters
        PROVE  /\ Kept(reported'[d], snapshot'[d])
               /\ reported[d].all \subseteq reported'[d].all
    <3>1. CASE d = c
      <4>1. Kept(reported[c], snapshot[c])
        BY <1>1
      <4>2. Kept(new, s)
        BY <2>2, <2>3, <4>1 DEF Kept, SameRows
      <4> QED BY <2>3, <2>4, <3>1, <4>2
    <3>2. CASE d # c
      BY <1>1, <2>4, <3>2
    <3> QED BY <3>1, <3>2
  <2> QED BY <1>2, <2>4, <2>5 DEF TablesInv
<1>6. ASSUME NEW c \in Clusters,
             (\E s \in Snapshots : ReplaceSnapshot(c, s)) \/ DeleteCluster(c)
      PROVE  TablesInv' /\ \A d \in Clusters : reported[d].all \subseteq reported'[d].all
  <2>1. PICK s : /\ s \in Snapshots \/ s = Empty
                 /\ snapshot' = [snapshot EXCEPT ![c] = s]
                 /\ reported' = [reported EXCEPT ![c] = [last |-> s, all |-> reported[c].all \cup {s}]]
    BY <1>1, <1>6 DEF ReplaceSnapshot, stored, DeleteCluster
  <2> QED BY <1>5, <2>1
<1>7. ASSUME NEW t \in Tenants, Evaluate(t) PROVE TablesInv'
  <2>1. snapshot' = snapshot /\ reported' = [c \in Clusters |-> [reported[c] EXCEPT !.all = {reported[c].last}]]
    BY <1>7 DEF Evaluate, tables
  <2>2. ASSUME NEW c \in Clusters
        PROVE  /\ reported'[c] \in [last : Snapshot, all : SUBSET Snapshot]
               /\ reported'[c].last = reported[c].last /\ reported'[c].all = {reported[c].last}
    BY <1>1, <2>1
  <2>3. reported' \in [Clusters -> [last : Snapshot, all : SUBSET Snapshot]]
    BY <2>1, <2>2
  <2>4. ASSUME NEW c \in Clusters PROVE Kept(reported'[c], snapshot'[c])
    <3>1. Kept(reported[c], snapshot[c])
      BY <1>1
    <3> QED BY <2>1, <2>2, <3>1 DEF Kept
  <2> QED BY <1>1, <1>2, <2>1, <2>3, <2>4 DEF TablesInv
<1>8. \/ UNCHANGED <<snapshot, reported>>
      \/ \E c \in Clusters, s \in Snapshots : handleHeartbeat(c, s.version)
      \/ \E c \in Clusters : (\E s \in Snapshots : ReplaceSnapshot(c, s)) \/ DeleteCluster(c)
      \/ \E t \in Tenants : Evaluate(t)
  BY DEF Next, CreateCluster, handleAgentLiveness, readClock, read, readFails, respond, reset, Tick, tables
<1> QED BY <1>3, <1>4, <1>6, <1>7, <1>8

-----------------------------------------------------------------------------
(* An evaluation.                                                          *)

(* What a step does to the evaluation.                                     *)
LEMMA EvalStep ==
  ASSUME DriftInv, Next
  PROVE  \/ eval' = eval
         \/ \E t \in Tenants : Evaluate(t)
         \/ Tick /\ eval.pc = "clock"
         \/ readClock
         \/ read
         \/ eval' = Idle /\ UNCHANGED <<tables, reported>>
         \/ respond
  BY DEF Next, CreateCluster, handleAgentLiveness, handleHeartbeat, ReplaceSnapshot, DeleteCluster,
         readFails, reset, Tick

(* The fields an evaluation has, after a step that changes some.           *)
LEMMA EvalFields ==
  ASSUME DriftInv
  PROVE  /\ \A t \in Tenants : Evaluate(t) =>
               /\ eval'.pc = "clock" /\ eval'.tenant = t
               /\ eval'.todo = <<>> /\ eval'.seen = <<>> /\ eval'.results = {}
               /\ eval'.rows = LET own == ListClustersForTenant(t)
                               IN  [i \in DOMAIN own |->
                                       [cluster |-> own[i], version |-> snapshot[own[i]].version,
                                        labelled |-> own[i] \in Labelled, age |-> heartbeat[own[i]]]]
               /\ eval' = [pc |-> eval'.pc, tenant |-> eval'.tenant, rows |-> eval'.rows,
                           todo |-> eval'.todo, seen |-> eval'.seen, results |-> eval'.results]
         /\ Tick /\ eval.pc = "clock" =>
               /\ eval'.rows = [i \in DOMAIN eval.rows |-> [eval.rows[i] EXCEPT !.age = Older(eval.rows[i].age)]]
               /\ eval' = [pc |-> eval.pc, tenant |-> eval.tenant, rows |-> eval'.rows,
                           todo |-> eval.todo, seen |-> eval.seen, results |-> eval.results]
         /\ readClock =>
               eval' = [pc |-> "read", tenant |-> eval.tenant, rows |-> eval.rows,
                        todo |-> reads(evidence), seen |-> eval.seen, results |-> eval.results]
         /\ read =>
               LET k == Head(eval.todo)
               IN  eval' = [pc |-> eval.pc, tenant |-> eval.tenant, rows |-> eval.rows,
                            todo |-> Tail(eval.todo),
                            seen |-> [x \in DOMAIN eval.seen \cup {k} |->
                                        IF x = k THEN readOf(k[1], snapshot[k[2]]) ELSE eval.seen[x]],
                            results |-> eval.results]
         /\ respond =>
               eval' = [pc |-> "done", tenant |-> eval.tenant, rows |-> eval.rows,
                        todo |-> eval.todo, seen |-> eval.seen, results |-> evaluated(evidence)]
<1>1. eval = [pc |-> eval.pc, tenant |-> eval.tenant, rows |-> eval.rows,
              todo |-> eval.todo, seen |-> eval.seen, results |-> eval.results]
  BY DEF DriftInv, StepsInv
<1>2. ASSUME NEW t \in Tenants, Evaluate(t)
      PROVE  /\ eval'.pc = "clock" /\ eval'.tenant = t
             /\ eval'.todo = <<>> /\ eval'.seen = <<>> /\ eval'.results = {}
             /\ eval'.rows = LET own == ListClustersForTenant(t)
                             IN  [i \in DOMAIN own |->
                                     [cluster |-> own[i], version |-> snapshot[own[i]].version,
                                      labelled |-> own[i] \in Labelled, age |-> heartbeat[own[i]]]]
             /\ eval' = [pc |-> eval'.pc, tenant |-> eval'.tenant, rows |-> eval'.rows,
                         todo |-> eval'.todo, seen |-> eval'.seen, results |-> eval'.results]
  <2> DEFINE rows == LET own == ListClustersForTenant(t)
                     IN  [i \in DOMAIN own |->
                             [cluster |-> own[i], version |-> snapshot[own[i]].version,
                              labelled |-> own[i] \in Labelled, age |-> heartbeat[own[i]]]]
  <2>1. eval' = [Idle EXCEPT !.pc = "clock", !.tenant = t, !.rows = rows]
    BY <1>2, Zenon DEF Evaluate
  <2> HIDE DEF rows
  <2>2. eval' = [pc |-> "clock", tenant |-> t, rows |-> rows, todo |-> <<>>, seen |-> <<>>, results |-> {}]
    BY <2>1 DEF Idle
  <2> QED BY <2>2 DEF rows
<1>3. ASSUME Tick, eval.pc = "clock"
      PROVE  /\ eval'.rows = [i \in DOMAIN eval.rows |-> [eval.rows[i] EXCEPT !.age = Older(eval.rows[i].age)]]
             /\ eval' = [pc |-> eval.pc, tenant |-> eval.tenant, rows |-> eval'.rows,
                         todo |-> eval.todo, seen |-> eval.seen, results |-> eval.results]
  <2> DEFINE rows == [i \in DOMAIN eval.rows |-> [eval.rows[i] EXCEPT !.age = Older(eval.rows[i].age)]]
  <2>1. eval' = [eval EXCEPT !.rows = rows]
    BY <1>3 DEF Tick
  <2> HIDE DEF rows
  <2>2. eval' = [pc |-> eval.pc, tenant |-> eval.tenant, rows |-> rows,
                 todo |-> eval.todo, seen |-> eval.seen, results |-> eval.results]
    BY <1>1, <2>1
  <2> QED BY <2>2 DEF rows
<1>4. ASSUME readClock
      PROVE  eval' = [pc |-> "read", tenant |-> eval.tenant, rows |-> eval.rows,
                      todo |-> reads(evidence), seen |-> eval.seen, results |-> eval.results]
  BY <1>1, <1>4 DEF readClock
<1>5. ASSUME read
      PROVE  LET k == Head(eval.todo)
             IN  eval' = [pc |-> eval.pc, tenant |-> eval.tenant, rows |-> eval.rows,
                          todo |-> Tail(eval.todo),
                          seen |-> [x \in DOMAIN eval.seen \cup {k} |->
                                      IF x = k THEN readOf(k[1], snapshot[k[2]]) ELSE eval.seen[x]],
                          results |-> eval.results]
  <2> DEFINE k == Head(eval.todo)
             now == [x \in DOMAIN eval.seen \cup {k} |->
                        IF x = k THEN readOf(k[1], snapshot[k[2]]) ELSE eval.seen[x]]
             rest == Tail(eval.todo)
  <2>1. eval' = [eval EXCEPT !.todo = rest, !.seen = now]
    BY <1>5 DEF read
  <2> HIDE DEF now, rest
  <2>2. eval' = [pc |-> eval.pc, tenant |-> eval.tenant, rows |-> eval.rows,
                 todo |-> rest, seen |-> now, results |-> eval.results]
    BY <1>1, <2>1
  <2> QED BY <2>2 DEF now, rest
<1>6. ASSUME respond
      PROVE  eval' = [pc |-> "done", tenant |-> eval.tenant, rows |-> eval.rows,
                      todo |-> eval.todo, seen |-> eval.seen, results |-> evaluated(evidence)]
  BY <1>1, <1>6 DEF respond
<1> QED BY <1>2, <1>3, <1>4, <1>5, <1>6

(* The rows are clusters of the tenant, each once: the clusters of a tenant*)
(* stay there.                                                             *)
LEMMA RowsStep ==
  ASSUME DriftInv, Next
  PROVE  RowsInv'
<1>1. /\ eval.rows \in Seq(Row)
      /\ \A i, j \in DOMAIN eval.rows : eval.rows[i].cluster = eval.rows[j].cluster => i = j
      /\ \A i \in DOMAIN eval.rows :
            tenantOf[eval.rows[i].cluster] = eval.tenant /\ eval.tenant \in Tenants
  BY DEF DriftInv, RowsInv
<1>2. \A i \in DOMAIN eval.rows : eval.rows[i] \in Row /\ eval.rows[i].cluster \in Clusters
  <2>1. \A i \in DOMAIN eval.rows : eval.rows[i] \in Row
    BY <1>1
  <2>2. \A r \in Row : r.cluster \in Clusters
    BY DEF Row
  <2> QED BY <2>1, <2>2
<1>3. \A i \in DOMAIN eval.rows : tenantOf'[eval.rows[i].cluster] = eval.tenant
  <2>1. NoTenant \notin Tenants
    BY ConstantsAssumption
  <2>2. \A c \in Clusters : tenantOf[c] # NoTenant => tenantOf'[c] = tenantOf[c]
    BY RegistryStep
  <2> QED BY <1>1, <1>2, <2>1, <2>2
<1>4. ASSUME eval'.rows = eval.rows, eval'.tenant = eval.tenant PROVE RowsInv'
  BY <1>1, <1>3, <1>4 DEF RowsInv
<1>5. ASSUME NEW t \in Tenants, Evaluate(t) PROVE RowsInv'
  <2> DEFINE own == ListClustersForTenant(t)
             rowFor(c) == [cluster |-> c, version |-> snapshot[c].version,
                           labelled |-> c \in Labelled, age |-> heartbeat[c]]
  <2>1. /\ own \in Seq(Clusters)
        /\ \A i, j \in DOMAIN own : own[i] = own[j] => i = j
        /\ \A i \in DOMAIN own : tenantOf[own[i]] = t
    BY OwnClusters DEF DriftInv
  <2>2. eval'.tenant = t /\ eval'.rows = [i \in DOMAIN own |-> rowFor(own[i])]
    BY <1>5, EvalFields
  <2>3. tenantOf' = tenantOf
    BY <1>5 DEF Evaluate, tables
  <2>4. \A c \in Clusters : rowFor(c) \in Row /\ rowFor(c).cluster = c
    <3> TAKE c \in Clusters
    <3>1. snapshot[c] \in Snapshot /\ heartbeat[c] \in 0..Never
      BY DEF DriftInv, TablesInv
    <3>2. snapshot[c].version \in Seq(Nat)
      BY <3>1 DEF Snapshot
    <3> DEFINE l == c \in Labelled
    <3>3. l \in BOOLEAN
      OBVIOUS
    <3> HIDE DEF l
    <3>4. [cluster |-> c, version |-> snapshot[c].version, labelled |-> l, age |-> heartbeat[c]] \in Row
      BY <3>1, <3>2, <3>3 DEF Row
    <3> QED BY <3>4 DEF l
  <2> HIDE DEF own, rowFor
  <2>5. DOMAIN own = 1..Len(own) /\ Len(own) \in Nat /\ \A i \in DOMAIN own : own[i] \in Clusters
    BY <2>1
  <2> DEFINE rows == eval'.rows
  <2>6. /\ DOMAIN rows = 1..Len(own)
        /\ \A i \in 1..Len(own) : rows[i] \in Row /\ rows[i].cluster = own[i]
        /\ rows = [i \in 1..Len(own) |-> rows[i]]
    BY <2>2, <2>4, <2>5
  <2> HIDE DEF rows
  <2>7. rows \in Seq(Row)
    BY <2>5, <2>6
  <2>8. \A i, j \in DOMAIN rows : rows[i].cluster = rows[j].cluster => i = j
    BY <2>1, <2>5, <2>6
  <2>9. \A i \in DOMAIN rows : tenantOf'[rows[i].cluster] = t
    BY <2>1, <2>3, <2>5, <2>6
  <2> QED BY <2>2, <2>7, <2>8, <2>9 DEF RowsInv, rows
<1>6. ASSUME Tick, eval.pc = "clock" PROVE RowsInv'
  <2> DEFINE rows == eval'.rows
             n == Len(eval.rows)
  <2>1. /\ rows = [i \in DOMAIN eval.rows |-> [eval.rows[i] EXCEPT !.age = Older(eval.rows[i].age)]]
        /\ eval'.tenant = eval.tenant
    BY <1>6, EvalFields
  <2>2. n \in Nat /\ DOMAIN eval.rows = 1..n
    BY <1>1
  <2>3. ASSUME NEW r \in Row
        PROVE  [r EXCEPT !.age = Older(r.age)] \in Row /\ [r EXCEPT !.age = Older(r.age)].cluster = r.cluster
    <3>1. r.age \in 0..Never /\ Never \in Nat
      BY ConstantsAssumption DEF Row, Never
    <3>2. Older(r.age) \in 0..Never
      BY <3>1 DEF Older
    <3> QED BY <3>2 DEF Row
  <2> HIDE DEF rows, n
  <2>4. DOMAIN rows = 1..n /\ \A i \in 1..n : rows[i] = [eval.rows[i] EXCEPT !.age = Older(eval.rows[i].age)]
    BY <2>1, <2>2
  <2>5. \A i \in 1..n : rows[i] \in Row /\ rows[i].cluster = eval.rows[i].cluster
    BY <1>2, <2>2, <2>3, <2>4
  <2>6. rows = [i \in 1..n |-> rows[i]]
    BY <2>1, <2>2, <2>4
  <2>7. rows \in Seq(Row)
    BY <2>2, <2>5, <2>6
  <2>8. \A i, j \in DOMAIN rows : rows[i].cluster = rows[j].cluster => i = j
    BY <1>1, <2>2, <2>4, <2>5
  <2>9. \A i \in DOMAIN rows : tenantOf'[rows[i].cluster] = eval'.tenant /\ eval'.tenant \in Tenants
    BY <1>1, <1>3, <2>1, <2>2, <2>4, <2>5
  <2> QED BY <2>7, <2>8, <2>9 DEF RowsInv, rows
<1>7. ASSUME eval' = Idle PROVE RowsInv'
  <2>1. eval'.rows = <<>>
    BY <1>7 DEF Idle
  <2>2. <<>> \in Seq(Row) /\ DOMAIN <<>> = {}
    OBVIOUS
  <2> QED BY <2>1, <2>2 DEF RowsInv
<1>8. ASSUME readClock \/ read \/ respond PROVE RowsInv'
  <2>1. eval'.rows = eval.rows /\ eval'.tenant = eval.tenant
    BY <1>8, EvalFields
  <2> QED BY <1>4, <2>1
<1>9. ASSUME eval' = eval PROVE RowsInv'
  BY <1>4, <1>9
<1> QED BY <1>5, <1>6, <1>7, <1>8, <1>9, EvalStep

(* What a read returns is the evidence of the last report.                 *)
LEMMA ReadsWhatIsKept ==
  ASSUME NEW r, NEW s, Kept(r, s), NEW what \in Tables
  PROVE  readOf(what, s) = readOf(what, r.last)
BY DEF Kept, SameRows, readOf, ListNamespaces, ListDeployments, ListPods, ListNamespaceConfigs, Tables

(* What was read of a cluster was reported.                                *)
LEMMA SeenStep ==
  ASSUME DriftInv, Next
  PROVE  SeenInv'
<1>1. /\ DOMAIN eval.seen \subseteq Tables \X Clusters
      /\ \A what \in Tables, c \in Clusters : <<what, c>> \in DOMAIN eval.seen =>
            \E s \in reported[c].all : eval.seen[<<what, c>>] = readOf(what, s)
      /\ eval.pc # "idle" => \A c \in Clusters : reported[c].last \in reported[c].all
  BY DEF DriftInv, SeenInv
<1>2. ASSUME \A c \in Clusters : reported[c].all \subseteq reported'[c].all
      PROVE  \A c \in Clusters : reported[c].last \in reported[c].all => reported'[c].last \in reported'[c].all
  <2>1. /\ reported \in [Clusters -> [last : Snapshot, all : SUBSET Snapshot]]
    BY DEF DriftInv, TablesInv
  <2>2. \/ reported' = reported
        \/ \E c \in Clusters, s \in Snapshots \cup {Empty} :
              reported' = [reported EXCEPT ![c] = [last |-> s, all |-> reported[c].all \cup {s}]]
        \/ reported' = [c \in Clusters |-> [reported[c] EXCEPT !.all = {reported[c].last}]]
    BY DEF Next, CreateCluster, handleAgentLiveness, handleHeartbeat, ReplaceSnapshot, DeleteCluster,
           Evaluate, readClock, read, readFails, respond, reset, Tick
  <2>3. \A s \in Snapshots \cup {Empty} : s \in Snapshot
    BY Reports
  <2> QED BY <2>1, <2>2, <2>3
<1>3. ASSUME \A c \in Clusters : reported[c].all \subseteq reported'[c].all,
             eval'.seen = eval.seen, eval'.pc # "idle" => eval.pc # "idle"
      PROVE  SeenInv'
  BY <1>1, <1>2, <1>3 DEF SeenInv
<1>4. ASSUME NEW t \in Tenants, Evaluate(t) PROVE SeenInv'
  <2>1. eval'.seen = <<>>
    BY <1>4, EvalFields
  <2>2. DOMAIN eval'.seen = {}
    BY <2>1
  <2>3. \A c \in Clusters : reported'[c].last \in reported'[c].all
    <3>1. reported' = [c \in Clusters |-> [reported[c] EXCEPT !.all = {reported[c].last}]]
      BY <1>4 DEF Evaluate
    <3>2. reported \in [Clusters -> [last : Snapshot, all : SUBSET Snapshot]]
      BY DEF DriftInv, TablesInv
    <3> QED BY <3>1, <3>2
  <2> QED BY <2>2, <2>3 DEF SeenInv
<1>5. ASSUME read PROVE SeenInv'
  <2> DEFINE k == Head(eval.todo)
  <2>1. /\ eval'.pc = eval.pc
        /\ eval'.seen = [x \in DOMAIN eval.seen \cup {k} |->
                            IF x = k THEN readOf(k[1], snapshot[k[2]]) ELSE eval.seen[x]]
    BY <1>5, EvalFields
  <2>2. k \in Tables \X Clusters /\ eval.pc = "read" /\ reported' = reported
    BY <1>5 DEF read, DriftInv, StepsInv
  <2> HIDE DEF k
  <2>3. /\ DOMAIN eval'.seen = DOMAIN eval.seen \cup {k}
        /\ eval'.seen[k] = readOf(k[1], snapshot[k[2]])
        /\ \A x \in DOMAIN eval.seen : x # k => eval'.seen[x] = eval.seen[x]
    BY <2>1
  <2>4. \A c \in Clusters : reported[c].last \in reported[c].all
    BY <1>1, <2>2
  <2>5. ASSUME NEW what \in Tables, NEW c \in Clusters, k = <<what, c>>
        PROVE  \E s \in reported[c].all : eval'.seen[k] = readOf(what, s)
    <3>1. Kept(reported[c], snapshot[c])
      BY DEF DriftInv, TablesInv
    <3>2. eval'.seen[k] = readOf(what, snapshot[c])
      BY <2>3, <2>5
    <3> QED BY <2>4, <3>1, <3>2, ReadsWhatIsKept
  <2>6. ASSUME NEW what \in Tables, NEW c \in Clusters, <<what, c>> \in DOMAIN eval'.seen
        PROVE  \E s \in reported[c].all : eval'.seen[<<what, c>>] = readOf(what, s)
    <3>1. CASE k = <<what, c>>
      BY <2>5, <3>1
    <3>2. CASE k # <<what, c>>
      BY <1>1, <2>3, <2>6, <3>2
    <3> QED BY <3>1, <3>2
  <2>7. DOMAIN eval'.seen \subseteq Tables \X Clusters
    BY <1>1, <2>2, <2>3
  <2> QED BY <2>2, <2>4, <2>6, <2>7 DEF SeenInv
<1>6. ASSUME eval' = Idle PROVE SeenInv'
  <2>1. eval'.pc = "idle" /\ eval'.seen = <<>>
    BY <1>6 DEF Idle
  <2>2. DOMAIN eval'.seen = {}
    BY <2>1
  <2> QED BY <2>1, <2>2 DEF SeenInv
<1>7. ASSUME eval' = eval \/ (Tick /\ eval.pc = "clock") \/ readClock \/ respond
      PROVE  eval'.seen = eval.seen /\ (eval'.pc # "idle" => eval.pc # "idle")
  <2>1. eval.pc = "clock" \/ eval.pc = "read" \/ eval' = eval
    BY <1>7 DEF readClock, respond
  <2>2. eval'.seen = eval.seen
    BY <1>7, EvalFields
  <2> QED BY <2>1, <2>2
<1>8. \/ \E t \in Tenants : Evaluate(t)
      \/ \A c \in Clusters : reported[c].all \subseteq reported'[c].all
  BY ReportedStep
<1> QED BY <1>3, <1>4, <1>5, <1>6, <1>7, <1>8, EvalStep

(* No read is lost, and the answer follows from the reads.                 *)
LEMMA StepsStep ==
  ASSUME DriftInv, Next
  PROVE  StepsInv'
<1>1. /\ eval = [pc |-> eval.pc, tenant |-> eval.tenant, rows |-> eval.rows,
                 todo |-> eval.todo, seen |-> eval.seen, results |-> eval.results]
      /\ eval.pc \in {"idle", "clock", "read", "done"}
      /\ eval.todo \in Seq(Tables \X Clusters)
      /\ eval.pc = "read" => \A k \in needed(evidence) :
            k \in DOMAIN eval.seen \/ \E i \in DOMAIN eval.todo : eval.todo[i] = k
      /\ eval.pc = "done" => needed(evidence) \subseteq DOMAIN eval.seen
      /\ eval.results = IF eval.pc = "done" THEN evaluated(evidence) ELSE {}
  BY DEF DriftInv, StepsInv
<1>2. ASSUME eval' = eval PROVE StepsInv'
  <2>1. evidence' = evidence
    BY <1>2 DEF evidence
  <2> QED BY <1>1, <1>2, <2>1 DEF StepsInv
<1>3. ASSUME NEW t \in Tenants, Evaluate(t) PROVE StepsInv'
  <2>1. /\ eval' = [pc |-> eval'.pc, tenant |-> eval'.tenant, rows |-> eval'.rows,
                    todo |-> eval'.todo, seen |-> eval'.seen, results |-> eval'.results]
        /\ eval'.pc = "clock" /\ eval'.todo = <<>> /\ eval'.results = {}
    BY <1>3, EvalFields
  <2> QED BY <2>1 DEF StepsInv
<1>4. ASSUME Tick, eval.pc = "clock" PROVE StepsInv'
  <2>1. /\ eval' = [pc |-> eval'.pc, tenant |-> eval'.tenant, rows |-> eval'.rows,
                    todo |-> eval'.todo, seen |-> eval'.seen, results |-> eval'.results]
        /\ eval'.pc = "clock" /\ eval'.todo = eval.todo /\ eval'.results = eval.results
    BY <1>4, EvalFields
  <2> QED BY <1>1, <1>4, <2>1 DEF StepsInv
<1>5. ASSUME readClock PROVE StepsInv'
  <2>1. /\ eval' = [pc |-> eval'.pc, tenant |-> eval'.tenant, rows |-> eval'.rows,
                    todo |-> eval'.todo, seen |-> eval'.seen, results |-> eval'.results]
        /\ eval'.pc = "read" /\ eval'.todo = reads(evidence) /\ eval'.results = eval.results
        /\ eval'.rows = eval.rows
    BY <1>5, EvalFields
  <2>2. RowsOK(evidence) /\ eval.pc = "clock"
    BY <1>5 DEF DriftInv, RowsInv, RowsOK, readClock, evidence
  <2>3. evidence' = evidence
    BY <1>5, EvalFields DEF evidence
  <2>4. /\ reads(evidence) \in Seq(Tables \X Clusters)
        /\ \A k \in needed(evidence) : \E i \in DOMAIN reads(evidence) : reads(evidence)[i] = k
    BY <2>2, ReadsAreNeeded
  <2> QED BY <1>1, <2>1, <2>2, <2>3, <2>4 DEF StepsInv
<1>6. ASSUME read PROVE StepsInv'
  <2> DEFINE k == Head(eval.todo)
             K == Tables \X Clusters
  <2>1. /\ eval' = [pc |-> eval'.pc, tenant |-> eval'.tenant, rows |-> eval'.rows,
                    todo |-> eval'.todo, seen |-> eval'.seen, results |-> eval'.results]
        /\ eval'.pc = eval.pc /\ eval'.todo = Tail(eval.todo) /\ eval'.results = eval.results
        /\ eval'.rows = eval.rows
    BY <1>6, EvalFields
  <2>2. DOMAIN eval'.seen = DOMAIN eval.seen \cup {k}
    BY <1>6, EvalFields
  <2>3. eval.pc = "read" /\ eval.todo # <<>>
    BY <1>6 DEF read
  <2>4. needed(evidence') = needed(evidence)
    BY <2>1 DEF needed, isFresh, freshRows, evidence
  <2> DEFINE todo == eval.todo
  <2>5. /\ Tail(todo) \in Seq(K)
        /\ \A i \in DOMAIN todo : todo[i] = k \/ \E j \in DOMAIN Tail(todo) : Tail(todo)[j] = todo[i]
    <3>1. todo \in Seq(K) /\ todo # <<>> /\ k = Head(todo)
      BY <1>1, <2>3
    <3> HIDE DEF todo, k, K
    <3>2. /\ Len(todo) \in Nat /\ DOMAIN todo = 1..Len(todo) /\ k = todo[1]
          /\ Tail(todo) \in Seq(K) /\ Len(Tail(todo)) = Len(todo) - 1
          /\ DOMAIN Tail(todo) = 1..(Len(todo) - 1)
          /\ \A j \in 1..(Len(todo) - 1) : Tail(todo)[j] = todo[j + 1]
      BY <3>1
    <3>3. ASSUME NEW i \in DOMAIN todo, i # 1 PROVE \E j \in DOMAIN Tail(todo) : Tail(todo)[j] = todo[i]
      <4>1. i - 1 \in DOMAIN Tail(todo) /\ (i - 1) + 1 = i
        BY <3>2, <3>3
      <4>2. Tail(todo)[i - 1] = todo[i]
        BY <3>2, <4>1
      <4> QED BY <4>1, <4>2
    <3> QED BY <3>2, <3>3
  <2>6. \A x \in needed(evidence) : x \in DOMAIN eval.seen \/ \E i \in DOMAIN todo : todo[i] = x
    BY <1>1, <2>3
  <2>7. eval'.todo = Tail(todo)
    BY <2>1
  <2> HIDE DEF k, K, todo
  <2>8. \A x \in needed(evidence') : x \in DOMAIN eval'.seen \/ \E i \in DOMAIN eval'.todo : eval'.todo[i] = x
    BY <2>2, <2>4, <2>5, <2>6, <2>7
  <2>9. eval'.todo \in Seq(Tables \X Clusters)
    BY <2>5, <2>7 DEF K
  <2>10. eval'.results = {}
    BY <1>1, <2>1, <2>3
  <2> QED BY <2>1, <2>3, <2>8, <2>9, <2>10 DEF StepsInv
<1>7. ASSUME eval' = Idle PROVE StepsInv'
  <2>1. eval' = [pc |-> "idle", tenant |-> NoTenant, rows |-> <<>>, todo |-> <<>>, seen |-> <<>>, results |-> {}]
    BY <1>7 DEF Idle
  <2> QED BY <2>1 DEF StepsInv
<1>8. ASSUME respond PROVE StepsInv'
  <2>1. /\ eval' = [pc |-> eval'.pc, tenant |-> eval'.tenant, rows |-> eval'.rows,
                    todo |-> eval'.todo, seen |-> eval'.seen, results |-> eval'.results]
        /\ eval'.pc = "done" /\ eval'.todo = eval.todo /\ eval'.results = evaluated(evidence)
        /\ eval'.rows = eval.rows /\ eval'.seen = eval.seen
    BY <1>8, EvalFields
  <2>2. eval.pc = "read" /\ eval.todo = <<>>
    BY <1>8 DEF respond
  <2>3. evidence' = evidence
    BY <2>1 DEF evidence
  <2>4. DOMAIN eval.todo = {}
    BY <2>2
  <2>5. needed(evidence') \subseteq DOMAIN eval'.seen
    BY <1>1, <2>1, <2>2, <2>3, <2>4
  <2> QED BY <1>1, <2>1, <2>3, <2>5 DEF StepsInv
<1> QED BY <1>2, <1>3, <1>4, <1>5, <1>6, <1>7, <1>8, EvalStep

(* The invariant holds at first ...                                        *)
LEMMA DriftInit == Init => DriftInv
<1> SUFFICES ASSUME Init PROVE DriftInv
  OBVIOUS
<1>1. RegistryInv
  <2>1. PICK S \in {T \in SUBSET Clusters : IsFiniteSet(T)} : registered \in SetToSeqs(S)
    BY DEF Init
  <2>2. Cardinality(S) \in Nat /\ S \subseteq Clusters
    BY FS_CardinalityType
  <2>3. /\ registered \in [1..Cardinality(S) -> S]
        /\ \A i, j \in 1..Cardinality(S) : i # j => registered[i] # registered[j]
    BY <2>1, Zenon DEF SetToSeqs
  <2>4. registered \in Seq(Clusters) /\ DOMAIN registered = 1..Cardinality(S)
    BY <2>2, <2>3
  <2>5. \A i, j \in DOMAIN registered : registered[i] = registered[j] => i = j
    BY <2>3, <2>4
  <2>6. \A c \in Clusters : Exists(c) => tenantOf[c] # NoTenant
    BY DEF Init
  <2>7. \A i \in DOMAIN registered : registered[i] \in Clusters /\ Exists(registered[i])
    BY <2>3, <2>4 DEF Exists
  <2> QED BY <2>4, <2>5, <2>6, <2>7 DEF RegistryInv, Init
<1>2. TablesInv
  <2>1. /\ heartbeat \in [Clusters -> 0..Never]
        /\ snapshot \in [Clusters -> Snapshots \cup {Empty}]
        /\ reported = [c \in Clusters |-> [last |-> snapshot[c], all |-> {}]]
    BY DEF Init
  <2>2. \A c \in Clusters : snapshot[c] \in Snapshot /\ WellFormed(snapshot[c])
    BY <2>1, Reports
  <2>3. /\ snapshot \in [Clusters -> Snapshot]
        /\ reported \in [Clusters -> [last : Snapshot, all : SUBSET Snapshot]]
    BY <2>1, <2>2
  <2>4. \A c \in Clusters : Kept(reported[c], snapshot[c])
    BY <2>1, <2>2 DEF Kept, SameRows
  <2> QED BY <2>1, <2>3, <2>4 DEF TablesInv
<1>3. eval = [pc |-> "idle", tenant |-> NoTenant, rows |-> <<>>, todo |-> <<>>, seen |-> <<>>, results |-> {}]
  BY DEF Init, Idle
<1>4. RowsInv
  BY <1>3 DEF RowsInv
<1>5. SeenInv
  BY <1>3 DEF SeenInv
<1>6. StepsInv
  BY <1>3 DEF StepsInv
<1> QED BY <1>1, <1>2, <1>4, <1>5, <1>6 DEF DriftInv

(* ... and every step keeps it.                                            *)
LEMMA DriftStep == DriftInv /\ [Next]_vars => DriftInv'
<1> SUFFICES ASSUME DriftInv, [Next]_vars PROVE DriftInv'
  OBVIOUS
<1>1. CASE Next
  BY <1>1, RegistryStep, ReportedStep, RowsStep, SeenStep, StepsStep DEF DriftInv
<1>2. CASE UNCHANGED vars
  <2>1. /\ registered' = registered /\ tenantOf' = tenantOf /\ heartbeat' = heartbeat
        /\ snapshot' = snapshot /\ reported' = reported /\ eval' = eval
    BY <1>2 DEF vars, tables
  <2>2. RegistryInv'
    BY <2>1 DEF DriftInv, RegistryInv
  <2>3. TablesInv'
    BY <2>1 DEF DriftInv, TablesInv
  <2>4. RowsInv'
    BY <2>1 DEF DriftInv, RowsInv
  <2>5. SeenInv'
    BY <2>1 DEF DriftInv, SeenInv
  <2>6. StepsInv'
    <3>1. evidence' = evidence
      BY <2>1 DEF evidence
    <3> QED BY <2>1, <3>1 DEF DriftInv, StepsInv
  <2> QED BY <2>2, <2>3, <2>4, <2>5, <2>6 DEF DriftInv
<1> QED BY <1>1, <1>2

(* Every reachable state is consistent: rows are those of a cluster's last *)
(* report, an evaluation works on clusters of its tenant, and has read, of *)
(* reports since it began, what its answer needs (Evaluate).               *)
THEOREM DriftInductive == Spec => []DriftInv
<1> QED BY DriftInit, DriftStep, PTL DEF Spec

-----------------------------------------------------------------------------
(* The verdicts.                                                           *)

(* The result of policy for a cluster as a whole.                          *)
ForCluster(policy, c, status) ==
    [policy |-> policy, cluster |-> c, subject |-> ClusterSubject, status |-> status]

(* The result of policy for one item, an x, of a cluster.                  *)
ForItem(policy, c, kind, namespace, name, status) ==
    [policy |-> policy, cluster |-> c, subject |-> SubjectOf(kind, namespace, name), status |-> status]

(* The results of the policies that judge a cluster as a whole ...         *)
LEMMA WholeResults ==
  ASSUME NEW e, NEW r
  PROVE  /\ r \in evaluateVersions(e) => \E c \in listed(e) :
               r = ForCluster("versions", c, IF isFresh(e, c)
                      THEN compared(versionLine(rowOf(e, c).version), versionBaseline(e)) ELSE "stale")
         /\ r \in evaluateLabels(e) => \E c \in listed(e) :
               r = ForCluster("labels", c, IF isFresh(e, c)
                      THEN IF rowOf(e, c).labelled THEN "pass" ELSE "fail" ELSE "stale")
         /\ r \in evaluateNamespaces(e) => \E c \in listed(e) :
               r = ForCluster("namespaces", c, IF isFresh(e, c)
                      THEN compared(signature(seen(e, "namespaces", c)), namespaceBaseline(e)) ELSE "stale")
<1>1. r \in evaluateVersions(e) => \E c \in listed(e) :
        r = ForCluster("versions", c, IF isFresh(e, c)
               THEN compared(versionLine(rowOf(e, c).version), versionBaseline(e)) ELSE "stale")
  BY DEF evaluateVersions, wholeCluster, ForCluster
<1>2. r \in evaluateLabels(e) => \E c \in listed(e) :
        r = ForCluster("labels", c, IF isFresh(e, c)
               THEN IF rowOf(e, c).labelled THEN "pass" ELSE "fail" ELSE "stale")
  BY DEF evaluateLabels, wholeCluster, ForCluster
<1>3. r \in evaluateNamespaces(e) => \E c \in listed(e) :
        r = ForCluster("namespaces", c, IF isFresh(e, c)
               THEN compared(signature(seen(e, "namespaces", c)), namespaceBaseline(e)) ELSE "stale")
  BY DEF evaluateNamespaces, wholeCluster, ForCluster
<1> QED BY <1>1, <1>2, <1>3

(* ... and of those that judge what it runs.                               *)
LEMMA ItemResults ==
  ASSUME NEW e, NEW r
  PROVE  /\ r \in evaluateWorkloads(e) => \E c \in listed(e) :
               \/ \E policy \in {"drift", "availability"}, status \in {"stale", "unknown"} :
                     r = ForCluster(policy, c, status)
               \/ isFresh(e, c) /\ \E w \in seen(e, "deployments", c) :
                     \/ r = ForItem("drift", c, "Deployment", w.namespace, w.name, driftOf(e, w))
                     \/ r = ForItem("availability", c, "Deployment", w.namespace, w.name, availabilityOf(w))
         /\ r \in evaluateSecurity(e) => \E c \in listed(e) :
               \/ \E policy \in {"pods", "enforcement"}, status \in {"stale", "unknown"} :
                     r = ForCluster(policy, c, status)
               \/ isFresh(e, c) /\ \E p \in seen(e, "pods", c) :
                     r = ForItem("pods", c, "Pod", p.namespace, p.name, podSecurity(p))
               \/ isFresh(e, c) /\ \E n \in seen(e, "configs", c) :
                     r = ForItem("enforcement", c, "Namespace", n.name, n.name, namespaceSecurity(n))
<1>1. r \in evaluateWorkloads(e) => \E c \in listed(e) :
        \/ \E policy \in {"drift", "availability"}, status \in {"stale", "unknown"} :
              r = ForCluster(policy, c, status)
        \/ isFresh(e, c) /\ \E w \in seen(e, "deployments", c) :
              \/ r = ForItem("drift", c, "Deployment", w.namespace, w.name, driftOf(e, w))
              \/ r = ForItem("availability", c, "Deployment", w.namespace, w.name, availabilityOf(w))
  BY DEF evaluateWorkloads, eachItem, nameOf, ForCluster, ForItem
<1>2. r \in evaluateSecurity(e) => \E c \in listed(e) :
        \/ \E policy \in {"pods", "enforcement"}, status \in {"stale", "unknown"} :
              r = ForCluster(policy, c, status)
        \/ isFresh(e, c) /\ \E p \in seen(e, "pods", c) :
              r = ForItem("pods", c, "Pod", p.namespace, p.name, podSecurity(p))
        \/ isFresh(e, c) /\ \E n \in seen(e, "configs", c) :
              r = ForItem("enforcement", c, "Namespace", n.name, n.name, namespaceSecurity(n))
  BY DEF evaluateSecurity, eachItem, nameOf, ForCluster, ForItem
<1> QED BY <1>1, <1>2

(* Evidence to judge by: of every fresh cluster each read is that of a     *)
(* well-formed snapshot, though not always of the same one.                *)
Good(e) ==
    /\ RowsOK(e)
    /\ \A c : isFresh(e, c) => \A what \in Tables : \E s : WellFormed(s) /\ seen(e, what, c) = readOf(what, s)

(* An answer rests on good evidence, of reports since it was asked for.    *)
LEMMA EvidenceIsGood ==
  ASSUME DriftInv, eval.pc = "done"
  PROVE  /\ Good(evidence)
         /\ \A c : isFresh(evidence, c) =>
               /\ c \in listed(evidence) /\ c \in Clusters
               /\ \A what \in Tables : \E s \in reported[c].all :
                     seen(evidence, what, c) = readOf(what, s)
         /\ \A c \in listed(evidence) : c \in Clusters /\ tenantOf[c] = eval.tenant
         /\ eval.results = evaluated(evidence)
<1>1. evidence.rows = eval.rows /\ evidence.seen = eval.seen
  BY DEF evidence
<1>2. RowsOK(evidence)
  BY <1>1 DEF DriftInv, RowsInv, RowsOK
<1>3. ASSUME NEW c, isFresh(evidence, c)
      PROVE  /\ c \in listed(evidence) /\ c \in Clusters
             /\ \A what \in Tables : \E s \in reported[c].all :
                   seen(evidence, what, c) = readOf(what, s)
  <2>1. c \in listed(evidence) /\ c \in Clusters
    BY <1>2, <1>3, FreshRows
  <2>2. ASSUME NEW what \in Tables
        PROVE  \E s \in reported[c].all : seen(evidence, what, c) = readOf(what, s)
    <3>1. <<what, c>> \in needed(evidence)
      BY <1>3, <2>1 DEF needed
    <3>2. <<what, c>> \in DOMAIN eval.seen
      BY <3>1 DEF DriftInv, StepsInv
    <3>3. \E s \in reported[c].all : eval.seen[<<what, c>>] = readOf(what, s)
      BY <2>1, <3>2 DEF DriftInv, SeenInv
    <3> QED BY <1>1, <3>3 DEF seen
  <2> QED BY <2>1, <2>2
<1>4. ASSUME NEW c, isFresh(evidence, c), NEW what \in Tables
      PROVE  \E s : WellFormed(s) /\ seen(evidence, what, c) = readOf(what, s)
  <2>1. c \in Clusters
    BY <1>3, <1>4
  <2>2. PICK s \in reported[c].all : seen(evidence, what, c) = readOf(what, s)
    BY <1>3, <1>4
  <2>3. Kept(reported[c], snapshot[c])
    BY <2>1 DEF DriftInv, TablesInv
  <2>4. WellFormed(s)
    BY <2>3, Reports DEF Kept
  <2> QED BY <2>2, <2>4
<1>5. Good(evidence)
  BY <1>2, <1>4 DEF Good
<1>6. \A c \in listed(evidence) : c \in Clusters /\ tenantOf[c] = eval.tenant
  <2>1. \A i \in DOMAIN eval.rows : eval.rows[i] \in Row /\ tenantOf[eval.rows[i].cluster] = eval.tenant
    BY DEF DriftInv, RowsInv
  <2>2. \A r \in Row : r.cluster \in Clusters
    BY DEF Row
  <2> QED BY <1>1, <2>1, <2>2 DEF listed
<1>7. eval.results = evaluated(evidence)
  BY DEF DriftInv, StepsInv
<1> QED BY <1>3, <1>5, <1>6, <1>7

(* The values of a function on a finite set are finitely many.             *)
LEMMA FiniteImage ==
  ASSUME NEW S, IsFiniteSet(S), NEW f
  PROVE  IsFiniteSet({f[x] : x \in S})
<1> DEFINE T == {f[x] : x \in S}
           g == [x \in S |-> f[x]]
<1>1. g \in [S -> T] /\ \A t \in T : \E x \in S : g[x] = t
  OBVIOUS
<1> HIDE DEF T, g
<1>2. g \in Surjection(S, T)
  BY <1>1 DEF Surjection
<1>3. IsFiniteSet(T)
  BY <1>2, FS_Surjection
<1> QED BY <1>3 DEF T

(* Whatever was reported, the namespaces in use are finitely many.         *)
LEMMA NamespacesListed ==
  ASSUME NEW s, WellFormed(s)
  PROVE  ListNamespaces(s) \in SUBSET Nat /\ IsFiniteSet(ListNamespaces(s))
<1> DEFINE x == s.workloads \cup s.pods
           f == [n \in s.namespaces |-> n.name]
           g == [w \in x |-> w.namespace]
           A == {f[n] : n \in s.namespaces}
           B == {g[w] : w \in x}
           C == s.others
<1>1. /\ s.namespaces \in SUBSET Namespace /\ s.workloads \in SUBSET Workload /\ s.pods \in SUBSET Pod
      /\ IsFiniteSet(s.namespaces) /\ IsFiniteSet(s.workloads) /\ IsFiniteSet(s.pods)
      /\ C \in SUBSET Nat /\ IsFiniteSet(C)
  BY DEF WellFormed, Snapshot
<1>2. IsFiniteSet(x)
  BY <1>1, FS_Union
<1>3. ListNamespaces(s) = A \cup B \cup C
  BY DEF ListNamespaces
<1>4. A \in SUBSET Nat /\ B \in SUBSET Nat
  BY <1>1 DEF Namespace, Workload, Pod
<1> HIDE DEF x, f, g
<1>5. IsFiniteSet(A) /\ IsFiniteSet(B)
  BY <1>1, <1>2, FiniteImage
<1> HIDE DEF A, B, C
<1>6. IsFiniteSet(A \cup B)
  BY <1>5, FS_Union
<1>7. IsFiniteSet(A \cup B \cup C)
  BY <1>1, <1>6, FS_Union
<1> QED BY <1>1, <1>3, <1>4, <1>7

(* What was read of a fresh cluster.                                       *)
LEMMA SeenTypes ==
  ASSUME NEW e, Good(e), NEW c, isFresh(e, c)
  PROVE  /\ signature(seen(e, "namespaces", c)) \in Seq(Nat)
         /\ seen(e, "deployments", c) \in SUBSET Workload
         /\ \A v, w \in seen(e, "deployments", c) : v.namespace = w.namespace /\ v.name = w.name => v = w
         /\ seen(e, "pods", c) \in SUBSET Pod
         /\ seen(e, "configs", c) \in SUBSET Namespace
<1>1. \A what \in Tables : \E s : WellFormed(s) /\ seen(e, what, c) = readOf(what, s)
  BY DEF Good
<1>2. "namespaces" \in Tables /\ "deployments" \in Tables /\ "pods" \in Tables /\ "configs" \in Tables
  BY DEF Tables
<1>3. \A s : /\ readOf("namespaces", s) = ListNamespaces(s) /\ readOf("deployments", s) = s.workloads
              /\ readOf("pods", s) = s.pods /\ readOf("configs", s) = s.namespaces
  BY DEF readOf, ListDeployments, ListPods, ListNamespaceConfigs
<1>4. signature(seen(e, "namespaces", c)) \in Seq(Nat)
  <2>1. PICK s : WellFormed(s) /\ seen(e, "namespaces", c) = ListNamespaces(s)
    BY <1>1, <1>2, <1>3
  <2> DEFINE N == ListNamespaces(s)
  <2>2. N \in SUBSET Nat /\ IsFiniteSet(N)
    BY <2>1, NamespacesListed
  <2> HIDE DEF N
  <2>3. Cardinality(N) \in Nat /\ ordered(N) \in [1..Cardinality(N) -> N]
    BY <2>2, OrderedExists DEF Bijection, Injection
  <2>4. ordered(N) \in Seq(Nat)
    <3> DEFINE o == ordered(N)
               n == Cardinality(N)
    <3>1. n \in Nat /\ o \in [1..n -> N]
      BY <2>3
    <3> HIDE DEF o, n
    <3>2. o \in [1..n -> Nat]
      BY <2>2, <3>1
    <3>3. o \in Seq(Nat)
      BY <3>1, <3>2
    <3> QED BY <3>3 DEF o
  <2> QED BY <2>1, <2>4 DEF N, signature
<1>5. /\ seen(e, "deployments", c) \in SUBSET Workload
      /\ \A v, w \in seen(e, "deployments", c) : v.namespace = w.namespace /\ v.name = w.name => v = w
  <2>1. PICK s : WellFormed(s) /\ seen(e, "deployments", c) = s.workloads
    BY <1>1, <1>2, <1>3
  <2> QED BY <2>1 DEF WellFormed, Snapshot
<1>6. seen(e, "pods", c) \in SUBSET Pod
  <2>1. PICK s : WellFormed(s) /\ seen(e, "pods", c) = s.pods
    BY <1>1, <1>2, <1>3
  <2> QED BY <2>1 DEF WellFormed, Snapshot
<1>7. seen(e, "configs", c) \in SUBSET Namespace
  <2>1. PICK s : WellFormed(s) /\ seen(e, "configs", c) = s.namespaces
    BY <1>1, <1>2, <1>3
  <2> QED BY <2>1 DEF WellFormed, Snapshot
<1> QED BY <1>4, <1>5, <1>6, <1>7

(* Every result has a policy, a cluster, a subject and a status.           *)
LEMMA ResultsTyped ==
  ASSUME NEW e, Good(e), listed(e) \subseteq Clusters
  PROVE  evaluated(e) \subseteq Result
<1> SUFFICES ASSUME NEW r \in evaluated(e) PROVE r \in Result
  OBVIOUS
<1>1. ASSUME NEW policy \in Policies, NEW c \in listed(e), NEW status \in Status
      PROVE  ForCluster(policy, c, status) \in Result
  <2>1. ClusterSubject \in Subject
    BY DEF ClusterSubject, Subject
  <2> QED BY <2>1 DEF ForCluster, Result
<1>2. ASSUME NEW policy \in Policies, NEW c \in listed(e), NEW kind \in {"Deployment", "Pod", "Namespace"},
             NEW namespace \in Nat, NEW name \in Nat, NEW status \in Status
      PROVE  ForItem(policy, c, kind, namespace, name, status) \in Result
  <2>1. SubjectOf(kind, namespace, name) \in Subject
    BY DEF SubjectOf, Subject
  <2> QED BY <2>1 DEF ForItem, Result
<1>3. \A a, b : compared(a, b) \in Status
  BY DEF compared, Status
<1>4. {"stale", "unknown", "pass", "fail"} \subseteq Status
  BY DEF Status
<1>5. {"versions", "labels", "namespaces", "drift", "availability", "pods", "enforcement"} \subseteq Policies
  BY DEF Policies
<1>6. CASE r \in evaluateVersions(e)
  <2>1. PICK c \in listed(e) :
          r = ForCluster("versions", c, IF isFresh(e, c)
                 THEN compared(versionLine(rowOf(e, c).version), versionBaseline(e)) ELSE "stale")
    BY <1>6, WholeResults
  <2> QED BY <1>1, <1>3, <1>4, <1>5, <2>1
<1>7. CASE r \in evaluateLabels(e)
  <2>1. PICK c \in listed(e) :
          r = ForCluster("labels", c, IF isFresh(e, c)
                 THEN IF rowOf(e, c).labelled THEN "pass" ELSE "fail" ELSE "stale")
    BY <1>7, WholeResults
  <2> DEFINE status == IF isFresh(e, c) THEN IF rowOf(e, c).labelled THEN "pass" ELSE "fail" ELSE "stale"
  <2>2. status \in Status
    BY <1>4
  <2> HIDE DEF status
  <2>3. ForCluster("labels", c, status) \in Result
    BY <1>1, <1>5, <2>2
  <2> QED BY <2>1, <2>3 DEF status
<1>8. CASE r \in evaluateNamespaces(e)
  <2>1. PICK c \in listed(e) :
          r = ForCluster("namespaces", c, IF isFresh(e, c)
                 THEN compared(signature(seen(e, "namespaces", c)), namespaceBaseline(e)) ELSE "stale")
    BY <1>8, WholeResults
  <2> QED BY <1>1, <1>3, <1>4, <1>5, <2>1
<1>9. CASE r \in evaluateWorkloads(e)
  <2>1. PICK c \in listed(e) :
          \/ \E policy \in {"drift", "availability"}, status \in {"stale", "unknown"} :
                r = ForCluster(policy, c, status)
          \/ isFresh(e, c) /\ \E w \in seen(e, "deployments", c) :
                \/ r = ForItem("drift", c, "Deployment", w.namespace, w.name, driftOf(e, w))
                \/ r = ForItem("availability", c, "Deployment", w.namespace, w.name, availabilityOf(w))
    BY <1>9, ItemResults
  <2>2. CASE \E policy \in {"drift", "availability"}, status \in {"stale", "unknown"} :
               r = ForCluster(policy, c, status)
    BY <1>1, <1>4, <1>5, <2>2
  <2>3. ASSUME isFresh(e, c), NEW w \in seen(e, "deployments", c),
               \/ r = ForItem("drift", c, "Deployment", w.namespace, w.name, driftOf(e, w))
               \/ r = ForItem("availability", c, "Deployment", w.namespace, w.name, availabilityOf(w))
        PROVE  r \in Result
    <3>1. w \in Workload
      BY <2>3, SeenTypes
    <3>2. w.namespace \in Nat /\ w.name \in Nat
      BY <3>1 DEF Workload
    <3>3. driftOf(e, w) \in Status
      BY <1>3, <1>4 DEF driftOf
    <3>4. availabilityOf(w) \in Status
      BY <1>4 DEF availabilityOf
    <3> QED BY <1>2, <1>5, <2>3, <3>2, <3>3, <3>4
  <2> QED BY <2>1, <2>2, <2>3
<1>10. CASE r \in evaluateSecurity(e)
  <2>1. PICK c \in listed(e) :
          \/ \E policy \in {"pods", "enforcement"}, status \in {"stale", "unknown"} :
                r = ForCluster(policy, c, status)
          \/ isFresh(e, c) /\ \E p \in seen(e, "pods", c) :
                r = ForItem("pods", c, "Pod", p.namespace, p.name, podSecurity(p))
          \/ isFresh(e, c) /\ \E n \in seen(e, "configs", c) :
                r = ForItem("enforcement", c, "Namespace", n.name, n.name, namespaceSecurity(n))
    BY <1>10, ItemResults
  <2>2. CASE \E policy \in {"pods", "enforcement"}, status \in {"stale", "unknown"} :
               r = ForCluster(policy, c, status)
    BY <1>1, <1>4, <1>5, <2>2
  <2>3. ASSUME isFresh(e, c), NEW p \in seen(e, "pods", c),
               r = ForItem("pods", c, "Pod", p.namespace, p.name, podSecurity(p))
        PROVE  r \in Result
    <3>1. p \in Pod
      BY <2>3, SeenTypes
    <3>2. p.namespace \in Nat /\ p.name \in Nat
      BY <3>1 DEF Pod
    <3>3. podSecurity(p) \in Status
      BY <1>4 DEF podSecurity
    <3> QED BY <1>2, <1>5, <2>3, <3>2, <3>3
  <2>4. ASSUME isFresh(e, c), NEW n \in seen(e, "configs", c),
               r = ForItem("enforcement", c, "Namespace", n.name, n.name, namespaceSecurity(n))
        PROVE  r \in Result
    <3>1. n \in Namespace
      BY <2>4, SeenTypes
    <3>2. n.name \in Nat
      BY <3>1 DEF Namespace
    <3>3. namespaceSecurity(n) \in Status
      BY <1>4 DEF namespaceSecurity
    <3> QED BY <1>2, <1>5, <2>4, <3>2, <3>3
  <2> QED BY <2>1, <2>2, <2>3, <2>4
<1> QED BY <1>6, <1>7, <1>8, <1>9, <1>10 DEF evaluated

(* The tables, the reads and the results have their types: no result is    *)
(* without a status (podSecurityViolations, evaluateWorkloads).            *)
THEOREM TypeCorrect == Spec => []TypeOK
<1>1. ASSUME DriftInv PROVE TypeOK
  <2>1. eval.results \subseteq Result
    <3>1. CASE eval.pc = "done"
      <4>1. Good(evidence) /\ listed(evidence) \subseteq Clusters /\ eval.results = evaluated(evidence)
        BY <1>1, <3>1, EvidenceIsGood
      <4> QED BY <4>1, ResultsTyped
    <3>2. CASE eval.pc # "done"
      BY <1>1, <3>2 DEF DriftInv, StepsInv
    <3> QED BY <3>1, <3>2
  <2>2. /\ registered \in Seq(Clusters)
        /\ tenantOf \in [Clusters -> Tenants \cup {NoTenant}]
        /\ heartbeat \in [Clusters -> 0..Never]
        /\ snapshot \in [Clusters -> Snapshot]
        /\ eval.pc \in {"idle", "clock", "read", "done"}
    BY <1>1 DEF DriftInv, RegistryInv, TablesInv, StepsInv
  <2>3. eval.todo \in Seq(Tables \X Clusters)
    BY <1>1 DEF DriftInv, StepsInv
  <2> DEFINE todo == eval.todo
             K == Tables \X Clusters
  <2> HIDE DEF todo, K
  <2>4. todo \in Seq(K)
    BY <2>3 DEF todo, K
  <2>5. \A i \in DOMAIN todo : todo[i] \in K
    BY <2>4
  <2> QED BY <2>1, <2>2, <2>5 DEF TypeOK, todo, K
<1> QED BY <1>1, DriftInductive, PTL

(* What a verdict of a policy says.                                        *)
Verdict(e, r) ==
    \/ r.policy = "versions" /\ r.status = compared(versionLine(rowOf(e, r.cluster).version), versionBaseline(e))
    \/ r.policy = "labels"
    \/ /\ r.policy = "namespaces"
       /\ r.status = compared(signature(seen(e, "namespaces", r.cluster)), namespaceBaseline(e))
    \/ r.policy = "drift" /\ \E w \in seen(e, "deployments", r.cluster) :
          w.namespace = r.subject.namespace /\ w.name = r.subject.name /\ r.status = driftOf(e, w)
    \/ r.policy = "availability" /\ \E w \in seen(e, "deployments", r.cluster) :
          w.namespace = r.subject.namespace /\ w.name = r.subject.name
    \/ r.policy = "pods" /\ \E p \in seen(e, "pods", r.cluster) :
          p.namespace = r.subject.namespace /\ p.name = r.subject.name /\ r.status = podSecurity(p)
    \/ r.policy = "enforcement" /\ \E n \in seen(e, "configs", r.cluster) : n.name = r.subject.name

(* Only fresh clusters get verdicts.                                       *)
LEMMA Verdicts ==
  ASSUME NEW e, NEW r \in evaluated(e), r.status \in {"pass", "fail"}
  PROVE  r.cluster \in listed(e) /\ isFresh(e, r.cluster) /\ Verdict(e, r)
<1>1. \A policy, c, status : /\ ForCluster(policy, c, status).policy = policy
                             /\ ForCluster(policy, c, status).cluster = c
                             /\ ForCluster(policy, c, status).status = status
  BY DEF ForCluster
<1>2. \A policy, c, kind, namespace, name, status :
         /\ ForItem(policy, c, kind, namespace, name, status).policy = policy
         /\ ForItem(policy, c, kind, namespace, name, status).cluster = c
         /\ ForItem(policy, c, kind, namespace, name, status).subject.namespace = namespace
         /\ ForItem(policy, c, kind, namespace, name, status).subject.name = name
         /\ ForItem(policy, c, kind, namespace, name, status).status = status
  BY DEF ForItem, SubjectOf
<1>3. CASE r \in evaluateVersions(e)
  <2>1. PICK c \in listed(e) :
          r = ForCluster("versions", c, IF isFresh(e, c)
                 THEN compared(versionLine(rowOf(e, c).version), versionBaseline(e)) ELSE "stale")
    BY <1>3, WholeResults
  <2> QED BY <1>1, <2>1 DEF Verdict
<1>4. CASE r \in evaluateLabels(e)
  <2>1. PICK c \in listed(e) :
          r = ForCluster("labels", c, IF isFresh(e, c)
                 THEN IF rowOf(e, c).labelled THEN "pass" ELSE "fail" ELSE "stale")
    BY <1>4, WholeResults
  <2> QED BY <1>1, <2>1 DEF Verdict
<1>5. CASE r \in evaluateNamespaces(e)
  <2>1. PICK c \in listed(e) :
          r = ForCluster("namespaces", c, IF isFresh(e, c)
                 THEN compared(signature(seen(e, "namespaces", c)), namespaceBaseline(e)) ELSE "stale")
    BY <1>5, WholeResults
  <2> QED BY <1>1, <2>1 DEF Verdict
<1>6. CASE r \in evaluateWorkloads(e)
  <2>1. PICK c \in listed(e) :
          \/ \E policy \in {"drift", "availability"}, status \in {"stale", "unknown"} :
                r = ForCluster(policy, c, status)
          \/ isFresh(e, c) /\ \E w \in seen(e, "deployments", c) :
                \/ r = ForItem("drift", c, "Deployment", w.namespace, w.name, driftOf(e, w))
                \/ r = ForItem("availability", c, "Deployment", w.namespace, w.name, availabilityOf(w))
    BY <1>6, ItemResults
  <2>2. PICK w \in seen(e, "deployments", c) :
          \/ r = ForItem("drift", c, "Deployment", w.namespace, w.name, driftOf(e, w))
          \/ r = ForItem("availability", c, "Deployment", w.namespace, w.name, availabilityOf(w))
    BY <1>1, <2>1
  <2>3. isFresh(e, c)
    BY <1>1, <2>1
  <2> QED BY <1>2, <2>2, <2>3 DEF Verdict
<1>7. CASE r \in evaluateSecurity(e)
  <2>1. PICK c \in listed(e) :
          \/ \E policy \in {"pods", "enforcement"}, status \in {"stale", "unknown"} :
                r = ForCluster(policy, c, status)
          \/ isFresh(e, c) /\ \E p \in seen(e, "pods", c) :
                r = ForItem("pods", c, "Pod", p.namespace, p.name, podSecurity(p))
          \/ isFresh(e, c) /\ \E n \in seen(e, "configs", c) :
                r = ForItem("enforcement", c, "Namespace", n.name, n.name, namespaceSecurity(n))
    BY <1>7, ItemResults
  <2>2. isFresh(e, c)
    BY <1>1, <2>1
  <2>3. \/ \E p \in seen(e, "pods", c) :
              r = ForItem("pods", c, "Pod", p.namespace, p.name, podSecurity(p))
        \/ \E n \in seen(e, "configs", c) :
              r = ForItem("enforcement", c, "Namespace", n.name, n.name, namespaceSecurity(n))
    BY <1>1, <2>1
  <2> QED BY <1>2, <2>2, <2>3 DEF Verdict
<1> QED BY <1>3, <1>4, <1>5, <1>6, <1>7 DEF evaluated

(* No verdict rests on evidence older than the evaluation and the report   *)
(* before it (ReplaceSnapshot).                                            *)
THEOREM VerdictsReported == Spec => []VerdictsAreReported
<1>1. ASSUME DriftInv PROVE VerdictsAreReported
  <2> SUFFICES ASSUME eval.pc = "done", NEW r \in eval.results, r.status \in {"pass", "fail"}
               PROVE  LET all == reported[r.cluster].all
                      IN  /\ r.policy \in {"drift", "availability"} =>
                                \E s \in all : \E w \in s.workloads : nameOf(w) = <<r.subject.namespace, r.subject.name>>
                          /\ r.policy = "pods" =>
                                \E s \in all : \E p \in s.pods : nameOf(p) = <<r.subject.namespace, r.subject.name>> /\ p.known
                          /\ r.policy = "enforcement" =>
                                \E s \in all : \E n \in s.namespaces : n.name = r.subject.name
    BY DEF VerdictsAreReported, done, verdicts
  <2> DEFINE c == r.cluster
             all == reported[c].all
  <2>1. isFresh(evidence, c) /\ Verdict(evidence, r)
    <3>1. r \in evaluated(evidence)
      BY <1>1, EvidenceIsGood
    <3> QED BY <3>1, Verdicts
  <2>2. \A what \in Tables : \E s \in all : seen(evidence, what, c) = readOf(what, s)
    BY <1>1, <2>1, EvidenceIsGood
  <2>3. "deployments" \in Tables /\ "pods" \in Tables /\ "configs" \in Tables
    BY DEF Tables
  <2>4. \A s : /\ readOf("deployments", s) = s.workloads
               /\ readOf("pods", s) = s.pods
               /\ readOf("configs", s) = s.namespaces
    BY DEF readOf, ListDeployments, ListPods, ListNamespaceConfigs
  <2> HIDE DEF all
  <2>6. ASSUME r.policy \in {"drift", "availability"}
        PROVE  \E s \in all : \E w \in s.workloads : nameOf(w) = <<r.subject.namespace, r.subject.name>>
    <3>1. PICK w \in seen(evidence, "deployments", c) : w.namespace = r.subject.namespace /\ w.name = r.subject.name
      BY <2>1, <2>6 DEF Verdict
    <3>2. PICK s \in all : seen(evidence, "deployments", c) = s.workloads
      BY <2>2, <2>3, <2>4
    <3> QED BY <3>1, <3>2 DEF nameOf
  <2>7. ASSUME r.policy = "pods"
        PROVE  \E s \in all : \E p \in s.pods : nameOf(p) = <<r.subject.namespace, r.subject.name>> /\ p.known
    <3>1. PICK p \in seen(evidence, "pods", c) :
            p.namespace = r.subject.namespace /\ p.name = r.subject.name /\ r.status = podSecurity(p)
      BY <2>1, <2>7 DEF Verdict
    <3>2. PICK s \in all : seen(evidence, "pods", c) = s.pods
      BY <2>2, <2>3, <2>4
    <3>3. p.known
      BY <3>1 DEF podSecurity
    <3> QED BY <3>1, <3>2, <3>3 DEF nameOf
  <2>8. ASSUME r.policy = "enforcement"
        PROVE  \E s \in all : \E n \in s.namespaces : n.name = r.subject.name
    <3>1. PICK n \in seen(evidence, "configs", c) : n.name = r.subject.name
      BY <2>1, <2>8 DEF Verdict
    <3>2. PICK s \in all : seen(evidence, "configs", c) = s.namespaces
      BY <2>2, <2>3, <2>4
    <3> QED BY <3>1, <3>2
  <2> QED BY <2>6, <2>7, <2>8 DEF all
<1> QED BY <1>1, DriftInductive, PTL

(* The clusters a verdict may rest on are the fresh ones.                  *)
LEMMA FleetIsFresh ==
  ASSUME DriftInv, eval.pc = "done"
  PROVE  \A c : c \in fleet <=> isFresh(evidence, c)
BY EvidenceIsGood DEF fleet

(* The row of a fresh cluster.                                             *)
LEMMA RowOfFresh ==
  ASSUME NEW e, RowsOK(e), NEW i \in DOMAIN freshRows(e)
  PROVE  rowOf(e, freshRows(e)[i].cluster) = freshRows(e)[i]
<1> DEFINE c == freshRows(e)[i].cluster
           rows == e.rows
           k == CHOOSE j \in DOMAIN rows : rows[j].cluster = c
<1>1. PICK j \in DOMAIN rows : freshRows(e)[i] = rows[j]
  BY FreshRows
<1>2. \A a, b \in DOMAIN rows : rows[a].cluster = rows[b].cluster => a = b
  BY DEF RowsOK
<1>3. rowOf(e, c) = rows[k]
  BY DEF rowOf
<1>4. rows[j].cluster = c
  BY <1>1
<1> HIDE DEF rows, c
<1>5. k \in DOMAIN rows /\ rows[k].cluster = c
  BY <1>4
<1> HIDE DEF k
<1>6. k = j
  BY <1>2, <1>4, <1>5
<1> QED BY <1>1, <1>3, <1>6 DEF c

(* The fresh rows list the fleet: values taken from them one by one are    *)
(* the values of its clusters.                                             *)
LEMMA FreshLists ==
  ASSUME NEW e, RowsOK(e), NEW S, \A c : c \in S <=> isFresh(e, c), NEW g \in [S -> Seq(Nat)],
         NEW values, values = [i \in DOMAIN freshRows(e) |-> g[freshRows(e)[i].cluster]]
  PROVE  \E n, key : Lists(values, n, key, S, g)
<1> DEFINE rows == freshRows(e)
           n == Len(rows)
           key == [i \in 1..n |-> rows[i].cluster]
<1>1. /\ rows \in Seq(Row)
      /\ \A i, j \in DOMAIN rows : rows[i].cluster = rows[j].cluster => i = j
      /\ \A c \in S : \E i \in DOMAIN rows : rows[i].cluster = c
      /\ \A i \in DOMAIN rows : rows[i].cluster \in S
      /\ values = [i \in DOMAIN rows |-> g[rows[i].cluster]]
  BY FreshRows DEF isFresh
<1> HIDE DEF rows
<1>2. n \in Nat /\ DOMAIN rows = 1..n
  BY <1>1
<1> HIDE DEF n
<1>3. key \in [1..n -> S]
  BY <1>1, <1>2
<1>4. \A i \in 1..n : key[i] = rows[i].cluster
  OBVIOUS
<1> HIDE DEF key
<1>5. \A i, j \in 1..n : key[i] = key[j] => i = j
  BY <1>1, <1>2, <1>4
<1>6. \A c \in S : \E i \in 1..n : key[i] = c
  BY <1>1, <1>2, <1>4, SMTT(20)
<1>7. values = [i \in 1..n |-> g[key[i]]]
  BY <1>1, <1>2, <1>4
<1>8. Lists(values, n, key, S, g)
  BY <1>2, <1>3, <1>5, <1>6, <1>7 DEF Lists
<1> QED BY <1>8

(* A version line is a string.                                             *)
LEMMA VersionLine ==
  ASSUME NEW v \in Seq(Nat)
  PROVE  versionLine(v) \in Seq(Nat)
<1>1. CASE Len(v) < 2
  BY <1>1 DEF versionLine
<1>2. CASE ~(Len(v) < 2)
  <2>1. Len(v) \in Nat
    OBVIOUS
  <2>2. SubSeq(v, 1, 2) \in Seq(Nat)
    BY <1>2, <2>1
  <2> QED BY <1>2, <2>2 DEF versionLine
<1> QED BY <1>1, <1>2

(* hashesOf, for what was read of a cluster.                               *)
Hashes(e, c, namespace, name) ==
    {v.hash : v \in {v \in seen(e, "deployments", c) : v.namespace = namespace /\ v.name = name}}

(* A member of a set of hashes, <<>> if it has none.                       *)
OneOf(H) == IF H = {} THEN <<>> ELSE CHOOSE h \in H : TRUE

(* The only hash that a cluster has reported for a deployment.             *)
LEMMA HashReported ==
  ASSUME NEW e, Good(e), NEW c, isFresh(e, c), NEW w, NEW namespace, NEW name,
         w.namespace = namespace, w.name = name, NEW H, H = Hashes(e, c, namespace, name)
  PROVE  /\ hashIn(e, c, w) \in Seq(Nat)
         /\ hashIn(e, c, w) = OneOf(H)
         /\ hashIn(e, c, w) # <<>> => H \ {<<>>} # {}
         /\ \A v \in seen(e, "deployments", c) :
               v.namespace = namespace /\ v.name = name => hashIn(e, c, w) = v.hash
<1> DEFINE all == seen(e, "deployments", c)
           same == {v \in all : v.namespace = namespace /\ v.name = name}
<1>1. /\ all \in SUBSET Workload
      /\ \A u, v \in all : u.namespace = v.namespace /\ u.name = v.name => u = v
  BY SeenTypes
<1>2. hashIn(e, c, w) = IF same = {} THEN <<>> ELSE (CHOOSE v \in same : TRUE).hash
  BY DEF hashIn
<1>3. H = {v.hash : v \in same}
  BY DEF Hashes
<1>4. \A u, v \in same : u = v
  BY <1>1
<1>5. \A v \in same : v.hash \in Seq(Nat)
  BY <1>1 DEF Workload
<1>6. \A v \in all : v.namespace = namespace /\ v.name = name => v \in same
  OBVIOUS
<1> HIDE DEF same, all
<1>7. CASE same = {}
  <2>1. hashIn(e, c, w) = <<>> /\ H = {}
    BY <1>2, <1>3, <1>7
  <2> QED BY <1>6, <1>7, <2>1 DEF all, OneOf
<1>8. ASSUME NEW v \in same
      PROVE  /\ hashIn(e, c, w) \in Seq(Nat)
             /\ hashIn(e, c, w) = OneOf(H)
             /\ hashIn(e, c, w) # <<>> => H \ {<<>>} # {}
             /\ \A u \in all : u.namespace = namespace /\ u.name = name => hashIn(e, c, w) = u.hash
  <2>1. (CHOOSE u \in same : TRUE) \in same
    OBVIOUS
  <2>2. hashIn(e, c, w) = v.hash
    BY <1>2, <1>4, <2>1
  <2>3. H = {v.hash}
    BY <1>3, <1>4
  <2>4. (CHOOSE h \in {v.hash} : TRUE) = v.hash
    OBVIOUS
  <2>5. OneOf(H) = v.hash
    BY <2>3, <2>4 DEF OneOf
  <2> QED BY <1>4, <1>5, <1>6, <2>2, <2>3, <2>5
<1> QED BY <1>7, <1>8 DEF all

(* A verdict on a deployment has two clusters with hashes to compare.      *)
LEMMA DriftVerdict ==
  ASSUME NEW e, RowsOK(e), NEW w, driftOf(e, w) \in {"pass", "fail"}
  PROVE  /\ w.hash # <<>> /\ mode(hashes(e, w)) # <<>>
         /\ driftOf(e, w) = "pass" <=> w.hash = mode(hashes(e, w))
         /\ \A i \in DOMAIN freshRows(e) : \E j \in DOMAIN freshRows(e) : j # i /\ hashes(e, w)[j] # <<>>
<1> DEFINE P == peers(e, w)
           D == DOMAIN freshRows(e)
<1>1. /\ ~(Cardinality(P) < 2)
      /\ driftOf(e, w) = compared(w.hash, mode(hashes(e, w)))
  BY DEF driftOf
<1>2. /\ w.hash # <<>> /\ mode(hashes(e, w)) # <<>>
      /\ driftOf(e, w) = "pass" <=> w.hash = mode(hashes(e, w))
  BY <1>1 DEF compared
<1>3. P \in SUBSET D /\ \A j \in P : hashes(e, w)[j] # <<>>
  BY DEF peers
<1> HIDE DEF P, D
<1>4. ASSUME NEW i \in D PROVE \E j \in D : j # i /\ hashes(e, w)[j] # <<>>
  <2> SUFFICES ASSUME P \subseteq {i} PROVE FALSE
    BY <1>3
  <2>1. IsFiniteSet({i}) /\ Cardinality({i}) = 1
    BY FS_Singleton
  <2>2. Cardinality(P) <= 1 /\ Cardinality(P) \in Nat
    BY <2>1, FS_Subset, FS_CardinalityType
  <2> QED BY <1>1, <2>2
<1> QED BY <1>2, <1>4 DEF D

(* A deployment is judged only by its peers: another fresh cluster of the  *)
(* tenant has reported a hash for it (evaluateWorkloads).                  *)
THEOREM PeersNeeded == Spec => []DriftNeedsPeer
<1>1. ASSUME DriftInv PROVE DriftNeedsPeer
  <2> SUFFICES ASSUME eval.pc = "done", NEW r \in eval.results, r.status \in {"pass", "fail"},
                      r.policy = "drift"
               PROVE  \E c \in fleet \ {r.cluster} :
                          hashesOf(seen(evidence, "deployments", c), r.subject) \ {<<>>} # {}
    BY DEF DriftNeedsPeer, done, verdicts
  <2> DEFINE e == evidence
             rows == freshRows(e)
  <2>1. Good(e) /\ RowsOK(e) /\ r \in evaluated(e)
    BY <1>1, EvidenceIsGood DEF Good
  <2>2. isFresh(e, r.cluster) /\ Verdict(e, r)
    BY <2>1, Verdicts
  <2>3. PICK w \in seen(e, "deployments", r.cluster) :
          w.namespace = r.subject.namespace /\ w.name = r.subject.name /\ r.status = driftOf(e, w)
    BY <2>2 DEF Verdict
  <2>4. PICK i \in DOMAIN rows : rows[i].cluster = r.cluster
    BY <2>2 DEF isFresh
  <2>5. PICK j \in DOMAIN rows : j # i /\ hashes(e, w)[j] # <<>>
    BY <2>1, <2>3, DriftVerdict
  <2> DEFINE c == rows[j].cluster
  <2>6. c # r.cluster
    BY <2>1, <2>4, <2>5, FreshRows
  <2>7. isFresh(e, c)
    BY DEF isFresh
  <2>8. c \in fleet
    BY <1>1, <2>7, FleetIsFresh
  <2>9. hashIn(e, c, w) # <<>>
    BY <2>5 DEF hashes
  <2> DEFINE H == hashesOf(seen(e, "deployments", c), r.subject)
  <2>10. H = Hashes(e, c, r.subject.namespace, r.subject.name)
    BY DEF hashesOf, Hashes
  <2> HIDE DEF c, e, H
  <2>11. H \ {<<>>} # {}
    BY <2>1, <2>3, <2>7, <2>9, <2>10, HashReported
  <2> QED BY <2>6, <2>8, <2>11 DEF H, e
<1> QED BY <1>1, DriftInductive, PTL

(* The values are those that g has for the fleet S, from the fresh rows.   *)
OfFleet(values, e, S, g) ==
    /\ \A c : c \in S <=> isFresh(e, c)
    /\ g \in [S -> Seq(Nat)]
    /\ values = [i \in DOMAIN freshRows(e) |-> g[freshRows(e)[i].cluster]]

(* A cluster with a value agrees with the mode of all of them if and only  *)
(* if it has the baseline.                                                 *)
LEMMA ModeOfFleet ==
  ASSUME NEW e, RowsOK(e), NEW S, NEW g, NEW values, OfFleet(values, e, S, g),
         NEW c \in S, compared(g[c], mode(values)) \in {"pass", "fail"}
  PROVE  compared(g[c], mode(values)) = "pass" <=> Baseline(g[c], S, g)
<1>1. PICK n, key : Lists(values, n, key, S, g)
  BY FreshLists DEF OfFleet
<1>2. /\ g[c] # <<>> /\ mode(values) # <<>>
      /\ compared(g[c], mode(values)) = "pass" <=> g[c] = mode(values)
  BY DEF compared
<1>3. g[c] = mode(values) <=> Baseline(g[c], S, g)
  BY <1>1, <1>2, ModeIsBaseline
<1> QED BY <1>2, <1>3

(* The namespaces read of a cluster, joined, and the hash read of it for a *)
(* deployment.                                                             *)
SetSeen(c) == signature(seen(evidence, "namespaces", c))
HashSeen(c, subject) == hashOf(seen(evidence, "deployments", c), subject)

(* A cluster passes if and only if it has the most common of the values    *)
(* that were read of the fresh clusters (mode).                            *)
LEMMA PassIsModeSeen ==
  ASSUME DriftInv, eval.pc = "done", NEW r \in eval.results, r.status \in {"pass", "fail"}
  PROVE  /\ r.cluster \in fleet
         /\ r.policy = "versions" =>
               (r.status = "pass" <=> IsBaseline(lineOf(r.cluster), fleet, lineOf))
         /\ r.policy = "namespaces" =>
               (r.status = "pass" <=> IsBaseline(SetSeen(r.cluster), fleet, SetSeen))
         /\ r.policy = "drift" =>
               LET hash(c) == HashSeen(c, r.subject)
               IN  r.status = "pass" <=> IsBaseline(hash(r.cluster), fleet, hash)
<1> DEFINE e == evidence
           rows == freshRows(e)
           v == r.cluster
           S == fleet
<1>1. Good(e) /\ RowsOK(e) /\ r \in evaluated(e)
  BY EvidenceIsGood DEF Good
<1>2. isFresh(e, v) /\ Verdict(e, r)
  BY <1>1, Verdicts
<1>3. \A c : c \in S <=> isFresh(e, c)
  BY FleetIsFresh
<1>4. v \in S
  BY <1>2, <1>3
<1>5. /\ rows \in Seq(Row)
      /\ \A i \in DOMAIN rows : rows[i].cluster \in S
      /\ \A c \in S : \E i \in DOMAIN rows : rows[i].cluster = c
  BY <1>1, <1>3, FreshRows DEF isFresh
<1>6. \A i \in DOMAIN rows : rowOf(e, rows[i].cluster) = rows[i]
  BY <1>1, RowOfFresh
<1>7. ASSUME r.policy = "versions"
      PROVE  r.status = "pass" <=> IsBaseline(lineOf(v), S, lineOf)
  <2> DEFINE g == [c \in S |-> lineOf(c)]
             values == [i \in DOMAIN rows |-> g[rows[i].cluster]]
  <2>1. \A c \in S : g[c] = lineOf(c) /\ lineOf(c) = versionLine(rowOf(e, c).version)
    BY DEF lineOf
  <2>2. \A c \in S : lineOf(c) \in Seq(Nat)
    <3> TAKE c \in S
    <3>1. PICK i \in DOMAIN rows : rows[i].cluster = c
      BY <1>5
    <3>2. rowOf(e, c) = rows[i] /\ rows[i] \in Row
      BY <1>5, <1>6, <3>1
    <3>3. rowOf(e, c).version \in Seq(Nat)
      BY <3>2 DEF Row
    <3> QED BY <2>1, <3>3, VersionLine
  <2>3. g \in [S -> Seq(Nat)]
    BY <2>2
  <2>4. values = [i \in DOMAIN rows |-> versionLine(rows[i].version)]
    BY <1>5, <1>6, <2>1
  <2>5. versionBaseline(e) = mode(values)
    BY <2>4 DEF versionBaseline
  <2>6. r.status = compared(g[v], mode(values))
    BY <1>2, <1>4, <1>7, <2>1, <2>5 DEF Verdict
  <2>7. IsBaseline(lineOf(v), S, lineOf) <=> Baseline(g[v], S, g)
    <3>1. \A x : {c \in S : lineOf(c) = x} = {c \in S : g[c] = x}
      BY <2>1
    <3> HIDE DEF g, S
    <3> QED BY <1>4, <2>1, <3>1 DEF IsBaseline, Baseline, Votes
  <2>8. OfFleet(values, e, S, g)
    BY <1>3, <2>3 DEF OfFleet
  <2> HIDE DEF g, S, e, values
  <2>9. compared(g[v], mode(values)) = "pass" <=> Baseline(g[v], S, g)
    BY <1>1, <1>4, <2>6, <2>8, ModeOfFleet
  <2> QED BY <2>6, <2>7, <2>9
<1>8. ASSUME r.policy = "namespaces"
      PROVE  r.status = "pass" <=> IsBaseline(SetSeen(v), S, SetSeen)
  <2> DEFINE g == [c \in S |-> SetSeen(c)]
             values == [i \in DOMAIN rows |-> g[rows[i].cluster]]
  <2>1. \A c \in S : g[c] = SetSeen(c) /\ SetSeen(c) = signature(seen(e, "namespaces", c))
    BY DEF SetSeen
  <2>2. \A c \in S : SetSeen(c) \in Seq(Nat)
    BY <1>1, <1>3, <2>1, SeenTypes
  <2>3. g \in [S -> Seq(Nat)]
    BY <2>2
  <2>4. values = [i \in DOMAIN rows |-> signature(seen(e, "namespaces", rows[i].cluster))]
    BY <1>5, <2>1
  <2>5. namespaceBaseline(e) = mode(values)
    BY <2>4 DEF namespaceBaseline
  <2>6. r.status = compared(g[v], mode(values))
    BY <1>2, <1>4, <1>8, <2>1, <2>5 DEF Verdict
  <2>7. IsBaseline(SetSeen(v), S, SetSeen) <=> Baseline(g[v], S, g)
    <3>1. \A x : {c \in S : SetSeen(c) = x} = {c \in S : g[c] = x}
      BY <2>1
    <3> HIDE DEF g, S
    <3> QED BY <1>4, <2>1, <3>1 DEF IsBaseline, Baseline, Votes
  <2>8. OfFleet(values, e, S, g)
    BY <1>3, <2>3 DEF OfFleet
  <2> HIDE DEF g, S, e, values
  <2>9. compared(g[v], mode(values)) = "pass" <=> Baseline(g[v], S, g)
    BY <1>1, <1>4, <2>6, <2>8, ModeOfFleet
  <2> QED BY <2>6, <2>7, <2>9
<1>9. ASSUME r.policy = "drift"
      PROVE  LET hash(c) == HashSeen(c, r.subject)
             IN  r.status = "pass" <=> IsBaseline(hash(v), S, hash)
  <2> DEFINE hash(c) == HashSeen(c, r.subject)
  <2>0. PICK w \in seen(e, "deployments", v) :
          w.namespace = r.subject.namespace /\ w.name = r.subject.name /\ r.status = driftOf(e, w)
    BY <1>2, <1>9 DEF Verdict
  <2> DEFINE g == [c \in S |-> hashIn(e, c, w)]
             values == [i \in DOMAIN rows |-> g[rows[i].cluster]]
  <2>1. ASSUME NEW c \in S
        PROVE  hashIn(e, c, w) \in Seq(Nat) /\ hash(c) = hashIn(e, c, w)
    <3> DEFINE H == hashesOf(seen(e, "deployments", c), r.subject)
    <3>1. H = Hashes(e, c, r.subject.namespace, r.subject.name)
      BY DEF hashesOf, Hashes
    <3>2. isFresh(e, c)
      BY <1>3
    <3> HIDE DEF H, e
    <3>3. hashIn(e, c, w) \in Seq(Nat) /\ hashIn(e, c, w) = OneOf(H)
      BY <1>1, <2>0, <3>1, <3>2, HashReported
    <3> QED BY <3>3 DEF H, OneOf, HashSeen, hashOf, e
  <2>2. hashIn(e, v, w) = w.hash
    <3> HIDE DEF e
    <3>1. \A u \in seen(e, "deployments", v) :
             u.namespace = r.subject.namespace /\ u.name = r.subject.name => hashIn(e, v, w) = u.hash
      BY <1>1, <1>2, <2>0, HashReported
    <3> QED BY <2>0, <3>1
  <2>3. g \in [S -> Seq(Nat)]
    BY <2>1
  <2>4. values = hashes(e, w)
    BY <1>5 DEF hashes
  <2>5. \A c \in S : g[c] = hash(c)
    BY <2>1
  <2>6. r.status = compared(g[v], mode(values))
    <3>1. r.status = compared(w.hash, mode(hashes(e, w)))
      BY <2>0 DEF driftOf
    <3> QED BY <1>4, <2>2, <2>4, <3>1
  <2> HIDE DEF hash
  <2>7. IsBaseline(hash(v), S, hash) <=> Baseline(g[v], S, g)
    <3>1. \A x : {c \in S : hash(c) = x} = {c \in S : g[c] = x}
      BY <2>5
    <3> HIDE DEF g, S
    <3> QED BY <1>4, <2>5, <3>1 DEF IsBaseline, Baseline, Votes
  <2>8. OfFleet(values, e, S, g)
    BY <1>3, <2>3 DEF OfFleet
  <2> HIDE DEF g, S, e, values
  <2>9. compared(g[v], mode(values)) = "pass" <=> Baseline(g[v], S, g)
    BY <1>1, <1>4, <2>6, <2>8, ModeOfFleet
  <2> QED BY <2>6, <2>7, <2>9 DEF hash, S
<1> QED BY <1>4, <1>7, <1>8, <1>9

(* All that was read by one of the reads is that of one report of each     *)
(* cluster, which the hub held since the evaluation began.                 *)
LEMMA ReadFromAView ==
  ASSUME DriftInv, eval.pc = "done", NEW what \in Tables
  PROVE  \E at \in Views : \A c \in fleet : seen(evidence, what, c) = readOf(what, at[c])
<1> DEFINE at == [c \in fleet |-> CHOOSE s \in reported[c].all : seen(evidence, what, c) = readOf(what, s)]
<1>1. ASSUME NEW c \in fleet
      PROVE  at[c] \in reported[c].all /\ seen(evidence, what, c) = readOf(what, at[c])
  <2>1. \E s \in reported[c].all : seen(evidence, what, c) = readOf(what, s)
    BY <1>1, EvidenceIsGood, FleetIsFresh
  <2> QED BY <2>1
<1>2. DOMAIN at = fleet /\ at = [c \in fleet |-> at[c]]
  OBVIOUS
<1> HIDE DEF at
<1>3. at \in [fleet -> UNION {reported[c].all : c \in fleet}]
  BY <1>1, <1>2
<1>4. at \in Views
  BY <1>1, <1>3 DEF Views
<1> QED BY <1>1, <1>4

(* A cluster passes if and only if it has the most common value of the     *)
(* clusters the engine takes for fresh, ties in lexical order, and all     *)
(* verdicts of a policy are those of one report of each cluster that the   *)
(* hub held during the evaluation (mode, evaluateVersions,                 *)
(* evaluateNamespaces, evaluateWorkloads).                                 *)
THEOREM PassesAreFleetMode == Spec => []PassIsFleetMode
<1>1. ASSUME DriftInv, eval.pc = "done" PROVE PassIsFleetMode
  <2> DEFINE S == fleet
  <2>1. \A r \in verdicts : r \in eval.results /\ r.status \in {"pass", "fail"}
    BY DEF verdicts
  <2>2. "namespaces" \in Tables /\ "deployments" \in Tables
    BY DEF Tables
  <2>3. \A s : readOf("namespaces", s) = ListNamespaces(s) /\ readOf("deployments", s) = s.workloads
    BY DEF readOf, ListDeployments
  <2>4. \A r \in verdicts :
          /\ r.cluster \in S
          /\ r.policy = "versions" => (r.status = "pass" <=> IsBaseline(lineOf(r.cluster), S, lineOf))
    BY <1>1, <2>1, PassIsModeSeen
  <2>5. \E at \in Views : \A r \in verdicts : r.policy = "namespaces" =>
           LET set(c) == setOf(at[c]) IN r.status = "pass" <=> IsBaseline(set(r.cluster), S, set)
    <3>1. PICK at \in Views : \A c \in S : seen(evidence, "namespaces", c) = readOf("namespaces", at[c])
      BY <1>1, <2>2, ReadFromAView
    <3> DEFINE set(c) == setOf(at[c])
    <3>2. \A c \in S : set(c) = SetSeen(c)
      BY <2>3, <3>1 DEF setOf, SetSeen
    <3> HIDE DEF set
    <3>3. \A x : {c \in S : set(c) = x} = {c \in S : SetSeen(c) = x}
      BY <3>2
    <3>4. ASSUME NEW r \in verdicts, r.policy = "namespaces"
          PROVE  r.status = "pass" <=> IsBaseline(set(r.cluster), S, set)
      <4>1. r.cluster \in S /\ (r.status = "pass" <=> IsBaseline(SetSeen(r.cluster), S, SetSeen))
        BY <1>1, <2>1, <3>4, PassIsModeSeen
      <4> HIDE DEF S
      <4>2. IsBaseline(set(r.cluster), S, set) <=> IsBaseline(SetSeen(r.cluster), S, SetSeen)
        BY <3>2, <3>3, <4>1 DEF IsBaseline
      <4> QED BY <4>1, <4>2
    <3> QED BY <3>1, <3>4 DEF set
  <2>6. \E at \in Views : \A r \in verdicts : r.policy = "drift" =>
           LET hash(c) == hashOf(at[c].workloads, r.subject)
           IN  r.status = "pass" <=> IsBaseline(hash(r.cluster), S, hash)
    <3>1. PICK at \in Views : \A c \in S : seen(evidence, "deployments", c) = readOf("deployments", at[c])
      BY <1>1, <2>2, ReadFromAView
    <3>2. ASSUME NEW r \in verdicts, r.policy = "drift"
          PROVE  LET hash(c) == hashOf(at[c].workloads, r.subject)
                 IN  r.status = "pass" <=> IsBaseline(hash(r.cluster), S, hash)
      <4> DEFINE hash(c) == hashOf(at[c].workloads, r.subject)
                 read1(c) == HashSeen(c, r.subject)
      <4>1. \A c \in S : hash(c) = read1(c)
        BY <2>3, <3>1 DEF HashSeen
      <4>2. r.cluster \in S /\ (r.status = "pass" <=> IsBaseline(read1(r.cluster), S, read1))
        BY <1>1, <2>1, <3>2, PassIsModeSeen
      <4> HIDE DEF hash, read1
      <4>3. \A x : {c \in S : hash(c) = x} = {c \in S : read1(c) = x}
        BY <4>1
      <4>4. IsBaseline(hash(r.cluster), S, hash) <=> IsBaseline(read1(r.cluster), S, read1)
        <5> HIDE DEF S
        <5> QED BY <4>1, <4>2, <4>3 DEF IsBaseline
      <4>5. r.status = "pass" <=> IsBaseline(hash(r.cluster), S, hash)
        BY <4>2, <4>4
      <4> QED BY <4>5 DEF hash
    <3> QED BY <3>1, <3>2
  <2> QED BY <2>4, <2>5, <2>6 DEF PassIsFleetMode
<1>2. ASSUME eval.pc # "done" PROVE PassIsFleetMode
  BY <1>2 DEF PassIsFleetMode, done
<1>3. DriftInv => PassIsFleetMode
  BY <1>1, <1>2
<1> QED BY <1>3, DriftInductive, PTL
=============================================================================
