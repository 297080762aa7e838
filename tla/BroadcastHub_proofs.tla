------------------------ MODULE BroadcastHub_proofs ------------------------
(***************************************************************************)
(* Theorems about BroadcastHub, for any number of clients, clusters and    *)
(* changes, and queues of any capacity.                                    *)
(***************************************************************************)
EXTENDS BroadcastHub, SequenceTheorems, FiniteSetTheorems, TLAPS

(* Between one update of w and the next there are only frames of connect.  *)
Gapless(w) ==
    \A i, j \in 1..Len(w) :
        i < j /\ w[i] > 0 /\ w[j] > 0 /\ (\A k \in (i + 1)..(j - 1) : ~(w[k] > 0))
            => w[j] = w[i] + 1

(* The last update of w, if there is one, is the n-th.                     *)
EndsWith(w, n) ==
    \A i \in 1..Len(w) :
        w[i] > 0 /\ (\A k \in (i + 1)..Len(w) : ~(w[k] > 0)) => w[i] = n

(* Number of the last update that has left the queue of Run.               *)
Passed == published - Len(broadcast)

(* What Run and connect have put in the queue of r, from the first frame.  *)
Queued(r) == r.received \o r.send

(* The clients u fit in the queue for removal.                             *)
UnregisterOK(u) ==
    /\ u \subseteq Clients
    /\ IsFiniteSet(u)
    /\ Cardinality(u) <= UnregisterQueue

(* The queue of Run holds the updates from Passed + 1 to published, and no *)
(* more updates are broadcast than there are changes.                      *)
HubInv ==
    /\ changes \in 0..MaxUpdates
    /\ unsent \in Nat
    /\ published \in Nat
    /\ published + unsent <= changes
    /\ broadcast \in Seq(Frame)
    /\ Len(broadcast) <= BroadcastQueue
    /\ Len(broadcast) <= published
    /\ \A i \in 1..Len(broadcast) : broadcast[i] = Passed + i
    /\ running \in BOOLEAN
    /\ members \subseteq Clients
    /\ UnregisterOK(unregister)

(* Client record r: its queue is closed at most once, and not before the   *)
(* client is registered; all that was ever queued is without a gap.        *)
ClientInv(r) ==
    /\ r \in Client
    /\ Len(r.send) <= Capacity
    /\ r.closes <= 1
    /\ r.pc \in {"idle", "register"} => r.closes = 0 /\ r.send = <<>> /\ r.received = <<>>
    /\ Gapless(Queued(r))

(* A client in the map of Run is registered, its queue is open, and what   *)
(* it has been sent ends where the queue of Run begins: n updates have     *)
(* left it.                                                                *)
MemberInv(r, n) ==
    /\ r.closes = 0
    /\ r.pc \notin {"idle", "register"}
    /\ EndsWith(Queued(r), n)

BroadcastInv ==
    /\ HubInv
    /\ client \in [Clients -> Client]
    /\ \A c \in Clients : ClientInv(client[c])
    /\ \A c \in members : MemberInv(client[c], Passed)

-----------------------------------------------------------------------------
(* Facts about sequences of frames.                                        *)

(* What the assumption on the constants says of the queues.                *)
LEMMA Constants ==
    /\ Clusters \in Nat /\ MaxUpdates \in Nat /\ BroadcastQueue \in Nat
    /\ UnregisterQueue \in Nat /\ ClientQueue \in Nat /\ Capacity \in Nat
  BY ConstantsAssumption DEF Capacity

(* What a frame at the end of w changes.                                   *)
LEMMA FrameAppended ==
  ASSUME NEW w \in Seq(Frame), NEW f \in Frame
  PROVE  /\ Len(w) \in Nat
         /\ Append(w, f) \in Seq(Frame)
         /\ Len(Append(w, f)) = Len(w) + 1
         /\ \A i \in 1..Len(w) : Append(w, f)[i] = w[i] /\ w[i] \in Nat
         /\ Append(w, f)[Len(w) + 1] = f
<1>1. Frame \subseteq Nat
  BY Constants DEF Frame
<1>2. \A i \in 1..Len(w) : w[i] \in Frame
  BY ElementOfSeq
<1>3. Len(w) \in Nat
  BY LenProperties
<1>4. /\ Append(w, f) \in Seq(Frame)
      /\ Len(Append(w, f)) = Len(w) + 1
      /\ \A i \in 1..Len(w) : Append(w, f)[i] = w[i]
      /\ Append(w, f)[Len(w) + 1] = f
  BY AppendProperties
<1> QED BY <1>1, <1>2, <1>3, <1>4

(* The next update may follow.                                             *)
LEMMA AppendUpdate ==
  ASSUME NEW w \in Seq(Frame), NEW n \in Nat, n + 1 \in Frame,
         Gapless(w), EndsWith(w, n)
  PROVE  Gapless(Append(w, n + 1)) /\ EndsWith(Append(w, n + 1), n + 1)
<1> DEFINE v == Append(w, n + 1)
           m == Len(w)
<1>1. /\ m \in Nat /\ Len(v) = m + 1
      /\ \A i \in 1..m : v[i] = w[i] /\ w[i] \in Nat
      /\ v[m + 1] = n + 1
  BY FrameAppended
<1>2. /\ \A i, j \in 1..m :
            i < j /\ w[i] > 0 /\ w[j] > 0 /\ (\A k \in (i + 1)..(j - 1) : ~(w[k] > 0))
               => w[j] = w[i] + 1
      /\ \A i \in 1..m :
            w[i] > 0 /\ (\A k \in (i + 1)..m : ~(w[k] > 0)) => w[i] = n
  BY DEF Gapless, EndsWith
<1> HIDE DEF v, m
<1>3. Gapless(v)
  <2> SUFFICES ASSUME NEW i \in 1..(m + 1), NEW j \in 1..(m + 1),
                      i < j, v[i] > 0, v[j] > 0, \A k \in (i + 1)..(j - 1) : ~(v[k] > 0)
               PROVE  v[j] = v[i] + 1
    BY <1>1 DEF Gapless
  <2>1. CASE j \in 1..m
    <3>1. i \in 1..m /\ \A k \in (i + 1)..(j - 1) : k \in 1..m
      BY <1>1, <2>1
    <3> QED BY <1>1, <1>2, <2>1, <3>1
  <2>2. CASE j = m + 1
    <3>1. i \in 1..m /\ \A k \in (i + 1)..m : k \in 1..m /\ k \in (i + 1)..(j - 1)
      BY <1>1, <2>2
    <3> QED BY <1>1, <1>2, <2>2, <3>1
  <2> QED BY <1>1, <2>1, <2>2
<1>4. EndsWith(v, n + 1)
  <2> SUFFICES ASSUME NEW i \in 1..(m + 1), \A k \in (i + 1)..(m + 1) : ~(v[k] > 0)
               PROVE  v[i] = n + 1
    BY <1>1 DEF EndsWith
  <2> QED BY <1>1
<1> QED BY <1>3, <1>4 DEF v

(* A frame of connect may be queued at any time.                           *)
LEMMA AppendSnapshot ==
  ASSUME NEW w \in Seq(Frame), Gapless(w)
  PROVE  /\ Gapless(Append(w, 0))
         /\ \A n : EndsWith(w, n) => EndsWith(Append(w, 0), n)
<1> DEFINE v == Append(w, 0)
           m == Len(w)
<1>0. 0 \in Frame
  BY Constants DEF Frame
<1>1. /\ m \in Nat /\ Len(v) = m + 1
      /\ \A i \in 1..m : v[i] = w[i] /\ w[i] \in Nat
      /\ v[m + 1] = 0
  BY <1>0, FrameAppended
<1>2. \A i, j \in 1..m :
         i < j /\ w[i] > 0 /\ w[j] > 0 /\ (\A k \in (i + 1)..(j - 1) : ~(w[k] > 0))
            => w[j] = w[i] + 1
  BY DEF Gapless
<1>3. ASSUME NEW n
      PROVE  EndsWith(w, n) =
                (\A i \in 1..m : w[i] > 0 /\ (\A k \in (i + 1)..m : ~(w[k] > 0)) => w[i] = n)
  BY DEF EndsWith
<1> HIDE DEF v, m
<1>4. Gapless(v)
  <2> SUFFICES ASSUME NEW i \in 1..(m + 1), NEW j \in 1..(m + 1),
                      i < j, v[i] > 0, v[j] > 0, \A k \in (i + 1)..(j - 1) : ~(v[k] > 0)
               PROVE  v[j] = v[i] + 1
    BY <1>1 DEF Gapless
  <2>1. i \in 1..m /\ j \in 1..m /\ \A k \in (i + 1)..(j - 1) : k \in 1..m
    BY <1>1
  <2> QED BY <1>1, <1>2, <2>1
<1>5. ASSUME NEW n, EndsWith(w, n) PROVE EndsWith(v, n)
  <2> SUFFICES ASSUME NEW i \in 1..(m + 1), v[i] > 0,
                      \A k \in (i + 1)..(m + 1) : ~(v[k] > 0)
               PROVE  v[i] = n
    BY <1>1 DEF EndsWith
  <2>1. i \in 1..m /\ \A k \in (i + 1)..m : k \in 1..m /\ k \in (i + 1)..(m + 1)
    BY <1>1
  <2> QED BY <1>1, <1>3, <1>5, <2>1
<1> QED BY <1>4, <1>5 DEF v

(* The page has received a beginning of what was queued.                   *)
LEMMA GaplessPrefix ==
  ASSUME NEW r \in Seq(Frame), NEW q \in Seq(Frame), Gapless(r \o q)
  PROVE  Gapless(r)
<1>1. /\ Len(r) \in Nat /\ Len(q) \in Nat /\ Len(r \o q) = Len(r) + Len(q)
      /\ \A i \in 1..Len(r) : (r \o q)[i] = r[i]
  BY ConcatProperties
<1>2. SUFFICES ASSUME NEW i \in 1..Len(r), NEW j \in 1..Len(r), i < j, r[i] > 0, r[j] > 0,
                      \A k \in (i + 1)..(j - 1) : ~(r[k] > 0)
               PROVE  r[j] = r[i] + 1
  BY DEF Gapless
<1> DEFINE w == r \o q
<1>3. /\ i \in 1..Len(w) /\ j \in 1..Len(w) /\ w[i] = r[i] /\ w[j] = r[j]
      /\ \A k \in (i + 1)..(j - 1) : ~(w[k] > 0)
  BY <1>1, <1>2
<1>4. Gapless(w)
  OBVIOUS
<1> HIDE DEF w
<1> QED BY <1>2, <1>3, <1>4 DEF Gapless

(* Putting a frame in the queue puts it at the end of all that was queued, *)
(* and taking one out changes nothing of that.                             *)
LEMMA QueueMoves ==
  ASSUME NEW r \in Seq(Frame), NEW q \in Seq(Frame), NEW f \in Frame
  PROVE  /\ r \o Append(q, f) = Append(r \o q, f)
         /\ q # <<>> => Append(r, Head(q)) \o Tail(q) = r \o q
<1>1. r \o Append(q, f) = Append(r \o q, f)
  <2> DEFINE a == r \o Append(q, f)
             b == Append(r \o q, f)
  <2>1. a \in Seq(Frame) /\ b \in Seq(Frame)
    OBVIOUS
  <2>2. Len(a) = Len(b) /\ \A i \in 1..Len(a) : a[i] = b[i]
    OBVIOUS
  <2> QED BY <2>1, <2>2, SeqEqual
<1>2. ASSUME q # <<>> PROVE Append(r, Head(q)) \o Tail(q) = r \o q
  <2> DEFINE a == Append(r, Head(q)) \o Tail(q)
             b == r \o q
  <2>0. Head(q) \in Frame /\ Tail(q) \in Seq(Frame) /\ Len(Tail(q)) = Len(q) - 1
    BY <1>2
  <2>1. a \in Seq(Frame) /\ b \in Seq(Frame)
    BY <2>0
  <2>2. Len(a) = Len(b) /\ \A i \in 1..Len(a) : a[i] = b[i]
    BY <1>2, <2>0
  <2> QED BY <2>1, <2>2, SeqEqual
<1> QED BY <1>1, <1>2

(* The queue for removal has room for one more, and may lose one.          *)
LEMMA EnqueueFits ==
  ASSUME NEW u, NEW c \in Clients, UnregisterOK(u)
  PROVE  /\ Cardinality(u) < UnregisterQueue => UnregisterOK(u \cup {c})
         /\ UnregisterOK(u \ {c})
<1> USE DEF UnregisterOK
<1>1. Cardinality(u) \in Nat
  BY FS_CardinalityType
<1>2. /\ IsFiniteSet(u \cup {c})
      /\ Cardinality(u \cup {c}) \in {Cardinality(u), Cardinality(u) + 1}
  BY FS_AddElement
<1>3. IsFiniteSet(u \ {c}) /\ Cardinality(u \ {c}) \in {Cardinality(u), Cardinality(u) - 1}
  BY FS_RemoveElement
<1> QED BY <1>1, <1>2, <1>3, Constants

(* Numbers of frames, and the number of updates that have left Run.        *)
LEMMA HubFacts ==
  ASSUME HubInv
  PROVE  /\ Passed \in Nat
         /\ Len(broadcast) \in Nat
         /\ published <= MaxUpdates
         /\ unsent > 0 => published + 1 \in Frame
<1>1. Len(broadcast) \in Nat
  BY LenProperties DEF HubInv
<1> QED BY <1>1, Constants DEF HubInv, Passed, Frame

-----------------------------------------------------------------------------
(* The steps, on the record of a client.                                   *)

(* A client that has not closed its queue is sent a frame of connect.      *)
LEMMA RecordFilled ==
  ASSUME NEW r, ClientInv(r), r.pc = "fill", r.todo > 0, Len(r.send) < Capacity
  PROVE  LET q == [r EXCEPT !.todo = @ - 1, !.send = Append(@, 0)]
         IN  ClientInv(q) /\ \A n : MemberInv(r, n) => MemberInv(q, n)
<1> DEFINE q == [r EXCEPT !.todo = @ - 1, !.send = Append(@, 0)]
<1> USE Constants
<1>1. r \in Client /\ 0 \in Frame
  BY DEF ClientInv, Frame
<1>2. r.send \in Seq(Frame) /\ r.received \in Seq(Frame) /\ r.todo \in 0..Clusters
  BY <1>1 DEF Client
<1>3. Append(r.send, 0) \in Seq(Frame) /\ Len(Append(r.send, 0)) = Len(r.send) + 1
  BY <1>1, <1>2, AppendProperties
<1>4. /\ q.send = Append(r.send, 0) /\ q.closes = r.closes /\ q.pc = r.pc
      /\ q.received = r.received
  BY <1>1 DEF Client
<1>5. q \in Client
  <2>1. r.todo - 1 \in 0..Clusters
    BY <1>2
  <2> QED BY <1>1, <1>3, <2>1 DEF Client
<1> HIDE DEF q
<1>6. Len(r.send) \in Nat
  BY <1>2, LenProperties
<1>7. Queued(q) = Append(Queued(r), 0) /\ Queued(r) \in Seq(Frame)
  BY <1>1, <1>2, <1>4, QueueMoves, ConcatProperties, ZenonT(30) DEF Queued
<1>8. ClientInv(q)
  BY <1>3, <1>4, <1>5, <1>6, <1>7, AppendSnapshot DEF ClientInv
<1>9. ASSUME NEW n, MemberInv(r, n) PROVE MemberInv(q, n)
  BY <1>4, <1>7, <1>9, AppendSnapshot DEF MemberInv, ClientInv
<1> QED BY <1>8, <1>9 DEF q

(* Run sends a member the next update.                                     *)
LEMMA RecordSent ==
  ASSUME NEW r, NEW n \in Nat, ClientInv(r), MemberInv(r, n), n + 1 \in Frame,
         Len(r.send) < Capacity
  PROVE  LET q == [r EXCEPT !.send = Append(@, n + 1)]
         IN  ClientInv(q) /\ MemberInv(q, n + 1)
<1> DEFINE q == [r EXCEPT !.send = Append(@, n + 1)]
<1> USE Constants
<1>1. r \in Client
  BY DEF ClientInv
<1>2. r.send \in Seq(Frame) /\ r.received \in Seq(Frame)
  BY <1>1 DEF Client
<1>3. Append(r.send, n + 1) \in Seq(Frame) /\ Len(Append(r.send, n + 1)) = Len(r.send) + 1
  BY <1>2, AppendProperties
<1>4. /\ q.send = Append(r.send, n + 1) /\ q.closes = r.closes /\ q.pc = r.pc
      /\ q.received = r.received
  BY <1>1 DEF Client
<1>5. q \in Client
  BY <1>1, <1>3 DEF Client
<1> HIDE DEF q
<1>6. Len(r.send) \in Nat
  BY <1>2, LenProperties
<1>7. Queued(q) = Append(Queued(r), n + 1) /\ Queued(r) \in Seq(Frame)
  BY <1>1, <1>2, <1>4, QueueMoves, ConcatProperties, ZenonT(30) DEF Queued
<1>8. Gapless(Queued(q)) /\ EndsWith(Queued(q), n + 1)
  BY <1>7, AppendUpdate DEF ClientInv, MemberInv
<1>9. ClientInv(q) /\ MemberInv(q, n + 1)
  BY <1>3, <1>4, <1>5, <1>6, <1>8 DEF ClientInv, MemberInv
<1> QED BY <1>9 DEF q

(* A frame goes from the queue to the page.                                *)
LEMMA RecordWritten ==
  ASSUME NEW r, ClientInv(r), r.pc = "serve", r.send # <<>>
  PROVE  LET q == [r EXCEPT !.send = Tail(@), !.received = Append(@, Head(r.send))]
         IN  ClientInv(q) /\ \A n : MemberInv(r, n) => MemberInv(q, n)
<1> DEFINE q == [r EXCEPT !.send = Tail(@), !.received = Append(@, Head(r.send))]
<1> USE Constants
<1>1. r \in Client
  BY DEF ClientInv
<1>2. r.send \in Seq(Frame) /\ r.received \in Seq(Frame)
  BY <1>1 DEF Client
<1>3. /\ Head(r.send) \in Frame
      /\ Tail(r.send) \in Seq(Frame)
      /\ Len(Tail(r.send)) = Len(r.send) - 1
  BY <1>2, HeadTailProperties
<1>4. /\ q.send = Tail(r.send) /\ q.closes = r.closes /\ q.pc = r.pc
      /\ q.received = Append(r.received, Head(r.send))
  BY <1>1 DEF Client
<1>5. q \in Client
  <2>1. Append(r.received, Head(r.send)) \in Seq(Frame)
    BY <1>2, <1>3, AppendProperties
  <2> QED BY <1>1, <1>3, <2>1 DEF Client
<1> HIDE DEF q
<1>6. Len(r.send) \in Nat
  BY <1>2, LenProperties
<1>7. Queued(q) = Queued(r)
  BY <1>1, <1>2, <1>3, <1>4, QueueMoves DEF Queued
<1>8. ClientInv(q)
  BY <1>3, <1>4, <1>5, <1>6, <1>7 DEF ClientInv
<1>9. ASSUME NEW n, MemberInv(r, n) PROVE MemberInv(q, n)
  BY <1>4, <1>7, <1>9 DEF MemberInv
<1> QED BY <1>8, <1>9 DEF q

(* Run closes the queue of a member.                                       *)
LEMMA RecordRemoved ==
  ASSUME NEW r, NEW n, ClientInv(r), MemberInv(r, n)
  PROVE  ClientInv([r EXCEPT !.closes = @ + 1])
<1> DEFINE q == [r EXCEPT !.closes = @ + 1]
<1>1. r \in Client /\ r.closes = 0
  BY DEF ClientInv, MemberInv
<1>2. q \in Client /\ q.closes = 1 /\ q.send = r.send /\ q.received = r.received /\ q.pc = r.pc
  BY <1>1 DEF Client
<1>3. Queued(q) = Queued(r)
  BY <1>2 DEF Queued
<1> QED BY <1>1, <1>2, <1>3 DEF ClientInv, MemberInv

(* The handler goes on, not back to before registerClient.                 *)
LEMMA RecordGoesTo ==
  ASSUME NEW r, ClientInv(r), NEW pc \in {"registered", "fill", "serve", "leave", "gone", "panicked"}
  PROVE  LET q == [r EXCEPT !.pc = pc]
         IN  ClientInv(q) /\ \A n : MemberInv(r, n) => MemberInv(q, n)
<1> DEFINE q == [r EXCEPT !.pc = pc]
<1>1. r \in Client
  BY DEF ClientInv
<1>2. q \in Client /\ q.closes = r.closes /\ q.send = r.send /\ q.received = r.received /\ q.pc = pc
  BY <1>1 DEF Client
<1>3. Queued(q) = Queued(r)
  BY <1>2 DEF Queued
<1> HIDE DEF q
<1>4. ClientInv(q) /\ \A n : MemberInv(r, n) => MemberInv(q, n)
  BY <1>1, <1>2, <1>3 DEF ClientInv, MemberInv
<1> QED BY <1>4 DEF q

-----------------------------------------------------------------------------
(* The invariant is inductive.                                             *)

(* Before the first connection nothing is queued and nobody is a member.   *)
LEMMA BroadcastInit == Init => BroadcastInv
<1> SUFFICES ASSUME Init PROVE BroadcastInv
  OBVIOUS
<1> USE Constants DEF Init
<1>0. UnregisterOK(unregister)
  BY FS_EmptySet DEF UnregisterOK
<1>1. HubInv
  BY <1>0 DEF HubInv, Passed
<1>2. client \in [Clients -> Client]
  BY DEF Client
<1>3. ASSUME NEW c \in Clients PROVE ClientInv(client[c])
  <2>1. /\ client[c] \in Client /\ client[c].closes = 0 /\ client[c].send = <<>>
        /\ client[c].received = <<>>
    BY <1>2
  <2>2. Queued(client[c]) = <<>> /\ Len(client[c].send) = 0
    BY <2>1 DEF Queued
  <2>3. Gapless(<<>>)
    BY DEF Gapless
  <2> QED BY <2>1, <2>2, <2>3 DEF ClientInv
<1> QED BY <1>1, <1>2, <1>3 DEF BroadcastInv

(* A step of one client leaves the others and Run's queue alone.           *)
LEMMA OneClient ==
  ASSUME BroadcastInv, NEW c \in Clients, NEW r,
         client' = [client EXCEPT ![c] = r],
         UNCHANGED <<hubVars, running>>,
         members' \subseteq Clients, UnregisterOK(unregister'),
         \A d \in Clients \ {c} : d \in members' => d \in members,
         ClientInv(r), c \in members' => MemberInv(r, Passed)
  PROVE  BroadcastInv'
<1>1. HubInv' /\ Passed' = Passed
  BY DEF BroadcastInv, HubInv, hubVars, Passed
<1>2. client' \in [Clients -> Client]
  BY DEF BroadcastInv, ClientInv
<1>3. ASSUME NEW d \in Clients
      PROVE  ClientInv(client'[d]) /\ (d \in members' => MemberInv(client'[d], Passed))
  <2>1. CASE d = c
    BY <2>1 DEF BroadcastInv
  <2>2. CASE d # c
    BY <2>2 DEF BroadcastInv
  <2> QED BY <2>1, <2>2
<1> QED BY <1>1, <1>2, <1>3 DEF BroadcastInv

(* A change in the fleet is a new update that nobody has been sent.        *)
LEMMA ChangeKeeps ==
  ASSUME BroadcastInv, Change PROVE BroadcastInv'
<1>1. HubInv' /\ Passed' = Passed
  BY Constants DEF BroadcastInv, HubInv, Change, Passed, runVars
<1> QED BY <1>1 DEF BroadcastInv, Change, runVars

(* An update that fits is the next one.                                    *)
LEMMA BroadcastKeeps ==
  ASSUME BroadcastInv, Broadcast PROVE BroadcastInv'
<1> USE DEF Broadcast, runVars
<1>0. HubInv
  BY DEF BroadcastInv
<1>1. CASE ~hasRoom
  <2>1. HubInv' /\ Passed' = Passed
    BY <1>0, <1>1 DEF HubInv, Passed
  <2> QED BY <1>1, <2>1 DEF BroadcastInv
<1>2. CASE hasRoom
  <2>1. published + 1 \in Frame /\ Len(broadcast) \in Nat
    BY <1>0, HubFacts
  <2>2. /\ broadcast' \in Seq(Frame)
        /\ Len(broadcast') = Len(broadcast) + 1
        /\ \A i \in 1..Len(broadcast) : broadcast'[i] = broadcast[i]
        /\ broadcast'[Len(broadcast) + 1] = published + 1
    BY <1>0, <1>2, <2>1, AppendProperties DEF HubInv
  <2>3. Passed' = Passed
    BY <1>0, <1>2, <2>1, <2>2 DEF HubInv, Passed
  <2>4. \A i \in 1..Len(broadcast') : broadcast'[i] = Passed + i
    BY <1>0, <2>1, <2>2, SMTT(20) DEF HubInv, Passed
  <2>5. HubInv'
    BY <1>0, <1>2, <2>1, <2>2, <2>3, <2>4, Constants DEF HubInv, hasRoom
  <2> QED BY <2>3, <2>5 DEF BroadcastInv
<1> QED BY <1>1, <1>2

(* Run takes an update: Passed goes up, and every member it keeps has it.  *)
LEMMA SendAllKeeps ==
  ASSUME BroadcastInv, sendAll PROVE BroadcastInv'
<1> USE DEF sendAll
<1>0. HubInv
  BY DEF BroadcastInv
<1>1. /\ Len(broadcast) \in Nat /\ Passed \in Nat
      /\ Head(broadcast) = Passed + 1 /\ Passed + 1 \in Frame
      /\ broadcast' \in Seq(Frame) /\ Len(broadcast') = Len(broadcast) - 1
      /\ \A i \in 1..Len(broadcast') : broadcast'[i] = broadcast[i + 1]
  <2>1. Len(broadcast) \in Nat /\ Passed \in Nat
    BY <1>0, HubFacts
  <2>2. /\ Head(broadcast) = broadcast[1] /\ Head(broadcast) \in Frame
        /\ Tail(broadcast) \in Seq(Frame) /\ Len(Tail(broadcast)) = Len(broadcast) - 1
        /\ \A i \in 1..Len(Tail(broadcast)) : Tail(broadcast)[i] = broadcast[i + 1]
    BY <1>0, HeadTailProperties DEF HubInv
  <2>3. 1 \in 1..Len(broadcast)
    BY <1>0, <2>1, EmptySeq DEF HubInv
  <2> QED BY <1>0, <2>1, <2>2, <2>3 DEF HubInv
<1>2. Passed' = Passed + 1
  BY <1>0, <1>1 DEF HubInv, Passed
<1>3. HubInv'
  <2>1. \A i \in 1..Len(broadcast') : broadcast'[i] = Passed' + i
    BY <1>0, <1>1, <1>2 DEF HubInv
  <2> QED BY <1>0, <1>1, <1>2, <2>1, Constants DEF HubInv
<1>4. ASSUME NEW c \in Clients
      PROVE  ClientInv(client'[c]) /\ (c \in members' => MemberInv(client'[c], Passed + 1))
  <2>0. ClientInv(client[c]) /\ (c \in members => MemberInv(client[c], Passed))
    BY DEF BroadcastInv
  <2>1. CASE c \in members /\ slow(c)
    <3>1. c \notin members' /\ client'[c] = [client[c] EXCEPT !.closes = @ + 1]
      BY <2>1 DEF removed
    <3> QED BY <2>0, <2>1, <3>1, RecordRemoved
  <2>2. CASE c \in members /\ ~slow(c)
    <3>1. Len(client[c].send) < Capacity
      <4>1. client[c].send \in Seq(Frame)
        BY <2>0 DEF ClientInv, Client
      <4> QED BY <2>0, <2>2, <4>1, Constants, LenProperties DEF ClientInv, slow
    <3>2. client'[c] = [client[c] EXCEPT !.send = Append(@, Passed + 1)]
      BY <1>1, <2>2, <3>1
    <3> QED BY <1>1, <2>0, <2>2, <3>1, <3>2, RecordSent
  <2>3. CASE c \notin members
    <3>1. c \notin members' /\ client'[c] = client[c]
      BY <2>3
    <3> QED BY <2>0, <3>1
  <2> QED BY <2>1, <2>2, <2>3
<1>5. client' \in [Clients -> Client]
  BY <1>4 DEF ClientInv
<1>6. members' \subseteq Clients
  BY <1>0 DEF HubInv
<1> QED BY <1>2, <1>3, <1>4, <1>5, <1>6 DEF BroadcastInv

(* The loop that stops closes the queue of each member, once.              *)
LEMMA StopRunKeeps ==
  ASSUME BroadcastInv, stopRun PROVE BroadcastInv'
<1> USE DEF stopRun, hubVars
<1>1. HubInv' /\ members' = {}
  BY DEF BroadcastInv, HubInv, Passed
<1>2. ASSUME NEW c \in Clients PROVE ClientInv(client'[c])
  <2>0. ClientInv(client[c]) /\ (c \in members => MemberInv(client[c], Passed))
    BY DEF BroadcastInv
  <2>1. CASE c \in members
    <3>1. client'[c] = [client[c] EXCEPT !.closes = @ + 1]
      BY <2>1 DEF removed
    <3> QED BY <2>0, <2>1, <3>1, RecordRemoved
  <2>2. CASE c \notin members
    BY <2>0, <2>2
  <2> QED BY <2>1, <2>2
<1>3. client' \in [Clients -> Client]
  BY <1>2 DEF ClientInv
<1> QED BY <1>1, <1>2, <1>3 DEF BroadcastInv

(* The loop takes a handler's unregistration: members only lose a client   *)
(* whose queue it closes.                                                  *)
LEMMA RemoveClientKeeps ==
  ASSUME BroadcastInv, NEW c \in Clients, removeClient(c) PROVE BroadcastInv'
<1> USE DEF removeClient
<1>1. HubInv /\ ClientInv(client[c]) /\ (c \in members => MemberInv(client[c], Passed))
  BY DEF BroadcastInv
<1>2. ClientInv(removed(c)) /\ c \notin members'
  BY <1>1, RecordRemoved DEF removed
<1>3. members' \subseteq Clients /\ UnregisterOK(unregister')
  BY <1>1, EnqueueFits DEF HubInv
<1> QED BY <1>2, <1>3, OneClient

(* A client that registers is sent updates from the next one on.           *)
LEMMA AddClientKeeps ==
  ASSUME BroadcastInv, NEW c \in Clients, addClient(c) PROVE BroadcastInv'
<1> USE DEF addClient
<1> DEFINE r == [client[c] EXCEPT !.pc = "registered"]
<1>1. HubInv /\ ClientInv(client[c]) /\ client[c] \in Client
  BY DEF BroadcastInv
<1>2. ClientInv(r)
  BY <1>1, RecordGoesTo
<1>3. r.pc = "registered" /\ r.closes = 0 /\ r.send = <<>> /\ r.received = <<>>
  BY <1>1 DEF ClientInv, Client
<1>4. MemberInv(r, Passed)
  <2>1. Queued(r) = <<>>
    BY <1>3 DEF Queued
  <2>2. EndsWith(<<>>, Passed)
    BY DEF EndsWith
  <2> QED BY <1>3, <2>1, <2>2 DEF MemberInv
<1>5. members' \subseteq Clients /\ UnregisterOK(unregister')
  BY <1>1 DEF HubInv
<1>6. client' = [client EXCEPT ![c] = r]
  OBVIOUS
<1> HIDE DEF r
<1> QED BY <1>2, <1>4, <1>5, <1>6, OneClient

(* A handler lists the clusters before it has a queue.                     *)
LEMMA ListClustersKeeps ==
  ASSUME BroadcastInv, NEW c \in Clients, listClusters(c) PROVE BroadcastInv'
<1> USE DEF listClusters, runVars
<1> DEFINE r == [client[c] EXCEPT !.pc = "register", !.todo = Clusters]
<1>1. HubInv /\ ClientInv(client[c]) /\ client[c] \in Client
  BY DEF BroadcastInv
<1>2. r \in Client
  <2>1. Clusters \in 0..Clusters
    BY Constants
  <2>2. \A x \in Client : [x EXCEPT !.pc = "register", !.todo = Clusters] \in Client
    BY <2>1 DEF Client
  <2> QED BY <1>1, <2>2
<1>3. r.closes = client[c].closes /\ r.send = client[c].send /\ r.received = client[c].received
  BY <1>1 DEF Client
<1>4. Queued(r) = Queued(client[c])
  BY <1>3 DEF Queued
<1>5. c \notin members
  BY DEF BroadcastInv, MemberInv
<1>6. members' \subseteq Clients /\ UnregisterOK(unregister')
  BY <1>1 DEF HubInv
<1>7. client' = [client EXCEPT ![c] = r]
  OBVIOUS
<1> HIDE DEF r
<1>8. ClientInv(r)
  BY <1>1, <1>2, <1>3, <1>4 DEF ClientInv
<1> QED BY <1>5, <1>6, <1>7, <1>8, OneClient

(* The steps that only move the handler on.                                *)
LEMMA GotoKeeps ==
  ASSUME BroadcastInv, NEW c \in Clients,
         NEW pc \in {"registered", "fill", "serve", "leave", "gone", "panicked"}, Goto(c, pc),
         UNCHANGED <<hubVars, running, members>>, UnregisterOK(unregister')
  PROVE  BroadcastInv'
<1> DEFINE r == [client[c] EXCEPT !.pc = pc]
<1>1. HubInv /\ ClientInv(client[c]) /\ (c \in members => MemberInv(client[c], Passed))
  BY DEF BroadcastInv
<1>2. ClientInv(r) /\ (c \in members => MemberInv(r, Passed))
  BY <1>1, RecordGoesTo
<1>3. members' \subseteq Clients
  BY <1>1 DEF HubInv
<1>4. client' = [client EXCEPT ![c] = r]
  BY DEF Goto
<1> HIDE DEF r
<1> QED BY <1>2, <1>3, <1>4, OneClient

(* A handler fills its queue with frames of the listing, which are not     *)
(* updates.                                                                *)
LEMMA FillKeeps ==
  ASSUME BroadcastInv, NEW c \in Clients, fill(c) PROVE BroadcastInv'
<1> DEFINE r == [client[c] EXCEPT !.todo = @ - 1, !.send = Append(@, 0)]
<1>1. /\ ClientInv(client[c]) /\ (c \in members => MemberInv(client[c], Passed))
      /\ UnregisterOK(unregister) /\ members \subseteq Clients
  BY DEF BroadcastInv, HubInv
<1>2. CASE Goto(c, "serve") \/ Goto(c, "panicked")
  BY <1>1, <1>2, GotoKeeps DEF fill, runVars
<1>3. CASE /\ client[c].todo > 0 /\ Len(client[c].send) < Capacity
           /\ client' = [client EXCEPT ![c] = r]
  <2>1. ClientInv(r) /\ (c \in members => MemberInv(r, Passed))
    BY <1>1, <1>3, RecordFilled DEF fill
  <2> HIDE DEF r
  <2> QED BY <1>1, <1>3, <2>1, OneClient DEF fill, runVars
<1> QED BY <1>2, <1>3 DEF fill

(* The writer takes the oldest frame of the queue.                         *)
LEMMA WriteKeeps ==
  ASSUME BroadcastInv, NEW c \in Clients, write(c) PROVE BroadcastInv'
<1> DEFINE r == [client[c] EXCEPT !.send = Tail(@), !.received = Append(@, Head(client[c].send))]
<1>1. /\ ClientInv(client[c]) /\ (c \in members => MemberInv(client[c], Passed))
      /\ UnregisterOK(unregister) /\ members \subseteq Clients
  BY DEF BroadcastInv, HubInv
<1>2. CASE Goto(c, "leave")
  BY <1>1, <1>2, GotoKeeps DEF write, runVars
<1>3. CASE client[c].send # <<>> /\ client' = [client EXCEPT ![c] = r]
  <2>1. ClientInv(r) /\ (c \in members => MemberInv(r, Passed))
    BY <1>1, <1>3, RecordWritten DEF write
  <2> HIDE DEF r
  <2> QED BY <1>1, <1>3, <2>1, OneClient DEF write, runVars
<1> QED BY <1>2, <1>3 DEF write

(* Steps in which the handler of c only goes on, or leaves and tells Run.  *)
LEMMA MovesKeep ==
  ASSUME BroadcastInv, NEW c \in Clients,
         registerClient(c) \/ disconnect(c) \/ unregisterClient(c)
  PROVE  BroadcastInv'
<1>1. UnregisterOK(unregister)
  BY DEF BroadcastInv, HubInv
<1>2. CASE registerClient(c)
  BY <1>1, <1>2, GotoKeeps DEF registerClient, runVars
<1>3. CASE disconnect(c)
  BY <1>1, <1>3, GotoKeeps DEF disconnect, runVars
<1>4. CASE unregisterClient(c)
  <2>1. UnregisterOK(unregister')
    BY <1>1, <1>4, EnqueueFits DEF unregisterClient
  <2> QED BY <1>4, <2>1, GotoKeeps DEF unregisterClient
<1> QED BY <1>2, <1>3, <1>4

(* A step that changes nothing.                                            *)
LEMMA StutterKeeps ==
  ASSUME BroadcastInv, UNCHANGED vars PROVE BroadcastInv'
  BY DEF BroadcastInv, HubInv, Passed, vars, hubVars, runVars

(* What Run and its clients keep up, for any number of clients.            *)
THEOREM BroadcastInductive == Spec => []BroadcastInv
<1>1. ASSUME BroadcastInv, [Next]_vars PROVE BroadcastInv'
  BY <1>1, StutterKeeps, ChangeKeeps, BroadcastKeeps, SendAllKeeps, StopRunKeeps,
     RemoveClientKeeps, AddClientKeeps, ListClustersKeeps, FillKeeps, WriteKeeps,
     MovesKeep
  DEF Next, ClientStep
<1> QED BY <1>1, BroadcastInit, PTL DEF Spec

-----------------------------------------------------------------------------

(* The queues of Run and of its clients never outgrow their capacity, and  *)
(* all frames, counters and sets keep their types.                         *)
THEOREM TypeCorrect == Spec => []TypeOK
<1>1. BroadcastInv => TypeOK
  <2> SUFFICES ASSUME BroadcastInv PROVE TypeOK
    OBVIOUS
  <2>1. published \in 0..MaxUpdates /\ unsent \in 0..MaxUpdates
    BY Constants DEF BroadcastInv, HubInv
  <2>2. \A c \in Clients : Len(client[c].send) <= Capacity
    BY DEF BroadcastInv, ClientInv
  <2> QED BY <2>1, <2>2 DEF BroadcastInv, HubInv, UnregisterOK, TypeOK
<1> QED BY <1>1, BroadcastInductive, PTL

(* Run closes no queue twice and sends to no closed one, however slow      *)
(* removals, unregistrations and the end of Run interleave.                *)
THEOREM NoPanic == Spec => []RunNeverPanics
<1>1. BroadcastInv => RunNeverPanics
  BY DEF BroadcastInv, ClientInv, MemberInv, RunNeverPanics
<1> QED BY <1>1, BroadcastInductive, PTL

(* Every client receives a contiguous part of the updates that pass        *)
(* through Run.                                                            *)
THEOREM UpdatesContiguous == Spec => []NoUpdateSkipped
<1>1. BroadcastInv => NoUpdateSkipped
  <2> SUFFICES ASSUME BroadcastInv, NEW c \in Clients PROVE Gapless(client[c].received)
    BY DEF NoUpdateSkipped, Gapless
  <2>1. client[c] \in Client /\ Gapless(client[c].received \o client[c].send)
    BY DEF BroadcastInv, ClientInv, Queued
  <2>2. client[c].received \in Seq(Frame) /\ client[c].send \in Seq(Frame)
    BY <2>1 DEF Client
  <2> QED BY <2>1, <2>2, GaplessPrefix
<1> QED BY <1>1, BroadcastInductive, PTL
=============================================================================
