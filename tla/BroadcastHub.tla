---------------------------- MODULE BroadcastHub ----------------------------
(***************************************************************************)
(* Live updates: handlers change clusters and broadcast the new state, the *)
(* Run loop of the BroadcastHub (internal/server/hub.go) copies every      *)
(* update to the queue of every WebSocket client, and one handler per      *)
(* client (handlers_ws.go) sends the state of all clusters on connect and  *)
(* then what its queue holds.                                              *)
(*                                                                         *)
(* The clusters belong to one tenant.  Of a frame only its origin is kept: *)
(* a frame is 0 if it is one of those a client is sent on connect, and n   *)
(* if it is the n-th update that has passed through Run.                   *)
(***************************************************************************)
EXTENDS Naturals, Sequences, FiniteSets

CONSTANTS
    Clients,        \* bound: WebSocket connections, each used once
    Clusters,       \* number of clusters
    MaxUpdates,     \* bound: changes of clusters
    BroadcastQueue, \* updates that fit in the queue of Run (broadcastQueueSize)
    UnregisterQueue, \* clients that fit in the queue for removal (broadcastQueueSize)
    ClientQueue     \* least capacity of a client's queue (clientQueueSize)

ASSUME ConstantsAssumption ==
    {Clusters, MaxUpdates, BroadcastQueue, UnregisterQueue, ClientQueue} \subseteq Nat

VARIABLES
    changes,      \* number of changes of clusters
    unsent,       \* how many of them their handlers have not broadcast yet
    broadcast,    \* the queue of Run
    published,    \* number of updates that have entered that queue
    running,      \* is Run running?
    members,      \* the clients map of Run
    unregister,   \* clients queued for removal
    client        \* client[c]: where handleWSClusters is, and its queue

hubVars == <<changes, unsent, broadcast, published>>
runVars == <<running, members, unregister>>
vars == <<hubVars, runVars, client>>

Frame == 0..MaxUpdates

(* "todo" counts the frames still to be sent on connect, "closes" the      *)
(* closes of the queue; "received" is what the page has received.          *)
Client == [pc : {"idle", "register", "registered", "fill", "serve", "leave", "gone", "panicked"},
           todo : 0..Clusters, send : Seq(Frame), closes : Nat, received : Seq(Frame)]

Capacity == IF Clusters > ClientQueue THEN Clusters ELSE ClientQueue

TypeOK ==
    /\ changes \in 0..MaxUpdates
    /\ unsent \in 0..MaxUpdates
    /\ broadcast \in Seq(Frame) /\ Len(broadcast) <= BroadcastQueue
    /\ published \in 0..MaxUpdates
    /\ running \in BOOLEAN
    /\ members \subseteq Clients
    /\ unregister \subseteq Clients /\ Cardinality(unregister) <= UnregisterQueue
    /\ client \in [Clients -> Client]
    /\ \A c \in Clients : Len(client[c].send) <= Capacity

Init ==
    /\ changes = 0
    /\ unsent = 0
    /\ broadcast = <<>>
    /\ published = 0
    /\ running = TRUE
    /\ members = {}
    /\ unregister = {}
    /\ client = [c \in Clients |->
          [pc |-> "idle", todo |-> 0, send |-> <<>>, closes |-> 0, received |-> <<>>]]

-----------------------------------------------------------------------------
(* Handlers that change clusters.                                          *)

(* A handler registers, reports or deletes a cluster.                      *)
Change ==
    /\ changes < MaxUpdates
    /\ changes' = changes + 1
    /\ unsent' = unsent + 1
    /\ UNCHANGED <<broadcast, published, runVars, client>>

(* Mutant: one update too many.                                            *)
hasRoom_OffByOne == Len(broadcast) <= BroadcastQueue

hasRoom == Len(broadcast) < BroadcastQueue

(* Broadcast of one of the updates, dropped when the queue is full.        *)
Broadcast ==
    /\ unsent > 0
    /\ unsent' = unsent - 1
    /\ IF hasRoom
         THEN /\ broadcast' = Append(broadcast, published + 1)
              /\ published' = published + 1
         ELSE UNCHANGED <<broadcast, published>>
    /\ UNCHANGED <<changes, runVars, client>>

-----------------------------------------------------------------------------
(* The Run loop.                                                           *)

(* Mutant: a client is removed without a look at the map.                  *)
removed_Unchecked(c) == [client[c] EXCEPT !.closes = @ + 1]

(* removeClient, for a client that may have been removed before.           *)
removed(c) == IF c \in members THEN [client[c] EXCEPT !.closes = @ + 1] ELSE client[c]

(* Run takes a client that waits in registerClient, and tells it.          *)
addClient(c) ==
    /\ client[c].pc = "register"
    /\ running
    /\ members' = members \cup {c}
    /\ client' = [client EXCEPT ![c].pc = "registered"]
    /\ UNCHANGED <<hubVars, running, unregister>>

(* Mutant: an update that does not fit is dropped and the client is kept.  *)
slow_Never(c) == FALSE

(* The queue of the client is full.                                        *)
slow(c) == Len(client[c].send) >= Capacity

(* An update goes to every client; the slow ones are removed.              *)
sendAll ==
    LET gone == {c \in members : slow(c)} IN
    /\ running
    /\ broadcast # <<>>
    /\ broadcast' = Tail(broadcast)
    /\ members' = members \ gone
    /\ client' = [c \in Clients |->
          IF c \in gone THEN removed(c)
          ELSE IF c \in members /\ Len(client[c].send) < Capacity
            THEN [client[c] EXCEPT !.send = Append(@, Head(broadcast))]
          ELSE client[c]]
    /\ UNCHANGED <<changes, unsent, published, running, unregister>>

removeClient(c) ==
    /\ running
    /\ c \in unregister
    /\ unregister' = unregister \ {c}
    /\ client' = [client EXCEPT ![c] = removed(c)]
    /\ members' = members \ {c}
    /\ UNCHANGED <<hubVars, running>>

(* The hub's context ends: Run removes all clients and returns.            *)
stopRun ==
    /\ running
    /\ running' = FALSE
    /\ members' = {}
    /\ client' = [c \in Clients |-> IF c \in members THEN removed(c) ELSE client[c]]
    /\ UNCHANGED <<hubVars, unregister>>

-----------------------------------------------------------------------------
(* A client: handleWSClusters.                                             *)

Goto(c, pc) == client' = [client EXCEPT ![c].pc = pc]

(* ListClustersForTenant, before the client is registered.                 *)
listClusters(c) ==
    /\ client[c].pc = "idle"
    /\ client' = [client EXCEPT ![c].pc = "register", ![c].todo = Clusters]
    /\ UNCHANGED <<hubVars, runVars>>

(* registerClient hears of its registration, or that Run has ended: when   *)
(* both are so it may choose either.                                       *)
registerClient(c) ==
    /\ \/ client[c].pc = "registered" /\ Goto(c, "fill")
       \/ client[c].pc \in {"register", "registered"} /\ ~running /\ Goto(c, "gone")
    /\ UNCHANGED <<hubVars, runVars>>

(* The loop that queues the state of all clusters: it waits for room, with *)
(* nobody reading the queue yet, and panics when the queue is closed.      *)
fill(c) ==
    /\ client[c].pc = "fill"
    /\ \/ /\ client[c].todo = 0
          /\ Goto(c, "serve")
       \/ /\ client[c].todo > 0
          /\ client[c].closes > 0
          /\ Goto(c, "panicked")
       \/ /\ client[c].todo > 0
          /\ client[c].closes = 0
          /\ Len(client[c].send) < Capacity
          /\ client' = [client EXCEPT ![c].todo = @ - 1, ![c].send = Append(@, 0)]
    /\ UNCHANGED <<hubVars, runVars>>

(* writeWebSocket sends a frame, or finds the queue closed and empty.      *)
write(c) ==
    /\ client[c].pc = "serve"
    /\ \/ /\ client[c].send # <<>>
          /\ client' = [client EXCEPT ![c].send = Tail(@),
                                      ![c].received = Append(@, Head(client[c].send))]
       \/ /\ client[c].send = <<>>
          /\ client[c].closes > 0
          /\ Goto(c, "leave")
    /\ UNCHANGED <<hubVars, runVars>>

(* The page goes away, or the connection fails.                            *)
disconnect(c) ==
    /\ client[c].pc = "serve"
    /\ Goto(c, "leave")
    /\ UNCHANGED <<hubVars, runVars>>

(* Mutant: the handler returns without unregistering.                      *)
unregisterClient_Forgotten(c) ==
    /\ client[c].pc \in {"leave", "panicked"}
    /\ Goto(c, "gone")
    /\ UNCHANGED <<hubVars, runVars>>

(* The deferred unregisterClient, which also runs when the loop panics and *)
(* waits for room in the queue as long as Run is there.                    *)
unregisterClient(c) ==
    /\ client[c].pc \in {"leave", "panicked"}
    /\ running => Cardinality(unregister) < UnregisterQueue
    /\ unregister' = IF running THEN unregister \cup {c} ELSE unregister
    /\ Goto(c, "gone")
    /\ UNCHANGED <<hubVars, running, members>>

ClientStep(c) == registerClient(c) \/ fill(c) \/ write(c) \/ unregisterClient(c)

Next ==
    \/ Change
    \/ Broadcast
    \/ sendAll
    \/ stopRun
    \/ \E c \in Clients :
          \/ addClient(c) \/ removeClient(c)
          \/ listClusters(c) \/ ClientStep(c) \/ disconnect(c)

(* Run, handlers and writers run when they can.  A select that is ready    *)
(* for ever is eventually taken, so that no client waits behind others.    *)
Fairness ==
    /\ WF_vars(sendAll)
    /\ WF_vars(Broadcast)
    /\ \A c \in Clients :
          WF_vars(addClient(c)) /\ WF_vars(removeClient(c)) /\ WF_vars(ClientStep(c))

Spec == Init /\ [][Next]_vars
FairSpec == Spec /\ Fairness

-----------------------------------------------------------------------------
(* Properties.                                                             *)

(* Run never closes a client's queue twice, although slow clients are      *)
(* removed before their handlers unregister them, and never sends to a     *)
(* closed one; either would panic and end the hub (removeClient).          *)
RunNeverPanics ==
    \A c \in Clients :
        /\ client[c].closes <= 1
        /\ c \in members => client[c].closes = 0

(* Of the updates that pass through Run a client receives a contiguous     *)
(* part: one that cannot keep up is disconnected and never skips any.      *)
NoUpdateSkipped ==
    \A c \in Clients :
        LET r == client[c].received
            Update(i) == r[i] > 0
        IN  \A i, j \in 1..Len(r) :
                i < j /\ Update(i) /\ Update(j) /\ (\A k \in (i + 1)..(j - 1) : ~Update(k))
                    => r[j] = r[i] + 1

(* An update on its way to Run reaches every client that is being served,  *)
(* unless the client or Run goes away (Run, writeWebSocket).               *)
UpdatesArrive ==
    \A c \in Clients, n \in 1..MaxUpdates :
        LET has(frames) == \E i \in DOMAIN frames : frames[i] = n
        IN  client[c].pc = "serve" /\ c \in members /\ has(broadcast) ~>
                has(client[c].received) \/ client[c].pc # "serve" \/ ~running

(* A client that leaves, or whose handler has panicked, does not stay in   *)
(* the map of Run, although it may have to wait for room in the queue for  *)
(* removal (unregisterClient, removeClient).                               *)
LeaversRemoved ==
    \A c \in Clients :
        client[c].pc \in {"leave", "panicked", "gone"} ~> c \notin members

(* docs/api.md: a client is sent one snapshot frame per cluster on         *)
(* connect: while the hub runs, a client that is registered gets through   *)
(* the loop that queues them.                                              *)
ConnectCompletes ==
    \A c \in Clients : client[c].pc = "registered" ~> client[c].pc = "serve" \/ ~running
=============================================================================
