------------------------------ MODULE LogRelay ------------------------------
(***************************************************************************)
(* Pod logs: browsers ask the hub, the hub asks the agent over the channel *)
(* the agent has opened, the agent streams lines back                      *)
(* (internal/server/logrelay.go, handlers_logs.go,                         *)
(* internal/agent/logs/client.go), for one cluster.                        *)
(*                                                                         *)
(* A channel c is an agentLogConn of the hub and a run of Client.serve of  *)
(* the agent.  A stream s is a request of a browser, its queue in the hub  *)
(* and its worker in the agent.  Goroutines interleave at their lock and   *)
(* channel operations.  send[c] holds the control frames on their way from *)
(* enqueue to the agent's reader, up[c] the frames from sendFrame to the   *)
(* hub's reader: each stands for a Go channel and the connection behind it.*)
(***************************************************************************)
EXTENDS Naturals, Sequences

CONSTANTS
    Channels,     \* bound: connections the agent makes
    Streams,      \* bound: log requests of browsers
    None,         \* no channel
    Lines,        \* bound: lines a pod logs
    SendQueue,    \* control frames that fit (agentSendQueueSize)
    StreamQueue,  \* frames that fit in the queue of a stream (logStreamQueueSize)
    UpQueue,      \* frames from the agent that fit (sendQueueSize)
    Instances     \* bound: the values of "instance"

ASSUME ConstantsAssumption ==
    /\ None \notin Channels
    /\ {Lines, SendQueue, StreamQueue, UpQueue} \subseteq Nat
    /\ Instances \subseteq
          [channels : SUBSET Channels, streams : SUBSET Streams, lines : 0..Lines]

VARIABLES
    active,       \* LogRelay.agents: the cluster's channel
    latest,       \* the channel registered last
    hub,          \* hub[c]: where handleAgentLogStream is
    replaced,     \* replaced[c]: the channel c has replaced and has to close
    closed,       \* channels that closeAll has closed
    wire,         \* channels whose connection works
    agent,        \* agent[c]: where Client.serve is
    send, up,     \* frames in flight, see above
    registered,   \* streams in the map of their channel
    stream,       \* stream[s]: where handleClusterPodLogs is
    worker,       \* worker[s]: what runStream does
    emitted,      \* emitted[s]: lines the worker has sent
    unstopped,    \* streams whose stop frame has been dropped
    instance      \* bound: the channels, the streams and the lines there are

channelVars == <<active, latest, hub, replaced, closed, wire, agent>>
streamVars == <<registered, stream, unstopped>>
workerVars == <<worker, emitted>>
vars == <<channelVars, send, up, streamVars, workerVars, instance>>

End == 0             \* body of an end frame
Fail == Lines + 1    \* body of an end frame with an error

(* "got" and "result" are what the browser has seen; "closes" counts the   *)
(* closes of the queue, of which the second would panic.                   *)
Stream == [pc : {"idle", "add", "start", "relay", "close", "remove", "done"},
           channel : Channels \cup {None},
           queue : Seq(0..Fail), closes : Nat,
           got : Seq(1..Lines), result : {"none", "end", "error", "left", "refused"}]
Unused == [pc |-> "idle", channel |-> None, queue |-> <<>>, closes |-> 0,
           got |-> <<>>, result |-> "none"]

TypeOK ==
    /\ {active, latest} \subseteq Channels \cup {None}
    /\ hub \in [Channels -> {"none", "swapped", "open", "leaving", "gone"}]
    /\ replaced \in [Channels -> Channels \cup {None}]
    /\ closed \subseteq Channels
    /\ wire \subseteq Channels
    /\ agent \in [Channels -> {"none", "serving", "draining", "gone"}]
    /\ send \in [Channels -> Seq([type : {"start", "stop"}, id : Streams])]
    /\ up \in [Channels -> Seq([id : Streams, body : 0..Fail])]
    /\ \A c \in Channels : Len(send[c]) <= SendQueue /\ Len(up[c]) <= UpQueue
    /\ registered \subseteq Streams
    /\ stream \in [Streams -> Stream]
    /\ \A s \in Streams : Len(stream[s].queue) <= StreamQueue
    /\ worker \in [Streams -> {"none", "running", "cancelled", "finished"}]
    /\ emitted \in [Streams -> 0..Lines]
    /\ unstopped \subseteq Streams
    /\ instance \in Instances

Init ==
    /\ active = None
    /\ latest = None
    /\ hub = [c \in Channels |-> "none"]
    /\ replaced = [c \in Channels |-> None]
    /\ closed = {}
    /\ wire = {}
    /\ agent = [c \in Channels |-> "none"]
    /\ send = [c \in Channels |-> <<>>]
    /\ up = [c \in Channels |-> <<>>]
    /\ registered = {}
    /\ stream = [s \in Streams |-> Unused]
    /\ worker = [s \in Streams |-> "none"]
    /\ emitted = [s \in Streams |-> 0]
    /\ unstopped = {}
    /\ instance \in Instances

-----------------------------------------------------------------------------
(* The queues of a channel's streams.                                      *)

Cut(s) == [stream[s] EXCEPT !.closes = @ + 1]

(* Mutant: the channel is only marked as closed.                           *)
closeAll_MarksOnly(c) ==
    /\ closed' = closed \cup {c}
    /\ UNCHANGED streamVars

(* closeAll, whose second call does nothing.                               *)
closeAll(c) ==
    LET mine == IF c \in closed THEN {} ELSE {s \in registered : stream[s].channel = c} IN
    /\ closed' = closed \cup {c}
    /\ registered' = registered \ mine
    /\ stream' = [s \in Streams |-> IF s \in mine THEN Cut(s) ELSE stream[s]]
    /\ UNCHANGED unstopped

(* Mutant: the queue of the stream is closed without a look at the map.    *)
removedStream_Unchecked(s) == Cut(s)

(* What removeStream does to the queue of the stream.                      *)
removedStream(s) == IF s \in registered THEN Cut(s) ELSE stream[s]

(* enqueue: can a control frame of stream s still be sent?                 *)
enqueues(s) ==
    /\ stream[s].channel \notin closed
    /\ Len(send[stream[s].channel]) < SendQueue

-----------------------------------------------------------------------------
(* The channel: handleAgentLogStream and Client.serve.                     *)

(* The agent, once its last channel has ended, dials, and the hub swaps    *)
(* the new channel in (first half of register).                            *)
connect(c) ==
    /\ agent[c] = "none"
    /\ c \in instance.channels
    /\ \A d \in Channels : agent[d] \in {"none", "gone"}
    /\ agent' = [agent EXCEPT ![c] = "serving"]
    /\ wire' = wire \cup {c}
    /\ hub' = [hub EXCEPT ![c] = "swapped"]
    /\ replaced' = [replaced EXCEPT ![c] = active]
    /\ active' = c
    /\ latest' = c
    /\ UNCHANGED <<closed, send, up, streamVars, workerVars>>

(* The second half: close the channel that was replaced.                   *)
register(c) ==
    /\ hub[c] = "swapped"
    /\ hub' = [hub EXCEPT ![c] = "open"]
    /\ IF replaced[c] # None THEN closeAll(replaced[c]) ELSE UNCHANGED <<closed, streamVars>>
    /\ UNCHANGED <<active, latest, replaced, wire, agent, send, up, workerVars>>

(* The connection fails, or the agent cancels it: its log client runs      *)
(* under a context that ends before the agent registers again.             *)
Break(c) ==
    /\ c \in wire
    /\ wire' = wire \ {c}
    /\ UNCHANGED <<active, latest, hub, replaced, closed, agent, send, up, streamVars, workerVars>>

(* Mutant: the cluster's entry goes, whosever it is.                       *)
activeAfter_Always(c) == None

(* The entry of the cluster after unregister(c).                           *)
activeAfter(c) == IF active = c THEN None ELSE active

(* The hub's reader or writer fails; first half of unregister.             *)
unregister(c) ==
    /\ hub[c] = "open"
    /\ c \notin wire
    /\ hub' = [hub EXCEPT ![c] = "leaving"]
    /\ active' = activeAfter(c)
    /\ UNCHANGED <<latest, replaced, closed, wire, agent, send, up, streamVars, workerVars>>

leave(c) ==
    /\ hub[c] = "leaving"
    /\ hub' = [hub EXCEPT ![c] = "gone"]
    /\ closeAll(c)
    /\ UNCHANGED <<active, latest, replaced, wire, agent, send, up, workerVars>>

(* The agent's reader or writer fails: serve cancels its workers and waits *)
(* for them before it returns.                                             *)
cancelWorkers(c) ==
    /\ agent[c] = "serving"
    /\ c \notin wire
    /\ agent' = [agent EXCEPT ![c] = "draining"]
    /\ worker' = [s \in Streams |->
          IF stream[s].channel = c /\ worker[s] = "running" THEN "cancelled" ELSE worker[s]]
    /\ UNCHANGED <<active, latest, hub, replaced, closed, wire, send, up, streamVars, emitted>>

endServe(c) ==
    /\ agent[c] = "draining"
    /\ \A s \in Streams : stream[s].channel = c => worker[s] \in {"none", "finished"}
    /\ agent' = [agent EXCEPT ![c] = "gone"]
    /\ UNCHANGED <<active, latest, hub, replaced, closed, wire, send, up, streamVars, workerVars>>

-----------------------------------------------------------------------------
(* A stream in the hub: handleClusterPodLogs and LogRelay.open.            *)

(* open looks the channel up; without one the answer is 503.               *)
connection(s) ==
    /\ stream[s].pc = "idle"
    /\ s \in instance.streams
    /\ active # None
    /\ stream' = [stream EXCEPT ![s].pc = "add", ![s].channel = active]
    /\ UNCHANGED <<channelVars, send, up, registered, unstopped, workerVars>>

addStream(s) ==
    /\ stream[s].pc = "add"
    /\ \/ /\ stream[s].channel \in closed
          /\ stream' = [stream EXCEPT ![s].pc = "done", ![s].result = "refused"]
          /\ UNCHANGED registered
       \/ /\ stream[s].channel \notin closed
          /\ stream' = [stream EXCEPT ![s].pc = "start"]
          /\ registered' = registered \cup {s}
    /\ UNCHANGED <<channelVars, send, up, unstopped, workerVars>>

sent(s, type) == [send EXCEPT ![stream[s].channel] = Append(@, [type |-> type, id |-> s])]

(* open sends the start frame, or gives up and removes the stream again.   *)
open(s) ==
    /\ stream[s].pc = "start"
    /\ \/ /\ enqueues(s)
          /\ send' = sent(s, "start")
          /\ stream' = [stream EXCEPT ![s].pc = "relay"]
       \/ /\ ~enqueues(s)
          /\ stream' = [stream EXCEPT ![s].pc = "remove", ![s].result = "refused"]
          /\ UNCHANGED send
    /\ UNCHANGED <<channelVars, up, registered, unstopped, workerVars>>

(* The SSE loop takes a frame, or sees that the queue has been closed.     *)
relay(s) ==
    LET q == stream[s].queue IN
    /\ stream[s].pc = "relay"
    /\ \/ /\ q # <<>>
          /\ Head(q) \in 1..Lines
          /\ stream' = [stream EXCEPT ![s].queue = Tail(@), ![s].got = Append(@, Head(q))]
       \/ /\ q # <<>>
          /\ Head(q) \in {End, Fail}
          /\ stream' = [stream EXCEPT ![s].queue = Tail(@), ![s].pc = "close",
                              ![s].result = IF Head(q) = End THEN "end" ELSE "error"]
       \/ /\ q = <<>>
          /\ stream[s].closes > 0
          /\ stream' = [stream EXCEPT ![s].pc = "close", ![s].result = "error"]
    /\ UNCHANGED <<channelVars, send, up, registered, unstopped, workerVars>>

(* The browser closes the tab.                                             *)
browserLeaves(s) ==
    /\ stream[s].pc = "relay"
    /\ stream' = [stream EXCEPT ![s].pc = "close", ![s].result = "left"]
    /\ UNCHANGED <<channelVars, send, up, registered, unstopped, workerVars>>

(* Mutant: only the hub's state is released.                               *)
Close_NoStop(s) ==
    /\ stream[s].pc = "close"
    /\ stream' = [stream EXCEPT ![s].pc = "remove"]
    /\ UNCHANGED <<channelVars, send, up, registered, unstopped, workerVars>>

(* Close: a stop frame for which there is no room is dropped.              *)
Close(s) ==
    /\ stream[s].pc = "close"
    /\ send' = IF enqueues(s) THEN sent(s, "stop") ELSE send
    /\ unstopped' = IF enqueues(s) THEN unstopped ELSE unstopped \cup {s}
    /\ stream' = [stream EXCEPT ![s].pc = "remove"]
    /\ UNCHANGED <<channelVars, up, registered, workerVars>>

(* removeStream, the second lock section of Close and of an open that      *)
(* fails: until then deliver and closeAll still find the stream.           *)
removeStream(s) ==
    /\ stream[s].pc = "remove"
    /\ stream' = [stream EXCEPT ![s] = [removedStream(s) EXCEPT !.pc = "done"]]
    /\ registered' = registered \ {s}
    /\ UNCHANGED <<channelVars, send, up, unstopped, workerVars>>

(* Mutant: a frame that does not fit is dropped and the stream goes on.    *)
delivered_Drops(s, body) ==
    IF Len(stream[s].queue) < StreamQueue
      THEN [stream[s] EXCEPT !.queue = Append(@, body),
                             !.closes = IF body \in {End, Fail} THEN @ + 1 ELSE @]
      ELSE stream[s]

(* Mutant: the queue of a stream grows without a bound.                    *)
delivered_Unbounded(s, body) ==
    [stream[s] EXCEPT !.queue = Append(@, body),
                      !.closes = IF body \in {End, Fail} THEN @ + 1 ELSE @]

(* Stream s once deliver has a frame for it.                               *)
delivered(s, body) ==
    IF Len(stream[s].queue) < StreamQueue
      THEN [stream[s] EXCEPT !.queue = Append(@, body),
                             !.closes = IF body \in {End, Fail} THEN @ + 1 ELSE @]
      ELSE Cut(s)

(* readAgentLogFrames: a stream whose queue deliver closes leaves the map. *)
deliver(c) ==
    LET frame == Head(up[c])
        s == frame.id IN
    /\ hub[c] = "open"
    /\ up[c] # <<>>
    /\ up' = [up EXCEPT ![c] = Tail(@)]
    /\ IF s \in registered
         THEN /\ stream' = [stream EXCEPT ![s] = delivered(s, frame.body)]
              /\ registered' = IF stream'[s].closes > 0 THEN registered \ {s} ELSE registered
              /\ UNCHANGED unstopped
         ELSE UNCHANGED streamVars
    /\ UNCHANGED <<channelVars, send, workerVars>>

-----------------------------------------------------------------------------
(* A stream in the agent.                                                  *)

(* The reader of serve handles a start or a stop frame.                    *)
startStream(c) ==
    LET frame == Head(send[c]) IN
    /\ agent[c] = "serving"
    /\ hub[c] = "open"
    /\ c \in wire
    /\ send[c] # <<>>
    /\ send' = [send EXCEPT ![c] = Tail(@)]
    /\ worker' = [worker EXCEPT ![frame.id] =
          CASE frame.type = "start" -> "running"
            [] frame.type = "stop" /\ @ = "running" -> "cancelled"
            [] OTHER -> @]
    /\ UNCHANGED <<channelVars, up, streamVars, emitted>>

answered(s, body) ==
    [up EXCEPT ![stream[s].channel] = Append(@, [id |-> s, body |-> body])]

(* Streamer.Stream has read another line of the pod's log.                 *)
hasLine(s) == worker[s] \in {"running", "cancelled"} /\ emitted[s] < instance.lines

(* sendFrame blocks while there is no room; when the stream has been       *)
(* cancelled as well, it may still choose to send.                         *)
sendFrame(s) ==
    /\ hasLine(s)
    /\ Len(up[stream[s].channel]) < UpQueue
    /\ emitted' = [emitted EXCEPT ![s] = @ + 1]
    /\ up' = answered(s, emitted[s] + 1)
    /\ UNCHANGED <<channelVars, send, streamVars, worker>>

(* The pod's log ends, or reading it fails.                                *)
runStream(s, body) ==
    /\ worker[s] = "running"
    /\ Len(up[stream[s].channel]) < UpQueue
    /\ up' = answered(s, body)
    /\ worker' = [worker EXCEPT ![s] = "finished"]
    /\ UNCHANGED <<channelVars, send, streamVars, emitted>>

(* Mutant: a worker with a line to send waits for room, cancelled or not.  *)
stopWorker_Blocks(s) ==
    /\ worker[s] = "cancelled"
    /\ emitted[s] < instance.lines => Len(up[stream[s].channel]) < UpQueue
    /\ worker' = [worker EXCEPT ![s] = "finished"]
    /\ UNCHANGED <<channelVars, send, up, streamVars, emitted>>

(* A cancelled worker returns, without an end frame.                       *)
stopWorker(s) ==
    /\ worker[s] = "cancelled"
    /\ worker' = [worker EXCEPT ![s] = "finished"]
    /\ UNCHANGED <<channelVars, send, up, streamVars, emitted>>

HubStep(s) == addStream(s) \/ open(s) \/ relay(s) \/ Close(s) \/ removeStream(s)

(* The hub's handler of a channel, and the agent's serve: of the steps of  *)
(* each at most one is possible at a time.                                 *)
HandlerStep(c) == register(c) \/ unregister(c) \/ leave(c)
ServeStep(c) == startStream(c) \/ cancelWorkers(c) \/ endServe(c)

ChannelStep(c) == HandlerStep(c) \/ deliver(c) \/ ServeStep(c)

Next ==
    /\ \/ \E c \in Channels : connect(c) \/ Break(c) \/ ChannelStep(c)
       \/ \E s \in Streams :
             \/ connection(s) \/ HubStep(s) \/ browserLeaves(s)
             \/ sendFrame(s) \/ stopWorker(s)
             \/ \E body \in {End, Fail} : runStream(s, body)
    /\ UNCHANGED instance

(* Goroutines run when they can.  Nothing is assumed of browsers, pods and *)
(* the network, and a pod may stay silent for ever.                        *)
Fairness ==
    /\ \A c \in Channels :
          /\ WF_vars(HandlerStep(c) /\ UNCHANGED instance)
          /\ WF_vars(deliver(c) /\ UNCHANGED instance)
          /\ WF_vars(ServeStep(c) /\ UNCHANGED instance)
    /\ \A s \in Streams :
          /\ WF_vars(HubStep(s) /\ UNCHANGED instance)
          /\ WF_vars(stopWorker(s) /\ UNCHANGED instance)

Spec == Init /\ [][Next]_vars
FairSpec == Spec /\ Fairness

-----------------------------------------------------------------------------
(* Properties.                                                             *)

(* deliver, closeAll, removeStream and the stream's own Close race for a   *)
(* queue, and never close one twice or send to a closed one: a queue in    *)
(* the map of a channel is open.                                           *)
QueuesClosedOnce ==
    \A s \in Streams :
        /\ stream[s].closes <= 1
        /\ s \in registered => stream[s].closes = 0

(* The logs as the browsers see them.                                      *)
Pipe == INSTANCE LogPipe WITH
    written <- emitted,
    shown <- [s \in Streams |-> stream[s].got],
    outcome <- [s \in Streams |-> stream[s].result]

(* A browser sees the lines of the pod in order and without a gap, and an  *)
(* "end" event only when it has seen them all: a stream that lost a line   *)
(* to a full queue or a lost channel is reported as broken, and nothing is *)
(* shown after that (deliver, handleClusterPodLogs).                       *)
ImplementsPipe == Pipe!Spec

(* The end of a stale channel never detaches the channel that replaced it: *)
(* as long as the latest one is served, requests go to it (unregister).    *)
LatestIsActive ==
    latest # None /\ hub[latest] \in {"swapped", "open"} => active = latest

(* A request whose channel is lost or replaced does not hang.              *)
StreamsEnd ==
    \A s \in Streams :
        stream[s].channel \in closed ~> stream[s].pc = "done"

(* The agent is not stuck with a dead channel, so that it can dial again:  *)
(* its workers end although nobody takes their lines (serve, sendFrame).   *)
ServeReturns ==
    \A c \in Channels : c \notin wire /\ agent[c] = "serving" ~> agent[c] = "gone"

(* docs/pod-logs.md: when a browser leaves, the agent cancels the stream,  *)
(* and no goroutine or watch is leaked: no worker goes on when its request *)
(* is over, except that one whose stop frame did not fit (Close, enqueue)  *)
(* follows its pod until the channel is lost.                              *)
WorkersStop ==
    \A s \in Streams :
        stream[s].pc = "done" ~>
            \/ worker[s] \in {"none", "finished"}
            \/ s \in unstopped /\ stream[s].channel \in wire
=============================================================================
