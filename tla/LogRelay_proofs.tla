-------------------------- MODULE LogRelay_proofs --------------------------
(***************************************************************************)
(* Theorems about LogRelay, for any number of channels, streams and lines  *)
(* and queues of any capacity.                                             *)
(***************************************************************************)
EXTENDS LogRelay, SequenceTheorems, TLAPS

Ends == {End, Fail}

(* The variables of a channel, with the property of its registration.      *)
ChannelInv ==
    /\ {active, latest} \subseteq Channels \cup {None}
    /\ hub \in [Channels -> {"none", "swapped", "open", "leaving", "gone"}]
    /\ replaced \in [Channels -> Channels \cup {None}]
    /\ closed \subseteq Channels
    /\ wire \subseteq Channels
    /\ agent \in [Channels -> {"none", "serving", "draining", "gone"}]
    /\ LatestIsActive

(* The types of the other variables.                                       *)
StreamTypes ==
    /\ send \in [Channels -> Seq([type : {"start", "stop"}, id : Streams])]
    /\ up \in [Channels -> Seq([id : Streams, body : 0..Fail])]
    /\ \A c \in Channels : Len(send[c]) <= SendQueue /\ Len(up[c]) <= UpQueue
    /\ registered \subseteq Streams
    /\ stream \in [Streams -> Stream]
    /\ \A s \in Streams : Len(stream[s].queue) <= StreamQueue
    /\ worker \in [Streams -> {"none", "running", "cancelled", "finished"}]
    /\ emitted \in [Streams -> 0..Lines]
    /\ unstopped \subseteq Streams
    /\ instance \in Instances

(* How far a request is, in the hub and in the agent; its queue is closed  *)
(* by leaving the map.                                                     *)
StageInv ==
    \A s \in Streams :
        /\ stream[s].pc # "idle" => stream[s].channel \in Channels
        /\ stream[s].pc \in {"idle", "add"} =>
              s \notin registered /\ stream[s].closes = 0 /\ stream[s].queue = <<>>
        /\ stream[s].pc \in {"idle", "add", "start"} =>
              worker[s] = "none" /\ stream[s].got = <<>>
        /\ stream[s].pc \in {"idle", "add", "start", "relay"} => stream[s].result = "none"
        /\ stream[s].result = "end" => worker[s] = "finished"
        /\ worker[s] = "none" => emitted[s] = 0
        /\ stream[s].closes <= 1
        /\ s \in registered => stream[s].closes = 0

(* A worker is started once: its start frame is the only one, and it has   *)
(* not run before.                                                         *)
StartInv ==
    \A c \in Channels : \A i \in 1..Len(send[c]) :
        LET s == send[c][i].id IN
        /\ stream[s].channel = c
        /\ stream[s].pc \notin {"idle", "add", "start"}
        /\ send[c][i].type = "start" =>
              /\ worker[s] = "none"
              /\ \A j \in 1..Len(send[c]) :
                    j # i /\ send[c][j].id = s => send[c][j].type = "stop"

(* The frames of a stream on their way to the hub are in order: lines that *)
(* grow, and an end only when the worker has finished, after all of them.  *)
UpInv ==
    \A c \in Channels : \A i \in 1..Len(up[c]) :
        LET s == up[c][i].id IN
        /\ stream[s].channel = c
        /\ worker[s] # "none"
        /\ up[c][i].body \in Ends => worker[s] = "finished"
        /\ up[c][i].body \notin Ends => up[c][i].body <= emitted[s]
        /\ \A j \in 1..(i - 1) :
              up[c][j].id = s =>
                  /\ up[c][j].body \notin Ends
                  /\ up[c][i].body \notin Ends => up[c][j].body < up[c][i].body

(* The queue of a stream goes on where the browser is; an end frame is the *)
(* last in it, and "end" comes after all the lines there are.              *)
QueueInv ==
    \A s \in Streams :
        LET q == stream[s].queue
            n == Len(stream[s].got) IN
        /\ n <= emitted[s]
        /\ \A i \in 1..Len(q) :
              \/ q[i] = n + i /\ n + i <= emitted[s]
              \/ /\ i = Len(q) /\ q[i] \in Ends /\ s \notin registered
                 /\ q[i] = End => n + i = emitted[s] + 1 /\ worker[s] = "finished"

(* Last line of the stream that the hub has taken from the channel.        *)
Taken(s) == Len(stream[s].got) + Len(stream[s].queue)

(* Of a stream that is still in the map nothing is lost: the lines that    *)
(* the hub has not taken are on the channel.                               *)
FlowInv ==
    \A s \in registered :
        LET u == up[stream[s].channel] IN
        /\ \A i \in 1..Len(u) :
              u[i].id = s /\ u[i].body \notin Ends => Taken(s) < u[i].body
        /\ \A n \in (Taken(s) + 1)..emitted[s] :
              \E i \in 1..Len(u) : u[i].id = s /\ u[i].body = n

StreamInv == StreamTypes /\ StageInv /\ StartInv /\ UpInv /\ QueueInv /\ FlowInv

-----------------------------------------------------------------------------
(* Constants and types, as the steps use them.                             *)

(* What the assumption on the constants says of the queues.                *)
LEMMA Constants ==
    /\ None \notin Channels
    /\ Lines \in Nat /\ SendQueue \in Nat /\ StreamQueue \in Nat /\ UpQueue \in Nat
    /\ \A i \in Instances : i.lines \in 0..Lines
    /\ End = 0 /\ Fail = Lines + 1 /\ Ends = {0, Lines + 1}
  BY ConstantsAssumption DEF End, Fail, Ends

(* The fields of the record of a stream.                                   *)
LEMMA StreamFields ==
  ASSUME StreamTypes, NEW s \in Streams
  PROVE  /\ stream[s] \in Stream
         /\ stream[s].queue \in Seq(0..Fail) /\ Len(stream[s].queue) \in Nat
         /\ stream[s].got \in Seq(1..Lines) /\ Len(stream[s].got) \in Nat
         /\ stream[s].closes \in Nat
         /\ emitted[s] \in 0..Lines
         /\ Taken(s) \in Nat
<1>1. stream[s] \in Stream /\ emitted[s] \in 0..Lines
  BY DEF StreamTypes
<1>2. /\ stream[s].queue \in Seq(0..Fail) /\ stream[s].got \in Seq(1..Lines)
      /\ stream[s].closes \in Nat
  BY <1>1 DEF Stream
<1>3. Len(stream[s].queue) \in Nat /\ Len(stream[s].got) \in Nat
  BY <1>2, LenProperties
<1>4. Taken(s) \in Nat
  <2>1. \A a, b \in Nat : a + b \in Nat
    OBVIOUS
  <2> QED BY <1>3, <2>1, Zenon DEF Taken
<1> QED BY <1>1, <1>2, <1>3, <1>4

(* The queues of a channel.                                                *)
LEMMA ChannelFields ==
  ASSUME StreamTypes, NEW c \in Channels
  PROVE  /\ send[c] \in Seq([type : {"start", "stop"}, id : Streams])
         /\ Len(send[c]) \in Nat
         /\ \A i \in 1..Len(send[c]) :
               send[c][i].id \in Streams /\ send[c][i].type \in {"start", "stop"}
         /\ up[c] \in Seq([id : Streams, body : 0..Fail])
         /\ Len(up[c]) \in Nat
         /\ \A i \in 1..Len(up[c]) : up[c][i].id \in Streams /\ up[c][i].body \in 0..Fail
<1>1. /\ send[c] \in Seq([type : {"start", "stop"}, id : Streams])
      /\ up[c] \in Seq([id : Streams, body : 0..Fail])
  BY DEF StreamTypes
<1>2. Len(send[c]) \in Nat /\ Len(up[c]) \in Nat
  BY <1>1, LenProperties
<1>3. /\ \A i \in 1..Len(send[c]) : send[c][i] \in [type : {"start", "stop"}, id : Streams]
      /\ \A i \in 1..Len(up[c]) : up[c][i] \in [id : Streams, body : 0..Fail]
  BY <1>1, ElementOfSeq
<1> QED BY <1>1, <1>2, <1>3

-----------------------------------------------------------------------------
(* Channels: which one requests go to.                                     *)

(* The relay starts without channels.                                      *)
LEMMA ChannelInit == Init => ChannelInv
  BY Constants DEF Init, ChannelInv, LatestIsActive

(* No step takes the entry of the cluster from the channel that was        *)
(* registered last while it is served.                                     *)
LEMMA ChannelKeeps ==
  ASSUME ChannelInv, StreamInv, [Next]_vars PROVE ChannelInv'
<1> USE DEF ChannelInv
<1>1. CASE UNCHANGED channelVars
  BY <1>1 DEF channelVars, LatestIsActive
<1>2. ASSUME NEW c \in Channels, connect(c) PROVE ChannelInv'
  BY <1>2, Constants DEF connect, LatestIsActive
<1>3. ASSUME NEW c \in Channels, register(c) PROVE ChannelInv'
  <2>1. closed' \subseteq Channels
    BY <1>3 DEF register, closeAll
  <2> QED BY <1>3, <2>1 DEF register, LatestIsActive
<1>4. ASSUME NEW c \in Channels, Break(c) PROVE ChannelInv'
  BY <1>4 DEF Break, LatestIsActive
<1>5. ASSUME NEW c \in Channels, unregister(c) PROVE ChannelInv'
  BY <1>5 DEF unregister, activeAfter, LatestIsActive
<1>6. ASSUME NEW c \in Channels, leave(c) PROVE ChannelInv'
  BY <1>6 DEF leave, closeAll, LatestIsActive
<1>7. ASSUME NEW c \in Channels, cancelWorkers(c) PROVE ChannelInv'
  BY <1>7 DEF cancelWorkers, LatestIsActive
<1>8. ASSUME NEW c \in Channels, endServe(c) PROVE ChannelInv'
  BY <1>8 DEF endServe, LatestIsActive
<1>9. ASSUME NEW c \in Channels, deliver(c) \/ startStream(c) PROVE ChannelInv'
  <2>1. UNCHANGED channelVars
    BY <1>9 DEF deliver, startStream
  <2> QED BY <1>1, <2>1
<1>10. ASSUME NEW s \in Streams,
              \/ connection(s) \/ HubStep(s) \/ browserLeaves(s)
              \/ sendFrame(s) \/ stopWorker(s)
              \/ \E body \in {End, Fail} : runStream(s, body)
       PROVE  ChannelInv'
  <2>1. UNCHANGED channelVars
    BY <1>10 DEF connection, HubStep, addStream, open, relay, Close, removeStream, browserLeaves,
                 sendFrame, stopWorker, runStream
  <2> QED BY <1>1, <2>1
<1> HIDE DEF ChannelInv
<1> QED BY <1>1, <1>2, <1>3, <1>4, <1>5, <1>6, <1>7, <1>8, <1>9, <1>10
        DEF Next, ChannelStep, HandlerStep, ServeStep, vars

-----------------------------------------------------------------------------
(* Streams: steps that leave the frames of the agent alone.                *)

(* The relay starts without streams, workers or frames.                    *)
LEMMA StreamInit == Init => StreamInv
<1> SUFFICES ASSUME Init PROVE StreamInv
  OBVIOUS
<1> USE Constants DEF Init
<1>1. StreamTypes
  <2>1. Unused \in Stream
    BY DEF Unused, Stream
  <2> QED BY <2>1 DEF StreamTypes, Unused
<1>2. StageInv
  BY DEF StageInv, Unused
<1>3. StartInv /\ UpInv
  BY DEF StartInv, UpInv
<1>4. QueueInv /\ FlowInv
  BY DEF QueueInv, FlowInv, Unused
<1> QED BY <1>1, <1>2, <1>3, <1>4 DEF StreamInv

(* A step of the hub that takes and queues no frame of the agent.          *)
LEMMA HubOnly ==
  ASSUME StreamInv, UNCHANGED <<up, worker, emitted, instance>>,
         StreamTypes', StageInv', StartInv', registered' \subseteq registered,
         \A s \in Streams :
            /\ worker[s] # "none" => stream'[s].channel = stream[s].channel
            /\ s \in registered => stream'[s].channel = stream[s].channel
            /\ stream'[s].queue = stream[s].queue
            /\ stream'[s].got = stream[s].got
  PROVE  StreamInv'
<1> USE DEF StreamInv
<1>1. UpInv'
  BY ChannelFields, SMTT(20) DEF UpInv
<1>2. QueueInv'
  BY ZenonT(30) DEF QueueInv
<1>3. FlowInv'
  <2>1. \A s \in registered' : s \in Streams /\ s \in registered /\ Taken(s)' = Taken(s)
    BY DEF StreamTypes, Taken
  <2> QED BY <2>1 DEF FlowInv
<1> QED BY <1>1, <1>2, <1>3

(* A step of the agent that sends no frame: a worker starts, is cancelled  *)
(* or returns.                                                             *)
LEMMA WorkersOnly ==
  ASSUME StreamInv, UNCHANGED <<up, streamVars, emitted, instance>>,
         StreamTypes', StartInv',
         \A s \in Streams :
            /\ worker[s] = "finished" => worker'[s] = "finished"
            /\ worker[s] # "none" => worker'[s] # "none"
            /\ stream[s].pc \in {"idle", "add", "start"} => worker'[s] = worker[s]
  PROVE  StreamInv'
<1> USE DEF StreamInv, streamVars
<1>1. StageInv'
  BY DEF StageInv
<1>2. UpInv'
  BY ChannelFields DEF UpInv
<1>3. QueueInv'
  BY DEF QueueInv
<1>4. FlowInv'
  <2>1. \A s : Taken(s)' = Taken(s)
    BY DEF Taken
  <2> QED BY <2>1 DEF FlowInv
<1> QED BY <1>1, <1>2, <1>3, <1>4

(* A queue that is cut was open.                                           *)
LEMMA CutStream ==
  ASSUME StreamTypes, StageInv, NEW s \in registered
  PROVE  /\ Cut(s) \in Stream /\ Cut(s).closes = 1
         /\ Cut(s).pc = stream[s].pc /\ Cut(s).channel = stream[s].channel
         /\ Cut(s).queue = stream[s].queue /\ Cut(s).got = stream[s].got
         /\ Cut(s).result = stream[s].result
         /\ s \in Streams /\ stream[s].pc \notin {"idle", "add"}
<1>1. s \in Streams /\ stream[s] \in Stream /\ stream[s].closes = 0
  BY DEF StreamTypes, StageInv
<1>2. stream[s].pc \notin {"idle", "add"}
  BY <1>1 DEF StageInv
<1>3. \A r \in Stream : r.closes = 0 =>
         LET q == [r EXCEPT !.closes = @ + 1] IN
         /\ q \in Stream /\ q.closes = 1 /\ q.pc = r.pc /\ q.channel = r.channel
         /\ q.queue = r.queue /\ q.got = r.got /\ q.result = r.result
  BY DEF Stream
<1> QED BY <1>1, <1>2, <1>3 DEF Cut

(* closeAll, whoever calls it.                                             *)
LEMMA CloseAllKeeps ==
  ASSUME StreamInv, NEW c, closeAll(c), UNCHANGED <<send, up, workerVars, instance>>
  PROVE  StreamInv'
<1> USE DEF StreamInv, workerVars
<1> DEFINE mine == IF c \in closed THEN {} ELSE {s \in registered : stream[s].channel = c}
<1>1. /\ registered' = registered \ mine /\ unstopped' = unstopped
      /\ stream' = [s \in Streams |-> IF s \in mine THEN Cut(s) ELSE stream[s]]
  BY DEF closeAll
<1>2. mine \subseteq registered
  OBVIOUS
<1> HIDE DEF mine
<1>3. ASSUME NEW s \in Streams
      PROVE  /\ stream'[s] \in Stream /\ stream'[s].channel = stream[s].channel
             /\ stream'[s].queue = stream[s].queue /\ stream'[s].got = stream[s].got
             /\ stream'[s].pc = stream[s].pc /\ stream'[s].result = stream[s].result
             /\ s \notin mine => stream'[s] = stream[s]
             /\ s \in mine => stream'[s].closes = 1 /\ stream[s].pc \notin {"idle", "add"}
  <2>1. CASE s \in mine
    BY <1>1, <1>2, <2>1, CutStream
  <2>2. CASE s \notin mine
    BY <1>1, <2>2 DEF StreamTypes
  <2> QED BY <2>1, <2>2
<1>4. StreamTypes'
  <2>1. stream' \in [Streams -> Stream]
    BY <1>1, <1>3
  <2> QED BY <1>1, <1>3, <2>1 DEF StreamTypes
<1>5. StageInv'
  BY <1>1, <1>2, <1>3 DEF StageInv, StreamTypes
<1>6. StartInv'
  BY <1>3, ChannelFields DEF StartInv
<1> QED BY <1>1, <1>3, <1>4, <1>5, <1>6, HubOnly

(* A step that changes nothing of the streams.                             *)
LEMMA StreamStutter ==
  ASSUME StreamInv, UNCHANGED <<send, up, registered, stream, unstopped, worker, emitted, instance>>
  PROVE  StreamInv'
<1> USE DEF StreamInv
<1>1. StreamTypes' /\ StageInv'
  BY DEF StreamTypes, StageInv
<1>2. StartInv'
  BY DEF StartInv
<1> QED BY <1>1, <1>2, HubOnly DEF StreamTypes

(* The steps of a channel that move no frames.                             *)
LEMMA ChannelStepsKeep ==
  ASSUME StreamInv, ChannelInv, UNCHANGED instance, NEW c \in Channels,
         connect(c) \/ Break(c) \/ register(c) \/ unregister(c) \/ leave(c) \/ endServe(c)
  PROVE  StreamInv'
<1>1. CASE UNCHANGED <<send, up, streamVars, workerVars>>
  BY <1>1, StreamStutter DEF streamVars, workerVars
<1>2. CASE register(c)
  <2>1. CASE replaced[c] # None
    BY <1>2, <2>1, CloseAllKeeps DEF register
  <2>2. CASE replaced[c] = None
    BY <1>1, <1>2, <2>2 DEF register
  <2> QED BY <2>1, <2>2
<1>3. CASE leave(c)
  BY <1>3, CloseAllKeeps DEF leave
<1> QED BY <1>1, <1>2, <1>3 DEF connect, Break, unregister, endServe

(* The agent cancels the workers of a channel.                             *)
LEMMA CancelWorkersKeeps ==
  ASSUME StreamInv, UNCHANGED instance, NEW c \in Channels, cancelWorkers(c)
  PROVE  StreamInv'
<1> USE DEF StreamInv, cancelWorkers, streamVars
<1>1. ASSUME NEW s \in Streams
      PROVE  /\ worker'[s] \in {"none", "running", "cancelled", "finished"}
             /\ worker'[s] # worker[s] => worker[s] = "running" /\ worker'[s] = "cancelled"
  BY DEF StreamTypes
<1>2. StreamTypes'
  <2>1. worker' \in [Streams -> {"none", "running", "cancelled", "finished"}]
    BY <1>1
  <2> QED BY <2>1 DEF StreamTypes
<1>3. StartInv'
  BY <1>1, ChannelFields DEF StartInv
<1>4. \A s \in Streams : stream[s].pc \in {"idle", "add", "start"} => worker[s] = "none"
  BY DEF StageInv
<1> QED BY <1>1, <1>2, <1>3, <1>4, WorkersOnly

(* A cancelled worker returns.                                             *)
LEMMA StopWorkerKeeps ==
  ASSUME StreamInv, UNCHANGED instance, NEW s \in Streams, stopWorker(s)
  PROVE  StreamInv'
<1> USE DEF StreamInv, stopWorker, streamVars
<1>1. \A t \in Streams : worker'[t] = IF t = s THEN "finished" ELSE worker[t]
  BY DEF StreamTypes
<1>2. StreamTypes'
  BY DEF StreamTypes
<1>a. UNCHANGED <<send, stream>> /\ worker[s] = "cancelled"
  OBVIOUS
<1>3. StartInv'
  <2>1. \A c \in Channels : \A i \in 1..Len(send[c]) :
           send[c][i].id \in Streams /\ (worker[send[c][i].id] = "none" => worker'[send[c][i].id] = "none")
    BY <1>1, <1>a, ChannelFields
  <2> HIDE DEF stopWorker
  <2> QED BY <1>a, <2>1 DEF StartInv
<1>4. stream[s].pc \notin {"idle", "add", "start"}
  BY <1>a DEF StageInv
<1> QED BY <1>1, <1>2, <1>3, <1>4, WorkersOnly

(* The agent takes a start or a stop frame; a start frame finds no worker. *)
LEMMA StartStreamKeeps ==
  ASSUME StreamInv, UNCHANGED instance, NEW c \in Channels, startStream(c)
  PROVE  StreamInv'
<1> USE DEF StreamInv
<1> DEFINE f == Head(send[c])
           S == [type : {"start", "stop"}, id : Streams]
<1>1. /\ send[c] \in Seq(S) /\ send[c] # <<>> /\ Len(send[c]) \in Nat /\ 1 \in 1..Len(send[c])
      /\ f = send[c][1] /\ f \in S
      /\ Tail(send[c]) \in Seq(S) /\ Len(Tail(send[c])) = Len(send[c]) - 1
      /\ \A i \in 1..Len(Tail(send[c])) : Tail(send[c])[i] = send[c][i + 1]
  <2>1. send[c] \in Seq(S) /\ send[c] # <<>> /\ Len(send[c]) \in Nat
    BY ChannelFields DEF startStream
  <2>2. 1 \in 1..Len(send[c])
    BY <2>1, EmptySeq
  <2>3. f = send[c][1] /\ f \in S
    <3>1. f = send[c][1]
      OBVIOUS
    <3>2. Head(send[c]) \in S
      BY <2>1, HeadTailProperties, Zenon
    <3> QED BY <3>1, <3>2
  <2>4. /\ Tail(send[c]) \in Seq(S) /\ Len(Tail(send[c])) = Len(send[c]) - 1
        /\ \A i \in 1..Len(Tail(send[c])) : Tail(send[c])[i] = send[c][i + 1]
    BY <2>1, HeadTailProperties
  <2> QED BY <2>1, <2>2, <2>3, <2>4
<1>2. /\ f.id \in Streams /\ f.type \in {"start", "stop"} /\ stream[f.id].channel = c
      /\ stream[f.id].pc \notin {"idle", "add", "start"}
      /\ f.type = "start" => worker[f.id] = "none"
  BY <1>1, ChannelFields DEF StartInv
<1>3. /\ send' = [send EXCEPT ![c] = Tail(send[c])]
      /\ UNCHANGED <<up, streamVars, emitted>>
      /\ \E w \in {"running", "cancelled", worker[f.id]} :
            /\ worker' = [worker EXCEPT ![f.id] = w]
            /\ f.type = "start" => w = "running"
            /\ f.type # "start" /\ w # worker[f.id] => worker[f.id] = "running"
  BY <1>2 DEF startStream
<1>4. PICK w \in {"running", "cancelled", worker[f.id]} :
            /\ worker' = [worker EXCEPT ![f.id] = w]
            /\ f.type = "start" => w = "running"
            /\ f.type # "start" /\ w # worker[f.id] => worker[f.id] = "running"
  BY <1>3
<1> HIDE DEF f
<1>5. \A t \in Streams : worker'[t] = IF t = f.id THEN w ELSE worker[t]
  BY <1>4 DEF StreamTypes
<1>6. StreamTypes'
  <2>1. send' \in [Channels -> Seq(S)]
    BY <1>1, <1>3 DEF StreamTypes
  <2>2. w \in {"none", "running", "cancelled", "finished"}
    BY <1>2, <1>4 DEF StreamTypes
  <2>3. worker' \in [Streams -> {"none", "running", "cancelled", "finished"}]
    BY <1>4, <2>2 DEF StreamTypes
  <2>4. \A d \in Channels : Len(send'[d]) <= SendQueue
    BY <1>1, <1>3, Constants DEF StreamTypes
  <2> QED BY <1>3, <2>1, <2>3, <2>4 DEF StreamTypes, streamVars
<1>7. StartInv'
  <2> SUFFICES ASSUME NEW d \in Channels, NEW i \in 1..Len(send'[d])
               PROVE  LET t == send'[d][i].id IN
                      /\ stream[t].channel = d
                      /\ stream[t].pc \notin {"idle", "add", "start"}
                      /\ send'[d][i].type = "start" =>
                            /\ worker'[t] = "none"
                            /\ \A j \in 1..Len(send'[d]) :
                                  j # i /\ send'[d][j].id = t => send'[d][j].type = "stop"
    <3>1. stream' = stream
      BY <1>3 DEF streamVars
    <3> QED BY <3>1 DEF StartInv
  <2>1. CASE d = c
    <3>1. /\ send'[d] = Tail(send[c]) /\ Len(send'[d]) = Len(send[c]) - 1
          /\ \A j \in 1..Len(send'[d]) : j + 1 \in 1..Len(send[c]) /\ send'[d][j] = send[c][j + 1]
      BY <1>1, <1>3, <2>1 DEF StreamTypes
    <3>2. send'[d][i].id \in Streams
      BY <3>1, ChannelFields
    <3>3. ASSUME send'[d][i].type = "start" PROVE worker'[send'[d][i].id] = "none"
      <4>1. worker[send'[d][i].id] = "none"
        BY <3>1, <3>3 DEF StartInv
      <4>2. CASE send'[d][i].id = f.id
        <5>1. f.type = "stop"
          BY <1>1, <3>1, <3>3, <4>2 DEF StartInv
        <5> QED BY <1>4, <1>5, <3>2, <4>1, <4>2, <5>1
      <4>3. CASE send'[d][i].id # f.id
        BY <1>5, <3>2, <4>1, <4>3
      <4> QED BY <4>2, <4>3
    <3> QED BY <2>1, <3>1, <3>3 DEF StartInv
  <2>2. CASE d # c
    <3>1. send'[d] = send[d]
      BY <1>3, <2>2 DEF StreamTypes
    <3>2. send[d][i].id \in Streams /\ stream[send[d][i].id].channel = d
      BY <3>1, ChannelFields DEF StartInv
    <3>3. send[d][i].id # f.id
      BY <1>2, <2>2, <3>2
    <3> QED BY <1>5, <3>1, <3>2, <3>3 DEF StartInv
  <2> QED BY <2>1, <2>2
<1> QED BY <1>2, <1>3, <1>4, <1>5, <1>6, <1>7, WorkersOnly

-----------------------------------------------------------------------------
(* Streams: the request in the hub.                                        *)

(* What changing the stage of a request leaves alone.                      *)
LEMMA StageChanged ==
  ASSUME NEW r \in Stream, NEW pc \in {"add", "start", "relay", "close", "remove", "done"},
         NEW result \in {"none", "end", "error", "left", "refused"}
  PROVE  LET q == [r EXCEPT !.pc = pc, !.result = result] IN
         /\ q \in Stream /\ q.pc = pc /\ q.result = result /\ q.channel = r.channel
         /\ q.queue = r.queue /\ q.got = r.got /\ q.closes = r.closes
  BY DEF Stream

(* A request that moves on.                                                *)
LEMMA PcChanged ==
  ASSUME NEW r \in Stream, NEW pc \in {"add", "start", "relay", "close", "remove", "done"}
  PROVE  LET q == [r EXCEPT !.pc = pc] IN
         /\ q \in Stream /\ q.pc = pc /\ q.result = r.result /\ q.channel = r.channel
         /\ q.queue = r.queue /\ q.got = r.got /\ q.closes = r.closes
  BY DEF Stream

(* A request that removeStream has released.                               *)
LEMMA StreamRemoved ==
  ASSUME StreamTypes, StageInv, NEW s \in Streams
  PROVE  /\ removedStream(s) \in Stream /\ removedStream(s).closes <= 1
         /\ removedStream(s).channel = stream[s].channel
         /\ removedStream(s).queue = stream[s].queue /\ removedStream(s).got = stream[s].got
         /\ removedStream(s).result = stream[s].result
<1>1. CASE s \in registered
  BY <1>1, CutStream DEF removedStream
<1>2. CASE s \notin registered
  BY <1>2 DEF removedStream, StreamTypes, StageInv
<1> QED BY <1>1, <1>2

(* The cluster's channel is looked up for an unused request.               *)
LEMMA ConnectionKeeps ==
  ASSUME StreamInv, ChannelInv, UNCHANGED instance, NEW s \in Streams, connection(s)
  PROVE  StreamInv'
<1> USE DEF StreamInv
<1> DEFINE r == [stream[s] EXCEPT !.pc = "add", !.channel = active]
<1>1. /\ stream[s] \in Stream /\ stream[s].pc = "idle" /\ active \in Channels
      /\ UNCHANGED <<send, up, registered, unstopped, worker, emitted>>
  BY DEF connection, StreamTypes, ChannelInv, workerVars
<1>2. /\ r \in Stream /\ r.pc = "add" /\ r.channel = active /\ r.queue = stream[s].queue
      /\ r.got = stream[s].got /\ r.closes = stream[s].closes /\ r.result = stream[s].result
  <2>1. \A x \in Stream, c \in Channels :
           LET q == [x EXCEPT !.pc = "add", !.channel = c] IN
           /\ q \in Stream /\ q.pc = "add" /\ q.channel = c /\ q.queue = x.queue
           /\ q.got = x.got /\ q.closes = x.closes /\ q.result = x.result
    BY DEF Stream
  <2> QED BY <1>1, <2>1
<1>3. stream' = [stream EXCEPT ![s] = r]
  BY DEF connection
<1> HIDE DEF r
<1>4. \A t \in Streams : stream'[t] = IF t = s THEN r ELSE stream[t]
  BY <1>3 DEF StreamTypes
<1>5. StreamTypes'
  <2>1. stream' \in [Streams -> Stream]
    BY <1>2, <1>3 DEF StreamTypes
  <2> QED BY <1>1, <1>2, <1>4, <2>1 DEF StreamTypes
<1>6. StageInv'
  BY <1>1, <1>2, <1>4 DEF StageInv
<1>7. StartInv'
  <2>1. \A c \in Channels : \A i \in 1..Len(send[c]) :
           send[c][i].id \in Streams /\ send[c][i].id # s
    BY <1>1, ChannelFields DEF StartInv
  <2> QED BY <1>1, <1>4, <2>1 DEF StartInv
<1>8. worker[s] = "none" /\ s \notin registered
  BY <1>1 DEF StageInv
<1> QED BY <1>1, <1>2, <1>4, <1>5, <1>6, <1>7, <1>8, HubOnly

(* A request enters the map: its worker has not started.                   *)
LEMMA AddStreamKeeps ==
  ASSUME StreamInv, UNCHANGED instance, NEW s \in Streams, addStream(s)
  PROVE  StreamInv'
<1> USE DEF StreamInv
<1>1. /\ stream[s] \in Stream /\ stream[s].pc = "add"
      /\ UNCHANGED <<send, up, unstopped, worker, emitted>>
      /\ worker[s] = "none" /\ s \notin registered /\ stream[s].channel \in Channels
      /\ emitted[s] = 0 /\ stream[s].queue = <<>> /\ stream[s].got = <<>>
      /\ stream[s].closes = 0 /\ stream[s].result = "none"
  <2>1. stream[s] \in Stream
    BY DEF StreamTypes
  <2>2. stream[s].pc = "add" /\ UNCHANGED <<send, up, unstopped, worker, emitted>>
    BY DEF addStream, workerVars
  <2> QED BY <2>1, <2>2 DEF StageInv
<1>2. ASSUME NEW r \in Stream, r.channel = stream[s].channel, r.queue = <<>>, r.got = <<>>,
             r.closes = 0, r.pc \in {"start", "done"}, r.result \in {"none", "refused"},
             r.pc = "start" => r.result = "none",
             stream' = [stream EXCEPT ![s] = r],
             registered' = IF r.pc = "start" THEN registered \cup {s} ELSE registered
      PROVE  StreamInv'
  <2>1. \A t \in Streams : stream'[t] = IF t = s THEN r ELSE stream[t]
    BY <1>2 DEF StreamTypes
  <2>2. StreamTypes'
    <3>1. stream' \in [Streams -> Stream]
      BY <1>2 DEF StreamTypes
    <3> QED BY <1>1, <1>2, <2>1, <3>1 DEF StreamTypes
  <2>3. StageInv'
    BY <1>1, <1>2, <2>1 DEF StageInv
  <2>4. StartInv'
    BY <1>1, <1>2, <2>1, ChannelFields DEF StartInv
  <2>5. UpInv'
    BY <1>1, <1>2, <2>1, ChannelFields DEF UpInv
  <2>6. QueueInv'
    BY <1>1, <1>2, <2>1 DEF QueueInv
  <2>7. FlowInv'
    <3>1. ASSUME NEW t \in registered, t # s
          PROVE  t \in Streams /\ stream'[t] = stream[t] /\ Taken(t)' = Taken(t)
      BY <2>1, <3>1 DEF StreamTypes, Taken
    <3>2. stream'[s].channel = stream[s].channel /\ Taken(s)' = 0
      <4>1. stream'[s] = r /\ Len(r.got) = 0 /\ Len(r.queue) = 0
        BY <1>2, <2>1
      <4>2. Taken(s)' = Len(r.got) + Len(r.queue)
        BY <4>1 DEF Taken
      <4> QED BY <1>2, <4>1, <4>2
    <3>3. \A i \in 1..Len(up[stream[s].channel]) : up[stream[s].channel][i].id # s
      BY <1>1 DEF UpInv
    <3>4. (Taken(s)' + 1)..emitted[s] = {}
      BY <1>1, <3>2
    <3> SUFFICES ASSUME NEW t \in registered'
                 PROVE  LET u == up[stream'[t].channel] IN
                        /\ \A i \in 1..Len(u) :
                              u[i].id = t /\ u[i].body \notin Ends => Taken(t)' < u[i].body
                        /\ \A n \in (Taken(t)' + 1)..emitted[t] :
                              \E i \in 1..Len(u) : u[i].id = t /\ u[i].body = n
      BY <1>1 DEF FlowInv
    <3>5. CASE t = s
      BY <3>2, <3>3, <3>4, <3>5
    <3>6. CASE t # s
      BY <1>2, <3>1, <3>6 DEF FlowInv
    <3> QED BY <3>5, <3>6
  <2> QED BY <2>2, <2>3, <2>4, <2>5, <2>6, <2>7
<1>3. CASE stream[s].channel \in closed
  <2> DEFINE r == [stream[s] EXCEPT !.pc = "done", !.result = "refused"]
  <2>1. stream' = [stream EXCEPT ![s] = r] /\ registered' = registered
    BY <1>3 DEF addStream
  <2>2. /\ r \in Stream /\ r.pc = "done" /\ r.result = "refused" /\ r.channel = stream[s].channel
        /\ r.queue = <<>> /\ r.got = <<>> /\ r.closes = 0
    <3>1. \A x \in Stream : LET q == [x EXCEPT !.pc = "done", !.result = "refused"] IN
             /\ q \in Stream /\ q.pc = "done" /\ q.result = "refused" /\ q.channel = x.channel
             /\ q.queue = x.queue /\ q.got = x.got /\ q.closes = x.closes
      BY StageChanged, ZenonT(30)
    <3> QED BY <1>1, <3>1
  <2> HIDE DEF r
  <2> QED BY <1>2, <2>1, <2>2
<1>4. CASE stream[s].channel \notin closed
  <2> DEFINE r == [stream[s] EXCEPT !.pc = "start"]
  <2>1. stream' = [stream EXCEPT ![s] = r] /\ registered' = registered \cup {s}
    BY <1>4 DEF addStream
  <2>2. /\ r \in Stream /\ r.pc = "start" /\ r.result = "none" /\ r.channel = stream[s].channel
        /\ r.queue = <<>> /\ r.got = <<>> /\ r.closes = 0
    BY <1>1, PcChanged
  <2> HIDE DEF r
  <2> QED BY <1>2, <2>1, <2>2
<1> QED BY <1>3, <1>4

(* A control frame at the end of the queue of its channel.                 *)
LEMMA ControlSent ==
  ASSUME StreamInv, NEW s \in Streams, NEW type \in {"start", "stop"},
         stream[s].channel \in Channels, enqueues(s), send' = sent(s, type)
  PROVE  LET c == stream[s].channel IN
         /\ send' \in [Channels -> Seq([type : {"start", "stop"}, id : Streams])]
         /\ \A d \in Channels : Len(send'[d]) <= SendQueue
         /\ \A d \in Channels \ {c} : send'[d] = send[d]
         /\ Len(send[c]) \in Nat /\ Len(send'[c]) = Len(send[c]) + 1
         /\ \A i \in 1..Len(send[c]) : send'[c][i] = send[c][i]
         /\ send'[c][Len(send[c]) + 1].type = type
         /\ send'[c][Len(send[c]) + 1].id = s
<1> DEFINE c == stream[s].channel
           S == [type : {"start", "stop"}, id : Streams]
           f == [type |-> type, id |-> s]
<1>1. /\ send \in [Channels -> Seq(S)] /\ \A d \in Channels : Len(send[d]) <= SendQueue
      /\ send[c] \in Seq(S) /\ Len(send[c]) \in Nat
  BY ChannelFields DEF StreamInv, StreamTypes
<1>2. f \in S /\ send' = [send EXCEPT ![c] = Append(send[c], f)] /\ Len(send[c]) < SendQueue
  BY DEF sent, enqueues
<1> HIDE DEF f, S, c
<1>3. /\ Append(send[c], f) \in Seq(S) /\ Len(Append(send[c], f)) = Len(send[c]) + 1
      /\ \A i \in 1..Len(send[c]) : Append(send[c], f)[i] = send[c][i]
      /\ Append(send[c], f)[Len(send[c]) + 1] = f
  BY <1>1, <1>2, AppendProperties
<1>4. c \in Channels /\ send'[c] = Append(send[c], f) /\ \A d \in Channels \ {c} : send'[d] = send[d]
  BY <1>1, <1>2 DEF c
<1>5. send' \in [Channels -> Seq(S)]
  BY <1>1, <1>2, <1>3
<1>6. \A d \in Channels : Len(send'[d]) <= SendQueue
  BY <1>1, <1>2, <1>3, <1>4, Constants
<1>7. f.type = type /\ f.id = s
  BY DEF f
<1> QED BY <1>1, <1>3, <1>4, <1>5, <1>6, <1>7 DEF c, S

(* A request is started, stopped or released.                              *)
LEMMA ControlKeeps ==
  ASSUME StreamInv, UNCHANGED <<up, worker, emitted, instance>>, NEW s \in Streams, NEW r \in Stream,
         stream[s].pc \in {"start", "close", "remove"}, stream' = [stream EXCEPT ![s] = r],
         r.channel = stream[s].channel, r.queue = stream[s].queue, r.got = stream[s].got,
         r.closes <= 1, r.pc \in {"relay", "remove", "done"}, r.pc = "relay" => r.result = "none",
         r.result = "end" => stream[s].result = "end",
         \/ registered' = registered \ {s}
         \/ registered' = registered /\ r.closes = stream[s].closes,
         unstopped' \subseteq Streams,
         \/ send' = send
         \/ enqueues(s) /\ send' = sent(s, "stop")
         \/ enqueues(s) /\ send' = sent(s, "start") /\ stream[s].pc = "start"
  PROVE  StreamInv'
<1> USE DEF StreamInv
<1>1. \A t \in Streams : stream'[t] = IF t = s THEN r ELSE stream[t]
  BY DEF StreamTypes
<1>2. stream[s].channel \in Channels
  BY DEF StageInv
<1>3. StreamTypes'
  <2>1. stream' \in [Streams -> Stream]
    BY DEF StreamTypes
  <2>2. /\ send' \in [Channels -> Seq([type : {"start", "stop"}, id : Streams])]
        /\ \A d \in Channels : Len(send'[d]) <= SendQueue
    BY <1>2, ControlSent DEF StreamTypes
  <2>3. registered' \subseteq Streams
    BY DEF StreamTypes
  <2>4. \A t \in Streams : Len(stream'[t].queue) <= StreamQueue
    BY <1>1 DEF StreamTypes
  <2> QED BY <2>1, <2>2, <2>3, <2>4 DEF StreamTypes
<1>4. StageInv'
  BY <1>1, <1>2 DEF StageInv
<1>5. StartInv'
  <2>1. CASE send' = send
    BY <1>1, <2>1, ChannelFields DEF StartInv
  <2>2. ASSUME NEW type \in {"start", "stop"}, enqueues(s), send' = sent(s, type),
               type = "start" => stream[s].pc = "start"
        PROVE  StartInv'
    <3> DEFINE c == stream[s].channel
    <3>1. /\ \A d \in Channels \ {c} : send'[d] = send[d]
          /\ Len(send[c]) \in Nat /\ Len(send'[c]) = Len(send[c]) + 1
          /\ \A i \in 1..Len(send[c]) : send'[c][i] = send[c][i]
          /\ send'[c][Len(send[c]) + 1].type = type
          /\ send'[c][Len(send[c]) + 1].id = s
      BY <1>2, <2>2, ControlSent
    <3>2. type = "start" => worker[s] = "none" /\ \A i \in 1..Len(send[c]) : send[c][i].id # s
      BY <1>2, <2>2 DEF StageInv, StartInv
    <3> SUFFICES ASSUME NEW d \in Channels, NEW i \in 1..Len(send'[d])
                 PROVE  LET t == send'[d][i].id IN
                        /\ stream'[t].channel = d
                        /\ stream'[t].pc \notin {"idle", "add", "start"}
                        /\ send'[d][i].type = "start" =>
                              /\ worker[t] = "none"
                              /\ \A j \in 1..Len(send'[d]) :
                                    j # i /\ send'[d][j].id = t => send'[d][j].type = "stop"
      BY DEF StartInv
    <3>3. CASE d # c
      <4>1. send'[d] = send[d] /\ send[d][i].id \in Streams
        BY <3>1, <3>3, ChannelFields
      <4> QED BY <1>1, <4>1 DEF StartInv
    <3>4. CASE d = c /\ i \in 1..Len(send[c])
      <4>1. send'[c][i] = send[c][i] /\ send[c][i].id \in Streams
        BY <1>2, <3>1, <3>4, ChannelFields
      <4>2. \A j \in 1..Len(send'[c]) : j \in 1..Len(send[c]) \/ j = Len(send[c]) + 1
        BY <3>1
      <4>3. type = "start" => send[c][i].id # s
        BY <3>2, <3>4
      <4>4. /\ stream[send[c][i].id].channel = c
            /\ stream[send[c][i].id].pc \notin {"idle", "add", "start"}
        BY <1>2, <3>4 DEF StartInv
      <4>5. ASSUME send[c][i].type = "start", NEW j \in 1..Len(send'[c]), j # i,
                   send'[c][j].id = send[c][i].id
            PROVE  send'[c][j].type = "stop"
        <5>1. CASE j \in 1..Len(send[c])
          <6>1. send'[c][j] = send[c][j]
            BY <3>1, <5>1
          <6> QED BY <1>2, <3>4, <4>5, <5>1, <6>1 DEF StartInv
        <5>2. CASE j = Len(send[c]) + 1
          BY <2>2, <3>1, <4>3, <4>5, <5>2
        <5> QED BY <4>2, <5>1, <5>2
      <4>6. send[c][i].type = "start" => worker[send[c][i].id] = "none"
        BY <1>2, <3>4 DEF StartInv
      <4> QED BY <1>1, <3>4, <4>1, <4>4, <4>5, <4>6
    <3>5. CASE d = c /\ i = Len(send[c]) + 1
      <4>1. \A j \in 1..Len(send'[c]) : j # i => j \in 1..Len(send[c])
        BY <3>1, <3>5
      <4> QED BY <1>1, <3>1, <3>2, <3>5, <4>1
    <3> QED BY <3>1, <3>3, <3>4, <3>5, SMTT(20)
  <2> QED BY <2>1, <2>2
<1> QED BY <1>1, <1>3, <1>4, <1>5, HubOnly

(* The SSE loop ends, and takes no frame.                                  *)
LEMMA HubMovesOn ==
  ASSUME StreamInv, UNCHANGED <<send, up, worker, emitted, registered, unstopped, instance>>,
         NEW s \in Streams, NEW r \in Stream,
         stream[s].pc = "relay", stream' = [stream EXCEPT ![s] = r],
         r.channel = stream[s].channel, r.queue = stream[s].queue, r.got = stream[s].got,
         r.closes = stream[s].closes, r.pc = "close", r.result # "end"
  PROVE  StreamInv'
<1> USE DEF StreamInv
<1>1. \A t \in Streams : stream'[t] = IF t = s THEN r ELSE stream[t]
  BY DEF StreamTypes
<1>2. StreamTypes'
  <2>1. stream' \in [Streams -> Stream]
    BY DEF StreamTypes
  <2> QED BY <1>1, <2>1 DEF StreamTypes
<1>3. StageInv'
  BY <1>1 DEF StageInv
<1>4. StartInv'
  BY <1>1, ChannelFields DEF StartInv
<1> QED BY <1>1, <1>2, <1>3, <1>4, HubOnly DEF StreamTypes

(* The request is started, or given up.                                    *)
LEMMA OpenKeeps ==
  ASSUME StreamInv, UNCHANGED instance, NEW s \in Streams, open(s)
  PROVE  StreamInv'
<1>1. /\ stream[s] \in Stream /\ stream[s].pc = "start" /\ stream[s].result = "none"
      /\ stream[s].closes <= 1 /\ unstopped \subseteq Streams
  BY DEF open, StreamInv, StreamTypes, StageInv
<1>2. UNCHANGED <<up, worker, emitted, unstopped>>
  BY DEF open, workerVars
<1>3. CASE enqueues(s)
  <2> DEFINE r == [stream[s] EXCEPT !.pc = "relay"]
  <2>1. stream' = [stream EXCEPT ![s] = r] /\ registered' = registered /\ send' = sent(s, "start")
    BY <1>3 DEF open
  <2>2. /\ r \in Stream /\ r.pc = "relay" /\ r.result = "none" /\ r.channel = stream[s].channel
        /\ r.queue = stream[s].queue /\ r.got = stream[s].got /\ r.closes = stream[s].closes
    BY <1>1, PcChanged
  <2> HIDE DEF r
  <2> QED BY <1>1, <1>2, <1>3, <2>1, <2>2, ControlKeeps
<1>4. CASE ~enqueues(s)
  <2> DEFINE r == [stream[s] EXCEPT !.pc = "remove", !.result = "refused"]
  <2>1. stream' = [stream EXCEPT ![s] = r] /\ registered' = registered /\ send' = send
    BY <1>4 DEF open
  <2>2. \A x \in Stream : LET q == [x EXCEPT !.pc = "remove", !.result = "refused"] IN
           /\ q \in Stream /\ q.pc = "remove" /\ q.result = "refused" /\ q.channel = x.channel
           /\ q.queue = x.queue /\ q.got = x.got /\ q.closes = x.closes
    BY StageChanged, ZenonT(30)
  <2>3. /\ r \in Stream /\ r.pc = "remove" /\ r.result = "refused" /\ r.channel = stream[s].channel
        /\ r.queue = stream[s].queue /\ r.got = stream[s].got /\ r.closes = stream[s].closes
    BY <1>1, <2>2
  <2> HIDE DEF r
  <2> QED BY <1>1, <1>2, <2>1, <2>3, ControlKeeps
<1> QED BY <1>3, <1>4

(* The request is over: the agent is told.                                 *)
LEMMA CloseKeeps ==
  ASSUME StreamInv, UNCHANGED instance, NEW s \in Streams, Close(s)
  PROVE  StreamInv'
<1> DEFINE r == [stream[s] EXCEPT !.pc = "remove"]
<1>1. /\ stream[s].pc = "close" /\ UNCHANGED <<up, worker, emitted, registered>>
      /\ stream[s] \in Stream /\ stream[s].closes <= 1
  BY DEF Close, workerVars, StreamInv, StreamTypes, StageInv
<1>2. /\ stream' = [stream EXCEPT ![s] = r]
      /\ send' = send \/ (enqueues(s) /\ send' = sent(s, "stop"))
  BY DEF Close
<1>3. unstopped' \subseteq Streams
  BY DEF Close, StreamInv, StreamTypes
<1>4. /\ r \in Stream /\ r.pc = "remove" /\ r.result = stream[s].result
      /\ r.channel = stream[s].channel
      /\ r.queue = stream[s].queue /\ r.got = stream[s].got /\ r.closes = stream[s].closes
  BY <1>1, PcChanged
<1> HIDE DEF r
<1> QED BY <1>1, <1>2, <1>3, <1>4, ControlKeeps

(* The request leaves the map.                                             *)
LEMMA RemoveStreamKeeps ==
  ASSUME StreamInv, UNCHANGED instance, NEW s \in Streams, removeStream(s)
  PROVE  StreamInv'
<1> DEFINE r == [removedStream(s) EXCEPT !.pc = "done"]
<1>1. stream[s].pc = "remove" /\ UNCHANGED <<send, up, worker, emitted>>
  BY DEF removeStream, workerVars
<1>2. stream' = [stream EXCEPT ![s] = r] /\ registered' = registered \ {s}
  BY DEF removeStream
<1>3. unstopped' \subseteq Streams
  BY DEF removeStream, StreamInv, StreamTypes
<1>4. /\ r \in Stream /\ r.pc = "done" /\ r.result = stream[s].result
      /\ r.channel = stream[s].channel
      /\ r.queue = stream[s].queue /\ r.got = stream[s].got /\ r.closes <= 1
  <2>1. /\ removedStream(s) \in Stream /\ removedStream(s).closes <= 1
        /\ removedStream(s).channel = stream[s].channel
        /\ removedStream(s).queue = stream[s].queue /\ removedStream(s).got = stream[s].got
        /\ removedStream(s).result = stream[s].result
    BY StreamRemoved DEF StreamInv
  <2>2. \A x \in Stream : LET q == [x EXCEPT !.pc = "done"] IN
           /\ q \in Stream /\ q.pc = "done" /\ q.result = x.result /\ q.channel = x.channel
           /\ q.queue = x.queue /\ q.got = x.got /\ q.closes = x.closes
    BY PcChanged
  <2> QED BY <2>1, <2>2
<1> HIDE DEF r
<1> QED BY <1>1, <1>2, <1>3, <1>4, ControlKeeps

(* The browser closes the tab.                                             *)
LEMMA BrowserLeavesKeeps ==
  ASSUME StreamInv, UNCHANGED instance, NEW s \in Streams, browserLeaves(s)
  PROVE  StreamInv'
<1> DEFINE r == [stream[s] EXCEPT !.pc = "close", !.result = "left"]
<1>1. stream[s].pc = "relay" /\ UNCHANGED <<send, up, worker, emitted, registered, unstopped>>
  BY DEF browserLeaves, workerVars
<1>2. stream' = [stream EXCEPT ![s] = r]
  BY DEF browserLeaves
<1>3. \A x \in Stream : LET q == [x EXCEPT !.pc = "close", !.result = "left"] IN
         /\ q \in Stream /\ q.pc = "close" /\ q.result = "left" /\ q.channel = x.channel
         /\ q.queue = x.queue /\ q.got = x.got /\ q.closes = x.closes
  BY DEF Stream
<1>4. stream[s] \in Stream
  BY DEF StreamInv, StreamTypes
<1>5. /\ r \in Stream /\ r.pc = "close" /\ r.result = "left" /\ r.channel = stream[s].channel
      /\ r.queue = stream[s].queue /\ r.got = stream[s].got /\ r.closes = stream[s].closes
  BY <1>3, <1>4
<1> HIDE DEF r
<1> QED BY <1>1, <1>2, <1>5, HubMovesOn

(* The first frame of the queue of a stream: the line that the browser     *)
(* needs next, or the end, after which there is no other.                  *)
LEMMA FirstQueued ==
  ASSUME StreamInv, NEW s \in Streams, stream[s].queue # <<>>
  PROVE  LET q == stream[s].queue
             n == Len(stream[s].got) IN
         /\ Len(q) \in Nat /\ n \in Nat /\ Len(q) >= 1 /\ emitted[s] \in 0..Lines
         /\ Head(q) = q[1]
         /\ Tail(q) \in Seq(0..Fail) /\ Len(Tail(q)) = Len(q) - 1
         /\ \A i \in 1..Len(Tail(q)) : Tail(q)[i] = q[i + 1]
         /\ Head(q) \in 1..Lines => Head(q) = n + 1 /\ n + 1 <= emitted[s]
         /\ Head(q) \in Ends =>
               /\ Len(q) = 1 /\ s \notin registered
               /\ Head(q) = End => n = emitted[s] /\ worker[s] = "finished"
<1> DEFINE q == stream[s].queue
           n == Len(stream[s].got)
<1>1. q \in Seq(0..Fail) /\ Len(q) \in Nat /\ n \in Nat /\ emitted[s] \in 0..Lines
  BY StreamFields DEF StreamInv
<1>2. Len(q) >= 1
  BY <1>1, EmptySeq
<1>3. Head(q) = q[1]
  OBVIOUS
<1>4. /\ Tail(q) \in Seq(0..Fail) /\ Len(Tail(q)) = Len(q) - 1
      /\ \A i \in 1..Len(Tail(q)) : Tail(q)[i] = q[i + 1]
  BY <1>1, HeadTailProperties
<1>5. \/ q[1] = n + 1 /\ n + 1 <= emitted[s]
      \/ /\ 1 = Len(q) /\ q[1] \in Ends /\ s \notin registered
         /\ q[1] = End => n + 1 = emitted[s] + 1 /\ worker[s] = "finished"
  <2>1. \A i \in 1..Len(q) :
           \/ q[i] = n + i /\ n + i <= emitted[s]
           \/ /\ i = Len(q) /\ q[i] \in Ends /\ s \notin registered
              /\ q[i] = End => n + i = emitted[s] + 1 /\ worker[s] = "finished"
    BY DEF StreamInv, QueueInv
  <2>2. 1 \in 1..Len(q)
    BY <1>1, <1>2
  <2> HIDE DEF q, n
  <2> QED BY <2>1, <2>2
<1> HIDE DEF q, n
<1>6. Head(q) \in 1..Lines => Head(q) = n + 1 /\ n + 1 <= emitted[s]
  BY <1>3, <1>5, Constants
<1>7. Head(q) \in Ends => Len(q) = 1 /\ s \notin registered
                            /\ (Head(q) = End => n = emitted[s] /\ worker[s] = "finished")
  BY <1>1, <1>3, <1>5, Constants
<1> QED BY <1>1, <1>2, <1>3, <1>4, <1>6, <1>7 DEF q, n

(* The browser is sent the next line.                                      *)
LEMMA LineShownKeeps ==
  ASSUME StreamInv, UNCHANGED <<send, up, worker, emitted, registered, unstopped, instance>>,
         NEW s \in Streams, stream[s].pc = "relay", stream[s].queue # <<>>,
         Head(stream[s].queue) \in 1..Lines,
         NEW r \in Stream, stream' = [stream EXCEPT ![s] = r],
         r.pc = "relay", r.channel = stream[s].channel, r.closes = stream[s].closes,
         r.result = stream[s].result, r.queue = Tail(stream[s].queue),
         r.got = Append(stream[s].got, Head(stream[s].queue))
  PROVE  StreamInv'
<1> USE DEF StreamInv
<1> DEFINE q == stream[s].queue
           g == stream[s].got
<1>1. /\ Len(q) \in Nat /\ Len(g) \in Nat /\ Len(q) >= 1 /\ emitted[s] \in 0..Lines
      /\ Head(q) = Len(g) + 1 /\ Len(g) + 1 <= emitted[s]
      /\ Tail(q) \in Seq(0..Fail) /\ Len(Tail(q)) = Len(q) - 1
      /\ \A i \in 1..Len(Tail(q)) : Tail(q)[i] = q[i + 1]
  BY FirstQueued
<1>2. g \in Seq(1..Lines) /\ Len(q) <= StreamQueue
  BY StreamFields DEF StreamTypes
<1>3. Len(r.got) = Len(g) + 1 /\ r.queue = Tail(q)
  BY <1>2, AppendProperties
<1>4. \A t \in Streams : stream'[t] = IF t = s THEN r ELSE stream[t]
  BY DEF StreamTypes
<1>5. Taken(s) = Len(g) + Len(q)
  BY DEF Taken
<1>6. \A i \in 1..Len(q) :
         \/ q[i] = Len(g) + i /\ Len(g) + i <= emitted[s]
         \/ /\ i = Len(q) /\ q[i] \in Ends /\ s \notin registered
            /\ q[i] = End => Len(g) + i = emitted[s] + 1 /\ worker[s] = "finished"
  BY DEF QueueInv
<1> HIDE DEF q, g
<1>7. StreamTypes'
  <2>1. stream' \in [Streams -> Stream]
    BY DEF StreamTypes
  <2>2. Len(r.queue) <= StreamQueue
    <3>1. Len(r.queue) = Len(q) - 1
      BY <1>1, <1>3, Zenon
    <3> QED BY <1>1, <1>2, <3>1, Constants
  <2>3. \A t \in Streams : Len(stream'[t].queue) <= StreamQueue
    BY <1>4, <2>2 DEF StreamTypes
  <2> QED BY <2>1, <2>3 DEF StreamTypes
<1>8. StageInv'
  BY <1>4 DEF StageInv
<1>9. \A t \in Streams : stream'[t].pc = stream[t].pc /\ stream'[t].channel = stream[t].channel
  BY <1>4
<1>10. StartInv'
  BY <1>9, ChannelFields DEF StartInv
<1>11. UpInv'
  BY <1>9, ChannelFields DEF UpInv
<1>12. QueueInv'
  <2> SUFFICES ASSUME NEW t \in Streams
               PROVE  LET p == stream'[t].queue
                          n == Len(stream'[t].got) IN
                      /\ n <= emitted[t]
                      /\ \A i \in 1..Len(p) :
                            \/ p[i] = n + i /\ n + i <= emitted[t]
                            \/ /\ i = Len(p) /\ p[i] \in Ends /\ t \notin registered
                               /\ p[i] = End => n + i = emitted[t] + 1 /\ worker[t] = "finished"
    BY DEF QueueInv
  <2>1. CASE t # s
    BY <1>4, <2>1 DEF QueueInv
  <2>2. CASE t = s
    <3>1. ASSUME NEW i \in 1..Len(Tail(q))
          PROVE  \/ Tail(q)[i] = Len(g) + 1 + i /\ Len(g) + 1 + i <= emitted[s]
                 \/ /\ i = Len(Tail(q)) /\ Tail(q)[i] \in Ends /\ s \notin registered
                    /\ Tail(q)[i] = End => Len(g) + 1 + i = emitted[s] + 1 /\ worker[s] = "finished"
      <4>1. i + 1 \in 1..Len(q) /\ Tail(q)[i] = q[i + 1] /\ (i + 1 = Len(q) => i = Len(Tail(q)))
        BY <1>1
      <4>2. Len(g) + (i + 1) = Len(g) + 1 + i
        BY <1>1
      <4> QED BY <1>6, <4>1, <4>2
    <3>2. stream'[t].queue = Tail(q) /\ Len(stream'[t].got) = Len(g) + 1
      BY <1>3, <1>4, <2>2
    <3> QED BY <1>1, <2>2, <3>1, <3>2
  <2> QED BY <2>1, <2>2
<1>13. FlowInv'
  <2>1. \A t \in registered : t \in Streams
    BY DEF StreamTypes
  <2>2. \A t \in Streams \ {s} : Taken(t)' = Taken(t)
    BY <1>4 DEF Taken
  <2>3. Taken(s)' = Taken(s)
    <3>1. Taken(s)' = Len(r.got) + Len(r.queue)
      BY <1>4 DEF Taken
    <3> QED BY <1>1, <1>3, <1>5, <3>1
  <2>4. \A t \in registered : Taken(t)' = Taken(t)
    BY <2>1, <2>2, <2>3
  <2>5. \A t \in registered : up'[stream'[t].channel] = up[stream[t].channel]
    BY <1>9, <2>1
  <2> QED BY <2>4, <2>5, SMTT(20) DEF FlowInv
<1> QED BY <1>7, <1>8, <1>10, <1>11, <1>12, <1>13

(* The browser is told that the log has ended, or that it cannot be read:  *)
(* the queue is empty after that.                                          *)
LEMMA EndShownKeeps ==
  ASSUME StreamInv, UNCHANGED <<send, up, worker, emitted, registered, unstopped, instance>>,
         NEW s \in Streams, stream[s].pc = "relay", stream[s].queue # <<>>,
         Head(stream[s].queue) \in Ends,
         NEW r \in Stream, stream' = [stream EXCEPT ![s] = r],
         r.pc = "close", r.channel = stream[s].channel, r.closes = stream[s].closes,
         r.result = (IF Head(stream[s].queue) = End THEN "end" ELSE "error"),
         r.queue = Tail(stream[s].queue), r.got = stream[s].got
  PROVE  StreamInv'
<1> USE DEF StreamInv
<1>1. /\ Len(r.queue) = 0 /\ s \notin registered
      /\ r.result = "end" => worker[s] = "finished"
  BY FirstQueued
<1>2. \A t \in Streams : stream'[t] = IF t = s THEN r ELSE stream[t]
  BY DEF StreamTypes
<1>3. StreamTypes'
  <2>1. stream' \in [Streams -> Stream]
    BY DEF StreamTypes
  <2>2. \A t \in Streams : Len(stream'[t].queue) <= StreamQueue
    <3>1. 0 <= StreamQueue
      BY Constants
    <3>2. stream'[s] = r /\ \A t \in Streams \ {s} : stream'[t] = stream[t]
      BY <1>2
    <3> QED BY <1>1, <3>1, <3>2 DEF StreamTypes
  <2> QED BY <2>1, <2>2 DEF StreamTypes
<1>4. StageInv'
  BY <1>1, <1>2 DEF StageInv
<1>5. StartInv'
  BY <1>2, ChannelFields DEF StartInv
<1>6. UpInv'
  BY <1>2, ChannelFields, SMTT(20) DEF UpInv
<1>7. QueueInv'
  <2> SUFFICES ASSUME NEW t \in Streams
               PROVE  LET p == stream'[t].queue
                          n == Len(stream'[t].got) IN
                      /\ n <= emitted[t]
                      /\ \A i \in 1..Len(p) :
                            \/ p[i] = n + i /\ n + i <= emitted[t]
                            \/ /\ i = Len(p) /\ p[i] \in Ends /\ t \notin registered
                               /\ p[i] = End => n + i = emitted[t] + 1 /\ worker[t] = "finished"
    BY DEF QueueInv
  <2>1. CASE t # s
    BY <1>2, <2>1 DEF QueueInv
  <2>2. CASE t = s
    <3>0. stream'[t] = r
      BY <1>2, <2>2
    <3>1. 1..Len(stream'[t].queue) = {} /\ stream'[t].got = stream[t].got
      <4>1. 1..0 = {}
        OBVIOUS
      <4> QED BY <1>1, <2>2, <3>0, <4>1, Zenon
    <3>2. Len(stream[t].got) <= emitted[t]
      BY DEF QueueInv
    <3> QED BY <3>1, <3>2
  <2> QED BY <2>1, <2>2
<1>8. FlowInv'
  <2>1. \A t \in registered : stream'[t] = stream[t] /\ Taken(t)' = Taken(t)
    BY <1>1, <1>2 DEF StreamTypes, Taken
  <2> QED BY <2>1 DEF FlowInv
<1> QED BY <1>3, <1>4, <1>5, <1>6, <1>7, <1>8

(* A turn of the SSE loop.                                                 *)
LEMMA RelayKeeps ==
  ASSUME StreamInv, UNCHANGED instance, NEW s \in Streams, relay(s)
  PROVE  StreamInv'
<1> DEFINE q == stream[s].queue
<1>1. stream[s].pc = "relay" /\ UNCHANGED <<send, up, worker, emitted, registered, unstopped>>
  BY DEF relay, workerVars
<1>2. /\ stream[s] \in Stream /\ q \in Seq(0..Fail) /\ stream[s].got \in Seq(1..Lines)
  BY StreamFields DEF StreamInv
<1>3. ASSUME q # <<>>, Head(q) \in 1..Lines,
             stream' = [stream EXCEPT ![s].queue = Tail(@), ![s].got = Append(@, Head(q))]
      PROVE  StreamInv'
  <2> DEFINE r == [stream[s] EXCEPT !.queue = Tail(q), !.got = Append(stream[s].got, Head(q))]
  <2>1. Tail(q) \in Seq(0..Fail) /\ Append(stream[s].got, Head(q)) \in Seq(1..Lines)
    BY <1>2, <1>3, HeadTailProperties, AppendProperties
  <2>2. stream' = [stream EXCEPT ![s] = r]
    BY <1>3
  <2>3. /\ r \in Stream /\ r.pc = stream[s].pc /\ r.channel = stream[s].channel
        /\ r.queue = Tail(q) /\ r.got = Append(stream[s].got, Head(q))
        /\ r.closes = stream[s].closes /\ r.result = stream[s].result
    <3> DEFINE a == Tail(q)
               b == Append(stream[s].got, Head(q))
    <3>1. a \in Seq(0..Fail) /\ b \in Seq(1..Lines)
      BY <2>1
    <3>2. r = [stream[s] EXCEPT !.queue = a, !.got = b]
      OBVIOUS
    <3> HIDE DEF a, b, r
    <3>3. LET y == [stream[s] EXCEPT !.queue = a, !.got = b] IN
          /\ y \in Stream /\ y.pc = stream[s].pc /\ y.channel = stream[s].channel
          /\ y.queue = a /\ y.got = b /\ y.closes = stream[s].closes
          /\ y.result = stream[s].result
      BY <1>2, <3>1 DEF Stream
    <3> QED BY <3>2, <3>3 DEF a, b
  <2> HIDE DEF r
  <2> QED BY <1>1, <1>3, <2>2, <2>3, LineShownKeeps
<1>4. ASSUME q # <<>>, Head(q) \in {End, Fail},
             stream' = [stream EXCEPT ![s].queue = Tail(@), ![s].pc = "close",
                              ![s].result = IF Head(q) = End THEN "end" ELSE "error"]
      PROVE  StreamInv'
  <2> DEFINE e == IF Head(q) = End THEN "end" ELSE "error"
             r == [stream[s] EXCEPT !.queue = Tail(q), !.pc = "close", !.result = e]
  <2>1. Tail(q) \in Seq(0..Fail)
    BY <1>2, <1>4, HeadTailProperties
  <2>2. stream' = [stream EXCEPT ![s] = r]
    BY <1>4
  <2>3. e \in {"end", "error"}
    OBVIOUS
  <2>4. /\ r \in Stream /\ r.pc = "close" /\ r.channel = stream[s].channel
        /\ r.queue = Tail(q) /\ r.got = stream[s].got
        /\ r.closes = stream[s].closes /\ r.result = e
    <3> DEFINE a == Tail(q)
    <3>1. a \in Seq(0..Fail)
      BY <2>1
    <3>2. r = [stream[s] EXCEPT !.queue = a, !.pc = "close", !.result = e]
      OBVIOUS
    <3> HIDE DEF a, e, r
    <3>3. LET y == [stream[s] EXCEPT !.queue = a, !.pc = "close", !.result = e] IN
          /\ y \in Stream /\ y.pc = "close" /\ y.channel = stream[s].channel /\ y.queue = a
          /\ y.got = stream[s].got /\ y.closes = stream[s].closes /\ y.result = e
      BY <1>2, <2>3, <3>1 DEF Stream
    <3> QED BY <3>2, <3>3 DEF a
  <2> HIDE DEF r
  <2> QED BY <1>1, <1>4, <2>2, <2>4, EndShownKeeps DEF Ends
<1>5. ASSUME stream' = [stream EXCEPT ![s].pc = "close", ![s].result = "error"]
      PROVE  StreamInv'
  <2> DEFINE r == [stream[s] EXCEPT !.pc = "close", !.result = "error"]
  <2>2. stream' = [stream EXCEPT ![s] = r]
    BY <1>5
  <2>3. /\ r \in Stream /\ r.pc = "close" /\ r.result = "error" /\ r.channel = stream[s].channel
        /\ r.queue = stream[s].queue /\ r.got = stream[s].got /\ r.closes = stream[s].closes
    BY <1>2, StageChanged, ZenonT(30)
  <2> HIDE DEF r
  <2> QED BY <1>1, <2>2, <2>3, HubMovesOn
<1> QED BY <1>3, <1>4, <1>5 DEF relay

-----------------------------------------------------------------------------
(* Streams: the frames of the agent.                                       *)

(* The hub is never ahead of the worker.                                   *)
LEMMA TakenBounded ==
  ASSUME StreamInv, NEW s \in registered
  PROVE  s \in Streams /\ Taken(s) <= emitted[s]
<1>1. s \in Streams
  BY DEF StreamInv, StreamTypes
<1> DEFINE m == Len(stream[s].queue)
           n == Len(stream[s].got)
<1>2. m \in Nat /\ n \in Nat /\ emitted[s] \in 0..Lines /\ Taken(s) = n + m
  BY <1>1, StreamFields DEF StreamInv, Taken
<1>3. n <= emitted[s] /\ (m \in 1..m => n + m <= emitted[s])
  BY <1>1 DEF StreamInv, QueueInv
<1> HIDE DEF m, n
<1> QED BY <1>1, <1>2, <1>3

(* What is known of a frame on its way to the hub.                         *)
LEMMA FrameOnWay ==
  ASSUME StreamInv, NEW c \in Channels, NEW i \in 1..Len(up[c])
  PROVE  LET s == up[c][i].id
             b == up[c][i].body IN
         /\ s \in Streams /\ stream[s].channel = c /\ worker[s] # "none"
         /\ b \in 0..Fail
         /\ b \notin Ends => b \in 1..emitted[s]
         /\ b \in Ends => worker[s] = "finished"
         /\ emitted[s] \in 0..Lines
         /\ \A j \in 1..(i - 1) :
               up[c][j].id = s =>
                   /\ up[c][j].body \notin Ends
                   /\ b \notin Ends => up[c][j].body < b
<1> DEFINE s == up[c][i].id
           b == up[c][i].body
<1>1. s \in Streams /\ b \in 0..Fail
  BY ChannelFields DEF StreamInv
<1>2. /\ stream[s].channel = c /\ worker[s] # "none"
      /\ b \in Ends => worker[s] = "finished"
      /\ b \notin Ends => b <= emitted[s]
      /\ \A j \in 1..(i - 1) :
            up[c][j].id = s =>
                /\ up[c][j].body \notin Ends
                /\ b \notin Ends => up[c][j].body < b
  BY DEF StreamInv, UpInv
<1>3. emitted[s] \in 0..Lines
  BY <1>1 DEF StreamInv, StreamTypes
<1> HIDE DEF s, b
<1>4. b \notin Ends => b \in 1..emitted[s]
  BY <1>1, <1>2, <1>3, Constants
<1> QED BY <1>1, <1>2, <1>3, <1>4 DEF s, b

(* A frame at the end of the queue of its channel.                         *)
LEMMA FrameSent ==
  ASSUME StreamInv, NEW s \in Streams, NEW body \in 0..Fail, stream[s].channel \in Channels,
         Len(up[stream[s].channel]) < UpQueue, up' = answered(s, body)
  PROVE  LET c == stream[s].channel IN
         /\ up' \in [Channels -> Seq([id : Streams, body : 0..Fail])]
         /\ \A d \in Channels : Len(up'[d]) <= UpQueue
         /\ \A d \in Channels \ {c} : up'[d] = up[d]
         /\ Len(up[c]) \in Nat /\ Len(up'[c]) = Len(up[c]) + 1
         /\ \A i \in 1..Len(up[c]) : up'[c][i] = up[c][i]
         /\ up'[c][Len(up[c]) + 1].id = s
         /\ up'[c][Len(up[c]) + 1].body = body
<1> DEFINE c == stream[s].channel
           S == [id : Streams, body : 0..Fail]
           f == [id |-> s, body |-> body]
<1>1. /\ up \in [Channels -> Seq(S)] /\ \A d \in Channels : Len(up[d]) <= UpQueue
      /\ up[c] \in Seq(S) /\ Len(up[c]) \in Nat
  BY ChannelFields DEF StreamInv, StreamTypes
<1>2. f \in S /\ up' = [up EXCEPT ![c] = Append(up[c], f)] /\ Len(up[c]) < UpQueue
  BY DEF answered
<1> HIDE DEF f, S, c
<1>3. /\ Append(up[c], f) \in Seq(S) /\ Len(Append(up[c], f)) = Len(up[c]) + 1
      /\ \A i \in 1..Len(up[c]) : Append(up[c], f)[i] = up[c][i]
      /\ Append(up[c], f)[Len(up[c]) + 1] = f
  BY <1>1, <1>2, AppendProperties
<1>4. c \in Channels /\ up'[c] = Append(up[c], f) /\ \A d \in Channels \ {c} : up'[d] = up[d]
  BY <1>1, <1>2 DEF c
<1>5. up' \in [Channels -> Seq(S)]
  BY <1>1, <1>2, <1>3
<1>6. \A d \in Channels : Len(up'[d]) <= UpQueue
  BY <1>1, <1>2, <1>3, <1>4, Constants
<1>7. f.body = body /\ f.id = s
  BY DEF f
<1> QED BY <1>1, <1>3, <1>4, <1>5, <1>6, <1>7 DEF c, S

(* A worker that has not finished sends its next line, or its end.         *)
Line(s, body) ==
    /\ body = emitted[s] + 1 /\ body <= Lines
    /\ emitted' = [emitted EXCEPT ![s] = body]
    /\ worker' = worker

Ended(s, body) ==
    /\ body \in Ends
    /\ emitted' = emitted
    /\ worker' = [worker EXCEPT ![s] = "finished"]

Answer(s, body) ==
    /\ UNCHANGED <<send, stream, registered, unstopped, instance>>
    /\ worker[s] \in {"running", "cancelled"}
    /\ Len(up[stream[s].channel]) < UpQueue
    /\ up' = answered(s, body)
    /\ Line(s, body) \/ Ended(s, body)

(* A frame that a worker sends is the next one of its log, or the end of   *)
(* it.                                                                     *)
LEMMA AnswerKeeps ==
  ASSUME StreamInv, NEW s \in Streams, NEW body \in 0..Fail, Answer(s, body)
  PROVE  StreamInv'
<1> USE DEF StreamInv
<1> DEFINE c == stream[s].channel
           k == Len(up[c]) + 1
<1>a. /\ UNCHANGED <<send, stream, registered, unstopped, instance>>
      /\ worker[s] \in {"running", "cancelled"} /\ Len(up[c]) < UpQueue /\ up' = answered(s, body)
  BY DEF Answer
<1>b. /\ emitted' \in [Streams -> 0..Lines]
      /\ worker' \in [Streams -> {"none", "running", "cancelled", "finished"}]
      /\ \A t \in Streams \ {s} : emitted'[t] = emitted[t] /\ worker'[t] = worker[t]
      /\ body \in Ends => emitted'[s] = emitted[s] /\ worker'[s] = "finished"
      /\ body \notin Ends =>
            body = emitted[s] + 1 /\ emitted'[s] = body /\ worker'[s] = worker[s]
  <2>1. /\ emitted \in [Streams -> 0..Lines]
        /\ worker \in [Streams -> {"none", "running", "cancelled", "finished"}]
    BY DEF StreamTypes
  <2>2. CASE Line(s, body)
    BY <2>1, <2>2, Constants DEF Line
  <2>3. CASE Ended(s, body)
    BY <2>1, <2>3 DEF Ended
  <2> QED BY <2>2, <2>3 DEF Answer
<1>1. c \in Channels
  BY <1>a DEF StageInv
<1>t. /\ up' \in [Channels -> Seq([id : Streams, body : 0..Fail])]
      /\ \A d \in Channels : Len(up'[d]) <= UpQueue
  BY <1>1, <1>a, FrameSent
<1>2. /\ \A d \in Channels \ {c} : up'[d] = up[d]
      /\ Len(up[c]) \in Nat /\ Len(up'[c]) = k
      /\ \A i \in 1..Len(up[c]) : up'[c][i] = up[c][i]
      /\ up'[c][k].id = s /\ up'[c][k].body = body
  BY <1>1, <1>a, FrameSent
<1>c. c = stream[s].channel /\ k = Len(up[c]) + 1
  OBVIOUS
<1> HIDE DEF c, k
<1>3. /\ \A t \in Streams : emitted[t] \in 0..Lines /\ emitted'[t] \in 0..Lines
      /\ \A t \in Streams : emitted[t] <= emitted'[t]
      /\ \A t \in Streams : worker[t] # "none" => worker'[t] # "none"
      /\ \A t \in Streams : worker[t] = "finished" => t # s /\ worker'[t] = "finished"
      /\ \A t \in Streams : worker[t] = "none" => t # s /\ worker'[t] = "none"
  <2>1. /\ \A t \in Streams : emitted[t] \in 0..Lines /\ emitted'[t] \in 0..Lines
    BY <1>b DEF StreamTypes
  <2>2. emitted[s] <= emitted'[s] /\ worker'[s] # "none"
    BY <1>a, <1>b, <2>1, Constants
  <2>3. \A t \in Streams : emitted[t] <= emitted'[t]
    BY <1>b, <2>1, <2>2, Constants
  <2> QED BY <1>a, <1>b, <2>1, <2>2, <2>3
<1>4. \A d \in Channels : \A i \in 1..Len(up'[d]) :
         \/ i \in 1..Len(up[d]) /\ up'[d][i] = up[d][i]
         \/ d = c /\ i = k
  <2>1. \A i \in 1..Len(up'[c]) : i \in 1..Len(up[c]) \/ i = k
    BY <1>2, <1>c
  <2> QED BY <1>2, <2>1
<1>e. \A d \in Channels : \A i \in 1..Len(up[d]) : i \in 1..Len(up'[d]) /\ up'[d][i] = up[d][i]
  <2>1. \A i \in 1..Len(up[c]) : i \in 1..Len(up'[c])
    BY <1>2, <1>c
  <2> QED BY <1>2, <2>1
<1>5. StreamTypes'
  BY <1>t, <1>a, <1>b DEF StreamTypes
<1>6. StageInv'
  BY <1>3, <1>a, <1>b DEF StageInv
<1>7. StartInv'
  BY <1>3, <1>a, ChannelFields DEF StartInv
<1>8. UpInv'
  <2> SUFFICES ASSUME NEW d \in Channels, NEW i \in 1..Len(up'[d])
               PROVE  LET t == up'[d][i].id IN
                      /\ stream[t].channel = d
                      /\ worker'[t] # "none"
                      /\ up'[d][i].body \in Ends => worker'[t] = "finished"
                      /\ up'[d][i].body \notin Ends => up'[d][i].body <= emitted'[t]
                      /\ \A j \in 1..(i - 1) :
                            up'[d][j].id = t =>
                                /\ up'[d][j].body \notin Ends
                                /\ up'[d][i].body \notin Ends => up'[d][j].body < up'[d][i].body
    BY <1>a DEF UpInv
  <2>1. CASE i \in 1..Len(up[d]) /\ up'[d][i] = up[d][i]
    <3> DEFINE b == up[d][i].body
               w == up[d][i].id
    <3>1. /\ w \in Streams /\ stream[w].channel = d /\ worker[w] # "none"
          /\ b \notin Ends => b \in 1..emitted[w]
          /\ b \in Ends => worker[w] = "finished"
          /\ \A j \in 1..(i - 1) :
                up[d][j].id = w =>
                    up[d][j].body \notin Ends /\ (b \notin Ends => up[d][j].body < b)
      <4>1. i \in 1..Len(up[d])
        BY <2>1
      <4> QED BY <4>1, FrameOnWay, Zenon
    <3>2. \A j \in 1..(i - 1) : up'[d][j] = up[d][j]
      <4>1. Len(up[d]) \in Nat
        BY ChannelFields
      <4>2. \A j \in 1..(i - 1) : j \in 1..Len(up[d])
        BY <2>1, <4>1
      <4> QED BY <1>e, <4>2
    <3>3. up'[d][i].id = w /\ up'[d][i].body = b
      BY <2>1
    <3> HIDE DEF b, w
    <3>4. b \notin Ends => b <= emitted'[w]
      BY <1>3, <3>1
    <3> QED BY <1>3, <3>1, <3>2, <3>3, <3>4
  <2>2. CASE d = c /\ i = k
    <3>1. worker'[s] # "none"
      BY <1>3
    <3>2. ASSUME NEW j \in 1..(i - 1), up'[d][j].id = s
          PROVE  up'[d][j].body \notin Ends /\ (body \notin Ends => up'[d][j].body < body)
      <4>1. j \in 1..Len(up[c]) /\ up'[d][j] = up[c][j]
        BY <1>2, <1>c, <2>2
      <4>2. up[c][j].body \notin Ends /\ up[c][j].body <= emitted[s] /\ up[c][j].body \in 0..Fail
        <5>1. up[c][j].id = s
          BY <3>2, <4>1
        <5>2. up[c][j].body \in Ends => worker[s] = "finished"
          BY <1>1, <4>1, <5>1, FrameOnWay, Zenon
        <5>3. /\ up[c][j].body \in 0..Fail
              /\ up[c][j].body \notin Ends => up[c][j].body \in 1..emitted[s]
          BY <1>1, <4>1, <5>1, FrameOnWay, Zenon
        <5> QED BY <1>3, <1>a, <5>2, <5>3
      <4> QED BY <1>3, <1>b, <4>1, <4>2, Constants
    <3>3. /\ body \notin Ends => body <= emitted'[s]
          /\ body \in Ends => worker'[s] = "finished"
      BY <1>3, <1>b
    <3> QED BY <1>2, <1>c, <2>2, <3>1, <3>2, <3>3
  <2> QED BY <1>4, <2>1, <2>2
<1>9. QueueInv'
  <2> SUFFICES ASSUME NEW t \in Streams
               PROVE  LET q == stream[t].queue
                          n == Len(stream[t].got) IN
                      /\ n <= emitted'[t]
                      /\ \A i \in 1..Len(q) :
                            \/ q[i] = n + i /\ n + i <= emitted'[t]
                            \/ /\ i = Len(q) /\ q[i] \in Ends /\ t \notin registered
                               /\ q[i] = End => n + i = emitted'[t] + 1 /\ worker'[t] = "finished"
    BY <1>a DEF QueueInv
  <2>1. Len(stream[t].got) \in Nat /\ Len(stream[t].queue) \in Nat
    BY StreamFields
  <2>2. CASE t # s
    BY <1>b, <2>2 DEF QueueInv
  <2>3. CASE t = s
    <3>1. worker[t] # "finished"
      BY <1>a, <2>3
    <3> QED BY <1>3, <2>1, <3>1 DEF QueueInv
  <2> QED BY <2>2, <2>3
<1>10. FlowInv'
  <2> SUFFICES ASSUME NEW t \in registered
               PROVE  LET u == up'[stream[t].channel] IN
                      /\ \A i \in 1..Len(u) :
                            u[i].id = t /\ u[i].body \notin Ends => Taken(t) < u[i].body
                      /\ \A n \in (Taken(t) + 1)..emitted'[t] :
                            \E i \in 1..Len(u) : u[i].id = t /\ u[i].body = n
    <3>1. UNCHANGED <<registered, stream>> /\ \A x \in registered' : Taken(x)' = Taken(x)
      BY <1>a DEF Taken
    <3> HIDE DEF StreamInv
    <3> QED BY <3>1 DEF FlowInv
  <2> DEFINE d == stream[t].channel
  <2>1. /\ t \in Streams /\ Taken(t) <= emitted[t] /\ Taken(t) \in Nat /\ d \in Channels
    BY TakenBounded, StreamFields DEF StageInv
  <2>2. \A i \in 1..Len(up[d]) : up'[d][i] = up[d][i] /\ i \in 1..Len(up'[d])
    BY <1>e, <2>1
  <2>3. ASSUME NEW i \in 1..Len(up'[d]), up'[d][i].id = t, up'[d][i].body \notin Ends
        PROVE  Taken(t) < up'[d][i].body
    <3>1. CASE i \in 1..Len(up[d]) /\ up'[d][i] = up[d][i]
      BY <2>3, <3>1 DEF FlowInv
    <3>2. CASE d = c /\ i = k
      BY <1>2, <1>3, <1>b, <2>1, <2>3, <3>2
    <3> QED BY <1>4, <2>1, <3>1, <3>2
  <2>4. ASSUME NEW n \in (Taken(t) + 1)..emitted'[t]
        PROVE  \E i \in 1..Len(up'[d]) : up'[d][i].id = t /\ up'[d][i].body = n
    <3>1. CASE n <= emitted[t]
      <4>1. n \in (Taken(t) + 1)..emitted[t]
        BY <1>3, <2>1, <3>1
      <4>2. PICK i \in 1..Len(up[d]) : up[d][i].id = t /\ up[d][i].body = n
        BY <4>1 DEF FlowInv
      <4> QED BY <2>2, <4>2
    <3>2. CASE n > emitted[t]
      <4>1. t = s /\ n = body
        <5>1. t = s
          BY <1>3, <1>b, <2>1, <3>2
        <5> QED BY <1>3, <1>b, <2>1, <3>2, <5>1
      <4>2. d = c /\ k \in 1..Len(up'[d])
        BY <1>2, <1>c, <4>1
      <4> QED BY <1>2, <4>1, <4>2
    <3> QED BY <1>3, <2>1, <3>1, <3>2
  <2> QED BY <2>3, <2>4
<1> QED BY <1>5, <1>6, <1>7, <1>8, <1>9, <1>10

(* The two kinds of answers.                                               *)
LEMMA WorkerAnswers ==
  ASSUME StreamInv, UNCHANGED instance, NEW s \in Streams,
         sendFrame(s) \/ \E body \in {End, Fail} : runStream(s, body)
  PROVE  StreamInv'
<1>1. emitted[s] \in 0..Lines /\ instance.lines \in 0..Lines
  BY Constants DEF StreamInv, StreamTypes
<1>2. CASE sendFrame(s)
  <2>1. emitted[s] + 1 \in 0..Fail /\ emitted[s] + 1 <= Lines
    BY <1>1, <1>2, Constants DEF sendFrame, hasLine
  <2>2. Line(s, emitted[s] + 1)
    BY <1>2, <2>1 DEF sendFrame, Line
  <2>3. Answer(s, emitted[s] + 1)
    BY <1>2, <2>2 DEF sendFrame, hasLine, Answer, streamVars
  <2> QED BY <2>1, <2>3, AnswerKeeps
<1>3. ASSUME NEW body \in {End, Fail}, runStream(s, body) PROVE StreamInv'
  <2>1. body \in 0..Fail
    BY Constants
  <2>2. Answer(s, body)
    BY <1>3 DEF runStream, Ended, Ends, Answer, streamVars
  <2> QED BY <2>1, <2>2, AnswerKeeps
<1> QED BY <1>2, <1>3

(* The hub takes the first frame of a channel.                             *)
Took(c) == up[c] # <<>> /\ up' = [up EXCEPT ![c] = Tail(@)]

(* The frames that are left move up by one place.                          *)
LEMMA FrameTaken ==
  ASSUME StreamInv, NEW c \in Channels, Took(c)
  PROVE  /\ up' \in [Channels -> Seq([id : Streams, body : 0..Fail])]
         /\ \A d \in Channels : Len(up'[d]) <= UpQueue
         /\ \A d \in Channels \ {c} : up'[d] = up[d]
         /\ Len(up[c]) \in Nat /\ 1 \in 1..Len(up[c]) /\ Head(up[c]) = up[c][1]
         /\ Len(up'[c]) = Len(up[c]) - 1
         /\ \A i \in 1..Len(up'[c]) : i + 1 \in 1..Len(up[c]) /\ up'[c][i] = up[c][i + 1]
<1> DEFINE S == [id : Streams, body : 0..Fail]
<1>1. up \in [Channels -> Seq(S)] /\ \A d \in Channels : Len(up[d]) <= UpQueue
  BY DEF StreamInv, StreamTypes
<1>2. up[c] \in Seq(S) /\ Len(up[c]) \in Nat
  BY ChannelFields DEF StreamInv
<1> HIDE DEF S
<1>t. up[c] # <<>> /\ up' = [up EXCEPT ![c] = Tail(@)]
  BY DEF Took
<1>3. 1 \in 1..Len(up[c])
  BY <1>2, <1>t, EmptySeq
<1>4. /\ Tail(up[c]) \in Seq(S) /\ Len(Tail(up[c])) = Len(up[c]) - 1
      /\ \A i \in 1..Len(Tail(up[c])) : Tail(up[c])[i] = up[c][i + 1]
  BY <1>2, <1>t, HeadTailProperties
<1>5. up'[c] = Tail(up[c]) /\ \A d \in Channels \ {c} : up'[d] = up[d]
  BY <1>1, <1>t
<1>6. up' \in [Channels -> Seq(S)]
  BY <1>1, <1>t, <1>4
<1>7. Len(up'[c]) = Len(up[c]) - 1
  BY <1>4, <1>5, Zenon
<1>8. \A d \in Channels : Len(up'[d]) <= UpQueue
  <2>1. Len(up'[c]) <= UpQueue
    <3>1. Len(up[c]) <= UpQueue
      BY <1>1
    <3> QED BY <1>2, <1>7, <3>1, Constants
  <2> QED BY <1>1, <1>5, <2>1
<1>9. \A i \in 1..Len(up'[c]) : i + 1 \in 1..Len(up[c])
  BY <1>2, <1>7
<1>10. \A i \in 1..Len(up'[c]) : up'[c][i] = up[c][i + 1]
  BY <1>4, <1>5, Zenon
<1>11. Head(up[c]) = up[c][1]
  OBVIOUS
<1> QED BY <1>2, <1>3, <1>5, <1>6, <1>7, <1>8, <1>9, <1>10, <1>11 DEF S

(* The frames behind the first one keep their order.                       *)
LEMMA UpShifted ==
  ASSUME StreamInv, NEW c \in Channels, Took(c), UNCHANGED <<worker, emitted>>,
         \A t \in Streams : stream'[t].channel = stream[t].channel
  PROVE  UpInv'
<1>1. /\ \A d \in Channels \ {c} : up'[d] = up[d]
      /\ Len(up[c]) \in Nat /\ Len(up'[c]) = Len(up[c]) - 1
      /\ \A i \in 1..Len(up'[c]) : i + 1 \in 1..Len(up[c]) /\ up'[c][i] = up[c][i + 1]
  BY FrameTaken
<1> SUFFICES ASSUME NEW d \in Channels, NEW i \in 1..Len(up'[d])
             PROVE  LET t == up'[d][i].id IN
                    /\ stream'[t].channel = d
                    /\ worker[t] # "none"
                    /\ up'[d][i].body \in Ends => worker[t] = "finished"
                    /\ up'[d][i].body \notin Ends => up'[d][i].body <= emitted[t]
                    /\ \A j \in 1..(i - 1) :
                          up'[d][j].id = t =>
                              /\ up'[d][j].body \notin Ends
                              /\ up'[d][i].body \notin Ends => up'[d][j].body < up'[d][i].body
  BY DEF UpInv
<1>2. CASE d # c
  <2>1. up'[d] = up[d] /\ up[d][i].id \in Streams
    BY <1>1, <1>2, ChannelFields DEF StreamInv
  <2> QED BY <2>1 DEF StreamInv, UpInv
<1>3. CASE d = c
  <2>1. i + 1 \in 1..Len(up[c]) /\ up'[d][i] = up[c][i + 1]
    BY <1>1, <1>3
  <2>2. \A j \in 1..(i - 1) : j \in 1..Len(up'[c]) /\ j + 1 \in 1..((i + 1) - 1) /\ up'[d][j] = up[c][j + 1]
    <3>1. \A j \in 1..(i - 1) : j \in 1..Len(up'[c]) /\ j + 1 \in 1..((i + 1) - 1)
      BY <1>1, <1>3
    <3> QED BY <1>1, <1>3, <3>1
  <2>3. LET t == up[c][i + 1].id IN
        /\ t \in Streams /\ stream[t].channel = c /\ worker[t] # "none"
        /\ up[c][i + 1].body \in Ends => worker[t] = "finished"
        /\ up[c][i + 1].body \notin Ends => up[c][i + 1].body <= emitted[t]
        /\ \A j \in 1..((i + 1) - 1) :
              up[c][j].id = t =>
                  /\ up[c][j].body \notin Ends
                  /\ up[c][i + 1].body \notin Ends => up[c][j].body < up[c][i + 1].body
    BY <2>1, ChannelFields DEF StreamInv, UpInv
  <2> QED BY <1>3, <2>1, <2>2, <2>3, SMTT(20)
<1> QED BY <1>2, <1>3

(* A frame for a stream in the map is the one that the hub expects.        *)
LEMMA ExpectedFrame ==
  ASSUME StreamInv, NEW c \in Channels, 1 \in 1..Len(up[c]), up[c][1].id \in registered
  PROVE  LET s == up[c][1].id
             b == up[c][1].body IN
         /\ s \in Streams /\ stream[s].channel = c
         /\ b \in 0..Fail
         /\ b \notin Ends => b = Taken(s) + 1 /\ b <= emitted[s] /\ b \in 1..Lines
         /\ b \in Ends => Taken(s) = emitted[s] /\ worker[s] = "finished"
<1> DEFINE s == up[c][1].id
           b == up[c][1].body
<1>1. /\ s \in Streams /\ stream[s].channel = c /\ b \in 0..Fail /\ emitted[s] \in 0..Lines
  BY FrameOnWay
<1>2. /\ b \in Ends => worker[s] = "finished"
      /\ b \notin Ends => b \in 1..emitted[s]
  BY FrameOnWay
<1>3. Taken(s) \in Nat /\ Taken(s) <= emitted[s]
  BY <1>1, TakenBounded, StreamFields DEF StreamInv
<1>4. /\ b \notin Ends => Taken(s) < b
      /\ \A n \in (Taken(s) + 1)..emitted[s] :
            \E i \in 1..Len(up[c]) : up[c][i].id = s /\ up[c][i].body = n
  BY <1>1, SMTT(20) DEF StreamInv, FlowInv
<1>5. \A i \in 1..Len(up[c]) :
         i # 1 /\ up[c][i].id = s =>
             b \notin Ends /\ (up[c][i].body \notin Ends => b < up[c][i].body)
  <2> SUFFICES ASSUME NEW i \in 1..Len(up[c]), i # 1, up[c][i].id = s
               PROVE  b \notin Ends /\ (up[c][i].body \notin Ends => b < up[c][i].body)
    OBVIOUS
  <2>1. 1 \in 1..(i - 1)
    BY ChannelFields DEF StreamInv
  <2> QED BY <2>1 DEF StreamInv, UpInv
<1> HIDE DEF s, b
<1>6. ASSUME Taken(s) < emitted[s] PROVE b = Taken(s) + 1 /\ b \notin Ends
  <2>1. Taken(s) + 1 \in (Taken(s) + 1)..emitted[s] /\ Taken(s) + 1 \notin Ends
    BY <1>1, <1>3, <1>6, Constants
  <2>2. PICK i \in 1..Len(up[c]) : up[c][i].id = s /\ up[c][i].body = Taken(s) + 1
    BY <1>4, <2>1
  <2>3. CASE i = 1
    BY <2>1, <2>2, <2>3 DEF b
  <2>4. CASE i # 1
    <3>1. b \notin Ends /\ b < Taken(s) + 1
      BY <1>5, <2>1, <2>2, <2>4
    <3> QED BY <1>1, <1>3, <1>4, <3>1
  <2> QED BY <2>3, <2>4
<1>7. b \notin Ends => b = Taken(s) + 1 /\ b <= emitted[s] /\ b \in 1..Lines
  BY <1>1, <1>2, <1>3, <1>4, <1>6, Constants
<1>8. b \in Ends => Taken(s) = emitted[s]
  BY <1>1, <1>3, <1>6
<1> QED BY <1>1, <1>2, <1>7, <1>8 DEF s, b

(* A stream t whose last line taken is k has its next lines, up to m, on   *)
(* the channel u: what FlowInv says of a stream.                           *)
Flows(t, u, k, m) ==
    /\ \A i \in 1..Len(u) : u[i].id = t /\ u[i].body \notin Ends => k < u[i].body
    /\ \A n \in (k + 1)..m : \E i \in 1..Len(u) : u[i].id = t /\ u[i].body = n

(* The other streams do not miss the frame that the hub has taken.         *)
LEMMA OthersFlow ==
  ASSUME StreamInv, NEW c \in Channels, Took(c), NEW t \in registered, t # up[c][1].id
  PROVE  Flows(t, up'[stream[t].channel], Taken(t), emitted[t])
<1> DEFINE d == stream[t].channel
<1>1. d \in Channels
  BY DEF StreamInv, StreamTypes, StageInv
<1>2. Flows(t, up[d], Taken(t), emitted[t])
  BY DEF StreamInv, FlowInv, Flows
<1>3. /\ d # c => up'[d] = up[d]
      /\ Len(up[c]) \in Nat /\ Len(up'[c]) = Len(up[c]) - 1
      /\ \A i \in 1..Len(up'[c]) : i + 1 \in 1..Len(up[c]) /\ up'[c][i] = up[c][i + 1]
  BY <1>1, FrameTaken
<1> HIDE DEF d
<1>4. CASE d # c
  BY <1>2, <1>3, <1>4 DEF d
<1>5. CASE d = c
  <2>1. \A i \in 1..Len(up'[c]) :
           up'[c][i].id = t /\ up'[c][i].body \notin Ends => Taken(t) < up'[c][i].body
    BY <1>2, <1>3, <1>5 DEF Flows
  <2>2. ASSUME NEW n \in (Taken(t) + 1)..emitted[t]
        PROVE  \E i \in 1..Len(up'[c]) : up'[c][i].id = t /\ up'[c][i].body = n
    <3>1. PICK i \in 1..Len(up[c]) : up[c][i].id = t /\ up[c][i].body = n
      BY <1>2, <1>5 DEF Flows
    <3>2. i # 1
      BY <3>1
    <3>3. i - 1 \in 1..Len(up'[c]) /\ (i - 1) + 1 = i
      BY <1>3, <3>2
    <3>4. up'[c][i - 1] = up[c][i]
      BY <1>3, <3>3
    <3> QED BY <3>1, <3>3, <3>4
  <2> QED BY <1>5, <2>1, <2>2 DEF Flows, d
<1> QED BY <1>4, <1>5

(* Once the hub has taken the next line of a stream, the rest is still on  *)
(* its way.                                                                *)
LEMMA OwnFlow ==
  ASSUME StreamInv, NEW c \in Channels, Took(c), up[c][1].id \in registered,
         up[c][1].body \notin Ends
  PROVE  Flows(up[c][1].id, up'[c], Taken(up[c][1].id) + 1, emitted[up[c][1].id])
<1> DEFINE s == up[c][1].id
           b == up[c][1].body
<1>1. /\ 1 \in 1..Len(up[c]) /\ Len(up[c]) \in Nat /\ Len(up'[c]) = Len(up[c]) - 1
      /\ \A i \in 1..Len(up'[c]) : i + 1 \in 1..Len(up[c]) /\ up'[c][i] = up[c][i + 1]
  BY FrameTaken
<1>2. s \in Streams /\ stream[s].channel = c /\ b = Taken(s) + 1
  BY <1>1, ExpectedFrame
<1>3. Taken(s) \in Nat /\ emitted[s] \in Nat
  BY <1>2, StreamFields DEF StreamInv
<1>4. Flows(s, up[c], Taken(s), emitted[s])
  BY <1>2 DEF StreamInv, FlowInv, Flows
<1>5. ASSUME NEW i \in 1..Len(up'[c]), up'[c][i].id = s, up'[c][i].body \notin Ends
      PROVE  b < up'[c][i].body
  <2>1. i + 1 \in 1..Len(up[c]) /\ up'[c][i] = up[c][i + 1] /\ 1 \in 1..((i + 1) - 1)
    BY <1>1
  <2>2. \A j \in 1..((i + 1) - 1) :
           up[c][j].id = up[c][i + 1].id =>
               (up[c][i + 1].body \notin Ends => up[c][j].body < up[c][i + 1].body)
    BY <2>1, FrameOnWay, Zenon
  <2> QED BY <1>5, <2>1, <2>2
<1>6. ASSUME NEW n \in (b + 1)..emitted[s]
      PROVE  \E i \in 1..Len(up'[c]) : up'[c][i].id = s /\ up'[c][i].body = n
  <2>1. n \in (Taken(s) + 1)..emitted[s] /\ n # b
    BY <1>2, <1>3
  <2>2. PICK i \in 1..Len(up[c]) : up[c][i].id = s /\ up[c][i].body = n
    BY <1>4, <2>1 DEF Flows
  <2>3. i # 1
    BY <2>1, <2>2
  <2>4. i - 1 \in 1..Len(up'[c]) /\ (i - 1) + 1 = i
    BY <1>1, <2>3
  <2>5. up'[c][i - 1] = up[c][i]
    BY <1>1, <2>4
  <2> QED BY <2>2, <2>4, <2>5
<1> QED BY <1>2, <1>5, <1>6 DEF Flows

(* What deliver makes of a stream in the map.                              *)
LEMMA DeliveredStream ==
  ASSUME StreamInv, NEW s \in registered, NEW b \in 0..Fail
  PROVE  LET r == delivered(s, b)
             q == stream[s].queue IN
         /\ r \in Stream /\ r.pc = stream[s].pc /\ r.channel = stream[s].channel
         /\ r.got = stream[s].got /\ r.result = stream[s].result
         /\ r.closes \in {0, 1} /\ Len(r.queue) <= StreamQueue
         /\ \/ r.queue = Append(q, b) /\ (r.closes = 0 <=> b \notin Ends)
            \/ r.queue = q /\ r.closes = 1
<1>1. /\ s \in Streams /\ stream[s] \in Stream /\ stream[s].closes = 0
      /\ Len(stream[s].queue) <= StreamQueue
  BY DEF StreamInv, StreamTypes, StageInv
<1>2. stream[s].queue \in Seq(0..Fail) /\ Len(stream[s].queue) \in Nat
  BY <1>1, StreamFields DEF StreamInv
<1>3. CASE Len(stream[s].queue) < StreamQueue
  <2> DEFINE q == Append(stream[s].queue, b)
             n == IF b \in {End, Fail} THEN 1 ELSE 0
  <2>1. q \in Seq(0..Fail) /\ Len(q) = Len(stream[s].queue) + 1
    BY <1>2, AppendProperties
  <2>2. n \in Nat /\ n \in {0, 1} /\ (n = 0 <=> b \notin Ends)
    BY DEF Ends
  <2>3. delivered(s, b) = [stream[s] EXCEPT !.queue = q, !.closes = n]
    BY <1>1, <1>3 DEF delivered
  <2>4. Len(q) <= StreamQueue
    BY <1>2, <1>3, <2>1, Constants
  <2>5. q = Append(stream[s].queue, b)
    OBVIOUS
  <2> HIDE DEF q, n
  <2>6. \A r \in Stream :
           LET p == [r EXCEPT !.queue = q, !.closes = n] IN
           /\ p \in Stream /\ p.pc = r.pc /\ p.channel = r.channel /\ p.got = r.got
           /\ p.result = r.result /\ p.queue = q /\ p.closes = n
    BY <2>1, <2>2 DEF Stream
  <2> QED BY <1>1, <2>2, <2>3, <2>4, <2>5, <2>6
<1>4. CASE ~(Len(stream[s].queue) < StreamQueue)
  <2>1. delivered(s, b) = Cut(s)
    BY <1>4 DEF delivered
  <2> QED BY <1>1, <2>1, CutStream DEF StreamInv
<1> QED BY <1>3, <1>4

(* The hub drops a frame of a stream that is not in the map.               *)
LEMMA UnknownKeeps ==
  ASSUME StreamInv, NEW c \in Channels, Took(c), up[c][1].id \notin registered,
         UNCHANGED <<send, stream, registered, unstopped, worker, emitted, instance>>
  PROVE  StreamInv'
<1> USE DEF StreamInv
<1>1. /\ up' \in [Channels -> Seq([id : Streams, body : 0..Fail])]
      /\ \A d \in Channels : Len(up'[d]) <= UpQueue
  BY FrameTaken
<1>2. StreamTypes'
  BY <1>1 DEF StreamTypes
<1>3. StageInv' /\ StartInv' /\ QueueInv'
  BY DEF StageInv, StartInv, QueueInv
<1>4. UpInv'
  BY UpShifted
<1>5. ASSUME NEW t \in registered
      PROVE  Flows(t, up'[stream[t].channel], Taken(t), emitted[t])
  BY OthersFlow
<1>6. FlowInv'
  <2>1. \A t \in registered : Taken(t)' = Taken(t)
    BY DEF Taken
  <2> QED BY <1>5, <2>1 DEF FlowInv, Flows
<1> QED BY <1>2, <1>3, <1>4, <1>6

(* A frame of a stream in the map: r is the stream after it.               *)
Delivery(c, s, r) ==
    /\ UNCHANGED <<send, unstopped, worker, emitted, instance>>
    /\ Took(c)
    /\ stream' = [stream EXCEPT ![s] = r]
    /\ registered' = IF r.closes > 0 THEN registered \ {s} ELSE registered

(* The frame b has been queued, or its stream has been cut.                *)
Queued(s, r, b) ==
    \/ r.queue = Append(stream[s].queue, b) /\ (r.closes = 0 <=> b \notin Ends)
    \/ r.queue = stream[s].queue /\ r.closes = 1

(* A frame that is delivered to its stream is queued, or ends the stream   *)
(* if there is no room.                                                    *)
LEMMA DeliveryStages ==
  ASSUME StreamInv, NEW c \in Channels, NEW s \in registered,
         NEW r \in Stream, Delivery(c, s, r),
         r.pc = stream[s].pc, r.channel = stream[s].channel,
         r.got = stream[s].got, r.result = stream[s].result,
         r.closes \in {0, 1}, Len(r.queue) <= StreamQueue
  PROVE  /\ StreamTypes' /\ StageInv' /\ StartInv' /\ UpInv'
         /\ s \in Streams /\ stream'[s] = r
         /\ \A t \in Streams \ {s} : stream'[t] = stream[t] /\ (t \in registered' <=> t \in registered)
         /\ s \in registered' <=> r.closes = 0
         /\ registered' \subseteq registered
<1> USE DEF StreamInv
<1>1. s \in Streams /\ stream \in [Streams -> Stream]
  BY DEF StreamTypes
<1>2. /\ stream' \in [Streams -> Stream] /\ stream'[s] = r
      /\ \A t \in Streams \ {s} : stream'[t] = stream[t]
  BY <1>1 DEF Delivery
<1>3. /\ registered' \subseteq registered /\ (s \in registered' <=> r.closes = 0)
      /\ \A t \in Streams \ {s} : t \in registered' <=> t \in registered
  BY DEF Delivery
<1>4. UNCHANGED <<send, unstopped, worker, emitted, instance>> /\ Took(c)
  BY DEF Delivery
<1>5. \A t \in Streams : stream'[t].channel = stream[t].channel
  BY <1>2
<1>6. UpInv'
  BY <1>4, <1>5, UpShifted
<1>7. /\ up' \in [Channels -> Seq([id : Streams, body : 0..Fail])]
      /\ \A d \in Channels : Len(up'[d]) <= UpQueue
  BY <1>4, FrameTaken
<1>8. \A t \in Streams : Len(stream'[t].queue) <= StreamQueue
  BY <1>2 DEF StreamTypes
<1>9. StreamTypes'
  BY <1>2, <1>3, <1>4, <1>7, <1>8 DEF StreamTypes
<1>10. \A t \in Streams :
          /\ stream'[t].pc = stream[t].pc /\ stream'[t].got = stream[t].got
          /\ stream'[t].result = stream[t].result
  BY <1>2
<1>11. StageInv'
  <2> SUFFICES ASSUME NEW t \in Streams
               PROVE  /\ stream[t].pc # "idle" => stream[t].channel \in Channels
                      /\ stream[t].pc \in {"idle", "add"} =>
                            t \notin registered' /\ stream'[t].closes = 0 /\ stream'[t].queue = <<>>
                      /\ stream[t].pc \in {"idle", "add", "start"} =>
                            worker[t] = "none" /\ stream[t].got = <<>>
                      /\ stream[t].pc \in {"idle", "add", "start", "relay"} => stream[t].result = "none"
                      /\ stream[t].result = "end" => worker[t] = "finished"
                      /\ worker[t] = "none" => emitted[t] = 0
                      /\ stream'[t].closes <= 1
                      /\ t \in registered' => stream'[t].closes = 0
    BY <1>4, <1>5, <1>10 DEF StageInv
  <2>1. CASE t = s
    BY <1>2, <1>3, <2>1 DEF StageInv
  <2>2. CASE t # s
    BY <1>2, <1>3, <2>2 DEF StageInv
  <2> QED BY <2>1, <2>2
<1>12. StartInv'
  <2>1. \A d \in Channels : \A i \in 1..Len(send[d]) : send[d][i].id \in Streams
    BY ChannelFields
  <2>2. \A t \in Streams : stream'[t].pc = stream[t].pc /\ stream'[t].channel = stream[t].channel
    BY <1>5, <1>10
  <2> QED BY <1>4, <2>1, <2>2, SMTT(20) DEF StartInv
<1> QED BY <1>1, <1>2, <1>3, <1>6, <1>9, <1>11, <1>12

(* A stream whose queue is full, or that gets its next frame.              *)
LEMMA DeliveryKeeps ==
  ASSUME StreamInv, NEW c \in Channels, NEW s \in registered, NEW b \in 0..Fail,
         NEW r \in Stream, Delivery(c, s, r),
         s = up[c][1].id, b = up[c][1].body,
         r.pc = stream[s].pc, r.channel = stream[s].channel,
         r.got = stream[s].got, r.result = stream[s].result,
         r.closes \in {0, 1}, Len(r.queue) <= StreamQueue, Queued(s, r, b)
  PROVE  StreamInv'
<1> USE DEF StreamInv
<1>1. /\ StreamTypes' /\ StageInv' /\ StartInv' /\ UpInv'
  BY DeliveryStages
<1>2. /\ s \in Streams /\ stream'[s] = r
      /\ \A t \in Streams \ {s} : stream'[t] = stream[t] /\ (t \in registered' <=> t \in registered)
      /\ s \in registered' <=> r.closes = 0
      /\ registered' \subseteq registered
  BY DeliveryStages
<1>3. UNCHANGED <<worker, emitted>> /\ Took(c)
  BY DEF Delivery
<1> DEFINE q == stream[s].queue
           n == Len(stream[s].got)
           m == Len(stream[s].queue)
<1>4. q \in Seq(0..Fail) /\ n \in Nat /\ m \in Nat /\ m = Len(q) /\ emitted[s] \in 0..Lines
  BY <1>2, StreamFields
<1>5. /\ stream[s].channel = c /\ Taken(s) = n + m
      /\ b \notin Ends => b = n + m + 1 /\ b <= emitted[s]
      /\ b \in Ends => n + m = emitted[s] /\ worker[s] = "finished"
  <2>1. 1 \in 1..Len(up[c])
    BY <1>3, FrameTaken
  <2>2. Taken(s) = n + m
    BY DEF Taken
  <2> QED BY <2>1, <2>2, ExpectedFrame
<1>6. n <= emitted[s] /\ \A i \in 1..m : q[i] = n + i /\ n + i <= emitted[s]
  <2>1. \A i \in 1..m :
           \/ q[i] = n + i /\ n + i <= emitted[s]
           \/ s \notin registered
    BY <1>2 DEF QueueInv
  <2> QED BY <1>2, <2>1 DEF QueueInv
<1>7. \/ r.queue = Append(q, b) /\ (r.closes = 0 <=> b \notin Ends)
      \/ r.queue = q /\ r.closes = 1
  BY DEF Queued
<1>c. n = Len(r.got) /\ r.got = stream[s].got /\ r.channel = c /\ n = Len(stream[s].got)
  BY <1>5
<1> HIDE DEF q, n, m
<1>8. ASSUME \A i \in 1..Len(r.queue) :
                \/ r.queue[i] = n + i /\ n + i <= emitted[s]
                \/ /\ i = Len(r.queue) /\ r.queue[i] \in Ends /\ s \notin registered'
                   /\ r.queue[i] = End => n + i = emitted[s] + 1 /\ worker[s] = "finished"
      PROVE  QueueInv'
  <2> SUFFICES ASSUME NEW t \in Streams
               PROVE  LET p == stream'[t].queue
                          k == Len(stream'[t].got) IN
                      /\ k <= emitted[t]
                      /\ \A i \in 1..Len(p) :
                            \/ p[i] = k + i /\ k + i <= emitted[t]
                            \/ /\ i = Len(p) /\ p[i] \in Ends /\ t \notin registered'
                               /\ p[i] = End => k + i = emitted[t] + 1 /\ worker[t] = "finished"
    BY <1>3 DEF QueueInv
  <2>1. CASE t = s
    BY <1>2, <1>6, <1>8, <1>c, <2>1, ZenonT(30)
  <2>2. CASE t # s
    <3>1. stream'[t] = stream[t] /\ (t \in registered' <=> t \in registered)
      BY <1>2, <2>2
    <3>2. QueueInv
      OBVIOUS
    <3> HIDE <1>8
    <3> HIDE DEF StreamInv
    <3> QED BY <3>1, <3>2 DEF QueueInv
  <2> QED BY <2>1, <2>2
<1>9. ASSUME s \in registered' => Flows(s, up'[c], n + Len(r.queue), emitted[s])
      PROVE  FlowInv'
  <2>1. ASSUME NEW t \in registered'
        PROVE  Flows(t, up'[stream'[t].channel], Taken(t)', emitted[t])
    <3>1. CASE t = s
      <4>1. Taken(t)' = n + Len(r.queue) /\ stream'[t].channel = c
        BY <1>2, <1>c, <3>1 DEF Taken
      <4> QED BY <1>9, <3>1, <4>1
    <3>2. CASE t # s
      <4>1. t \in registered /\ t \in Streams
        BY <1>2 DEF StreamTypes
      <4>2. Taken(t)' = Taken(t) /\ stream'[t].channel = stream[t].channel
        BY <1>2, <3>2, <4>1 DEF Taken
      <4>3. Flows(t, up'[stream[t].channel], Taken(t), emitted[t])
        BY <1>3, <3>2, <4>1, OthersFlow
      <4> QED BY <4>2, <4>3
    <3> QED BY <3>1, <3>2
  <2> QED BY <1>3, <2>1 DEF FlowInv, Flows
<1>10. CASE r.queue = Append(q, b) /\ (r.closes = 0 <=> b \notin Ends)
  <2>1. Len(r.queue) = m + 1 /\ r.queue[m + 1] = b /\ \A i \in 1..m : r.queue[i] = q[i]
    BY <1>4, <1>10, AppendProperties
  <2>2. ASSUME NEW i \in 1..Len(r.queue)
        PROVE  \/ r.queue[i] = n + i /\ n + i <= emitted[s]
               \/ /\ i = Len(r.queue) /\ r.queue[i] \in Ends /\ s \notin registered'
                  /\ r.queue[i] = End => n + i = emitted[s] + 1 /\ worker[s] = "finished"
    <3>1. CASE i \in 1..m
      BY <1>6, <2>1, <3>1
    <3>2. CASE i = m + 1 /\ b \notin Ends
      <4>1. b = n + (m + 1)
        BY <1>4, <1>5, <3>2
      <4> QED BY <1>5, <2>1, <3>2, <4>1
    <3>3. CASE i = m + 1 /\ b \in Ends
      <4>1. n + (m + 1) = emitted[s] + 1 /\ worker[s] = "finished"
        BY <1>4, <1>5, <3>3
      <4>2. s \notin registered'
        BY <1>2, <1>10, <3>3
      <4> QED BY <2>1, <3>3, <4>1, <4>2
    <3> QED BY <1>4, <2>1, <3>1, <3>2, <3>3
  <2>3. ASSUME s \in registered' PROVE Flows(s, up'[c], n + Len(r.queue), emitted[s])
    <3>1. b \notin Ends
      BY <1>2, <1>10, <2>3
    <3>2. n + Len(r.queue) = Taken(s) + 1
      BY <1>4, <1>5, <2>1
    <3> QED BY <1>3, <3>1, <3>2, OwnFlow
  <2> QED BY <1>1, <1>8, <1>9, <2>2, <2>3
<1>11. CASE r.queue = q /\ r.closes = 1
  <2>1. s \notin registered' /\ Len(r.queue) = m
    BY <1>2, <1>4, <1>11
  <2> QED BY <1>1, <1>6, <1>8, <1>9, <1>11, <2>1
<1> QED BY <1>7, <1>10, <1>11

(* The hub's reader handles a frame.                                       *)
LEMMA DeliverKeeps ==
  ASSUME StreamInv, UNCHANGED instance, NEW c \in Channels, deliver(c)
  PROVE  StreamInv'
<1> DEFINE s == up[c][1].id
           b == up[c][1].body
<1>1. Took(c) /\ UNCHANGED <<send, worker, emitted, instance>>
  BY DEF deliver, Took, workerVars
<1>2. Head(up[c]) = up[c][1] /\ 1 \in 1..Len(up[c])
  BY <1>1, FrameTaken
<1>3. CASE s \notin registered
  <2>1. UNCHANGED streamVars
    BY <1>2, <1>3 DEF deliver
  <2> QED BY <1>1, <1>3, <2>1, UnknownKeeps DEF streamVars
<1>4. CASE s \in registered
  <2>1. /\ stream' = [stream EXCEPT ![s] = delivered(s, b)]
        /\ registered' = IF stream'[s].closes > 0 THEN registered \ {s} ELSE registered
        /\ UNCHANGED unstopped
    BY <1>2, <1>4 DEF deliver
  <2>2. s \in Streams /\ b \in 0..Fail /\ stream \in [Streams -> Stream]
    BY <1>2, <1>4, ExpectedFrame DEF StreamInv, StreamTypes
  <2>3. stream'[s] = delivered(s, b)
    BY <2>1, <2>2
  <2>4. Delivery(c, s, delivered(s, b))
    BY <1>1, <2>1, <2>3 DEF Delivery
  <2> DEFINE r == delivered(s, b)
  <2>5. /\ r \in Stream /\ r.pc = stream[s].pc /\ r.channel = stream[s].channel
        /\ r.got = stream[s].got /\ r.result = stream[s].result
        /\ r.closes \in {0, 1} /\ Len(r.queue) <= StreamQueue /\ Queued(s, r, b)
    BY <1>4, <2>2, DeliveredStream DEF Queued
  <2> QED BY <1>4, <2>2, <2>4, <2>5, DeliveryKeeps, Zenon
<1> QED BY <1>3, <1>4

-----------------------------------------------------------------------------

(* What channels, requests and workers keep up, for any number of them.    *)
THEOREM RelayInductive == Spec => [](ChannelInv /\ StreamInv)
<1>1. ASSUME ChannelInv, StreamInv, [Next]_vars PROVE StreamInv'
  <2>1. CASE UNCHANGED vars
    BY <1>1, <2>1, StreamStutter DEF vars, streamVars, workerVars
  <2>2. ASSUME UNCHANGED instance, NEW c \in Channels, connect(c) \/ Break(c) \/ ChannelStep(c)
        PROVE  StreamInv'
    BY <1>1, <2>2, ChannelStepsKeep, CancelWorkersKeeps, DeliverKeeps, StartStreamKeeps
    DEF ChannelStep, HandlerStep, ServeStep
  <2>3. ASSUME UNCHANGED instance, NEW s \in Streams, connection(s) \/ HubStep(s) \/ browserLeaves(s)
        PROVE  StreamInv'
    BY <1>1, <2>3, ConnectionKeeps, AddStreamKeeps, OpenKeeps, RelayKeeps, CloseKeeps,
       RemoveStreamKeeps, BrowserLeavesKeeps
    DEF HubStep
  <2>4. ASSUME UNCHANGED instance, NEW s \in Streams,
               sendFrame(s) \/ stopWorker(s) \/ \E body \in {End, Fail} : runStream(s, body)
        PROVE  StreamInv'
    BY <1>1, <2>4, WorkerAnswers, StopWorkerKeeps
  <2> QED BY <1>1, <2>1, <2>2, <2>3, <2>4 DEF Next
<1>2. ASSUME ChannelInv, StreamInv, [Next]_vars PROVE ChannelInv'
  BY <1>2, ChannelKeeps
<1> QED BY <1>1, <1>2, ChannelInit, StreamInit, PTL DEF Spec

(* The queues of the hub and of the agent never outgrow their capacity,    *)
(* and no request, worker or channel gets into an unknown state.           *)
THEOREM TypeCorrect == Spec => []TypeOK
<1>1. ChannelInv /\ StreamInv => TypeOK
  BY DEF ChannelInv, StreamInv, StreamTypes, TypeOK
<1> QED BY <1>1, RelayInductive, PTL

(* The queue of a request is closed once, whoever gets there first, and    *)
(* nothing is sent to it after that.                                       *)
THEOREM ClosedOnce == Spec => []QueuesClosedOnce
<1>1. StreamInv => QueuesClosedOnce
  BY DEF StreamInv, StageInv, QueuesClosedOnce
<1> QED BY <1>1, RelayInductive, PTL

(* Requests go to the channel that was registered last as long as it is    *)
(* served, however late the one before it is torn down.                    *)
THEOREM LatestServed == Spec => []LatestIsActive
<1>1. ChannelInv => LatestIsActive
  BY DEF ChannelInv
<1> QED BY <1>1, RelayInductive, PTL

-----------------------------------------------------------------------------
(* The relay implements LogPipe.                                           *)

ViewGot == [s \in Streams |-> stream[s].got]
ViewResult == [s \in Streams |-> stream[s].result]

(* What the browsers see changes with the record of one stream only.       *)
LEMMA ViewChanged ==
  ASSUME StreamTypes, NEW s \in Streams, NEW r, stream' = [stream EXCEPT ![s] = r]
  PROVE  /\ ViewGot' = [ViewGot EXCEPT ![s] = r.got]
         /\ ViewResult' = [ViewResult EXCEPT ![s] = r.result]
<1>1. \A t \in Streams : stream'[t] = IF t = s THEN r ELSE stream[t]
  BY DEF StreamTypes
<1> DEFINE g == r.got
           o == r.result
<1>2. \A t \in Streams : /\ stream'[t].got = IF t = s THEN g ELSE stream[t].got
                         /\ stream'[t].result = IF t = s THEN o ELSE stream[t].result
  BY <1>1
<1> HIDE DEF g, o
<1>3. ViewGot' = [ViewGot EXCEPT ![s] = g]
  BY <1>2 DEF ViewGot
<1>4. ViewResult' = [ViewResult EXCEPT ![s] = o]
  BY <1>2 DEF ViewResult
<1> QED BY <1>3, <1>4 DEF g, o

(* A step that shows a browser nothing.                                    *)
LEMMA ViewKept ==
  ASSUME emitted' = emitted,
         \A t \in Streams : stream'[t].got = stream[t].got /\ stream'[t].result = stream[t].result
  PROVE  UNCHANGED Pipe!vars
  BY DEF Pipe!vars

(* A request that is changed otherwise than by showing it something.       *)
LEMMA RequestKept ==
  ASSUME StreamTypes, UNCHANGED emitted, NEW s \in Streams, NEW r, stream' = [stream EXCEPT ![s] = r],
         r.got = stream[s].got, r.result = stream[s].result
  PROVE  UNCHANGED Pipe!vars
<1>1. \A t \in Streams : stream'[t] = IF t = s THEN r ELSE stream[t]
  BY DEF StreamTypes
<1> QED BY <1>1, ViewKept

(* The steps of a channel show the browsers nothing.                       *)
LEMMA ChannelStepShows ==
  ASSUME StreamInv, NEW c \in Channels, connect(c) \/ Break(c) \/ ChannelStep(c)
  PROVE  UNCHANGED Pipe!vars
<1>1. CASE UNCHANGED <<stream, emitted>>
  BY <1>1, ViewKept
<1>2. ASSUME NEW d, closeAll(d), UNCHANGED emitted PROVE UNCHANGED Pipe!vars
  <2>1. \A s \in Streams :
           stream'[s] = stream[s] \/ (s \in registered /\ stream'[s] = Cut(s))
    BY <1>2 DEF closeAll
  <2> QED BY <1>2, <2>1, CutStream, ViewKept DEF StreamInv
<1>3. CASE deliver(c)
  <2> DEFINE s == Head(up[c]).id
             b == Head(up[c]).body
  <2>1. Took(c) /\ UNCHANGED emitted
    BY <1>3 DEF deliver, Took, workerVars
  <2>2. Head(up[c]) = up[c][1] /\ 1 \in 1..Len(up[c])
    BY <2>1, FrameTaken
  <2>3. CASE s \notin registered
    BY <1>1, <1>3, <2>1, <2>3 DEF deliver, streamVars
  <2>4. CASE s \in registered
    <3>1. stream' = [stream EXCEPT ![s] = delivered(s, b)]
      BY <1>3, <2>4 DEF deliver
    <3>2. s \in Streams /\ b \in 0..Fail
      BY <2>2, <2>4, ExpectedFrame
    <3>3. delivered(s, b).got = stream[s].got /\ delivered(s, b).result = stream[s].result
      BY <2>4, <3>2, DeliveredStream, Zenon
    <3> QED BY <2>1, <3>1, <3>2, <3>3, RequestKept DEF StreamInv
  <2> QED BY <2>3, <2>4
<1>4. CASE register(c)
  BY <1>1, <1>2, <1>4 DEF register, streamVars, workerVars
<1>5. CASE leave(c)
  BY <1>2, <1>5 DEF leave, workerVars
<1>6. CASE connect(c) \/ Break(c) \/ unregister(c) \/ cancelWorkers(c) \/ endServe(c) \/ startStream(c)
  BY <1>1, <1>6 DEF connect, Break, unregister, cancelWorkers, endServe, startStream,
     streamVars, workerVars
<1> QED BY <1>3, <1>4, <1>5, <1>6 DEF ChannelStep, HandlerStep, ServeStep

(* A browser is told how its request has ended.                            *)
LEMMA OutcomeTold ==
  ASSUME StreamTypes, UNCHANGED emitted, NEW s \in Streams, NEW r,
         stream' = [stream EXCEPT ![s] = r],
         stream[s].result = "none", r.got = stream[s].got,
         \/ r.result \in {"error", "left"}
         \/ r.result = "refused" /\ stream[s].got = <<>>
         \/ r.result = "end" /\ Len(stream[s].got) = emitted[s]
  PROVE  Pipe!Next
<1>1. /\ ViewGot' = [ViewGot EXCEPT ![s] = r.got]
      /\ ViewResult' = [ViewResult EXCEPT ![s] = r.result]
  BY ViewChanged
<1>2. ViewGot[s] = stream[s].got /\ ViewResult[s] = stream[s].result
  BY DEF ViewGot, ViewResult
<1>3. ViewGot' = ViewGot
  BY <1>1, <1>2 DEF ViewGot
<1> DEFINE o == r.result
<1>4. ViewResult' = [ViewResult EXCEPT ![s] = o]
  BY <1>1
<1>5. \/ o \in {"error", "left"}
      \/ o = "refused" /\ ViewGot[s] = <<>>
      \/ o = "end" /\ Len(ViewGot[s]) = emitted[s]
  BY <1>2
<1> HIDE DEF o
<1>6. CASE o \in {"error", "left"}
  BY <1>2, <1>3, <1>4, <1>6 DEF Pipe!Next, Pipe!Break, ViewGot, ViewResult
<1>7. CASE o = "refused" /\ ViewGot[s] = <<>>
  BY <1>2, <1>3, <1>4, <1>7 DEF Pipe!Next, Pipe!Refuse, ViewGot, ViewResult
<1>8. CASE o = "end" /\ Len(ViewGot[s]) = emitted[s]
  BY <1>2, <1>3, <1>4, <1>8 DEF Pipe!Next, Pipe!Complete, ViewGot, ViewResult
<1> QED BY <1>5, <1>6, <1>7, <1>8

(* A browser is shown the next line.                                       *)
LEMMA LineShown ==
  ASSUME StreamTypes, UNCHANGED emitted, NEW s \in Streams, NEW r,
         stream' = [stream EXCEPT ![s] = r],
         stream[s].result = "none", r.result = "none",
         r.got = Append(stream[s].got, Len(stream[s].got) + 1),
         Len(stream[s].got) < emitted[s]
  PROVE  Pipe!Show(s)
<1>1. /\ ViewGot' = [ViewGot EXCEPT ![s] = r.got]
      /\ ViewResult' = [ViewResult EXCEPT ![s] = r.result]
  BY ViewChanged
<1>2. ViewGot[s] = stream[s].got /\ ViewResult[s] = "none"
  BY DEF ViewGot, ViewResult
<1>3. ViewResult' = ViewResult
  BY <1>1, <1>2 DEF ViewResult
<1>4. ViewGot' = [ViewGot EXCEPT ![s] = Append(ViewGot[s], Len(ViewGot[s]) + 1)]
  BY <1>1, <1>2
<1> QED BY <1>2, <1>3, <1>4 DEF Pipe!Show, ViewGot, ViewResult

(* The steps of a request.                                                 *)
LEMMA RequestStepShows ==
  ASSUME StreamInv, NEW s \in Streams, connection(s) \/ HubStep(s) \/ browserLeaves(s)
  PROVE  [Pipe!Next]_Pipe!vars
<1>t. StreamTypes /\ UNCHANGED emitted
  BY DEF StreamInv, StreamTypes, connection, HubStep, browserLeaves, addStream, open, relay, Close,
     removeStream, workerVars
<1>r. stream[s] \in Stream
  BY <1>t DEF StreamTypes
<1>1. CASE connection(s)
  <2> DEFINE r == [stream[s] EXCEPT !.pc = "add", !.channel = active]
  <2>1. stream' = [stream EXCEPT ![s] = r]
    BY <1>1 DEF connection
  <2>2. r.got = stream[s].got /\ r.result = stream[s].result
    BY <1>r DEF Stream
  <2> HIDE DEF r
  <2> QED BY <1>t, <2>1, <2>2, RequestKept
<1>2. CASE addStream(s)
  <2>1. stream[s].got = <<>> /\ stream[s].result = "none"
    BY <1>2 DEF addStream, StreamInv, StageInv
  <2>2. CASE stream' = [stream EXCEPT ![s].pc = "done", ![s].result = "refused"]
    <3> DEFINE r == [stream[s] EXCEPT !.pc = "done", !.result = "refused"]
    <3>1. stream' = [stream EXCEPT ![s] = r]
      BY <2>2
    <3>2. r.got = stream[s].got /\ r.result = "refused"
      BY <1>r DEF Stream
    <3> HIDE DEF r
    <3> QED BY <1>t, <2>1, <3>1, <3>2, OutcomeTold
  <2>3. CASE stream' = [stream EXCEPT ![s].pc = "start"]
    <3> DEFINE r == [stream[s] EXCEPT !.pc = "start"]
    <3>1. stream' = [stream EXCEPT ![s] = r]
      BY <2>3
    <3>2. r.got = stream[s].got /\ r.result = stream[s].result
      BY <1>r DEF Stream
    <3> HIDE DEF r
    <3> QED BY <1>t, <3>1, <3>2, RequestKept
  <2> QED BY <1>2, <2>2, <2>3 DEF addStream
<1>3. CASE open(s)
  <2>1. stream[s].got = <<>> /\ stream[s].result = "none"
    BY <1>3 DEF open, StreamInv, StageInv
  <2>2. CASE stream' = [stream EXCEPT ![s].pc = "remove", ![s].result = "refused"]
    <3> DEFINE r == [stream[s] EXCEPT !.pc = "remove", !.result = "refused"]
    <3>1. stream' = [stream EXCEPT ![s] = r]
      BY <2>2
    <3>2. r.got = stream[s].got /\ r.result = "refused"
      BY <1>r DEF Stream
    <3> HIDE DEF r
    <3> QED BY <1>t, <2>1, <3>1, <3>2, OutcomeTold
  <2>3. CASE stream' = [stream EXCEPT ![s].pc = "relay"]
    <3> DEFINE r == [stream[s] EXCEPT !.pc = "relay"]
    <3>1. stream' = [stream EXCEPT ![s] = r]
      BY <2>3
    <3>2. r.got = stream[s].got /\ r.result = stream[s].result
      BY <1>r DEF Stream
    <3> HIDE DEF r
    <3> QED BY <1>t, <3>1, <3>2, RequestKept
  <2> QED BY <1>3, <2>2, <2>3 DEF open
<1>7. CASE Close(s)
  <2> DEFINE r == [stream[s] EXCEPT !.pc = "remove"]
  <2>1. stream' = [stream EXCEPT ![s] = r]
    BY <1>7 DEF Close
  <2>2. r.got = stream[s].got /\ r.result = stream[s].result
    BY <1>r DEF Stream
  <2> HIDE DEF r
  <2> QED BY <1>t, <2>1, <2>2, RequestKept
<1>4. CASE removeStream(s)
  <2> DEFINE r == [removedStream(s) EXCEPT !.pc = "done"]
  <2>1. stream' = [stream EXCEPT ![s] = r]
    BY <1>4 DEF removeStream
  <2>2. /\ removedStream(s) \in Stream /\ removedStream(s).got = stream[s].got
        /\ removedStream(s).result = stream[s].result
    BY StreamRemoved DEF StreamInv
  <2>3. r.got = stream[s].got /\ r.result = stream[s].result
    BY <2>2 DEF Stream
  <2> HIDE DEF r
  <2> QED BY <1>t, <2>1, <2>3, RequestKept
<1>5. CASE browserLeaves(s)
  <2> DEFINE r == [stream[s] EXCEPT !.pc = "close", !.result = "left"]
  <2>1. stream' = [stream EXCEPT ![s] = r] /\ stream[s].result = "none"
    BY <1>5 DEF browserLeaves, StreamInv, StageInv
  <2>2. r.got = stream[s].got /\ r.result = "left"
    BY <1>r DEF Stream
  <2> HIDE DEF r
  <2> QED BY <1>t, <2>1, <2>2, OutcomeTold
<1>6. CASE relay(s)
  <2> DEFINE q == stream[s].queue
  <2>1. stream[s].result = "none"
    BY <1>6 DEF relay, StreamInv, StageInv
  <2>2. CASE /\ q # <<>> /\ Head(q) \in 1..Lines
             /\ stream' = [stream EXCEPT ![s].queue = Tail(@), ![s].got = Append(@, Head(q))]
    <3> DEFINE g == Append(stream[s].got, Head(q))
               p == Tail(q)
               r == [stream[s] EXCEPT !.queue = p, !.got = g]
    <3>1. stream' = [stream EXCEPT ![s] = r]
      BY <2>2
    <3>2. /\ Head(q) = Len(stream[s].got) + 1 /\ Len(stream[s].got) < emitted[s]
      <4>1. /\ Len(stream[s].got) \in Nat /\ emitted[s] \in Nat
            /\ Head(q) = Len(stream[s].got) + 1 /\ Len(stream[s].got) + 1 <= emitted[s]
        BY <2>2, FirstQueued, Constants
      <4> QED BY <4>1
    <3>3. g = Append(stream[s].got, Len(stream[s].got) + 1)
      BY <3>2
    <3> HIDE DEF g, p
    <3>4. r.got = g /\ r.result = stream[s].result
      BY <1>r DEF Stream
    <3> HIDE DEF r
    <3> QED BY <1>t, <2>1, <3>1, <3>2, <3>3, <3>4, LineShown DEF Pipe!Next
  <2>3. ASSUME NEW p, NEW o, stream' = [stream EXCEPT ![s].queue = p, ![s].pc = "close", ![s].result = o],
               o = "error" \/ (o = "end" /\ Len(stream[s].got) = emitted[s])
        PROVE  Pipe!Next
    <3> DEFINE r == [stream[s] EXCEPT !.queue = p, !.pc = "close", !.result = o]
    <3>1. stream' = [stream EXCEPT ![s] = r]
      BY <2>3
    <3>2. r.got = stream[s].got /\ r.result = o
      BY <1>r DEF Stream
    <3> HIDE DEF r
    <3> QED BY <1>t, <2>1, <2>3, <3>1, <3>2, OutcomeTold
  <2>4. CASE /\ q # <<>> /\ Head(q) \in {End, Fail}
             /\ stream' = [stream EXCEPT ![s].queue = Tail(@), ![s].pc = "close",
                              ![s].result = IF Head(q) = End THEN "end" ELSE "error"]
    <3> DEFINE p == Tail(q)
               o == IF Head(q) = End THEN "end" ELSE "error"
    <3>1. stream' = [stream EXCEPT ![s].queue = p, ![s].pc = "close", ![s].result = o]
      BY <2>4
    <3>2. o = "error" \/ (o = "end" /\ Len(stream[s].got) = emitted[s])
      BY <2>4, FirstQueued DEF Ends
    <3> HIDE DEF p, o
    <3> QED BY <2>3, <3>1, <3>2
  <2>5. CASE stream' = [stream EXCEPT ![s].pc = "close", ![s].result = "error"]
    <3> DEFINE r == [stream[s] EXCEPT !.pc = "close", !.result = "error"]
    <3>1. stream' = [stream EXCEPT ![s] = r]
      BY <2>5
    <3>2. r.got = stream[s].got /\ r.result = "error"
      BY <1>r DEF Stream
    <3> HIDE DEF r
    <3> QED BY <1>t, <2>1, <3>1, <3>2, OutcomeTold
  <2> QED BY <1>6, <2>2, <2>4, <2>5 DEF relay
<1> QED BY <1>1, <1>2, <1>3, <1>4, <1>5, <1>6, <1>7 DEF HubStep

(* The steps of a worker.                                                  *)
LEMMA WorkerStepShows ==
  ASSUME StreamInv, NEW s \in Streams,
         sendFrame(s) \/ stopWorker(s) \/ \E body \in {End, Fail} : runStream(s, body)
  PROVE  [Pipe!Next]_Pipe!vars
<1>1. CASE sendFrame(s)
  <2>1. /\ stream[s].result # "end"
        /\ emitted' = [emitted EXCEPT ![s] = @ + 1] /\ UNCHANGED stream
    BY <1>1 DEF sendFrame, hasLine, streamVars, StreamInv, StageInv
  <2>2. ViewResult[s] # "end" /\ UNCHANGED <<ViewGot, ViewResult>>
    BY <2>1 DEF ViewGot, ViewResult
  <2> QED BY <2>1, <2>2 DEF Pipe!Next, Pipe!Write, ViewGot, ViewResult
<1>2. CASE stopWorker(s) \/ \E body \in {End, Fail} : runStream(s, body)
  <2>1. UNCHANGED <<stream, emitted>>
    BY <1>2 DEF stopWorker, runStream, streamVars
  <2> QED BY <2>1, ViewKept
<1> QED BY <1>1, <1>2

(* Bounded queues, a shared channel that is replaced and streams that are  *)
(* cut never show a browser anything but the pod's lines, in order, and    *)
(* "end" only after all of them (deliver, handleClusterPodLogs).           *)
THEOREM PipeImplemented == Spec => ImplementsPipe
<1>1. Init => Pipe!Init
  BY DEF Init, Unused, Pipe!Init
<1>2. ASSUME StreamInv, [Next]_vars PROVE [Pipe!Next]_Pipe!vars
  <2>1. CASE UNCHANGED vars
    BY <2>1, ViewKept DEF vars, streamVars, workerVars
  <2>2. ASSUME NEW c \in Channels, connect(c) \/ Break(c) \/ ChannelStep(c)
        PROVE  [Pipe!Next]_Pipe!vars
    BY <1>2, <2>2, ChannelStepShows
  <2>3. ASSUME NEW s \in Streams, connection(s) \/ HubStep(s) \/ browserLeaves(s)
        PROVE  [Pipe!Next]_Pipe!vars
    BY <1>2, <2>3, RequestStepShows
  <2>4. ASSUME NEW s \in Streams,
               sendFrame(s) \/ stopWorker(s) \/ \E body \in {End, Fail} : runStream(s, body)
        PROVE  [Pipe!Next]_Pipe!vars
    BY <1>2, <2>4, WorkerStepShows
  <2> QED BY <1>2, <2>1, <2>2, <2>3, <2>4 DEF Next
<1> QED BY <1>1, <1>2, RelayInductive, PTL DEF Spec, ImplementsPipe, Pipe!Spec
=============================================================================
