------------------------ MODULE AlertDelivery_proofs ------------------------
(***************************************************************************)
(* Theorems about AlertDelivery, for any number of alerts, attempts and    *)
(* faults and any delays.                                                  *)
(***************************************************************************)
EXTENDS AlertDelivery, FiniteSetTheorems, TLAPS

Entry == [id : Alerts, attempts : Nat]

(* The part of the type invariant the argument needs; it leaves the        *)
(* columns that hold times alone.                                          *)
Shape ==
    /\ status \in [Alerts -> {"none", "firing", "acknowledged", "resolved"}]
    /\ delivery \in [Alerts -> Unsettled \cup Settled \cup {"none", "disabled"}]
    /\ attempts \in [Alerts -> Nat]
    /\ sends \in [Alerts -> Nat]
    /\ received \subseteq Alerts
    /\ manager.pc \in {"idle", "next", "sending", "record"}
    /\ manager.ok \in BOOLEAN
    /\ manager.batch \in Seq(Entry)
    /\ manager = [pc |-> manager.pc, batch |-> manager.batch, age |-> manager.age,
                  ok |-> manager.ok]

(* Nobody but the loop changes what the loop has read: its batch is still  *)
(* what the table says.                                                    *)
BatchIsCurrent ==
    /\ manager.pc # "idle" => manager.batch # <<>>
    /\ \A i \in 1..Len(manager.batch) :
          /\ delivery[manager.batch[i].id] \in Unsettled
          /\ manager.batch[i].attempts = attempts[manager.batch[i].id]
    /\ \A i, j \in 1..Len(manager.batch) :
          i # j => manager.batch[i].id # manager.batch[j].id

(* Attempts are counted after the request they stand for, and there are    *)
(* some left as long as an alert is not settled.                           *)
AttemptsCounted ==
    \A a \in Alerts :
        /\ status[a] = "none" => delivery[a] = "none"
        /\ attempts[a] <= sends[a]
        /\ delivery[a] \in Unsettled \cup {"none", "disabled"} => attempts[a] < MaxAttempts
        /\ delivery[a] = "dead_letter" => attempts[a] = MaxAttempts
        /\ delivery[a] = "delivered" => a \in received

(* The request that the loop is busy with is not counted yet, and its      *)
(* success is the webhook's.                                               *)
RequestUncounted ==
    /\ manager.pc \in {"sending", "record"} => attempts[current] < sends[current]
    /\ manager.pc = "record" /\ manager.ok => current \in received

DeliveryInv == Shape /\ BatchIsCurrent /\ AttemptsCounted /\ RequestUncounted

-----------------------------------------------------------------------------

(* What the assumption on the constants says of the attempts.              *)
LEMMA Constants == MaxAttempts \in Nat /\ MaxAttempts > 0
  BY ConstantsAssumption

(* A hub that starts over an empty alerts table satisfies the invariant.   *)
LEMMA DeliveryInit == Init => DeliveryInv
<1> SUFFICES ASSUME Init PROVE DeliveryInv
  OBVIOUS
<1> USE Constants DEF Init, Idle
<1>1. Shape
  BY DEF Shape, Unsettled, Settled
<1>2. BatchIsCurrent
  BY DEF BatchIsCurrent
<1>3. AttemptsCounted
  BY DEF AttemptsCounted
<1>4. RequestUncounted
  BY DEF RequestUncounted
<1> QED BY <1>1, <1>2, <1>3, <1>4 DEF DeliveryInv

(* The alert in hand is an alert that is waiting for delivery.             *)
LEMMA CurrentIsUnsettled ==
  ASSUME DeliveryInv, manager.pc # "idle"
  PROVE  /\ manager.batch # <<>>
         /\ current = manager.batch[1].id
         /\ current \in Alerts
         /\ attempt = attempts[current] + 1
         /\ delivery[current] \in Unsettled
<1>1. manager.batch \in Seq(Entry) /\ manager.batch # <<>>
  BY DEF DeliveryInv, Shape, BatchIsCurrent
<1>2. 1 \in 1..Len(manager.batch) /\ Head(manager.batch) = manager.batch[1]
  BY <1>1
<1>3. manager.batch[1] \in Entry
  BY <1>1, <1>2
<1> QED BY <1>1, <1>2, <1>3 DEF current, attempt, DeliveryInv, BatchIsCurrent, Entry

(* The rest of the batch does not depend on the alert in hand: once its    *)
(* row is written, the loop goes on with rows that still are what it read. *)
LEMMA NextKeepsBatch ==
  ASSUME DeliveryInv, manager.pc # "idle", NextOfBatch,
         \A a \in Alerts : a # current => delivery'[a] = delivery[a] /\ attempts'[a] = attempts[a]
  PROVE  /\ BatchIsCurrent'
         /\ manager'.pc \in {"idle", "next"}
         /\ manager'.ok \in BOOLEAN
         /\ manager'.batch \in Seq(Entry)
         /\ manager' = [pc |-> manager'.pc, batch |-> manager'.batch, age |-> manager'.age,
                        ok |-> manager'.ok]
<1> DEFINE b == manager.batch
<1>1. b \in Seq(Entry) /\ b # <<>> /\ current = b[1].id
  BY CurrentIsUnsettled DEF DeliveryInv, Shape
<1>2. CASE Tail(b) = <<>>
  <2>1. manager' = Idle
    BY <1>2 DEF NextOfBatch
  <2> QED BY <2>1 DEF Idle, BatchIsCurrent
<1>3. CASE Tail(b) # <<>>
  <2>1. manager' = [pc |-> "next", batch |-> Tail(b), age |-> 0, ok |-> FALSE]
    BY <1>3 DEF NextOfBatch, Idle
  <2>2. manager'.batch = Tail(b) /\ Tail(b) \in Seq(Entry)
    BY <2>1, <1>1
  <2>3. \A i \in 1..Len(Tail(b)) : i + 1 \in 1..Len(b) /\ Tail(b)[i] = b[i + 1]
    BY <1>1
  <2>4. \A i \in 1..Len(Tail(b)) : b[i + 1].id \in Alerts /\ b[i + 1].id # current
    <3> TAKE i \in 1..Len(Tail(b))
    <3>1. i + 1 \in 1..Len(b) /\ 1 \in 1..Len(b) /\ i + 1 # 1
      BY <1>1, <2>3
    <3>2. b[i + 1].id # b[1].id
      BY <3>1 DEF DeliveryInv, BatchIsCurrent
    <3>3. b[i + 1] \in Entry
      BY <1>1, <3>1
    <3> QED BY <1>1, <3>2, <3>3 DEF Entry
  <2>5. \A i \in 1..Len(Tail(b)) :
           /\ delivery'[Tail(b)[i].id] \in Unsettled
           /\ Tail(b)[i].attempts = attempts'[Tail(b)[i].id]
    BY <2>3, <2>4 DEF DeliveryInv, BatchIsCurrent
  <2>6. \A i, j \in 1..Len(Tail(b)) : i # j => Tail(b)[i].id # Tail(b)[j].id
    <3> SUFFICES ASSUME NEW i \in 1..Len(Tail(b)), NEW j \in 1..Len(Tail(b)), i # j
                 PROVE  Tail(b)[i].id # Tail(b)[j].id
      OBVIOUS
    <3>1. i + 1 \in 1..Len(b) /\ j + 1 \in 1..Len(b) /\ i + 1 # j + 1
      BY <2>3
    <3> QED BY <3>1, <2>3 DEF DeliveryInv, BatchIsCurrent
  <2>7. BatchIsCurrent'
    BY <1>3, <2>2, <2>5, <2>6, ZenonT(30) DEF BatchIsCurrent
  <2> QED BY <2>1, <2>2, <2>7
<1> QED BY <1>2, <1>3

-----------------------------------------------------------------------------
(* One lemma for each action that can disturb the invariant.               *)

(* An inserted alert is in no batch and has no request yet.                *)
LEMMA CreateStep ==
  ASSUME DeliveryInv, NEW a \in Alerts, CreateAlert(a)
  PROVE  DeliveryInv'
<1> USE DEF DeliveryInv
<1>1. /\ delivery[a] = "none" /\ delivery[a] \notin Unsettled
      /\ delivery' = [delivery EXCEPT ![a] = delivery'[a]]
      /\ delivery'[a] \in {"pending", "disabled"}
  BY DEF CreateAlert, Shape, AttemptsCounted, Unsettled
<1>2. /\ UNCHANGED <<attempts, manager, sends, received>>
      /\ \A c \in Alerts : c # a => delivery'[c] = delivery[c] /\ status'[c] = status[c]
      /\ status'[a] = "firing"
  BY DEF CreateAlert, Shape, history
<1>3. Shape'
  BY <1>1, <1>2 DEF Shape, CreateAlert, Unsettled
<1>4. BatchIsCurrent'
  <2>1. \A i \in 1..Len(manager.batch) : manager.batch[i].id \in Alerts \ {a}
    <3> TAKE i \in 1..Len(manager.batch)
    <3>1. manager.batch[i] \in Entry
      BY DEF Shape
    <3> QED BY <3>1, <1>1 DEF BatchIsCurrent, Entry
  <2> QED BY <2>1, <1>2 DEF BatchIsCurrent
<1>5. AttemptsCounted'
  BY <1>1, <1>2 DEF AttemptsCounted, Unsettled
<1>6. RequestUncounted'
  BY <1>2 DEF RequestUncounted, current
<1> QED BY <1>3, <1>4, <1>5, <1>6

(* Acknowledging and resolving leave everything but the status alone.      *)
LEMMA OperatorStep ==
  ASSUME DeliveryInv, NEW a \in Alerts, acknowledgeAlert(a) \/ ResolveAlert(a)
  PROVE  DeliveryInv'
<1> USE DEF DeliveryInv
<1>1. /\ UNCHANGED <<delivery, attempts, manager, sends, received>>
      /\ status' \in [Alerts -> {"none", "firing", "acknowledged", "resolved"}]
      /\ \A c \in Alerts : status'[c] = "none" => status[c] = "none"
  BY DEF acknowledgeAlert, ResolveAlert, history, Shape
<1>2. Shape' /\ BatchIsCurrent' /\ RequestUncounted'
  BY <1>1 DEF Shape, BatchIsCurrent, RequestUncounted, current
<1>3. AttemptsCounted'
  BY <1>1 DEF AttemptsCounted
<1> QED BY <1>2, <1>3

(* A poll takes up rows that are waiting, each once.                       *)
LEMMA ListStep ==
  ASSUME DeliveryInv, ListDueAlertDeliveries
  PROVE  DeliveryInv'
<1> USE DEF DeliveryInv
<1> DEFINE due == {a \in Alerts : isDue(a)}
<1>1. PICK n \in 1..BatchLimit : \E s \in [1..n -> due] :
           isBatch(s, due) /\ manager' = [Idle EXCEPT !.pc = "next", !.batch = BatchOf(s)]
  BY DEF ListDueAlertDeliveries
<1>2. PICK s \in [1..n -> due] :
           isBatch(s, due) /\ manager' = [Idle EXCEPT !.pc = "next", !.batch = BatchOf(s)]
  BY <1>1
<1>3. n \in Nat /\ n > 0 /\ DOMAIN s = 1..n
  BY ConstantsAssumption
<1>4. \A i \in 1..n : s[i] \in Alerts /\ delivery[s[i]] \in Unsettled /\ attempts[s[i]] \in Nat
  BY DEF isDue, Shape
<1>5. BatchOf(s) = [i \in 1..n |-> [id |-> s[i], attempts |-> attempts[s[i]]]]
  BY <1>3 DEF BatchOf
<1>6. BatchOf(s) \in Seq(Entry) /\ Len(BatchOf(s)) = n
  BY <1>3, <1>4, <1>5 DEF Entry
<1>7. UNCHANGED <<status, delivery, attempts, sends, received>>
  BY DEF ListDueAlertDeliveries, columns, history
<1>8. manager' = [pc |-> "next", batch |-> BatchOf(s), age |-> 0, ok |-> FALSE]
  BY <1>2 DEF Idle
<1>9. Shape'
  BY <1>6, <1>7, <1>8 DEF Shape
<1>10. BatchIsCurrent'
  <2>1. \A i, j \in 1..n : i # j => s[i] # s[j]
    BY <1>2, <1>3 DEF isBatch
  <2>2. BatchOf(s) # <<>>
    BY <1>3, <1>6
  <2>3. \A i \in 1..n : BatchOf(s)[i] = [id |-> s[i], attempts |-> attempts[s[i]]]
    BY <1>5
  <2>4. manager'.batch = BatchOf(s) /\ Len(manager'.batch) = n
    BY <1>6, <1>8
  <2>5. \A i \in 1..n : /\ manager'.batch[i].id = s[i]
                        /\ manager'.batch[i].attempts = attempts[s[i]]
    BY <2>3, <2>4
  <2> QED BY <1>4, <1>7, <2>1, <2>2, <2>4, <2>5 DEF BatchIsCurrent
<1>11. AttemptsCounted'
  BY <1>7 DEF AttemptsCounted
<1>12. RequestUncounted'
  BY <1>8 DEF RequestUncounted
<1> QED BY <1>9, <1>10, <1>11, <1>12

(* A request is made before it is counted.                                 *)
LEMMA DeliverStep ==
  ASSUME DeliveryInv, deliver
  PROVE  DeliveryInv'
<1> USE DEF DeliveryInv
<1>1. current \in Alerts /\ manager.pc = "next"
  BY CurrentIsUnsettled DEF deliver
<1>2. /\ UNCHANGED <<status, delivery, attempts, received>>
      /\ manager' = [pc |-> "sending", batch |-> manager.batch, age |-> 0, ok |-> manager.ok]
      /\ sends' = [sends EXCEPT ![current] = sends[current] + 1]
  BY DEF deliver, Shape, columns
<1>3. Shape'
  BY <1>1, <1>2 DEF Shape
<1>4. BatchIsCurrent' /\ current' = current
  BY <1>1, <1>2 DEF BatchIsCurrent, current
<1>5. /\ \A c \in Alerts : sends'[c] >= sends[c] /\ attempts[c] \in Nat /\ sends[c] \in Nat
                           /\ sends'[c] \in Nat
      /\ sends'[current] = sends[current] + 1
  BY <1>1, <1>2 DEF Shape
<1>6. AttemptsCounted'
  BY <1>2, <1>5 DEF AttemptsCounted
<1>7. RequestUncounted'
  BY <1>1, <1>2, <1>4, <1>5 DEF RequestUncounted, AttemptsCounted
<1> QED BY <1>3, <1>4, <1>6, <1>7

(* A send is a success only when the webhook has accepted the request.     *)
LEMMA SendStep ==
  ASSUME DeliveryInv, send
  PROVE  DeliveryInv'
<1> USE DEF DeliveryInv
<1>1. current \in Alerts /\ manager.pc = "sending"
  BY CurrentIsUnsettled DEF send
<1>2. PICK accepted, answered \in BOOLEAN :
           /\ manager' = [manager EXCEPT !.pc = "record", !.ok = isSuccess(accepted, answered)]
           /\ received' = IF accepted THEN received \cup {current} ELSE received
  BY DEF send
<1>3. /\ UNCHANGED <<status, delivery, attempts, sends>>
      /\ manager' = [pc |-> "record", batch |-> manager.batch, age |-> manager.age,
                     ok |-> manager'.ok]
      /\ manager'.ok \in BOOLEAN
      /\ manager'.ok => accepted
  BY <1>2 DEF send, Shape, columns, isSuccess
<1>4. /\ received' \subseteq Alerts /\ received \subseteq received'
      /\ manager'.ok => current \in received'
  BY <1>1, <1>2, <1>3 DEF Shape
<1>5. Shape'
  BY <1>3, <1>4 DEF Shape
<1>6. BatchIsCurrent' /\ current' = current
  BY <1>1, <1>3 DEF BatchIsCurrent, current
<1>7. AttemptsCounted'
  BY <1>3, <1>4 DEF AttemptsCounted
<1>8. RequestUncounted'
  BY <1>1, <1>3, <1>4, <1>6 DEF RequestUncounted
<1> QED BY <1>5, <1>6, <1>7, <1>8

(* The outcome of the last attempt that is allowed settles the alert.      *)
LEMMA RecordStep ==
  ASSUME DeliveryInv, Record
  PROVE  DeliveryInv'
<1> USE DEF DeliveryInv
<1>1. /\ current \in Alerts
      /\ attempt = attempts[current] + 1
      /\ manager.pc = "record"
      /\ delivery[current] \in Unsettled
  BY CurrentIsUnsettled DEF Record, RecordAlertDelivered, RecordAlertDeliveryFailure
<1>2. /\ UNCHANGED <<status, sends, received>>
      /\ NextOfBatch
      /\ attempts' = [attempts EXCEPT ![current] = attempts[current] + 1]
  BY <1>1 DEF Record, RecordAlertDelivered, RecordAlertDeliveryFailure
<1>3. /\ attempts[current] \in Nat /\ sends[current] \in Nat
      /\ attempts[current] < sends[current]
      /\ attempts[current] < MaxAttempts
  BY <1>1 DEF Shape, RequestUncounted, AttemptsCounted, Unsettled
<1>4. /\ delivery' = [delivery EXCEPT ![current] = delivery'[current]]
      /\ \/ delivery'[current] = "delivered" /\ current \in received
         \/ delivery'[current] = "retrying" /\ attempts[current] + 1 < MaxAttempts
         \/ delivery'[current] = "dead_letter" /\ ~(attempts[current] + 1 < MaxAttempts)
  <2>1. CASE RecordAlertDelivered
    BY <1>1, <2>1 DEF RecordAlertDelivered, Shape, RequestUncounted
  <2>2. CASE RecordAlertDeliveryFailure
    BY <1>1, <2>2 DEF RecordAlertDeliveryFailure, Shape, hasRetry
  <2> QED BY <2>1, <2>2 DEF Record
<1>5. \A c \in Alerts : c # current => delivery'[c] = delivery[c] /\ attempts'[c] = attempts[c]
  BY <1>2, <1>4 DEF Shape
<1>6. attempts'[current] = attempts[current] + 1 /\ attempts' \in [Alerts -> Nat]
  BY <1>1, <1>2 DEF Shape
<1>7. Shape'
  BY <1>1, <1>2, <1>4, <1>5, <1>6, NextKeepsBatch, ZenonT(30) DEF Shape, Unsettled, Settled
<1>8. AttemptsCounted'
  <2> SUFFICES ASSUME NEW c \in Alerts
               PROVE  /\ status'[c] = "none" => delivery'[c] = "none"
                      /\ attempts'[c] <= sends'[c]
                      /\ delivery'[c] \in Unsettled \cup {"none", "disabled"} =>
                            attempts'[c] < MaxAttempts
                      /\ delivery'[c] = "dead_letter" => attempts'[c] = MaxAttempts
                      /\ delivery'[c] = "delivered" => c \in received'
    BY DEF AttemptsCounted
  <2>1. CASE c # current
    BY <1>2, <1>5, <2>1 DEF AttemptsCounted
  <2>2. CASE c = current
    <3>1. status[current] # "none"
      BY <1>1 DEF AttemptsCounted, Unsettled
    <3> QED BY <1>2, <1>3, <1>4, <1>6, <2>2, <3>1, Constants DEF Unsettled
  <2> QED BY <2>1, <2>2
<1>9. RequestUncounted'
  BY <1>1, <1>2, <1>5, NextKeepsBatch DEF RequestUncounted
<1> QED BY <1>1, <1>2, <1>5, <1>7, <1>8, <1>9, NextKeepsBatch

(* Faults lose the loop's work, never what the table says.                 *)
LEMMA FaultStep ==
  ASSUME DeliveryInv, RecordFails \/ HubRestart
  PROVE  DeliveryInv'
<1> USE DEF DeliveryInv
<1>1. UNCHANGED <<status, delivery, attempts, sends, received>>
  BY DEF RecordFails, HubRestart, columns, history
<1>2. AttemptsCounted'
  BY <1>1 DEF AttemptsCounted
<1>3. CASE RecordFails
  <2>1. manager.pc # "idle" /\ NextOfBatch
    BY <1>3 DEF RecordFails
  <2>2. Shape' /\ BatchIsCurrent' /\ manager'.pc \in {"idle", "next"}
    BY <1>1, <2>1, NextKeepsBatch DEF Shape
  <2> QED BY <1>2, <2>2 DEF RequestUncounted
<1>4. CASE HubRestart
  <2>1. manager' = Idle
    BY <1>4 DEF HubRestart
  <2> QED BY <1>1, <1>2, <2>1 DEF Shape, BatchIsCurrent, RequestUncounted, Idle
<1> QED BY <1>3, <1>4

(* Time passes: only the schedule moves, and a row that is due stays due.  *)
LEMMA TickStep ==
  ASSUME DeliveryInv, Tick
  PROVE  DeliveryInv'
<1> USE DEF DeliveryInv
<1>1. /\ UNCHANGED <<status, delivery, attempts, sends, received>>
      /\ manager' = [pc |-> manager.pc, batch |-> manager.batch, age |-> manager'.age,
                     ok |-> manager.ok]
  BY DEF Tick, Shape
<1>2. Shape'
  BY <1>1 DEF Shape
<1>3. BatchIsCurrent' /\ AttemptsCounted'
  BY <1>1 DEF BatchIsCurrent, AttemptsCounted
<1>4. RequestUncounted'
  BY <1>1 DEF RequestUncounted, current
<1> QED BY <1>2, <1>3, <1>4

(* The invariant of the delivery loop is inductive.                        *)
LEMMA DeliveryStep == DeliveryInv /\ [Next]_vars => DeliveryInv'
<1> SUFFICES ASSUME DeliveryInv, [Next]_vars PROVE DeliveryInv'
  OBVIOUS
<1>1. CASE UNCHANGED vars
  BY <1>1 DEF vars, columns, history, DeliveryInv, Shape, BatchIsCurrent, AttemptsCounted,
              RequestUncounted, current
<1>2. CASE Next
  BY <1>2, CreateStep, OperatorStep, ListStep, DeliverStep, SendStep, RecordStep, FaultStep,
     TickStep DEF Next, Record
<1> QED BY <1>1, <1>2

(* The invariant the next theorems rest on.                                *)
THEOREM DeliveryInductive == Spec => []DeliveryInv
  BY DeliveryInit, DeliveryStep, PTL DEF Spec

(* For any number of alerts, attempts and faults, the delivery history of  *)
(* an alert is true (RecordAlertDelivered, RecordAlertDeliveryFailure).    *)
THEOREM HistoryTrue == Spec => []HistoryIsTrue
<1>1. DeliveryInv => HistoryIsTrue
  BY Constants DEF DeliveryInv, Shape, AttemptsCounted, HistoryIsTrue
<1> QED BY <1>1, DeliveryInductive, PTL

(* A settled alert keeps its outcome and is never sent again: the loop     *)
(* only ever has alerts in hand that are waiting (ProcessDue).             *)
THEOREM OutcomesFinal == Spec => OutcomeIsFinal
<1> DEFINE Final == \A a \in Alerts : delivery[a] \in Settled =>
                        delivery'[a] = delivery[a] /\ sends'[a] = sends[a]
<1>1. DeliveryInv /\ [Next]_vars => [Final]_vars
  <2> SUFFICES ASSUME DeliveryInv, Next, NEW a \in Alerts, delivery[a] \in Settled
               PROVE  delivery'[a] = delivery[a] /\ sends'[a] = sends[a]
    OBVIOUS
  <2>1. manager.pc # "idle" => current \in Alerts /\ current # a
    BY CurrentIsUnsettled DEF Settled, Unsettled
  <2>2. ASSUME NEW c \in Alerts, CreateAlert(c)
        PROVE  delivery'[a] = delivery[a] /\ sends'[a] = sends[a]
    BY <2>2 DEF CreateAlert, DeliveryInv, Shape, AttemptsCounted, Settled, history
  <2>3. CASE deliver
    BY <2>1, <2>3 DEF deliver, columns, DeliveryInv, Shape
  <2>4. CASE Record
    BY <2>1, <2>4 DEF Record, RecordAlertDelivered, RecordAlertDeliveryFailure, DeliveryInv, Shape
  <2>5. CASE \/ \E c \in Alerts : acknowledgeAlert(c) \/ ResolveAlert(c)
             \/ ListDueAlertDeliveries \/ send \/ RecordFails \/ HubRestart \/ Tick
    BY <2>5 DEF acknowledgeAlert, ResolveAlert, ListDueAlertDeliveries, send, RecordFails,
                HubRestart, Tick, columns, history
  <2> QED BY <2>2, <2>3, <2>4, <2>5 DEF Next, Record
<1> QED BY <1>1, DeliveryInductive, PTL DEF Spec, OutcomeIsFinal

(* For any number of alerts, attempts and faults, every step of the loop   *)
(* and of the handlers is a step of the lifecycle of one alert, or none    *)
(* (ProcessDue, deliver, CreateAlertIfDue).                                *)
THEOREM LifecycleImplemented == Spec => ImplementsLifecycle
<1>1. Init => Lifecycle!Init
  BY DEF Init, Lifecycle!Init, Unsettled
<1>2. DeliveryInv /\ [Next]_vars => [Lifecycle!Next]_(Lifecycle!vars)
  <2> SUFFICES ASSUME DeliveryInv, [Next]_vars
               PROVE  Lifecycle!Next \/ UNCHANGED Lifecycle!vars
    OBVIOUS
  <2>1. manager.pc # "idle" =>
            /\ current \in Alerts
            /\ delivery[current] \in Unsettled
            /\ attempt = attempts[current] + 1
    BY CurrentIsUnsettled
  <2>2. ASSUME NEW a \in Alerts, CreateAlert(a) PROVE Lifecycle!Next
    <3>1. Lifecycle!Raise(a)
      BY <2>2 DEF CreateAlert, Lifecycle!Raise, DeliveryInv, Shape, AttemptsCounted,
                  Unsettled, Settled, history
    <3> QED BY <3>1 DEF Lifecycle!Next
  <2>3. CASE deliver
    <3>1. Lifecycle!Post(current)
      BY <2>1, <2>3 DEF deliver, Lifecycle!Post, columns
    <3> QED BY <2>1, <2>3, <3>1 DEF Lifecycle!Next, deliver
  <2>4. CASE send
    <3>1. sends[current] > 0
      BY <2>1, <2>4 DEF send, DeliveryInv, Shape, RequestUncounted
    <3>2. Lifecycle!Accept(current) \/ UNCHANGED Lifecycle!vars
      BY <2>1, <2>4, <3>1 DEF send, Lifecycle!Accept, Lifecycle!vars, columns
    <3> QED BY <2>1, <2>4, <3>2 DEF Lifecycle!Next, send
  <2>5. CASE RecordAlertDelivered
    <3>1. PICK a \in Alerts : a = current
      BY <2>1, <2>5 DEF RecordAlertDelivered
    <3>2. Lifecycle!Count(a)
      BY <2>1, <2>5, <3>1 DEF RecordAlertDelivered, Lifecycle!Count, DeliveryInv, Shape,
                              RequestUncounted, Unsettled, Settled
    <3> QED BY <3>2 DEF Lifecycle!Next
  <2>6. CASE RecordAlertDeliveryFailure
    <3>1. PICK a \in Alerts : a = current
      BY <2>1, <2>6 DEF RecordAlertDeliveryFailure
    <3>2. Lifecycle!Count(a)
      BY <2>1, <2>6, <3>1 DEF RecordAlertDeliveryFailure, hasRetry, Lifecycle!Count, DeliveryInv,
                              Shape, RequestUncounted, Unsettled, Settled
    <3> QED BY <3>2 DEF Lifecycle!Next
  <2>7. CASE UNCHANGED <<delivery, attempts, received, sends>>
    BY <2>7 DEF Lifecycle!vars
  <2> DEFINE Same == UNCHANGED <<delivery, attempts, received, sends>>
  <2>8. ASSUME NEW a \in Alerts, acknowledgeAlert(a) \/ ResolveAlert(a) PROVE Same
    BY <2>8 DEF acknowledgeAlert, ResolveAlert, history
  <2>9. ASSUME ListDueAlertDeliveries PROVE Same
    BY <2>9 DEF ListDueAlertDeliveries, columns, history
  <2>10. ASSUME RecordFails \/ HubRestart \/ Tick PROVE Same
    BY <2>10 DEF RecordFails, HubRestart, Tick, columns, history
  <2>11. ASSUME UNCHANGED vars PROVE Same
    BY <2>11 DEF vars, columns, history
  <2> QED
    BY <2>2, <2>3, <2>4, <2>5, <2>6, <2>7, <2>8, <2>9, <2>10, <2>11 DEF Next
<1> QED BY <1>1, <1>2, DeliveryInductive, PTL DEF Spec, ImplementsLifecycle, Lifecycle!Spec

-----------------------------------------------------------------------------
(* Times and bounds: for any delays, attempts, alerts and faults, retries  *)
(* keep the documented distance, and no alert is sent more often than the  *)
(* faults explain.                                                         *)

InFlight(a) == manager.pc \in {"sending", "record"} /\ a = current

(* What the columns and the clocks can hold.                               *)
TimeTypes ==
    /\ next \in [Alerts -> (-Overdue)..Null]
    /\ since \in [Alerts -> 0..MaxRetryDelay]
    /\ manager.age \in 0..MaxSendTime
    /\ webhook \in BOOLEAN
    /\ faults \in 0..MaxFaults

(* A request that is not counted is in flight, or a fault has swallowed    *)
(* its outcome.                                                            *)
RequestsExplained ==
    \A a \in Alerts :
        /\ sends[a] <= attempts[a] + faults + (IF InFlight(a) THEN 1 ELSE 0)
        /\ attempts[a] <= MaxAttempts
        /\ status[a] = "none" => attempts[a] = 0

(* Of an alert that waits for a retry, next_delivery_at is set and far     *)
(* enough off, whatever has passed since the last attempt.                 *)
RetryIsFarEnough(a) ==
    /\ next[a] # Null
    /\ \/ since[a] >= Backoff(attempts[a])
       \/ next[a] > 0 /\ since[a] + next[a] >= Backoff(attempts[a])

DelaysKept ==
    /\ \A a \in Alerts : delivery[a] \in Unsettled /\ attempts[a] > 0 => RetryIsFarEnough(a)
    /\ \A i \in 1..Len(manager.batch) : next[manager.batch[i].id] <= 0

TimingInv == DeliveryInv /\ TimeTypes /\ RequestsExplained /\ DelaysKept

-----------------------------------------------------------------------------
(* Induction, from the fact that an injection of a finite set into itself  *)
(* reaches all of it: x - 1 would map the numbers up to n that are missing *)
(* in S into each other, and reach n from none of them.                    *)
LEMMA SetInduction ==
  ASSUME NEW S, 0 \in S, \A n \in Nat : n \in S => n + 1 \in S
  PROVE  Nat \subseteq S
<1> SUFFICES ASSUME NEW n \in Nat, n \notin S PROVE FALSE
  OBVIOUS
<1> DEFINE T == {k \in 0..n : k \notin S}
           f == [k \in T |-> k - 1]
<1>1. IsFiniteSet(T)
  <2>1. IsFiniteSet(0..n) /\ T \in SUBSET (0..n)
    BY FS_Interval
  <2> QED BY <2>1, FS_Subset
<1>2. \A k \in T : k \in Nat /\ k - 1 \in T
  <2> TAKE k \in T
  <2>1. k # 0 /\ k \in Nat /\ (k - 1) + 1 = k
    OBVIOUS
  <2>2. k - 1 \in 0..n /\ k - 1 \in Nat
    BY <2>1
  <2> QED BY <2>1, <2>2
<1>3. n \in T /\ T \subseteq 0..n
  OBVIOUS
<1> HIDE DEF T
<1>4. f \in Injection(T, T)
  <2>1. f \in [T -> T]
    BY <1>2
  <2>2. \A a, b \in T : f[a] = f[b] => a = b
    BY <1>2
  <2> QED BY <2>1, <2>2 DEF Injection, IsInjective
<1>5. f \in Surjection(T, T)
  BY <1>1, <1>4, FS_Injection
<1>6. PICK k \in T : f[k] = n
  BY <1>3, <1>5 DEF Surjection
<1> QED BY <1>3, <1>6

(* A step from number to number can be repeated any number of times.       *)
LEMMA IterationExists ==
  ASSUME NEW first \in Nat, NEW step \in [Nat -> Nat]
  PROVE  \E h \in [Nat -> Nat] : h[0] = first /\ \A n \in Nat : h[n + 1] = step[h[n]]
<1> DEFINE Upto(n) == {f \in [0..n -> Nat] :
                          f[0] = first /\ \A k \in 0..(n - 1) : f[k + 1] = step[f[k]]}
<1>1. \A n \in Nat : Upto(n) # {}
  <2> DEFINE S == {n \in Nat : Upto(n) # {}}
  <2>1. 0 \in S
    <3>1. [k \in 0..0 |-> first] \in Upto(0)
      OBVIOUS
    <3> QED BY <3>1
  <2>2. ASSUME NEW n \in Nat, n \in S PROVE n + 1 \in S
    <3>1. PICK f \in [0..n -> Nat] :
               f[0] = first /\ \A k \in 0..(n - 1) : f[k + 1] = step[f[k]]
      BY <2>2
    <3> DEFINE g == [k \in 0..(n + 1) |-> IF k = n + 1 THEN step[f[n]] ELSE f[k]]
    <3>2. n \in 0..n /\ step[f[n]] \in Nat
      OBVIOUS
    <3>3. \A k \in 0..(n + 1) : k # n + 1 => k \in 0..n
      OBVIOUS
    <3>4. g \in [0..(n + 1) -> Nat]
      BY <3>2, <3>3
    <3>5. g[0] = first
      BY <3>1
    <3>6. \A k \in 0..((n + 1) - 1) : g[k + 1] = step[g[k]]
      <4> TAKE k \in 0..((n + 1) - 1)
      <4>1. k \in 0..n /\ k \in 0..(n + 1) /\ k + 1 \in 0..(n + 1) /\ k # n + 1
        OBVIOUS
      <4>2. CASE k = n
        BY <4>1, <4>2
      <4>3. CASE k # n
        <5>1. k \in 0..(n - 1) /\ k + 1 # n + 1
          BY <4>1, <4>3
        <5>2. g[k] = f[k] /\ g[k + 1] = f[k + 1]
          BY <4>1, <5>1
        <5>3. f[k + 1] = step[f[k]]
          BY <3>1, <5>1
        <5> HIDE DEF g
        <5> QED BY <5>2, <5>3
      <4> QED BY <4>2, <4>3
    <3>7. g \in Upto(n + 1)
      BY <3>4, <3>5, <3>6
    <3>8. n + 1 \in Nat
      OBVIOUS
    <3> HIDE DEF g, Upto
    <3> QED BY <3>7, <3>8
  <2> HIDE DEF S
  <2>3. Nat \subseteq S
    BY <2>1, <2>2, SetInduction
  <2> QED BY <2>3 DEF S
<1>2. ASSUME NEW n \in Nat, NEW f \in Upto(n), NEW g \in Upto(n + 1)
      PROVE  f[n] = g[n]
  <2> DEFINE S == {k \in Nat : k \in 0..n => f[k] = g[k]}
  <2>1. 0 \in S
    OBVIOUS
  <2>2. ASSUME NEW k \in Nat, k \in S PROVE k + 1 \in S
    <3>1. CASE k + 1 \in 0..n
      <4>1. k \in 0..n /\ k \in 0..(n - 1) /\ k \in 0..((n + 1) - 1)
        BY <3>1
      <4>2. f[k + 1] = step[f[k]] /\ g[k + 1] = step[g[k]] /\ f[k] = g[k]
        BY <2>2, <4>1
      <4> QED BY <4>2
    <3>2. CASE k + 1 \notin 0..n
      BY <3>2
    <3> QED BY <3>1, <3>2
  <2> HIDE DEF S
  <2>3. n \in S
    BY <2>1, <2>2, SetInduction
  <2> QED BY <2>3 DEF S
<1> DEFINE best == [n \in Nat |-> CHOOSE f : f \in Upto(n)]
           h == [n \in Nat |-> best[n][n]]
<1>3. \A n \in Nat : best[n] \in Upto(n)
  <2> HIDE DEF Upto
  <2> QED BY <1>1
<1> HIDE DEF best
<1>4. h \in [Nat -> Nat]
  <2>1. \A n \in Nat : best[n][n] \in Nat
    <3> TAKE n \in Nat
    <3>1. best[n] \in [0..n -> Nat] /\ n \in 0..n
      BY <1>3, SMTT(20)
    <3> QED BY <3>1
  <2> QED BY <2>1
<1>5. h[0] = first
  BY <1>3
<1>6. ASSUME NEW n \in Nat PROVE h[n + 1] = step[h[n]]
  <2>1. n \in 0..((n + 1) - 1) /\ n + 1 \in Nat
    OBVIOUS
  <2>2. best[n + 1] \in Upto(n + 1) /\ best[n] \in Upto(n)
    BY <1>3, <2>1
  <2>3. best[n + 1][n + 1] = step[best[n + 1][n]]
    BY <2>1, <2>2
  <2>4. best[n][n] = best[n + 1][n]
    <3> HIDE DEF Upto
    <3> QED BY <1>2, <2>2
  <2> QED BY <2>1, <2>3, <2>4
<1> HIDE DEF h
<1> QED BY <1>4, <1>5, <1>6

(* The delay of the code is doubled up to the maximum.                     *)
LEMMA DoubledValues ==
  /\ doubled \in [Nat -> Nat] /\ doubled[0] = RetryBase
  /\ \A n \in Nat : doubled[n + 1] = IF doubled[n] >= MaxRetryDelay \div 2
                                       THEN MaxRetryDelay ELSE 2 * doubled[n]
<1>1. RetryBase \in Nat /\ MaxRetryDelay \in Nat /\ MaxRetryDelay \div 2 \in Nat
  BY ConstantsAssumption
<1> DEFINE step == [v \in Nat |-> IF v >= MaxRetryDelay \div 2 THEN MaxRetryDelay ELSE 2 * v]
<1>2. step \in [Nat -> Nat]
  BY <1>1
<1>3. PICK h \in [Nat -> Nat] : h[0] = RetryBase /\ \A n \in Nat : h[n + 1] = step[h[n]]
  BY <1>1, <1>2, IterationExists
<1>4. h = [n \in Nat |-> IF n = 0 THEN RetryBase
                         ELSE IF h[n - 1] >= MaxRetryDelay \div 2 THEN MaxRetryDelay
                         ELSE 2 * h[n - 1]]
  <2>1. ASSUME NEW n \in Nat, n # 0
        PROVE  h[n] = IF h[n - 1] >= MaxRetryDelay \div 2 THEN MaxRetryDelay ELSE 2 * h[n - 1]
    <3>1. n - 1 \in Nat /\ (n - 1) + 1 = n
      BY <2>1
    <3>2. h[n] = step[h[n - 1]] /\ h[n - 1] \in Nat
      BY <1>3, <3>1
    <3> QED BY <3>2
  <2> QED BY <1>3, <2>1
<1>5. doubled = [n \in Nat |-> IF n = 0 THEN RetryBase
                               ELSE IF doubled[n - 1] >= MaxRetryDelay \div 2 THEN MaxRetryDelay
                               ELSE 2 * doubled[n - 1]]
  BY <1>4, Zenon DEF doubled
<1> HIDE DEF step
<1>6. doubled[0] = RetryBase
  BY <1>5
<1>7. ASSUME NEW n \in Nat
      PROVE  doubled[n + 1] = IF doubled[n] >= MaxRetryDelay \div 2
                                THEN MaxRetryDelay ELSE 2 * doubled[n]
  <2>1. n + 1 \in Nat /\ n + 1 # 0 /\ (n + 1) - 1 = n
    OBVIOUS
  <2> QED BY <1>5, <2>1
<1>8. doubled \in [Nat -> Nat]
  <2> DEFINE S == {n \in Nat : doubled[n] \in Nat}
  <2>1. 0 \in S
    BY <1>1, <1>6
  <2>2. \A n \in Nat : n \in S => n + 1 \in S
    BY <1>1, <1>7
  <2> HIDE DEF S
  <2>3. Nat \subseteq S
    BY <2>1, <2>2, SetInduction
  <2>4. \A n \in Nat : doubled[n] \in Nat
    BY <2>3 DEF S
  <2> QED BY <1>5, <2>4
<1> QED BY <1>6, <1>7, <1>8

(* powerOf2 is the function its recursive definition asks for.             *)
LEMMA PowerValues ==
  /\ powerOf2 \in [Nat -> Nat] /\ powerOf2[0] = 1
  /\ \A n \in Nat : powerOf2[n + 1] = 2 * powerOf2[n]
<1> DEFINE step == [v \in Nat |-> 2 * v]
<1>1. step \in [Nat -> Nat]
  OBVIOUS
<1>2. PICK h \in [Nat -> Nat] : h[0] = 1 /\ \A n \in Nat : h[n + 1] = step[h[n]]
  <2> HIDE DEF step
  <2>1. 1 \in Nat
    OBVIOUS
  <2> QED BY <1>1, <2>1, IterationExists
<1>3. h = [n \in Nat |-> IF n = 0 THEN 1 ELSE 2 * h[n - 1]]
  <2>1. ASSUME NEW n \in Nat, n # 0
        PROVE  h[n] = 2 * h[n - 1]
    <3>1. n - 1 \in Nat /\ (n - 1) + 1 = n
      BY <2>1
    <3>2. h[n] = step[h[n - 1]] /\ h[n - 1] \in Nat
      BY <1>2, <3>1
    <3> QED BY <3>2
  <2> QED BY <1>2, <2>1
<1>4. powerOf2 = [n \in Nat |-> IF n = 0 THEN 1 ELSE 2 * powerOf2[n - 1]]
  BY <1>3, Zenon DEF powerOf2
<1>5. powerOf2[0] = 1
  BY <1>4
<1>6. ASSUME NEW n \in Nat PROVE powerOf2[n + 1] = 2 * powerOf2[n]
  <2>1. n + 1 \in Nat /\ n + 1 # 0 /\ (n + 1) - 1 = n
    OBVIOUS
  <2> QED BY <1>4, <2>1
<1>7. powerOf2 \in [Nat -> Nat]
  <2> DEFINE S == {n \in Nat : powerOf2[n] \in Nat}
  <2>1. 0 \in S
    BY <1>5
  <2>2. \A n \in Nat : n \in S => n + 1 \in S
    BY <1>6
  <2> HIDE DEF S
  <2>3. Nat \subseteq S
    BY <2>1, <2>2, SetInduction
  <2>4. \A n \in Nat : powerOf2[n] \in Nat
    BY <2>3 DEF S
  <2> QED BY <1>4, <2>4
<1> QED BY <1>5, <1>6, <1>7

(* Both are cut at the same maximum, so that the code, which stops one     *)
(* doubling early, waits as long as it is documented to.                   *)
LEMMA SameDelay ==
  ASSUME NEW d \in Nat, NEW e \in Nat, NEW m \in Nat, NEW h \in Nat, m = 2 * h, h > 0,
         d > 0, e > 0,
         (IF d > m THEN m ELSE d) = (IF e < m THEN e ELSE m)
  PROVE  LET x == IF d >= h THEN m ELSE 2 * d IN
         (IF x > m THEN m ELSE x) = (IF 2 * e < m THEN 2 * e ELSE m)
  OBVIOUS

(* The delay that the loop of retryDelay computes, which stops doubling    *)
(* above half the maximum, is the base times a power of two cut at the     *)
(* maximum.                                                                *)
LEMMA DelayIsBackoff ==
  ASSUME NEW n \in Nat \ {0}
  PROVE  retryDelay(n) = Backoff(n) /\ retryDelay(n) \in 1..MaxRetryDelay
<1> DEFINE m == MaxRetryDelay
           cut(d) == IF d > m THEN m ELSE d
           cap(e) == IF e < m THEN e ELSE m
           S == {k \in Nat : /\ doubled[k] > 0 /\ powerOf2[k] > 0
                             /\ cut(doubled[k]) = cap(RetryBase * powerOf2[k])}
<1>1. RetryBase \in Nat \ {0} /\ m \in Nat \ {0} /\ m \div 2 \in Nat /\ m = 2 * (m \div 2)
  BY ConstantsAssumption
<1>2. 0 \in S
  BY <1>1, DoubledValues, PowerValues
<1>3. ASSUME NEW k \in Nat, k \in S PROVE k + 1 \in S
  <2> DEFINE d == doubled[k]
             p == powerOf2[k]
             e == RetryBase * p
  <2>1. d \in Nat /\ p \in Nat /\ d > 0 /\ p > 0 /\ cut(d) = cap(e)
    BY <1>3, DoubledValues, PowerValues
  <2>2. e \in Nat /\ e > 0 /\ RetryBase * (2 * p) = 2 * e
    BY <1>1, <2>1
  <2>3. doubled[k + 1] = IF d >= m \div 2 THEN m ELSE 2 * d
    BY DoubledValues
  <2>4. powerOf2[k + 1] = 2 * p
    BY PowerValues
  <2>5. k + 1 \in Nat
    OBVIOUS
  <2> HIDE DEF d, p, e, m
  <2>6. doubled[k + 1] > 0 /\ powerOf2[k + 1] > 0
    BY <1>1, <2>1, <2>3, <2>4
  <2>7. cut(doubled[k + 1]) = cap(2 * e)
    BY <1>1, <2>1, <2>2, <2>3, SameDelay
  <2> QED BY <2>2, <2>4, <2>5, <2>6, <2>7 DEF e
<1>4. n - 1 \in Nat
  OBVIOUS
<1> HIDE DEF S
<1>5. n - 1 \in S
  BY <1>2, <1>3, <1>4, SetInduction
<1>6. /\ doubled[n - 1] \in Nat /\ doubled[n - 1] > 0
      /\ cut(doubled[n - 1]) = cap(RetryBase * powerOf2[n - 1])
  BY <1>4, <1>5, DoubledValues DEF S
<1>7. retryDelay(n) = cut(doubled[n - 1]) /\ Backoff(n) = cap(RetryBase * powerOf2[n - 1])
  BY DEF retryDelay, Backoff
<1>8. cut(doubled[n - 1]) \in 1..m
  BY <1>1, <1>6
<1> QED BY <1>6, <1>7, <1>8

-----------------------------------------------------------------------------
(* The invariant is inductive: one lemma for each action.                  *)

(* What the assumption on the constants says of times.                     *)
LEMMA Bounds ==
  /\ MaxAttempts \in Nat /\ RetryBase \in Nat /\ MaxRetryDelay \in Nat
  /\ MaxSendTime \in Nat /\ Overdue \in Nat /\ MaxFaults \in Nat
  /\ MaxSendTime <= MaxRetryDelay /\ MaxAttempts > 0 /\ MaxRetryDelay > 0
  /\ Null = MaxRetryDelay + 1
  BY ConstantsAssumption DEF Null

(* No alert has a schedule before the first one is created.                *)
LEMMA TimingInit == Init => TimingInv
<1> SUFFICES ASSUME Init PROVE TimingInv
  OBVIOUS
<1>1. TimeTypes
  BY Bounds DEF Init, Idle, TimeTypes
<1>2. RequestsExplained
  BY Bounds DEF Init, Idle, RequestsExplained, InFlight
<1>3. DelaysKept
  BY DEF Init, Idle, DelaysKept, Unsettled
<1> QED BY <1>1, <1>2, <1>3, DeliveryInit DEF TimingInv

(* The alert in hand has been due since it was taken up.                   *)
LEMMA CurrentIsDue ==
  ASSUME TimingInv, manager.pc # "idle"
  PROVE  next[current] <= 0 /\ current \in Alerts /\ delivery[current] \in Unsettled
<1>1. manager.batch \in Seq(Entry) /\ manager.batch # <<>>
  BY DEF TimingInv, DeliveryInv, Shape, BatchIsCurrent
<1>2. 1 \in 1..Len(manager.batch) /\ current = manager.batch[1].id
  BY <1>1, CurrentIsUnsettled DEF TimingInv
<1> QED BY <1>2, CurrentIsUnsettled DEF TimingInv, DelaysKept

(* A delay depends on nothing but the row and its clock.                   *)
LEMMA RetryUnchanged ==
  ASSUME NEW a \in Alerts, next'[a] = next[a], since'[a] = since[a], attempts'[a] = attempts[a],
         RetryIsFarEnough(a)
  PROVE  RetryIsFarEnough(a)'
  BY DEF RetryIsFarEnough

(* A new alert is due at once and has no earlier request to keep a         *)
(* distance from.                                                          *)
LEMMA TimingCreate ==
  ASSUME TimingInv, NEW a \in Alerts, CreateAlert(a)
  PROVE  TimeTypes' /\ RequestsExplained' /\ DelaysKept'
<1> USE DEF TimingInv
<1>1. /\ UNCHANGED <<attempts, webhook, manager, received, sends, since, faults>>
      /\ \A c \in Alerts \ {a} :
            delivery'[c] = delivery[c] /\ next'[c] = next[c] /\ status'[c] = status[c]
      /\ status[a] = "none" /\ delivery[a] = "none" /\ attempts[a] = 0
  BY DEF CreateAlert, DeliveryInv, Shape, TimeTypes, AttemptsCounted, RequestsExplained, history
<1>2. TimeTypes'
  BY <1>1, Bounds DEF CreateAlert, TimeTypes
<1>3. current' = current
  BY <1>1 DEF current
<1>4. RequestsExplained'
  <2>1. \A c \in Alerts : status'[c] = "none" => status[c] = "none"
    BY <1>1
  <2> QED BY <1>1, <1>3, <2>1 DEF RequestsExplained, InFlight
<1>5. \A c \in Alerts : delivery'[c] \in Unsettled /\ attempts'[c] > 0 => RetryIsFarEnough(c)'
  <2> TAKE c \in Alerts
  <2>1. CASE c = a
    BY <1>1, <2>1
  <2>2. CASE c # a
    <3>1. delivery[c] \in Unsettled /\ attempts[c] > 0 => RetryIsFarEnough(c)
      BY DEF DelaysKept
    <3>2. /\ next'[c] = next[c] /\ since'[c] = since[c] /\ attempts'[c] = attempts[c]
          /\ delivery'[c] = delivery[c]
      BY <1>1, <2>2
    <3> QED BY <3>1, <3>2, RetryUnchanged
  <2> QED BY <2>1, <2>2
<1>6. \A i \in 1..Len(manager'.batch) : next'[manager'.batch[i].id] <= 0
  <2> TAKE i \in 1..Len(manager'.batch)
  <2>1. manager'.batch[i] = manager.batch[i] /\ manager.batch[i] \in Entry /\ i \in 1..Len(manager.batch)
    BY <1>1 DEF DeliveryInv, Shape
  <2>2. manager.batch[i].id \in Alerts \ {a}
    BY <1>1, <2>1 DEF DeliveryInv, BatchIsCurrent, Entry, Unsettled
  <2> QED BY <1>1, <2>1, <2>2 DEF DelaysKept
<1> QED BY <1>2, <1>4, <1>5, <1>6 DEF DelaysKept

(* Steps that leave times, counters and the loop's batch alone.            *)
LEMMA TimingKept ==
  ASSUME TimingInv, UNCHANGED <<delivery, attempts, next, since, sends, faults>>,
         webhook' \in BOOLEAN, manager'.age \in 0..MaxSendTime,
         manager'.batch = manager.batch,
         manager.pc \in {"sending", "record"} => manager'.pc \in {"sending", "record"},
         \A c \in Alerts : status'[c] = "none" => status[c] = "none"
  PROVE  TimeTypes' /\ RequestsExplained' /\ DelaysKept'
<1> USE DEF TimingInv
<1>1. TimeTypes'
  BY DEF TimeTypes, Null
<1>2. current' = current
  BY DEF current
<1>3. RequestsExplained'
  <2> SUFFICES ASSUME NEW c \in Alerts
               PROVE  sends[c] <= attempts[c] + faults + (IF InFlight(c)' THEN 1 ELSE 0)
    BY DEF RequestsExplained
  <2>1. sends[c] <= attempts[c] + faults + (IF InFlight(c) THEN 1 ELSE 0)
    BY DEF RequestsExplained
  <2>2. InFlight(c) => InFlight(c)'
    BY <1>2 DEF InFlight
  <2>3. sends[c] \in Nat /\ attempts[c] \in Nat /\ faults \in Nat
    BY DEF DeliveryInv, Shape, TimeTypes
  <2> QED BY <2>1, <2>2, <2>3
<1>4. \A c \in Alerts : RetryIsFarEnough(c) => RetryIsFarEnough(c)'
  BY RetryUnchanged
<1>5. DelaysKept'
  BY <1>4 DEF DelaysKept
<1> QED BY <1>1, <1>3, <1>5

(* A poll takes up alerts that are due.                                    *)
LEMMA TimingList ==
  ASSUME TimingInv, ListDueAlertDeliveries
  PROVE  TimeTypes' /\ RequestsExplained' /\ DelaysKept'
<1> USE DEF TimingInv
<1> DEFINE due == {a \in Alerts : isDue(a)}
<1>1. PICK n \in 1..BatchLimit : \E s \in [1..n -> due] :
           isBatch(s, due) /\ manager' = [Idle EXCEPT !.pc = "next", !.batch = BatchOf(s)]
  BY DEF ListDueAlertDeliveries
<1>2. PICK s \in [1..n -> due] :
           isBatch(s, due) /\ manager' = [Idle EXCEPT !.pc = "next", !.batch = BatchOf(s)]
  BY <1>1
<1>3. n \in Nat /\ DOMAIN s = 1..n
  BY ConstantsAssumption
<1>4. manager' = [pc |-> "next", batch |-> BatchOf(s), age |-> 0, ok |-> FALSE]
  BY <1>2 DEF Idle
<1>5. /\ UNCHANGED <<status, delivery, attempts, next, since, sends, faults, webhook>>
      /\ manager.pc = "idle"
  BY DEF ListDueAlertDeliveries, columns, history
<1>6. BatchOf(s) = [i \in 1..n |-> [id |-> s[i], attempts |-> attempts[s[i]]]]
  BY <1>3 DEF BatchOf
<1>7. \A i \in 1..n : next[s[i]] <= 0
  BY DEF isDue
<1>8. Len(manager'.batch) = n /\ \A i \in 1..n : manager'.batch[i].id = s[i]
  BY <1>3, <1>4, <1>6
<1>9. TimeTypes'
  BY <1>4, <1>5, Bounds DEF TimeTypes, Null
<1>10. RequestsExplained'
  BY <1>4, <1>5 DEF RequestsExplained, InFlight
<1>11. \A c \in Alerts : RetryIsFarEnough(c) => RetryIsFarEnough(c)'
  BY <1>5, RetryUnchanged
<1>12. DelaysKept'
  BY <1>5, <1>7, <1>8, <1>11 DEF DelaysKept
<1> QED BY <1>9, <1>10, <1>12

(* A request is made for a row that is due, so as late as its last failure *)
(* asked for.                                                              *)
LEMMA TimingDeliver ==
  ASSUME TimingInv, deliver
  PROVE  TimeTypes' /\ RequestsExplained' /\ DelaysKept'
<1> USE DEF TimingInv
<1>1. current \in Alerts /\ manager.pc = "next"
  BY CurrentIsUnsettled DEF deliver
<1>2. /\ UNCHANGED <<status, delivery, attempts, next, since, faults, webhook>>
      /\ manager' = [pc |-> "sending", batch |-> manager.batch, age |-> 0, ok |-> manager.ok]
      /\ sends' = [sends EXCEPT ![current] = sends[current] + 1]
  BY DEF deliver, DeliveryInv, Shape, columns
<1>3. TimeTypes'
  BY <1>2, Bounds DEF TimeTypes, Null
<1>4. current' = current /\ manager'.pc = "sending"
  BY <1>2 DEF current
<1>5. RequestsExplained'
  <2> SUFFICES ASSUME NEW c \in Alerts
               PROVE  sends'[c] <= attempts[c] + faults + (IF c = current THEN 1 ELSE 0)
    BY <1>2, <1>4 DEF RequestsExplained, InFlight
  <2>1. sends[c] <= attempts[c] + faults + 0
    BY <1>1 DEF RequestsExplained, InFlight
  <2>2. sends[c] \in Nat /\ attempts[c] \in Nat /\ faults \in Nat
    BY DEF DeliveryInv, Shape, TimeTypes
  <2>3. sends'[c] = IF c = current THEN sends[c] + 1 ELSE sends[c]
    BY <1>1, <1>2 DEF DeliveryInv, Shape
  <2> QED BY <2>1, <2>2, <2>3
<1>6. \A c \in Alerts : RetryIsFarEnough(c) => RetryIsFarEnough(c)'
  BY <1>2, RetryUnchanged
<1>7. DelaysKept'
  BY <1>2, <1>6 DEF DelaysKept
<1> QED BY <1>3, <1>5, <1>7

(* The rest of the batch has been due since it was taken up as well.       *)
LEMMA RestOfBatch ==
  ASSUME DeliveryInv, manager.pc # "idle", NextOfBatch
  PROVE  /\ manager'.pc \in {"idle", "next"} /\ manager'.age = 0
         /\ \A i \in 1..Len(manager'.batch) :
               /\ i + 1 \in 1..Len(manager.batch)
               /\ manager'.batch[i].id = manager.batch[i + 1].id
               /\ manager'.batch[i].id \in Alerts \ {current}
<1> DEFINE b == manager.batch
<1>1. b \in Seq(Entry) /\ b # <<>> /\ current = b[1].id
  BY CurrentIsUnsettled DEF DeliveryInv, Shape
<1>2. CASE Tail(b) = <<>>
  <2>1. manager' = Idle
    BY <1>2 DEF NextOfBatch
  <2> QED BY <2>1 DEF Idle
<1>3. CASE Tail(b) # <<>>
  <2>1. manager' = [pc |-> "next", batch |-> Tail(b), age |-> 0, ok |-> FALSE]
    BY <1>3 DEF NextOfBatch, Idle
  <2>2. manager'.batch = Tail(b)
    BY <2>1
  <2>3. \A i \in 1..Len(Tail(b)) : i + 1 \in 1..Len(b) /\ Tail(b)[i] = b[i + 1]
    BY <1>1
  <2>4. \A i \in 1..Len(Tail(b)) : b[i + 1].id \in Alerts /\ b[i + 1].id # current
    <3> TAKE i \in 1..Len(Tail(b))
    <3>1. i + 1 \in 1..Len(b) /\ 1 \in 1..Len(b) /\ i + 1 # 1
      BY <1>1, <2>3
    <3>2. b[i + 1].id # b[1].id
      BY <3>1 DEF DeliveryInv, BatchIsCurrent
    <3>3. b[i + 1] \in Entry
      BY <1>1, <3>1
    <3> QED BY <1>1, <3>2, <3>3 DEF Entry
  <2> QED BY <2>1, <2>2, <2>3, <2>4
<1> QED BY <1>2, <1>3

(* The delay counts from the start of the send.                            *)
LEMMA NextAttemptFarEnough ==
  ASSUME NEW n \in Nat \ {0}, NEW age \in 0..MaxSendTime, age = manager.age
  PROVE  /\ nextAttemptAt(n) \in (-Overdue)..Null /\ nextAttemptAt(n) # Null
         /\ age >= Backoff(n) \/ (nextAttemptAt(n) > 0 /\ age + nextAttemptAt(n) >= Backoff(n))
<1> DEFINE d == retryDelay(n)
<1>1. d = Backoff(n) /\ d \in 1..MaxRetryDelay
  BY DelayIsBackoff
<1>2. nextAttemptAt(n) = IF d - age < -Overdue THEN -Overdue ELSE d - age
  BY DEF nextAttemptAt
<1> HIDE DEF d
<1> QED BY <1>1, <1>2, Bounds

(* A failure that is recorded puts the next attempt off by the back-off,   *)
(* counted from the start of the request.                                  *)
LEMMA TimingRecord ==
  ASSUME TimingInv, Record
  PROVE  TimeTypes' /\ RequestsExplained' /\ DelaysKept'
<1> USE DEF TimingInv
<1>1. /\ current \in Alerts /\ manager.pc = "record"
      /\ attempt = attempts[current] + 1
      /\ delivery[current] \in Unsettled
  BY CurrentIsUnsettled DEF Record, RecordAlertDelivered, RecordAlertDeliveryFailure
<1>2. /\ UNCHANGED <<status, sends, faults, webhook>> /\ NextOfBatch
      /\ attempts' = [attempts EXCEPT ![current] = attempts[current] + 1]
      /\ since' = [since EXCEPT ![current] = manager.age]
  BY <1>1 DEF Record, RecordAlertDelivered, RecordAlertDeliveryFailure
<1>3. /\ attempts[current] \in Nat /\ attempts[current] < MaxAttempts
      /\ manager.age \in 0..MaxSendTime /\ manager.age \in 0..MaxRetryDelay
  BY <1>1, Bounds DEF DeliveryInv, Shape, AttemptsCounted, TimeTypes
<1> DEFINE n == attempts[current] + 1
<1>4. /\ \A c \in Alerts \ {current} :
            /\ delivery'[c] = delivery[c] /\ attempts'[c] = attempts[c]
            /\ next'[c] = next[c] /\ since'[c] = since[c]
      /\ attempts'[current] = n /\ since'[current] = manager.age
      /\ \/ delivery'[current] \notin Unsettled /\ next' = [next EXCEPT ![current] = Null]
         \/ next' = [next EXCEPT ![current] = nextAttemptAt(n)]
  <2>1. CASE RecordAlertDelivered
    BY <1>1, <1>2, <2>1 DEF RecordAlertDelivered, DeliveryInv, Shape, TimeTypes, Unsettled
  <2>2. CASE RecordAlertDeliveryFailure
    BY <1>1, <1>2, <2>2 DEF RecordAlertDeliveryFailure, DeliveryInv, Shape, TimeTypes, Unsettled
  <2> QED BY <2>1, <2>2 DEF Record
<1>5. n \in Nat \ {0} /\ n <= MaxAttempts
  BY <1>3, Bounds
<1> HIDE DEF n
<1>6. /\ manager'.pc \in {"idle", "next"} /\ manager'.age = 0
      /\ \A i \in 1..Len(manager'.batch) :
            /\ i + 1 \in 1..Len(manager.batch)
            /\ manager'.batch[i].id = manager.batch[i + 1].id
            /\ manager'.batch[i].id \in Alerts \ {current}
  BY <1>1, <1>2, RestOfBatch
<1>7. /\ nextAttemptAt(n) \in (-Overdue)..Null /\ nextAttemptAt(n) # Null
      /\ \/ manager.age >= Backoff(n)
         \/ nextAttemptAt(n) > 0 /\ manager.age + nextAttemptAt(n) >= Backoff(n)
  BY <1>3, <1>5, NextAttemptFarEnough
<1>8. TimeTypes'
  <2>1. since' \in [Alerts -> 0..MaxRetryDelay]
    BY <1>2, <1>3 DEF TimeTypes
  <2>2. Null \in (-Overdue)..Null
    BY Bounds
  <2>3. next' \in [Alerts -> (-Overdue)..Null]
    BY <1>4, <1>7, <2>2 DEF TimeTypes
  <2> QED BY <1>2, <1>6, <2>1, <2>3, Bounds DEF TimeTypes
<1>9. RequestsExplained'
  <2> SUFFICES ASSUME NEW c \in Alerts
               PROVE  /\ sends[c] <= attempts'[c] + faults
                      /\ attempts'[c] <= MaxAttempts
                      /\ status[c] = "none" => attempts'[c] = 0
    <3>1. /\ \A c \in Alerts : sends[c] \in Nat /\ attempts'[c] \in Nat
          /\ faults \in Nat /\ manager'.pc \notin {"sending", "record"}
      BY <1>2, <1>3, <1>6 DEF DeliveryInv, Shape, TimeTypes
    <3> QED BY <1>2, <3>1 DEF RequestsExplained, InFlight
  <2>1. sends[c] \in Nat /\ attempts[c] \in Nat /\ faults \in Nat
    BY DEF DeliveryInv, Shape, TimeTypes
  <2>2. CASE c # current
    <3>1. sends[c] <= attempts[c] + faults + 0
      BY <2>2 DEF RequestsExplained, InFlight
    <3> QED BY <1>4, <2>1, <2>2, <3>1 DEF RequestsExplained
  <2>3. CASE c = current
    <3>1. sends[c] <= attempts[c] + faults + 1
      BY <1>1, <2>3 DEF RequestsExplained, InFlight
    <3>2. status[c] # "none"
      BY <1>1, <2>3 DEF DeliveryInv, AttemptsCounted, Unsettled
    <3> QED BY <1>4, <1>5, <2>1, <2>3, <3>1, <3>2 DEF n
  <2> QED BY <2>2, <2>3
<1>10. ASSUME NEW c \in Alerts, delivery'[c] \in Unsettled, attempts'[c] > 0
       PROVE  RetryIsFarEnough(c)'
  <2>1. CASE c # current
    <3>1. RetryIsFarEnough(c)
      BY <1>4, <1>10, <2>1 DEF DelaysKept
    <3> QED BY <1>4, <2>1, <3>1, RetryUnchanged
  <2>2. CASE c = current
    <3>1. next'[c] = nextAttemptAt(n) /\ since'[c] = manager.age /\ attempts'[c] = n
      BY <1>1, <1>4, <1>10, <2>2 DEF TimeTypes
    <3> QED BY <1>7, <3>1 DEF RetryIsFarEnough
  <2> QED BY <2>1, <2>2
<1>11. ASSUME NEW i \in 1..Len(manager'.batch)
       PROVE  next'[manager'.batch[i].id] <= 0
  <2>1. /\ i + 1 \in 1..Len(manager.batch)
        /\ manager'.batch[i].id = manager.batch[i + 1].id
        /\ manager'.batch[i].id \in Alerts \ {current}
    BY <1>6
  <2>2. next[manager.batch[i + 1].id] <= 0
    BY <2>1 DEF DelaysKept
  <2> QED BY <1>4, <2>1, <2>2
<1>12. DelaysKept'
  BY <1>10, <1>11 DEF DelaysKept
<1> QED BY <1>8, <1>9, <1>12

(* A fault can swallow the outcome of one request.                         *)
LEMMA TimingFault ==
  ASSUME TimingInv, RecordFails \/ HubRestart
  PROVE  TimeTypes' /\ RequestsExplained' /\ DelaysKept'
<1> USE DEF TimingInv
<1>1. /\ UNCHANGED <<status, delivery, attempts, next, received, sends, since>>
      /\ faults < MaxFaults /\ faults' = faults + 1 /\ faults \in 0..MaxFaults
      /\ webhook' \in BOOLEAN
  BY DEF RecordFails, HubRestart, columns, history, TimeTypes
<1>2. /\ manager'.pc \in {"idle", "next"} /\ manager'.age = 0
      /\ \A i \in 1..Len(manager'.batch) : next[manager'.batch[i].id] <= 0
  <2>1. CASE RecordFails
    <3>1. manager.pc # "idle" /\ NextOfBatch
      BY <2>1 DEF RecordFails
    <3>2. ASSUME NEW i \in 1..Len(manager'.batch) PROVE next[manager'.batch[i].id] <= 0
      <4>1. i + 1 \in 1..Len(manager.batch) /\ manager'.batch[i].id = manager.batch[i + 1].id
        BY <3>1, RestOfBatch
      <4> QED BY <4>1 DEF DelaysKept
    <3> QED BY <3>1, <3>2, RestOfBatch
  <2>2. CASE HubRestart
    BY <2>2 DEF HubRestart, Idle
  <2> QED BY <2>1, <2>2
<1>3. TimeTypes'
  BY <1>1, <1>2, Bounds DEF TimeTypes, Null
<1>4. RequestsExplained'
  <2> SUFFICES ASSUME NEW c \in Alerts PROVE sends[c] <= attempts[c] + (faults + 1)
    <3>1. /\ \A c \in Alerts : sends[c] \in Nat /\ attempts[c] \in Nat
          /\ faults \in Nat /\ manager'.pc \notin {"sending", "record"}
      BY <1>2 DEF DeliveryInv, Shape, TimeTypes
    <3> QED BY <1>1, <3>1 DEF RequestsExplained, InFlight
  <2>1. sends[c] \in Nat /\ attempts[c] \in Nat /\ faults \in Nat
    BY DEF DeliveryInv, Shape, TimeTypes
  <2>2. sends[c] <= attempts[c] + faults + (IF InFlight(c) THEN 1 ELSE 0)
    BY DEF RequestsExplained
  <2> QED BY <2>1, <2>2
<1>5. \A c \in Alerts : RetryIsFarEnough(c) => RetryIsFarEnough(c)'
  BY <1>1, RetryUnchanged
<1>6. DelaysKept'
  BY <1>1, <1>2, <1>5 DEF DelaysKept
<1> QED BY <1>3, <1>4, <1>6

(* What passes from the delay is added to the age of the last attempt.     *)
LEMMA TimingTick ==
  ASSUME TimingInv, Tick
  PROVE  TimeTypes' /\ RequestsExplained' /\ DelaysKept'
<1> USE DEF TimingInv
<1>1. /\ UNCHANGED <<status, delivery, attempts, webhook, sends, faults>>
      /\ manager'.batch = manager.batch /\ manager'.pc = manager.pc
      /\ manager'.age \in 0..MaxSendTime
  <2>1. UNCHANGED <<status, delivery, attempts, webhook, sends, faults>>
    BY DEF Tick
  <2>2. manager.age \in 0..MaxSendTime /\ MaxSendTime \in Nat
    BY Bounds DEF TimeTypes
  <2>3. \E pc, batch, age, ok : manager = [pc |-> pc, batch |-> batch, age |-> age, ok |-> ok]
    BY DEF DeliveryInv, Shape
  <2>4. PICK pc, batch, age, ok : manager = [pc |-> pc, batch |-> batch, age |-> age, ok |-> ok]
    BY <2>3
  <2>5. CASE manager.pc \in {"sending", "record"}
    <3>1. manager.age < MaxSendTime /\ manager' = [manager EXCEPT !.age = manager.age + 1]
      BY <2>5 DEF Tick
    <3>2. manager' = [pc |-> pc, batch |-> batch, age |-> manager.age + 1, ok |-> ok]
      BY <2>4, <3>1, Zenon
    <3> QED BY <2>1, <2>2, <2>4, <3>1, <3>2
  <2>6. CASE manager.pc \notin {"sending", "record"}
    BY <2>1, <2>2, <2>6 DEF Tick
  <2> QED BY <2>5, <2>6
<1>2. current' = current
  BY <1>1 DEF current
<1>3. \A c \in Alerts :
         /\ next'[c] = IF next[c] \in {Null, -Overdue} THEN next[c] ELSE next[c] - 1
         /\ since'[c] = IF since[c] = MaxRetryDelay THEN since[c] ELSE since[c] + 1
         /\ next[c] \in (-Overdue)..Null /\ since[c] \in 0..MaxRetryDelay
  BY DEF Tick, TimeTypes
<1>4. TimeTypes'
  <2>1. next' \in [Alerts -> (-Overdue)..Null]
    BY Bounds DEF Tick, TimeTypes
  <2>2. since' \in [Alerts -> 0..MaxRetryDelay]
    BY Bounds DEF Tick, TimeTypes
  <2> QED BY <1>1, <2>1, <2>2 DEF TimeTypes, Null
<1>5. RequestsExplained'
  BY <1>1, <1>2 DEF RequestsExplained, InFlight
<1>6. ASSUME NEW c \in Alerts, delivery[c] \in Unsettled, attempts[c] > 0
      PROVE  RetryIsFarEnough(c)'
  <2>1. attempts[c] \in Nat \ {0}
    BY <1>6 DEF DeliveryInv, Shape
  <2>2. Backoff(attempts[c]) \in 1..MaxRetryDelay
    BY <2>1, DelayIsBackoff
  <2>3. RetryIsFarEnough(c)
    BY <1>6 DEF DelaysKept
  <2> DEFINE d == Backoff(attempts[c])
  <2>4. /\ next'[c] # Null
        /\ since'[c] >= d \/ (next'[c] > 0 /\ since'[c] + next'[c] >= d)
    <3>1. d \in 1..MaxRetryDelay
      BY <2>2
    <3>2. next[c] # Null /\ (since[c] >= d \/ (next[c] > 0 /\ since[c] + next[c] >= d))
      BY <2>3 DEF RetryIsFarEnough
    <3> HIDE DEF d
    <3> QED BY <1>3, <3>1, <3>2, Bounds
  <2> QED BY <1>1, <2>4 DEF RetryIsFarEnough
<1>7. ASSUME NEW i \in 1..Len(manager.batch)
      PROVE  next'[manager.batch[i].id] <= 0
  <2>1. next[manager.batch[i].id] <= 0
    BY DEF DelaysKept
  <2>2. manager.batch[i] \in Entry
    BY DEF DeliveryInv, Shape
  <2> QED BY <1>3, <2>1, <2>2, Bounds DEF Entry
<1>8. DelaysKept'
  BY <1>1, <1>2, <1>6, <1>7 DEF DelaysKept
<1> QED BY <1>4, <1>5, <1>8

-----------------------------------------------------------------------------

(* What the rows, their clocks and the faults have to do with each other,  *)
(* for any delays, attempts, alerts and faults.                            *)
THEOREM TimingInductive == Spec => []TimingInv
<1>1. ASSUME TimingInv, [Next]_vars PROVE TimingInv'
  <2> USE <1>1
  <2>1. DeliveryInv'
    BY DeliveryStep DEF TimingInv
  <2>2. CASE UNCHANGED vars
    <3>1. UNCHANGED <<delivery, attempts, next, since, sends, faults, status, webhook, manager>>
      BY <2>2 DEF vars, columns, history
    <3>2. webhook' \in BOOLEAN /\ manager'.age \in 0..MaxSendTime
      BY <3>1 DEF TimingInv, TimeTypes
    <3> QED BY <2>1, <3>1, <3>2, TimingKept DEF TimingInv
  <2>3. ASSUME NEW a \in Alerts, CreateAlert(a) PROVE TimingInv'
    BY <2>1, <2>3, TimingCreate DEF TimingInv
  <2>4. ASSUME NEW a \in Alerts, acknowledgeAlert(a) \/ ResolveAlert(a) PROVE TimingInv'
    <3>1. /\ UNCHANGED <<delivery, attempts, next, since, sends, faults, webhook, manager>>
          /\ \A c \in Alerts : status'[c] = "none" => status[c] = "none"
      BY <2>4 DEF acknowledgeAlert, ResolveAlert, history, TimingInv, DeliveryInv, Shape
    <3>2. webhook' \in BOOLEAN /\ manager'.age \in 0..MaxSendTime
      BY <3>1 DEF TimingInv, TimeTypes
    <3> QED BY <2>1, <3>1, <3>2, TimingKept DEF TimingInv
  <2>5. CASE send
    <3>1. /\ UNCHANGED <<delivery, attempts, next, since, sends, faults, status, webhook>>
          /\ manager'.batch = manager.batch /\ manager'.age = manager.age
          /\ manager'.pc = "record"
      BY <2>5 DEF send, columns, TimingInv, DeliveryInv, Shape
    <3>2. webhook' \in BOOLEAN /\ manager'.age \in 0..MaxSendTime
      BY <3>1 DEF TimingInv, TimeTypes
    <3> QED BY <2>1, <3>1, <3>2, TimingKept DEF TimingInv
  <2>6. CASE ListDueAlertDeliveries \/ deliver \/ Record \/ RecordFails \/ HubRestart \/ Tick
    BY <2>1, <2>6, TimingList, TimingDeliver, TimingRecord, TimingFault, TimingTick DEF TimingInv
  <2> QED BY <2>2, <2>3, <2>4, <2>5, <2>6 DEF Next, Record
<1> QED BY <1>1, TimingInit, PTL DEF Spec

(* Rows and loop keep their types; with that, the webhook gets an alert at *)
(* most MaxAttempts times, and once more for each fault.                   *)
THEOREM TypeCorrect == Spec => []TypeOK
<1>1. TimingInv => TypeOK
  <2> SUFFICES ASSUME TimingInv PROVE TypeOK
    OBVIOUS
  <2> USE DEF TimingInv
  <2>1. manager \in Manager
    BY DEF DeliveryInv, Shape, TimeTypes, Manager, Entry
  <2>2. attempts \in [Alerts -> 0..MaxAttempts]
    BY Bounds DEF DeliveryInv, Shape, RequestsExplained
  <2>3. ASSUME NEW a \in Alerts PROVE sends[a] \in 0..MaxSends
    <3>1. sends[a] \in Nat /\ attempts[a] \in Nat /\ faults \in 0..MaxFaults
      BY DEF DeliveryInv, Shape, TimeTypes
    <3>2. InFlight(a) => attempts[a] < MaxAttempts
      BY CurrentIsUnsettled DEF InFlight, DeliveryInv, AttemptsCounted
    <3>3. /\ sends[a] <= attempts[a] + faults + (IF InFlight(a) THEN 1 ELSE 0)
          /\ attempts[a] <= MaxAttempts
      BY DEF RequestsExplained
    <3> QED BY <3>1, <3>2, <3>3, Bounds DEF MaxSends
  <2>4. sends \in [Alerts -> 0..MaxSends]
    BY <2>3 DEF DeliveryInv, Shape
  <2> QED BY <2>1, <2>2, <2>4 DEF TypeOK, DeliveryInv, Shape, TimeTypes
<1> QED BY <1>1, TimingInductive, PTL

(* A retry starts no sooner after the last recorded attempt than the       *)
(* documented delay, whatever the base, the maximum, the length of sends   *)
(* and the restarts (retryDelay, RecordAlertDeliveryFailure).              *)
THEOREM RetriesKeepBackoff == Spec => BackoffKept
<1> DEFINE Kept == \A a \in Alerts : sends'[a] # sends[a] /\ attempts[a] > 0 =>
                       since[a] >= Backoff(attempts[a])
<1>1. TimingInv /\ [Next]_vars => [Kept]_vars
  <2> SUFFICES ASSUME TimingInv, Next, NEW a \in Alerts, sends'[a] # sends[a], attempts[a] > 0
               PROVE  since[a] >= Backoff(attempts[a])
    OBVIOUS
  <2>1. deliver
    BY DEF Next, CreateAlert, acknowledgeAlert, ResolveAlert, ListDueAlertDeliveries, send,
           RecordAlertDelivered, RecordAlertDeliveryFailure, RecordFails, HubRestart, Tick, history
  <2>2. manager.pc # "idle" /\ a = current
    BY <2>1 DEF deliver, TimingInv, DeliveryInv, Shape
  <2>3. next[a] <= 0 /\ delivery[a] \in Unsettled
    BY <2>2, CurrentIsDue
  <2>4. RetryIsFarEnough(a) /\ next[a] \in (-Overdue)..Null
    BY <2>3 DEF TimingInv, DelaysKept, TimeTypes
  <2> QED BY <2>3, <2>4, Bounds DEF RetryIsFarEnough
<1> QED BY <1>1, TimingInductive, PTL DEF Spec, BackoffKept

(* An acknowledgement or a recovery is never undone (acknowledgeAlert,     *)
(* ResolveClusterAlerts).                                                  *)
THEOREM StatusesAdvance == Spec => StatusAdvances
<1> DEFINE Advances == \A a \in Alerts :
                          /\ status[a] = "acknowledged" => status'[a] \in {"acknowledged", "resolved"}
                          /\ status[a] = "resolved" => status'[a] = "resolved"
<1>1. DeliveryInv /\ [Next]_vars => [Advances]_vars
  <2> SUFFICES ASSUME DeliveryInv, Next, NEW a \in Alerts
               PROVE  /\ status[a] = "acknowledged" => status'[a] \in {"acknowledged", "resolved"}
                      /\ status[a] = "resolved" => status'[a] = "resolved"
    OBVIOUS
  <2>1. CASE status' = status
    BY <2>1
  <2>2. ASSUME NEW c \in Alerts, CreateAlert(c) \/ acknowledgeAlert(c) \/ ResolveAlert(c)
        PROVE  /\ status[a] = "acknowledged" => status'[a] \in {"acknowledged", "resolved"}
               /\ status[a] = "resolved" => status'[a] = "resolved"
    BY <2>2 DEF CreateAlert, acknowledgeAlert, ResolveAlert, DeliveryInv, Shape
  <2> QED BY <2>1, <2>2 DEF Next, ListDueAlertDeliveries, deliver, send, RecordAlertDelivered,
             RecordAlertDeliveryFailure, RecordFails, HubRestart, Tick, columns
<1> QED BY <1>1, DeliveryInductive, PTL DEF Spec, StatusAdvances
=============================================================================
