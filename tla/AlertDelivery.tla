---------------------------- MODULE AlertDelivery ----------------------------
(***************************************************************************)
(* What happens to an alert once it exists: the alert manager's delivery   *)
(* loop (internal/alerts/manager.go) posts it to the webhook, retries with *)
(* growing delays and gives up after MaxAttempts, all from the rows of the *)
(* alerts table (internal/store/alerts.go), while operators acknowledge    *)
(* and recovering clusters resolve it.                                     *)
(*                                                                         *)
(* The loop is one goroutine; a row is written by one SQL statement.  The  *)
(* hub can fail between any two steps.  Times are relative to now: "next"  *)
(* is how far off next_delivery_at is, negative when it is overdue.        *)
(***************************************************************************)
EXTENDS Integers, Sequences, FiniteSets

CONSTANTS
    Alerts,        \* bound: the alerts that are raised
    MaxAttempts,   \* KFLEET_ALERT_MAX_ATTEMPTS
    RetryBase,     \* KFLEET_ALERT_RETRY_BASE
    MaxRetryDelay, \* maxRetryDelay: one hour
    BatchLimit,    \* deliveries taken up by one poll (25 in the code)
    MaxSendTime,   \* bound: time from the start of a send to its recording
    Overdue,       \* bound: lateness beyond which due alerts are not ordered
    MaxFaults      \* bound: failed store calls and restarts of the hub

ASSUME ConstantsAssumption ==
    /\ {MaxAttempts, RetryBase, MaxRetryDelay, BatchLimit} \subseteq Nat \ {0}
    /\ {MaxSendTime, Overdue, MaxFaults} \subseteq Nat
    /\ MaxRetryDelay % 2 = 0
    /\ MaxSendTime <= MaxRetryDelay   \* the HTTP client gives up after 10 seconds

VARIABLES
    status, delivery, attempts, next, \* columns of the alerts table
    webhook,    \* is a webhook URL configured?
    manager,    \* the delivery loop
    received,   \* alerts the webhook has received
    sends,      \* sends[a]: requests made for alert a
    since,      \* since[a]: age of the last attempt that was recorded for a
    faults

columns == <<status, delivery, attempts, next>>
history == <<received, sends, since>>
vars == <<columns, webhook, manager, history, faults>>

Null == MaxRetryDelay + 1     \* next_delivery_at is NULL
MaxSends == MaxAttempts + MaxFaults

Unsettled == {"pending", "retrying"}
Settled == {"delivered", "dead_letter"}

(* "batch" holds the rows still to be delivered as the poll has read them, *)
(* "age" is the age of deliveredAt, "ok" the outcome of the last send.     *)
Manager == [pc : {"idle", "next", "sending", "record"},
            batch : Seq([id : Alerts, attempts : Nat]), age : 0..MaxSendTime, ok : BOOLEAN]
Idle == [pc |-> "idle", batch |-> <<>>, age |-> 0, ok |-> FALSE]

TypeOK ==
    /\ status \in [Alerts -> {"none", "firing", "acknowledged", "resolved"}]
    /\ delivery \in [Alerts -> Unsettled \cup Settled \cup {"none", "disabled"}]
    /\ attempts \in [Alerts -> 0..MaxAttempts]
    /\ next \in [Alerts -> (-Overdue)..Null]
    /\ webhook \in BOOLEAN
    /\ manager \in Manager
    /\ received \subseteq Alerts
    /\ sends \in [Alerts -> 0..MaxSends]
    /\ since \in [Alerts -> 0..MaxRetryDelay]
    /\ faults \in 0..MaxFaults

Init ==
    /\ status = [a \in Alerts |-> "none"]
    /\ delivery = [a \in Alerts |-> "none"]
    /\ attempts = [a \in Alerts |-> 0]
    /\ next = [a \in Alerts |-> Null]
    /\ webhook \in BOOLEAN
    /\ manager = Idle
    /\ received = {}
    /\ sends = [a \in Alerts |-> 0]
    /\ since = [a \in Alerts |-> 0]
    /\ faults = 0

-----------------------------------------------------------------------------
(* Handlers and the monitor.                                               *)

(* Evaluate raises an alert; its first delivery is due at once, if there   *)
(* is a webhook.                                                           *)
CreateAlert(a) ==
    /\ status[a] = "none"
    /\ status' = [status EXCEPT ![a] = "firing"]
    /\ delivery' = [delivery EXCEPT ![a] = IF webhook THEN "pending" ELSE "disabled"]
    /\ next' = [next EXCEPT ![a] = IF webhook THEN 0 ELSE Null]
    /\ UNCHANGED <<attempts, webhook, manager, history, faults>>

(* Mutant: the UPDATE does not look at the status.                         *)
acknowledgeAlert_AnyStatus(a) ==
    /\ status[a] # "none"
    /\ status' = [status EXCEPT ![a] = "acknowledged"]
    /\ UNCHANGED <<delivery, attempts, next, webhook, manager, history, faults>>

(* handleAcknowledgeAlert: the UPDATE changes a firing alert only.         *)
acknowledgeAlert(a) ==
    /\ status[a] = "firing"
    /\ status' = [status EXCEPT ![a] = "acknowledged"]
    /\ UNCHANGED <<delivery, attempts, next, webhook, manager, history, faults>>

(* ResolveClusterAlerts, when the cluster's health has changed.            *)
ResolveAlert(a) ==
    /\ status[a] \in {"firing", "acknowledged"}
    /\ status' = [status EXCEPT ![a] = "resolved"]
    /\ UNCHANGED <<delivery, attempts, next, webhook, manager, history, faults>>

-----------------------------------------------------------------------------
(* The delivery loop.                                                      *)

(* The delay after the n-th attempt, doubled n - 1 times; the code leaves  *)
(* its loop with the maximum as soon as another doubling reaches it.       *)
doubled[n \in Nat] ==
    IF n = 0 THEN RetryBase
    ELSE IF doubled[n - 1] >= MaxRetryDelay \div 2 THEN MaxRetryDelay
    ELSE 2 * doubled[n - 1]

(* Mutant: the delay never grows.                                          *)
retryDelay_Constant(n) == RetryBase

retryDelay(n) ==
    IF doubled[n - 1] > MaxRetryDelay THEN MaxRetryDelay ELSE doubled[n - 1]

(* The WHERE clause of ListDueAlertDeliveries.                             *)
isDue(a) == delivery[a] \in Unsettled /\ next[a] # Null /\ next[a] <= 0

(* Its ORDER BY and LIMIT: the alerts longest due, in order.               *)
isBatch(s, due) ==
    /\ Len(s) = IF Cardinality(due) < BatchLimit THEN Cardinality(due) ELSE BatchLimit
    /\ \A i, j \in DOMAIN s : i < j => s[i] # s[j] /\ next[s[i]] <= next[s[j]]
    /\ \A i \in DOMAIN s, a \in due \ {s[j] : j \in DOMAIN s} : next[s[i]] <= next[a]

BatchOf(s) == [i \in DOMAIN s |-> [id |-> s[i], attempts |-> attempts[s[i]]]]

(* ProcessDue; a listing that fails, or finds nothing, changes nothing.    *)
ListDueAlertDeliveries ==
    /\ manager.pc = "idle"
    /\ webhook
    /\ LET due == {a \in Alerts : isDue(a)}
       IN  \E n \in 1..BatchLimit : \E s \in [1..n -> due] :
               /\ isBatch(s, due)
               /\ manager' = [Idle EXCEPT !.pc = "next", !.batch = BatchOf(s)]
    /\ UNCHANGED <<columns, webhook, history, faults>>

current == Head(manager.batch).id
attempt == Head(manager.batch).attempts + 1

(* deliver reads the clock and sends the request.                          *)
deliver ==
    /\ manager.pc = "next"
    /\ manager' = [manager EXCEPT !.pc = "sending", !.age = 0]
    /\ sends' = [sends EXCEPT ![current] = @ + 1]
    /\ UNCHANGED <<columns, webhook, received, since, faults>>

(* Mutant: the status of the response is not looked at.                    *)
isSuccess_AnyResponse(accepted, answered) == answered

(* Only a 2xx answer that arrives is a success.                            *)
isSuccess(accepted, answered) == accepted /\ answered

(* send returns: the webhook has accepted or refused the request, or never *)
(* got it (then the hub gets an answer from nobody, or an error from a     *)
(* proxy); its answer arrives or is lost or late.                          *)
send ==
    /\ manager.pc = "sending"
    /\ \E accepted, answered \in BOOLEAN :
           /\ manager' = [manager EXCEPT !.pc = "record", !.ok = isSuccess(accepted, answered)]
           /\ received' = IF accepted THEN received \cup {current} ELSE received
    /\ UNCHANGED <<columns, webhook, sends, since, faults>>

(* The loop goes on with the rest of the batch.                            *)
NextOfBatch ==
    manager' = IF Tail(manager.batch) = <<>> THEN Idle
               ELSE [Idle EXCEPT !.pc = "next", !.batch = Tail(manager.batch)]

RecordAlertDelivered ==
    /\ manager.pc = "record"
    /\ manager.ok
    /\ delivery' = [delivery EXCEPT ![current] = "delivered"]
    /\ attempts' = [attempts EXCEPT ![current] = attempt]
    /\ next' = [next EXCEPT ![current] = Null]
    /\ since' = [since EXCEPT ![current] = manager.age]
    /\ NextOfBatch
    /\ UNCHANGED <<status, webhook, received, sends, faults>>

(* Mutant: the last attempt does not count.                                *)
hasRetry_OffByOne(n) == n <= MaxAttempts

hasRetry(n) == n < MaxAttempts

(* Mutant: the failure of an attempt leaves next_delivery_at NULL.         *)
nextAttemptAt_Missing(n) == Null

(* nextAttemptAt counts from the start of the send, but no further back    *)
(* than Overdue.                                                           *)
nextAttemptAt(n) ==
    LET at == retryDelay(n) - manager.age IN IF at < -Overdue THEN -Overdue ELSE at

RecordAlertDeliveryFailure ==
    /\ manager.pc = "record"
    /\ ~manager.ok
    /\ delivery' = [delivery EXCEPT ![current] =
                       IF hasRetry(attempt) THEN "retrying" ELSE "dead_letter"]
    /\ attempts' = [attempts EXCEPT ![current] = attempt]
    /\ next' = [next EXCEPT ![current] =
                       IF hasRetry(attempt) THEN nextAttemptAt(attempt) ELSE Null]
    /\ since' = [since EXCEPT ![current] = manager.age]
    /\ NextOfBatch
    /\ UNCHANGED <<status, webhook, received, sends, faults>>

-----------------------------------------------------------------------------
(* Faults and time.                                                        *)

(* The store refuses the outcome of a send; the loop only logs that.       *)
RecordFails ==
    /\ faults < MaxFaults
    /\ manager.pc = "record"
    /\ NextOfBatch
    /\ faults' = faults + 1
    /\ UNCHANGED <<columns, webhook, history>>

(* The hub is stopped, which cancels the send and every store call, or     *)
(* crashes, and starts again with or without a webhook.                    *)
HubRestart ==
    /\ faults < MaxFaults
    /\ manager' = Idle
    /\ webhook' \in BOOLEAN
    /\ faults' = faults + 1
    /\ UNCHANGED <<columns, history>>

Tick ==
    /\ manager.pc \in {"sending", "record"} => manager.age < MaxSendTime
    /\ manager' = IF manager.pc \in {"sending", "record"}
                  THEN [manager EXCEPT !.age = @ + 1] ELSE manager
    /\ next' = [a \in Alerts |->
                   IF next[a] \in {Null, -Overdue} THEN next[a] ELSE next[a] - 1]
    /\ since' = [a \in Alerts |-> IF since[a] = MaxRetryDelay THEN since[a] ELSE since[a] + 1]
    /\ UNCHANGED <<status, delivery, attempts, webhook, received, sends, faults>>

Record == RecordAlertDelivered \/ RecordAlertDeliveryFailure

Next ==
    \/ \E a \in Alerts : CreateAlert(a) \/ acknowledgeAlert(a) \/ ResolveAlert(a)
    \/ ListDueAlertDeliveries
    \/ deliver
    \/ send
    \/ RecordAlertDelivered
    \/ RecordAlertDeliveryFailure
    \/ RecordFails
    \/ HubRestart
    \/ Tick

Spec == Init /\ [][Next]_vars

(* Time passes, Run polls on every tick of its ticker, the HTTP client has *)
(* a timeout, and faults are rare: an outcome is recorded in the end.      *)
Fairness ==
    /\ WF_vars(Tick)
    /\ WF_vars(ListDueAlertDeliveries)
    /\ WF_vars(deliver)
    /\ WF_vars(send)
    /\ WF_vars(Record)

LiveSpec == Spec /\ Fairness

-----------------------------------------------------------------------------
(* Properties.                                                             *)

(* The history operators see is true: "delivered" means that the webhook   *)
(* has accepted the alert, "dead_letter" that MaxAttempts requests were    *)
(* made, and every attempt counted was a request (deliver,                 *)
(* RecordAlertDelivered, RecordAlertDeliveryFailure).                      *)
HistoryIsTrue ==
    \A a \in Alerts :
        /\ delivery[a] = "delivered" => a \in received
        /\ delivery[a] = "dead_letter" => sends[a] >= MaxAttempts
        /\ attempts[a] <= sends[a]

(* An outcome is final: the alert keeps it, and is not sent again, however *)
(* old the batch is that the loop is working on (ProcessDue).              *)
OutcomeIsFinal ==
    [][\A a \in Alerts : delivery[a] \in Settled =>
           delivery'[a] = delivery[a] /\ sends'[a] = sends[a]]_vars

powerOf2[n \in Nat] == IF n = 0 THEN 1 ELSE 2 * powerOf2[n - 1]

(* The delay that docs/alerts.md promises after n attempts: the base,      *)
(* doubled for each attempt after the first, up to one hour.               *)
Backoff(n) ==
    LET exact == RetryBase * powerOf2[n - 1]
    IN  IF exact < MaxRetryDelay THEN exact ELSE MaxRetryDelay

(* A retry starts no sooner than that after the start of the last attempt  *)
(* that was recorded, across restarts (retryDelay, ListDueAlertDeliveries). *)
BackoffKept ==
    [][\A a \in Alerts : sends'[a] # sends[a] /\ attempts[a] > 0 =>
           since[a] >= Backoff(attempts[a])]_vars

(* What operators and clusters do to an alert is never undone: neither by  *)
(* an acknowledgement that comes after the cluster has recovered nor by    *)
(* the loop writing a row it read earlier (acknowledgeAlert,               *)
(* RecordAlertDelivered).                                                  *)
StatusAdvances ==
    [][\A a \in Alerts :
          /\ status[a] = "acknowledged" => status'[a] \in {"acknowledged", "resolved"}
          /\ status[a] = "resolved" => status'[a] = "resolved"]_vars

(* With a webhook that stays configured, every alert waiting for delivery  *)
(* is delivered or given up (Run).                                         *)
AlertsSettle ==
    <>[]webhook => \A a \in Alerts : delivery[a] \in Unsettled ~> delivery[a] \in Settled

(* The life of an alert this implements: "pending" and "retrying" are one, *)
(* and "next" and the loop's batch are how the code finds its way.         *)
Lifecycle == INSTANCE AlertLifecycle WITH
    stage <- [a \in Alerts |-> IF delivery[a] \in Unsettled THEN "waiting" ELSE delivery[a]],
    requests <- sends,
    counted <- attempts,
    accepted <- received

(* The loop that works on batches it has read earlier, is interrupted and  *)
(* repeats what it could not record takes every alert through the simple   *)
(* lifecycle, one alert at a time (ProcessDue, deliver).                   *)
ImplementsLifecycle == Lifecycle!Spec
=============================================================================
