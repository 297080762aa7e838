--------------------------- MODULE AlertLifecycle ---------------------------
(***************************************************************************)
(* What the hub promises of the delivery of an alert, whatever fails and   *)
(* whenever it restarts: an alert waits until the webhook has accepted it, *)
(* or until MaxAttempts attempts have been counted against it, each of     *)
(* them for a request that was made; then its delivery is over for good.   *)
(* AlertDelivery implements this with the rows of the alerts table.        *)
(***************************************************************************)
EXTENDS Naturals

CONSTANTS
    Alerts,
    MaxAttempts

VARIABLES
    stage,      \* stage[a]: where the delivery of alert a is
    requests,   \* requests[a]: requests made for it
    counted,    \* counted[a]: attempts counted against it
    accepted    \* the alerts the webhook has accepted

vars == <<stage, requests, counted, accepted>>

Init ==
    /\ stage = [a \in Alerts |-> "none"]
    /\ requests = [a \in Alerts |-> 0]
    /\ counted = [a \in Alerts |-> 0]
    /\ accepted = {}

(* Without a webhook an alert is never delivered.                          *)
Raise(a) ==
    /\ stage[a] = "none"
    /\ \E to \in {"waiting", "disabled"} : stage' = [stage EXCEPT ![a] = to]
    /\ UNCHANGED <<requests, counted, accepted>>

Post(a) ==
    /\ stage[a] = "waiting"
    /\ requests' = [requests EXCEPT ![a] = @ + 1]
    /\ UNCHANGED <<stage, counted, accepted>>

Accept(a) ==
    /\ stage[a] = "waiting"
    /\ requests[a] > 0
    /\ accepted' = accepted \cup {a}
    /\ UNCHANGED <<stage, requests, counted>>

(* An attempt is counted, and is the last one or not.                      *)
Count(a) ==
    /\ stage[a] = "waiting"
    /\ counted[a] < requests[a]
    /\ counted' = [counted EXCEPT ![a] = @ + 1]
    /\ \/ /\ a \in accepted
          /\ stage' = [stage EXCEPT ![a] = "delivered"]
       \/ stage' = [stage EXCEPT ![a] =
             IF counted[a] + 1 < MaxAttempts THEN "waiting" ELSE "dead_letter"]
    /\ UNCHANGED <<requests, accepted>>

Next == \E a \in Alerts : Raise(a) \/ Post(a) \/ Accept(a) \/ Count(a)

Spec == Init /\ [][Next]_vars
=============================================================================
