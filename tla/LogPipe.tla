------------------------------ MODULE LogPipe ------------------------------
(***************************************************************************)
(* What the hub promises of requests for a pod's log: every browser is     *)
(* shown the lines in order and without a gap, and then learns that it has *)
(* seen them all, or that the rest is missing.  LogRelay implements this   *)
(* with bounded queues, a shared channel and agents that come and go.      *)
(***************************************************************************)
EXTENDS Naturals, Sequences

CONSTANT Streams

VARIABLES
    written,   \* written[s]: number of lines that have been read from the pod
    shown,     \* shown[s]: numbers of the lines the browser has been shown
    outcome    \* outcome[s]: what the browser was told in the end

vars == <<written, shown, outcome>>

Init ==
    /\ written = [s \in Streams |-> 0]
    /\ shown = [s \in Streams |-> << >>]
    /\ outcome = [s \in Streams |-> "none"]

(* Lines may still be read for a browser that has left.                    *)
Write(s) ==
    /\ outcome[s] # "end"
    /\ written' = [written EXCEPT ![s] = @ + 1]
    /\ UNCHANGED <<shown, outcome>>

Show(s) ==
    /\ outcome[s] = "none"
    /\ Len(shown[s]) < written[s]
    /\ shown' = [shown EXCEPT ![s] = Append(@, Len(@) + 1)]
    /\ UNCHANGED <<written, outcome>>

Complete(s) ==
    /\ outcome[s] = "none"
    /\ Len(shown[s]) = written[s]
    /\ outcome' = [outcome EXCEPT ![s] = "end"]
    /\ UNCHANGED <<written, shown>>

(* The pod's log cannot be read on, the channel is lost, the browser is    *)
(* too slow, or leaves.                                                    *)
Break(s) ==
    /\ outcome[s] = "none"
    /\ \E how \in {"error", "left"} : outcome' = [outcome EXCEPT ![s] = how]
    /\ UNCHANGED <<written, shown>>

Refuse(s) ==
    /\ outcome[s] = "none"
    /\ shown[s] = << >>
    /\ outcome' = [outcome EXCEPT ![s] = "refused"]
    /\ UNCHANGED <<written, shown>>

Next == \E s \in Streams : Write(s) \/ Show(s) \/ Complete(s) \/ Break(s) \/ Refuse(s)

Spec == Init /\ [][Next]_vars
=============================================================================
