--------------------------- MODULE MCClusterHealth ---------------------------
(* ClusterHealth for TLC; the model values and other bounds are in the cfgs. *)
EXTENDS ClusterHealth, TLC

(* Nodes that stay healthy and tasks that take their time; nodes that      *)
(* degrade and tasks that end within an interval.                          *)
SlowTasks == [conditions |-> {"healthy"}, delay |-> MaxDelay]
SickNodes == [conditions |-> {"healthy", "degraded"}, delay |-> 0]
Both == {SlowTasks, SickNodes}
Healthy == {SlowTasks}

(* Handler slots are interchangeable.                                      *)
Symmetry == Permutations(Slots)
(* Handlers and the monitor do not overlap: what is left of the behaviours *)
(* needs no race.                                                          *)
OneTaskAtATime == Cardinality({t \in Tasks : task[t].pc # "idle"}) <= 1
=============================================================================
