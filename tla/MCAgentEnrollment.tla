------------------------- MODULE MCAgentEnrollment -------------------------
(* AgentEnrollment for TLC; the model values and bounds are in the cfgs.   *)
EXTENDS AgentEnrollment, TLC

(* Processes and handler slots are interchangeable (safety runs only).     *)
Symmetry == Permutations(Procs) \cup Permutations(Slots)
=============================================================================
