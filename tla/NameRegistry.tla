---------------------------- MODULE NameRegistry ----------------------------
(***************************************************************************)
(* What the hub promises of one cluster name: it belongs to whoever        *)
(* claimed it until it is released, only the holder is given credentials   *)
(* for it, at most the last one of them is valid, one that has been        *)
(* replaced or withdrawn never is again, and an approval lasts as long as  *)
(* the holder.  AgentEnrollment implements this with the clusters and the  *)
(* agents table (internal/store/sqlite.go) under concurrent handlers.      *)
(***************************************************************************)
EXTENDS Naturals, Sequences

CONSTANT Principals

VARIABLES
    holder,      \* {p} if p holds the name, {} if it is free
    minted,      \* the principals credentials were given to, in order
    valid,       \* number of the valid credential (0: none)
    approved     \* is the holder approved?

vars == <<holder, minted, valid, approved>>

Init ==
    /\ holder = {}
    /\ minted = << >>
    /\ valid = 0
    /\ approved = FALSE

Claim(p) ==
    /\ holder = {}
    /\ holder' = {p}
    /\ UNCHANGED <<minted, valid, approved>>

(* A first credential, or one that replaces the last.                      *)
Issue(p) ==
    /\ holder = {p}
    /\ minted' = Append(minted, p)
    /\ valid' = Len(minted) + 1
    /\ UNCHANGED <<holder, approved>>

Approve ==
    /\ valid # 0
    /\ approved' = TRUE
    /\ UNCHANGED <<holder, minted, valid>>

Release ==
    /\ holder # {}
    /\ holder' = {}
    /\ valid' = 0
    /\ approved' = FALSE
    /\ UNCHANGED minted

Next ==
    \/ \E p \in Principals : Claim(p) \/ Issue(p)
    \/ Approve
    \/ Release

Spec == Init /\ [][Next]_vars
=============================================================================
