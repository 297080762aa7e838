----------------------------- MODULE MCMcpTools -----------------------------
(* McpTools for TLC; the model values and other bounds are in the cfg.     *)
EXTENDS McpTools

CONSTANTS t1, c1, c2, m1, m2

(* Everything there is; and a time that begins within a second.            *)
Always == <<0, Forever>>
Within == <<1, 2>>

(* Concurrent calls over sessions that end; one reader of many events with *)
(* a session that lasts; one reader of few events with one that may end.   *)
MCInstances == {
    [calls |-> Calls, scopes |-> {Fleet}, times |-> {Always},
     sources |-> {}, rows |-> 0, unrest |-> TRUE],
    [calls |-> {t1}, scopes |-> {Fleet}, times |-> {Always, Within},
     sources |-> {<<c1, "finding", m1>>, <<c1, "finding", m2>>},
     rows |-> 3, unrest |-> FALSE],
    [calls |-> {t1}, scopes |-> {c1}, times |-> {Always},
     sources |-> {<<c1, "finding", m1>>, <<c2, "disconnected", m1>>}, rows |-> 1, unrest |-> TRUE]}
=============================================================================
