----------------------------- MODULE MCLogRelay -----------------------------
(* LogRelay for TLC; the model values and other bounds are in the cfg.     *)
EXTENDS LogRelay

CONSTANTS c1, s1

(* A stream of several lines, a stream over channels that replace each     *)
(* other, and streams that share a channel.                                *)
MCInstances == {
    [channels |-> {c1}, streams |-> {s1}, lines |-> 2],
    [channels |-> Channels, streams |-> {s1}, lines |-> 1],
    [channels |-> {c1}, streams |-> Streams, lines |-> 1]}
=============================================================================
