--------------------------- MODULE MCBroadcastHub ---------------------------
(* BroadcastHub for TLC; the model values and bounds are in the cfgs.      *)
EXTENDS BroadcastHub
=============================================================================
