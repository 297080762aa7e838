---------------------------- MODULE MCAlertDelivery ----------------------------
(* AlertDelivery for TLC; the model values and bounds are in the cfg. *)
EXTENDS AlertDelivery
=============================================================================
