---------------------------- MODULE MCUAccessory ----------------------------
(* Model checking of UAccessory; the bounds are in the configurations.     *)
EXTENDS UAccessory
=============================================================================
