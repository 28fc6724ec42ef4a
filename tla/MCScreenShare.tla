--------------------------- MODULE MCScreenShare ---------------------------
(* Model checking of ScreenShare; the bounds are in the configurations.    *)
EXTENDS ScreenShare
=============================================================================
