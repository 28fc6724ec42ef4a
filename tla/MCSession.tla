------------------------------ MODULE MCSession ------------------------------
(* Model checking of Session; the bounds are in the configuration.         *)
EXTENDS Session
=============================================================================
