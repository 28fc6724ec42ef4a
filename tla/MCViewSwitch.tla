---------------------------- MODULE MCViewSwitch ----------------------------
(* Model checking of ViewSwitch with the touches of TouchInput.            *)
EXTENDS TouchInput

\* Two neighbours that are a click's displacement apart at most, and one that is not.
SomePositions == {0, 4, 8}
=============================================================================
