---------------------------- MODULE MCBufferLife ----------------------------
(* Model checking of BufferLife; the bounds are in the configuration.      *)
EXTENDS BufferLife

\* Bound: what happens to the last pair once it is disturbed is not followed.  No pair
\* comes after it, so that nothing is promised from there on.
UntilLastDisturbed == ~(disturbed /\ pairs = MaxPairs)
=============================================================================
