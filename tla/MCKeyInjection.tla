--------------------------- MODULE MCKeyInjection ---------------------------
(* Model checking of KeyInjection with an argument of each kind.           *)
EXTENDS KeyInjection, TLC

Symmetry == Permutations(Threads)

\* Backspace, shift, a, A, !, + - = _, none of the table, the byte left out (an accent's
\* negative int too), and an int of all four bytes that one byte makes an A.
SomeKeys == {0, 14, 97, 65, 33, 43, 45, 61, 95, 200, -1, -2147483647 - 1, 321, 16909121}
=============================================================================
