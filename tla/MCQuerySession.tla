--------------------------- MODULE MCQuerySession ---------------------------
(* A small instance of QuerySession for TLC. *)
EXTENDS QuerySessionInv, TLC

\* Names, keys and transaction ids each play the same part.
Symmetry == Permutations(Names) \cup Permutations(Keys) \cup Permutations(Tx)
=============================================================================
