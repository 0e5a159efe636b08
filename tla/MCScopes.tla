------------------------------ MODULE MCScopes ------------------------------
(* Instances of Scopes for TLC. *)
EXTENDS Scopes, TLC

CONSTANTS host, k1, c1, c2, a, b, c

\* Closers may call the same operations, and children may do the same.
Symmetry == Permutations(Closers) \cup Permutations(Children)
=============================================================================
