---------------------------- MODULE MCWorkerPool ----------------------------
(* Instances of WorkerPool for TLC. *)
EXTENDS WorkerPool, TLC

CONSTANTS i1, i2, i3, i4, c1, c2

\* Any two items, and any two callers, may do the same.
Symmetry == Permutations(Items) \cup Permutations(Callers)
=============================================================================
