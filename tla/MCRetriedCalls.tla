--------------------------- MODULE MCRetriedCalls ---------------------------
(* Instances of RetriedCalls for TLC. *)
EXTENDS RetriedCalls

CONSTANTS a, b, c
=============================================================================
