--------------------------- MODULE MCTokenBucket ---------------------------
(* Instances of TokenBucket for TLC. *)
EXTENDS TokenBucket

CONSTANTS a, b, c
=============================================================================
