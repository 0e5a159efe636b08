--------------------------- MODULE MCReadWriteLock ---------------------------
(* Instances of ReadWriteLock for TLC. *)
EXTENDS ReadWriteLock

CONSTANTS a, b, c, d
=============================================================================
