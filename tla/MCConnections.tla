---------------------------- MODULE MCConnections ----------------------------
(* Instances of Connections for TLC. *)
EXTENDS Connections

CONSTANTS a, b, c, d, r1, r2
=============================================================================
