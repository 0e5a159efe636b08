----------------------------- MODULE MCTaskGroup -----------------------------
(* Instances of TaskGroup for TLC. *)
EXTENDS TaskGroup

CONSTANTS a, b, c
=============================================================================
