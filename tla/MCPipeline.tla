----------------------------- MODULE MCPipeline -----------------------------
(* Instances of Pipeline for TLC. *)
EXTENDS Pipeline

CONSTANTS f1, f2

\* One feed has two items, so that its order can be told, the other one.
TwoAndOne == [f \in Feeds |-> IF f = f1 THEN 2 ELSE 1]

\* fn may fail on the first item of that feed.
FirstItem == {<<f1, 1>>}
=============================================================================
