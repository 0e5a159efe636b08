------------------------------- MODULE Stream -------------------------------
(***************************************************************************)
(* What every generator over a stream promises, whatever it does inside:   *)
(* an item taken from a source is handed on once, in order, and the stream *)
(* says that it is at its end only when nothing is left in it.  It breaks  *)
(* off, and may drop what it holds, only for a reason.                     *)
(*                                                                         *)
(* Pipeline instantiates this module four times, so it takes no more of    *)
(* the community modules than FoldSet: an instance copies all of them.     *)
(***************************************************************************)
EXTENDS AsyncIterator, Naturals, Sequences, FiniteSetsExt

CONSTANTS
  Inputs,     \* its sources
  Parts(_)    \* the items in what it hands on, a sequence

VARIABLES
  ins,        \* per source: the call of it
  out,        \* the call of whoever iterates over the stream
  inside,     \* items taken and not handed on, in the order they were taken
  dry,        \* sources that are known to have stopped
  over,       \* it has ended or broken off
  ordered,    \* items are handed on in the order they were taken
  mayStop,    \* it has been told to stop
  spoiled     \* work on an item inside has failed

vars == <<ins, out, inside, dry, over>>

Init ==
  /\ out = Quiet
  /\ inside = <<>>
  /\ dry = {}
  /\ ~over

\* The sources whose item is taken in this step, and what is inside then.
Takes == {x \in Inputs : ins[x].is = "item" /\ ins'[x] # ins[x]}
Now == FoldSet(LAMBDA x, held : Append(held, ins[x].of), inside, Takes)

Stopping == {x \in Inputs : ins[x].is = "stop"}
Learns == dry \subseteq dry' /\ dry' \subseteq dry \cup Stopping

Says(what) == out.is # what /\ out'.is = what

Passes ==
  /\ ~Says("item")
  /\ ~Says("stop")
  /\ inside' = Now
  /\ Learns
  /\ over' = over

HandsOn ==
  /\ ~over
  /\ Says("item")
  /\ \/ Now = Parts(out'.of) \o inside'
     \/ /\ ~ordered
        /\ \E k \in DOMAIN Now :
             /\ <<Now[k]>> = Parts(out'.of)
             /\ inside' = SubSeq(Now, 1, k - 1) \o SubSeq(Now, k + 1, Len(Now))
  /\ Learns
  /\ UNCHANGED over

Ends ==
  /\ Says("stop")
  /\ mayStop \/ (~over /\ Now = <<>> /\ dry \cup Stopping = Inputs)
  /\ over'

Reason ==
  \/ out.killed
  \/ out.is = "closing"
  \/ mayStop
  \/ spoiled
  \/ \E x \in Inputs : ins[x].is \in {"error", "cancelled"}

BreaksOff ==
  /\ ~Says("item")
  /\ ~Says("stop")
  /\ over \/ Reason
  /\ over'

Next == Passes \/ HandsOn \/ Ends \/ BreaksOff

Spec == Init /\ [][Next]_vars
=============================================================================
