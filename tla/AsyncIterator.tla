---------------------------- MODULE AsyncIterator ----------------------------
(***************************************************************************)
(* What passes between an async generator and whoever iterates over it: at *)
(* most one call at a time, __anext__ or aclose, and its answer.  A call   *)
(* may run in a task of its own, which may be cancelled.                   *)
(*                                                                         *)
(* Two generators of a pipeline share a variable that holds such a call.   *)
(* Async generators are not in this repository; they are modelled from how *)
(* the code uses them.                                                     *)
(***************************************************************************)
CONSTANT Nothing

Call(state) == [is |-> state, of |-> Nothing, killed |-> FALSE]

Quiet == Call("none")        \* no call, or one whose answer has been taken
Asked == Call("asked")       \* __anext__ runs
Closing == Call("closing")   \* aclose runs

\* The answers: an item, StopAsyncIteration, an exception, CancelledError, and
\* the return of aclose.
Item(v) == [is |-> "item", of |-> v, killed |-> FALSE]
Answer(how) == Call(how)
Answers == {"item", "stop", "error", "cancelled", "closed"}

Landed(call) == call.is \in Answers
Runs(call) == call.is \in {"asked", "closing"}

\* Task.cancel() on the task of the call; it does nothing to one that is done.
Cancelled(call) == IF call.is = "asked" THEN [call EXCEPT !.killed = TRUE] ELSE call

\* The CancelledError has been thrown, or passed on.
Delivered(call) == [call EXCEPT !.killed = FALSE]

Calls(values) ==
  [is : {"none", "asked", "closing"} \cup Answers, of : values \cup {Nothing}, killed : BOOLEAN]
=============================================================================
