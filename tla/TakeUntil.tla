------------------------------ MODULE TakeUntil ------------------------------
(***************************************************************************)
(* aiolab.streams.take_until: a stream that ends at an item boundary once  *)
(* an asyncio.Event is set.                                                *)
(***************************************************************************)
EXTENDS AsyncIterator

CONSTANT Values

VARIABLES
  down,    \* the call of whoever iterates over take_until
  up,      \* nxt, its call of the source, in a task of its own
  at,      \* where the generator is
  event,   \* the Event is set
  stop,    \* the task that waits for the event
  exit     \* how it ends when its teardown is over

vars == <<down, up, at, event, stop, exit>>

Init ==
  /\ down = Quiet
  /\ up = Quiet
  /\ at = "new"
  /\ event = FALSE
  /\ stop = "none"
  /\ exit = "none"

\* The application sets the event, at any time.
Set ==
  /\ ~event
  /\ event' = TRUE
  /\ UNCHANGED <<down, up, at, stop, exit>>

StopEnds ==
  /\ stop = "waiting"
  /\ event
  /\ stop' = "done"
  /\ UNCHANGED <<down, up, at, event, exit>>

\* The end, with nothing of the source to wait for.
Ends(how) ==
  /\ down' = Answer(how)
  /\ up' = Quiet
  /\ at' = "over"
  /\ stop' = IF stop = "done" THEN stop ELSE "cancelled"

\* The top of the loop.
AsksOrEnds ==
  \/ /\ event
     /\ Ends("stop")
  \/ /\ ~event
     /\ up' = Asked
     /\ at' = "waiting"
     /\ stop' = IF stop = "none" THEN "waiting" ELSE stop
     /\ UNCHANGED down

Continues ==
  /\ at \in {"new", "yielding"}
  /\ down = Asked
  /\ AsksOrEnds
  /\ UNCHANGED <<event, exit>>

\* The task that asks is cancelled before its first step: the generator does not
\* move.
NeverStarts ==
  /\ at \in {"new", "yielding"}
  /\ down.is = "asked"
  /\ down.killed
  /\ down' = Answer("cancelled")
  /\ UNCHANGED <<up, at, event, stop, exit>>

\* asyncio.wait returns and nxt is done, whether or not the event is set.
Lands ==
  /\ at = "waiting"
  /\ ~down.killed
  /\ \/ /\ up.is = "item"
        /\ down' = Item(up.of)
        /\ up' = Quiet
        /\ at' = "yielding"
        /\ UNCHANGED stop
     \/ /\ up.is \in {"stop", "error", "cancelled"}
        /\ Ends(up.is)
  /\ UNCHANGED <<event, exit>>

\* The finally: nxt is cancelled and awaited.
Leaves(how) ==
  /\ up' = Cancelled(up)
  /\ stop' = IF stop = "done" THEN stop ELSE "cancelled"
  /\ exit' = how
  /\ at' = "unwinding"
  /\ UNCHANGED <<down, event>>

\* asyncio.wait returns and only the event is set.
Stops ==
  /\ at = "waiting"
  /\ ~down.killed
  /\ stop = "done"
  /\ ~Landed(up)
  /\ Leaves("stop")

Thrown ==
  /\ at = "waiting"
  /\ down.killed
  /\ Leaves("cancelled")

ThrownAgain ==
  /\ at = "unwinding"
  /\ down.killed
  /\ down' = Delivered(down)
  /\ up' = Cancelled(up)
  /\ exit' = "cancelled"
  /\ UNCHANGED <<at, event, stop>>

Unwound ==
  /\ at = "unwinding"
  /\ Landed(up)
  /\ down' = Answer(exit)
  /\ up' = Quiet
  /\ at' = "over"
  /\ UNCHANGED <<event, stop, exit>>

Closes ==
  /\ at = "yielding"
  /\ down.is = "closing"
  /\ Ends("closed")
  /\ UNCHANGED <<event, exit>>

Step ==
  \/ StopEnds \/ Continues \/ NeverStarts \/ Lands \/ Stops \/ Thrown \/ ThrownAgain \/ Unwound \/ Closes

-----------------------------------------------------------------------------
(* Properties *)

\* Every variable has its type.
TypeOK ==
  /\ down \in Calls(Values)
  /\ up \in Calls(Values)
  /\ at \in {"new", "waiting", "yielding", "unwinding", "over"}
  /\ event \in BOOLEAN
  /\ stop \in {"none", "waiting", "done", "cancelled"}
  /\ exit \in {"none", "stop", "cancelled"}

\* Once the generator is over, the source is not asked any more and nobody
\* waits for the event.
NobodyLeft == at = "over" => up.is # "asked" /\ stop # "waiting"
=============================================================================
