------------------------------- MODULE Batcher -------------------------------
(***************************************************************************)
(* aiolab.queues.batched: a stream in batches of `size`, or of what there  *)
(* is when nothing has arrived for `timeout`.                              *)
(*                                                                         *)
(* The pending __anext__ is a task that outlives the timeout.  The timeout *)
(* is left to chance: it may expire whenever batched waits.                *)
(***************************************************************************)
EXTENDS AsyncIterator, Naturals, Sequences

CONSTANTS
  Values,   \* the items
  Size,     \* size=
  Timeouts  \* whether there is a timeout=, a subset of BOOLEAN

BatcherAssumption ==
  /\ Nothing \notin Values
  /\ Size \in Nat \ {0}              \* otherwise batched raises
  /\ Timeouts \subseteq BOOLEAN

VARIABLES
  down,    \* the call of whoever iterates over the batches
  up,      \* pending, its call of the source, in a task of its own
  at,      \* where the generator is
  batch,   \* batch
  timed,   \* timeout is not None
  ending   \* the source has stopped: the batch being yielded is the last

vars == <<down, up, at, batch, timed, ending>>

Init ==
  /\ down = Quiet
  /\ up = Quiet
  /\ at = "new"
  /\ batch = <<>>
  /\ timed \in Timeouts
  /\ ending = FALSE

\* The top of the loop: ask the source unless it has been asked.
Waits ==
  /\ up' = IF up = Quiet THEN Asked ELSE up
  /\ at' = "waiting"

\* The end; the finally cancels what is pending and does not wait for it.
EndsRunning(how) ==                                        \* mutant
  /\ down' = Answer(how)
  /\ up' = up
  /\ at' = "over"
  /\ batch' = <<>>
Ends(how) ==
  /\ down' = Answer(how)
  /\ up' = IF Landed(up) THEN Quiet ELSE Cancelled(up)
  /\ at' = "over"
  /\ batch' = <<>>

Yields(items) ==
  /\ down' = Item(items)
  /\ batch' = <<>>
  /\ at' = "yielding"

Continues ==
  /\ at \in {"new", "yielding"}
  /\ down.is = "asked"
  /\ IF ending THEN Ends("stop")
     ELSE Waits /\ UNCHANGED <<down, batch>>
  /\ UNCHANGED <<timed, ending>>

\* The batch flushed for a TimeoutError of the source has been taken.
Spins ==
  /\ at = "flushing"
  /\ down.is = "asked"
  /\ at' = "spinning"
  /\ UNCHANGED <<down, up, batch, timed, ending>>

Ready == at = "waiting" /\ ~down.killed

Full(items) == Len(items) >= Size
Gathers ==
  /\ Ready
  /\ up.is = "item"
  /\ IF Full(Append(batch, up.of))
     THEN Yields(Append(batch, up.of)) /\ up' = Quiet
     ELSE /\ batch' = Append(batch, up.of)
          /\ up' = Asked
          /\ UNCHANGED <<down, at>>
  /\ UNCHANGED <<timed, ending>>

\* TimeoutError, even though the read may have ended just now; with an empty
\* batch batched goes on waiting.
Expires ==
  /\ Ready
  /\ timed
  /\ batch # <<>>
  /\ Yields(batch)
  /\ UNCHANGED <<up, timed, ending>>

\* Mutant: the tail is dropped.
StopsShort ==
  /\ Ready
  /\ up.is = "stop"
  /\ Ends("stop")
  /\ UNCHANGED <<timed, ending>>
SourceStops ==
  /\ Ready
  /\ up.is = "stop"
  /\ IF batch = <<>>
     THEN Ends("stop") /\ UNCHANGED ending
     ELSE Yields(batch) /\ ending' = TRUE /\ up' = Quiet
  /\ UNCHANGED timed

\* The source fails: what has been gathered goes with it.
SourceFails ==
  /\ Ready
  /\ up.is \in {"error", "cancelled"}
  /\ Ends(up.is)
  /\ UNCHANGED <<timed, ending>>

\* The error is itself a TimeoutError, taken for that of wait_for: what has been
\* gathered is yielded, and the read, which is over, is awaited again and again.
SourceTimesOut ==
  /\ Ready
  /\ up.is = "error"
  /\ \/ /\ batch = <<>>
        /\ at' = "spinning"
        /\ UNCHANGED <<down, batch>>
     \/ /\ batch # <<>>
        /\ down' = Item(batch)
        /\ batch' = <<>>
        /\ at' = "flushing"
  /\ UNCHANGED <<up, timed, ending>>

Closes ==
  /\ at \in {"yielding", "flushing"}
  /\ down.is = "closing"
  /\ Ends("closed")
  /\ UNCHANGED <<timed, ending>>

\* The caller is cancelled.  Without a timeout it awaits the read itself, and
\* the cancellation goes there; the shield keeps it from the read.
PassesOn ==
  /\ at = "waiting"
  /\ down.killed
  /\ ~timed
  /\ up.is = "asked"
  /\ up' = Cancelled(up)
  /\ down' = Delivered(down)
  /\ UNCHANGED <<at, batch, timed, ending>>

Thrown ==
  /\ at = "waiting"
  /\ down.killed
  /\ timed \/ Landed(up)
  /\ Ends("cancelled")
  /\ UNCHANGED <<timed, ending>>

Step ==
  \/ Continues \/ Spins \/ Gathers \/ SourceStops \/ SourceFails \/ SourceTimesOut
  \/ Closes \/ PassesOn \/ Thrown

-----------------------------------------------------------------------------
(* Properties *)

\* Every variable has its type; a batch that is not yielded is not full.
TypeOK ==
  /\ down \in Calls(Seq(Values))
  /\ up \in Calls(Values)
  /\ at \in {"new", "waiting", "yielding", "flushing", "spinning", "over"}
  /\ batch \in Seq(Values)
  /\ Len(batch) < Size
  /\ timed \in BOOLEAN
  /\ ending \in BOOLEAN

\* A batch has something in it and no more than `size` items.
BatchesFit == down.is = "item" => Len(down.of) \in 1 .. Size
=============================================================================
