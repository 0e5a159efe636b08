------------------------------ MODULE AsyncMap ------------------------------
(***************************************************************************)
(* aiolab.streams.amap: an async function applied across a stream, with at *)
(* most `concurrency` applications in flight.                              *)
(*                                                                         *)
(* The source is awaited by amap's own caller, not in a task of its own, so *)
(* that a cancellation of the caller goes down to it, as it does to the    *)
(* oldest application when amap waits for that one.                        *)
(***************************************************************************)
EXTENDS AsyncIterator, Naturals, FiniteSets, SequencesExt

CONSTANTS
  Values,        \* the items; fn's result for one is named by the item
  Concurrency,   \* concurrency=
  Orders,        \* whether ordered=, a subset of BOOLEAN
  Fragile        \* items on which fn may fail

MapAssumption ==
  /\ Nothing \notin Values
  /\ Concurrency \in Nat \ {0}       \* otherwise amap raises
  /\ Orders \subseteq BOOLEAN
  /\ Fragile \subseteq Values

VARIABLES
  down,        \* the call of whoever iterates over amap
  up,          \* amap's call of its source
  at,          \* where the generator is
  ordered,     \* ordered
  in_flight,   \* in_flight, the items its tasks work on
  head,        \* the item whose task has been popped and is awaited
  job,         \* per item: its task
  torn,        \* items on whose tasks cancel() was called
  exhausted,   \* exhausted
  walk,        \* the rest of `done`, to be walked in this turn
  exit         \* how it ends when its teardown is over

taskVars == <<in_flight, head, job, torn>>
vars == <<down, up, at, ordered, taskVars, exhausted, walk, exit>>

Init ==
  /\ down = Quiet
  /\ up = Quiet
  /\ at = "new"
  /\ ordered \in Orders
  /\ in_flight = <<>>
  /\ head = Nothing
  /\ job = [v \in Values |-> "none"]
  /\ torn = {}
  /\ exhausted = FALSE
  /\ walk = {}
  /\ exit = "none"

Ended(v) == job[v] \in {"ok", "error", "cancelled"}
InFlight == ToSet(in_flight)
Held == IF head = Nothing THEN in_flight ELSE <<head>> \o in_flight
Working == {v \in Values : job[v] = "running"}

-----------------------------------------------------------------------------
(* The loop: fill up, then hand on what is ready *)

OneMore(flight) == Len(flight) <= Concurrency       \* mutant
Room(flight) == Len(flight) < Concurrency

\* From the top of the loop to its next await, or to the return.
Proceeds(flight, dry) ==
  /\ exhausted' = dry
  /\ IF ~dry /\ Room(flight)
     THEN /\ up' = Asked
          /\ at' = "filling"
          /\ in_flight' = flight
          /\ UNCHANGED <<down, head>>
     ELSE /\ up' = Quiet
          /\ \/ /\ flight = <<>>
                /\ down' = Answer("stop")
                /\ at' = "over"
                /\ in_flight' = flight
                /\ UNCHANGED head
             \/ /\ flight # <<>>
                /\ ordered
                /\ at' = "awaiting"
                /\ head' = Head(flight)
                /\ in_flight' = Tail(flight)
                /\ UNCHANGED down
             \/ /\ flight # <<>>
                /\ ~ordered
                /\ at' = "waiting"
                /\ in_flight' = flight
                /\ UNCHANGED <<down, head>>

Continues ==
  /\ at \in {"new", "yielding"}
  /\ down = Asked
  /\ walk = {}
  /\ Proceeds(in_flight, exhausted)
  /\ UNCHANGED <<ordered, job, torn, walk, exit>>

Fills ==
  /\ at = "filling"
  /\ up.is = "item"
  /\ job' = [job EXCEPT ![up.of] = "running"]
  /\ Proceeds(Append(in_flight, up.of), exhausted)
  /\ UNCHANGED <<ordered, torn, walk, exit>>

Exhausts ==
  /\ at = "filling"
  /\ up.is = "stop"
  /\ Proceeds(in_flight, TRUE)
  /\ UNCHANGED <<ordered, job, torn, walk, exit>>

\* The finally: whatever is in flight is cancelled and awaited.
LeavesRunning(how, flight) ==                              \* mutant
  /\ in_flight' = flight
  /\ head' = Nothing
  /\ up' = Quiet
  /\ walk' = {}
  /\ exit' = how
  /\ down' = Answer(how)
  /\ at' = "over"
  /\ UNCHANGED torn
Leaves(how, flight) ==
  /\ in_flight' = flight
  /\ torn' = torn \cup (ToSet(flight) \cap Working)
  /\ head' = Nothing
  /\ up' = Quiet
  /\ walk' = {}
  /\ exit' = how
  /\ IF flight = <<>>
     THEN down' = Answer(how) /\ at' = "over"
     ELSE at' = "unwinding" /\ UNCHANGED down

FillFails ==
  /\ at = "filling"
  /\ up.is \in {"error", "cancelled"}
  /\ Leaves(up.is, in_flight)
  /\ UNCHANGED <<ordered, job, exhausted>>

\* ordered: `yield await in_flight.pop(0)`.
HeadArrives ==
  /\ at = "awaiting"
  /\ ~down.killed
  /\ \/ /\ job[head] = "ok"
        /\ down' = Item(head)
        /\ at' = "yielding"
        /\ head' = Nothing
        /\ UNCHANGED <<up, in_flight, torn, walk, exit>>
     \/ /\ job[head] \in {"error", "cancelled"}
        /\ Leaves(job[head], in_flight)
  /\ UNCHANGED <<ordered, job, exhausted>>

\* Not ordered: asyncio.wait(FIRST_COMPLETED) returns, and `done` is walked.
Lands ==
  /\ at = "waiting"
  /\ ~down.killed
  /\ walk' = {v \in InFlight : Ended(v)}
  /\ walk' # {}
  /\ at' = "walking"
  /\ UNCHANGED <<down, up, ordered, taskVars, exhausted, exit>>

\* list.remove; an item is in flight once.
Removed(v) == RemoveAt(in_flight, CHOOSE k \in DOMAIN in_flight : in_flight[k] = v)

Walks(v) ==
  /\ \/ at = "walking"
     \/ at = "yielding" /\ down = Asked
  /\ v \in walk
  /\ \/ /\ job[v] = "ok"
        /\ down' = Item(v)
        /\ at' = "yielding"
        /\ walk' = walk \ {v}
        /\ in_flight' = Removed(v)
        /\ UNCHANGED <<up, head, torn, exit>>
     \/ /\ job[v] # "ok"
        /\ Leaves(job[v], Removed(v))
  /\ UNCHANGED <<ordered, job, exhausted>>

-----------------------------------------------------------------------------
(* The ways out *)

\* The task that asks is cancelled before its first step: the generator does not
\* move.
NeverStarts ==
  /\ at \in {"new", "yielding"}
  /\ down.is = "asked"
  /\ down.killed
  /\ down' = Answer("cancelled")
  /\ UNCHANGED <<up, at, ordered, taskVars, exhausted, walk, exit>>

Closes ==
  /\ at = "yielding"
  /\ down.is = "closing"
  /\ Leaves("closed", in_flight)
  /\ UNCHANGED <<ordered, job, exhausted>>

\* The caller is cancelled: that goes on to the source, or to the task amap
\* waits for, while these are not done.
PassesOn ==
  /\ down.killed
  /\ down' = Delivered(down)
  /\ \/ /\ at = "filling"
        /\ up.is = "asked"
        /\ up' = Cancelled(up)
        /\ UNCHANGED torn
     \/ /\ at = "awaiting"
        /\ head \in Working
        /\ torn' = torn \cup {head}
        /\ UNCHANGED up
  /\ UNCHANGED <<at, ordered, in_flight, head, job, exhausted, walk, exit>>

Thrown ==
  /\ down.killed
  /\ \/ at = "waiting"
     \/ at = "awaiting" /\ Ended(head)
  /\ Leaves("cancelled", in_flight)
  /\ UNCHANGED <<ordered, job, exhausted>>

\* Cancelled in the finally: gather cancels them again and reports it in the end.
ThrownAgain ==
  /\ at = "unwinding"
  /\ down.killed
  /\ down' = Delivered(down)
  /\ torn' = torn \cup (InFlight \cap Working)
  /\ exit' = "cancelled"
  /\ UNCHANGED <<up, at, ordered, in_flight, head, job, exhausted, walk>>

Unwound ==
  /\ at = "unwinding"
  /\ \A v \in InFlight : Ended(v)
  /\ down' = Answer(exit)
  /\ in_flight' = <<>>
  /\ at' = "over"
  /\ UNCHANGED <<up, ordered, head, job, torn, exhausted, walk, exit>>

\* fn, on one item; it may return although it has been cancelled.
JobEnds(v) ==
  /\ job[v] = "running"
  /\ \E how \in {"ok", "error", "cancelled"} :
       /\ how = "error" => v \in Fragile
       /\ how = "cancelled" => v \in torn
       /\ job' = [job EXCEPT ![v] = how]
  /\ UNCHANGED <<down, up, at, ordered, in_flight, head, torn, exhausted, walk, exit>>

Step ==
  \/ Continues \/ Fills \/ Exhausts \/ FillFails \/ HeadArrives \/ Lands
  \/ NeverStarts \/ Closes \/ PassesOn \/ Thrown \/ ThrownAgain \/ Unwound
  \/ \E v \in Values : Walks(v)

-----------------------------------------------------------------------------
(* Properties *)

\* Every variable has its type, and an item is in flight once.
TypeOK ==
  /\ down \in Calls(Values)
  /\ up \in Calls(Values)
  /\ at \in {"new", "filling", "awaiting", "waiting", "walking", "yielding", "unwinding", "over"}
  /\ ordered \in BOOLEAN
  /\ in_flight \in Seq(Values)
  /\ IsInjective(in_flight)
  /\ head \in Values \cup {Nothing}
  /\ job \in [Values -> {"none", "running", "ok", "error", "cancelled"}]
  /\ torn \subseteq Values
  /\ exhausted \in BOOLEAN
  /\ walk \subseteq InFlight
  /\ exit \in {"none", "error", "cancelled", "closed"}

\* "At most `concurrency` items are in flight", the one that has been popped
\* and is awaited among them.
BoundedFlight == Cardinality(Working) <= Concurrency

\* Once the generator is over, no task of it runs and its source is not asked.
NobodyLeft == at = "over" => Working = {} /\ up.is # "asked"
=============================================================================
