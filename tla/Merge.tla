-------------------------------- MODULE Merge --------------------------------
(***************************************************************************)
(* aiolab.streams.merge: one pending __anext__ per source, items handed on *)
(* as they arrive.                                                         *)
(*                                                                         *)
(* `pending` in the code holds the sources whose call in `pull` has not    *)
(* been taken out.  A turn that walks `done` is several steps, of which    *)
(* none waits for anybody.                                                 *)
(***************************************************************************)
EXTENDS AsyncIterator

CONSTANTS
  Sources,
  Values    \* the items of all sources

VARIABLES
  down,   \* the call of whoever iterates over merge
  pull,   \* per source: merge's call of its __anext__
  at,     \* where the generator is
  walk,   \* the rest of `done`, to be walked in this turn
  last,   \* while it is suspended at its yield: the source of the item
  exit    \* how it ends when its teardown is over

vars == <<down, pull, at, walk, last, exit>>

Init ==
  /\ down = Quiet
  /\ pull = [s \in Sources |-> Quiet]
  /\ at = "new"
  /\ walk = {}
  /\ last = Nothing
  /\ exit = "none"

Pending == {s \in Sources : pull[s] # Quiet}
Done == {s \in Sources : Landed(pull[s])}

Begin ==
  /\ at = "new"
  /\ down.is = "asked"
  /\ pull' = [s \in Sources |-> Asked]
  /\ at' = "waiting"
  /\ UNCHANGED <<down, walk, last, exit>>

\* asyncio.wait(FIRST_COMPLETED) returns.
Lands ==
  /\ at = "waiting"
  /\ ~down.killed
  /\ Done # {}
  /\ walk' = Done
  /\ at' = "walking"
  /\ UNCHANGED <<down, pull, last, exit>>

\* The finally: whatever is pending is cancelled and awaited.
Leaves(how, calls) ==
  /\ pull' = [s \in Sources |-> Cancelled(calls[s])]
  /\ exit' = how
  /\ walk' = {}
  /\ last' = Nothing
  /\ IF \A s \in Sources : calls[s] = Quiet
     THEN down' = Answer(how) /\ at' = "over"
     ELSE at' = "unwinding" /\ UNCHANGED down

Popped(s) == [pull EXCEPT ![s] = Quiet]

\* Mutant: the rest of `done` is forgotten after the first item.
YieldsOne(s) ==
  /\ pull[s].is = "item"
  /\ down' = Item(pull[s].of)
  /\ pull' = [x \in Sources |-> IF x \in walk THEN Quiet ELSE pull[x]]
  /\ walk' = {}
  /\ last' = s
  /\ at' = "yielding"
  /\ UNCHANGED exit
Yields(s) ==
  /\ pull[s].is = "item"
  /\ down' = Item(pull[s].of)
  /\ pull' = Popped(s)
  /\ walk' = walk \ {s}
  /\ last' = s
  /\ at' = "yielding"
  /\ UNCHANGED exit

Walks(s) ==
  /\ at = "walking"
  /\ s \in walk
  /\ \/ Yields(s)
     \/ /\ pull[s].is = "stop"
        /\ pull' = Popped(s)
        /\ walk' = walk \ {s}
        /\ UNCHANGED <<down, at, last, exit>>
     \/ /\ pull[s].is \in {"error", "cancelled"}
        /\ Leaves(pull[s].is, Popped(s))

\* `done` has been walked: wait again, or return.
GoesOn ==
  /\ at = "walking"
  /\ walk = {}
  /\ IF Pending = {}
     THEN down' = Answer("stop") /\ at' = "over"
     ELSE at' = "waiting" /\ UNCHANGED down
  /\ UNCHANGED <<pull, walk, last, exit>>

Resumes ==
  /\ at = "yielding"
  /\ down.is = "asked"
  /\ pull' = [pull EXCEPT ![last] = Asked]
  /\ last' = Nothing
  /\ at' = "walking"
  /\ UNCHANGED <<down, walk, exit>>

Closes ==
  /\ at = "yielding"
  /\ down.is = "closing"
  /\ Leaves("closed", pull)

\* CancelledError out of asyncio.wait, and out of gather in the finally.
Thrown ==
  /\ at = "waiting"
  /\ down.killed
  /\ Leaves("cancelled", pull)

ThrownAgain ==
  /\ at = "unwinding"
  /\ down.killed
  /\ down' = Delivered(down)
  /\ pull' = [s \in Sources |-> Cancelled(pull[s])]
  /\ exit' = "cancelled"
  /\ UNCHANGED <<at, walk, last>>

Unwound ==
  /\ at = "unwinding"
  /\ Pending \subseteq Done
  /\ down' = Answer(exit)
  /\ pull' = [s \in Sources |-> Quiet]
  /\ at' = "over"
  /\ UNCHANGED <<walk, last, exit>>

Step ==
  \/ Begin \/ Lands \/ GoesOn \/ Resumes \/ Closes \/ Thrown \/ ThrownAgain \/ Unwound
  \/ \E s \in Sources : Walks(s)

-----------------------------------------------------------------------------
(* Properties *)

\* Every variable has its type, and a source that is asked is asked once: the
\* one whose item is being yielded has no call.
TypeOK ==
  /\ down \in Calls(Values)
  /\ pull \in [Sources -> Calls(Values)]
  /\ at \in {"new", "waiting", "walking", "yielding", "unwinding", "over"}
  /\ walk \subseteq Done
  /\ last \in Sources \cup {Nothing}
  /\ at = "yielding" <=> last # Nothing
  /\ at = "yielding" => pull[last] = Quiet
  /\ exit \in {"none", "error", "cancelled", "closed"}

\* Once the generator is over, none of its calls runs.
NobodyLeft == at = "over" => \A s \in Sources : ~Runs(pull[s])
=============================================================================
