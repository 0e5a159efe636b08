------------------------------- MODULE Scopes -------------------------------
(***************************************************************************)
(* Nested scopes: a TaskRegistry owns background tasks, and one of them,   *)
(* Host, runs run_all, run_all_settled or first_result over children of    *)
(* its own.                                                                *)
(*                                                                         *)
(* Closing the registry cancels Host; what Host is doing then decides what *)
(* the cancellation does to the group, and the end of the group is the end *)
(* of Host.                                                                *)
(***************************************************************************)
EXTENDS TaskRegistry

CONSTANTS Host, Children, Nobody, Limit, Calls, SelfCancels

VARIABLES call, at, exit, mine, child, torn, pending, reported, winner, raised, wanted

G == INSTANCE TaskGroup WITH
       op <- call, pc <- at, asked <- torn, thrown <- raised, Operations <- Calls

\* Host makes a call that owns what it starts.
ASSUME ScopesAssumption ==
  /\ Host \in Tasks
  /\ G!GroupAssumption
  /\ Calls \cap (G!Single \cup G!Borrowing) = {}

groupVars == <<call, at, exit, mine, child, torn, pending, reported, winner, raised, wanted>>
allVars == <<vars, groupVars>>

InitBoth == Init /\ G!Init

-----------------------------------------------------------------------------
(* Steps *)

\* A step of the registry.  When it calls cancel() on Host, the group's caller
\* is cancelled in the same step; a second cancel() adds nothing to the first.
Cancels(k) == k \in asked' \ asked
Passes == Cancels(Host) /\ at \in {"waiting", "unwinding"} /\ ~wanted
RegistryStep(step) ==
  /\ step
  /\ \/ Passes /\ G!Cancel
     \/ ~Passes /\ UNCHANGED groupVars

\* Host calls one of the three; it gets no further when it is cancelled first.
HostBegins(what) ==
  /\ task[Host] = "running"
  /\ Host \notin asked
  /\ G!Begin(what)
  /\ UNCHANGED vars

\* Host ends before it makes its call, or as its call does.
Outcome == [returned |-> "ok", failed |-> "error", cancelled |-> "cancelled"]

HostEnds ==
  /\ TaskEnds(Host)
  /\ \/ at = "idle"
     \/ at = "ended" /\ task'[Host] = Outcome[exit]
  /\ UNCHANGED groupVars

OtherEnds(k) == k # Host /\ TaskEnds(k) /\ UNCHANGED groupVars

GroupTurn == G!CallerStep /\ UNCHANGED vars
ChildStarts(k) == G!ChildStarts(k) /\ UNCHANGED vars
ChildEnds(k) == G!ChildEnds(k) /\ UNCHANGED vars

\* Somebody who holds the task that spawn returned cancels it.
HostCancelled == G!Cancel /\ UNCHANGED vars

NextBoth ==
  \/ RegistryStep(LoopStep)
  \/ \E k \in Tasks : RegistryStep(Spawn(k)) \/ OtherEnds(k)
  \/ \E c \in Closers : RegistryStep(Aclose(c)) \/ RegistryStep(Cancel(c))
  \/ \E c \in Closers, what \in Operations : RegistryStep(Drain(c, what))
  \/ \E what \in Calls : HostBegins(what)
  \/ GroupTurn \/ HostCancelled \/ HostEnds
  \/ \E k \in Children : ChildStarts(k) \/ ChildEnds(k)

SpecBoth == InitBoth /\ [][NextBoth]_allVars

-----------------------------------------------------------------------------
(* Properties *)

\* "CancelledError is re-raised everywhere": a caller that was cancelled does
\* not end in another way.
CancelReachesCaller == G!CancelReachesCaller

\* aclose does not hang: whatever it still waits for has been cancelled, and so
\* has, or is over, the group whose caller it waits for.
ClosingReachesAll ==
  \A c \in Closers : pc[c] = "unwinding" =>
    /\ awaiting[c] \cap Running \subseteq asked
    /\ Host \in awaiting[c] \cap Running /\ at = "waiting" => raised

\* Scopes nest: once aclose or __aexit__ has returned, with other closers and
\* spawns racing it, no task of the registry runs, and no child of a group that
\* one of them ran, then or later.
NothingLeftRunning ==
  /\ NothingOutlives
  /\ \A c \in Closers :
       op[c] \in {"aclose", "exit"} /\ pc[c] = "returned" =>
         at \in {"idle", "ended"} /\ G!In({"running"}) = {}
=============================================================================
