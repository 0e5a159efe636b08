------------------------------ MODULE TaskGroup ------------------------------
(***************************************************************************)
(* Calls that own the work they start, and calls that only wait for it:    *)
(* run_all, run_all_settled and first_result of aiolab.tasks, with the     *)
(* cancel_and_wait they tear their children down with; as_completed_results, *)
(* gather_with_index, wait_any and shielded of aiolab.futures;             *)
(* with_timeout of aiolab.retry.                                           *)
(*                                                                         *)
(* One caller makes one of these calls.  A child is any coroutine, or a    *)
(* future given to wait_any: it may return, raise, ignore a cancellation   *)
(* or take its time to unwind.  The caller's turn comes any time after     *)
(* what it waits for has happened, so that more children may end between.  *)
(***************************************************************************)
EXTENDS Naturals, FiniteSets

CONSTANTS
  Children,     \* the factories, or futures
  Nobody,
  Limit,        \* limit of run_all; as many as there are children for none
  Operations,   \* what the caller calls
  SelfCancels   \* whether a child may end cancelled when nobody asked it to

Gathering == {"run_all_settled", "gather_with_index"}
Listing == {"first_result", "as_completed_results"}
Single == {"with_timeout", "shielded"}     \* of one child
Borrowing == {"wait_any", "shielded"}      \* what they wait for is another's

ASSUME GroupAssumption ==
  /\ IsFiniteSet(Children)
  /\ Children # {}
  /\ Nobody \notin Children
  /\ Limit \in Nat \ {0}
  /\ Operations \subseteq {"run_all"} \cup Gathering \cup Listing \cup Single \cup Borrowing
  /\ SelfCancels \in BOOLEAN

VARIABLES
  op,         \* what the caller called
  pc,         \* the caller: idle, waiting, unwinding (in cancel_and_wait), ended
  exit,       \* how it ends: "returned", "failed" (with an exception), "cancelled"
  mine,       \* the children of its call
  child,      \* per child: where it is
  asked,      \* children on which cancel() was called before they were done
  pending,    \* `pending` of first_result and as_completed_results
  reported,   \* children whose exceptions are collected, or that are in `out`
  winner,     \* the child whose result first_result returns, or wait_any's
  thrown,     \* the caller's next turn opens with CancelledError
  wanted      \* history: somebody called cancel() on the caller

callerVars == <<op, pc, exit, mine, pending, reported, winner>>
cancelVars == <<thrown, wanted>>
vars == <<callerVars, cancelVars, child, asked>>

Init ==
  /\ op = "none"
  /\ pc = "idle"
  /\ exit = "none"
  /\ child = [k \in Children |-> "ready"]
  /\ asked = {}
  /\ mine = {}
  /\ pending = {}
  /\ reported = {}
  /\ winner = Nobody
  /\ thrown = FALSE
  /\ wanted = FALSE

In(states) == {k \in mine : child[k] \in states}
Done == In({"ok", "error", "cancelled"})
AllDone == Done = mine

-----------------------------------------------------------------------------
(* The children *)

Begin(what) ==
  /\ pc = "idle"
  /\ op' = what
  /\ pc' = "waiting"
  /\ IF what \in Single THEN \E k \in Children : mine' = {k} ELSE mine' = Children
  /\ pending' = mine'
  /\ UNCHANGED <<exit, reported, winner, cancelVars, child, asked>>

\* A child takes its first step, under run_all's semaphore when it has one.
Permitted == op = "run_all" => Cardinality(In({"running"})) < Limit

ChildStarts(k) ==
  /\ k \in mine \ asked
  /\ child[k] = "ready"
  /\ Permitted
  /\ child' = [child EXCEPT ![k] = "running"]
  /\ UNCHANGED <<callerVars, cancelVars, asked>>

ChildEnds(k) ==
  /\ \/ /\ child[k] = "running"
        /\ \E how \in {"ok", "error", "cancelled"} :
             /\ how = "cancelled" => k \in asked \/ SelfCancels
             /\ child' = [child EXCEPT ![k] = how]
     \/ /\ child[k] = "ready"
        /\ k \in mine \cap asked
        /\ child' = [child EXCEPT ![k] = "cancelled"]
  /\ UNCHANGED <<callerVars, cancelVars, asked>>

-----------------------------------------------------------------------------
(* The caller *)

Ends(how) == pc' = "ended" /\ exit' = how

\* Mutant: cancel() is called and nobody waits.
CancelAndLeave(tasks, how) ==
  /\ asked' = asked \cup (tasks \ Done)
  /\ exit' = how
  /\ pc' = "ended"

\* cancel_and_wait(tasks), and the way out after it.
CancelAndWait(tasks, how) ==
  /\ asked' = asked \cup (tasks \ Done)
  /\ exit' = how
  /\ pc' = IF tasks \subseteq Done THEN "ended" ELSE "unwinding"

\* Mutant: the failures are collected after the teardown.
UnwoundBlames ==
  /\ pc = "unwinding"
  /\ AllDone
  /\ pc' = "ended"
  /\ reported' = IF exit = "failed" THEN In({"error"}) ELSE reported
  /\ UNCHANGED <<op, exit, mine, pending, winner, cancelVars, child, asked>>

\* It absorbs every cancellation and every failure of what it awaits, and so
\* does the gather in which as_completed_results waits.
Unwound ==
  /\ op # "with_timeout"
  /\ pc = "unwinding"
  /\ AllDone
  /\ pc' = "ended"
  /\ UNCHANGED <<op, exit, mine, pending, reported, winner, cancelVars, child, asked>>

\* run_all, after asyncio.wait(FIRST_EXCEPTION).
FirstExceptionMissed == AllDone                 \* mutant: ALL_COMPLETED
FirstException == AllDone \/ In({"error"}) # {}

Collects ==
  /\ op = "run_all"
  /\ pc = "waiting"
  /\ ~thrown
  /\ FirstException
  /\ reported' = In({"error"})
  /\ IF reported' # {}
     THEN CancelAndWait(mine, "failed")
     ELSE /\ Ends(IF In({"cancelled"}) = {} THEN "returned" ELSE "cancelled")
          /\ UNCHANGED asked
  /\ UNCHANGED <<op, mine, pending, winner, cancelVars, child>>

\* After gather: run_all_settled reports every outcome, gather_with_index all
\* the failures.
Settles ==
  /\ op \in Gathering
  /\ pc = "waiting"
  /\ ~thrown
  /\ AllDone
  /\ \/ /\ op = "run_all_settled"
        /\ Ends("returned")
        /\ UNCHANGED reported
     \/ /\ op = "gather_with_index"
        /\ reported' = In({"error"})
        /\ Ends(CASE reported' # {} -> "failed"
                  [] In({"cancelled"}) # {} -> "cancelled"
                  [] OTHER -> "returned")
  /\ UNCHANGED <<op, mine, pending, winner, cancelVars, child, asked>>

\* first_result, as_completed_results and wait_any, after
\* asyncio.wait(FIRST_COMPLETED): `done` is a set, walked in no particular order
\* up to the first result or CancelledError.
NewlyDone == pending \cap Done
Lands(what) == op = what /\ pc = "waiting" /\ ~thrown /\ NewlyDone # {}

Wins(k) ==
  /\ Lands("first_result")
  /\ k \in NewlyDone
  /\ child[k] = "ok"
  /\ winner' = k
  /\ pending' = pending \ Done
  /\ CancelAndWait(pending \ Done, "returned")
  /\ UNCHANGED <<op, mine, reported, cancelVars, child>>

RacesOn ==
  /\ Lands("first_result")
  /\ NewlyDone \subseteq In({"error"})
  /\ reported' = reported \cup NewlyDone
  /\ pending' = pending \ Done
  /\ IF pending \subseteq Done THEN Ends("failed") ELSE UNCHANGED <<pc, exit>>
  /\ UNCHANGED <<op, mine, winner, cancelVars, child, asked>>

Lists ==
  /\ Lands("as_completed_results")
  /\ NewlyDone \cap In({"cancelled"}) = {}
  /\ reported' = reported \cup NewlyDone
  /\ pending' = pending \ Done
  /\ IF pending \subseteq Done THEN Ends("returned") ELSE UNCHANGED <<pc, exit>>
  /\ UNCHANGED <<op, mine, winner, cancelVars, child, asked>>

\* task.exception() of a cancelled task raises CancelledError.
Aborts(k) ==
  /\ \E what \in Listing : Lands(what)
  /\ k \in NewlyDone
  /\ child[k] = "cancelled"
  /\ pending' = pending \ Done
  /\ CancelAndWait(mine, "cancelled")
  /\ UNCHANGED <<op, mine, reported, winner, cancelVars, child>>

Settled(k) ==
  /\ Lands("wait_any")
  /\ k \in NewlyDone
  /\ winner' = k
  /\ Ends("returned")
  /\ UNCHANGED <<op, mine, pending, reported, cancelVars, child, asked>>

-----------------------------------------------------------------------------
(* wait_for, and the timeout of asyncio.wait *)

AsChildDid == [ok |-> "returned", error |-> "failed", cancelled |-> "cancelled"]

\* wait_for ends as its child has.
Follows(k) ==
  /\ op \in Single
  /\ pc = "waiting"
  /\ ~thrown
  /\ k \in Done
  /\ Ends(AsChildDid[child[k]])
  /\ UNCHANGED <<op, mine, pending, reported, winner, cancelVars, child, asked>>

\* The timeout: wait_any raises and shielded returns None, and what they waited
\* for runs on; with_timeout cancels its child and waits for it.
Expires ==
  /\ op \in Single \cup Borrowing
  /\ pc = "waiting"
  /\ ~thrown
  /\ Done = {}
  /\ \/ op = "wait_any" /\ Ends("failed") /\ UNCHANGED asked
     \/ op = "shielded" /\ Ends("returned") /\ UNCHANGED asked
     \/ op = "with_timeout" /\ CancelAndWait(mine, "returned")
  /\ UNCHANGED <<op, mine, pending, reported, winner, cancelVars, child>>

\* with_timeout's child has unwound: its result or failure wins over the default
\* and, in the wait_for of Python 3.12, may win over a cancellation, too.
Unwinds(k) ==
  /\ op = "with_timeout"
  /\ pc = "unwinding"
  /\ k \in Done
  /\ pc' = "ended"
  /\ \/ exit' = IF child[k] = "cancelled" THEN exit ELSE AsChildDid[child[k]]
     \/ wanted /\ exit' = "cancelled"
  /\ UNCHANGED <<op, mine, pending, reported, winner, cancelVars, child, asked>>

-----------------------------------------------------------------------------
(* Cancellation *)

\* The application cancels the caller.  gather passes it on to the children
\* and reports it when they are done; in cancel_and_wait it is absorbed.
Cancel ==
  /\ pc \in {"waiting", "unwinding"}
  /\ ~wanted
  /\ wanted' = TRUE
  /\ thrown' = (pc = "waiting")
  /\ asked' = IF pc = "waiting" /\ op \in Gathering THEN asked \cup (mine \ Done) ELSE asked
  /\ UNCHANGED <<callerVars, child>>

CallerCancelled ==
  /\ pc = "waiting"
  /\ thrown
  /\ op \in Gathering => AllDone
  /\ IF op \in Borrowing
     THEN Ends("cancelled") /\ UNCHANGED asked
     ELSE CancelAndWait(mine, "cancelled")
  /\ UNCHANGED <<op, mine, pending, reported, winner, cancelVars, child>>

\* wait_for returns what is there already; before Python 3.12 it raises at once
\* when it is cancelled while it waits for a child that has timed out.
CancelledInWaitFor ==
  /\ op \in Single
  /\ \/ pc = "waiting" /\ thrown /\ \E k \in Done : Ends(AsChildDid[child[k]])
     \/ pc = "unwinding" /\ exit = "returned" /\ wanted /\ Ends("cancelled")
  /\ UNCHANGED <<op, mine, pending, reported, winner, cancelVars, child, asked>>

CallerStep ==
  \/ Unwound \/ Collects \/ Settles \/ RacesOn \/ Lists \/ Expires
  \/ CallerCancelled \/ CancelledInWaitFor
  \/ \E k \in mine : Wins(k) \/ Aborts(k) \/ Settled(k) \/ Follows(k) \/ Unwinds(k)

Next ==
  \/ CallerStep
  \/ Cancel
  \/ \E what \in Operations : Begin(what)
  \/ \E k \in Children : ChildStarts(k) \/ ChildEnds(k)

Spec == Init /\ [][Next]_vars

\* The caller gets its turns, and what is cancelled ends; what nobody cancels may
\* run for ever.
FairSpec ==
  /\ Spec
  /\ WF_vars(CallerStep)
  /\ \A k \in Children : WF_vars(k \in asked /\ ChildEnds(k))

-----------------------------------------------------------------------------
(* Properties *)

\* Every variable has its type.
TypeOK ==
  /\ op \in {"none"} \cup Operations
  /\ pc \in {"idle", "waiting", "unwinding", "ended"}
  /\ exit \in {"none", "returned", "failed", "cancelled"}
  /\ mine \subseteq Children
  /\ child \in [Children -> {"ready", "running", "ok", "error", "cancelled"}]
  /\ asked \subseteq mine
  /\ pending \subseteq mine
  /\ reported \subseteq mine
  /\ winner \in mine \cup {Nobody}
  /\ thrown \in BOOLEAN
  /\ wanted \in BOOLEAN

\* "Ownership decides who cancels."  No child outlives the call that created it,
\* however that ends and whenever its caller is cancelled, during the teardown
\* included; with_timeout promises as much unless it is cancelled there.  A call
\* that only waits cancels nothing.
OwnershipDecides ==
  /\ pc = "ended" /\ op \notin Borrowing =>
       AllDone \/ (op = "with_timeout" /\ exit = "cancelled" /\ ~thrown)
  /\ op \in Borrowing => asked = {}

\* A child that fails because it was torn down is not blamed: ConcurrencyError
\* carries only, and at least one, failure from before the teardown.
BlamesTheCause ==
  op \in {"run_all", "first_result", "gather_with_index"} =>
    /\ reported \subseteq In({"error"}) \ asked
    /\ exit = "failed" => reported # {}

\* first_result returns the result of a child that was not being cancelled; a
\* race is lost only when every candidate has failed; as_completed_results
\* returns with the outcome of every child.
RaceIsFair ==
  /\ op = "first_result" =>
       /\ exit = "returned" => winner # Nobody /\ child[winner] = "ok" /\ winner \notin asked
       /\ exit = "failed" => reported = mine
  /\ op = "as_completed_results" /\ exit = "returned" => reported = mine

\* "Cancellation is not failure": a cancellation that reaches the caller while
\* it waits ends it with CancelledError, whatever its children did meanwhile;
\* only wait_for may have a result that is ready win.
CancelPropagates ==
  thrown /\ pc \in {"unwinding", "ended"} /\ op \notin Single => exit = "cancelled"

\* The group ends as it should.
EndsHonestly == BlamesTheCause /\ RaceIsFair /\ CancelPropagates

\* "CancelledError is re-raised everywhere": a caller that was cancelled does
\* not end in another way.
CancelReachesCaller == pc = "ended" /\ wanted => exit = "cancelled"

\* run_all does not wait for a child that hangs when another has failed, nor
\* first_result when another has succeeded; a timeout ends what has one.
GroupEnds ==
  /\ (op = "run_all" /\ In({"error"}) # {}) ~> (pc = "ended")
  /\ (op = "first_result" /\ In({"ok"}) # {}) ~> (pc = "ended")
  /\ (op \in Single \cup Borrowing) ~> (pc = "ended")
=============================================================================
