----------------------------- MODULE Connections -----------------------------
(***************************************************************************)
(* Tasks that share a Once and a ResourcePool on one event loop: each sets *)
(* up through `await once.run(connect)` and, when that has returned,       *)
(* borrows connections again and again.                                    *)
(*                                                                         *)
(* The two do not know of each other.  What they share is the loop: its    *)
(* queue of scheduled tasks, and cancellations that reach a task in        *)
(* whichever of the two it waits.                                          *)
(***************************************************************************)
EXTENDS ResourcePool

CONSTANTS NoResult, FactorySuspends, FactoryOutcomes

VARIABLES locked, lockWaiters, done, result, calls, step, got

setupVars == <<locked, lockWaiters, done, result, calls, step, got>>
poolVars == <<free, getters, in_use, peak_in_use, pc, resource>>
allVars == <<loopVars, setupVars, poolVars>>

\* `step` is where each task is in run().
Setup == INSTANCE Once WITH pc <- step

ASSUME SetupAssumption == Setup!OnceAssumption

InitBoth == Init /\ Setup!Init

SetupTurn == Setup!LoopStep /\ UNCHANGED poolVars
PoolTurn == LoopStep /\ UNCHANGED setupVars

\* The application: calls, cancellations, and what the initializer awaits.
FactoryWakes(c) == Setup!FactoryWakes(c) /\ UNCHANGED poolVars
Borrows(c) == step[c] = "returned" /\ Acquire(c) /\ UNCHANGED setupVars
Calls(c) ==
  \/ Setup!Run(c) /\ UNCHANGED poolVars
  \/ Setup!Cancel(c) /\ UNCHANGED poolVars
  \/ Borrows(c)
  \/ Release(c) /\ UNCHANGED setupVars
  \/ Cancel(c) /\ UNCHANGED setupVars

NextBoth ==
  \/ SetupTurn
  \/ PoolTurn
  \/ \E c \in Clients : Calls(c) \/ FactoryWakes(c)

SpecBoth == InitBoth /\ [][NextBoth]_allVars

\* The loop keeps turning, and what an initializer awaits completes.
FairSpecBoth ==
  /\ SpecBoth
  /\ WF_allVars(SetupTurn \/ PoolTurn)
  /\ \A c \in Clients : WF_allVars(FactoryWakes(c))

-----------------------------------------------------------------------------
(* Properties *)

\* "Exactly once, however many callers arrive": no two initializers run at
\* once, none runs after one has succeeded, and every caller that returns has
\* what that one made.
OneResult == Setup!InitializesOnce /\ Setup!ReturnersAgree

\* "A task cancelled mid-use does not permanently shrink the pool": each
\* resource is in one place, and the counters agree.
NothingLostOrShared == NothingLost /\ CountersExact

\* No lost wakeup, in the lock of Once or in the queue of resources, with tasks
\* cancelled before and after they are woken, and turns of one in between those
\* of the other.
NobodyStranded == Setup!NobodyStranded /\ NoStrandedBorrower

\* A caller of run() gets an answer, whoever fails or is cancelled before it.
RunReturns == Setup!RunReturns
=============================================================================
