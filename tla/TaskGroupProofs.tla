--------------------------- MODULE TaskGroupProofs ---------------------------
(***************************************************************************)
(* Whoever creates children sees to their end and blames the ones that     *)
(* failed first; whoever only waits cancels nothing: for every finite set  *)
(* of children, every limit, and every choice of calls.                    *)
(***************************************************************************)
EXTENDS TaskGroup, TLAPS

\* Cancellation has been asked of nobody while the caller waits undisturbed, and
\* CancelledError is thrown into a caller only when somebody wanted that.
AskedLate ==
  /\ pc = "waiting" /\ ~thrown => asked = {}
  /\ thrown => wanted
  /\ pc = "idle" => mine = {} /\ asked = {} /\ reported = {} /\ winner = Nobody /\ ~thrown

\* The exit is set when the caller stops waiting; with_timeout tears its child
\* down for a timeout only when it was not thrown out before.
ExitSet ==
  /\ exit = "none" <=> pc \in {"idle", "waiting"}
  /\ pc = "unwinding" => op \notin Borrowing
  /\ pc = "unwinding" /\ op = "with_timeout" /\ exit # "cancelled" => ~thrown
  /\ op \in Single => \E k \in Children : mine = {k}

\* Calls that walk `done` have accounted for what is not pending any more.
Accounted ==
  op \in Listing =>
    /\ mine \ pending \subseteq Done
    /\ pc = "waiting" => reported = mine \ pending

IInv == TypeOK /\ AskedLate /\ ExitSet /\ Accounted /\ OwnershipDecides /\ EndsHonestly

USE GroupAssumption DEF callerVars, cancelVars, Gathering, Listing, Single, Borrowing
USE DEF IInv, TypeOK, AskedLate, ExitSet, Accounted, OwnershipDecides, EndsHonestly,
        BlamesTheCause, RaceIsFair, CancelPropagates, In, Done, AllDone

-----------------------------------------------------------------------------
(* The children, and the call *)

\* Nothing has happened before there is a call.
LEMMA InitHolds == Init => IInv
  BY DEF Init

\* The call is made: nobody has been asked to end.
LEMMA BeginKeeps ==
  ASSUME IInv, NEW what \in Operations, Begin(what)
  PROVE  IInv'
  BY DEF Begin

\* A child that is cancelled before its first step never takes it.
LEMMA ChildStartsKeeps ==
  ASSUME IInv, NEW k \in Children, ChildStarts(k)
  PROVE  IInv'
  BY DEF ChildStarts

\* A child that has ended stays as it is, so that what was collected stays true.
LEMMA ChildEndsKeeps ==
  ASSUME IInv, NEW k \in Children, ChildEnds(k)
  PROVE  IInv'
  BY DEF ChildEnds

-----------------------------------------------------------------------------
(* The ways out of what owns its children *)

\* The teardown is over only when every child has ended.
LEMMA UnwoundKeeps ==
  ASSUME IInv, Unwound
  PROVE  IInv'
  BY DEF Unwound

\* Failures are collected before the teardown, when nobody has been asked to end.
LEMMA CollectsKeeps ==
  ASSUME IInv, Collects
  PROVE  IInv'
  BY DEF Collects, FirstException, Ends, CancelAndWait

\* gather has waited for all of them.
LEMMA SettlesKeeps ==
  ASSUME IInv, Settles
  PROVE  IInv'
  BY DEF Settles, Ends

\* What is not pending has ended, so that cancelling what is pending is enough.
LEMMA WinsKeeps ==
  ASSUME IInv, NEW k \in mine, Wins(k)
  PROVE  IInv'
  BY DEF Wins, Lands, NewlyDone, CancelAndWait

\* A race that is lost has nothing pending: every child has failed.
LEMMA RacesOnKeeps ==
  ASSUME IInv, RacesOn
  PROVE  IInv'
  BY DEF RacesOn, Lands, NewlyDone, Ends

\* A list is returned when nothing is pending.
LEMMA ListsKeeps ==
  ASSUME IInv, Lists
  PROVE  IInv'
  BY DEF Lists, Lands, NewlyDone, Ends

\* A child that ended cancelled is neither blamed nor reported.
LEMMA AbortsKeeps ==
  ASSUME IInv, NEW k \in mine, Aborts(k)
  PROVE  IInv'
  BY DEF Aborts, Lands, NewlyDone, CancelAndWait

-----------------------------------------------------------------------------
(* wait_for, and the timeout of asyncio.wait *)

\* wait_any leaves the rest alone.
LEMMA SettledKeeps ==
  ASSUME IInv, NEW k \in mine, Settled(k)
  PROVE  IInv'
  BY DEF Settled, Lands, NewlyDone, Ends

\* The one child has ended.
LEMMA FollowsKeeps ==
  ASSUME IInv, NEW k \in mine, Follows(k)
  PROVE  IInv'
  BY DEF Follows, Ends, AsChildDid

\* A timeout cancels only the child of with_timeout, and waits for it.
LEMMA ExpiresKeeps ==
  ASSUME IInv, Expires
  PROVE  IInv'
  BY DEF Expires, Ends, CancelAndWait

\* Its teardown is over when it has ended.
LEMMA UnwindsKeeps ==
  ASSUME IInv, NEW k \in mine, Unwinds(k)
  PROVE  IInv'
  BY DEF Unwinds, AsChildDid

-----------------------------------------------------------------------------
(* Cancellation *)

\* Only gather passes a cancellation on at once; nobody has failed by then.
LEMMA CancelKeeps ==
  ASSUME IInv, Cancel
  PROVE  IInv'
  <1>1. CASE pc = "waiting"
    BY <1>1 DEF Cancel
  <1>2. CASE pc = "unwinding"
    BY <1>2 DEF Cancel
  <1> QED
    BY <1>1, <1>2 DEF Cancel

\* Thrown out of its wait, the caller cancels what it owns and ends cancelled.
LEMMA CallerCancelledKeeps ==
  ASSUME IInv, CallerCancelled
  PROVE  IInv'
  BY DEF CallerCancelled, Ends, CancelAndWait

\* Only here may a child be left running: a second cancellation, in the teardown.
LEMMA CancelledInWaitForKeeps ==
  ASSUME IInv, CancelledInWaitFor
  PROVE  IInv'
  BY DEF CancelledInWaitFor, Ends, AsChildDid

-----------------------------------------------------------------------------
(* Every step keeps the invariant *)

LEMMA CallerKeeps ==
  ASSUME IInv, CallerStep
  PROVE  IInv'
  <1>1. CASE Unwound
    BY <1>1, UnwoundKeeps
  <1>2. CASE Collects
    BY <1>2, CollectsKeeps
  <1>3. CASE Settles
    BY <1>3, SettlesKeeps
  <1>4. CASE RacesOn
    BY <1>4, RacesOnKeeps
  <1>5. CASE Lists
    BY <1>5, ListsKeeps
  <1>6. CASE Expires
    BY <1>6, ExpiresKeeps
  <1>7. CASE CallerCancelled
    BY <1>7, CallerCancelledKeeps
  <1>8. CASE CancelledInWaitFor
    BY <1>8, CancelledInWaitForKeeps
  <1>9. ASSUME NEW k \in mine, Wins(k) \/ Aborts(k) \/ Settled(k) \/ Follows(k) \/ Unwinds(k)
        PROVE  IInv'
    BY <1>9, WinsKeeps, AbortsKeeps, SettledKeeps, FollowsKeeps, UnwindsKeeps
  <1> QED
    BY <1>1, <1>2, <1>3, <1>4, <1>5, <1>6, <1>7, <1>8, <1>9 DEF CallerStep

LEMMA StepKeeps == IInv /\ [Next]_vars => IInv'
  <1> SUFFICES ASSUME IInv, [Next]_vars PROVE IInv'
    OBVIOUS
  <1>1. CASE CallerStep
    BY <1>1, CallerKeeps
  <1>2. CASE Cancel
    BY <1>2, CancelKeeps
  <1>3. ASSUME NEW what \in Operations, Begin(what) PROVE IInv'
    BY <1>3, BeginKeeps
  <1>4. ASSUME NEW k \in Children, ChildStarts(k) \/ ChildEnds(k) PROVE IInv'
    BY <1>4, ChildStartsKeeps, ChildEndsKeeps
  <1>5. CASE UNCHANGED vars
    BY <1>5 DEF vars
  <1> QED
    BY <1>1, <1>2, <1>3, <1>4, <1>5 DEF Next

HIDE DEF IInv, TypeOK, AskedLate, ExitSet, Accounted, OwnershipDecides, EndsHonestly,
         BlamesTheCause, RaceIsFair, CancelPropagates, In, Done, AllDone

LEMMA Always == Spec => []IInv
  <1>1. Init => IInv
    BY InitHolds
  <1>2. IInv /\ [Next]_vars => IInv'
    BY StepKeeps
  <1> QED
    BY <1>1, <1>2, PTL DEF Spec

-----------------------------------------------------------------------------
(* The results *)

\* Every variable keeps its type.
THEOREM TypeCorrect == Spec => []TypeOK
  <1>1. IInv => TypeOK
    BY DEF IInv
  <1> QED
    BY <1>1, Always, PTL

\* No child outlives the call that created it, and a call that only waits
\* cancels nothing, whatever the children do and whenever the caller is cancelled.
THEOREM Ownership == Spec => []OwnershipDecides
  <1>1. IInv => OwnershipDecides
    BY DEF IInv
  <1> QED
    BY <1>1, Always, PTL

\* The cause is blamed, the race is fair, and a cancellation that finds the
\* caller waiting is what it ends with.
THEOREM Honesty == Spec => []EndsHonestly
  <1>1. IInv => EndsHonestly
    BY DEF IInv
  <1> QED
    BY <1>1, Always, PTL
=============================================================================
