------------------------------ MODULE EventLoop ------------------------------
(***************************************************************************)
(* The part of asyncio every component of aiolab runs on: one thread, a    *)
(* FIFO queue of scheduled tasks, and cancellation.  asyncio is not in     *)
(* this repository; it is modelled from how the code uses it.              *)
(*                                                                         *)
(* A task runs until it awaits a future that is not done.  Completing the  *)
(* future puts the task at the end of `ready`; cancelling the task cancels *)
(* that future, or, when the task is scheduled already, asks for the       *)
(* CancelledError to be thrown when its turn comes.  A turn is one action  *)
(* or, when a task goes on without suspending, several during which        *)
(* `running` keeps everyone else out.                                      *)
(*                                                                         *)
(* The application's own tasks are not modelled one by one: whatever they  *)
(* do to a component (a call, a cancellation, completing what a handler    *)
(* awaits) happens between two turns of the modelled tasks.                *)
(***************************************************************************)
EXTENDS Naturals, Sequences, SequencesExt, FiniteSetsExt

CONSTANT NoTask         \* the value of `running` between two turns

VARIABLES
  ready,       \* tasks scheduled to run, in the order they were scheduled
  running,     \* the task in the middle of a turn, or NoTask
  fut,         \* per task: state of the future it awaits, "none" without one
  mustCancel   \* tasks to be thrown CancelledError although not woken by it

loopVars == <<ready, running, fut, mustCancel>>

FutureState == {"none", "pending", "done", "cancelled"}

\* The variables are of their types for a set of tasks.
LoopTypeOK(tasks) ==
  /\ ready \in Seq(tasks)
  /\ running \in tasks \cup {NoTask}
  /\ fut \in [tasks -> FutureState]
  /\ mustCancel \subseteq tasks

LoopInit(tasks) ==
  /\ ready = <<>>
  /\ running = NoTask
  /\ fut = [t \in tasks |-> "none"]
  /\ mustCancel = {}

\* Between two turns: application code may act.
Idle == running = NoTask

\* It is t's turn: it is next in the queue, or in the middle of its turn.
Turn(t) ==
  \/ running = t
  \/ /\ Idle
     /\ ready # <<>>
     /\ Head(ready) = t

\* t's turn opens with a CancelledError instead of the awaited result.
Thrown(t) == t \in mustCancel \/ fut[t] = "cancelled"

\* The queue t leaves behind; a call from application code takes nothing.
Behind(t) ==
  IF Idle /\ ready # <<>> /\ Head(ready) = t THEN Tail(ready) ELSE ready

\* t's turn completes the futures of the tasks `woken`, in that order, and
\* schedules `callbacks` after them; `state` is what t itself awaits then.
Advance(t, state, woken, callbacks) ==
  /\ ready' = Behind(t) \o woken \o callbacks
  /\ fut' = [x \in DOMAIN fut |->
               IF x = t THEN state
               ELSE IF x \in ToSet(woken) THEN "done" ELSE fut[x]]
  /\ mustCancel' = mustCancel \ {t}

Suspends(t, woken) == Advance(t, "pending", woken, <<>>) /\ running' = NoTask
Continues(t, woken) == Advance(t, "none", woken, <<>>) /\ running' = t
Ends(t, woken, callbacks) ==
  Advance(t, "none", woken, callbacks) /\ running' = NoTask

\* asyncio.Queue keeps its waiters in a deque.  _wakeup_next pops waiters until
\* it finds one that is still waiting, and wakes that one: Woken is who, Popped
\* is what stays behind.
Waiting(waiters) == {k \in DOMAIN waiters : fut[waiters[k]] = "pending"}
Woken(waiters) ==
  IF Waiting(waiters) = {} THEN <<>> ELSE <<waiters[Min(Waiting(waiters))]>>
Popped(waiters) ==
  IF Waiting(waiters) = {} THEN <<>>
  ELSE SubSeq(waiters, Min(Waiting(waiters)) + 1, Len(waiters))

\* deque.remove, where somebody who is not there is no error.
Dropped(waiters, t) ==
  IF t \in ToSet(waiters)
  THEN RemoveAt(waiters, CHOOSE k \in DOMAIN waiters : waiters[k] = t)
  ELSE waiters

\* Application code completes the future t awaits.
Completes(t) ==
  /\ Idle
  /\ fut[t] = "pending"
  /\ ready' = Append(ready, t)
  /\ fut' = [fut EXCEPT ![t] = "done"]
  /\ UNCHANGED <<running, mustCancel>>

\* Task.cancel() from application code, on a task that has not finished.
Cancels(t) ==
  /\ Idle
  /\ IF fut[t] = "pending"
     THEN /\ fut' = [fut EXCEPT ![t] = "cancelled"]
          /\ ready' = Append(ready, t)
          /\ UNCHANGED <<running, mustCancel>>
     ELSE /\ mustCancel' = mustCancel \cup {t}
          /\ UNCHANGED <<ready, running, fut>>
=============================================================================
