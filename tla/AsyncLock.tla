------------------------------ MODULE AsyncLock ------------------------------
(***************************************************************************)
(* asyncio.Lock, which Once and TokenBucket take around an await.  It is   *)
(* not in this repository; it is modelled from how the code uses it.       *)
(*                                                                         *)
(* A release frees the lock and wakes the oldest waiter, who takes it when *)
(* its turn comes and stays in the deque until then.  A newcomer takes a   *)
(* free lock only when everybody in the deque has been cancelled.          *)
(***************************************************************************)
EXTENDS EventLoop

VARIABLES
  locked,       \* Lock._locked
  lockWaiters   \* Lock._waiters

lockVars == <<locked, lockWaiters>>

LockInit == locked = FALSE /\ lockWaiters = <<>>

\* acquire() returns at once.
MayBargeWhenFree == ~locked              \* mutant: a woken waiter is overtaken
MayBarge ==
  /\ ~locked
  /\ \A k \in DOMAIN lockWaiters : fut[lockWaiters[k]] = "cancelled"

\* acquire() suspends.
Queues(t) ==
  /\ lockWaiters' = Append(lockWaiters, t)
  /\ Suspends(t, <<>>)
  /\ UNCHANGED locked

\* _wake_up_first: nothing happens when the first has been woken or cancelled.
FirstOf(waiters) ==
  IF waiters # <<>> /\ fut[Head(waiters)] = "pending" THEN <<Head(waiters)>> ELSE <<>>

\* release() at the end of t's stay, t being in the deque when it was woken
\* and leaves at once.
ReleaseWakesNobody(t) ==                 \* mutant
  /\ locked' = FALSE
  /\ lockWaiters' = Dropped(lockWaiters, t)
  /\ Ends(t, <<>>, <<>>)
Release(t) ==
  /\ locked' = FALSE
  /\ lockWaiters' = Dropped(lockWaiters, t)
  /\ Ends(t, FirstOf(Dropped(lockWaiters, t)), <<>>)

\* CancelledError out of acquire(): a wakeup it has received is passed on.
WaiterLeaves(t) ==
  /\ lockWaiters' = Dropped(lockWaiters, t)
  /\ Ends(t, IF locked THEN <<>> ELSE FirstOf(Dropped(lockWaiters, t)), <<>>)
  /\ UNCHANGED locked

\* No lost wakeup: somebody in the deque of a free lock is on its way.
LockNotStranded ==
  ~locked /\ lockWaiters # <<>> => \E k \in DOMAIN lockWaiters : fut[lockWaiters[k]] # "pending"
=============================================================================
