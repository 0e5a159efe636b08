------------------------------ MODULE WorkerPool ------------------------------
(***************************************************************************)
(* aiolab.queues.WorkerPool: workers draining a bounded asyncio.Queue,     *)
(* with submit, try_submit, join and aclose called by application tasks.   *)
(*                                                                         *)
(* An item stands for the submit (or try_submit) call that carries it, so  *)
(* Items are tasks as well.  Callers are the tasks in join or aclose.  The *)
(* workers are numbered in the order start() creates them.                 *)
(***************************************************************************)
EXTENDS EventLoop, FiniteSets

CONSTANTS
  Items,            \* one submit or try_submit call each
  Callers,          \* one join or aclose call each
  NoItem,
  PoolSize,         \* workers=
  MaxSize,          \* maxsize=
  MaxStarts,        \* bound: how many times start() succeeds
  Operations,       \* what Callers call: "join", "drain", "abort"
  HandlerSuspends,  \* whether a handler awaits something: subset of BOOLEAN
  HandlerOutcomes,  \* how it ends: "ok", "error", "cancelled"
  OnResultRaises,   \* whether on_result raises: subset of BOOLEAN
  Cancellable       \* the calls the application may cancel

Workers == 1 .. (PoolSize * MaxStarts)
Tasks == Items \cup Callers \cup Workers

ASSUME PoolAssumption ==
  /\ PoolSize \in Nat \ {0}           \* otherwise __init__ raises
  /\ MaxSize \in Nat \ {0}
  /\ MaxStarts \in Nat
  /\ IsFiniteSet(Items) /\ IsFiniteSet(Callers)
  /\ NoItem \notin Items
  /\ NoTask \notin Tasks
  /\ Items \cap Callers = {}
  /\ Items \cap Workers = {}
  /\ Callers \cap Workers = {}

ASSUME OptionAssumption ==
  /\ Operations \subseteq {"join", "drain", "abort"}
  /\ HandlerSuspends \subseteq BOOLEAN
  /\ HandlerOutcomes \subseteq {"ok", "error", "cancelled"}
  /\ OnResultRaises \subseteq BOOLEAN
  /\ Cancellable \subseteq Items \cup Callers

VARIABLES
  items,        \* Queue._queue
  getters,      \* workers waiting in Queue.get
  putters,      \* submit calls waiting in Queue.put
  unfinished,   \* Queue._unfinished_tasks
  joinWaiters,  \* Callers waiting for Queue._finished
  closed,       \* _closed
  workers,      \* _workers
  spawned,      \* how many workers were ever created
  rivals,       \* history: per worker, the acloses still gathering when it started
  kids,         \* per caller: the workers its gather awaits
  op,           \* per caller: what it called
  pc,           \* per task: where it is
  holding,      \* per worker: the item it took and has not marked done
  stats,        \* PoolStats
  fate,         \* history: what became of each item
  owed          \* history: per caller, the items queued or held at its call

queueVars == <<items, getters, putters, unfinished, joinWaiters>>
groupVars == <<closed, workers, spawned, rivals>>
callVars == <<kids, op, owed>>
workVars == <<holding, stats, fate>>
vars == <<loopVars, queueVars, groupVars, callVars, workVars, pc>>

Init ==
  /\ LoopInit(Tasks)
  /\ items = <<>>
  /\ getters = <<>>
  /\ putters = <<>>
  /\ unfinished = 0
  /\ joinWaiters = <<>>
  /\ closed = FALSE
  /\ workers = {}
  /\ spawned = 0
  /\ rivals = [w \in Workers |-> {}]
  /\ kids = [c \in Callers |-> {}]
  /\ op = [c \in Callers |-> "none"]
  /\ pc = [t \in Tasks |-> IF t \in Items THEN "new"
                           ELSE IF t \in Callers THEN "idle" ELSE "unborn"]
  /\ holding = [w \in Workers |-> NoItem]
  /\ stats = [submitted |-> 0, completed |-> 0, failed |-> 0, rejected |-> 0]
  /\ fate = [i \in Items |-> "none"]
  /\ owed = [c \in Callers |-> {}]

-----------------------------------------------------------------------------
(* asyncio.Queue *)

Full == Len(items) >= MaxSize

EnqueueTwice(i) ==                        \* mutant
  /\ items' = items \o <<i, i>>
  /\ unfinished' = unfinished + 1
  /\ getters' = Popped(getters)
  /\ fate' = [fate EXCEPT ![i] = "queued"]

\* put_nowait, reached with room in the queue; wakes Woken(getters).
Enqueue(i) ==
  /\ items' = Append(items, i)
  /\ unfinished' = unfinished + 1
  /\ getters' = Popped(getters)
  /\ fate' = [fate EXCEPT ![i] = "queued"]

\* task_done; the last one sets _finished, which wakes DoneWakes.
LastDoneEarly == unfinished \in {1, 2}    \* mutant: _finished is set too early
LastDone == unfinished = 1
DoneWakes == IF LastDone THEN joinWaiters ELSE <<>>
TaskDone(w) ==
  /\ unfinished' = unfinished - 1
  /\ joinWaiters' = IF LastDone THEN <<>> ELSE joinWaiters
  /\ holding' = [holding EXCEPT ![w] = NoItem]

-----------------------------------------------------------------------------
(* start *)

NotStarted == workers = {}

\* The acloses that are about to set _workers to [].
Gatherers == {c \in Callers : pc[c] \in {"gathering", "gathered"}}

Start ==
  LET born == (spawned + 1) .. (spawned + PoolSize)
  IN /\ Idle
     /\ NotStarted
     /\ spawned + PoolSize \in Workers
     /\ workers' = born
     /\ spawned' = spawned + PoolSize
     /\ rivals' = [w \in Workers |-> IF w \in born THEN Gatherers ELSE rivals[w]]
     /\ pc' = [t \in Tasks |-> IF t \in born THEN "get" ELSE pc[t]]
     /\ ready' = ready \o [k \in 1 .. PoolSize |-> spawned + k]
     /\ UNCHANGED <<running, fut, mustCancel, queueVars, closed, callVars, workVars>>

-----------------------------------------------------------------------------
(* submit and try_submit *)

AcceptingAlways == TRUE                   \* mutant
Accepting == ~closed

Refuse(i) ==
  /\ Idle
  /\ pc[i] = "new"
  /\ ~Accepting
  /\ pc' = [pc EXCEPT ![i] = "refused"]
  /\ UNCHANGED <<loopVars, queueVars, groupVars, callVars, workVars>>

\* The rest of Queue.put, at each look at the queue.
PutOrWait(i) ==
  IF Full
  THEN /\ putters' = Append(putters, i)
       /\ pc' = [pc EXCEPT ![i] = "putting"]
       /\ Suspends(i, <<>>)
       /\ UNCHANGED <<items, getters, unfinished, fate>>
  ELSE /\ Enqueue(i)
       /\ pc' = [pc EXCEPT ![i] = "returned"]
       /\ Ends(i, Woken(getters), <<>>)
       /\ UNCHANGED putters

Submit(i) ==
  /\ Idle
  /\ pc[i] = "new"
  /\ Accepting
  /\ stats' = [stats EXCEPT !.submitted = @ + 1]
  /\ PutOrWait(i)
  /\ UNCHANGED <<joinWaiters, groupVars, callVars, holding>>

PutterWakes(i) ==
  /\ Turn(i)
  /\ pc[i] = "putting"
  /\ ~Thrown(i)
  /\ PutOrWait(i)
  /\ UNCHANGED <<joinWaiters, groupVars, callVars, holding, stats>>

\* A putter cancelled after it was woken passes the free slot on.
PutterKeepsSlot(i) == FALSE               \* mutant
PutterPassesOn(i) == fut[i] = "done" /\ ~Full

PutterCancelled(i) ==
  LET rest == Dropped(putters, i)
  IN /\ Turn(i)
     /\ pc[i] = "putting"
     /\ Thrown(i)
     /\ pc' = [pc EXCEPT ![i] = "cancelled"]
     /\ putters' = IF PutterPassesOn(i) THEN Popped(rest) ELSE rest
     /\ Ends(i, IF PutterPassesOn(i) THEN Woken(rest) ELSE <<>>, <<>>)
     /\ UNCHANGED <<items, getters, unfinished, joinWaiters, groupVars, callVars, workVars>>

TrySubmit(i) ==
  /\ Idle
  /\ pc[i] = "new"
  /\ Accepting
  /\ IF Full
     THEN /\ stats' = [stats EXCEPT !.rejected = @ + 1]
          /\ pc' = [pc EXCEPT ![i] = "shed"]
          /\ UNCHANGED <<loopVars, items, getters, unfinished, fate>>
     ELSE /\ stats' = [stats EXCEPT !.submitted = @ + 1]
          /\ pc' = [pc EXCEPT ![i] = "returned"]
          /\ Enqueue(i)
          /\ Ends(i, Woken(getters), <<>>)
  /\ UNCHANGED <<putters, joinWaiters, groupVars, callVars, holding>>

-----------------------------------------------------------------------------
(* _worker *)

\* get() on an empty queue.
WorkerWaits(w) ==
  /\ Turn(w)
  /\ pc[w] = "get"
  /\ ~Thrown(w)
  /\ items = <<>>
  /\ getters' = Append(getters, w)
  /\ Suspends(w, <<>>)
  /\ UNCHANGED <<items, putters, unfinished, joinWaiters, groupVars, callVars, workVars, pc>>

\* get() takes an item, wakes a putter, and the handler starts.
WorkerTakes(w) ==
  /\ Turn(w)
  /\ pc[w] = "get"
  /\ ~Thrown(w)
  /\ items # <<>>
  /\ items' = Tail(items)
  /\ putters' = Popped(putters)
  /\ holding' = [holding EXCEPT ![w] = Head(items)]
  /\ fate' = [fate EXCEPT ![Head(items)] = "taken"]
  /\ pc' = [pc EXCEPT ![w] = "handle"]
  /\ \E suspends \in HandlerSuspends :
       IF suspends THEN Suspends(w, Woken(putters)) ELSE Continues(w, Woken(putters))
  /\ UNCHANGED <<getters, unfinished, joinWaiters, groupVars, callVars, stats>>

\* The callers whose gather sees its last worker finish when w does.
LastChildOf(w) ==
  {c \in Callers : /\ pc[c] = "gathering"
                   /\ w \in kids[c]
                   /\ \A v \in kids[c] \ {w} : pc[v] = "stopped"}

\* The worker's task finishes.
WorkerStops(w, woken) ==
  /\ pc' = [pc EXCEPT ![w] = "stopped"]
  /\ \E order \in SetToSeqs(LastChildOf(w)) : Ends(w, woken, order)

HandlerReturns(w) ==
  /\ Turn(w)
  /\ pc[w] = "handle"
  /\ ~Thrown(w)
  /\ "ok" \in HandlerOutcomes
  /\ stats' = [stats EXCEPT !.completed = @ + 1]
  /\ fate' = [fate EXCEPT ![holding[w]] = "completed"]
  /\ \E raises \in OnResultRaises :
       IF raises
       THEN /\ WorkerStops(w, <<>>)
            /\ UNCHANGED <<unfinished, joinWaiters, holding>>
       ELSE /\ TaskDone(w)
            /\ pc' = [pc EXCEPT ![w] = "get"]
            /\ Continues(w, DoneWakes)
  /\ UNCHANGED <<items, getters, putters, groupVars, callVars>>

\* Mutants: the failure is neither counted nor marked done; it ends the worker.
HandlerForgotten(w) ==
  /\ Turn(w)
  /\ pc[w] = "handle"
  /\ ~Thrown(w)
  /\ "error" \in HandlerOutcomes
  /\ fate' = [fate EXCEPT ![holding[w]] = "failed"]
  /\ pc' = [pc EXCEPT ![w] = "get"]
  /\ Continues(w, <<>>)
  /\ UNCHANGED <<queueVars, holding, stats, groupVars, callVars>>
HandlerKills(w) ==
  /\ Turn(w)
  /\ pc[w] = "handle"
  /\ ~Thrown(w)
  /\ "error" \in HandlerOutcomes
  /\ stats' = [stats EXCEPT !.failed = @ + 1]
  /\ fate' = [fate EXCEPT ![holding[w]] = "failed"]
  /\ TaskDone(w)
  /\ WorkerStops(w, DoneWakes)
  /\ UNCHANGED <<items, getters, putters, groupVars, callVars>>

HandlerRaises(w) ==
  /\ Turn(w)
  /\ pc[w] = "handle"
  /\ ~Thrown(w)
  /\ "error" \in HandlerOutcomes
  /\ stats' = [stats EXCEPT !.failed = @ + 1]
  /\ fate' = [fate EXCEPT ![holding[w]] = "failed"]
  /\ TaskDone(w)
  /\ pc' = [pc EXCEPT ![w] = "get"]
  /\ Continues(w, DoneWakes)
  /\ UNCHANGED <<items, getters, putters, groupVars, callVars>>

\* CancelledError leaves the handler: thrown into it, or raised by it.
HandlerCancelled(w) ==
  /\ Turn(w)
  /\ pc[w] = "handle"
  /\ Thrown(w) \/ "cancelled" \in HandlerOutcomes
  /\ fate' = [fate EXCEPT ![holding[w]] = "interrupted"]
  /\ TaskDone(w)
  /\ WorkerStops(w, DoneWakes)
  /\ UNCHANGED <<items, getters, putters, groupVars, callVars, stats>>

\* Cancelled in get() or before its first step.  A worker cancelled after it
\* was woken passes the item on.
GetterPassesOn(w) == fut[w] = "done" /\ items # <<>>

GetterCancelled(w) ==
  LET rest == Dropped(getters, w)
  IN /\ Turn(w)
     /\ pc[w] = "get"
     /\ Thrown(w)
     /\ getters' = IF GetterPassesOn(w) THEN Popped(rest) ELSE rest
     /\ WorkerStops(w, IF GetterPassesOn(w) THEN Woken(rest) ELSE <<>>)
     /\ UNCHANGED <<items, putters, unfinished, joinWaiters, groupVars, callVars, workVars>>

\* What the handler awaits completes.
HandlerWakes(w) ==
  /\ pc[w] = "handle"
  /\ Completes(w)
  /\ UNCHANGED <<queueVars, groupVars, callVars, workVars, pc>>

-----------------------------------------------------------------------------
(* join and aclose *)

Increasing(s) == \A j, k \in DOMAIN s : j < k => s[j] < s[k]

CancelsTheIdle == {w \in workers : pc[w] = "get"}      \* mutant
CancelsTheBusy == {w \in workers : pc[w] = "handle"}   \* mutant
ToCancel == {w \in workers : pc[w] # "stopped"}

\* The second half of aclose: every worker is cancelled, oldest first, and
\* gathered.  gather's own callback runs at once when all have finished.
CancelAndGather(c) ==
  LET AllStopped == \A w \in workers : pc[w] = "stopped"
      waiting == {w \in ToCancel : fut[w] = "pending"}
  IN IF workers = {}
     THEN /\ pc' = [pc EXCEPT ![c] = "closed"]
          /\ Ends(c, <<>>, <<>>)
          /\ UNCHANGED kids
     ELSE /\ pc' = [pc EXCEPT ![c] = "gathering"]
          /\ kids' = [kids EXCEPT ![c] = workers]
          /\ \E order \in SetToSeqs(waiting) :
               /\ Increasing(order)
               /\ ready' = Behind(c) \o order
                             \o (IF AllStopped THEN <<c>> ELSE <<>>)
          /\ running' = NoTask
          /\ fut' = [t \in DOMAIN fut |->
                       IF t = c THEN "pending"
                       ELSE IF t \in waiting THEN "cancelled" ELSE fut[t]]
          /\ mustCancel' = (mustCancel \ {c}) \cup (ToCancel \ waiting)

\* join, and aclose up to its first await.
Call(c, what) ==
  /\ Idle
  /\ pc[c] = "idle"
  /\ op' = [op EXCEPT ![c] = what]
  /\ closed' = (closed \/ what # "join")
  /\ owed' = [owed EXCEPT ![c] = {i \in Items : fate[i] \in {"queued", "taken"}}]
  /\ IF what = "abort" \/ (what = "drain" /\ unfinished = 0)
     THEN /\ CancelAndGather(c)
          /\ UNCHANGED joinWaiters
     ELSE /\ UNCHANGED kids
          /\ IF unfinished = 0
             THEN /\ pc' = [pc EXCEPT ![c] = "joined"]
                  /\ Ends(c, <<>>, <<>>)
                  /\ UNCHANGED joinWaiters
             ELSE /\ pc' = [pc EXCEPT ![c] = "joining"]
                  /\ joinWaiters' = Append(joinWaiters, c)
                  /\ Suspends(c, <<>>)
  /\ UNCHANGED <<items, getters, putters, unfinished, workers, spawned, rivals, workVars>>

JoinerForgets(c) ==                       \* mutant: _workers = [] before the gather
  /\ Turn(c)
  /\ pc[c] = "joining"
  /\ ~Thrown(c)
  /\ IF op[c] = "join"
     THEN /\ pc' = [pc EXCEPT ![c] = "joined"]
          /\ Ends(c, <<>>, <<>>)
          /\ UNCHANGED <<kids, workers>>
     ELSE CancelAndGather(c) /\ workers' = {}
  /\ UNCHANGED <<queueVars, closed, spawned, rivals, op, owed, workVars>>

JoinerWakes(c) ==
  /\ Turn(c)
  /\ pc[c] = "joining"
  /\ ~Thrown(c)
  /\ IF op[c] = "join"
     THEN /\ pc' = [pc EXCEPT ![c] = "joined"]
          /\ Ends(c, <<>>, <<>>)
          /\ UNCHANGED kids
     ELSE CancelAndGather(c)
  /\ UNCHANGED <<queueVars, groupVars, op, owed, workVars>>

\* The callback of the last worker completes gather's future.
GatherCompletes(c) ==
  /\ Turn(c)
  /\ pc[c] = "gathering"
  /\ pc' = [pc EXCEPT ![c] = "gathered"]
  /\ ready' = Append(Behind(c), c)
  /\ fut' = [fut EXCEPT ![c] = "done"]
  /\ UNCHANGED <<running, mustCancel, queueVars, groupVars, callVars, workVars>>

CloseReturns(c) ==
  /\ Turn(c)
  /\ pc[c] = "gathered"
  /\ ~Thrown(c)
  /\ workers' = {}
  /\ pc' = [pc EXCEPT ![c] = "closed"]
  /\ Ends(c, <<>>, <<>>)
  /\ UNCHANGED <<queueVars, closed, spawned, rivals, callVars, workVars>>

CallerCancelledForgets(c) ==              \* mutant: _workers = [] in a finally
  /\ Turn(c)
  /\ pc[c] \in {"joining", "gathered"}
  /\ Thrown(c)
  /\ pc' = [pc EXCEPT ![c] = "cancelled"]
  /\ workers' = IF op[c] = "join" THEN workers ELSE {}
  /\ Ends(c, <<>>, <<>>)
  /\ UNCHANGED <<queueVars, closed, spawned, rivals, callVars, workVars>>

CallerCancelled(c) ==
  /\ Turn(c)
  /\ pc[c] \in {"joining", "gathered"}
  /\ Thrown(c)
  /\ pc' = [pc EXCEPT ![c] = "cancelled"]
  /\ Ends(c, <<>>, <<>>)
  /\ UNCHANGED <<queueVars, groupVars, callVars, workVars>>

\* The application cancels a suspended submit, join or aclose.  Cancelling
\* gather's future cancels its children, which aclose has done already, and
\* is reported when they have finished.  Event.set skips a cancelled waiter:
\* it leaves joinWaiters here.
Cancel(t) ==
  /\ pc[t] \in {"putting", "joining", "gathering", "gathered"}
  /\ ~Thrown(t)
  /\ IF pc[t] = "gathering"
     THEN /\ Idle
          /\ mustCancel' = mustCancel \cup {t}
          /\ UNCHANGED <<ready, running, fut>>
     ELSE Cancels(t)
  /\ joinWaiters' = Dropped(joinWaiters, t)
  /\ UNCHANGED <<items, getters, putters, unfinished, groupVars, callVars, workVars, pc>>

-----------------------------------------------------------------------------

WorkerStep(w) ==
  \/ WorkerWaits(w)
  \/ WorkerTakes(w)
  \/ HandlerReturns(w)
  \/ HandlerRaises(w)
  \/ HandlerCancelled(w)
  \/ GetterCancelled(w)

SubmitStep(i) == PutterWakes(i) \/ PutterCancelled(i)

CallerStep(c) ==
  \/ JoinerWakes(c)
  \/ GatherCompletes(c)
  \/ CloseReturns(c)
  \/ CallerCancelled(c)

\* One turn, or part of a turn, of the event loop.
LoopStep ==
  \/ \E w \in Workers : WorkerStep(w)
  \/ \E i \in Items : SubmitStep(i)
  \/ \E c \in Callers : CallerStep(c)

\* What the application does between two turns.
Application ==
  \/ Start
  \/ \E i \in Items : Refuse(i) \/ Submit(i) \/ TrySubmit(i)
  \/ \E c \in Callers, what \in Operations : Call(c, what)
  \/ \E t \in Cancellable : Cancel(t)

Next ==
  \/ LoopStep
  \/ Application
  \/ \E w \in Workers : HandlerWakes(w)

Spec == Init /\ [][Next]_vars

\* The loop keeps turning, and what a handler awaits completes eventually.
FairSpec ==
  /\ Spec
  /\ WF_vars(LoopStep)
  /\ \A w \in Workers : WF_vars(HandlerWakes(w))

-----------------------------------------------------------------------------
(* Properties *)

SubmitState == {"new", "putting", "returned", "refused", "shed", "cancelled"}
WorkerState == {"unborn", "get", "handle", "stopped"}
CallerState == {"idle", "joining", "gathering", "gathered", "joined", "closed", "cancelled"}
Fate == {"none", "queued", "taken", "completed", "failed", "interrupted"}

\* Every variable has its type.
TypeOK ==
  /\ LoopTypeOK(Tasks)
  /\ items \in Seq(Items)
  /\ getters \in Seq(Workers)
  /\ putters \in Seq(Items)
  /\ unfinished \in Nat
  /\ joinWaiters \in Seq(Callers)
  /\ closed \in BOOLEAN
  /\ workers \subseteq Workers
  /\ spawned \in 0 .. (PoolSize * MaxStarts)
  /\ rivals \in [Workers -> SUBSET Callers]
  /\ kids \in [Callers -> SUBSET Workers]
  /\ op \in [Callers -> {"none"} \cup Operations]
  /\ DOMAIN pc = Tasks
  /\ \A i \in Items : pc[i] \in SubmitState
  /\ \A w \in Workers : pc[w] \in WorkerState
  /\ \A c \in Callers : pc[c] \in CallerState
  /\ holding \in [Workers -> Items \cup {NoItem}]
  /\ stats \in [submitted : Nat, completed : Nat, failed : Nat, rejected : Nat]
  /\ fate \in [Items -> Fate]
  /\ owed \in [Callers -> SUBSET Items]

Holders == {w \in Workers : holding[w] # NoItem}
WithFate(states) == {i \in Items : fate[i] \in states}

\* The queue's counter of unfinished items is exact whatever ends a handler
\* or a worker: each item in the queue, and each taken and not yet marked
\* done, is counted once.  task_done() is therefore never called once too
\* often, which would raise ValueError and kill the worker.
Accounting == unfinished = Len(items) + Cardinality(Holders)

\* Backpressure: the queue never exceeds maxsize, with putters that were
\* woken, cancelled, or overtaken by a submit that found the freed slot.
Backpressure == Len(items) <= MaxSize

\* No item is queued twice, handled twice at once, or in two places: the
\* queue holds the queued items and working workers hold the taken ones.
EachItemOnce ==
  /\ \A j, k \in DOMAIN items : items[j] = items[k] => j = k
  /\ ToSet(items) = WithFate({"queued"})
  /\ {holding[w] : w \in {v \in Workers : pc[v] = "handle"}} = WithFate({"taken"})
  /\ \A v, w \in Holders : holding[v] = holding[w] => v = w

\* "Failures are counted, never silently dropped": PoolStats reconciles with
\* what became of every item, the blocked and the withdrawn ones included.
StatsReconcile ==
  /\ stats.completed = Cardinality(WithFate({"completed"}))
  /\ stats.failed = Cardinality(WithFate({"failed"}))
  /\ stats.rejected = Cardinality({i \in Items : pc[i] = "shed"})
  /\ stats.submitted = stats.completed + stats.failed
       + Cardinality(WithFate({"queued", "taken", "interrupted"}))
       + Cardinality({i \in Items : pc[i] \in {"putting", "cancelled"}})

\* The books balance: the backlog is bounded, counted exactly and free of
\* duplicates, and the statistics agree with it.
BooksBalance == Accounting /\ Backpressure /\ EachItemOnce /\ StatsReconcile

\* Lost wakeup of a worker: while a worker sleeps in get(), each queued item
\* has a worker on its way, even when woken workers are cancelled.
Asleep(t) == fut[t] = "pending"
NoStrandedItem ==
  LET inGet == {w \in Workers : pc[w] = "get"}
  IN (\E w \in inGet : Asleep(w)) =>
        Len(items) <= Cardinality({w \in inGet : w \in ToSet(ready) \/ running = w})

\* Lost wakeup of a producer: while a submit sleeps in put(), each free slot
\* has a woken submit on its way, even when woken submits are cancelled.
NoStrandedPutter ==
  LET inPut == {i \in Items : pc[i] = "putting"}
  IN (\E i \in inPut : Asleep(i)) =>
        MaxSize - Len(items) <= Cardinality({i \in inPut : fut[i] = "done"})

\* Nobody sleeps in join() when there is nothing left to wait for.
JoinersHaveCause == joinWaiters # <<>> => unfinished > 0

\* No wakeup is lost, of workers, of producers or of joiners.
NoLostWakeup == NoStrandedItem /\ NoStrandedPutter /\ JoinersHaveCause

\* join() returns, and aclose(drain=True) goes past its join, only when every
\* item that was in the pool at the call has been given up by its worker.
JoinMeansProcessed ==
  \A c \in Callers :
    (op[c] \in {"join", "drain"} /\ pc[c] \in {"joined", "gathering", "gathered", "closed"})
      => \A i \in owed[c] : fate[i] \in {"completed", "failed", "interrupted"}

\* A worker that has not finished is one that the next aclose would cancel,
\* those of a start() after an aclose included: a cancelled aclose does not
\* forget it, and aclose returns only when the workers it gathered have
\* finished.  The one exception is what start() beside an unfinished aclose
\* runs into: an aclose that was gathering the earlier workers when this one
\* was started forgets it as it returns.
NoOrphanWorker ==
  \A w \in Workers :
    pc[w] \in {"get", "handle"} =>
      w \in workers \/ \E c \in rivals[w] : pc[c] = "closed"

\* "A handler that raises does not kill its worker": while the pool is open a
\* worker has finished only over an item, one for each, whose handler raised
\* CancelledError or whose on_result raised.
PoisonDoesNotKill ==
  ~closed =>
    LET stopped == {w \in Workers : pc[w] = "stopped"}
    IN Cardinality(stopped)
         = Cardinality(WithFate({"interrupted"})) + Cardinality(stopped \cap Holders)

\* While aclose waits for the workers it has cancelled, no handler starts:
\* not from a worker woken before, nor from one between two items.
ClosingTakesNothing ==
  [][(\E c \in Callers : pc[c] \in {"gathering", "gathered"} /\ kids[c] = workers)
       => \A w \in workers : pc'[w] = "handle" => pc[w] = "handle"]_vars

\* aclose(drain=True), "the backlog is finished first": nothing is left in
\* the queue, and no submit is left waiting, once it has returned.
DrainMeansEmpty ==
  \A c \in Callers :
    (op[c] = "drain" /\ pc[c] = "closed") => items = <<>> /\ putters = <<>>

\* Every join and aclose of a running pool goes past its join, unless another
\* aclose takes the workers away while items are left.
JoinReturns ==
  \A c \in Callers :
    (pc[c] = "joining" /\ workers # {})
      ~> \/ pc[c] \in {"joined", "closed"}
         \/ \E d \in Callers \ {c} : pc[d] \in {"gathering", "gathered", "closed"}

\* aclose ends once it has cancelled the workers, whatever they were doing.
GatherReturns ==
  \A c \in Callers : (pc[c] = "gathering") ~> (pc[c] \in {"closed", "cancelled"})

\* A submit waiting for room returns, unless the pool is aborted.
SubmitReturns ==
  \A i \in Items :
    (pc[i] = "putting" /\ workers # {})
      ~> (pc[i] # "putting" \/ \E c \in Callers : op[c] = "abort")

\* Every call that waits comes back.
CallsReturn == JoinReturns /\ GatherReturns /\ SubmitReturns

\* The detailed pool does to each item what the contract allows.
Life(i) ==
  CASE fate[i] = "queued" -> "backlog"
    [] fate[i] = "taken" -> "inHand"
    [] fate[i] \in {"completed", "failed", "interrupted"} -> fate[i]
    [] pc[i] = "putting" -> "blocked"
    [] pc[i] = "cancelled" -> "withdrawn"
    [] OTHER -> pc[i]

Contract == INSTANCE PoolContract WITH
  backlog <- items,
  life <- [i \in Items |-> Life(i)],
  open <- ~closed,
  Bound <- MaxSize,
  Hands <- PoolSize * MaxStarts

\* The pool implements PoolContract.
ImplementsContract == Contract!Spec
=============================================================================
