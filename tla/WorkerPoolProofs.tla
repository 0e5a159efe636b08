--------------------------- MODULE WorkerPoolProofs ---------------------------
(***************************************************************************)
(* The books of the pool balance, no wakeup is lost and no worker is       *)
(* forgotten, for every number of workers, every queue size and every set  *)
(* of submits and closers, whatever handlers and callbacks do and whoever  *)
(* is cancelled.                                                           *)
(***************************************************************************)
EXTENDS WorkerPool, EventLoopProofs

\* Where an item is, by its submit and by the worker that has it.
Places ==
  /\ \A i \in Items : fate[i] = "none" <=> pc[i] # "returned"
  /\ \A w \in Workers :
       /\ pc[w] \in {"unborn", "get"} => holding[w] = NoItem
       /\ pc[w] = "handle" => holding[w] # NoItem
       /\ pc[w] = "stopped" /\ holding[w] # NoItem => fate[holding[w]] = "completed"
       /\ w > spawned => pc[w] = "unborn"

BooksInv == BooksBalance /\ Places

IInv == TypeOK /\ BooksInv

USE PoolAssumption, OptionAssumption

-----------------------------------------------------------------------------
(* Tasks *)

\* There are finitely many workers.
LEMMA WorkersFinite == IsFiniteSet(Workers) /\ Workers \subseteq Nat \ {0}
  <1>1. PoolSize * MaxStarts \in Nat
    OBVIOUS
  <1> QED
    BY <1>1, FS_Interval DEF Workers

\* Whoever moves is the only one who does, and moves of items, workers and
\* callers are different things.
LEMMA PcMoves ==
  ASSUME DOMAIN pc = Tasks, NEW t \in Tasks, NEW s, pc' = [pc EXCEPT ![t] = s]
  PROVE  DOMAIN pc' = Tasks /\ pc'[t] = s /\ \A x \in Tasks \ {t} : pc'[x] = pc[x]
  OBVIOUS

\* The places a task of each kind can be at.
PcOK ==
  /\ DOMAIN pc = Tasks
  /\ \A i \in Items : pc[i] \in SubmitState
  /\ \A w \in Workers : pc[w] \in WorkerState
  /\ \A c \in Callers : pc[c] \in CallerState

\* An item that changes place keeps its type.
LEMMA ItemMovesType ==
  ASSUME PcOK, NEW i \in Items, NEW s \in SubmitState, pc' = [pc EXCEPT ![i] = s]
  PROVE  PcOK'
  BY PcMoves DEF PcOK, Tasks

\* A worker that moves on keeps the table of workers well typed.
LEMMA WorkerMovesType ==
  ASSUME PcOK, NEW w \in Workers, NEW s \in WorkerState, pc' = [pc EXCEPT ![w] = s]
  PROVE  PcOK'
  BY PcMoves DEF PcOK, Tasks

\* A caller that moves on keeps the table of callers well typed.
LEMMA CallerMovesType ==
  ASSUME PcOK, NEW c \in Callers, NEW s \in CallerState, pc' = [pc EXCEPT ![c] = s]
  PROVE  PcOK'
  BY PcMoves DEF PcOK, Tasks

\* Callers in some order.
LEMMA OrderType ==
  ASSUME NEW S, IsFiniteSet(S), NEW order \in SetToSeqs(S)
  PROVE  order \in Seq(S)
  <1>1. Cardinality(S) \in Nat
    BY FS_CardinalityType
  <1>2. order \in [1 .. Cardinality(S) -> S]
    BY DEF SetToSeqs
  <1> QED
    BY <1>1, <1>2

\* A sequence of some tasks is one of tasks.
LEMMA TasksSeq ==
  ASSUME NEW s, s \in Seq(Items) \/ s \in Seq(Callers) \/ s \in Seq(Workers)
  PROVE  s \in Seq(Tasks)
  <1>1. Items \subseteq Tasks /\ Callers \subseteq Tasks /\ Workers \subseteq Tasks
    BY DEF Tasks
  <1> QED
    BY <1>1

-----------------------------------------------------------------------------
(* Types *)

\* What Queue.put leaves behind.
LEMMA EnqueueTypes ==
  ASSUME TypeOK, NEW i \in Items, Enqueue(i)
  PROVE  /\ items' \in Seq(Items)
         /\ unfinished' \in Nat
         /\ getters' \in Seq(Workers)
         /\ fate' \in [Items -> Fate]
  <1>1. getters' \in Seq(Workers)
    BY PoppedType DEF Enqueue, TypeOK
  <1> QED
    BY <1>1 DEF Enqueue, TypeOK, Fate

\* put: the item is queued or its caller waits, and the types hold either
\* way.
LEMMA PutOrWaitTypes ==
  ASSUME TypeOK, NEW i \in Items, PutOrWait(i),
         UNCHANGED <<joinWaiters, groupVars, callVars, holding>>,
         stats' \in [submitted : Nat, completed : Nat, failed : Nat, rejected : Nat]
  PROVE  TypeOK'
  <1>1. i \in Tasks /\ <<>> \in Seq(Tasks) /\ PcOK /\ LoopTypeOK(Tasks)
    BY DEF Tasks, TypeOK, PcOK
  <1>2. CASE Full
    <2>1. LoopTypeOK(Tasks)'
      BY <1>1, <1>2, SuspendsType DEF PutOrWait
    <2>2. PcOK'
      BY <1>1, <1>2, ItemMovesType DEF PutOrWait, SubmitState
    <2>3. putters' \in Seq(Items)
      <3>1. putters' = Append(putters, i) /\ putters \in Seq(Items)
        BY <1>2 DEF PutOrWait, TypeOK
      <3> QED
        BY <3>1
    <2> QED
      BY <1>2, <2>1, <2>2, <2>3 DEF PutOrWait, TypeOK, PcOK, groupVars, callVars
  <1>3. CASE ~Full
    <2>1. Woken(getters) \in Seq(Tasks)
      BY WokenType, TasksSeq DEF TypeOK
    <2>2. LoopTypeOK(Tasks)'
      BY <1>1, <1>3, <2>1, EndsType DEF PutOrWait
    <2>3. PcOK'
      BY <1>1, <1>3, ItemMovesType DEF PutOrWait, SubmitState
    <2>4. Enqueue(i) /\ UNCHANGED putters
      BY <1>3 DEF PutOrWait
    <2> QED
      BY <2>2, <2>3, <2>4, EnqueueTypes DEF TypeOK, PcOK, groupVars, callVars
  <1> QED
    BY <1>2, <1>3

\* submit keeps the types.
LEMMA SubmitTypes ==
  ASSUME TypeOK, NEW i \in Items, Submit(i) \/ PutterWakes(i)
  PROVE  TypeOK'
  <1>1. stats' \in [submitted : Nat, completed : Nat, failed : Nat, rejected : Nat]
    <2>1. stats \in [submitted : Nat, completed : Nat, failed : Nat, rejected : Nat]
      BY DEF TypeOK
    <2>2. stats' = stats \/ stats' = [stats EXCEPT !.submitted = @ + 1]
      BY DEF Submit, PutterWakes
    <2> QED
      BY <2>1, <2>2
  <1> QED
    BY <1>1, PutOrWaitTypes DEF Submit, PutterWakes

\* try_submit keeps the types.
LEMMA TrySubmitTypes ==
  ASSUME TypeOK, NEW i \in Items, TrySubmit(i)
  PROVE  TypeOK'
  <1>1. i \in Tasks /\ <<>> \in Seq(Tasks) /\ PcOK /\ LoopTypeOK(Tasks)
    BY DEF Tasks, TypeOK, PcOK
  <1>2. stats' \in [submitted : Nat, completed : Nat, failed : Nat, rejected : Nat]
    <2>1. stats \in [submitted : Nat, completed : Nat, failed : Nat, rejected : Nat]
      BY DEF TypeOK
    <2>2. \/ stats' = [stats EXCEPT !.rejected = @ + 1]
          \/ stats' = [stats EXCEPT !.submitted = @ + 1]
      BY DEF TrySubmit
    <2> QED
      BY <2>1, <2>2
  <1>3. PcOK'
    BY <1>1, ItemMovesType DEF TrySubmit, SubmitState
  <1>4. CASE Full
    BY <1>2, <1>3, <1>4 DEF TrySubmit, TypeOK, PcOK, groupVars, callVars, loopVars, LoopTypeOK
  <1>5. CASE ~Full
    <2>1. Woken(getters) \in Seq(Tasks)
      BY WokenType, TasksSeq DEF TypeOK
    <2>2. LoopTypeOK(Tasks)'
      BY <1>1, <1>5, <2>1, EndsType DEF TrySubmit
    <2>3. Enqueue(i) /\ UNCHANGED <<putters, joinWaiters, groupVars, callVars, holding>>
      BY <1>5 DEF TrySubmit
    <2> QED
      BY <1>2, <1>3, <2>2, <2>3, EnqueueTypes DEF TypeOK, PcOK, groupVars, callVars
  <1> QED
    BY <1>4, <1>5

\* A refused submission keeps the types.
LEMMA RefuseTypes ==
  ASSUME TypeOK, NEW i \in Items, Refuse(i)
  PROVE  TypeOK'
  <1>1. PcOK'
    BY ItemMovesType DEF Refuse, SubmitState, TypeOK, PcOK
  <1> QED
    BY <1>1 DEF Refuse, TypeOK, PcOK, loopVars, LoopTypeOK, queueVars, groupVars, callVars, workVars

\* A submitter cancelled inside put() keeps the types.
LEMMA PutterCancelledTypes ==
  ASSUME TypeOK, NEW i \in Items, PutterCancelled(i)
  PROVE  TypeOK'
  <1> DEFINE rest == Dropped(putters, i)
  <1>1. i \in Tasks /\ <<>> \in Seq(Tasks) /\ PcOK /\ LoopTypeOK(Tasks)
    BY DEF Tasks, TypeOK, PcOK
  <1>2. rest \in Seq(Items)
    BY DroppedType DEF TypeOK
  <1> HIDE DEF rest
  <1>3. Popped(rest) \in Seq(Items) /\ Woken(rest) \in Seq(Tasks)
    BY <1>2, PoppedType, WokenType, TasksSeq
  <1>4. PcOK'
    BY <1>1, ItemMovesType DEF PutterCancelled, SubmitState
  <1>5. LoopTypeOK(Tasks)'
    <2>1. CASE PutterPassesOn(i)
      BY <1>1, <1>3, <2>1, EndsType DEF PutterCancelled, rest
    <2>2. CASE ~PutterPassesOn(i)
      BY <1>1, <2>2, EndsType DEF PutterCancelled
    <2> QED
      BY <2>1, <2>2
  <1>6. putters' \in Seq(Items)
    BY <1>2, <1>3 DEF PutterCancelled, rest
  <1> QED
    BY <1>4, <1>5, <1>6 DEF PutterCancelled, TypeOK, PcOK, groupVars, callVars, workVars

\* start keeps the types.
LEMMA StartTypes ==
  ASSUME TypeOK, Start
  PROVE  TypeOK'
  <1> DEFINE born == (spawned + 1) .. (spawned + PoolSize)
  <1>1. spawned \in Nat /\ PoolSize \in Nat /\ spawned + PoolSize <= PoolSize * MaxStarts
        /\ PoolSize * MaxStarts \in Nat
    BY DEF TypeOK, Start, Workers
  <1>2. born \subseteq Workers
    BY <1>1 DEF Workers
  <1>3. PcOK'
    BY <1>2 DEF Start, TypeOK, PcOK, Tasks, WorkerState
  <1>4. LoopTypeOK(Tasks)'
    <2> DEFINE new == [k \in 1 .. PoolSize |-> spawned + k]
    <2>1. \A k \in 1 .. PoolSize : spawned + k \in Workers
      BY <1>1 DEF Workers
    <2>2. new \in Seq(Workers)
      BY <1>1, <2>1
    <2>3. new \in Seq(Tasks)
      BY <2>2, TasksSeq
    <2>4. ready' = ready \o new
      BY DEF Start
    <2> HIDE DEF new
    <2>5. ready \in Seq(Tasks)
      BY DEF TypeOK, LoopTypeOK
    <2>6. ready' \in Seq(Tasks)
      BY <2>3, <2>4, <2>5
    <2> QED
      BY <2>6 DEF Start, TypeOK, LoopTypeOK
  <1>5. workers' \subseteq Workers /\ spawned' \in 0 .. (PoolSize * MaxStarts)
    BY <1>1, <1>2 DEF Start
  <1>6. rivals' \in [Workers -> SUBSET Callers]
    BY DEF Start, TypeOK, Gatherers
  <1> QED
    BY <1>3, <1>4, <1>5, <1>6 DEF Start, TypeOK, PcOK, queueVars, callVars, workVars

\* A worker that waits in get() keeps the types.
LEMMA WorkerWaitsTypes ==
  ASSUME TypeOK, NEW w \in Workers, WorkerWaits(w)
  PROVE  TypeOK'
  <1>1. w \in Tasks /\ <<>> \in Seq(Tasks) /\ LoopTypeOK(Tasks)
    BY DEF Tasks, TypeOK
  <1>2. LoopTypeOK(Tasks)'
    BY <1>1, SuspendsType DEF WorkerWaits
  <1>3. getters' \in Seq(Workers)
    <2>1. getters' = Append(getters, w) /\ getters \in Seq(Workers)
      BY DEF WorkerWaits, TypeOK
    <2> QED
      BY <2>1
  <1> QED
    BY <1>2, <1>3 DEF WorkerWaits, TypeOK, groupVars, callVars, workVars

\* A worker that takes an item keeps the types.
LEMMA WorkerTakesTypes ==
  ASSUME TypeOK, NEW w \in Workers, WorkerTakes(w)
  PROVE  TypeOK'
  <1>1. w \in Tasks /\ LoopTypeOK(Tasks) /\ PcOK
    BY DEF Tasks, TypeOK, PcOK
  <1>2. Woken(putters) \in Seq(Tasks) /\ Popped(putters) \in Seq(Items)
    BY WokenType, PoppedType, TasksSeq DEF TypeOK
  <1>3. LoopTypeOK(Tasks)'
    <2>1. Suspends(w, Woken(putters)) \/ Continues(w, Woken(putters))
      BY DEF WorkerTakes
    <2> QED
      BY <1>1, <1>2, <2>1, SuspendsType, ContinuesType
  <1>4. Head(items) \in Items /\ Tail(items) \in Seq(Items)
    BY DEF WorkerTakes, TypeOK
  <1>5. PcOK'
    BY <1>1, WorkerMovesType DEF WorkerTakes, WorkerState
  <1>6. holding' \in [Workers -> Items \cup {NoItem}] /\ fate' \in [Items -> Fate]
    BY <1>4 DEF WorkerTakes, TypeOK, Fate
  <1> QED
    BY <1>2, <1>3, <1>4, <1>5, <1>6 DEF WorkerTakes, TypeOK, PcOK, groupVars, callVars

\* Some of those who gather end when their last worker does.
LEMMA WorkerStopsTypes ==
  ASSUME TypeOK, NEW w \in Workers, NEW woken \in Seq(Tasks), WorkerStops(w, woken)
  PROVE  LoopTypeOK(Tasks)' /\ PcOK'
  <1>1. w \in Tasks /\ LoopTypeOK(Tasks) /\ PcOK
    BY DEF Tasks, TypeOK, PcOK
  <1>2. PICK order \in SetToSeqs(LastChildOf(w)) : Ends(w, woken, order)
    BY DEF WorkerStops
  <1>3. LastChildOf(w) \subseteq Callers /\ IsFiniteSet(LastChildOf(w))
    BY FS_Subset DEF LastChildOf
  <1>4. order \in Seq(LastChildOf(w))
    BY <1>3, OrderType
  <1>5. order \in Seq(Tasks)
    BY <1>3, <1>4, TasksSeq
  <1> QED
    BY <1>1, <1>2, <1>5, EndsType, WorkerMovesType DEF WorkerStops, WorkerState

\* The wakeups of the last task_done() leave the callers well typed.
LEMMA DoneWakesType ==
  ASSUME TypeOK
  PROVE  DoneWakes \in Seq(Tasks)
  BY TasksSeq DEF DoneWakes, TypeOK

\* task_done() keeps the types.
LEMMA TaskDoneTypes ==
  ASSUME TypeOK, NEW w \in Workers, TaskDone(w)
  PROVE  joinWaiters' \in Seq(Callers) /\ holding' \in [Workers -> Items \cup {NoItem}]
  BY DEF TaskDone, TypeOK

\* Nothing but a handler's end changes how many items are unfinished to less.
LEMMA HandlerTypes ==
  ASSUME TypeOK, NEW w \in Workers, unfinished' \in Nat,
         HandlerReturns(w) \/ HandlerRaises(w) \/ HandlerCancelled(w)
  PROVE  TypeOK'
  <1>1. w \in Tasks /\ <<>> \in Seq(Tasks) /\ LoopTypeOK(Tasks) /\ PcOK
    BY DEF Tasks, TypeOK, PcOK
  <1>2. /\ stats' \in [submitted : Nat, completed : Nat, failed : Nat, rejected : Nat]
        /\ fate' \in [Items -> Fate]
    <2>1. /\ stats \in [submitted : Nat, completed : Nat, failed : Nat, rejected : Nat]
          /\ fate \in [Items -> Fate]
      BY DEF TypeOK
    <2>2. \/ stats' = [stats EXCEPT !.completed = @ + 1]
          \/ stats' = [stats EXCEPT !.failed = @ + 1]
          \/ stats' = stats
      BY DEF HandlerReturns, HandlerRaises, HandlerCancelled
    <2>3. \E end \in {"completed", "failed", "interrupted"} :
             fate' = [fate EXCEPT ![holding[w]] = end]
      BY DEF HandlerReturns, HandlerRaises, HandlerCancelled
    <2>4. fate' \in [Items -> Fate]
      BY <2>1, <2>3 DEF Fate
    <2> QED
      BY <2>1, <2>2, <2>4
  <1>3. UNCHANGED <<items, getters, putters, groupVars, callVars>>
    BY DEF HandlerReturns, HandlerRaises, HandlerCancelled
  <1>4. \/ TaskDone(w)
        \/ UNCHANGED <<unfinished, joinWaiters, holding>>
    BY DEF HandlerReturns, HandlerRaises, HandlerCancelled
  <1>5. joinWaiters' \in Seq(Callers) /\ holding' \in [Workers -> Items \cup {NoItem}]
    BY <1>4, TaskDoneTypes DEF TypeOK
  <1>6. \/ WorkerStops(w, <<>>) \/ WorkerStops(w, DoneWakes)
        \/ pc' = [pc EXCEPT ![w] = "get"] /\ Continues(w, DoneWakes)
    BY DEF HandlerReturns, HandlerRaises, HandlerCancelled
  <1>7. LoopTypeOK(Tasks)' /\ PcOK'
    <2>1. CASE pc' = [pc EXCEPT ![w] = "get"] /\ Continues(w, DoneWakes)
      BY <1>1, <2>1, DoneWakesType, ContinuesType, WorkerMovesType DEF WorkerState
    <2> QED
      BY <1>1, <1>6, <2>1, DoneWakesType, WorkerStopsTypes
  <1> QED
    BY <1>2, <1>3, <1>5, <1>7 DEF TypeOK, PcOK, groupVars, callVars

\* A worker cancelled inside get() keeps the types.
LEMMA GetterCancelledTypes ==
  ASSUME TypeOK, NEW w \in Workers, GetterCancelled(w)
  PROVE  TypeOK'
  <1> DEFINE rest == Dropped(getters, w)
  <1>1. rest \in Seq(Workers) /\ <<>> \in Seq(Tasks)
    BY DroppedType DEF TypeOK
  <1> HIDE DEF rest
  <1>2. Popped(rest) \in Seq(Workers) /\ Woken(rest) \in Seq(Tasks)
    BY <1>1, PoppedType, WokenType, TasksSeq
  <1>3. getters' \in Seq(Workers)
    BY <1>1, <1>2 DEF GetterCancelled, rest
  <1>4. LoopTypeOK(Tasks)' /\ PcOK'
    <2>1. WorkerStops(w, Woken(rest)) \/ WorkerStops(w, <<>>)
      BY DEF GetterCancelled, rest
    <2> QED
      BY <1>1, <1>2, <2>1, WorkerStopsTypes
  <1> QED
    BY <1>3, <1>4 DEF GetterCancelled, TypeOK, PcOK, groupVars, callVars, workVars

\* Resuming a worker inside its handler keeps the types.
LEMMA HandlerWakesTypes ==
  ASSUME TypeOK, NEW w \in Workers, HandlerWakes(w)
  PROVE  TypeOK'
  <1>1. LoopTypeOK(Tasks)'
    BY CompletesType DEF HandlerWakes, TypeOK, Tasks
  <1> QED
    BY <1>1 DEF HandlerWakes, TypeOK, queueVars, groupVars, callVars, workVars

\* The workers that are cancelled are scheduled in some order.
LEMMA CancelAndGatherTypes ==
  ASSUME TypeOK, NEW c \in Callers, CancelAndGather(c)
  PROVE  LoopTypeOK(Tasks)' /\ PcOK' /\ kids' \in [Callers -> SUBSET Workers]
  <1>1. c \in Tasks /\ <<>> \in Seq(Tasks) /\ <<c>> \in Seq(Tasks) /\ LoopTypeOK(Tasks) /\ PcOK
    BY DEF Tasks, TypeOK, PcOK
  <1>2. CASE workers = {}
    BY <1>1, <1>2, EndsType, CallerMovesType DEF CancelAndGather, CallerState, TypeOK
  <1>3. CASE workers # {}
    <2> DEFINE waiting == {w \in ToCancel : fut[w] = "pending"}
    <2>1. PICK order \in SetToSeqs(waiting) :
            \E last \in {<<>>, <<c>>} : ready' = Behind(c) \o order \o last
      BY <1>3 DEF CancelAndGather
    <2>2. waiting \subseteq Workers
      BY DEF ToCancel, TypeOK
    <2>3. order \in Seq(waiting)
      <3>1. IsFiniteSet(waiting)
        BY <2>2, WorkersFinite, FS_Subset
      <3> HIDE DEF waiting
      <3> QED
        BY <3>1, OrderType
    <2>4. order \in Seq(Tasks)
      BY <2>2, <2>3, TasksSeq
    <2>5. ready' \in Seq(Tasks)
      <3>1. Behind(c) \in Seq(Tasks)
        BY <1>1 DEF Behind, LoopTypeOK
      <3>2. PICK last \in {<<>>, <<c>>} : ready' = Behind(c) \o order \o last
        BY <2>1
      <3>3. last \in Seq(Tasks)
        BY <1>1
      <3> HIDE DEF waiting
      <3>4. Behind(c) \o order \in Seq(Tasks)
        BY <2>4, <3>1
      <3> QED
        BY <3>2, <3>3, <3>4
    <2>6. fut' \in [Tasks -> FutureState]
      BY <1>1, <1>3 DEF CancelAndGather, LoopTypeOK, FutureState
    <2>7. mustCancel' \subseteq Tasks /\ running' \in Tasks \cup {NoTask}
      BY <1>1, <1>3 DEF CancelAndGather, LoopTypeOK, ToCancel, TypeOK, Tasks
    <2>8. PcOK'
      BY <1>1, <1>3, CallerMovesType DEF CancelAndGather, CallerState
    <2>9. kids' \in [Callers -> SUBSET Workers]
      <3>1. kids' = [kids EXCEPT ![c] = workers]
        BY <1>3 DEF CancelAndGather
      <3> QED
        BY <3>1 DEF TypeOK
    <2> QED
      BY <2>5, <2>6, <2>7, <2>8, <2>9 DEF LoopTypeOK
  <1> QED
    BY <1>2, <1>3

\* A new call of join or aclose keeps the types.
LEMMA CallTypes ==
  ASSUME TypeOK, NEW c \in Callers, NEW what \in Operations, Call(c, what)
  PROVE  TypeOK'
  <1>1. c \in Tasks /\ <<>> \in Seq(Tasks) /\ LoopTypeOK(Tasks) /\ PcOK
    BY DEF Tasks, TypeOK, PcOK
  <1>2. /\ op' \in [Callers -> {"none"} \cup Operations]
        /\ closed' \in BOOLEAN
        /\ owed' \in [Callers -> SUBSET Items]
    BY DEF Call, TypeOK
  <1>3. UNCHANGED <<items, getters, putters, unfinished, workers, spawned, rivals, workVars>>
    BY DEF Call
  <1>4. CASE what = "abort" \/ (what = "drain" /\ unfinished = 0)
    <2>1. CancelAndGather(c) /\ UNCHANGED joinWaiters
      BY <1>4 DEF Call
    <2> QED
      BY <1>2, <1>3, <2>1, CancelAndGatherTypes DEF TypeOK, PcOK, workVars
  <1>5. CASE ~(what = "abort" \/ (what = "drain" /\ unfinished = 0))
    <2>1. joinWaiters' \in Seq(Callers)
      <3>1. joinWaiters' = joinWaiters \/ joinWaiters' = Append(joinWaiters, c)
        BY <1>5 DEF Call
      <3>2. joinWaiters \in Seq(Callers)
        BY DEF TypeOK
      <3> QED
        BY <3>1, <3>2
    <2>2. LoopTypeOK(Tasks)' /\ PcOK'
      BY <1>1, <1>5, EndsType, SuspendsType, CallerMovesType DEF Call, CallerState
    <2> QED
      BY <1>2, <1>3, <1>5, <2>1, <2>2 DEF Call, TypeOK, PcOK, workVars
  <1> QED
    BY <1>4, <1>5

\* A joiner that resumes keeps the types.
LEMMA JoinerWakesTypes ==
  ASSUME TypeOK, NEW c \in Callers, JoinerWakes(c)
  PROVE  TypeOK'
  <1>1. c \in Tasks /\ <<>> \in Seq(Tasks) /\ LoopTypeOK(Tasks) /\ PcOK
    BY DEF Tasks, TypeOK, PcOK
  <1>2. LoopTypeOK(Tasks)' /\ PcOK' /\ kids' \in [Callers -> SUBSET Workers]
    <2>1. CASE op[c] = "join"
      BY <1>1, <2>1, EndsType, CallerMovesType DEF JoinerWakes, CallerState, TypeOK
    <2>2. CASE op[c] # "join"
      BY <2>2, CancelAndGatherTypes DEF JoinerWakes
    <2> QED
      BY <2>1, <2>2
  <1> QED
    BY <1>2 DEF JoinerWakes, TypeOK, PcOK, queueVars, groupVars, workVars

\* The last steps of a caller keep the types: its gather completes, its
\* aclose returns, or it is cancelled.
LEMMA CallerTypes ==
  ASSUME TypeOK, NEW c \in Callers,
         GatherCompletes(c) \/ CloseReturns(c) \/ CallerCancelled(c)
  PROVE  TypeOK'
  <1>1. c \in Tasks /\ <<>> \in Seq(Tasks) /\ LoopTypeOK(Tasks) /\ PcOK
    BY DEF Tasks, TypeOK, PcOK
  <1>2. PcOK'
    BY <1>1, CallerMovesType DEF GatherCompletes, CloseReturns, CallerCancelled, CallerState
  <1>3. LoopTypeOK(Tasks)'
    <2>1. CASE GatherCompletes(c)
      <3>1. Behind(c) \in Seq(Tasks)
        BY <1>1 DEF Behind, LoopTypeOK
      <3>2. ready' \in Seq(Tasks)
        BY <1>1, <2>1, <3>1 DEF GatherCompletes
      <3> QED
        BY <1>1, <2>1, <3>2 DEF GatherCompletes, LoopTypeOK, FutureState
    <2>2. CASE Ends(c, <<>>, <<>>)
      BY <1>1, <2>2, EndsType
    <2> QED
      BY <2>1, <2>2 DEF CloseReturns, CallerCancelled
  <1>4. workers' \subseteq Workers
    BY DEF GatherCompletes, CloseReturns, CallerCancelled, TypeOK, groupVars
  <1>5. UNCHANGED <<queueVars, closed, spawned, rivals, callVars, workVars>>
    BY DEF GatherCompletes, CloseReturns, CallerCancelled, groupVars
  <1> QED
    BY <1>2, <1>3, <1>4, <1>5 DEF TypeOK, PcOK, queueVars, callVars, workVars

\* Cancelling a task from outside keeps the types.
LEMMA CancelTypes ==
  ASSUME TypeOK, NEW t \in Cancellable, Cancel(t)
  PROVE  TypeOK'
  <1>1. t \in Tasks /\ LoopTypeOK(Tasks)
    BY DEF Tasks, TypeOK
  <1>2. LoopTypeOK(Tasks)'
    BY <1>1, CancelsType DEF Cancel, LoopTypeOK
  <1>3. joinWaiters' \in Seq(Callers)
    BY DroppedType DEF Cancel, TypeOK
  <1> QED
    BY <1>2, <1>3 DEF Cancel, TypeOK, groupVars, callVars, workVars

\* The pool starts well typed.
LEMMA InitTypes == Init => TypeOK
  <1> SUFFICES ASSUME Init PROVE TypeOK
    OBVIOUS
  <1>1. PoolSize * MaxStarts \in Nat
    OBVIOUS
  <1>2. LoopTypeOK(Tasks)
    BY DEF Init, LoopInit, LoopTypeOK, FutureState
  <1>3. PcOK
    BY DEF Init, PcOK, Tasks, SubmitState, WorkerState, CallerState
  <1>4. spawned \in 0 .. (PoolSize * MaxStarts)
    BY <1>1 DEF Init
  <1>5. /\ holding \in [Workers -> Items \cup {NoItem}]
        /\ stats \in [submitted : Nat, completed : Nat, failed : Nat, rejected : Nat]
        /\ fate \in [Items -> Fate]
    BY DEF Init, Fate
  <1>6. /\ items \in Seq(Items) /\ getters \in Seq(Workers) /\ putters \in Seq(Items)
        /\ joinWaiters \in Seq(Callers)
    BY DEF Init
  <1>7. /\ unfinished \in Nat /\ closed \in BOOLEAN /\ workers \subseteq Workers
        /\ rivals \in [Workers -> SUBSET Callers]
        /\ kids \in [Callers -> SUBSET Workers]
        /\ op \in [Callers -> {"none"} \cup Operations]
        /\ owed \in [Callers -> SUBSET Items]
    BY DEF Init
  <1> QED
    BY <1>2, <1>3, <1>4, <1>5, <1>6, <1>7 DEF PcOK, TypeOK

\* The types hold whatever happens, as long as no item is marked done twice.
LEMMA StepTypes ==
  ASSUME TypeOK, [Next]_vars, unfinished' \in Nat
  PROVE  TypeOK'
  <1>1. ASSUME NEW w \in Workers, WorkerStep(w) PROVE TypeOK'
    BY <1>1, WorkerWaitsTypes, WorkerTakesTypes, HandlerTypes, GetterCancelledTypes DEF WorkerStep
  <1>2. ASSUME NEW i \in Items, SubmitStep(i) PROVE TypeOK'
    BY <1>2, SubmitTypes, PutterCancelledTypes DEF SubmitStep
  <1>3. ASSUME NEW c \in Callers, CallerStep(c) PROVE TypeOK'
    BY <1>3, JoinerWakesTypes, CallerTypes DEF CallerStep
  <1>4. CASE Application
    BY <1>4, StartTypes, RefuseTypes, SubmitTypes, TrySubmitTypes, CallTypes, CancelTypes
    DEF Application
  <1>5. ASSUME NEW w \in Workers, HandlerWakes(w) PROVE TypeOK'
    BY <1>5, HandlerWakesTypes
  <1>6. CASE UNCHANGED vars
    BY <1>6 DEF vars, loopVars, queueVars, groupVars, callVars, workVars, TypeOK, LoopTypeOK
  <1> QED
    BY <1>1, <1>2, <1>3, <1>4, <1>5, <1>6 DEF Next, LoopStep

-----------------------------------------------------------------------------
(* Counting *)

Submits(states) == {i \in Items : pc[i] \in states}

\* What is counted can be counted.
LEMMA Counted ==
  ASSUME NEW states
  PROVE  /\ IsFiniteSet(WithFate(states)) /\ Cardinality(WithFate(states)) \in Nat
         /\ IsFiniteSet(Submits(states)) /\ Cardinality(Submits(states)) \in Nat
         /\ IsFiniteSet(Holders) /\ Cardinality(Holders) \in Nat
  <1>1. WithFate(states) \in SUBSET Items /\ Submits(states) \in SUBSET Items
        /\ Holders \in SUBSET Workers
    BY DEF WithFate, Submits, Holders
  <1> QED
    BY <1>1, WorkersFinite, FS_Subset, FS_CardinalityType

\* What arrives is one more, what leaves one less.
LEMMA Joins ==
  ASSUME NEW S, IsFiniteSet(S), NEW x
  PROVE  /\ x \notin S => Cardinality(S \cup {x}) = Cardinality(S) + 1
         /\ x \in S => Cardinality(S \cup {x}) = Cardinality(S)
         /\ x \in S => Cardinality(S \ {x}) = Cardinality(S) - 1 /\ Cardinality(S) > 0
         /\ x \notin S => Cardinality(S \ {x}) = Cardinality(S)
  <1>1. Cardinality(S) \in Nat /\ (x \in S => Cardinality(S) # 0)
    BY FS_CardinalityType, FS_EmptySet
  <1>2. Cardinality(S \cup {x}) = IF x \in S THEN Cardinality(S) ELSE Cardinality(S) + 1
    BY FS_AddElement
  <1>3. Cardinality(S \ {x}) = IF x \in S THEN Cardinality(S) - 1 ELSE Cardinality(S)
    BY FS_RemoveElement
  <1> QED
    BY <1>1, <1>2, <1>3

\* An item that goes from one set to another, the others staying where they are.
Bit(b) == IF b THEN 1 ELSE 0

\* Two sets that differ in x only have sizes that differ by whether x is in.
LEMMA OneMoves ==
  ASSUME NEW S, NEW T, IsFiniteSet(S), IsFiniteSet(T), NEW x, S \ {x} = T \ {x}
  PROVE  Cardinality(T) + Bit(x \in S) = Cardinality(S) + Bit(x \in T)
  <1>1. Cardinality(S) \in Nat /\ Cardinality(T) \in Nat
    BY FS_CardinalityType
  <1>2. /\ x \in S => Cardinality(S \ {x}) = Cardinality(S) - 1
        /\ x \notin S => Cardinality(S \ {x}) = Cardinality(S)
    BY Joins
  <1>3. /\ x \in T => Cardinality(T \ {x}) = Cardinality(T) - 1
        /\ x \notin T => Cardinality(T \ {x}) = Cardinality(T)
    BY Joins
  <1>4. /\ x \in S => Bit(x \in S) = 1
        /\ x \notin S => Bit(x \in S) = 0
        /\ x \in T => Bit(x \in T) = 1
        /\ x \notin T => Bit(x \in T) = 0
    BY DEF Bit
  <1>5. Cardinality(S \ {x}) = Cardinality(T \ {x})
    OBVIOUS
  <1> QED
    <2>1. CASE x \in S /\ x \in T
      BY <1>1, <1>2, <1>3, <1>4, <1>5, <2>1
    <2>2. CASE x \in S /\ x \notin T
      BY <1>1, <1>2, <1>3, <1>4, <1>5, <2>2
    <2>3. CASE x \notin S /\ x \in T
      BY <1>1, <1>2, <1>3, <1>4, <1>5, <2>3
    <2>4. CASE x \notin S /\ x \notin T
      BY <1>1, <1>2, <1>3, <1>4, <1>5, <2>4
    <2> QED
      BY <2>1, <2>2, <2>3, <2>4

\* What an item's new fate, or its submit's new place, does to the counts.
LEMMA FateCounts ==
  ASSUME NEW i \in Items, \A x \in Items \ {i} : fate'[x] = fate[x], NEW states
  PROVE  Cardinality(WithFate(states))' + Bit(fate[i] \in states)
           = Cardinality(WithFate(states)) + Bit(fate'[i] \in states)
  <1> DEFINE S == WithFate(states)
             T == WithFate(states)'
  <1>1. IsFiniteSet(S)
    BY Counted
  <1>2. IsFiniteSet(T)
    <2>1. T \in SUBSET Items
      BY DEF WithFate
    <2> QED
      BY <2>1, FS_Subset
  <1>3. S \ {i} = T \ {i} /\ (i \in S <=> fate[i] \in states) /\ (i \in T <=> fate'[i] \in states)
    BY DEF WithFate
  <1> HIDE DEF S, T
  <1>4. Cardinality(T) + Bit(i \in S) = Cardinality(S) + Bit(i \in T)
    BY <1>1, <1>2, <1>3, OneMoves
  <1> QED
    BY <1>3, <1>4 DEF S, T, Bit

\* When only item i moves, the number of items in any set of places moves
\* by whether i leaves or enters it.
LEMMA SubmitCounts ==
  ASSUME NEW i \in Items, \A x \in Items \ {i} : pc'[x] = pc[x], NEW states
  PROVE  Cardinality(Submits(states))' + Bit(pc[i] \in states)
           = Cardinality(Submits(states)) + Bit(pc'[i] \in states)
  <1> DEFINE S == Submits(states)
             T == Submits(states)'
  <1>1. IsFiniteSet(S)
    BY Counted
  <1>2. IsFiniteSet(T)
    <2>1. T \in SUBSET Items
      BY DEF Submits
    <2> QED
      BY <2>1, FS_Subset
  <1>3. S \ {i} = T \ {i} /\ (i \in S <=> pc[i] \in states) /\ (i \in T <=> pc'[i] \in states)
    BY DEF Submits
  <1> HIDE DEF S, T
  <1>4. Cardinality(T) + Bit(i \in S) = Cardinality(S) + Bit(i \in T)
    BY <1>1, <1>2, <1>3, OneMoves
  <1> QED
    BY <1>3, <1>4 DEF S, T, Bit

\* A worker takes hold of an item, ...
LEMMA HolderComes ==
  ASSUME holding \in [Workers -> Items \cup {NoItem}], NEW w \in Workers, NEW i \in Items,
         holding[w] = NoItem, holding' = [holding EXCEPT ![w] = i]
  PROVE  Holders' = Holders \cup {w} /\ Cardinality(Holders)' = Cardinality(Holders) + 1
  <1>1. Holders' = Holders \cup {w} /\ w \notin Holders
    BY DEF Holders
  <1>2. IsFiniteSet(Holders)
    BY Counted
  <1>3. Cardinality(Holders \cup {w}) = Cardinality(Holders) + 1
    BY <1>1, <1>2, Joins
  <1> QED
    BY <1>1, <1>3

\* ... or marks it done.
LEMMA HolderGoes ==
  ASSUME holding \in [Workers -> Items \cup {NoItem}], NEW w \in Workers,
         holding[w] # NoItem, holding' = [holding EXCEPT ![w] = NoItem]
  PROVE  /\ Holders' = Holders \ {w}
         /\ Cardinality(Holders)' = Cardinality(Holders) - 1
         /\ Cardinality(Holders) > 0
  <1>1. Holders' = Holders \ {w} /\ w \in Holders
    BY DEF Holders
  <1>2. IsFiniteSet(Holders)
    BY Counted
  <1>3. Cardinality(Holders \ {w}) = Cardinality(Holders) - 1 /\ Cardinality(Holders) > 0
    BY <1>1, <1>2, Joins
  <1> QED
    BY <1>1, <1>3

\* The statistics, with the counts named as above.
Tally ==
  /\ stats.completed = Cardinality(WithFate({"completed"}))
  /\ stats.failed = Cardinality(WithFate({"failed"}))
  /\ stats.rejected = Cardinality(Submits({"shed"}))
  /\ stats.submitted = stats.completed + stats.failed
       + Cardinality(WithFate({"queued", "taken", "interrupted"}))
       + Cardinality(Submits({"putting", "cancelled"}))

\* The statistics reconcile exactly when they tally with the counts, before
\* and after a step.
LEMMA Tallied == (StatsReconcile <=> Tally) /\ (StatsReconcile <=> Tally)'
  <1>1. {i \in Items : pc[i] = "shed"} = Submits({"shed"})
    BY DEF Submits
  <1>2. {i \in Items : pc'[i] = "shed"} = Submits({"shed"})'
    BY DEF Submits
  <1> QED
    BY <1>1, <1>2 DEF StatsReconcile, Tally, Submits

\* The statistics still reconcile after a step that touches one item and
\* moves the counters as the item moves.
LEMMA StatsFollow ==
  ASSUME TypeOK, StatsReconcile, NEW i \in Items,
         \A x \in Items \ {i} : fate'[x] = fate[x] /\ pc'[x] = pc[x],
         stats'.completed + Bit(fate[i] \in {"completed"})
           = stats.completed + Bit(fate'[i] \in {"completed"}),
         stats'.failed + Bit(fate[i] \in {"failed"})
           = stats.failed + Bit(fate'[i] \in {"failed"}),
         stats'.rejected + Bit(pc[i] \in {"shed"})
           = stats.rejected + Bit(pc'[i] \in {"shed"}),
         stats'.submitted - stats'.completed - stats'.failed
             + Bit(fate[i] \in {"queued", "taken", "interrupted"})
             + Bit(pc[i] \in {"putting", "cancelled"})
           = stats.submitted - stats.completed - stats.failed
             + Bit(fate'[i] \in {"queued", "taken", "interrupted"})
             + Bit(pc'[i] \in {"putting", "cancelled"}),
         stats' \in [submitted : Nat, completed : Nat, failed : Nat, rejected : Nat]
  PROVE  StatsReconcile'
  <1>1. /\ stats.submitted \in Nat /\ stats.completed \in Nat /\ stats.failed \in Nat
        /\ stats.rejected \in Nat
        /\ stats'.submitted \in Nat /\ stats'.completed \in Nat /\ stats'.failed \in Nat
        /\ stats'.rejected \in Nat
    BY DEF TypeOK
  <1>2. Tally
    BY Tallied
  <1>3. \A states : Cardinality(WithFate(states)) \in Nat /\ Cardinality(Submits(states)) \in Nat
    BY Counted
  <1>4. \A states : Cardinality(WithFate(states))' \in Nat /\ Cardinality(Submits(states))' \in Nat
    <2> TAKE states
    <2>1. WithFate(states)' \in SUBSET Items /\ Submits(states)' \in SUBSET Items
      BY DEF WithFate, Submits
    <2> QED
      BY <2>1, FS_Subset, FS_CardinalityType
  <1>5. \A states : Cardinality(WithFate(states))' + Bit(fate[i] \in states)
                      = Cardinality(WithFate(states)) + Bit(fate'[i] \in states)
    BY FateCounts
  <1>6. \A states : Cardinality(Submits(states))' + Bit(pc[i] \in states)
                      = Cardinality(Submits(states)) + Bit(pc'[i] \in states)
    BY SubmitCounts
  <1>7. (stats.completed = Cardinality(WithFate({"completed"})))'
    <2>1. stats.completed = Cardinality(WithFate({"completed"}))
      BY <1>2 DEF Tally
    <2> QED
      BY <1>1, <1>3, <1>4, <1>5, <2>1 DEF Bit
  <1>8. (stats.failed = Cardinality(WithFate({"failed"})))'
    <2>1. stats.failed = Cardinality(WithFate({"failed"}))
      BY <1>2 DEF Tally
    <2> QED
      BY <1>1, <1>3, <1>4, <1>5, <2>1 DEF Bit
  <1>9. (stats.rejected = Cardinality(Submits({"shed"})))'
    <2>1. stats.rejected = Cardinality(Submits({"shed"}))
      BY <1>2 DEF Tally
    <2>2. Cardinality(Submits({"shed"}))' + Bit(pc[i] \in {"shed"})
            = Cardinality(Submits({"shed"})) + Bit(pc'[i] \in {"shed"})
      BY <1>6
    <2>3. Cardinality(Submits({"shed"})) \in Nat /\ Cardinality(Submits({"shed"}))' \in Nat
      BY <1>3, <1>4
    <2>4. stats'.rejected + Bit(pc[i] \in {"shed"}) = stats.rejected + Bit(pc'[i] \in {"shed"})
      OBVIOUS
    <2> DEFINE n == Cardinality(Submits({"shed"}))
               m == Cardinality(Submits({"shed"}))'
               p == Bit(pc[i] \in {"shed"})
               q == Bit(pc'[i] \in {"shed"})
               r == stats'.rejected
    <2>5. p \in {0, 1} /\ q \in {0, 1}
      BY DEF Bit
    <2>6. stats.rejected = n /\ m + p = n + q /\ r + p = n + q
      BY <2>1, <2>2, <2>4
    <2>7. n \in Nat /\ m \in Nat /\ r \in Nat
      BY <1>1, <2>3
    <2>8. r = m
      <3> HIDE DEF n, m, p, q, r
      <3> QED
        BY <2>5, <2>6, <2>7
    <2> QED
      BY <2>8
  <1>10. (stats.submitted = stats.completed + stats.failed
            + Cardinality(WithFate({"queued", "taken", "interrupted"}))
            + Cardinality(Submits({"putting", "cancelled"})))'
    <2>1. stats.submitted = stats.completed + stats.failed
            + Cardinality(WithFate({"queued", "taken", "interrupted"}))
            + Cardinality(Submits({"putting", "cancelled"}))
      BY <1>2 DEF Tally
    <2>2. Cardinality(WithFate({"queued", "taken", "interrupted"}))'
            + Bit(fate[i] \in {"queued", "taken", "interrupted"})
          = Cardinality(WithFate({"queued", "taken", "interrupted"}))
            + Bit(fate'[i] \in {"queued", "taken", "interrupted"})
      BY <1>5
    <2>3. Cardinality(Submits({"putting", "cancelled"}))'
            + Bit(pc[i] \in {"putting", "cancelled"})
          = Cardinality(Submits({"putting", "cancelled"}))
            + Bit(pc'[i] \in {"putting", "cancelled"})
      BY <1>6
    <2>4. \A b : Bit(b) \in {0, 1}
      BY DEF Bit
    <2>5. /\ Cardinality(WithFate({"queued", "taken", "interrupted"})) \in Nat
          /\ Cardinality(WithFate({"queued", "taken", "interrupted"}))' \in Nat
          /\ Cardinality(Submits({"putting", "cancelled"})) \in Nat
          /\ Cardinality(Submits({"putting", "cancelled"}))' \in Nat
      BY <1>3, <1>4
    <2> QED
      BY <1>1, <2>1, <2>2, <2>3, <2>4, <2>5
  <1> QED
    BY <1>7, <1>8, <1>9, <1>10, Tallied DEF Tally

-----------------------------------------------------------------------------
(* The books *)

\* What is queued, held and counted does not change.
LEMMA BooksKept ==
  ASSUME BooksInv, UNCHANGED <<items, unfinished, holding, stats, fate>>, Places',
         \A i \in Items : pc'[i] = pc[i],
         \A w \in Workers : pc'[w] = "handle" <=> pc[w] = "handle"
  PROVE  BooksInv'
  <1>1. /\ Holders' = Holders
        /\ \A states : WithFate(states)' = WithFate(states)
    BY DEF Holders, WithFate
  <1>2. Accounting' /\ Backpressure'
    BY <1>1 DEF BooksInv, BooksBalance, Accounting, Backpressure
  <1>3. EachItemOnce'
    <2>1. {w \in Workers : pc'[w] = "handle"} = {w \in Workers : pc[w] = "handle"}
      OBVIOUS
    <2> QED
      BY <1>1, <2>1 DEF BooksInv, BooksBalance, EachItemOnce
  <1>4. StatsReconcile'
    <2>1. {i \in Items : pc'[i] = "shed"} = {i \in Items : pc[i] = "shed"}
      OBVIOUS
    <2>2. {i \in Items : pc'[i] \in {"putting", "cancelled"}}
            = {i \in Items : pc[i] \in {"putting", "cancelled"}}
      OBVIOUS
    <2> QED
      BY <1>1, <2>1, <2>2 DEF BooksInv, BooksBalance, StatsReconcile
  <1> QED
    BY <1>2, <1>3, <1>4 DEF BooksInv, BooksBalance

\* Nothing of what the books are about changes.
LEMMA BooksStand ==
  ASSUME BooksInv, UNCHANGED <<items, unfinished, holding, stats, fate, spawned>>,
         \A t \in Items \cup Workers : pc'[t] = pc[t]
  PROVE  BooksInv'
  <1>1. Places'
    BY DEF BooksInv, Places
  <1> QED
    BY <1>1, BooksKept

\* What callers do is no business of theirs.
LEMMA CallersKeepBooks ==
  ASSUME IInv, NEW c \in Callers, NEW s, pc' = [pc EXCEPT ![c] = s],
         UNCHANGED <<items, unfinished, holding, stats, fate, spawned>>
  PROVE  BooksInv'
  <1>1. \A t \in Items \cup Workers : pc'[t] = pc[t]
    BY PcMoves DEF IInv, TypeOK, Tasks
  <1> QED
    BY <1>1, BooksStand DEF IInv

\* No step of a caller, and no new call of join or aclose, touches the books.
LEMMA CallBooks ==
  ASSUME IInv, NEW c \in Callers,
         CallerStep(c) \/ \E what \in Operations : Call(c, what)
  PROVE  BooksInv'
  <1>1. UNCHANGED <<items, unfinished, holding, stats, fate, spawned>>
    BY DEF CallerStep, JoinerWakes, GatherCompletes, CloseReturns, CallerCancelled, Call,
           queueVars, groupVars, workVars
  <1>2. \E s : pc' = [pc EXCEPT ![c] = s]
    BY DEF CallerStep, JoinerWakes, GatherCompletes, CloseReturns, CallerCancelled, Call,
           CancelAndGather
  <1> QED
    BY <1>1, <1>2, CallersKeepBooks
\* An item that is put into the queue was nowhere before.
LEMMA EnqueueBooks ==
  ASSUME IInv, NEW i \in Items, pc[i] \in {"new", "putting"}, ~Full, Enqueue(i),
         pc' = [pc EXCEPT ![i] = "returned"], UNCHANGED <<holding, spawned>>,
         pc[i] = "new" => stats' = [stats EXCEPT !.submitted = @ + 1],
         pc[i] = "putting" => stats' = stats
  PROVE  BooksInv'
  <1>1. TypeOK /\ Accounting /\ Backpressure /\ EachItemOnce /\ StatsReconcile /\ Places
    BY DEF IInv, BooksInv, BooksBalance
  <1>2. /\ fate \in [Items -> Fate] /\ fate' = [fate EXCEPT ![i] = "queued"]
        /\ fate[i] = "none"
        /\ items \in Seq(Items) /\ items' = Append(items, i)
        /\ unfinished \in Nat /\ unfinished' = unfinished + 1
        /\ Len(items) \in Nat
    <2>1. fate \in [Items -> Fate] /\ items \in Seq(Items) /\ unfinished \in Nat
      BY <1>1 DEF TypeOK
    <2>2. fate[i] = "none"
      BY <1>1 DEF Places
    <2> QED
      BY <2>1, <2>2 DEF Enqueue
  <1>3. pc'[i] = "returned" /\ \A t \in (Items \cup Workers) \ {i} : pc'[t] = pc[t]
    BY <1>1, PcMoves DEF TypeOK, Tasks
  <1>4. /\ Len(items') = Len(items) + 1 /\ items'[Len(items) + 1] = i
        /\ \A k \in 1 .. Len(items) : items'[k] = items[k]
        /\ DOMAIN items' = 1 .. (Len(items) + 1) /\ DOMAIN items = 1 .. Len(items)
    BY <1>2
  <1>5. Holders' = Holders /\ Cardinality(Holders) \in Nat
    BY Counted DEF Holders
  <1>6. Accounting'
    BY <1>1, <1>2, <1>4, <1>5 DEF Accounting
  <1>7. Backpressure'
    BY <1>2, <1>4 DEF Backpressure, Full
  <1>8. EachItemOnce'
    <2>1. i \notin ToSet(items)
      BY <1>1, <1>2 DEF EachItemOnce, WithFate
    <2>2. \A j, k \in DOMAIN items' : items'[j] = items'[k] => j = k
      BY <1>1, <1>2, <1>4, <2>1 DEF EachItemOnce, ToSet
    <2>3. ToSet(items') = ToSet(items) \cup {i}
      BY <1>2, <1>4 DEF ToSet
    <2>4. WithFate({"queued"})' = WithFate({"queued"}) \cup {i}
      BY <1>2 DEF WithFate
    <2>5. WithFate({"taken"})' = WithFate({"taken"})
      BY <1>2 DEF WithFate
    <2>6. \A w \in Workers : pc'[w] = pc[w]
      BY <1>3
    <2>7. {w \in Workers : pc'[w] = "handle"} = {w \in Workers : pc[w] = "handle"}
      BY <2>6
    <2> QED
      BY <1>1, <1>5, <2>2, <2>3, <2>4, <2>5, <2>7 DEF EachItemOnce
  <1>9. StatsReconcile'
    <2>1. fate'[i] = "queued" /\ \A x \in Items \ {i} : fate'[x] = fate[x] /\ pc'[x] = pc[x]
      BY <1>2, <1>3
    <2>2. stats' \in [submitted : Nat, completed : Nat, failed : Nat, rejected : Nat]
      <3>1. stats \in [submitted : Nat, completed : Nat, failed : Nat, rejected : Nat]
        BY <1>1 DEF TypeOK
      <3>2. stats' = stats \/ stats' = [stats EXCEPT !.submitted = @ + 1]
        OBVIOUS
      <3> QED
        BY <3>1, <3>2
    <2>3. /\ stats'.completed = stats.completed /\ stats'.failed = stats.failed
          /\ stats'.rejected = stats.rejected
          /\ stats'.submitted = stats.submitted + Bit(pc[i] = "new")
          /\ stats.submitted \in Nat /\ stats.completed \in Nat /\ stats.failed \in Nat
          /\ stats.rejected \in Nat
      <3>1. stats \in [submitted : Nat, completed : Nat, failed : Nat, rejected : Nat]
        BY <1>1 DEF TypeOK
      <3>2. CASE pc[i] = "new"
        <4>1. stats' = [stats EXCEPT !.submitted = @ + 1]
          BY <3>2
        <4> QED
          BY <3>1, <3>2, <4>1 DEF Bit
      <3>3. CASE pc[i] = "putting"
        <4>1. stats' = stats
          BY <3>3
        <4> QED
          BY <3>1, <3>3, <4>1 DEF Bit
      <3> QED
        BY <3>2, <3>3
    <2>4. /\ ~(fate[i] \in {"completed"}) /\ ~(fate'[i] \in {"completed"})
          /\ ~(fate[i] \in {"failed"}) /\ ~(fate'[i] \in {"failed"})
          /\ ~(fate[i] \in {"queued", "taken", "interrupted"})
          /\ fate'[i] \in {"queued", "taken", "interrupted"}
          /\ ~(pc[i] \in {"shed"}) /\ ~(pc'[i] \in {"shed"})
          /\ ~(pc'[i] \in {"putting", "cancelled"})
          /\ pc[i] \in {"putting", "cancelled"} <=> ~(pc[i] = "new")
      BY <1>2, <1>3, <2>1
    <2>5. /\ stats'.submitted - stats'.completed - stats'.failed
               + Bit(fate[i] \in {"queued", "taken", "interrupted"})
               + Bit(pc[i] \in {"putting", "cancelled"})
             = stats.submitted - stats.completed - stats.failed
               + Bit(fate'[i] \in {"queued", "taken", "interrupted"})
               + Bit(pc'[i] \in {"putting", "cancelled"})
          /\ stats'.completed + Bit(fate[i] \in {"completed"})
               = stats.completed + Bit(fate'[i] \in {"completed"})
          /\ stats'.failed + Bit(fate[i] \in {"failed"})
               = stats.failed + Bit(fate'[i] \in {"failed"})
          /\ stats'.rejected + Bit(pc[i] \in {"shed"})
               = stats.rejected + Bit(pc'[i] \in {"shed"})
      BY <2>3, <2>4 DEF Bit
    <2> QED
      BY <1>1, <2>1, <2>2, <2>5, StatsFollow
  <1>10. Places'
    <2>1. \A x \in Items : fate'[x] = "none" <=> pc'[x] # "returned"
      BY <1>1, <1>2, <1>3 DEF Places
    <2>2. \A v \in Workers : pc'[v] = pc[v] /\ holding'[v] = holding[v]
      BY <1>3
    <2>3. \A v \in Workers : holding[v] # NoItem /\ pc[v] = "stopped" => holding[v] # i
      BY <1>1, <1>2 DEF Places
    <2>4. \A v \in Workers : holding[v] \in Items \cup {NoItem}
      BY <1>1 DEF TypeOK
    <2>5. \A v \in Workers :
            pc'[v] = "stopped" /\ holding'[v] # NoItem => fate'[holding'[v]] = "completed"
      BY <1>1, <1>2, <2>2, <2>3, <2>4 DEF Places
    <2> QED
      BY <1>1, <2>1, <2>2, <2>5 DEF Places
  <1> QED
    BY <1>6, <1>7, <1>8, <1>9, <1>10 DEF BooksInv, BooksBalance

\* A submit that waits, is refused, shed or cancelled leaves the queue alone.
LEMMA SubmitterBooks ==
  ASSUME IInv, NEW i \in Items, pc[i] \in {"new", "putting"},
         NEW s \in {"putting", "refused", "shed", "cancelled"},
         pc' = [pc EXCEPT ![i] = s], UNCHANGED <<items, unfinished, holding, fate, spawned>>,
         s = "refused" => pc[i] = "new" /\ stats' = stats,
         s = "shed" => pc[i] = "new" /\ stats' = [stats EXCEPT !.rejected = @ + 1],
         s = "putting" /\ pc[i] = "new" => stats' = [stats EXCEPT !.submitted = @ + 1],
         s = "putting" /\ pc[i] = "putting" => stats' = stats,
         s = "cancelled" => pc[i] = "putting" /\ stats' = stats
  PROVE  BooksInv'
  <1>1. TypeOK /\ Accounting /\ Backpressure /\ EachItemOnce /\ StatsReconcile /\ Places
    BY DEF IInv, BooksInv, BooksBalance
  <1>2. pc'[i] = s /\ \A t \in (Items \cup Workers) \ {i} : pc'[t] = pc[t]
    BY <1>1, PcMoves DEF TypeOK, Tasks
  <1>3. fate[i] = "none"
    BY <1>1 DEF Places
  <1>4. Accounting' /\ Backpressure'
    BY <1>1 DEF Accounting, Backpressure, Holders
  <1>5. EachItemOnce'
    <2>1. \A w \in Workers : pc'[w] = pc[w]
      BY <1>2
    <2>2. {w \in Workers : pc'[w] = "handle"} = {w \in Workers : pc[w] = "handle"}
      BY <2>1
    <2>3. \A states : WithFate(states)' = WithFate(states)
      BY DEF WithFate
    <2> QED
      BY <1>1, <2>2, <2>3 DEF EachItemOnce, Holders
  <1>6. StatsReconcile'
    <2>1. fate'[i] = "none" /\ \A x \in Items \ {i} : fate'[x] = fate[x] /\ pc'[x] = pc[x]
      BY <1>2, <1>3
    <2>2. stats' \in [submitted : Nat, completed : Nat, failed : Nat, rejected : Nat]
      <3>1. stats \in [submitted : Nat, completed : Nat, failed : Nat, rejected : Nat]
        BY <1>1 DEF TypeOK
      <3>2. \/ stats' = stats \/ stats' = [stats EXCEPT !.submitted = @ + 1]
            \/ stats' = [stats EXCEPT !.rejected = @ + 1]
        OBVIOUS
      <3> QED
        BY <3>1, <3>2
    <2>3. /\ stats'.completed = stats.completed /\ stats'.failed = stats.failed
          /\ stats'.rejected = stats.rejected + Bit(s = "shed")
          /\ stats'.submitted = stats.submitted + Bit(s = "putting" /\ pc[i] = "new")
          /\ stats.submitted \in Nat /\ stats.completed \in Nat /\ stats.failed \in Nat
          /\ stats.rejected \in Nat
      <3>1. stats \in [submitted : Nat, completed : Nat, failed : Nat, rejected : Nat]
        BY <1>1 DEF TypeOK
      <3>2. CASE s = "shed"
        <4>1. stats' = [stats EXCEPT !.rejected = @ + 1]
          BY <3>2
        <4> QED
          BY <3>1, <3>2, <4>1 DEF Bit
      <3>3. CASE s = "putting" /\ pc[i] = "new"
        <4>1. stats' = [stats EXCEPT !.submitted = @ + 1]
          BY <3>3
        <4> QED
          BY <3>1, <3>3, <4>1 DEF Bit
      <3>4. CASE s # "shed" /\ ~(s = "putting" /\ pc[i] = "new")
        <4>1. stats' = stats
          BY <3>4
        <4> QED
          BY <3>1, <3>4, <4>1 DEF Bit
      <3> QED
        BY <3>2, <3>3, <3>4
    <2> QED
      BY <1>1, <1>2, <1>3, <2>1, <2>2, <2>3, StatsFollow DEF Bit
  <1>7. Places'
    <2>1. \A x \in Items : fate'[x] = "none" <=> pc'[x] # "returned"
      BY <1>1, <1>2, <1>3 DEF Places
    <2>2. \A v \in Workers : pc'[v] = pc[v]
      BY <1>2
    <2> QED
      BY <1>1, <2>1, <2>2 DEF Places
  <1> QED
    BY <1>4, <1>5, <1>6, <1>7 DEF BooksInv, BooksBalance

\* The calls of a submit, from the first to its return.
LEMMA SubmitBooks ==
  ASSUME IInv, NEW i \in Items,
         Refuse(i) \/ Submit(i) \/ TrySubmit(i) \/ PutterWakes(i) \/ PutterCancelled(i)
  PROVE  BooksInv'
  <1>1. CASE Refuse(i)
    BY <1>1, SubmitterBooks DEF Refuse, queueVars, groupVars, workVars
  <1>2. CASE PutterCancelled(i)
    BY <1>2, SubmitterBooks DEF PutterCancelled, groupVars, workVars
  <1>3. CASE TrySubmit(i)
    BY <1>3, SubmitterBooks, EnqueueBooks DEF TrySubmit, groupVars
  <1>4. CASE Submit(i)
    BY <1>4, SubmitterBooks, EnqueueBooks DEF Submit, PutOrWait, groupVars
  <1>5. CASE PutterWakes(i)
    BY <1>5, SubmitterBooks, EnqueueBooks DEF PutterWakes, PutOrWait, groupVars
  <1> QED
    BY <1>1, <1>2, <1>3, <1>4, <1>5
\* A worker takes the oldest item, which nobody holds.
LEMMA TakeBooks ==
  ASSUME IInv, NEW w \in Workers, WorkerTakes(w)
  PROVE  BooksInv'
  <1>1. TypeOK /\ Accounting /\ Backpressure /\ EachItemOnce /\ StatsReconcile /\ Places
    BY DEF IInv, BooksInv, BooksBalance
  <1> DEFINE i == Head(items)
  <1>2. /\ items \in Seq(Items) /\ items # <<>> /\ items' = Tail(items)
        /\ fate \in [Items -> Fate] /\ fate' = [fate EXCEPT ![i] = "taken"]
        /\ holding \in [Workers -> Items \cup {NoItem}]
        /\ holding' = [holding EXCEPT ![w] = i]
        /\ pc[w] = "get" /\ pc' = [pc EXCEPT ![w] = "handle"]
        /\ UNCHANGED <<unfinished, stats, spawned>> /\ unfinished \in Nat
    BY <1>1 DEF TypeOK, WorkerTakes, groupVars
  <1>3. /\ i \in Items /\ i = items[1] /\ Len(items) \in Nat \ {0}
        /\ Len(items') = Len(items) - 1
        /\ \A k \in 1 .. Len(items') : items'[k] = items[k + 1]
        /\ DOMAIN items = 1 .. Len(items) /\ DOMAIN items' = 1 .. (Len(items) - 1)
    BY <1>2
  <1>4. pc'[w] = "handle" /\ \A t \in (Items \cup Workers) \ {w} : pc'[t] = pc[t]
    BY <1>1, <1>2, PcMoves DEF TypeOK, Tasks
  <1>5. i \in ToSet(items) /\ fate[i] = "queued" /\ i # NoItem
    <2>1. i \in ToSet(items)
      BY <1>3 DEF ToSet
    <2> QED
      BY <1>1, <1>3, <2>1 DEF EachItemOnce, WithFate
  <1>6. holding[w] = NoItem
    BY <1>1, <1>2 DEF Places
  <1>7. \A v \in Holders : holding[v] # i
    <2> TAKE v \in Holders
    <2>1. pc[v] \in {"handle", "stopped"} /\ v \in Workers /\ holding[v] # NoItem
      BY <1>1 DEF Holders, TypeOK, WorkerState, Places
    <2>2. CASE pc[v] = "handle"
      BY <1>1, <1>5, <2>1, <2>2 DEF EachItemOnce, WithFate
    <2>3. CASE pc[v] = "stopped"
      BY <1>1, <1>5, <2>1, <2>3 DEF Places
    <2> QED
      BY <2>1, <2>2, <2>3
  <1> HIDE DEF i
  <1>8. Holders' = Holders \cup {w} /\ Cardinality(Holders)' = Cardinality(Holders) + 1
    BY <1>2, <1>3, <1>6, HolderComes
  <1>9. Accounting'
    <2>1. Cardinality(Holders) \in Nat
      BY Counted
    <2> QED
      BY <1>1, <1>2, <1>3, <1>8, <2>1 DEF Accounting
  <1>10. Backpressure'
    BY <1>1, <1>3 DEF Backpressure
  <1>11. EachItemOnce'
    <2>1. \A j, k \in DOMAIN items' : items'[j] = items'[k] => j = k
      <3> SUFFICES ASSUME NEW j \in DOMAIN items', NEW k \in DOMAIN items', items'[j] = items'[k]
                   PROVE  j = k
        OBVIOUS
      <3>1. j + 1 \in DOMAIN items /\ k + 1 \in DOMAIN items /\ items[j + 1] = items[k + 1]
            /\ j \in Nat /\ k \in Nat
        BY <1>3
      <3>2. j + 1 = k + 1
        BY <1>1, <3>1 DEF EachItemOnce
      <3> QED
        BY <3>1, <3>2
    <2>2. \A k \in DOMAIN items' : items'[k] # i
      <3> SUFFICES ASSUME NEW k \in DOMAIN items', items'[k] = i PROVE FALSE
        OBVIOUS
      <3>1. k + 1 \in DOMAIN items /\ 1 \in DOMAIN items /\ items[k + 1] = items[1] /\ k \in Nat
            /\ k + 1 # 1
        BY <1>3
      <3> QED
        BY <1>1, <3>1 DEF EachItemOnce
    <2>3. ToSet(items') = ToSet(items) \ {i}
      <3>1. ASSUME NEW x \in ToSet(items'), x \notin ToSet(items) \ {i} PROVE FALSE
        <4>1. PICK k \in DOMAIN items' : x = items'[k]
          BY <3>1 DEF ToSet
        <4>2. k + 1 \in DOMAIN items /\ items[k + 1] = x
          BY <1>3, <4>1
        <4> QED
          BY <2>2, <3>1, <4>1, <4>2 DEF ToSet
      <3>2. ASSUME NEW x \in ToSet(items) \ {i} PROVE x \in ToSet(items')
        <4>1. PICK k \in DOMAIN items : x = items[k]
          BY <3>2 DEF ToSet
        <4>2. k # 1
          BY <1>3, <3>2, <4>1
        <4>3. k - 1 \in DOMAIN items' /\ items'[k - 1] = items[(k - 1) + 1] /\ (k - 1) + 1 = k
          BY <1>3, <4>1, <4>2
        <4> QED
          BY <4>1, <4>3 DEF ToSet
      <3> QED
        BY <3>1, <3>2
    <2>4. WithFate({"queued"})' = WithFate({"queued"}) \ {i}
      BY <1>2 DEF WithFate, i
    <2>5. WithFate({"taken"})' = WithFate({"taken"}) \cup {i}
      BY <1>2, <1>3 DEF WithFate, i
    <2>6. {holding'[v] : v \in {u \in Workers : pc'[u] = "handle"}}
            = {holding[v] : v \in {u \in Workers : pc[u] = "handle"}} \cup {i}
      <3>1. {u \in Workers : pc'[u] = "handle"} = {u \in Workers : pc[u] = "handle"} \cup {w}
        BY <1>4
      <3>2. \A v \in {u \in Workers : pc[u] = "handle"} : holding'[v] = holding[v]
        BY <1>2
      <3>3. holding'[w] = i
        BY <1>2 DEF i
      <3> QED
        BY <3>1, <3>2, <3>3
    <2>7. \A v, u \in Holders' : holding'[v] = holding'[u] => v = u
      <3>1. holding'[w] = i /\ \A v \in Workers \ {w} : holding'[v] = holding[v]
        BY <1>2 DEF i
      <3>2. Holders \subseteq Workers
        BY DEF Holders
      <3> QED
        BY <1>1, <1>7, <1>8, <3>1, <3>2 DEF EachItemOnce
    <2> QED
      BY <1>1, <2>1, <2>3, <2>4, <2>5, <2>6, <2>7 DEF EachItemOnce
  <1>12. StatsReconcile'
    <2>1. /\ fate'[i] = "taken" /\ \A x \in Items \ {i} : fate'[x] = fate[x]
          /\ \A x \in Items : pc'[x] = pc[x]
      BY <1>2, <1>3, <1>4 DEF i
    <2>2. stats' \in [submitted : Nat, completed : Nat, failed : Nat, rejected : Nat]
      BY <1>1, <1>2 DEF TypeOK
    <2>3. /\ stats.submitted \in Nat /\ stats.completed \in Nat /\ stats.failed \in Nat
          /\ stats.rejected \in Nat
      BY <1>1 DEF TypeOK
    <2>4. /\ ~(fate[i] \in {"completed"}) /\ ~(fate'[i] \in {"completed"})
          /\ ~(fate[i] \in {"failed"}) /\ ~(fate'[i] \in {"failed"})
          /\ fate[i] \in {"queued", "taken", "interrupted"}
          /\ fate'[i] \in {"queued", "taken", "interrupted"}
      BY <1>5, <2>1
    <2>5. /\ stats'.submitted - stats'.completed - stats'.failed
               + Bit(fate[i] \in {"queued", "taken", "interrupted"})
               + Bit(pc[i] \in {"putting", "cancelled"})
             = stats.submitted - stats.completed - stats.failed
               + Bit(fate'[i] \in {"queued", "taken", "interrupted"})
               + Bit(pc'[i] \in {"putting", "cancelled"})
          /\ stats'.completed + Bit(fate[i] \in {"completed"})
               = stats.completed + Bit(fate'[i] \in {"completed"})
          /\ stats'.failed + Bit(fate[i] \in {"failed"})
               = stats.failed + Bit(fate'[i] \in {"failed"})
          /\ stats'.rejected + Bit(pc[i] \in {"shed"})
               = stats.rejected + Bit(pc'[i] \in {"shed"})
      BY <1>2, <1>3, <2>1, <2>3, <2>4 DEF Bit
    <2> QED
      BY <1>1, <1>3, <2>1, <2>2, <2>5, StatsFollow
  <1>13. Places'
    <2>1. \A x \in Items : fate'[x] = "none" <=> pc'[x] # "returned"
      BY <1>1, <1>2, <1>3, <1>4, <1>5 DEF Places, i
    <2>2. ASSUME NEW v \in Workers
          PROVE  /\ pc'[v] \in {"unborn", "get"} => holding'[v] = NoItem
                 /\ pc'[v] = "handle" => holding'[v] # NoItem
                 /\ pc'[v] = "stopped" /\ holding'[v] # NoItem => fate'[holding'[v]] = "completed"
                 /\ v > spawned' => pc'[v] = "unborn"
      <3>1. CASE v = w
        BY <1>1, <1>2, <1>4, <1>5, <3>1 DEF Places, i
      <3>2. CASE v # w
        <4>1. pc'[v] = pc[v] /\ holding'[v] = holding[v] /\ spawned' = spawned
          BY <1>2, <1>4, <3>2
        <4>2. holding[v] # NoItem => fate'[holding[v]] = fate[holding[v]]
          <5>1. holding[v] # NoItem => v \in Holders /\ holding[v] \in Items
            BY <1>2 DEF Holders
          <5> QED
            BY <1>2, <1>7, <5>1 DEF i
        <4> QED
          BY <1>1, <4>1, <4>2 DEF Places
      <3> QED
        BY <3>1, <3>2
    <2> QED
      BY <2>1, <2>2 DEF Places
  <1> QED
    BY <1>9, <1>10, <1>11, <1>12, <1>13 DEF BooksInv, BooksBalance
\* A handler ends, one way or another, and its item is given up or, when
\* on_result raises, kept by a worker that is no more.
LEMMA HandlerBooks ==
  ASSUME IInv, NEW w \in Workers, NEW new \in {"completed", "failed", "interrupted"},
         pc[w] = "handle", NEW s \in {"get", "stopped"}, pc' = [pc EXCEPT ![w] = s],
         fate' = [fate EXCEPT ![holding[w]] = new], UNCHANGED <<items, spawned>>,
         new = "completed" => stats' = [stats EXCEPT !.completed = @ + 1],
         new = "failed" => stats' = [stats EXCEPT !.failed = @ + 1],
         new = "interrupted" => stats' = stats,
         \/ TaskDone(w)
         \/ new = "completed" /\ s = "stopped" /\ UNCHANGED <<unfinished, holding>>
  PROVE  BooksInv' /\ unfinished' \in Nat
  <1>1. TypeOK /\ Accounting /\ Backpressure /\ EachItemOnce /\ StatsReconcile /\ Places
    BY DEF IInv, BooksInv, BooksBalance
  <1> DEFINE i == holding[w]
  <1>2. /\ fate \in [Items -> Fate] /\ holding \in [Workers -> Items \cup {NoItem}]
        /\ items \in Seq(Items) /\ unfinished \in Nat /\ Len(items) \in Nat
        /\ fate' = [fate EXCEPT ![i] = new]
    BY <1>1 DEF TypeOK
  <1>3. pc'[w] = s /\ \A t \in (Items \cup Workers) \ {w} : pc'[t] = pc[t]
    BY <1>1, PcMoves DEF TypeOK, Tasks
  <1>4. i \in Items /\ i # NoItem /\ w \in Holders
    BY <1>1, <1>2 DEF Places, Holders
  <1>5. fate[i] = "taken"
    BY <1>1 DEF EachItemOnce, WithFate
  <1>6. \A v \in Holders \ {w} : holding[v] # i
    BY <1>1, <1>4 DEF EachItemOnce
  <1>7. \/ /\ TaskDone(w)
           /\ holding' = [holding EXCEPT ![w] = NoItem]
           /\ unfinished' = unfinished - 1
           /\ Holders' = Holders \ {w} /\ Cardinality(Holders)' = Cardinality(Holders) - 1
           /\ Cardinality(Holders) > 0
        \/ /\ UNCHANGED <<unfinished, holding>> /\ s = "stopped" /\ new = "completed"
           /\ Holders' = Holders
    <2>1. CASE TaskDone(w)
      <3>1. holding' = [holding EXCEPT ![w] = NoItem] /\ unfinished' = unfinished - 1
        BY <2>1 DEF TaskDone
      <3>2. /\ Holders' = Holders \ {w} /\ Cardinality(Holders)' = Cardinality(Holders) - 1
            /\ Cardinality(Holders) > 0
        BY <1>2, <1>4, <3>1, HolderGoes
      <3> QED
        BY <2>1, <3>1, <3>2
    <2>2. CASE new = "completed" /\ s = "stopped" /\ UNCHANGED <<unfinished, holding>>
      BY <2>2 DEF Holders
    <2> QED
      BY <2>1, <2>2
  <1>8. Cardinality(Holders) \in Nat
    BY Counted
  <1> HIDE DEF i
  <1>9. Accounting' /\ unfinished' \in Nat
    BY <1>1, <1>2, <1>7, <1>8 DEF Accounting
  <1>10. Backpressure'
    BY <1>1 DEF Backpressure
  <1>11. EachItemOnce'
    <2>1. WithFate({"queued"})' = WithFate({"queued"})
      BY <1>2, <1>4, <1>5 DEF WithFate
    <2>2. WithFate({"taken"})' = WithFate({"taken"}) \ {i}
      BY <1>2, <1>4, <1>5 DEF WithFate
    <2>3. {u \in Workers : pc'[u] = "handle"} = {u \in Workers : pc[u] = "handle"} \ {w}
      BY <1>3
    <2>4. \A v \in Workers \ {w} : holding'[v] = holding[v]
      BY <1>2, <1>7
    <2>5. \A v \in {u \in Workers : pc[u] = "handle"} : v \in Holders
      BY <1>1 DEF Places, Holders
    <2>6. {holding'[v] : v \in {u \in Workers : pc'[u] = "handle"}}
            = {holding[v] : v \in {u \in Workers : pc[u] = "handle"}} \ {i}
      <3>1. \A v \in {u \in Workers : pc'[u] = "handle"} :
              holding'[v] = holding[v] /\ holding[v] # i
        BY <1>6, <2>3, <2>4, <2>5
      <3>2. \A v \in {u \in Workers : pc[u] = "handle"} :
              holding[v] # i => v \in {u \in Workers : pc'[u] = "handle"}
        BY <2>3 DEF i
      <3> QED
        BY <2>3, <3>1, <3>2
    <2>7. \A v, u \in Holders' : holding'[v] = holding'[u] => v = u
      <3>1. Holders' \subseteq Holders /\ \A v \in Holders' : holding'[v] = holding[v]
        <4>1. CASE Holders' = Holders /\ UNCHANGED holding
          BY <4>1
        <4>2. CASE Holders' = Holders \ {w}
          BY <2>4, <4>2 DEF Holders
        <4> QED
          BY <1>7, <4>1, <4>2
      <3> QED
        BY <1>1, <3>1 DEF EachItemOnce
    <2> QED
      BY <1>1, <2>1, <2>2, <2>6, <2>7 DEF EachItemOnce
  <1>12. StatsReconcile'
    <2>1. /\ fate'[i] = new /\ \A x \in Items \ {i} : fate'[x] = fate[x]
          /\ \A x \in Items : pc'[x] = pc[x]
      BY <1>2, <1>3, <1>4
    <2>2. stats' \in [submitted : Nat, completed : Nat, failed : Nat, rejected : Nat]
      <3>1. stats \in [submitted : Nat, completed : Nat, failed : Nat, rejected : Nat]
        BY <1>1 DEF TypeOK
      <3>2. \/ stats' = stats \/ stats' = [stats EXCEPT !.completed = @ + 1]
            \/ stats' = [stats EXCEPT !.failed = @ + 1]
        OBVIOUS
      <3> QED
        BY <3>1, <3>2
    <2>3. /\ stats.submitted \in Nat /\ stats.completed \in Nat /\ stats.failed \in Nat
          /\ stats.rejected \in Nat
          /\ stats'.completed = stats.completed + Bit(new = "completed")
          /\ stats'.failed = stats.failed + Bit(new = "failed")
          /\ stats'.rejected = stats.rejected
          /\ stats'.submitted = stats.submitted
      <3>1. stats \in [submitted : Nat, completed : Nat, failed : Nat, rejected : Nat]
        BY <1>1 DEF TypeOK
      <3>2. CASE new = "completed"
        <4>1. stats' = [stats EXCEPT !.completed = @ + 1]
          BY <3>2
        <4> QED
          BY <3>1, <3>2, <4>1 DEF Bit
      <3>3. CASE new = "failed"
        <4>1. stats' = [stats EXCEPT !.failed = @ + 1]
          BY <3>3
        <4> QED
          BY <3>1, <3>3, <4>1 DEF Bit
      <3>4. CASE new = "interrupted"
        <4>1. stats' = stats
          BY <3>4
        <4> QED
          BY <3>1, <3>4, <4>1 DEF Bit
      <3> QED
        BY <3>2, <3>3, <3>4
    <2>4. /\ ~(fate[i] \in {"completed"}) /\ ~(fate[i] \in {"failed"})
          /\ fate'[i] \in {"completed"} <=> new = "completed"
          /\ fate'[i] \in {"failed"} <=> new = "failed"
          /\ fate[i] \in {"queued", "taken", "interrupted"}
          /\ fate'[i] \in {"queued", "taken", "interrupted"} <=> new = "interrupted"
          /\ pc'[i] = pc[i]
      BY <1>4, <1>5, <2>1
    <2>5. CASE new = "completed"
      <3>1. /\ stats'.submitted - stats'.completed - stats'.failed
                 + Bit(fate[i] \in {"queued", "taken", "interrupted"})
                 + Bit(pc[i] \in {"putting", "cancelled"})
               = stats.submitted - stats.completed - stats.failed
                 + Bit(fate'[i] \in {"queued", "taken", "interrupted"})
                 + Bit(pc'[i] \in {"putting", "cancelled"})
            /\ stats'.completed + Bit(fate[i] \in {"completed"})
                 = stats.completed + Bit(fate'[i] \in {"completed"})
            /\ stats'.failed + Bit(fate[i] \in {"failed"})
                 = stats.failed + Bit(fate'[i] \in {"failed"})
            /\ stats'.rejected + Bit(pc[i] \in {"shed"})
                 = stats.rejected + Bit(pc'[i] \in {"shed"})
        BY <2>3, <2>4, <2>5 DEF Bit
      <3> QED
        BY <1>1, <1>4, <2>1, <2>2, <3>1, StatsFollow
    <2>6. CASE new = "failed"
      <3>1. /\ stats'.submitted - stats'.completed - stats'.failed
                 + Bit(fate[i] \in {"queued", "taken", "interrupted"})
                 + Bit(pc[i] \in {"putting", "cancelled"})
               = stats.submitted - stats.completed - stats.failed
                 + Bit(fate'[i] \in {"queued", "taken", "interrupted"})
                 + Bit(pc'[i] \in {"putting", "cancelled"})
            /\ stats'.completed + Bit(fate[i] \in {"completed"})
                 = stats.completed + Bit(fate'[i] \in {"completed"})
            /\ stats'.failed + Bit(fate[i] \in {"failed"})
                 = stats.failed + Bit(fate'[i] \in {"failed"})
            /\ stats'.rejected + Bit(pc[i] \in {"shed"})
                 = stats.rejected + Bit(pc'[i] \in {"shed"})
        BY <2>3, <2>4, <2>6 DEF Bit
      <3> QED
        BY <1>1, <1>4, <2>1, <2>2, <3>1, StatsFollow
    <2>7. CASE new = "interrupted"
      <3>1. /\ stats'.submitted - stats'.completed - stats'.failed
                 + Bit(fate[i] \in {"queued", "taken", "interrupted"})
                 + Bit(pc[i] \in {"putting", "cancelled"})
               = stats.submitted - stats.completed - stats.failed
                 + Bit(fate'[i] \in {"queued", "taken", "interrupted"})
                 + Bit(pc'[i] \in {"putting", "cancelled"})
            /\ stats'.completed + Bit(fate[i] \in {"completed"})
                 = stats.completed + Bit(fate'[i] \in {"completed"})
            /\ stats'.failed + Bit(fate[i] \in {"failed"})
                 = stats.failed + Bit(fate'[i] \in {"failed"})
            /\ stats'.rejected + Bit(pc[i] \in {"shed"})
                 = stats.rejected + Bit(pc'[i] \in {"shed"})
        BY <2>3, <2>4, <2>7 DEF Bit
      <3> QED
        BY <1>1, <1>4, <2>1, <2>2, <3>1, StatsFollow
    <2> QED
      BY <2>5, <2>6, <2>7
  <1>13. Places'
    <2>1. \A x \in Items : fate'[x] = "none" <=> pc'[x] # "returned"
      BY <1>1, <1>2, <1>3, <1>4, <1>5 DEF Places
    <2>2. ASSUME NEW v \in Workers
          PROVE  /\ pc'[v] \in {"unborn", "get"} => holding'[v] = NoItem
                 /\ pc'[v] = "handle" => holding'[v] # NoItem
                 /\ pc'[v] = "stopped" /\ holding'[v] # NoItem => fate'[holding'[v]] = "completed"
                 /\ v > spawned' => pc'[v] = "unborn"
      <3>1. CASE v = w
        <4>1. pc'[w] = s /\ ~(w > spawned)
          BY <1>1, <1>3 DEF Places
        <4>2. CASE holding' = [holding EXCEPT ![w] = NoItem]
          BY <1>2, <3>1, <4>1, <4>2
        <4>3. CASE UNCHANGED holding /\ s = "stopped" /\ new = "completed"
          BY <1>2, <1>4, <3>1, <4>1, <4>3 DEF i
        <4> QED
          BY <1>7, <4>2, <4>3
      <3>2. CASE v # w
        <4>1. pc'[v] = pc[v] /\ holding'[v] = holding[v] /\ spawned' = spawned
          BY <1>2, <1>3, <1>7, <3>2
        <4>2. holding[v] # NoItem => fate'[holding[v]] = fate[holding[v]]
          <5>1. holding[v] # NoItem => v \in Holders /\ holding[v] \in Items
            BY <1>2 DEF Holders
          <5> QED
            BY <1>2, <1>6, <3>2, <5>1
        <4> QED
          BY <1>1, <4>1, <4>2 DEF Places
      <3> QED
        BY <3>1, <3>2
    <2> QED
      BY <2>1, <2>2 DEF Places
  <1> QED
    BY <1>9, <1>10, <1>11, <1>12, <1>13 DEF BooksInv, BooksBalance
\* How a handler can end.
LEMMA HandlerEndBooks ==
  ASSUME IInv, NEW w \in Workers,
         HandlerReturns(w) \/ HandlerRaises(w) \/ HandlerCancelled(w)
  PROVE  BooksInv' /\ unfinished' \in Nat
  <1>1. CASE HandlerReturns(w)
    BY <1>1, HandlerBooks DEF HandlerReturns, WorkerStops, groupVars
  <1>2. CASE HandlerRaises(w)
    BY <1>2, HandlerBooks DEF HandlerRaises, groupVars
  <1>3. CASE HandlerCancelled(w)
    BY <1>3, HandlerBooks DEF HandlerCancelled, WorkerStops, groupVars
  <1> QED
    BY <1>1, <1>2, <1>3

\* A worker that waits, or is cancelled while it has nothing.
LEMMA GetterBooks ==
  ASSUME IInv, NEW w \in Workers, WorkerWaits(w) \/ GetterCancelled(w)
  PROVE  BooksInv' /\ unfinished' \in Nat
  <1>1. TypeOK /\ BooksInv /\ Places
    BY DEF IInv, BooksInv
  <1>2. /\ UNCHANGED <<items, unfinished, holding, stats, fate, spawned>> /\ pc[w] = "get"
        /\ UNCHANGED pc \/ pc' = [pc EXCEPT ![w] = "stopped"]
    BY DEF WorkerWaits, GetterCancelled, WorkerStops, groupVars, workVars
  <1>3. pc'[w] \in {"get", "stopped"} /\ \A t \in (Items \cup Workers) \ {w} : pc'[t] = pc[t]
    BY <1>1, <1>2, PcMoves DEF TypeOK, Tasks
  <1>4. Places'
    BY <1>1, <1>2, <1>3 DEF Places
  <1>5. unfinished' \in Nat
    BY <1>1, <1>2 DEF TypeOK
  <1> QED
    BY <1>1, <1>2, <1>3, <1>4, <1>5, BooksKept

\* New workers have nothing in hand.
LEMMA StartBooks ==
  ASSUME IInv, Start
  PROVE  BooksInv'
  <1>1. TypeOK /\ BooksInv /\ Places
    BY DEF IInv, BooksInv
  <1> DEFINE born == (spawned + 1) .. (spawned + PoolSize)
  <1>2. /\ UNCHANGED <<items, unfinished, holding, stats, fate>>
        /\ spawned' = spawned + PoolSize /\ spawned \in Nat
        /\ pc' = [t \in Tasks |-> IF t \in born THEN "get" ELSE pc[t]]
    BY <1>1 DEF Start, queueVars, workVars, TypeOK
  <1>3. born \subseteq Workers
    <2>1. spawned + PoolSize \in Workers
      BY DEF Start
    <2> QED
      BY <1>2, <2>1 DEF Workers
  <1>4. \A w \in born : w > spawned /\ pc[w] = "unborn" /\ holding[w] = NoItem
    BY <1>1, <1>2, <1>3 DEF Places
  <1>5. \A i \in Items : pc'[i] = pc[i]
    BY <1>2, <1>3 DEF Tasks
  <1>6. \A w \in Workers : pc'[w] = IF w \in born THEN "get" ELSE pc[w]
    BY <1>2 DEF Tasks
  <1>7. \A w \in Workers : w > spawned' => w > spawned /\ w \notin born
    BY <1>2 DEF Workers
  <1> HIDE DEF born
  <1>8. Places'
    BY <1>1, <1>2, <1>4, <1>5, <1>6, <1>7 DEF Places
  <1> QED
    BY <1>1, <1>2, <1>4, <1>5, <1>6, <1>8, BooksKept

\* The books balance when nothing has been submitted.
LEMMA InitBooks == Init => BooksInv
  <1> SUFFICES ASSUME Init PROVE BooksInv
    OBVIOUS
  <1>1. Holders = {} /\ \A states : "none" \notin states => WithFate(states) = {}
    BY DEF Init, Holders, WithFate
  <1>2. \A i \in Items : pc[i] = "new"
    BY DEF Init, Tasks
  <1>3. \A w \in Workers : pc[w] = "unborn"
    BY DEF Init, Tasks
  <1>4. Cardinality({}) = 0
    BY FS_EmptySet
  <1>5. Accounting /\ Backpressure
    BY <1>1, <1>4 DEF Init, Accounting, Backpressure
  <1>6. EachItemOnce
    <2>1. ToSet(items) = {}
      BY DEF Init, ToSet
    <2>2. {w \in Workers : pc[w] = "handle"} = {}
      BY <1>3
    <2>3. \A j, k \in DOMAIN items : items[j] = items[k] => j = k
      BY DEF Init
    <2> QED
      BY <1>1, <2>1, <2>2, <2>3 DEF EachItemOnce
  <1>7. StatsReconcile
    <2>1. {i \in Items : pc[i] = "shed"} = {} /\ {i \in Items : pc[i] \in {"putting", "cancelled"}} = {}
      BY <1>2
    <2>2. /\ WithFate({"completed"}) = {} /\ WithFate({"failed"}) = {}
          /\ WithFate({"queued", "taken", "interrupted"}) = {}
      BY <1>1
    <2>3. /\ stats.completed = 0 /\ stats.failed = 0 /\ stats.rejected = 0
          /\ stats.submitted = 0
      BY DEF Init
    <2> QED
      BY <1>4, <2>1, <2>2, <2>3 DEF StatsReconcile
  <1>8. Places
    BY <1>2, <1>3 DEF Init, Places
  <1> QED
    BY <1>5, <1>6, <1>7, <1>8 DEF BooksInv, BooksBalance

\* No step upsets the books, and no item is marked done twice.
LEMMA StepBooks ==
  ASSUME IInv, [Next]_vars
  PROVE  BooksInv' /\ unfinished' \in Nat
  <1>0. TypeOK /\ BooksInv /\ unfinished \in Nat
    BY DEF IInv, TypeOK
  <1>1. ASSUME NEW w \in Workers, WorkerStep(w) PROVE BooksInv' /\ unfinished' \in Nat
    <2>1. CASE WorkerTakes(w)
      BY <1>0, <2>1, TakeBooks DEF WorkerTakes
    <2> QED
      BY <1>1, <2>1, HandlerEndBooks, GetterBooks DEF WorkerStep
  <1>2. ASSUME NEW i \in Items,
               SubmitStep(i) \/ Refuse(i) \/ Submit(i) \/ TrySubmit(i)
        PROVE  BooksInv' /\ unfinished' \in Nat
    <2>1. BooksInv'
      BY <1>2, SubmitBooks DEF SubmitStep
    <2>2. unfinished' = unfinished \/ unfinished' = unfinished + 1
      BY <1>2 DEF SubmitStep, Refuse, Submit, TrySubmit, PutterWakes, PutterCancelled,
                  PutOrWait, Enqueue, queueVars
    <2> QED
      BY <1>0, <2>1, <2>2
  <1>3. ASSUME NEW c \in Callers,
               CallerStep(c) \/ \E what \in Operations : Call(c, what)
        PROVE  BooksInv' /\ unfinished' \in Nat
    <2>1. unfinished' = unfinished
      BY <1>3 DEF CallerStep, JoinerWakes, GatherCompletes, CloseReturns, CallerCancelled,
                  Call, queueVars
    <2> QED
      BY <1>0, <1>3, <2>1, CallBooks
  <1>4. CASE Start
    BY <1>0, <1>4, StartBooks DEF Start, queueVars
  <1>5. ASSUME UNCHANGED <<items, unfinished, holding, stats, fate, spawned, pc>>
        PROVE  BooksInv' /\ unfinished' \in Nat
    BY <1>0, <1>5, BooksStand
  <1>6. ASSUME NEW t \in Cancellable, Cancel(t) PROVE BooksInv' /\ unfinished' \in Nat
    BY <1>5, <1>6 DEF Cancel, groupVars, workVars
  <1>7. ASSUME NEW w \in Workers, HandlerWakes(w) PROVE BooksInv' /\ unfinished' \in Nat
    BY <1>5, <1>7 DEF HandlerWakes, queueVars, groupVars, workVars
  <1>8. CASE UNCHANGED vars
    BY <1>5, <1>8 DEF vars, queueVars, groupVars, workVars
  <1> QED
    BY <1>1, <1>2, <1>3, <1>4, <1>6, <1>7, <1>8 DEF Next, LoopStep, Application

-----------------------------------------------------------------------------
(* The theorems *)

LEMMA Invariant == Spec => []IInv
  <1>1. Init => IInv
    BY InitTypes, InitBooks DEF IInv
  <1>2. IInv /\ [Next]_vars => IInv'
    BY StepBooks, StepTypes DEF IInv
  <1> QED
    BY <1>1, <1>2, PTL DEF Spec

\* Every variable of the pool keeps its type: in particular task_done is never
\* called once too often, which would raise ValueError in the worker.
THEOREM TypeCorrect == Spec => []TypeOK
  <1>1. IInv => TypeOK
    BY DEF IInv
  <1> QED
    BY <1>1, Invariant, PTL

\* The backlog is bounded, counted exactly and free of duplicates, and PoolStats
\* reconcile with what became of every item, whatever the handlers, on_result
\* and the callers of join and aclose do.
THEOREM Books == Spec => []BooksBalance
  <1>1. IInv => BooksBalance
    BY DEF IInv, BooksInv
  <1> QED
    BY <1>1, Invariant, PTL
-----------------------------------------------------------------------------
(* The pool implements its contract *)

\* The life of an item, read from its fate and its submit.
LifeReads(i) ==
  /\ pc[i] = "returned" /\ fate[i] = "queued" => Life(i) = "backlog"
  /\ pc[i] = "returned" /\ fate[i] = "taken" => Life(i) = "inHand"
  /\ pc[i] = "returned" /\ fate[i] \in {"completed", "failed", "interrupted"}
       => Life(i) = fate[i]
  /\ fate[i] = "none" /\ pc[i] = "putting" => Life(i) = "blocked"
  /\ fate[i] = "none" /\ pc[i] = "cancelled" => Life(i) = "withdrawn"
  /\ fate[i] = "none" /\ pc[i] \in {"new", "refused", "shed"} => Life(i) = pc[i]

\* The contract's state of an item, read off its place, before and after a
\* step.
LEMMA LifeRead == \A i \in Items : LifeReads(i) /\ LifeReads(i)'
  <1> TAKE i \in Items
  <1>1. LifeReads(i)
    <2>1. /\ pc[i] = "returned" /\ fate[i] = "queued" => Life(i) = "backlog"
          /\ pc[i] = "returned" /\ fate[i] = "taken" => Life(i) = "inHand"
      BY DEF Life
    <2>2. pc[i] = "returned" /\ fate[i] \in {"completed", "failed", "interrupted"} => Life(i) = fate[i]
      BY DEF Life
    <2>3. /\ fate[i] = "none" /\ pc[i] = "putting" => Life(i) = "blocked"
          /\ fate[i] = "none" /\ pc[i] = "cancelled" => Life(i) = "withdrawn"
      BY DEF Life
    <2>4. fate[i] = "none" /\ pc[i] \in {"new", "refused", "shed"} => Life(i) = pc[i]
      BY DEF Life
    <2> QED
      BY <2>1, <2>2, <2>3, <2>4 DEF LifeReads
  <1>2. LifeReads(i)'
    <2>1. /\ pc'[i] = "returned" /\ fate'[i] = "queued" => Life(i)' = "backlog"
          /\ pc'[i] = "returned" /\ fate'[i] = "taken" => Life(i)' = "inHand"
      BY DEF Life
    <2>2. pc'[i] = "returned" /\ fate'[i] \in {"completed", "failed", "interrupted"} => Life(i)' = fate'[i]
      BY DEF Life
    <2>3. /\ fate'[i] = "none" /\ pc'[i] = "putting" => Life(i)' = "blocked"
          /\ fate'[i] = "none" /\ pc'[i] = "cancelled" => Life(i)' = "withdrawn"
      BY DEF Life
    <2>4. fate'[i] = "none" /\ pc'[i] \in {"new", "refused", "shed"} => Life(i)' = pc'[i]
      BY DEF Life
    <2> QED
      BY <2>1, <2>2, <2>3, <2>4 DEF LifeReads
  <1> QED
    BY <1>1, <1>2

\* A step that touches one item moves only that one on.
LEMMA LifeMoves ==
  ASSUME NEW i \in Items, \A x \in Items \ {i} : pc'[x] = pc[x] /\ fate'[x] = fate[x],
         NEW s, Life(i)' = s
  PROVE  Contract!Becomes(i, s)
  <1>1. \A x \in Items \ {i} : Life(x)' = Life(x)
    BY DEF Life
  <1>2. [x \in Items |-> Life(x)]' = [[x \in Items |-> Life(x)] EXCEPT ![i] = s]
    BY <1>1
  <1> QED
    BY <1>2 DEF Contract!Becomes

\* A step that touches no item is none of the contract's business.
LEMMA LifeStays ==
  ASSUME \A x \in Items : pc'[x] = pc[x] /\ fate'[x] = fate[x], items' = items,
         closed' = closed \/ closed'
  PROVE  Contract!Close \/ UNCHANGED Contract!contractVars
  <1>1. [x \in Items |-> Life(x)]' = [x \in Items |-> Life(x)]
    BY DEF Life
  <1> QED
    BY <1>1 DEF Contract!Close, Contract!contractVars

\* The life of an item whose submit has something left to do.
LEMMA LifeOfSubmit ==
  ASSUME Places, NEW i \in Items, pc[i] \in {"new", "putting"}
  PROVE  /\ fate[i] = "none"
         /\ pc[i] = "new" => Life(i) = "new"
         /\ pc[i] = "putting" => Life(i) = "blocked"
  <1>1. fate[i] = "none"
    BY DEF Places
  <1> QED
    BY <1>1, LifeRead DEF LifeReads

\* Letting an item in.
LEMMA EnqueueImplements ==
  ASSUME IInv, NEW i \in Items, pc[i] = "putting" \/ (pc[i] = "new" /\ ~closed), ~Full,
         Enqueue(i), pc' = [pc EXCEPT ![i] = "returned"], UNCHANGED closed
  PROVE  Contract!Accept(i)
  <1>1. TypeOK /\ Places /\ Len(items) \in Nat /\ fate \in [Items -> Fate]
    BY DEF IInv, BooksInv, TypeOK
  <1>2. Life(i) = "blocked" \/ (Life(i) = "new" /\ ~closed)
    BY <1>1, LifeOfSubmit
  <1>3. /\ \A x \in Items \ {i} : pc'[x] = pc[x] /\ fate'[x] = fate[x]
        /\ fate'[i] = "queued" /\ pc'[i] = "returned"
    BY <1>1, PcMoves DEF TypeOK, Tasks, Enqueue
  <1>4. Life(i)' = "backlog"
    BY <1>3, LifeRead DEF LifeReads
  <1>5. Contract!Becomes(i, "backlog")
    BY <1>3, <1>4, LifeMoves
  <1>6. Len(items) < MaxSize /\ items' = Append(items, i)
    BY <1>1 DEF Full, Enqueue
  <1> QED
    BY <1>2, <1>5, <1>6 DEF Contract!Accept

\* A submit's way: let in, made to wait, turned away, or withdrawn.
LEMMA SubmitImplements ==
  ASSUME IInv, NEW i \in Items,
         Refuse(i) \/ Submit(i) \/ TrySubmit(i) \/ PutterWakes(i) \/ PutterCancelled(i)
  PROVE  Contract!Next \/ UNCHANGED Contract!contractVars
  <1>1. TypeOK /\ Places /\ Len(items) \in Nat
    BY DEF IInv, BooksInv, TypeOK
  <1>2. pc[i] \in {"new", "putting"} /\ UNCHANGED closed
    BY DEF Refuse, Submit, TrySubmit, PutterWakes, PutterCancelled, groupVars
  <1>3. ASSUME NEW s, pc' = [pc EXCEPT ![i] = s], UNCHANGED fate
        PROVE  /\ \A x \in Items \ {i} : pc'[x] = pc[x] /\ fate'[x] = fate[x]
               /\ pc'[i] = s /\ fate'[i] = "none"
    BY <1>1, <1>2, <1>3, PcMoves, LifeOfSubmit DEF TypeOK, Tasks
  <1>4. CASE Refuse(i)
    <2>1. Life(i)' = "refused"
      BY <1>3, <1>4, LifeRead DEF Refuse, workVars, LifeReads
    <2>2. Contract!Becomes(i, "refused")
      BY <1>3, <1>4, <2>1, LifeMoves DEF Refuse, workVars
    <2>3. Contract!Refuse(i)
      BY <1>1, <1>2, <1>4, <2>2, LifeOfSubmit
      DEF Refuse, Accepting, queueVars, Contract!Refuse
    <2> QED
      BY <2>3 DEF Contract!Next
  <1>5. CASE PutterCancelled(i)
    <2>1. Life(i)' = "withdrawn"
      BY <1>3, <1>5, LifeRead DEF PutterCancelled, workVars, LifeReads
    <2>2. Contract!Becomes(i, "withdrawn")
      BY <1>3, <1>5, <2>1, LifeMoves DEF PutterCancelled, workVars
    <2>3. Contract!Withdraw(i)
      BY <1>1, <1>2, <1>5, <2>2, LifeOfSubmit DEF PutterCancelled, Contract!Withdraw
    <2> QED
      BY <2>3 DEF Contract!Next
  <1>6. CASE TrySubmit(i) /\ Full
    <2>1. Life(i)' = "shed"
      BY <1>3, <1>6, LifeRead DEF TrySubmit, LifeReads
    <2>2. Contract!Becomes(i, "shed")
      BY <1>3, <1>6, <2>1, LifeMoves DEF TrySubmit
    <2>3. Contract!Shed(i)
      BY <1>1, <1>2, <1>6, <2>2, LifeOfSubmit DEF TrySubmit, Accepting, Full, Contract!Shed
    <2> QED
      BY <2>3 DEF Contract!Next
  <1>7. CASE Submit(i) /\ Full
    <2>1. Life(i)' = "blocked"
      BY <1>3, <1>7, LifeRead DEF Submit, PutOrWait, LifeReads
    <2>2. Contract!Becomes(i, "blocked")
      BY <1>3, <1>7, <2>1, LifeMoves DEF Submit, PutOrWait
    <2>3. Contract!Block(i)
      BY <1>1, <1>2, <1>7, <2>2, LifeOfSubmit
      DEF Submit, PutOrWait, Accepting, Full, Contract!Block
    <2> QED
      BY <2>3 DEF Contract!Next
  <1>8. CASE PutterWakes(i) /\ Full
    <2>1. \A x \in Items : pc'[x] = pc[x]
      BY <1>3, <1>8 DEF PutterWakes, PutOrWait
    <2> QED
      BY <1>2, <1>8, <2>1, LifeStays DEF PutterWakes, PutOrWait, Contract!Next
  <1>9. CASE ~Full /\ (TrySubmit(i) \/ Submit(i) \/ PutterWakes(i))
    <2>1. /\ pc[i] = "putting" \/ (pc[i] = "new" /\ ~closed)
          /\ Enqueue(i) /\ pc' = [pc EXCEPT ![i] = "returned"] /\ ~Full
      <3>1. CASE TrySubmit(i)
        BY <1>9, <3>1 DEF TrySubmit, Accepting
      <3>2. CASE Submit(i)
        BY <1>9, <3>2 DEF Submit, PutOrWait, Accepting
      <3>3. CASE PutterWakes(i)
        BY <1>9, <3>3 DEF PutterWakes, PutOrWait
      <3> QED
        BY <1>9, <3>1, <3>2, <3>3
    <2>2. Contract!Accept(i)
      BY <1>2, <2>1, EnqueueImplements
    <2> QED
      BY <2>2 DEF Contract!Next
  <1> QED
    BY <1>4, <1>5, <1>6, <1>7, <1>8, <1>9

\* A worker that takes an item has a hand free for it.
LEMMA HandFree ==
  ASSUME IInv, NEW w \in Workers, pc[w] = "get"
  PROVE  Cardinality({i \in Items : Life(i) = "inHand"}) < PoolSize * MaxStarts
  <1> DEFINE T == WithFate({"taken"})
             H == {v \in Workers : pc[v] = "handle"}
             worker == [i \in T |-> CHOOSE v \in H : holding[v] = i]
  <1>1. EachItemOnce /\ fate \in [Items -> Fate]
    BY DEF IInv, BooksInv, BooksBalance, TypeOK
  <1>2. {i \in Items : Life(i) = "inHand"} \subseteq T
    <2> SUFFICES ASSUME NEW i \in Items, Life(i) = "inHand" PROVE fate[i] = "taken"
      BY DEF WithFate
    <2>1. fate[i] \in Fate /\ pc[i] \in SubmitState /\ (fate[i] = "none" <=> pc[i] # "returned")
      BY <1>1 DEF IInv, TypeOK, BooksInv, Places
    <2> QED
      BY <2>1, LifeRead DEF LifeReads, Fate, SubmitState
  <1>3. \A i \in T : worker[i] \in Workers \ {w} /\ holding[worker[i]] = i
    <2> TAKE i \in T
    <2>1. \E v \in H : holding[v] = i
      BY <1>1 DEF EachItemOnce
    <2> QED
      BY <2>1
  <1>4. worker \in Injection(T, Workers \ {w})
    <2> HIDE DEF T, H
    <2>1. worker \in [T -> Workers \ {w}]
      BY <1>3
    <2>2. \A i, j \in T : worker[i] = worker[j] => i = j
      BY <1>3
    <2> HIDE DEF worker
    <2> QED
      BY <2>1, <2>2 DEF Injection, IsInjective
  <1>5. PoolSize * MaxStarts \in Nat
    OBVIOUS
  <1>6. Cardinality(Workers) = PoolSize * MaxStarts /\ IsFiniteSet(Workers)
    BY <1>5, FS_Interval DEF Workers
  <1>7. /\ Cardinality(Workers \ {w}) = Cardinality(Workers) - 1
        /\ IsFiniteSet(Workers \ {w})
    BY <1>6, Joins, FS_Subset
  <1> HIDE DEF T, worker
  <1>8. IsFiniteSet(T) /\ Cardinality(T) <= Cardinality(Workers \ {w})
    BY <1>4, <1>7, FS_Injection
  <1>9. /\ Cardinality({i \in Items : Life(i) = "inHand"}) <= Cardinality(T)
        /\ Cardinality({i \in Items : Life(i) = "inHand"}) \in Nat
        /\ Cardinality(T) \in Nat
    BY <1>2, <1>8, FS_Subset, FS_CardinalityType
  <1> QED
    BY <1>5, <1>6, <1>7, <1>8, <1>9

\* The contract counts as the pool does.
LEMMA SameCount == \A S : Contract!Cardinality(S) = Cardinality(S)
  BY DEF Contract!Cardinality, Cardinality

\* Items are begun in order, and end once.
LEMMA WorkerImplements ==
  ASSUME IInv, NEW w \in Workers, WorkerStep(w)
  PROVE  Contract!Next \/ UNCHANGED Contract!contractVars
  <1>1. TypeOK /\ Places /\ EachItemOnce /\ fate \in [Items -> Fate]
    BY DEF IInv, BooksInv, BooksBalance, TypeOK
  <1>2. UNCHANGED closed
    BY DEF WorkerStep, WorkerWaits, WorkerTakes, HandlerReturns, HandlerRaises,
           HandlerCancelled, GetterCancelled, groupVars
  <1>3. \A x \in Items : pc'[x] = pc[x]
    <2>1. UNCHANGED pc \/ \E s : pc' = [pc EXCEPT ![w] = s]
      BY DEF WorkerStep, WorkerWaits, WorkerTakes, HandlerReturns, HandlerRaises,
             HandlerCancelled, GetterCancelled, WorkerStops
    <2> QED
      BY <1>1, <2>1, PcMoves DEF TypeOK, Tasks
  <1>4. CASE WorkerWaits(w) \/ GetterCancelled(w)
    BY <1>2, <1>3, <1>4, LifeStays DEF WorkerWaits, GetterCancelled, workVars, Contract!Next
  <1>5. CASE WorkerTakes(w)
    <2>1. items \in Seq(Items) /\ items # <<>> /\ items' = Tail(items) /\ pc[w] = "get"
      BY <1>1, <1>5 DEF WorkerTakes, TypeOK
    <2>2. PICK i \in Items : i = Head(items) /\ i \in ToSet(items)
      BY <2>1 DEF ToSet
    <2>3. /\ fate'[i] = "taken" /\ \A x \in Items \ {i} : fate'[x] = fate[x]
          /\ pc'[i] = "returned"
      <3>1. fate' = [fate EXCEPT ![i] = "taken"]
        BY <1>5, <2>2 DEF WorkerTakes
      <3>2. fate[i] = "queued"
        BY <1>1, <2>2 DEF EachItemOnce, WithFate
      <3> QED
        BY <1>1, <1>3, <3>1, <3>2 DEF Places
    <2>4. Contract!Becomes(i, "inHand")
      BY <1>3, <2>3, LifeRead, LifeMoves DEF LifeReads
    <2>5. Cardinality(Contract!InHand) < PoolSize * MaxStarts
      <3>1. Contract!InHand = {x \in Items : Life(x) = "inHand"}
        BY DEF Contract!InHand
      <3> QED
        BY <2>1, <3>1, HandFree
    <2>6. Contract!Begin(i)
      BY <1>2, <2>1, <2>2, <2>4, <2>5, SameCount DEF Contract!Begin
    <2> QED
      BY <2>6 DEF Contract!Next
  <1>6. CASE HandlerReturns(w) \/ HandlerRaises(w) \/ HandlerCancelled(w)
    <2>1. pc[w] = "handle" /\ UNCHANGED items
      BY <1>6 DEF HandlerReturns, HandlerRaises, HandlerCancelled
    <2>2. PICK i \in Items : i = holding[w] /\ fate[i] = "taken"
      BY <1>1, <2>1 DEF EachItemOnce, WithFate
    <2>3. PICK new \in {"completed", "failed", "interrupted"} :
            fate' = [fate EXCEPT ![i] = new]
      BY <1>6, <2>2 DEF HandlerReturns, HandlerRaises, HandlerCancelled
    <2>4. /\ fate'[i] = new /\ \A x \in Items \ {i} : fate'[x] = fate[x]
          /\ pc[i] = "returned" /\ pc'[i] = "returned"
      BY <1>1, <1>3, <2>2, <2>3 DEF Places
    <2>5. Life(i) = "inHand" /\ Life(i)' = new
      BY <2>2, <2>4, LifeRead DEF LifeReads
    <2>6. Contract!Becomes(i, new)
      BY <1>3, <2>4, <2>5, LifeMoves
    <2>7. Contract!Finish(i)
      BY <1>2, <2>1, <2>5, <2>6 DEF Contract!Finish
    <2> QED
      BY <2>7 DEF Contract!Next
  <1> QED
    BY <1>4, <1>5, <1>6 DEF WorkerStep

\* What the callers and the rest do is at most a closing.
LEMMA StepImplements ==
  IInv /\ [Next]_vars => [Contract!Next]_(Contract!contractVars)
  <1> SUFFICES ASSUME IInv, [Next]_vars
               PROVE  Contract!Next \/ UNCHANGED Contract!contractVars
    OBVIOUS
  <1>1. TypeOK
    BY DEF IInv
  <1>2. ASSUME NEW w \in Workers, WorkerStep(w)
        PROVE  Contract!Next \/ UNCHANGED Contract!contractVars
    BY <1>2, WorkerImplements
  <1>3. ASSUME NEW i \in Items,
               SubmitStep(i) \/ Refuse(i) \/ Submit(i) \/ TrySubmit(i)
        PROVE  Contract!Next \/ UNCHANGED Contract!contractVars
    BY <1>3, SubmitImplements DEF SubmitStep
  <1>4. ASSUME NEW c \in Callers,
               CallerStep(c) \/ \E what \in Operations : Call(c, what)
        PROVE  Contract!Next \/ UNCHANGED Contract!contractVars
    <2>1. UNCHANGED <<items, fate>> /\ (closed' = closed \/ closed')
      BY <1>1, <1>4 DEF CallerStep, JoinerWakes, GatherCompletes, CloseReturns,
           CallerCancelled, Call, queueVars, groupVars, workVars, TypeOK
    <2>2. \E s : pc' = [pc EXCEPT ![c] = s]
      BY <1>4 DEF CallerStep, JoinerWakes, GatherCompletes, CloseReturns, CallerCancelled,
                  Call, CancelAndGather
    <2>3. \A x \in Items : pc'[x] = pc[x]
      BY <1>1, <2>2, PcMoves DEF TypeOK, Tasks
    <2> QED
      BY <2>1, <2>3, LifeStays DEF Contract!Next
  <1>5. CASE Start
    <2>1. \A x \in Items : pc'[x] = pc[x]
      <3>1. (spawned + 1) .. (spawned + PoolSize) \subseteq Workers
        BY <1>1, <1>5 DEF Start, Workers, TypeOK
      <3> QED
        BY <1>5, <3>1 DEF Start, Tasks
    <2> QED
      BY <1>5, <2>1, LifeStays DEF Start, queueVars, workVars, Contract!Next
  <1>6. ASSUME UNCHANGED <<items, fate, closed, pc>>
        PROVE  Contract!Next \/ UNCHANGED Contract!contractVars
    BY <1>6, LifeStays DEF Contract!Next
  <1>7. ASSUME NEW t \in Cancellable, Cancel(t)
        PROVE  Contract!Next \/ UNCHANGED Contract!contractVars
    BY <1>6, <1>7 DEF Cancel, groupVars, workVars
  <1>8. ASSUME NEW w \in Workers, HandlerWakes(w)
        PROVE  Contract!Next \/ UNCHANGED Contract!contractVars
    BY <1>6, <1>8 DEF HandlerWakes, queueVars, groupVars, workVars
  <1>9. CASE UNCHANGED vars
    BY <1>6, <1>9 DEF vars, queueVars, groupVars, workVars
  <1> QED
    BY <1>2, <1>3, <1>4, <1>5, <1>7, <1>8, <1>9 DEF Next, LoopStep, Application

\* The pool implements PoolContract: a bounded first-in first-out backlog, no
\* more items in hand than workers, and one way through life for every item.
THEOREM Implementation == Spec => ImplementsContract
  <1>1. Init => Contract!Init
    <2> SUFFICES ASSUME Init PROVE Contract!Init
      OBVIOUS
    <2>1. \A i \in Items : Life(i) = "new"
      BY DEF Init, Tasks, Life
    <2> QED
      BY <2>1 DEF Init, Contract!Init
  <1> QED
    BY <1>1, StepImplements, Invariant, PTL DEF Spec, ImplementsContract, Contract!Spec

-----------------------------------------------------------------------------
(* Who is scheduled, and who waits where *)

InGet == {w \in Workers : pc[w] = "get"}
InPut == {i \in Items : pc[i] = "putting"}

\* Every worker that c's gather awaits has finished.
AllStopped(c) == \A w \in kids[c] : pc[w] = "stopped"

\* x has something to do when its turn comes.
Runnable(x) ==
  \/ pc[x] \in {"get", "handle", "putting", "joining"} /\ fut[x] # "pending"
  \/ pc[x] = "gathering" /\ AllStopped(x)
  \/ pc[x] = "gathered"

\* Those are scheduled who can run, each once, and only workers go on without
\* suspending.
LoopInv ==
  /\ LoopNeat
  /\ running \in Workers \cup {NoTask}
  /\ \A x \in Tasks : x \in Scheduled <=> Runnable(x)

\* What is awaited where.
FutInv ==
  \A x \in Tasks :
    /\ pc[x] \in {"putting", "joining"} => fut[x] # "none"
    /\ pc[x] = "unborn" => fut[x] = "none"
    /\ pc[x] = "gathered" => fut[x] # "pending"

\* While a worker sleeps in get(), one has been woken for each item; ...
GetPart == Deque(getters, InGet, fut) /\ HandedOut(Len(items), InGet, fut)

\* ... while a submit sleeps in put(), one has been woken for each free slot; ...
PutPart == Deque(putters, InPut, fut) /\ HandedOut(MaxSize - Len(items), InPut, fut)

\* ... and who sleeps in join() has something to wait for.
JoinPart ==
  /\ Distinct(joinWaiters)
  /\ ToSet(joinWaiters) = {c \in Callers : pc[c] = "joining" /\ fut[c] = "pending"}
  /\ JoinersHaveCause

WakeInv == LoopInv /\ FutInv /\ GetPart /\ PutPart /\ JoinPart

\* Nobody is two things at once, or in two kinds of place.
LEMMA Kinds ==
  ASSUME TypeOK
  PROVE  /\ \A i \in Items : i \in Tasks /\ i \notin Workers /\ i \notin Callers /\ i # NoTask
         /\ \A w \in Workers : w \in Tasks /\ w \notin Items /\ w \notin Callers /\ w # NoTask
         /\ \A c \in Callers : c \in Tasks /\ c \notin Items /\ c \notin Workers /\ c # NoTask
         /\ \A i \in Items : pc[i] \in {"new", "putting", "returned", "refused", "shed", "cancelled"}
         /\ \A w \in Workers : pc[w] \in {"unborn", "get", "handle", "stopped"}
         /\ \A c \in Callers : pc[c] \in {"idle", "joining", "gathering", "gathered", "joined",
                                          "closed", "cancelled"}
         /\ \A x \in Tasks : fut[x] \in {"none", "pending", "done", "cancelled"}
         /\ NoTask \notin Tasks /\ LoopTypeOK(Tasks) /\ DOMAIN pc = Tasks
         /\ \A c \in Callers : kids[c] \subseteq Workers
         /\ workers \subseteq Workers
  <1>1. \A x \in Tasks : fut[x] \in {"none", "pending", "done", "cancelled"}
    BY DEF TypeOK, LoopTypeOK, FutureState
  <1>2. /\ \A i \in Items : i \in Tasks /\ i \notin Workers /\ i \notin Callers /\ i # NoTask
        /\ \A w \in Workers : w \in Tasks /\ w \notin Items /\ w \notin Callers /\ w # NoTask
        /\ \A c \in Callers : c \in Tasks /\ c \notin Items /\ c \notin Workers /\ c # NoTask
    BY DEF Tasks
  <1>3. /\ \A i \in Items : pc[i] \in SubmitState
        /\ \A w \in Workers : pc[w] \in WorkerState
        /\ \A c \in Callers : pc[c] \in CallerState
        /\ LoopTypeOK(Tasks) /\ DOMAIN pc = Tasks
        /\ \A c \in Callers : kids[c] \subseteq Workers
        /\ workers \subseteq Workers
    BY DEF TypeOK
  <1> QED
    BY <1>1, <1>2, <1>3 DEF SubmitState, WorkerState, CallerState

\* The sets of those who wait are finite sets of tasks.
LEMMA WaitersFinite ==
  /\ InGet \in SUBSET Tasks /\ IsFiniteSet(InGet) /\ InGet \subseteq Workers
  /\ InPut \in SUBSET Tasks /\ IsFiniteSet(InPut) /\ InPut \subseteq Items
  <1>1. InGet \subseteq Workers /\ InPut \subseteq Items
    BY DEF InGet, InPut
  <1>2. IsFiniteSet(InGet) /\ IsFiniteSet(InPut)
    BY <1>1, WorkersFinite, FS_Subset
  <1> QED
    BY <1>1, <1>2 DEF Tasks

\* The deques hold tasks, and the numbers of what is to be had are numbers.
LEMMA DequeTypes ==
  ASSUME TypeOK
  PROVE  /\ getters \in Seq(Tasks) /\ putters \in Seq(Tasks) /\ joinWaiters \in Seq(Tasks)
         /\ Len(items) \in Nat /\ Len(items) \in Int /\ MaxSize - Len(items) \in Int
  <1>1. getters \in Seq(Tasks) /\ putters \in Seq(Tasks) /\ joinWaiters \in Seq(Tasks)
    BY TasksSeq DEF TypeOK
  <1>2. Len(items) \in Nat
    BY DEF TypeOK
  <1> QED
    BY <1>1, <1>2

\* A turn of t, in which it wakes some who sleep and finishes the gathers that
\* wait for it alone, leaves those scheduled who can run.
LEMMA TurnSchedules ==
  ASSUME TypeOK, LoopInv, NEW t \in Tasks, MayAct(t), NEW state,
         NEW woken \in Seq(Tasks), NEW callbacks \in Seq(Tasks),
         Distinct(woken), Distinct(callbacks),
         \A x \in ToSet(woken) :
            x \in Tasks \ {t} /\ pc[x] \in {"get", "putting", "joining"} /\ fut[x] = "pending",
         \A x \in ToSet(callbacks) :
            x \in Callers \ {t} /\ pc[x] = "gathering" /\ ~AllStopped(x),
         Advance(t, state, woken, callbacks),
         running' = NoTask \/ (running' = t /\ t \in Workers),
         \A x \in Tasks \ {t} : pc'[x] = pc[x],
         \A x \in Callers \ {t} :
            pc[x] = "gathering" => (AllStopped(x)' <=> AllStopped(x) \/ x \in ToSet(callbacks)),
         running' = t <=> Runnable(t)'
  PROVE  LoopInv'
  <1>1. LoopTypeOK(Tasks) /\ NoTask \notin Tasks /\ LoopNeat
    BY Kinds DEF LoopInv
  <1>2. \A x \in Tasks : x \in Scheduled <=> Runnable(x)
    BY DEF LoopInv
  <1>3. \A x \in ToSet(woken) : x \notin Scheduled /\ x # t
    BY <1>2 DEF Runnable
  <1>4. \A x \in ToSet(callbacks) : x \notin Scheduled /\ x # t
    BY <1>2, Kinds DEF Runnable
  <1>5. ToSet(woken) \cap ToSet(callbacks) = {}
    OBVIOUS
  <1>6. /\ LoopNeat'
        /\ Scheduled' = (Scheduled \ {t}) \cup ToSet(woken) \cup ToSet(callbacks)
                          \cup ({running'} \ {NoTask})
    <2>1. running' \in {t, NoTask}
      OBVIOUS
    <2> QED
      BY <1>1, <1>3, <1>4, <1>5, <2>1, AdvanceSchedules
  <1>7. \A x \in Tasks : fut'[x] = IF x = t THEN state
                                   ELSE IF x \in ToSet(woken) THEN "done" ELSE fut[x]
    BY <1>1, AdvanceFutures
  <1>8. ASSUME NEW x \in Tasks PROVE x \in Scheduled' <=> Runnable(x)'
    <2>1. CASE x = t
      BY <1>1, <1>3, <1>4, <1>6, <2>1
    <2>2. CASE x # t /\ x \in ToSet(woken)
      <3>1. x \in Scheduled'
        BY <1>6, <2>2
      <3>2. pc'[x] \in {"get", "putting", "joining"} /\ fut'[x] = "done"
        BY <1>7, <2>2
      <3> QED
        BY <3>1, <3>2 DEF Runnable
    <2>3. CASE x # t /\ x \in ToSet(callbacks)
      <3>1. x \in Scheduled'
        BY <1>6, <2>3
      <3>2. pc'[x] = "gathering" /\ AllStopped(x)'
        BY <2>3, Kinds
      <3> QED
        BY <3>1, <3>2 DEF Runnable
    <2>4. CASE x # t /\ x \notin ToSet(woken) /\ x \notin ToSet(callbacks)
      <3>1. x \in Scheduled' <=> x \in Scheduled
        BY <1>1, <1>6, <2>4
      <3>2. pc'[x] = pc[x] /\ fut'[x] = fut[x]
        BY <1>7, <2>4
      <3>3. pc[x] = "gathering" => x \in Callers
        BY Kinds DEF Tasks
      <3>4. pc[x] = "gathering" => (AllStopped(x)' <=> AllStopped(x))
        BY <2>4, <3>3
      <3>5. Runnable(x)' <=> Runnable(x)
        BY <3>2, <3>4 DEF Runnable
      <3> QED
        BY <1>2, <3>1, <3>5
    <2> QED
      BY <2>1, <2>2, <2>3, <2>4
  <1>9. running' \in Workers \cup {NoTask}
    OBVIOUS
  <1> QED
    BY <1>6, <1>8, <1>9 DEF LoopInv

\* The same when no worker finishes.
LEMMA MoveSchedules ==
  ASSUME TypeOK, LoopInv, NEW t \in Tasks, MayAct(t), NEW state, NEW woken \in Seq(Tasks),
         Distinct(woken),
         \A x \in ToSet(woken) :
            x \in Tasks \ {t} /\ pc[x] \in {"get", "putting", "joining"} /\ fut[x] = "pending",
         Advance(t, state, woken, <<>>),
         running' = NoTask \/ (running' = t /\ t \in Workers),
         \A x \in Tasks \ {t} : pc'[x] = pc[x],
         t \in Workers => pc[t] # "stopped" /\ pc'[t] # "stopped",
         \A x \in Callers \ {t} : kids'[x] = kids[x],
         running' = t <=> Runnable(t)'
  PROVE  LoopInv'
  <1>1. \A x \in Callers \ {t} : kids[x] \subseteq Tasks /\ (t \in kids[x] => t \in Workers)
    BY Kinds DEF Tasks
  <1>2. \A x \in Callers \ {t} : AllStopped(x)' <=> AllStopped(x)
    BY <1>1 DEF AllStopped
  <1>3. <<>> \in Seq(Tasks) /\ Distinct(<<>>) /\ ToSet(<<>>) = {}
    BY ShortDistinct
  <1> QED
    BY <1>2, <1>3, TurnSchedules

\* Whose turn it is can run, and only a worker can be in the middle of a turn.
LEMMA TurnIs ==
  ASSUME TypeOK, LoopInv, NEW t \in Tasks, Turn(t)
  PROVE  MayAct(t) /\ Runnable(t) /\ (t \notin Workers => Idle)
  <1>1. ready \in Seq(Tasks) /\ t # NoTask
    BY Kinds DEF LoopTypeOK
  <1>2. t \in Scheduled
    <2>1. CASE running = t
      BY <1>1, <2>1 DEF Scheduled
    <2>2. CASE ready # <<>> /\ Head(ready) = t
      <3>1. Distinct(ready)
        BY DEF LoopInv, LoopNeat
      <3> QED
        BY <1>1, <2>2, <3>1, TailDistinct DEF Scheduled
    <2> QED
      BY <2>1, <2>2 DEF Turn
  <1>3. t \notin Workers => Idle
    BY DEF LoopInv, Turn, Idle
  <1> QED
    BY <1>2, <1>3 DEF LoopInv, MayAct

\* Who calls from outside is not scheduled.
LEMMA CallIs ==
  ASSUME TypeOK, LoopInv, NEW t \in Tasks, Idle, pc[t] \in {"new", "idle"}
  PROVE  MayAct(t) /\ t \notin Scheduled
  BY DEF LoopInv, Runnable, MayAct

\* Who acts is in no deque, unless it was cancelled there.
LEMMA ActorLeft ==
  ASSUME TypeOK, WakeInv, NEW t \in Tasks, MayAct(t),
         pc[t] \in {"new", "idle", "handle"} \/ Turn(t)
  PROVE  /\ t \in InGet => fut[t] # "pending"
         /\ t \in InPut => fut[t] # "pending"
         /\ ~Thrown(t) => t \notin ToSet(getters) /\ t \notin ToSet(putters)
         /\ t \notin Workers => t \notin ToSet(getters)
         /\ t \notin Items => t \notin ToSet(putters)
         /\ t \notin ToSet(joinWaiters)
         /\ pc[t] = "handle" => t \notin ToSet(getters)
  <1>1. Turn(t) => Runnable(t)
    BY TurnIs DEF WakeInv
  <1>2. /\ t \in InGet => pc[t] = "get"
        /\ t \in InPut => pc[t] = "putting"
        /\ InGet \subseteq Workers /\ InPut \subseteq Items
    BY DEF InGet, InPut
  <1>3. /\ t \in ToSet(getters) => t \in InGet /\ fut[t] \in {"pending", "cancelled"}
        /\ t \in ToSet(putters) => t \in InPut /\ fut[t] \in {"pending", "cancelled"}
        /\ t \in ToSet(joinWaiters) => pc[t] = "joining" /\ fut[t] = "pending"
    BY DEF WakeInv, GetPart, PutPart, JoinPart, Deque
  <1> QED
    BY <1>1, <1>2, <1>3 DEF Runnable, Thrown

-----------------------------------------------------------------------------
(* What a turn does to each of the three deques *)

\* Futures: those who sleep are woken, t awaits what it is said to await.
LEMMA TurnFutures ==
  ASSUME TypeOK, FutInv, NEW t \in Tasks, NEW state, NEW woken, NEW callbacks,
         Advance(t, state, woken, callbacks),
         \A x \in ToSet(woken) : fut[x] = "pending",
         \A x \in Tasks \ {t} : pc'[x] = pc[x],
         pc'[t] \in {"putting", "joining"} => state # "none",
         pc'[t] # "unborn", pc'[t] # "gathered"
  PROVE  FutInv'
  <1>1. \A x \in Tasks : fut'[x] = IF x = t THEN state
                                   ELSE IF x \in ToSet(woken) THEN "done" ELSE fut[x]
    BY Kinds, AdvanceFutures
  <1> QED
    BY <1>1 DEF FutInv

\* Workers in get(): t leaves them or stays away, and wakes none.
LEMMA GetLeft ==
  ASSUME TypeOK, GetPart, NEW t \in Tasks, NEW state, NEW woken, NEW callbacks,
         Advance(t, state, woken, callbacks),
         \A x \in ToSet(woken) : x \notin InGet,
         \A x \in Tasks \ {t} : pc'[x] = pc[x],
         t \in InGet' => state = "none", t \in InGet => fut[t] # "pending",
         getters' = Dropped(getters, t),
         Len(items') \in Int, Len(items') <= Len(items) \/ Len(items') <= 0,
         \/ Len(items') < Len(items) \/ Len(items') <= 0 \/ ~(t \in InGet /\ fut[t] = "done")
  PROVE  GetPart'
  <1>1. InGet' \ {t} = InGet \ {t}
    BY Kinds DEF InGet
  <1>2. Deque(Dropped(getters, t), InGet', fut') /\ HandedOut(Len(items'), InGet', fut')
    <2> DEFINE R == InGet'
               n == Len(items)
               m == Len(items')
    <2>1. /\ getters \in Seq(Tasks) /\ LoopTypeOK(Tasks) /\ InGet \in SUBSET Tasks
          /\ IsFiniteSet(InGet) /\ n \in Int /\ m \in Int
          /\ Deque(getters, InGet, fut) /\ HandedOut(n, InGet, fut)
      BY Kinds, DequeTypes, WaitersFinite DEF GetPart
    <2>2. /\ R \ {t} = InGet \ {t} /\ (t \in R => state = "none") /\ ToSet(woken) \cap InGet = {}
          /\ (m <= n \/ m <= 0) /\ (m < n \/ m <= 0 \/ ~(t \in InGet /\ fut[t] = "done"))
      BY <1>1
    <2> HIDE DEF R, n, m
    <2>3. Deque(Dropped(getters, t), R, fut') /\ HandedOut(m, R, fut')
      BY <2>1, <2>2, HandoverLeft
    <2> QED
      BY <2>3 DEF R, m
  <1> QED
    BY <1>2 DEF GetPart

\* Workers in get(): t puts one more item, or passes on what it was woken for.
LEMMA GetWakes ==
  ASSUME TypeOK, GetPart, NEW t \in Tasks, NEW state, NEW callbacks,
         Advance(t, state, Woken(Dropped(getters, t)), callbacks),
         \A x \in Tasks \ {t} : pc'[x] = pc[x],
         t \notin InGet', t \in InGet => fut[t] # "pending",
         getters' = Popped(Dropped(getters, t)),
         Len(items') \in Int, Len(items') <= Len(items) + 1,
         Len(items') <= Len(items) \/ t \notin InGet
  PROVE  GetPart'
  <1>1. InGet' = InGet \ {t}
    BY Kinds DEF InGet
  <1>2. /\ getters \in Seq(Tasks) /\ LoopTypeOK(Tasks) /\ InGet \in SUBSET Tasks
        /\ IsFiniteSet(InGet) /\ Len(items) \in Int
        /\ Deque(getters, InGet, fut) /\ HandedOut(Len(items), InGet, fut)
    BY Kinds, DequeTypes, WaitersFinite DEF GetPart
  <1>3. /\ Deque(Popped(Dropped(getters, t)), InGet \ {t}, fut')
        /\ HandedOut(Len(items'), InGet \ {t}, fut')
    BY <1>2, HandoverWakes
  <1> QED
    BY <1>1, <1>3 DEF GetPart

\* Submits in put(): t leaves them or stays away, and wakes none.
LEMMA PutLeft ==
  ASSUME TypeOK, PutPart, NEW t \in Tasks, NEW state, NEW woken, NEW callbacks,
         Advance(t, state, woken, callbacks),
         \A x \in ToSet(woken) : x \notin InPut,
         \A x \in Tasks \ {t} : pc'[x] = pc[x],
         t \notin InPut', t \in InPut => fut[t] # "pending",
         putters' = Dropped(putters, t),
         Len(items') \in Int, Len(items') >= Len(items) \/ Len(items') >= MaxSize,
         \/ Len(items') > Len(items) \/ Len(items') >= MaxSize \/ ~(t \in InPut /\ fut[t] = "done")
  PROVE  PutPart'
  <1>1. InPut' = InPut \ {t}
    BY Kinds DEF InPut
  <1>2. /\ putters \in Seq(Tasks) /\ LoopTypeOK(Tasks) /\ InPut \in SUBSET Tasks
        /\ IsFiniteSet(InPut) /\ Len(items) \in Int /\ MaxSize \in Int
        /\ Deque(putters, InPut, fut) /\ HandedOut(MaxSize - Len(items), InPut, fut)
    BY Kinds, DequeTypes, WaitersFinite DEF PutPart
  <1>3. Deque(Dropped(putters, t), InPut', fut') /\ HandedOut(MaxSize - Len(items'), InPut', fut')
    <2> DEFINE R == InPut'
               n == MaxSize - Len(items)
               m == MaxSize - Len(items')
    <2>1. /\ R \ {t} = InPut \ {t} /\ t \notin R /\ ToSet(woken) \cap InPut = {}
          /\ n \in Int /\ m \in Int /\ (m <= n \/ m <= 0)
          /\ (m < n \/ m <= 0 \/ ~(t \in InPut /\ fut[t] = "done"))
          /\ HandedOut(n, InPut, fut)
      BY <1>1, <1>2
    <2> HIDE DEF R, n, m
    <2>2. Deque(Dropped(putters, t), R, fut') /\ HandedOut(m, R, fut')
      BY <1>2, <2>1, HandoverLeft
    <2> QED
      BY <2>2 DEF R, m
  <1> QED
    BY <1>3 DEF PutPart

\* Submits in put(): t takes an item, or passes on what it was woken for.
LEMMA PutWakes ==
  ASSUME TypeOK, PutPart, NEW t \in Tasks, NEW state, NEW callbacks,
         Advance(t, state, Woken(Dropped(putters, t)), callbacks),
         \A x \in Tasks \ {t} : pc'[x] = pc[x],
         t \notin InPut', t \in InPut => fut[t] # "pending",
         putters' = Popped(Dropped(putters, t)),
         Len(items') \in Int, Len(items') + 1 >= Len(items),
         Len(items') >= Len(items) \/ t \notin InPut
  PROVE  PutPart'
  <1>1. InPut' = InPut \ {t}
    BY Kinds DEF InPut
  <1>2. /\ putters \in Seq(Tasks) /\ LoopTypeOK(Tasks) /\ InPut \in SUBSET Tasks
        /\ IsFiniteSet(InPut) /\ Len(items) \in Int /\ MaxSize \in Int
        /\ Deque(putters, InPut, fut) /\ HandedOut(MaxSize - Len(items), InPut, fut)
    BY Kinds, DequeTypes, WaitersFinite DEF PutPart
  <1>3. /\ Deque(Popped(Dropped(putters, t)), InPut \ {t}, fut')
        /\ HandedOut(MaxSize - Len(items'), InPut \ {t}, fut')
    <2> DEFINE n == MaxSize - Len(items)
               m == MaxSize - Len(items')
    <2>1. /\ n \in Int /\ m \in Int /\ m <= n + 1
          /\ (m <= n \/ ~(t \in InPut /\ fut[t] = "done"))
          /\ HandedOut(n, InPut, fut)
      BY <1>2
    <2> HIDE DEF n, m
    <2>2. /\ Deque(Popped(Dropped(putters, t)), InPut \ {t}, fut')
          /\ HandedOut(m, InPut \ {t}, fut')
      BY <1>2, <2>1, HandoverWakes
    <2> QED
      BY <2>2 DEF m
  <1> QED
    BY <1>1, <1>3 DEF PutPart

\* Workers and submits: nobody comes or goes; a sleeper may be cancelled.
LEMMA DequesStand ==
  ASSUME TypeOK, GetPart, PutPart, UNCHANGED <<items, getters, putters>>,
         InGet' = InGet, InPut' = InPut,
         \A x \in InGet \cup InPut :
            fut'[x] = fut[x] \/ (fut[x] = "pending" /\ fut'[x] = "cancelled")
  PROVE  GetPart' /\ PutPart'
  <1> DEFINE n == Len(items)
             m == MaxSize - Len(items)
  <1>1. n \in Int /\ m \in Int /\ IsFiniteSet(InGet) /\ IsFiniteSet(InPut) /\ n <= n /\ m <= m
    BY DequeTypes, WaitersFinite
  <1>2. /\ Deque(getters, InGet, fut) /\ HandedOut(n, InGet, fut)
        /\ Deque(putters, InPut, fut) /\ HandedOut(m, InPut, fut)
    BY DEF GetPart, PutPart
  <1> HIDE DEF n, m
  <1>3. Deque(getters, InGet, fut') /\ HandedOut(n, InGet, fut')
    BY <1>1, <1>2, HandoverStands
  <1>4. Deque(putters, InPut, fut') /\ HandedOut(m, InPut, fut')
    BY <1>1, <1>2, HandoverStands
  <1> QED
    BY <1>3, <1>4 DEF GetPart, PutPart, n, m

\* Joiners: t is none of them, wakes none, and marks nothing done.
LEMMA JoinStands ==
  ASSUME TypeOK, JoinPart, NEW t \in Tasks, NEW state, NEW woken, NEW callbacks,
         Advance(t, state, woken, callbacks),
         \A x \in ToSet(woken) : x \notin Callers,
         \A x \in Tasks \ {t} : pc'[x] = pc[x],
         t \in Callers => pc'[t] # "joining",
         t \notin ToSet(joinWaiters),
         joinWaiters' = joinWaiters, unfinished' \in Nat, unfinished' >= unfinished
  PROVE  JoinPart'
  <1>1. \A x \in Tasks : fut'[x] = IF x = t THEN state
                                   ELSE IF x \in ToSet(woken) THEN "done" ELSE fut[x]
    BY Kinds, AdvanceFutures
  <1>2. {c \in Callers : pc'[c] = "joining" /\ fut'[c] = "pending"}
          = {c \in Callers : pc[c] = "joining" /\ fut[c] = "pending"}
    BY <1>1, Kinds DEF JoinPart
  <1>3. unfinished \in Nat
    BY DEF TypeOK
  <1>4. JoinersHaveCause'
    BY <1>3 DEF JoinPart, JoinersHaveCause
  <1> QED
    BY <1>2, <1>4 DEF JoinPart

\* Submits in put(): t goes to sleep among them, as the queue is full.
LEMMA PutSleeps ==
  ASSUME TypeOK, PutPart, NEW t \in Items, NEW woken, NEW callbacks,
         Advance(t, "pending", woken, callbacks),
         \A x \in ToSet(woken) : x \notin InPut,
         pc' = [pc EXCEPT ![t] = "putting"],
         t \notin ToSet(putters), putters' = Append(putters, t),
         items' = items, Full
  PROVE  PutPart'
  <1>1. InPut' = InPut \cup {t}
    BY PcMoves, Kinds DEF InPut
  <1>2. /\ putters \in Seq(Tasks) /\ LoopTypeOK(Tasks) /\ InPut \in SUBSET Tasks
        /\ IsFiniteSet(InPut) /\ t \in Tasks
        /\ Deque(putters, InPut, fut) /\ ToSet(woken) \cap InPut = {}
    BY Kinds, DequeTypes, WaitersFinite DEF PutPart
  <1>3. MaxSize - Len(items) \in Int /\ MaxSize - Len(items) <= 0
    BY DequeTypes DEF Full
  <1>4. /\ Deque(Append(putters, t), InPut \cup {t}, fut')
        /\ HandedOut(MaxSize - Len(items), InPut \cup {t}, fut')
    <2> DEFINE m == MaxSize - Len(items)
    <2>1. m \in Int /\ m <= 0
      BY <1>3
    <2> HIDE DEF m
    <2>2. Deque(Append(putters, t), InPut \cup {t}, fut') /\ HandedOut(m, InPut \cup {t}, fut')
      BY <1>2, <2>1, HandoverSleeps
    <2> QED
      BY <2>2 DEF m
  <1> QED
    BY <1>1, <1>4 DEF PutPart

\* Workers in get(): t goes to sleep among them, as the queue is empty.
LEMMA GetSleeps ==
  ASSUME TypeOK, GetPart, NEW t \in Workers, NEW woken, NEW callbacks,
         Advance(t, "pending", woken, callbacks),
         \A x \in ToSet(woken) : x \notin InGet,
         pc' = pc, pc[t] = "get",
         t \notin ToSet(getters), getters' = Append(getters, t),
         items' = items, items = <<>>
  PROVE  GetPart'
  <1>1. InGet' = InGet \cup {t}
    BY DEF InGet
  <1>2. /\ getters \in Seq(Tasks) /\ LoopTypeOK(Tasks) /\ InGet \in SUBSET Tasks
        /\ IsFiniteSet(InGet) /\ t \in Tasks
        /\ Deque(getters, InGet, fut) /\ ToSet(woken) \cap InGet = {}
    BY Kinds, DequeTypes, WaitersFinite DEF GetPart
  <1>3. Len(items') = 0
    OBVIOUS
  <1>4. /\ Deque(Append(getters, t), InGet \cup {t}, fut')
        /\ HandedOut(0, InGet \cup {t}, fut')
    BY <1>2, HandoverSleeps
  <1> QED
    BY <1>1, <1>3, <1>4 DEF GetPart

-----------------------------------------------------------------------------
(* Submits *)

\* Who is where in submit's turn.
LEMMA SubmitterIs ==
  ASSUME TypeOK, WakeInv, NEW i \in Items,
         \/ Idle /\ pc[i] = "new"
         \/ Turn(i) /\ pc[i] = "putting"
  PROVE  /\ i \in Tasks /\ MayAct(i) /\ Idle
         /\ i \notin InGet /\ i \notin InGet' /\ i \notin ToSet(getters) /\ Dropped(getters, i) = getters
         /\ i \in InPut => fut[i] # "pending"
         /\ (pc[i] = "new" \/ ~Thrown(i)) => i \notin ToSet(putters) /\ Dropped(putters, i) = putters
         /\ i \notin ToSet(joinWaiters) /\ Dropped(joinWaiters, i) = joinWaiters
         /\ i \notin Callers /\ i \notin Workers
  <1>1. i \in Tasks /\ i \notin Callers /\ i \notin Workers /\ i \notin InGet /\ i \notin InGet'
    BY Kinds DEF InGet
  <1>2. MayAct(i) /\ Idle
    BY <1>1, TurnIs, CallIs DEF WakeInv
  <1>3. /\ i \in InPut => fut[i] # "pending"
        /\ ~Thrown(i) => i \notin ToSet(putters)
        /\ i \notin ToSet(getters) /\ i \notin ToSet(joinWaiters)
    BY <1>1, <1>2, ActorLeft
  <1>4. pc[i] = "new" => i \notin ToSet(putters)
    BY DEF WakeInv, PutPart, Deque, InPut
  <1> QED
    BY <1>1, <1>2, <1>3, <1>4, DroppedStranger

\* put: a slot is taken and its item announced, or its caller sleeps while
\* the queue is full.
LEMMA PutOrWaitWakes ==
  ASSUME TypeOK, WakeInv, NEW i \in Items,
         \/ Idle /\ pc[i] = "new"
         \/ Turn(i) /\ pc[i] = "putting" /\ ~Thrown(i),
         PutOrWait(i), joinWaiters' = joinWaiters, kids' = kids
  PROVE  WakeInv'
  <1>1. /\ i \in Tasks /\ MayAct(i) /\ Idle
        /\ i \notin InGet /\ i \notin InGet' /\ i \notin ToSet(getters) /\ Dropped(getters, i) = getters
        /\ i \in InPut => fut[i] # "pending"
        /\ i \notin ToSet(putters) /\ Dropped(putters, i) = putters
        /\ i \notin ToSet(joinWaiters) /\ i \notin Callers /\ i \notin Workers
    BY SubmitterIs
  <1>2. LoopTypeOK(Tasks) /\ DOMAIN pc = Tasks /\ NoTask \notin Tasks
        /\ LoopInv /\ FutInv /\ GetPart /\ PutPart /\ JoinPart /\ Len(items) \in Nat
        /\ unfinished \in Nat
    BY Kinds, DequeTypes DEF WakeInv, TypeOK
  <1>3. CASE Full
    <2>1. /\ Advance(i, "pending", <<>>, <<>>) /\ running' = NoTask
          /\ pc' = [pc EXCEPT ![i] = "putting"]
          /\ putters' = Append(putters, i)
          /\ items' = items /\ getters' = getters /\ unfinished' = unfinished
      BY <1>3 DEF PutOrWait, Suspends
    <2>2. pc'[i] = "putting" /\ \A x \in Tasks \ {i} : pc'[x] = pc[x]
      BY <1>1, <1>2, <2>1, PcMoves
    <2>3. <<>> \in Seq(Tasks) /\ Distinct(<<>>) /\ ToSet(<<>>) = {}
      BY ShortDistinct
    <2>4. fut'[i] = "pending"
      BY <1>1, <1>2, <2>1, AdvanceFutures
    <2>5. LoopInv'
      <3>1. running' # i /\ ~Runnable(i)'
        BY <1>1, <1>2, <2>1, <2>2, <2>4 DEF Runnable
      <3> QED
        BY <1>1, <1>2, <2>1, <2>2, <2>3, <3>1, MoveSchedules
    <2>6. FutInv'
      BY <1>1, <1>2, <2>1, <2>2, <2>3, TurnFutures
    <2>7. GetPart'
      BY <1>1, <1>2, <2>1, <2>2, <2>3, GetLeft
    <2>8. PutPart'
      BY <1>1, <1>2, <1>3, <2>1, <2>3, PutSleeps
    <2>9. JoinPart'
      BY <1>1, <1>2, <2>1, <2>2, <2>3, JoinStands
    <2> QED
      BY <2>5, <2>6, <2>7, <2>8, <2>9 DEF WakeInv
  <1>4. CASE ~Full
    <2> DEFINE woken == Woken(Dropped(getters, i))
    <2>1. /\ Advance(i, "none", woken, <<>>) /\ running' = NoTask
          /\ pc' = [pc EXCEPT ![i] = "returned"]
          /\ putters' = putters /\ getters' = Popped(Dropped(getters, i))
          /\ items' = Append(items, i) /\ unfinished' = unfinished + 1
      BY <1>1, <1>4 DEF PutOrWait, Ends, Enqueue
    <2>2. pc'[i] = "returned" /\ \A x \in Tasks \ {i} : pc'[x] = pc[x]
      BY <1>1, <1>2, <2>1, PcMoves
    <2>3. /\ woken \in Seq(Tasks) /\ Distinct(woken)
          /\ \A x \in ToSet(woken) : x \in InGet \ {i} /\ x \in Tasks /\ fut[x] = "pending"
      BY <1>2, DequeTypes, WokenSleep DEF GetPart
    <2> HIDE DEF woken
    <2>4. \A x \in ToSet(woken) : x \in Tasks \ {i} /\ pc[x] = "get" /\ x \in Workers
      BY <1>1, <2>3 DEF InGet
    <2>5. Len(items') = Len(items) + 1
      <3>1. items \in Seq(Items)
        BY DEF TypeOK
      <3> QED
        BY <2>1, <3>1
    <2>6. LoopInv'
      <3>1. running' # i /\ ~Runnable(i)'
        BY <1>1, <1>2, <2>1, <2>2 DEF Runnable
      <3> QED
        BY <1>1, <1>2, <2>1, <2>2, <2>3, <2>4, <3>1, MoveSchedules
    <2>7. FutInv'
      BY <1>1, <1>2, <2>1, <2>2, <2>3, TurnFutures
    <2>8. GetPart'
      BY <1>1, <1>2, <2>1, <2>2, <2>5, GetWakes DEF woken
    <2>9. PutPart'
      <3>1. i \notin InPut' /\ \A x \in ToSet(woken) : x \notin InPut
        BY <1>1, <2>2, <2>4 DEF InPut
      <3> QED
        BY <1>1, <1>2, <2>1, <2>2, <2>5, <3>1, PutLeft
    <2>10. JoinPart'
      <3>1. \A x \in ToSet(woken) : x \notin Callers
        BY <2>4, Kinds
      <3> QED
        BY <1>1, <1>2, <2>1, <2>2, <3>1, JoinStands
    <2> QED
      BY <2>6, <2>7, <2>8, <2>9, <2>10 DEF WakeInv
  <1> QED
    BY <1>3, <1>4

\* A call that returns at once leaves everybody where they wait.
LEMMA TurnedAwayWakes ==
  ASSUME TypeOK, WakeInv, NEW i \in Items, pc[i] = "new",
         NEW s \in {"refused", "shed"}, pc' = [pc EXCEPT ![i] = s],
         UNCHANGED <<loopVars, items, getters, putters, unfinished, joinWaiters, kids>>
  PROVE  WakeInv'
  <1>1. /\ i \in Tasks /\ i \notin Workers /\ i \notin Callers /\ DOMAIN pc = Tasks
        /\ \A c \in Callers : kids[c] \subseteq Workers
        /\ \A c \in Callers : c \in Tasks
        /\ \A w \in Workers : w \in Tasks
    BY Kinds
  <1>2. pc'[i] = s /\ \A x \in Tasks \ {i} : pc'[x] = pc[x]
    BY <1>1, PcMoves
  <1>3. InGet' = InGet /\ InPut' = InPut
    BY <1>1, <1>2, Kinds DEF InGet, InPut
  <1>4. \A c \in Callers : AllStopped(c)' <=> AllStopped(c)
    BY <1>1, <1>2 DEF AllStopped
  <1>5. \A x \in Tasks : Runnable(x)' <=> Runnable(x)
    <2> SUFFICES ASSUME NEW x \in Tasks PROVE Runnable(x)' <=> Runnable(x)
      OBVIOUS
    <2>1. CASE x = i
      BY <1>2, <2>1 DEF Runnable
    <2>2. CASE x # i
      <3>1. pc[x] = "gathering" => x \in Callers
        BY Kinds DEF Tasks
      <3> QED
        BY <1>2, <1>4, <2>2, <3>1 DEF Runnable, loopVars
    <2> QED
      BY <2>1, <2>2
  <1>6. LoopInv'
    BY <1>5 DEF WakeInv, LoopInv, LoopNeat, Scheduled, loopVars
  <1>7. FutInv'
    BY <1>2 DEF WakeInv, FutInv, loopVars
  <1>8. GetPart' /\ PutPart'
    BY <1>3 DEF WakeInv, GetPart, PutPart, loopVars
  <1>9. JoinPart'
    BY <1>1, <1>2 DEF WakeInv, JoinPart, JoinersHaveCause, loopVars
  <1> QED
    BY <1>6, <1>7, <1>8, <1>9 DEF WakeInv

\* A submit cancelled in put() passes on the slot it was woken for.
LEMMA PutterCancelledWakes ==
  ASSUME TypeOK, WakeInv, NEW i \in Items, PutterCancelled(i)
  PROVE  WakeInv'
  <1> DEFINE rest == Dropped(putters, i)
             woken == IF PutterPassesOn(i) THEN Woken(rest) ELSE <<>>
  <1>1. /\ i \in Tasks /\ MayAct(i) /\ Idle
        /\ i \notin InGet /\ i \notin InGet' /\ i \notin ToSet(getters) /\ Dropped(getters, i) = getters
        /\ i \in InPut => fut[i] # "pending"
        /\ i \notin ToSet(joinWaiters) /\ i \notin Callers /\ i \notin Workers
    BY SubmitterIs DEF PutterCancelled
  <1>2. LoopTypeOK(Tasks) /\ DOMAIN pc = Tasks /\ NoTask \notin Tasks
        /\ LoopInv /\ FutInv /\ GetPart /\ PutPart /\ JoinPart /\ Len(items) \in Nat
        /\ unfinished \in Nat
    BY Kinds, DequeTypes DEF WakeInv, TypeOK
  <1>3. /\ Advance(i, "none", woken, <<>>) /\ running' = NoTask
        /\ pc' = [pc EXCEPT ![i] = "cancelled"]
        /\ putters' = IF PutterPassesOn(i) THEN Popped(rest) ELSE rest
        /\ UNCHANGED <<items, getters, unfinished, joinWaiters, kids>>
    BY DEF PutterCancelled, Ends, callVars
  <1>4. pc'[i] = "cancelled" /\ \A x \in Tasks \ {i} : pc'[x] = pc[x]
    BY <1>1, <1>2, <1>3, PcMoves
  <1>5. /\ woken \in Seq(Tasks) /\ Distinct(woken)
        /\ \A x \in ToSet(woken) : x \in InPut \ {i} /\ x \in Tasks /\ fut[x] = "pending"
    BY <1>2, DequeTypes, WokenSleep, ShortDistinct DEF PutPart
  <1>6. \A x \in ToSet(woken) : x \in Tasks \ {i} /\ pc[x] = "putting" /\ x \in Items
    BY <1>1, <1>5 DEF InPut
  <1>7. PutPart'
    <2>1. i \notin InPut'
      BY <1>4 DEF InPut
    <2>2. CASE PutterPassesOn(i)
      BY <1>1, <1>2, <1>3, <1>4, <2>1, <2>2, PutWakes
    <2>3. CASE ~PutterPassesOn(i)
      <3>1. woken = <<>> /\ (Len(items') >= MaxSize \/ ~(i \in InPut /\ fut[i] = "done"))
        BY <1>3, <2>3 DEF PutterPassesOn, Full
      <3>2. \A x \in ToSet(<<>>) : x \notin InPut
        BY ShortDistinct
      <3> QED
        BY <1>1, <1>2, <1>3, <1>4, <2>1, <2>3, <3>1, <3>2, PutLeft
    <2> QED
      BY <2>2, <2>3
  <1> HIDE DEF woken
  <1>8. LoopInv'
    <2>1. running' # i /\ ~Runnable(i)'
      BY <1>1, <1>2, <1>3, <1>4 DEF Runnable
    <2> QED
      BY <1>1, <1>2, <1>3, <1>4, <1>5, <1>6, <2>1, MoveSchedules
  <1>9. FutInv'
    BY <1>1, <1>2, <1>3, <1>4, <1>5, TurnFutures
  <1>10. GetPart'
    <2>1. \A x \in ToSet(woken) : x \notin InGet
      BY <1>6 DEF InGet
    <2> QED
      BY <1>1, <1>2, <1>3, <1>4, <2>1, GetLeft
  <1>11. JoinPart'
    <2>1. \A x \in ToSet(woken) : x \notin Callers
      BY <1>6, Kinds
    <2> QED
      BY <1>1, <1>2, <1>3, <1>4, <2>1, JoinStands
  <1> QED
    BY <1>7, <1>8, <1>9, <1>10, <1>11 DEF WakeInv

\* Whatever becomes of submit and try_submit.
LEMMA SubmitWakes ==
  ASSUME TypeOK, WakeInv, NEW i \in Items,
         SubmitStep(i) \/ Refuse(i) \/ Submit(i) \/ TrySubmit(i)
  PROVE  WakeInv'
  <1>1. CASE Submit(i) \/ PutterWakes(i)
    <2>1. /\ PutOrWait(i) /\ joinWaiters' = joinWaiters /\ kids' = kids
          /\ \/ Idle /\ pc[i] = "new"
             \/ Turn(i) /\ pc[i] = "putting" /\ ~Thrown(i)
      BY <1>1 DEF Submit, PutterWakes, callVars
    <2> QED
      BY <2>1, PutOrWaitWakes
  <1>2. CASE PutterCancelled(i)
    BY <1>2, PutterCancelledWakes
  <1>3. CASE Refuse(i)
    BY <1>3, TurnedAwayWakes DEF Refuse, queueVars, callVars
  <1>4. CASE TrySubmit(i)
    <2>1. CASE Full
      BY <1>4, <2>1, TurnedAwayWakes DEF TrySubmit, callVars
    <2>2. CASE ~Full
      <3>1. PutOrWait(i) /\ joinWaiters' = joinWaiters /\ kids' = kids /\ Idle /\ pc[i] = "new"
        BY <1>4, <2>2 DEF TrySubmit, PutOrWait, callVars
      <3> QED
        BY <3>1, PutOrWaitWakes
    <2> QED
      BY <2>1, <2>2
  <1> QED
    BY <1>1, <1>2, <1>3, <1>4 DEF SubmitStep

-----------------------------------------------------------------------------
(* Workers *)

\* Those who are scheduled in some order are each scheduled once.
LEMMA OrderDistinct ==
  ASSUME NEW S, S \in SUBSET Tasks, IsFiniteSet(S), NEW order \in SetToSeqs(S)
  PROVE  order \in Seq(Tasks) /\ Distinct(order) /\ ToSet(order) = S
  <1> DEFINE n == Cardinality(S)
  <1>1. n \in Nat
    BY FS_CardinalityType
  <1>2. order \in [1 .. n -> S] /\ \A j, k \in 1 .. n : order[j] = order[k] => j = k
    BY DEF SetToSeqs
  <1>3. IsFiniteSet(1 .. n) /\ Cardinality(1 .. n) = n
    BY <1>1, FS_Interval
  <1>4. ASSUME NEW x \in S, \A k \in 1 .. n : order[k] # x PROVE FALSE
    <2> DEFINE R == S \ {x}
               D == 1 .. n
    <2>1. Cardinality(R) = n - 1
      BY <1>4, CountOne
    <2>2. order \in [D -> R] /\ \A j, k \in D : order[j] = order[k] => j = k
      BY <1>2, <1>4
    <2>3. IsFiniteSet(D) /\ Cardinality(D) = n /\ IsFiniteSet(R) /\ Cardinality(R) < n
      BY <1>1, <1>3, <2>1, FS_Subset
    <2> HIDE DEF R, D, n
    <2>4. Cardinality(R) < Cardinality(D)
      BY <2>3
    <2>5. \E j, k \in D : j # k /\ order[j] = order[k]
      BY <2>2, <2>3, <2>4, FS_PigeonHole
    <2> QED
      BY <2>2, <2>5
  <1>5. DOMAIN order = 1 .. n /\ order \in Seq(Tasks)
    BY <1>1, <1>2
  <1> QED
    BY <1>2, <1>4, <1>5 DEF Distinct, ToSet

\* Who is where in a worker's turn.
LEMMA WorkerIs ==
  ASSUME TypeOK, WakeInv, NEW w \in Workers, Turn(w), pc[w] \in {"get", "handle"}
  PROVE  /\ w \in Tasks /\ MayAct(w) /\ pc[w] # "stopped"
         /\ w \notin InPut /\ w \notin ToSet(putters) /\ Dropped(putters, w) = putters
         /\ w \notin ToSet(joinWaiters) /\ w \notin Callers
         /\ w \in InGet => fut[w] # "pending"
         /\ ~Thrown(w) \/ pc[w] = "handle" => w \notin ToSet(getters) /\ Dropped(getters, w) = getters
         /\ pc[w] = "handle" => w \notin InGet
  <1>1. w \in Tasks /\ w \notin Items /\ w \notin Callers
    BY Kinds
  <1>2. w \notin InPut /\ (pc[w] = "handle" => w \notin InGet)
    BY <1>1 DEF InPut, InGet
  <1>3. MayAct(w)
    BY <1>1, TurnIs DEF WakeInv
  <1>4. /\ w \in InGet => fut[w] # "pending"
        /\ ~Thrown(w) => w \notin ToSet(getters)
        /\ pc[w] = "handle" => w \notin ToSet(getters)
        /\ w \notin ToSet(putters) /\ w \notin ToSet(joinWaiters)
    BY <1>1, <1>3, ActorLeft
  <1> QED
    BY <1>1, <1>2, <1>3, <1>4, DroppedStranger

\* get() on an empty queue: the worker sleeps.
LEMMA WorkerWaitsWakes ==
  ASSUME TypeOK, WakeInv, NEW w \in Workers, WorkerWaits(w)
  PROVE  WakeInv'
  <1>1. /\ w \in Tasks /\ MayAct(w) /\ pc[w] # "stopped"
        /\ w \notin InPut /\ Dropped(putters, w) = putters
        /\ w \notin ToSet(joinWaiters) /\ w \notin Callers
        /\ w \notin ToSet(getters)
    BY WorkerIs DEF WorkerWaits
  <1>2. LoopTypeOK(Tasks) /\ NoTask \notin Tasks
        /\ LoopInv /\ FutInv /\ GetPart /\ PutPart /\ JoinPart /\ Len(items) \in Nat
        /\ unfinished \in Nat
    BY Kinds, DequeTypes DEF WakeInv, TypeOK
  <1>3. /\ Advance(w, "pending", <<>>, <<>>) /\ running' = NoTask
        /\ pc' = pc /\ pc[w] = "get" /\ items = <<>>
        /\ getters' = Append(getters, w)
        /\ UNCHANGED <<items, putters, unfinished, joinWaiters, kids>>
    BY DEF WorkerWaits, Suspends, callVars
  <1>4. <<>> \in Seq(Tasks) /\ Distinct(<<>>) /\ ToSet(<<>>) = {}
    BY ShortDistinct
  <1>5. fut'[w] = "pending"
    BY <1>1, <1>2, <1>3, AdvanceFutures
  <1>6. LoopInv'
    <2>1. running' # w /\ ~Runnable(w)'
      BY <1>1, <1>2, <1>3, <1>5 DEF Runnable
    <2> QED
      BY <1>1, <1>2, <1>3, <1>4, <2>1, MoveSchedules
  <1>7. FutInv'
    BY <1>1, <1>2, <1>3, <1>4, TurnFutures
  <1>8. GetPart'
    BY <1>1, <1>2, <1>3, <1>4, GetSleeps
  <1>9. PutPart'
    <2>1. w \notin InPut'
      BY <1>1, <1>3 DEF InPut
    <2> QED
      BY <1>1, <1>2, <1>3, <1>4, <2>1, PutLeft
  <1>10. JoinPart'
    BY <1>1, <1>2, <1>3, <1>4, JoinStands
  <1> QED
    BY <1>6, <1>7, <1>8, <1>9, <1>10 DEF WakeInv

\* get() takes an item and announces the slot it frees.
LEMMA WorkerTakesWakes ==
  ASSUME TypeOK, WakeInv, NEW w \in Workers, WorkerTakes(w)
  PROVE  WakeInv'
  <1> DEFINE woken == Woken(Dropped(putters, w))
  <1>1. /\ w \in Tasks /\ MayAct(w) /\ pc[w] # "stopped"
        /\ w \notin InPut /\ Dropped(putters, w) = putters
        /\ w \notin ToSet(joinWaiters) /\ w \notin Callers
        /\ w \in InGet => fut[w] # "pending"
        /\ Dropped(getters, w) = getters
    BY WorkerIs DEF WorkerTakes
  <1>2. LoopTypeOK(Tasks) /\ NoTask \notin Tasks /\ DOMAIN pc = Tasks
        /\ LoopInv /\ FutInv /\ GetPart /\ PutPart /\ JoinPart /\ Len(items) \in Nat
        /\ unfinished \in Nat
    BY Kinds, DequeTypes DEF WakeInv, TypeOK
  <1>3. PICK state \in {"pending", "none"} :
          Advance(w, state, woken, <<>>) /\ running' = IF state = "none" THEN w ELSE NoTask
    BY <1>1 DEF WorkerTakes, Suspends, Continues
  <1>4. /\ pc' = [pc EXCEPT ![w] = "handle"]
        /\ putters' = Popped(Dropped(putters, w))
        /\ items # <<>> /\ items' = Tail(items)
        /\ UNCHANGED <<getters, unfinished, joinWaiters, kids>>
    BY <1>1 DEF WorkerTakes, callVars
  <1>5. pc'[w] = "handle" /\ \A x \in Tasks \ {w} : pc'[x] = pc[x]
    BY <1>1, <1>2, <1>4, PcMoves
  <1>6. Len(items') + 1 = Len(items) /\ Len(items') \in Nat
    <2>1. items \in Seq(Items)
      BY DEF TypeOK
    <2> QED
      BY <1>4, <2>1
  <1>7. /\ woken \in Seq(Tasks) /\ Distinct(woken)
        /\ \A x \in ToSet(woken) : x \in InPut \ {w} /\ x \in Tasks /\ fut[x] = "pending"
    BY <1>2, DequeTypes, WokenSleep DEF PutPart
  <1>8. PutPart'
    <2>1. w \notin InPut'
      BY <1>5 DEF InPut
    <2> QED
      BY <1>1, <1>2, <1>3, <1>4, <1>5, <1>6, <2>1, PutWakes
  <1> HIDE DEF woken
  <1>9. \A x \in ToSet(woken) : /\ x \in Tasks \ {w} /\ pc[x] = "putting" /\ x \in Items
                                /\ x \notin InGet /\ x \notin Callers
    <2> TAKE x \in ToSet(woken)
    <2>1. x \in Items /\ pc[x] = "putting" /\ x # w
      BY <1>7 DEF InPut
    <2> QED
      BY <2>1, Kinds DEF InGet
  <1>10. fut'[w] = state
    BY <1>1, <1>2, <1>3, AdvanceFutures
  <1>11. LoopInv'
    <2>1. running' = w <=> Runnable(w)'
      BY <1>1, <1>2, <1>3, <1>5, <1>10 DEF Runnable
    <2> QED
      BY <1>1, <1>2, <1>3, <1>4, <1>5, <1>7, <1>9, <2>1, MoveSchedules
  <1>12. FutInv'
    BY <1>1, <1>2, <1>3, <1>5, <1>7, TurnFutures
  <1>13. GetPart'
    <2>1. w \notin InGet'
      BY <1>5 DEF InGet
    <2> QED
      BY <1>1, <1>2, <1>3, <1>4, <1>5, <1>6, <1>9, <2>1, GetLeft
  <1>14. JoinPart'
    BY <1>1, <1>2, <1>3, <1>4, <1>5, <1>9, JoinStands
  <1> QED
    BY <1>8, <1>11, <1>12, <1>13, <1>14 DEF WakeInv

\* The worker's task finishes: those it wakes and the gathers that waited for
\* it alone are scheduled.
LEMMA WorkerEnds ==
  ASSUME TypeOK, WakeInv, NEW w \in Workers, Turn(w), pc[w] \in {"get", "handle"},
         NEW woken \in Seq(Tasks), Distinct(woken),
         \A x \in ToSet(woken) :
            x \in Tasks \ {w} /\ pc[x] \in {"get", "putting", "joining"} /\ fut[x] = "pending",
         WorkerStops(w, woken), kids' = kids
  PROVE  /\ LoopInv' /\ FutInv'
         /\ pc'[w] = "stopped" /\ \A x \in Tasks \ {w} : pc'[x] = pc[x]
         /\ \E callbacks \in Seq(Tasks) : Advance(w, "none", woken, callbacks)
  <1>1. /\ w \in Tasks /\ MayAct(w) /\ pc[w] # "stopped" /\ w \notin Callers
        /\ DOMAIN pc = Tasks /\ LoopInv /\ FutInv /\ NoTask \notin Tasks
    BY WorkerIs, Kinds DEF WakeInv
  <1>2. PICK order \in SetToSeqs(LastChildOf(w)) : Ends(w, woken, order)
    BY DEF WorkerStops
  <1>3. order \in Seq(Tasks) /\ Distinct(order) /\ ToSet(order) = LastChildOf(w)
    <2>1. LastChildOf(w) \subseteq Callers /\ LastChildOf(w) \in SUBSET Tasks
      BY DEF LastChildOf, Tasks
    <2>2. IsFiniteSet(LastChildOf(w))
      BY <2>1, FS_Subset
    <2> QED
      BY <1>2, <2>1, <2>2, OrderDistinct
  <1>4. pc'[w] = "stopped" /\ \A x \in Tasks \ {w} : pc'[x] = pc[x]
    BY <1>1, PcMoves DEF WorkerStops
  <1>5. Advance(w, "none", woken, order) /\ running' = NoTask
    BY <1>2 DEF Ends
  <1>6. \A x \in ToSet(order) : x \in Callers \ {w} /\ pc[x] = "gathering" /\ ~AllStopped(x)
    BY <1>1, <1>3 DEF LastChildOf, AllStopped
  <1>7. ASSUME NEW x \in Callers \ {w}, pc[x] = "gathering"
        PROVE  AllStopped(x)' <=> AllStopped(x) \/ x \in ToSet(order)
    <2>1. kids[x] \subseteq Tasks /\ kids'[x] = kids[x]
      BY Kinds
    <2>2. AllStopped(x)' <=> \A v \in kids[x] \ {w} : pc[v] = "stopped"
      BY <1>4, <2>1 DEF AllStopped
    <2> QED
      BY <1>1, <1>3, <1>7, <2>2 DEF AllStopped, LastChildOf
  <1>8. LoopInv'
    <2>1. running' # w /\ ~Runnable(w)'
      BY <1>1, <1>4, <1>5 DEF Runnable
    <2> QED
      BY <1>1, <1>3, <1>4, <1>5, <1>6, <1>7, <2>1, TurnSchedules
  <1>9. FutInv'
    BY <1>1, <1>4, <1>5, TurnFutures
  <1> QED
    BY <1>3, <1>4, <1>5, <1>8, <1>9

\* Cancelled in get(), a worker passes on the item it was woken for.
LEMMA GetterCancelledWakes ==
  ASSUME TypeOK, WakeInv, NEW w \in Workers, GetterCancelled(w)
  PROVE  WakeInv'
  <1> DEFINE rest == Dropped(getters, w)
             woken == IF GetterPassesOn(w) THEN Woken(rest) ELSE <<>>
  <1>1. /\ w \in Tasks /\ MayAct(w) /\ pc[w] # "stopped"
        /\ w \notin InPut /\ Dropped(putters, w) = putters
        /\ w \notin ToSet(joinWaiters) /\ w \notin Callers
        /\ w \in InGet => fut[w] # "pending"
    BY WorkerIs DEF GetterCancelled
  <1>2. LoopTypeOK(Tasks) /\ NoTask \notin Tasks /\ DOMAIN pc = Tasks
        /\ LoopInv /\ FutInv /\ GetPart /\ PutPart /\ JoinPart /\ Len(items) \in Nat
        /\ unfinished \in Nat
    BY Kinds, DequeTypes DEF WakeInv, TypeOK
  <1>3. /\ WorkerStops(w, woken) /\ Turn(w) /\ pc[w] = "get"
        /\ getters' = IF GetterPassesOn(w) THEN Popped(rest) ELSE rest
        /\ UNCHANGED <<items, putters, unfinished, joinWaiters, kids>>
    BY DEF GetterCancelled, callVars
  <1>4. /\ woken \in Seq(Tasks) /\ Distinct(woken)
        /\ \A x \in ToSet(woken) : x \in InGet \ {w} /\ x \in Tasks /\ fut[x] = "pending"
    BY <1>2, DequeTypes, WokenSleep, ShortDistinct DEF GetPart
  <1>5. \A x \in ToSet(woken) : /\ x \in Tasks \ {w} /\ pc[x] = "get" /\ x \in Workers
                                /\ x \notin InPut /\ x \notin Callers
    <2> TAKE x \in ToSet(woken)
    <2>1. x \in Workers /\ pc[x] = "get" /\ x # w
      BY <1>4 DEF InGet
    <2> QED
      BY <2>1, Kinds DEF InPut
  <1>6. /\ LoopInv' /\ FutInv'
        /\ pc'[w] = "stopped" /\ \A x \in Tasks \ {w} : pc'[x] = pc[x]
        /\ \E callbacks \in Seq(Tasks) : Advance(w, "none", woken, callbacks)
    <2> HIDE DEF woken
    <2> QED
      BY <1>3, <1>4, <1>5, WorkerEnds
  <1>7. PICK callbacks \in Seq(Tasks) : Advance(w, "none", woken, callbacks)
    BY <1>6
  <1>8. GetPart'
    <2>1. w \notin InGet'
      BY <1>6 DEF InGet
    <2>2. CASE GetterPassesOn(w)
      BY <1>1, <1>2, <1>3, <1>6, <1>7, <2>1, <2>2, GetWakes
    <2>3. CASE ~GetterPassesOn(w)
      <3>1. Len(items') <= 0 \/ ~(w \in InGet /\ fut[w] = "done")
        BY <1>3, <2>3 DEF GetterPassesOn
      <3>2. \A x \in ToSet(<<>>) : x \notin InGet
        BY ShortDistinct
      <3> QED
        BY <1>1, <1>2, <1>3, <1>6, <1>7, <2>1, <2>3, <3>1, <3>2, GetLeft
    <2> QED
      BY <2>2, <2>3
  <1> HIDE DEF woken
  <1>9. PutPart'
    <2>1. w \notin InPut'
      BY <1>6 DEF InPut
    <2> QED
      BY <1>1, <1>2, <1>3, <1>5, <1>6, <1>7, <2>1, PutLeft
  <1>10. JoinPart'
    BY <1>1, <1>2, <1>3, <1>5, <1>6, <1>7, JoinStands
  <1> QED
    BY <1>6, <1>8, <1>9, <1>10 DEF WakeInv

\* Who the last task_done() wakes.
LEMMA DoneWakesSleep ==
  ASSUME TypeOK, JoinPart
  PROVE  /\ DoneWakes \in Seq(Tasks) /\ Distinct(DoneWakes)
         /\ \A x \in ToSet(DoneWakes) :
              /\ x \in Callers /\ x \in Tasks /\ x \notin Workers /\ x \notin InGet /\ x \notin InPut
              /\ pc[x] = "joining" /\ fut[x] = "pending"
  <1>1. DoneWakes \in Seq(Tasks) /\ Distinct(DoneWakes) /\ ToSet(DoneWakes) \subseteq ToSet(joinWaiters)
    BY DoneWakesType, ShortDistinct DEF DoneWakes, JoinPart
  <1>2. \A x \in ToSet(DoneWakes) : x \in Callers /\ pc[x] = "joining" /\ fut[x] = "pending"
    BY <1>1 DEF JoinPart
  <1> QED
    BY <1>1, <1>2, Kinds DEF InGet, InPut

\* Joiners: the last task_done() wakes them all, any other none of them.
LEMMA JoinDone ==
  ASSUME TypeOK, JoinPart, NEW w \in Workers, NEW state, NEW callbacks,
         Advance(w, state, DoneWakes, callbacks), TaskDone(w),
         \A x \in Tasks \ {w} : pc'[x] = pc[x]
  PROVE  JoinPart'
  <1>1. \A x \in Tasks : fut'[x] = IF x = w THEN state
                                   ELSE IF x \in ToSet(DoneWakes) THEN "done" ELSE fut[x]
    BY Kinds, AdvanceFutures
  <1>2. \A c \in Callers : /\ c \in Tasks /\ pc'[c] = pc[c]
                           /\ fut'[c] = IF c \in ToSet(DoneWakes) THEN "done" ELSE fut[c]
    BY <1>1, Kinds
  <1>3. CASE LastDone
    <2>1. DoneWakes = joinWaiters /\ joinWaiters' = <<>>
      BY <1>3 DEF DoneWakes, TaskDone
    <2>2. {c \in Callers : pc'[c] = "joining" /\ fut'[c] = "pending"} = {}
      BY <1>2, <2>1 DEF JoinPart
    <2> QED
      BY <2>1, <2>2, ShortDistinct DEF JoinPart, JoinersHaveCause
  <1>4. CASE ~LastDone
    <2>1. ToSet(DoneWakes) = {} /\ joinWaiters' = joinWaiters /\ unfinished' = unfinished - 1
      BY <1>4, ShortDistinct DEF DoneWakes, TaskDone
    <2>2. {c \in Callers : pc'[c] = "joining" /\ fut'[c] = "pending"}
            = {c \in Callers : pc[c] = "joining" /\ fut[c] = "pending"}
      BY <1>2, <2>1
    <2>3. joinWaiters' # <<>> => unfinished' > 0
      <3>1. unfinished \in Nat /\ unfinished # 1
        BY <1>4 DEF LastDone, TypeOK
      <3> QED
        BY <2>1, <3>1 DEF JoinPart, JoinersHaveCause
    <2> QED
      BY <2>1, <2>2, <2>3 DEF JoinPart, JoinersHaveCause
  <1> QED
    BY <1>3, <1>4

\* The handler has returned or raised: its item is marked done, and the worker
\* goes back to get().
LEMMA HandlerDoneWakes ==
  ASSUME TypeOK, WakeInv, NEW w \in Workers, Turn(w), pc[w] = "handle",
         Continues(w, DoneWakes), TaskDone(w), pc' = [pc EXCEPT ![w] = "get"],
         UNCHANGED <<items, getters, putters, kids>>
  PROVE  WakeInv'
  <1>1. /\ w \in Tasks /\ MayAct(w) /\ pc[w] # "stopped"
        /\ w \notin InPut /\ Dropped(putters, w) = putters
        /\ w \notin Callers /\ w \notin InGet /\ Dropped(getters, w) = getters
    BY WorkerIs
  <1>2. LoopTypeOK(Tasks) /\ NoTask \notin Tasks /\ DOMAIN pc = Tasks
        /\ LoopInv /\ FutInv /\ GetPart /\ PutPart /\ JoinPart /\ Len(items) \in Nat
    BY Kinds, DequeTypes DEF WakeInv
  <1>3. Advance(w, "none", DoneWakes, <<>>) /\ running' = w
    BY DEF Continues
  <1>4. pc'[w] = "get" /\ \A x \in Tasks \ {w} : pc'[x] = pc[x]
    BY <1>1, <1>2, PcMoves
  <1>5. /\ DoneWakes \in Seq(Tasks) /\ Distinct(DoneWakes)
        /\ \A x \in ToSet(DoneWakes) :
             /\ x \in Tasks \ {w} /\ x \notin InGet /\ x \notin InPut
             /\ pc[x] = "joining" /\ fut[x] = "pending"
    BY <1>2, DoneWakesSleep
  <1>6. fut'[w] = "none"
    BY <1>1, <1>2, <1>3, AdvanceFutures
  <1>7. LoopInv'
    <2>1. running' = w /\ Runnable(w)'
      BY <1>3, <1>4, <1>6 DEF Runnable
    <2> QED
      BY <1>1, <1>2, <1>3, <1>4, <1>5, <2>1, MoveSchedules
  <1>8. FutInv'
    BY <1>1, <1>2, <1>3, <1>4, <1>5, TurnFutures
  <1>9. GetPart'
    BY <1>1, <1>2, <1>3, <1>4, <1>5, GetLeft
  <1>10. PutPart'
    <2>1. w \notin InPut'
      BY <1>4 DEF InPut
    <2> QED
      BY <1>1, <1>2, <1>3, <1>4, <1>5, <2>1, PutLeft
  <1>11. JoinPart'
    BY <1>2, <1>3, <1>4, JoinDone
  <1> QED
    BY <1>7, <1>8, <1>9, <1>10, <1>11 DEF WakeInv

\* The worker finishes over its item, marked done or not.
LEMMA HandlerEndsWakes ==
  ASSUME TypeOK, WakeInv, NEW w \in Workers, Turn(w), pc[w] = "handle",
         \/ WorkerStops(w, DoneWakes) /\ TaskDone(w)
         \/ WorkerStops(w, <<>>) /\ UNCHANGED <<unfinished, joinWaiters>>,
         UNCHANGED <<items, getters, putters, kids>>
  PROVE  WakeInv'
  <1>1. /\ w \in Tasks /\ MayAct(w) /\ pc[w] # "stopped" /\ w \notin ToSet(joinWaiters)
        /\ w \notin InPut /\ Dropped(putters, w) = putters
        /\ w \notin Callers /\ w \notin InGet /\ Dropped(getters, w) = getters
    BY WorkerIs
  <1>2. LoopTypeOK(Tasks) /\ NoTask \notin Tasks /\ DOMAIN pc = Tasks
        /\ LoopInv /\ FutInv /\ GetPart /\ PutPart /\ JoinPart /\ Len(items) \in Nat
        /\ unfinished \in Nat
    BY Kinds, DequeTypes DEF WakeInv, TypeOK
  <1>3. ASSUME NEW woken \in {<<>>, DoneWakes}, WorkerStops(w, woken),
               \/ woken = <<>> /\ UNCHANGED <<unfinished, joinWaiters>>
               \/ woken = DoneWakes /\ TaskDone(w)
        PROVE  WakeInv'
    <2>1. /\ woken \in Seq(Tasks) /\ Distinct(woken)
          /\ \A x \in ToSet(woken) :
               /\ x \in Tasks \ {w} /\ x \notin InGet /\ x \notin InPut
               /\ pc[x] = "joining" /\ fut[x] = "pending"
      <3>1. CASE woken = <<>>
        BY <3>1, ShortDistinct
      <3>2. CASE woken = DoneWakes
        BY <1>2, <3>2, DoneWakesSleep
      <3> QED
        BY <1>3, <3>1, <3>2
    <2>2. /\ LoopInv' /\ FutInv'
          /\ pc'[w] = "stopped" /\ \A x \in Tasks \ {w} : pc'[x] = pc[x]
          /\ \E callbacks \in Seq(Tasks) : Advance(w, "none", woken, callbacks)
      BY <1>3, <2>1, WorkerEnds
    <2>3. PICK callbacks \in Seq(Tasks) : Advance(w, "none", woken, callbacks)
      BY <2>2
    <2>4. GetPart' /\ PutPart'
      <3>1. w \notin InPut' /\ w \notin InGet'
        BY <2>2 DEF InPut, InGet
      <3> QED
        BY <1>1, <1>2, <2>1, <2>2, <2>3, <3>1, GetLeft, PutLeft
    <2>5. JoinPart'
      <3>1. CASE woken = DoneWakes /\ TaskDone(w)
        BY <1>2, <2>2, <2>3, <3>1, JoinDone
      <3>2. CASE woken = <<>> /\ UNCHANGED <<unfinished, joinWaiters>>
        BY <1>1, <1>2, <2>2, <2>3, <3>2, ShortDistinct, JoinStands
      <3> QED
        BY <1>3, <3>1, <3>2
    <2> QED
      BY <2>2, <2>4, <2>5 DEF WakeInv
  <1> QED
    BY <1>3

\* Whatever a worker does in its turn.
LEMMA WorkerWakes ==
  ASSUME TypeOK, WakeInv, NEW w \in Workers, WorkerStep(w)
  PROVE  WakeInv'
  <1>1. CASE WorkerWaits(w)
    BY <1>1, WorkerWaitsWakes
  <1>2. CASE WorkerTakes(w)
    BY <1>2, WorkerTakesWakes
  <1>3. CASE HandlerReturns(w)
    <2>1. /\ Turn(w) /\ pc[w] = "handle" /\ UNCHANGED <<items, getters, putters, kids>>
          /\ \/ WorkerStops(w, <<>>) /\ UNCHANGED <<unfinished, joinWaiters>>
             \/ TaskDone(w) /\ pc' = [pc EXCEPT ![w] = "get"] /\ Continues(w, DoneWakes)
      BY <1>3 DEF HandlerReturns, callVars
    <2> QED
      BY <2>1, HandlerDoneWakes, HandlerEndsWakes
  <1>4. CASE HandlerRaises(w)
    BY <1>4, HandlerDoneWakes DEF HandlerRaises, callVars
  <1>5. CASE HandlerCancelled(w)
    BY <1>5, HandlerEndsWakes DEF HandlerCancelled, callVars
  <1>6. CASE GetterCancelled(w)
    BY <1>6, GetterCancelledWakes
  <1> QED
    BY <1>1, <1>2, <1>3, <1>4, <1>5, <1>6 DEF WorkerStep

-----------------------------------------------------------------------------
(* Callers *)

\* Who is where when a caller acts.
LEMMA CallerIs ==
  ASSUME TypeOK, WakeInv, NEW c \in Callers,
         \/ Idle /\ pc[c] = "idle"
         \/ Turn(c)
  PROVE  /\ c \in Tasks /\ MayAct(c) /\ Idle /\ c \notin Workers
         /\ c \notin InGet /\ c \notin InGet' /\ c \notin InPut /\ c \notin InPut'
         /\ Dropped(getters, c) = getters /\ Dropped(putters, c) = putters
         /\ c \notin ToSet(joinWaiters)
  <1>1. c \in Tasks /\ c \notin Items /\ c \notin Workers
    BY Kinds
  <1>2. c \notin InGet /\ c \notin InGet' /\ c \notin InPut /\ c \notin InPut'
    BY <1>1 DEF InPut, InGet
  <1>3. MayAct(c) /\ Idle
    BY <1>1, TurnIs, CallIs DEF WakeInv
  <1>4. c \notin ToSet(getters) /\ c \notin ToSet(putters) /\ c \notin ToSet(joinWaiters)
    BY <1>1, <1>3, ActorLeft
  <1> QED
    BY <1>1, <1>2, <1>3, <1>4, DroppedStranger

\* A caller returns, or goes to sleep in join().
LEMMA CallerMovesWakes ==
  ASSUME TypeOK, WakeInv, NEW c \in Callers,
         \/ Idle /\ pc[c] = "idle"
         \/ Turn(c),
         NEW s \in {"joined", "closed", "cancelled", "joining"},
         IF s = "joining" THEN Suspends(c, <<>>) ELSE Ends(c, <<>>, <<>>),
         joinWaiters' = IF s = "joining" THEN Append(joinWaiters, c) ELSE joinWaiters,
         s = "joining" => unfinished # 0,
         pc' = [pc EXCEPT ![c] = s],
         UNCHANGED <<items, getters, putters, unfinished, kids>>
  PROVE  WakeInv'
  <1> DEFINE state == IF s = "joining" THEN "pending" ELSE "none"
  <1>1. /\ c \in Tasks /\ MayAct(c) /\ Idle /\ c \notin Workers
        /\ c \notin InGet /\ c \notin InGet' /\ c \notin InPut /\ c \notin InPut'
        /\ Dropped(getters, c) = getters /\ Dropped(putters, c) = putters
        /\ c \notin ToSet(joinWaiters)
    BY CallerIs
  <1>2. LoopTypeOK(Tasks) /\ NoTask \notin Tasks /\ DOMAIN pc = Tasks
        /\ LoopInv /\ FutInv /\ GetPart /\ PutPart /\ JoinPart /\ Len(items) \in Nat
        /\ unfinished \in Nat /\ joinWaiters \in Seq(Tasks)
    BY Kinds, DequeTypes DEF WakeInv, TypeOK
  <1>3. Advance(c, state, <<>>, <<>>) /\ running' = NoTask
    BY DEF Suspends, Ends
  <1>4. pc'[c] = s /\ \A x \in Tasks \ {c} : pc'[x] = pc[x]
    BY <1>1, <1>2, PcMoves
  <1>5. <<>> \in Seq(Tasks) /\ Distinct(<<>>) /\ ToSet(<<>>) = {}
    BY ShortDistinct
  <1>6. \A x \in Tasks : fut'[x] = IF x = c THEN state ELSE fut[x]
    BY <1>1, <1>2, <1>3, <1>5, AdvanceFutures
  <1>7. LoopInv'
    <2>1. running' # c /\ ~Runnable(c)'
      BY <1>1, <1>2, <1>3, <1>4, <1>6 DEF Runnable
    <2> QED
      BY <1>1, <1>2, <1>3, <1>4, <1>5, <2>1, MoveSchedules
  <1>8. FutInv'
    BY <1>1, <1>2, <1>3, <1>4, <1>5, TurnFutures
  <1>9. GetPart' /\ PutPart'
    BY <1>1, <1>2, <1>3, <1>4, <1>5, GetLeft, PutLeft
  <1>10. JoinPart'
    <2>1. CASE s # "joining"
      BY <1>1, <1>2, <1>3, <1>4, <1>5, <2>1, JoinStands
    <2>2. CASE s = "joining"
      <3>1. {d \in Callers : pc'[d] = "joining" /\ fut'[d] = "pending"}
              = {d \in Callers : pc[d] = "joining" /\ fut[d] = "pending"} \cup {c}
        BY <1>4, <1>6, <2>2, Kinds
      <3>2. ToSet(joinWaiters') = ToSet(joinWaiters) \cup {c} /\ Distinct(joinWaiters')
        BY <1>1, <1>2, <2>2, AppendDistinct DEF JoinPart
      <3> QED
        BY <1>2, <2>2, <3>1, <3>2 DEF JoinPart, JoinersHaveCause
    <2> QED
      BY <2>1, <2>2
  <1> QED
    BY <1>7, <1>8, <1>9, <1>10 DEF WakeInv

\* gather completes: the caller's next turn is scheduled.
LEMMA GatherWakes ==
  ASSUME TypeOK, WakeInv, NEW c \in Callers, GatherCompletes(c)
  PROVE  WakeInv'
  <1>1. /\ c \in Tasks /\ MayAct(c) /\ Idle /\ c \notin Workers
        /\ c \notin InGet /\ c \notin InGet' /\ c \notin InPut /\ c \notin InPut'
    BY CallerIs DEF GatherCompletes
  <1>2. LoopTypeOK(Tasks) /\ NoTask \notin Tasks /\ DOMAIN pc = Tasks
        /\ LoopInv /\ FutInv /\ GetPart /\ PutPart /\ JoinPart
    BY Kinds, DequeTypes DEF WakeInv
  <1>3. /\ pc[c] = "gathering" /\ pc' = [pc EXCEPT ![c] = "gathered"] /\ Turn(c)
        /\ ready' = Append(Behind(c), c) /\ fut' = [fut EXCEPT ![c] = "done"]
        /\ UNCHANGED <<running, items, getters, putters, unfinished, joinWaiters, kids>>
    BY DEF GatherCompletes, queueVars, callVars
  <1>4. pc'[c] = "gathered" /\ \A x \in Tasks \ {c} : pc'[x] = pc[x]
    BY <1>1, <1>2, <1>3, PcMoves
  <1>5. fut'[c] = "done" /\ \A x \in Tasks \ {c} : fut'[x] = fut[x]
    BY <1>1, <1>2, <1>3 DEF LoopTypeOK
  <1>6. LoopInv'
    <2>1. Behind(c) \in Seq(Tasks) /\ Distinct(Behind(c)) /\ ToSet(Behind(c)) = Scheduled \ {c}
      BY <1>1, <1>2, BehindIs DEF LoopInv
    <2>2. Distinct(ready') /\ ToSet(ready') = Scheduled \cup {c}
      BY <1>1, <1>3, <2>1, AppendDistinct
    <2>3. running' = NoTask /\ NoTask \notin Scheduled
      BY <1>1, <1>2, <1>3 DEF Idle, Scheduled, LoopTypeOK, ToSet
    <2>4. LoopNeat' /\ Scheduled' = Scheduled \cup {c}
      BY <1>1, <1>2, <2>2, <2>3 DEF LoopNeat, Scheduled
    <2>5. ASSUME NEW x \in Tasks PROVE x \in Scheduled' <=> Runnable(x)'
      <3>1. CASE x = c
        BY <1>4, <2>4, <3>1 DEF Runnable
      <3>2. CASE x # c
        <4>1. pc[x] = "gathering" => x \in Callers
          BY Kinds DEF Tasks
        <4>2. pc[x] = "gathering" => (AllStopped(x)' <=> AllStopped(x))
          <5>1. x \in Callers => c \notin kids[x] /\ kids[x] \subseteq Tasks
            BY <1>1, Kinds
          <5> QED
            BY <1>3, <1>4, <4>1, <5>1 DEF AllStopped
        <4>3. Runnable(x)' <=> Runnable(x)
          BY <1>4, <1>5, <3>2, <4>2 DEF Runnable
        <4> QED
          BY <1>2, <2>4, <3>2, <4>3 DEF LoopInv
      <3> QED
        BY <3>1, <3>2
    <2> QED
      BY <2>3, <2>4, <2>5 DEF LoopInv
  <1>7. FutInv'
    BY <1>2, <1>4, <1>5 DEF FutInv
  <1>8. InGet' = InGet /\ InPut' = InPut
    BY <1>1, <1>4, Kinds DEF InGet, InPut
  <1>9. GetPart' /\ PutPart'
    <2>1. \A x \in InGet \cup InPut : fut'[x] = fut[x]
      BY <1>1, <1>5, WaitersFinite
    <2> QED
      BY <1>2, <1>3, <1>8, <2>1, DequesStand
  <1>10. JoinPart'
    <2>1. {d \in Callers : pc'[d] = "joining" /\ fut'[d] = "pending"}
            = {d \in Callers : pc[d] = "joining" /\ fut[d] = "pending"}
      BY <1>3, <1>4, <1>5, Kinds
    <2> QED
      BY <1>2, <1>3, <2>1 DEF JoinPart, JoinersHaveCause
  <1> QED
    BY <1>6, <1>7, <1>9, <1>10 DEF WakeInv

\* The second half of aclose: the workers that sleep are woken by a
\* CancelledError each, and the caller waits for all.
LEMMA CancelAndGatherWakes ==
  ASSUME TypeOK, WakeInv, NEW c \in Callers,
         \/ Idle /\ pc[c] = "idle"
         \/ Turn(c),
         CancelAndGather(c),
         UNCHANGED <<items, getters, putters, unfinished, joinWaiters>>
  PROVE  WakeInv'
  <1> DEFINE waiting == {w \in ToCancel : fut[w] = "pending"}
             all == \A w \in workers : pc[w] = "stopped"
             last == IF all THEN <<c>> ELSE <<>>
  <1>1. /\ c \in Tasks /\ MayAct(c) /\ Idle /\ c \notin Workers
        /\ c \notin InGet /\ c \notin InGet' /\ c \notin InPut /\ c \notin InPut'
        /\ c \notin ToSet(joinWaiters)
    BY CallerIs
  <1>2. LoopTypeOK(Tasks) /\ NoTask \notin Tasks /\ DOMAIN pc = Tasks
        /\ LoopInv /\ FutInv /\ GetPart /\ PutPart /\ JoinPart /\ workers \subseteq Workers
    BY Kinds, DequeTypes DEF WakeInv
  <1>3. CASE workers = {}
    BY <1>3, CallerMovesWakes DEF CancelAndGather
  <1>4. CASE workers # {}
    <2>1. PICK order \in SetToSeqs(waiting) : ready' = Behind(c) \o order \o last
      BY <1>4 DEF CancelAndGather
    <2>2. /\ pc' = [pc EXCEPT ![c] = "gathering"] /\ kids' = [kids EXCEPT ![c] = workers]
          /\ running' = NoTask
          /\ fut' = [t \in DOMAIN fut |->
                       IF t = c THEN "pending"
                       ELSE IF t \in waiting THEN "cancelled" ELSE fut[t]]
      BY <1>4 DEF CancelAndGather
    <2>3. pc'[c] = "gathering" /\ \A x \in Tasks \ {c} : pc'[x] = pc[x]
      BY <1>1, <1>2, <2>2, PcMoves
    <2>4. \A x \in Tasks : fut'[x] = IF x = c THEN "pending"
                                     ELSE IF x \in waiting THEN "cancelled" ELSE fut[x]
      BY <1>2, <2>2 DEF LoopTypeOK
    <2>5. /\ waiting \in SUBSET Tasks /\ waiting \subseteq Workers /\ IsFiniteSet(waiting)
          /\ \A w \in waiting : /\ pc[w] \in {"get", "handle"} /\ fut[w] = "pending"
                                /\ w \notin Scheduled /\ w \notin Callers /\ w \notin Items
      <3>1. waiting \subseteq Workers /\ waiting \in SUBSET Tasks
        BY <1>2 DEF ToCancel, Tasks
      <3>2. IsFiniteSet(waiting)
        BY <3>1, WorkersFinite, FS_Subset
      <3>3. ASSUME NEW w \in waiting
            PROVE  /\ pc[w] \in {"get", "handle"} /\ fut[w] = "pending"
                   /\ w \notin Scheduled /\ w \notin Callers /\ w \notin Items
        <4>1. w \in Workers /\ w \in Tasks /\ pc[w] # "stopped" /\ fut[w] = "pending"
          BY <3>1, <3>3 DEF ToCancel
        <4>2. pc[w] \in {"get", "handle"}
          BY <1>2, <4>1, Kinds DEF FutInv
        <4> QED
          BY <1>2, <4>1, <4>2, Kinds DEF LoopInv, Runnable
      <3> QED
        BY <3>1, <3>2, <3>3
    <2>6. order \in Seq(Tasks) /\ Distinct(order) /\ ToSet(order) = waiting
      <3> HIDE DEF waiting
      <3> QED
        BY <2>1, <2>5, OrderDistinct
    <2>7. last \in Seq(Tasks) /\ Distinct(last) /\ ToSet(last) = IF all THEN {c} ELSE {}
      <3> HIDE DEF all
      <3>1. CASE all
        BY <1>1, <3>1, ShortDistinct
      <3>2. CASE ~all
        BY <3>2, ShortDistinct
      <3> QED
        BY <3>1, <3>2
    <2> HIDE DEF last, waiting, all
    <2>8. Behind(c) \in Seq(Tasks) /\ Distinct(Behind(c)) /\ ToSet(Behind(c)) = Scheduled \ {c}
      BY <1>1, <1>2, BehindIs DEF LoopInv
    <2>9. /\ Behind(c) \o order \in Seq(Tasks) /\ Distinct(Behind(c) \o order)
          /\ ToSet(Behind(c) \o order) = (Scheduled \ {c}) \cup waiting
      BY <2>5, <2>6, <2>8, ConcatDistinct
    <2>10. /\ Distinct(ready')
           /\ ToSet(ready') = (Scheduled \ {c}) \cup waiting \cup (IF all THEN {c} ELSE {})
      <3> DEFINE first == Behind(c) \o order
      <3>1. first \in Seq(Tasks) /\ Distinct(first) /\ ToSet(first) \cap ToSet(last) = {}
        BY <1>1, <2>5, <2>7, <2>9
      <3>2. ToSet(first) = (Scheduled \ {c}) \cup waiting
        BY <2>9
      <3>3. ready' = first \o last
        BY <2>1, <2>6, <2>7, <2>8
      <3> HIDE DEF first
      <3>4. /\ ToSet(first \o last) = ToSet(first) \cup ToSet(last)
            /\ Distinct(first \o last)
        BY <2>7, <3>1, ConcatDistinct
      <3> QED
        BY <2>7, <3>2, <3>3, <3>4
    <2>11. NoTask \notin Scheduled /\ NoTask \notin waiting
      BY <1>1, <1>2, <2>5 DEF Idle, Scheduled, LoopTypeOK, ToSet
    <2>12. LoopNeat' /\ Scheduled' = ToSet(ready')
      BY <1>1, <1>2, <2>2, <2>10, <2>11 DEF LoopNeat, Scheduled
    <2>13. ASSUME NEW x \in Tasks PROVE x \in Scheduled' <=> Runnable(x)'
      <3>1. CASE x = c
        <4>1. kids'[c] = workers
          BY <2>2 DEF TypeOK
        <4>2. \A w \in workers : pc'[w] = pc[w]
          BY <1>1, <1>2, <2>3, Kinds
        <4>3. AllStopped(c)' <=> all
          BY <4>1, <4>2 DEF AllStopped, all
        <4> QED
          BY <1>1, <2>3, <2>5, <2>10, <2>12, <3>1, <4>3 DEF Runnable
      <3>2. CASE x \in waiting
        BY <1>1, <2>3, <2>4, <2>5, <2>10, <2>12, <3>2 DEF Runnable
      <3>3. CASE x # c /\ x \notin waiting
        <4>1. pc[x] = "gathering" => x \in Callers
          BY Kinds DEF Tasks
        <4>2. pc[x] = "gathering" => (AllStopped(x)' <=> AllStopped(x))
          <5>1. x \in Callers => c \notin kids[x] /\ kids[x] \subseteq Tasks /\ kids'[x] = kids[x]
            BY <1>1, <2>2, <3>3, Kinds DEF TypeOK
          <5> QED
            BY <2>3, <4>1, <5>1 DEF AllStopped
        <4>3. Runnable(x)' <=> Runnable(x)
          BY <2>3, <2>4, <3>3, <4>2 DEF Runnable
        <4> QED
          BY <1>2, <2>10, <2>12, <3>3, <4>3 DEF LoopInv
      <3> QED
        BY <3>1, <3>2, <3>3
    <2>14. LoopInv'
      BY <2>2, <2>12, <2>13 DEF LoopInv
    <2>15. FutInv'
      BY <1>2, <2>3, <2>4, <2>5 DEF FutInv
    <2>16. GetPart' /\ PutPart'
      <3>1. InGet' = InGet /\ InPut' = InPut
        BY <1>1, <2>3, Kinds DEF InGet, InPut
      <3>2. \A x \in InGet \cup InPut :
               fut'[x] = fut[x] \/ (fut[x] = "pending" /\ fut'[x] = "cancelled")
        BY <1>1, <2>4, <2>5, WaitersFinite
      <3> QED
        BY <1>2, <3>1, <3>2, DequesStand
    <2>17. JoinPart'
      <3>1. {d \in Callers : pc'[d] = "joining" /\ fut'[d] = "pending"}
              = {d \in Callers : pc[d] = "joining" /\ fut[d] = "pending"}
        <4>1. ~(pc[c] = "joining" /\ fut[c] = "pending")
          BY <1>1, <1>2 DEF JoinPart
        <4> QED
          BY <2>3, <2>4, <2>5, <4>1, Kinds
      <3> QED
        BY <1>2, <3>1 DEF JoinPart, JoinersHaveCause
    <2> QED
      BY <2>14, <2>15, <2>16, <2>17 DEF WakeInv
  <1> QED
    BY <1>3, <1>4

\* Whatever a caller does in its turn, and when it calls.
LEMMA CallerWakes ==
  ASSUME TypeOK, WakeInv, NEW c \in Callers,
         CallerStep(c) \/ \E what \in Operations : Call(c, what)
  PROVE  WakeInv'
  <1>1. CASE JoinerWakes(c)
    <2>1. Turn(c) /\ UNCHANGED <<items, getters, putters, unfinished, joinWaiters>>
      BY <1>1 DEF JoinerWakes, queueVars
    <2>2. \/ CancelAndGather(c)
          \/ pc' = [pc EXCEPT ![c] = "joined"] /\ Ends(c, <<>>, <<>>) /\ kids' = kids
      BY <1>1 DEF JoinerWakes
    <2> QED
      BY <2>1, <2>2, CancelAndGatherWakes, CallerMovesWakes
  <1>2. CASE GatherCompletes(c)
    BY <1>2, GatherWakes
  <1>3. CASE CloseReturns(c) \/ CallerCancelled(c)
    <2>1. /\ Turn(c) /\ Ends(c, <<>>, <<>>)
          /\ UNCHANGED <<items, getters, putters, unfinished, joinWaiters, kids>>
          /\ \E s \in {"closed", "cancelled"} : pc' = [pc EXCEPT ![c] = s]
      BY <1>3 DEF CloseReturns, CallerCancelled, queueVars, callVars
    <2> QED
      BY <2>1, CallerMovesWakes
  <1>4. ASSUME NEW what \in Operations, Call(c, what) PROVE WakeInv'
    <2>1. Idle /\ pc[c] = "idle" /\ UNCHANGED <<items, getters, putters, unfinished>>
      BY <1>4 DEF Call
    <2>2. \/ CancelAndGather(c) /\ joinWaiters' = joinWaiters
          \/ /\ kids' = kids
             /\ \/ /\ pc' = [pc EXCEPT ![c] = "joined"]
                   /\ Ends(c, <<>>, <<>>) /\ joinWaiters' = joinWaiters
                \/ /\ unfinished # 0 /\ pc' = [pc EXCEPT ![c] = "joining"]
                   /\ joinWaiters' = Append(joinWaiters, c) /\ Suspends(c, <<>>)
      BY <1>4 DEF Call
    <2> QED
      BY <2>1, <2>2, CancelAndGatherWakes, CallerMovesWakes
  <1> QED
    BY <1>1, <1>2, <1>3, <1>4 DEF CallerStep

-----------------------------------------------------------------------------
(* Signals, new workers, and the whole step *)

\* Somebody who slept is scheduled: a handler's await completes, or the
\* application cancels a submit or a caller.
LEMMA SignalWakes ==
  ASSUME TypeOK, WakeInv, NEW t \in Tasks, Idle, fut[t] = "pending",
         NEW state \in {"done", "cancelled"},
         pc[t] \in {"handle", "putting", "joining"}, state = "done" => pc[t] = "handle",
         ready' = Append(ready, t), running' = running, fut' = [fut EXCEPT ![t] = state],
         joinWaiters' = Dropped(joinWaiters, t),
         UNCHANGED <<items, getters, putters, unfinished, pc, kids>>
  PROVE  WakeInv'
  <1>1. LoopTypeOK(Tasks) /\ NoTask \notin Tasks /\ joinWaiters \in Seq(Tasks)
        /\ LoopInv /\ FutInv /\ GetPart /\ PutPart /\ JoinPart
    BY Kinds, DequeTypes DEF WakeInv
  <1>2. fut'[t] = state /\ \A x \in Tasks \ {t} : fut'[x] = fut[x]
    BY <1>1 DEF LoopTypeOK
  <1>3. t \notin Scheduled
    BY <1>1 DEF LoopInv, Runnable
  <1>4. LoopNeat' /\ Scheduled' = Scheduled \cup {t}
    BY <1>1, <1>3, SignalSchedules DEF LoopInv
  <1>5. \A x \in Tasks : AllStopped(x)' <=> AllStopped(x)
    BY DEF AllStopped
  <1>6. LoopInv'
    BY <1>1, <1>2, <1>4, <1>5 DEF LoopInv, Runnable
  <1>7. FutInv'
    BY <1>1, <1>2 DEF FutInv
  <1>8. GetPart' /\ PutPart'
    <2>1. InGet' = InGet /\ InPut' = InPut
      BY DEF InGet, InPut
    <2>2. \A x \in InGet \cup InPut :
             fut'[x] = fut[x] \/ (fut[x] = "pending" /\ fut'[x] = "cancelled")
      BY <1>2, Kinds DEF InGet, InPut
    <2> QED
      BY <1>1, <2>1, <2>2, DequesStand
  <1>9. JoinPart'
    <2>1. Distinct(joinWaiters') /\ ToSet(joinWaiters') = ToSet(joinWaiters) \ {t}
      BY <1>1, DroppedDistinct DEF JoinPart
    <2>2. {d \in Callers : pc'[d] = "joining" /\ fut'[d] = "pending"}
            = {d \in Callers : pc[d] = "joining" /\ fut[d] = "pending"} \ {t}
      BY <1>2, Kinds
    <2>3. joinWaiters' # <<>> => joinWaiters # <<>>
      <3>1. joinWaiters = <<>> => t \notin ToSet(joinWaiters)
        BY ShortDistinct
      <3> QED
        BY <3>1, DroppedStranger
    <2> QED
      BY <1>1, <2>1, <2>2, <2>3 DEF JoinPart, JoinersHaveCause
  <1> QED
    BY <1>6, <1>7, <1>8, <1>9 DEF WakeInv

\* A step that touches neither the queue nor what anybody awaits.
LEMMA WakesStand ==
  ASSUME WakeInv,
         UNCHANGED <<ready, running, fut, items, getters, putters, unfinished, joinWaiters, pc, kids>>
  PROVE  WakeInv'
  <1>1. LoopInv' /\ FutInv'
    BY DEF WakeInv, LoopInv, LoopNeat, Scheduled, Runnable, AllStopped, FutInv
  <1>2. InGet' = InGet /\ InPut' = InPut
    BY DEF InGet, InPut
  <1>3. GetPart' /\ PutPart' /\ JoinPart'
    BY <1>2 DEF WakeInv, GetPart, PutPart, JoinPart, JoinersHaveCause
  <1> QED
    BY <1>1, <1>3 DEF WakeInv

\* The application cancels a call, or what a handler awaits completes.
LEMMA CancelWakes ==
  ASSUME TypeOK, WakeInv,
         \/ \E t \in Cancellable : Cancel(t)
         \/ \E w \in Workers : HandlerWakes(w)
  PROVE  WakeInv'
  <1>1. ASSUME NEW t \in Cancellable, Cancel(t) PROVE WakeInv'
    <2>1. t \in Tasks /\ pc[t] \in {"putting", "joining", "gathering", "gathered"}
          /\ UNCHANGED <<items, getters, putters, unfinished, pc, kids>>
          /\ joinWaiters' = Dropped(joinWaiters, t)
      BY <1>1 DEF Cancel, callVars, Tasks
    <2>2. CASE fut[t] = "pending" /\ pc[t] # "gathering"
      <3>1. pc[t] \in {"putting", "joining"}
        BY <2>1, <2>2 DEF WakeInv, FutInv
      <3>2. /\ Idle /\ ready' = Append(ready, t) /\ running' = running
            /\ fut' = [fut EXCEPT ![t] = "cancelled"]
        BY <1>1, <2>2 DEF Cancel, Cancels
      <3> QED
        BY <2>1, <2>2, <3>1, <3>2, SignalWakes
    <2>3. CASE ~(fut[t] = "pending" /\ pc[t] # "gathering")
      <3>1. UNCHANGED <<ready, running, fut>>
        BY <1>1, <2>3 DEF Cancel, Cancels
      <3>2. t \notin ToSet(joinWaiters)
        BY <2>3 DEF WakeInv, JoinPart
      <3> QED
        BY <2>1, <3>1, <3>2, DroppedStranger, WakesStand
    <2> QED
      BY <2>2, <2>3
  <1>2. ASSUME NEW w \in Workers, HandlerWakes(w) PROVE WakeInv'
    <2>1. w \in Tasks /\ pc[w] = "handle" /\ Completes(w)
          /\ UNCHANGED <<items, getters, putters, unfinished, joinWaiters, pc, kids>>
      BY <1>2 DEF HandlerWakes, queueVars, callVars, Tasks
    <2>2. Dropped(joinWaiters, w) = joinWaiters
      BY <2>1, DroppedStranger DEF WakeInv, JoinPart
    <2> QED
      BY <2>1, <2>2, SignalWakes DEF Completes
  <1> QED
    BY <1>1, <1>2

\* start() schedules the first turn of each new worker.
LEMMA StartWakes ==
  ASSUME IInv, WakeInv, Start
  PROVE  WakeInv'
  <1> DEFINE born == (spawned + 1) .. (spawned + PoolSize)
             turns == [k \in 1 .. PoolSize |-> spawned + k]
  <1>1. /\ TypeOK /\ LoopTypeOK(Tasks) /\ NoTask \notin Tasks /\ DOMAIN pc = Tasks
        /\ LoopInv /\ FutInv /\ GetPart /\ PutPart /\ JoinPart
    BY Kinds DEF WakeInv, IInv
  <1>2. /\ Idle /\ pc' = [t \in Tasks |-> IF t \in born THEN "get" ELSE pc[t]]
        /\ ready' = ready \o turns
        /\ UNCHANGED <<running, fut, items, getters, putters, unfinished, joinWaiters, kids>>
    BY DEF Start, queueVars, callVars
  <1>3. spawned \in Nat /\ PoolSize \in Nat \ {0} /\ spawned + PoolSize \in Workers
    BY <1>1 DEF Start, TypeOK
  <1>4. \A w \in born : w \in Workers /\ w > spawned
    BY <1>3 DEF Workers
  <1>5. \A w \in born : /\ w \in Workers /\ w \in Tasks /\ w \notin Items /\ w \notin Callers
                        /\ pc[w] = "unborn" /\ fut[w] = "none" /\ w \notin Scheduled
                        /\ w \notin InGet /\ w \notin ToSet(getters)
    <2> TAKE w \in born
    <2>1. w \in Workers /\ pc[w] = "unborn"
      BY <1>4 DEF IInv, BooksInv, Places
    <2>2. w \in Tasks /\ w \notin Items /\ w \notin Callers /\ w \notin InGet
      BY <1>1, <2>1, Kinds DEF InGet
    <2> QED
      BY <1>1, <2>1, <2>2 DEF FutInv, LoopInv, Runnable, GetPart, Deque
  <1>6. turns \in Seq(Tasks) /\ Distinct(turns) /\ ToSet(turns) = born
    <2>1. \A k \in 1 .. PoolSize : spawned + k \in born
      BY <1>3
    <2>2. \A w \in born : w - spawned \in 1 .. PoolSize /\ turns[w - spawned] = w
      BY <1>3
    <2>3. turns \in Seq(Tasks) /\ DOMAIN turns = 1 .. PoolSize
      BY <1>3, <1>5, <2>1
    <2>4. ToSet(turns) = born
      <3>1. /\ DOMAIN turns = 1 .. PoolSize
            /\ \A k \in 1 .. PoolSize : turns[k] \in born
            /\ \A w \in born : \E k \in 1 .. PoolSize : turns[k] = w
        BY <2>1, <2>2, <2>3
      <3> HIDE DEF turns, born
      <3> QED
        BY <3>1 DEF ToSet
    <2>5. Distinct(turns)
      BY <1>3 DEF Distinct
    <2> QED
      BY <2>3, <2>4, <2>5
  <1> HIDE DEF born, turns
  <1>7. \A x \in Tasks : pc'[x] = IF x \in born THEN "get" ELSE pc[x]
    BY <1>2
  <1>8. LoopNeat' /\ Scheduled' = Scheduled \cup born
    <2>1. ready \in Seq(Tasks) /\ Distinct(ready) /\ running = NoTask /\ ToSet(ready) \cap born = {}
          /\ NoTask \notin ToSet(ready) /\ NoTask \notin born
      BY <1>1, <1>2, <1>5 DEF LoopTypeOK, LoopInv, LoopNeat, Idle, Scheduled
    <2>2. Distinct(ready') /\ ToSet(ready') = ToSet(ready) \cup born
      BY <1>2, <1>6, <2>1, ConcatDistinct
    <2> QED
      BY <1>2, <2>1, <2>2 DEF LoopNeat, Scheduled
  <1>9. LoopInv'
    <2>1. ASSUME NEW x \in Tasks PROVE x \in Scheduled' <=> Runnable(x)'
      <3>1. CASE x \in born
        BY <1>2, <1>5, <1>7, <1>8, <3>1 DEF Runnable
      <3>2. CASE x \notin born
        <4>1. pc[x] = "gathering" => x \in Callers
          BY <1>1, Kinds DEF Tasks
        <4>2. pc[x] = "gathering" => (AllStopped(x)' <=> AllStopped(x))
          <5>1. x \in Callers => kids[x] \subseteq Tasks
            BY <1>1, Kinds
          <5> QED
            BY <1>2, <1>5, <1>7, <4>1, <5>1 DEF AllStopped
        <4>3. Runnable(x)' <=> Runnable(x)
          BY <1>2, <1>7, <3>2, <4>2 DEF Runnable
        <4> QED
          BY <1>1, <1>8, <3>2, <4>3 DEF LoopInv
      <3> QED
        BY <3>1, <3>2
    <2> QED
      BY <1>1, <1>2, <1>8, <2>1 DEF LoopInv
  <1>10. FutInv'
    BY <1>1, <1>2, <1>7 DEF FutInv
  <1>11. GetPart'
    <2>1. InGet' = InGet \cup born
      BY <1>1, <1>5, <1>7, Kinds DEF InGet
    <2>2. Deque(getters, InGet \cup born, fut)
      BY <1>1, <1>5 DEF GetPart, Deque
    <2>3. HandedOut(Len(items), InGet \cup born, fut)
      <3>1. Awake(InGet \cup born, fut) = Awake(InGet, fut)
        BY <1>5 DEF Awake
      <3>2. (\E x \in InGet \cup born : fut[x] = "pending") => \E x \in InGet : fut[x] = "pending"
        BY <1>5
      <3> QED
        BY <1>1, <3>1, <3>2 DEF GetPart, HandedOut
    <2> QED
      BY <1>2, <2>1, <2>2, <2>3 DEF GetPart
  <1>12. PutPart'
    <2>1. InPut' = InPut
      BY <1>1, <1>5, <1>7, Kinds DEF InPut
    <2> QED
      BY <1>1, <1>2, <2>1 DEF PutPart
  <1>13. JoinPart'
    <2>1. {d \in Callers : pc'[d] = "joining" /\ fut'[d] = "pending"}
            = {d \in Callers : pc[d] = "joining" /\ fut[d] = "pending"}
      BY <1>1, <1>2, <1>5, <1>7, Kinds
    <2> QED
      BY <1>1, <1>2, <2>1 DEF JoinPart, JoinersHaveCause
  <1> QED
    BY <1>9, <1>10, <1>11, <1>12, <1>13 DEF WakeInv

\* In the beginning nobody waits.
LEMMA InitWakes == Init => WakeInv
  <1> SUFFICES ASSUME Init PROVE WakeInv
    OBVIOUS
  <1>1. /\ ready = <<>> /\ running = NoTask /\ fut = [t \in Tasks |-> "none"]
        /\ items = <<>> /\ getters = <<>> /\ putters = <<>> /\ joinWaiters = <<>>
        /\ pc = [t \in Tasks |-> IF t \in Items THEN "new"
                                 ELSE IF t \in Callers THEN "idle" ELSE "unborn"]
    BY DEF Init, LoopInit
  <1>2. \A x \in Tasks : fut[x] = "none" /\ pc[x] \in {"new", "idle", "unborn"}
    BY <1>1
  <1>3. InGet = {} /\ InPut = {}
    BY <1>2 DEF InGet, InPut, Tasks
  <1>4. LoopInv
    <2>1. Scheduled = {} /\ LoopNeat
      BY <1>1, ShortDistinct DEF Scheduled, LoopNeat
    <2> QED
      BY <1>1, <1>2, <2>1 DEF LoopInv, Runnable
  <1>5. FutInv
    BY <1>2 DEF FutInv
  <1>6. GetPart /\ PutPart
    BY <1>1, <1>3, ShortDistinct DEF GetPart, PutPart, Deque, HandedOut
  <1>7. JoinPart
    BY <1>1, <1>2, ShortDistinct DEF JoinPart, JoinersHaveCause, Tasks
  <1> QED
    BY <1>4, <1>5, <1>6, <1>7 DEF WakeInv

\* Every step leaves those woken for whom there is something to do.
LEMMA StepWakes ==
  ASSUME IInv, WakeInv, [Next]_vars
  PROVE  WakeInv'
  <1>0. TypeOK
    BY DEF IInv
  <1>1. CASE \E w \in Workers : WorkerStep(w)
    BY <1>0, <1>1, WorkerWakes
  <1>2. CASE \E i \in Items : SubmitStep(i) \/ Refuse(i) \/ Submit(i) \/ TrySubmit(i)
    BY <1>0, <1>2, SubmitWakes
  <1>3. CASE \E c \in Callers : CallerStep(c) \/ \E what \in Operations : Call(c, what)
    BY <1>0, <1>3, CallerWakes
  <1>4. CASE Start
    BY <1>4, StartWakes
  <1>5. CASE (\E t \in Cancellable : Cancel(t)) \/ \E w \in Workers : HandlerWakes(w)
    BY <1>0, <1>5, CancelWakes
  <1>6. CASE UNCHANGED vars
    BY <1>6, WakesStand DEF vars, loopVars, queueVars, callVars
  <1> QED
    BY <1>1, <1>2, <1>3, <1>4, <1>5, <1>6 DEF Next, LoopStep, Application

\* The wakeups balance in every reachable state.
LEMMA WakesInvariant == Spec => [](IInv /\ WakeInv)
  <1>1. Init => IInv /\ WakeInv
    BY InitTypes, InitBooks, InitWakes DEF IInv
  <1>2. (IInv /\ WakeInv) /\ [Next]_vars => (IInv /\ WakeInv)'
    <2>1. ASSUME IInv, [Next]_vars PROVE IInv'
      BY <2>1, StepBooks, StepTypes DEF IInv
    <2> QED
      BY <2>1, StepWakes
  <1> QED
    BY <1>1, <1>2, PTL DEF Spec

\* No wakeup is lost: while a worker sleeps in get() each queued item has a
\* worker on its way, while a submit sleeps in put() each free slot has a submit
\* on its way, and nobody sleeps in join() when nothing is left.
THEOREM Wakeups == Spec => []NoLostWakeup
  <1>1. IInv /\ WakeInv => NoLostWakeup
    <2> SUFFICES ASSUME IInv, WakeInv PROVE NoLostWakeup
      OBVIOUS
    <2>1. TypeOK /\ LoopInv /\ GetPart /\ PutPart /\ JoinPart
      BY DEF IInv, WakeInv
    <2>2. NoStrandedItem
      <3> DEFINE coming == {w \in InGet : w \in ToSet(ready) \/ running = w}
      <3>1. Awake(InGet, fut) \subseteq coming
        <4> SUFFICES ASSUME NEW w \in InGet, fut[w] = "done" PROVE w \in coming
          BY DEF Awake
        <4>1. w \in Scheduled
          BY <2>1, Kinds DEF LoopInv, Runnable, InGet
        <4> QED
          BY <4>1 DEF Scheduled
      <3>2. IsFiniteSet(coming) /\ IsFiniteSet(Awake(InGet, fut))
        BY WaitersFinite, FS_Subset DEF Awake
      <3>3. /\ Cardinality(Awake(InGet, fut)) <= Cardinality(coming)
            /\ Cardinality(Awake(InGet, fut)) \in Nat /\ Cardinality(coming) \in Nat
        BY <3>1, <3>2, FS_Subset, FS_CardinalityType
      <3>4. (\E w \in InGet : fut[w] = "pending") => Len(items) <= Cardinality(coming)
        BY <2>1, <3>3, DequeTypes DEF GetPart, HandedOut
      <3> QED
        BY <3>4 DEF NoStrandedItem, Asleep, InGet
    <2>3. NoStrandedPutter
      BY <2>1 DEF NoStrandedPutter, Asleep, PutPart, HandedOut, Awake, InPut
    <2> QED
      BY <2>1, <2>2, <2>3 DEF NoLostWakeup, JoinPart
  <1> QED
    BY <1>1, WakesInvariant, PTL

-----------------------------------------------------------------------------
(* join *)

Processed(i) == fate[i] \in {"completed", "failed", "interrupted"}

\* c has gone past join(), or is on its way out of it.
PastJoin(c) ==
  \/ pc[c] = "joining" /\ fut[c] = "done"
  \/ op[c] \in {"join", "drain"} /\ pc[c] \in {"joined", "gathering", "gathered", "closed"}

\* What a caller found in the pool was in it, and is processed when it gets past
\* its join.
JoinInv ==
  \A c \in Callers : \A i \in owed[c] :
    /\ fate[i] # "none"
    /\ PastJoin(c) => Processed(i)

\* With nothing unfinished nothing is queued and nothing in a worker's hands.
LEMMA NothingLeft ==
  ASSUME IInv, unfinished = 0
  PROVE  items = <<>> /\ \A i \in Items : fate[i] \notin {"queued", "taken"}
  <1>1. Len(items) = 0 /\ Cardinality(Holders) = 0 /\ items \in Seq(Items)
    <2>1. Len(items) \in Nat /\ items \in Seq(Items)
      BY DequeTypes DEF IInv, TypeOK
    <2>2. Cardinality(Holders) \in Nat
      BY Counted
    <2> QED
      BY <2>1, <2>2 DEF IInv, BooksInv, BooksBalance, Accounting
  <1>2. Holders = {} /\ items = <<>>
    BY <1>1, Counted, FS_EmptySet
  <1>3. WithFate({"queued"}) = {}
    BY <1>2, ShortDistinct DEF IInv, BooksInv, BooksBalance, EachItemOnce
  <1>4. WithFate({"taken"}) = {}
    BY <1>2 DEF IInv, BooksInv, BooksBalance, EachItemOnce, Places, Holders
  <1> QED
    BY <1>2, <1>3, <1>4 DEF WithFate

\* What is processed stays processed, and what was submitted stays known.
FatesGo ==
  \A i \in Items : /\ fate[i] # "none" => fate'[i] # "none"
                   /\ Processed(i) => Processed(i)'

\* An item's fate goes one way only.
LEMMA FatesAdvance ==
  ASSUME IInv, [Next]_vars
  PROVE  FatesGo
  <1>0. fate \in [Items -> Fate] /\ items \in Seq(Items) /\ holding \in [Workers -> Items \cup {NoItem}]
    BY DEF IInv, TypeOK
  <1>1. ASSUME fate' = fate PROVE FatesGo
    BY <1>1 DEF FatesGo, Processed
  <1>2. ASSUME NEW i \in Items, Enqueue(i), pc[i] # "returned" PROVE FatesGo
    <2>1. fate[i] = "none"
      BY <1>2 DEF IInv, BooksInv, Places
    <2> QED
      BY <1>0, <1>2, <2>1 DEF Enqueue, FatesGo, Processed
  <1>3. ASSUME NEW w \in Workers, WorkerTakes(w) PROVE FatesGo
    <2>1. Head(items) \in ToSet(items) /\ fate' = [fate EXCEPT ![Head(items)] = "taken"]
      BY <1>0, <1>3 DEF WorkerTakes, ToSet
    <2>2. fate[Head(items)] = "queued"
      BY <2>1 DEF IInv, BooksInv, BooksBalance, EachItemOnce, WithFate
    <2> QED
      BY <1>0, <2>1, <2>2 DEF FatesGo, Processed
  <1>4. ASSUME NEW w \in Workers, HandlerReturns(w) \/ HandlerRaises(w) \/ HandlerCancelled(w)
        PROVE  FatesGo
    <2>1. /\ pc[w] = "handle"
          /\ \E f \in {"completed", "failed", "interrupted"} :
               fate' = [fate EXCEPT ![holding[w]] = f]
      BY <1>4 DEF HandlerReturns, HandlerRaises, HandlerCancelled
    <2> QED
      BY <1>0, <2>1 DEF FatesGo, Processed
  <1>5. ASSUME NEW w \in Workers, WorkerStep(w) PROVE FatesGo
    BY <1>1, <1>3, <1>4, <1>5 DEF WorkerStep, WorkerWaits, GetterCancelled, workVars
  <1>6. ASSUME NEW i \in Items, SubmitStep(i) \/ Refuse(i) \/ Submit(i) \/ TrySubmit(i)
        PROVE  FatesGo
    BY <1>1, <1>2, <1>6 DEF SubmitStep, Refuse, Submit, TrySubmit, PutterWakes, PutterCancelled,
                            PutOrWait, workVars
  <1>7. ASSUME NEW c \in Callers, CallerStep(c) \/ \E what \in Operations : Call(c, what)
        PROVE  FatesGo
    BY <1>1, <1>7 DEF CallerStep, JoinerWakes, GatherCompletes, CloseReturns, CallerCancelled,
                      Call, workVars
  <1>8. CASE Start \/ (\E t \in Cancellable : Cancel(t)) \/ (\E w \in Workers : HandlerWakes(w))
             \/ UNCHANGED vars
    BY <1>1, <1>8 DEF Start, Cancel, HandlerWakes, workVars, vars
  <1> QED
    BY <1>5, <1>6, <1>7, <1>8 DEF Next, LoopStep, Application

\* Whatever others do, callers stay where they are, and are woken only from
\* join() and only when everything is done.
CallersSit ==
  /\ UNCHANGED callVars
  /\ closed' = closed
  /\ \A c \in Callers :
       /\ pc'[c] = pc[c]
       /\ fut'[c] = "done" => fut[c] = "done" \/ unfinished' = 0

\* A turn of t that wakes none of the callers.
LEMMA TurnSits ==
  ASSUME TypeOK, NEW t \in Tasks, t \notin Callers, NEW state, NEW woken, NEW callbacks,
         Advance(t, state, woken, callbacks),
         \A x \in ToSet(woken) : x \notin Callers \/ unfinished' = 0,
         NEW s, pc' = [pc EXCEPT ![t] = s] \/ pc' = pc,
         UNCHANGED callVars, closed' = closed
  PROVE  CallersSit
  <1>1. \A x \in Tasks : fut'[x] = IF x = t THEN state
                                   ELSE IF x \in ToSet(woken) THEN "done" ELSE fut[x]
    BY Kinds, AdvanceFutures
  <1>2. \A c \in Callers : c \in Tasks /\ c # t /\ pc'[c] = pc[c]
    BY Kinds, PcMoves
  <1> QED
    BY <1>1, <1>2 DEF CallersSit

\* Submits wake no caller.
LEMMA SubmitSits ==
  ASSUME TypeOK, WakeInv, NEW i \in Items,
         SubmitStep(i) \/ Refuse(i) \/ Submit(i) \/ TrySubmit(i)
  PROVE  CallersSit
  <1>1. i \in Tasks /\ i \notin Callers /\ UNCHANGED callVars /\ closed' = closed
    BY Kinds DEF SubmitStep, Refuse, Submit, TrySubmit, PutterWakes, PutterCancelled, groupVars
  <1>2. /\ \A x \in ToSet(<<>>) : x \notin Callers
        /\ \A x \in ToSet(Woken(getters)) : x \notin Callers
        /\ \A x \in ToSet(Woken(Dropped(putters, i))) : x \notin Callers
    <2>1. \A x \in ToSet(Woken(Dropped(getters, NoTask))) : x \in InGet
      BY DequeTypes, WokenSleep DEF WakeInv, GetPart
    <2>2. \A x \in ToSet(Woken(Dropped(putters, i))) : x \in InPut
      BY DequeTypes, WokenSleep DEF WakeInv, PutPart
    <2>3. Dropped(getters, NoTask) = getters
      <3>1. NoTask \notin ToSet(getters)
        BY Kinds DEF WakeInv, GetPart, Deque, InGet
      <3> QED
        BY <3>1, DroppedStranger
    <2> QED
      BY <2>1, <2>2, <2>3, ShortDistinct, WaitersFinite, Kinds
  <1>3. CASE PutOrWait(i)
    BY <1>1, <1>2, <1>3, TurnSits DEF PutOrWait, Suspends, Ends
  <1>4. CASE PutterCancelled(i)
    BY <1>1, <1>2, <1>4, TurnSits DEF PutterCancelled, Ends
  <1>5. CASE Refuse(i) \/ (TrySubmit(i) /\ Full)
    <2>1. fut' = fut /\ \E s : pc' = [pc EXCEPT ![i] = s]
      BY <1>5 DEF Refuse, TrySubmit, loopVars
    <2> QED
      BY <1>1, <2>1, Kinds, PcMoves DEF CallersSit
  <1>6. CASE TrySubmit(i) /\ ~Full
    BY <1>1, <1>2, <1>6, TurnSits DEF TrySubmit, Ends
  <1> QED
    BY <1>3, <1>4, <1>5, <1>6 DEF SubmitStep, Submit, PutterWakes

\* Workers wake callers only with the last task_done().
LEMMA WorkerSits ==
  ASSUME TypeOK, WakeInv, NEW w \in Workers, WorkerStep(w)
  PROVE  CallersSit
  <1>1. w \in Tasks /\ w \notin Callers /\ UNCHANGED callVars /\ closed' = closed
    BY Kinds DEF WorkerStep, WorkerWaits, WorkerTakes, HandlerReturns, HandlerRaises,
                 HandlerCancelled, GetterCancelled, groupVars
  <1>2. /\ \A x \in ToSet(<<>>) : x \notin Callers
        /\ \A x \in ToSet(Woken(putters)) : x \notin Callers
        /\ \A x \in ToSet(Woken(Dropped(getters, w))) : x \notin Callers
    <2>1. \A x \in ToSet(Woken(Dropped(getters, w))) : x \in InGet
      BY DequeTypes, WokenSleep DEF WakeInv, GetPart
    <2>2. \A x \in ToSet(Woken(Dropped(putters, NoTask))) : x \in InPut
      BY DequeTypes, WokenSleep DEF WakeInv, PutPart
    <2>3. Dropped(putters, NoTask) = putters
      <3>1. NoTask \notin ToSet(putters)
        BY Kinds DEF WakeInv, PutPart, Deque, InPut
      <3> QED
        BY <3>1, DroppedStranger
    <2> QED
      BY <2>1, <2>2, <2>3, ShortDistinct, WaitersFinite, Kinds
  <1>3. TaskDone(w) => \A x \in ToSet(DoneWakes) : x \notin Callers \/ unfinished' = 0
    <2>1. LastDone /\ TaskDone(w) => unfinished' = 0
      BY DEF LastDone, TaskDone
    <2>2. ~LastDone => DoneWakes = <<>>
      BY DEF DoneWakes
    <2> QED
      BY <1>2, <2>1, <2>2
  <1>4. CASE WorkerWaits(w)
    BY <1>1, <1>2, <1>4, TurnSits DEF WorkerWaits, Suspends
  <1>5. CASE WorkerTakes(w)
    BY <1>1, <1>2, <1>5, TurnSits DEF WorkerTakes, Suspends, Continues
  <1>6. ASSUME NEW woken, WorkerStops(w, woken),
               \A x \in ToSet(woken) : x \notin Callers \/ unfinished' = 0
        PROVE  CallersSit
    BY <1>1, <1>6, TurnSits DEF WorkerStops, Ends
  <1>7. CASE HandlerReturns(w)
    <2>1. \/ WorkerStops(w, <<>>)
          \/ TaskDone(w) /\ pc' = [pc EXCEPT ![w] = "get"] /\ Continues(w, DoneWakes)
      BY <1>7 DEF HandlerReturns
    <2> QED
      BY <1>1, <1>2, <1>3, <1>6, <2>1, TurnSits DEF Continues
  <1>8. CASE HandlerRaises(w)
    BY <1>1, <1>3, <1>8, TurnSits DEF HandlerRaises, Continues
  <1>9. CASE HandlerCancelled(w)
    BY <1>3, <1>6, <1>9 DEF HandlerCancelled
  <1>10. CASE GetterCancelled(w)
    <2>1. WorkerStops(w, Woken(Dropped(getters, w))) \/ WorkerStops(w, <<>>)
      BY <1>10 DEF GetterCancelled
    <2> QED
      BY <1>2, <1>6, <2>1
  <1> QED
    BY <1>4, <1>5, <1>7, <1>8, <1>9, <1>10 DEF WorkerStep

\* Neither start(), nor a cancellation, nor what a handler awaits wakes a caller.
LEMMA SignalSits ==
  ASSUME TypeOK, WakeInv,
         \/ Start
         \/ \E t \in Cancellable : Cancel(t)
         \/ \E w \in Workers : HandlerWakes(w)
         \/ UNCHANGED vars
  PROVE  CallersSit
  <1>1. UNCHANGED callVars /\ closed' = closed
    BY DEF Start, Cancel, HandlerWakes, vars, groupVars
  <1>2. CASE Start
    <2>1. fut' = fut /\ \A c \in Callers : pc'[c] = pc[c]
      <3>1. /\ pc' = [t \in Tasks |-> IF t \in (spawned + 1) .. (spawned + PoolSize) THEN "get"
                                      ELSE pc[t]]
            /\ spawned + PoolSize \in Workers /\ spawned \in Nat
        BY <1>2 DEF Start, TypeOK
      <3>2. (spawned + 1) .. (spawned + PoolSize) \subseteq Workers
        BY <3>1 DEF Workers
      <3> QED
        BY <1>2, <3>1, <3>2, Kinds DEF Start
    <2> QED
      BY <1>1, <2>1 DEF CallersSit
  <1>3. ASSUME NEW t \in Tasks, pc' = pc,
               fut' = fut \/ fut' = [fut EXCEPT ![t] = "cancelled"]
                 \/ (t \notin Callers /\ fut' = [fut EXCEPT ![t] = "done"])
        PROVE  CallersSit
    <2>1. fut \in [Tasks -> FutureState]
      BY DEF TypeOK, LoopTypeOK
    <2> QED
      BY <1>1, <1>3, <2>1 DEF CallersSit, Tasks
  <1>4. ASSUME NEW t \in Cancellable, Cancel(t) PROVE CallersSit
    BY <1>3, <1>4 DEF Cancel, Cancels, Tasks
  <1>5. ASSUME NEW w \in Workers, HandlerWakes(w) PROVE CallersSit
    BY <1>3, <1>5, Kinds DEF HandlerWakes, Completes
  <1>6. CASE UNCHANGED vars
    BY <1>1, <1>6 DEF vars, loopVars, CallersSit
  <1> QED
    BY <1>2, <1>4, <1>5, <1>6

\* Only callers move callers.
LEMMA OthersSit ==
  ASSUME TypeOK, WakeInv, [Next]_vars
  PROVE  \/ CallersSit
         \/ \E c \in Callers : CallerStep(c) \/ \E what \in Operations : Call(c, what)
  BY SubmitSits, WorkerSits, SignalSits DEF Next, LoopStep, Application

\* A caller's step concerns no other caller.
LEMMA CallersApart ==
  ASSUME TypeOK, NEW c \in Callers,
         CallerStep(c) \/ \E what \in Operations : Call(c, what)
  PROVE  \A d \in Callers \ {c} :
           /\ pc'[d] = pc[d] /\ fut'[d] = fut[d] /\ op'[d] = op[d] /\ owed'[d] = owed[d]
  <1>1. /\ c \in Tasks /\ fut \in [Tasks -> FutureState] /\ DOMAIN pc = Tasks
        /\ op \in [Callers -> {"none"} \cup Operations] /\ owed \in [Callers -> SUBSET Items]
        /\ \A d \in Callers : d \in Tasks
    BY Kinds DEF TypeOK, LoopTypeOK
  <1>2. /\ \E s : pc' = [pc EXCEPT ![c] = s]
        /\ \/ op' = op /\ owed' = owed
           \/ \E what \in Operations : Call(c, what)
    BY DEF CallerStep, JoinerWakes, GatherCompletes, CloseReturns, CallerCancelled, Call,
           CancelAndGather, callVars
  <1>3. \A d \in Callers \ {c} : op'[d] = op[d] /\ owed'[d] = owed[d]
    BY <1>1, <1>2 DEF Call
  <1>4. \/ \E state : Advance(c, state, <<>>, <<>>)
        \/ fut' = [fut EXCEPT ![c] = "done"]
        \/ CancelAndGather(c) /\ workers # {}
    BY DEF CallerStep, JoinerWakes, GatherCompletes, CloseReturns, CallerCancelled, Call,
           CancelAndGather, Ends, Suspends
  <1>5. ASSUME NEW d \in Callers \ {c} PROVE fut'[d] = fut[d]
    <2>1. CASE \E state : Advance(c, state, <<>>, <<>>)
      BY <1>1, <2>1, ShortDistinct, Kinds, AdvanceFutures
    <2>2. CASE fut' = [fut EXCEPT ![c] = "done"]
      BY <1>1, <2>2
    <2>3. CASE CancelAndGather(c) /\ workers # {}
      <3>1. d \notin ToCancel /\ d \in Tasks
        BY <1>1, Kinds DEF ToCancel
      <3> QED
        BY <1>1, <2>3, <3>1 DEF CancelAndGather
    <2> QED
      BY <1>4, <2>1, <2>2, <2>3
  <1> QED
    BY <1>1, <1>2, <1>3, <1>5

\* A caller's turn takes it nowhere past its join where it was not before.
LEMMA StepPasses ==
  ASSUME TypeOK, WakeInv, NEW c \in Callers, CallerStep(c)
  PROVE  op' = op /\ owed' = owed /\ (PastJoin(c)' => PastJoin(c))
  <1>1. c \in Tasks /\ DOMAIN pc = Tasks
    BY Kinds
  <1>2. op' = op /\ owed' = owed
    BY DEF CallerStep, JoinerWakes, GatherCompletes, CloseReturns, CallerCancelled, callVars
  <1>3. CASE JoinerWakes(c)
    <2>1. fut[c] = "done"
      <3>1. Runnable(c)
        BY <1>1, <1>3, TurnIs DEF WakeInv, JoinerWakes
      <3> QED
        BY <1>1, <1>3, <3>1, Kinds DEF Runnable, Thrown, JoinerWakes, WakeInv, FutInv
    <2> QED
      BY <1>2, <1>3, <2>1 DEF PastJoin, JoinerWakes
  <1>4. CASE GatherCompletes(c)
    BY <1>1, <1>2, <1>4 DEF PastJoin, GatherCompletes
  <1>5. CASE CloseReturns(c)
    BY <1>1, <1>2, <1>5 DEF PastJoin, CloseReturns
  <1>6. CASE CallerCancelled(c)
    BY <1>1, <1>2, <1>6 DEF PastJoin, CallerCancelled
  <1> QED
    BY <1>2, <1>3, <1>4, <1>5, <1>6 DEF CallerStep

\* A call goes past its join at once only when nothing is unfinished.
LEMMA CallPasses ==
  ASSUME TypeOK, NEW c \in Callers, NEW what \in Operations, Call(c, what)
  PROVE  /\ owed'[c] = {i \in Items : fate[i] \in {"queued", "taken"}} /\ op'[c] = what
         /\ fate' = fate /\ unfinished' = unfinished
         /\ PastJoin(c)' => unfinished = 0
  <1>1. /\ c \in Tasks /\ DOMAIN pc = Tasks
        /\ op \in [Callers -> {"none"} \cup Operations] /\ owed \in [Callers -> SUBSET Items]
    BY Kinds DEF TypeOK
  <1>2. /\ owed'[c] = {i \in Items : fate[i] \in {"queued", "taken"}} /\ op'[c] = what
        /\ fate' = fate /\ unfinished' = unfinished
    BY <1>1 DEF Call, workVars
  <1>3. CASE what = "abort" \/ (what = "drain" /\ unfinished = 0)
    BY <1>1, <1>2, <1>3 DEF Call, PastJoin, CancelAndGather
  <1>4. CASE ~(what = "abort" \/ (what = "drain" /\ unfinished = 0)) /\ unfinished # 0
    <2>1. pc' = [pc EXCEPT ![c] = "joining"] /\ Advance(c, "pending", <<>>, <<>>)
      BY <1>4 DEF Call, Suspends
    <2>2. fut'[c] = "pending"
      BY <1>1, <2>1, Kinds, AdvanceFutures
    <2> QED
      BY <1>1, <1>2, <2>1, <2>2 DEF PastJoin
  <1> QED
    BY <1>2, <1>3, <1>4

\* A caller that goes past its join does so when what it found is processed.
LEMMA CallerJoins ==
  ASSUME IInv, IInv', WakeInv, JoinInv, FatesGo, NEW c \in Callers,
         CallerStep(c) \/ \E what \in Operations : Call(c, what)
  PROVE  JoinInv'
  <1>1. TypeOK /\ owed \in [Callers -> SUBSET Items]
    BY DEF IInv, TypeOK
  <1>2. \A d \in Callers \ {c} :
           /\ pc'[d] = pc[d] /\ fut'[d] = fut[d] /\ op'[d] = op[d] /\ owed'[d] = owed[d]
    BY <1>1, CallersApart
  <1>3. CASE CallerStep(c)
    <2>1. op' = op /\ owed' = owed /\ (PastJoin(c)' => PastJoin(c))
      BY <1>1, <1>3, StepPasses
    <2>2. \A d \in Callers : PastJoin(d)' => PastJoin(d)
      BY <1>2, <2>1 DEF PastJoin
    <2> QED
      BY <1>1, <2>1, <2>2 DEF JoinInv, FatesGo
  <1>4. ASSUME NEW what \in Operations, Call(c, what) PROVE JoinInv'
    <2>1. /\ owed'[c] = {i \in Items : fate[i] \in {"queued", "taken"}}
          /\ fate' = fate
          /\ PastJoin(c)' => unfinished = 0
      BY <1>1, <1>4, CallPasses
    <2>2. PastJoin(c)' => owed'[c] = {}
      BY <2>1, NothingLeft
    <2>3. \A d \in Callers \ {c} : PastJoin(d)' => PastJoin(d)
      BY <1>2 DEF PastJoin
    <2>4. \A i \in owed'[c] : fate'[i] # "none"
      BY <2>1
    <2>5. \A d \in Callers \ {c} : \A i \in owed'[d] :
             fate'[i] # "none" /\ (PastJoin(d)' => Processed(i)')
      BY <1>1, <1>2, <2>3 DEF JoinInv, FatesGo
    <2> QED
      BY <2>2, <2>4, <2>5 DEF JoinInv
  <1> QED
    BY <1>3, <1>4

\* Every step leaves nothing unprocessed behind a join.
LEMMA StepJoins ==
  ASSUME IInv, IInv', WakeInv, JoinInv, [Next]_vars
  PROVE  JoinInv'
  <1>1. FatesGo /\ TypeOK /\ owed \in [Callers -> SUBSET Items]
    BY FatesAdvance DEF IInv, TypeOK
  <1>2. CASE CallersSit
    <2>1. owed' = owed /\ op' = op
      BY <1>2 DEF CallersSit, callVars
    <2>2. CASE unfinished' = 0
      <3>1. \A i \in Items : fate'[i] \notin {"queued", "taken"}
        <4>1. (IInv /\ unfinished = 0 => \A i \in Items : fate[i] \notin {"queued", "taken"})'
          BY NothingLeft, PTL
        <4> QED
          BY <2>2, <4>1
      <3>2. \A i \in Items : fate'[i] \in Fate
        BY DEF IInv, TypeOK
      <3> QED
        BY <1>1, <2>1, <3>1, <3>2 DEF JoinInv, FatesGo, Processed, Fate
    <2>3. CASE unfinished' # 0
      <3>1. \A c \in Callers : PastJoin(c)' => PastJoin(c)
        BY <1>2, <2>1, <2>3 DEF CallersSit, PastJoin
      <3> QED
        BY <1>1, <2>1, <3>1 DEF JoinInv, FatesGo
    <2> QED
      BY <2>2, <2>3
  <1>3. CASE \E c \in Callers : CallerStep(c) \/ \E what \in Operations : Call(c, what)
    BY <1>1, <1>3, CallerJoins
  <1> QED
    BY <1>1, <1>2, <1>3, OthersSit

\* join() returns, and aclose(drain=True) goes past its join, only when every
\* item that was in the pool at the call has been given up by its worker.
THEOREM Joining == Spec => []JoinMeansProcessed
  <1>1. Init => JoinInv
    BY DEF Init, JoinInv
  <1>2. JoinInv /\ (IInv /\ WakeInv) /\ (IInv /\ WakeInv)' /\ [Next]_vars => JoinInv'
    BY StepJoins
  <1>3. IInv /\ JoinInv => JoinMeansProcessed
    BY DEF JoinInv, JoinMeansProcessed, PastJoin, Processed
  <1> QED
    BY <1>1, <1>2, <1>3, WakesInvariant, PTL DEF Spec

-----------------------------------------------------------------------------
(* aclose *)

\* An aclose has cancelled the workers it gathers, and has closed the pool before.
CallsPart ==
  \A c \in Callers :
    /\ pc[c] = "joining" => op[c] # "none"
    /\ pc[c] \in {"gathering", "gathered"} => op[c] # "join"
    /\ op[c] \notin {"none", "join"} => closed
    /\ pc[c] \in {"gathering", "gathered"} =>
         /\ op[c] # "none"
         /\ \A w \in kids[c] : pc[w] # "unborn" /\ (pc[w] # "stopped" => Thrown(w))
    /\ pc[c] = "gathered" => AllStopped(c)

\* Nobody cancels the workers of an open pool.
ThrownPart == ~closed => \A w \in Workers : ~Thrown(w)

\* Only those are known who were started.
KnownPart == \A w \in workers : pc[w] # "unborn"

\* Whom an aclose does not gather of the workers there are was started beside it.
RivalsPart ==
  \A c \in Callers :
    pc[c] \in {"gathering", "gathered"} =>
      \A w \in workers : w \in kids[c] \/ c \in rivals[w]

CloseInv ==
  CallsPart /\ ThrownPart /\ KnownPart /\ RivalsPart /\ NoOrphanWorker /\ PoisonDoesNotKill

\* What a worker's life looks like from one state to the next: it is not born
\* again, and once cancelled it finishes.
WorkersGo ==
  \A w \in Workers :
    /\ pc'[w] # pc[w] =>
         \/ pc[w] = "unborn" /\ pc'[w] = "get" /\ w \in workers'
         \/ pc[w] \in {"get", "handle"} /\ pc'[w] \in {"get", "handle", "stopped"}
    /\ Thrown(w) /\ pc[w] # "stopped" => Thrown(w)' \/ pc'[w] = "stopped"
    /\ pc[w] = "get" /\ pc'[w] = "handle" => ~Thrown(w)
    /\ ~closed' /\ ~Thrown(w) => ~Thrown(w)'

\* Those who are woken slept.
LEMMA WokenSlept ==
  ASSUME TypeOK, WakeInv, NEW t,
         NEW woken \in {<<>>, Woken(getters), Woken(putters), Woken(Dropped(getters, t)),
                        Woken(Dropped(putters, t)), DoneWakes}
  PROVE  \A x \in ToSet(woken) : fut[x] = "pending"
  <1>1. \A x : \A y \in ToSet(Woken(Dropped(getters, x))) \cup ToSet(Woken(Dropped(putters, x))) :
           fut[y] = "pending"
    BY DequeTypes, WokenSleep DEF WakeInv, GetPart, PutPart
  <1>2. Dropped(getters, NoTask) = getters /\ Dropped(putters, NoTask) = putters
    <2>1. NoTask \notin ToSet(getters) /\ NoTask \notin ToSet(putters)
      BY Kinds DEF WakeInv, GetPart, PutPart, Deque, InGet, InPut
    <2> QED
      BY <2>1, DroppedStranger
  <1>3. \A x \in ToSet(DoneWakes) : fut[x] = "pending"
    BY DoneWakesSleep DEF WakeInv
  <1>4. CASE woken = <<>>
    BY <1>4, ShortDistinct
  <1>5. CASE woken = DoneWakes
    BY <1>3, <1>5
  <1>6. CASE woken = Woken(getters) \/ woken = Woken(putters)
    BY <1>1, <1>2, <1>6
  <1>7. CASE woken = Woken(Dropped(getters, t)) \/ woken = Woken(Dropped(putters, t))
    BY <1>1, <1>7
  <1> QED
    BY <1>4, <1>5, <1>6, <1>7

\* A turn of t that ends a worker, or cancels none.
LEMMA TurnGoes ==
  ASSUME TypeOK, NEW t \in Tasks, NEW state \in {"none", "pending"}, NEW woken, NEW callbacks,
         Advance(t, state, woken, callbacks), \A x \in ToSet(woken) : fut[x] = "pending",
         \A x \in Tasks \ {t} : pc'[x] = pc[x],
         t \in Workers =>
           /\ pc[t] \in {"get", "handle"}
           /\ \/ pc'[t] = "stopped"
              \/ ~Thrown(t) /\ pc'[t] \in {"get", "handle"}
  PROVE  WorkersGo
  <1>1. \A x \in Tasks : fut'[x] = IF x = t THEN state
                                   ELSE IF x \in ToSet(woken) THEN "done" ELSE fut[x]
    BY Kinds, AdvanceFutures
  <1>2. mustCancel' = mustCancel \ {t}
    BY DEF Advance
  <1>3. ASSUME NEW w \in Workers, w # t
        PROVE  pc'[w] = pc[w] /\ (Thrown(w)' <=> Thrown(w))
    <2>1. w \in Tasks
      BY Kinds
    <2> QED
      BY <1>1, <1>2, <1>3, <2>1 DEF Thrown
  <1>4. t \in Workers => ~Thrown(t)'
    BY <1>1, <1>2 DEF Thrown
  <1> QED
    BY <1>3, <1>4 DEF WorkersGo

\* Submits leave the workers alone, but for those they wake.
LEMMA SubmitGoes ==
  ASSUME TypeOK, WakeInv, NEW i \in Items,
         SubmitStep(i) \/ Refuse(i) \/ Submit(i) \/ TrySubmit(i)
  PROVE  WorkersGo
  <1>1. i \in Tasks /\ i \notin Workers
    BY Kinds
  <1>2. \/ UNCHANGED <<fut, mustCancel>> /\ \E s : pc' = [pc EXCEPT ![i] = s]
        \/ \E s : \E state \in {"none", "pending"} :
            \E woken \in {<<>>, Woken(getters), Woken(Dropped(putters, i))} :
              pc' = [pc EXCEPT ![i] = s] /\ Advance(i, state, woken, <<>>)
    BY DEF SubmitStep, Refuse, Submit, TrySubmit, PutterWakes, PutterCancelled, PutOrWait,
           Suspends, Ends, loopVars
  <1>3. CASE UNCHANGED <<fut, mustCancel>> /\ \E s : pc' = [pc EXCEPT ![i] = s]
    <2>1. \A w \in Workers : pc'[w] = pc[w] /\ (Thrown(w)' <=> Thrown(w))
      BY <1>1, <1>3, Kinds, PcMoves DEF Thrown
    <2> QED
      BY <2>1 DEF WorkersGo
  <1>4. ASSUME NEW s, NEW state \in {"none", "pending"},
               NEW woken \in {<<>>, Woken(getters), Woken(Dropped(putters, i))},
               pc' = [pc EXCEPT ![i] = s], Advance(i, state, woken, <<>>)
        PROVE  WorkersGo
    <2>1. \A x \in ToSet(woken) : fut[x] = "pending"
      BY WokenSlept
    <2>2. \A x \in Tasks \ {i} : pc'[x] = pc[x]
      BY <1>1, <1>4, Kinds, PcMoves
    <2> QED
      BY <1>1, <1>4, <2>1, <2>2, TurnGoes
  <1> QED
    BY <1>2, <1>3, <1>4

\* A worker that has been cancelled ends its turn by finishing.
LEMMA WorkerGoes ==
  ASSUME TypeOK, WakeInv, NEW w \in Workers, WorkerStep(w)
  PROVE  WorkersGo
  <1>1. w \in Tasks
    BY Kinds
  <1>2. /\ pc[w] \in {"get", "handle"}
        /\ \E s \in {"get", "handle", "stopped"} : \E state \in {"none", "pending"} :
            \E woken \in {<<>>, Woken(putters), Woken(Dropped(getters, w)), DoneWakes} :
            \E callbacks :
              /\ pc' = [pc EXCEPT ![w] = s] \/ (pc' = pc /\ pc[w] = s)
              /\ Advance(w, state, woken, callbacks)
              /\ s = "stopped" \/ ~Thrown(w)
    <2>1. ASSUME NEW woken, WorkerStops(w, woken)
          PROVE  pc' = [pc EXCEPT ![w] = "stopped"]
                 /\ \E callbacks : Advance(w, "none", woken, callbacks)
      BY <2>1 DEF WorkerStops, Ends
    <2>2. CASE WorkerWaits(w)
      BY <2>2 DEF WorkerWaits, Suspends
    <2>3. CASE WorkerTakes(w)
      BY <2>3 DEF WorkerTakes, Suspends, Continues
    <2>4. CASE HandlerReturns(w)
      BY <2>1, <2>4 DEF HandlerReturns, Continues
    <2>5. CASE HandlerRaises(w)
      BY <2>5 DEF HandlerRaises, Continues
    <2>6. CASE HandlerCancelled(w)
      BY <2>1, <2>6 DEF HandlerCancelled
    <2>7. CASE GetterCancelled(w)
      BY <2>1, <2>7 DEF GetterCancelled
    <2> QED
      BY <2>2, <2>3, <2>4, <2>5, <2>6, <2>7 DEF WorkerStep
  <1>3. PICK s \in {"get", "handle", "stopped"}, state \in {"none", "pending"},
             woken \in {<<>>, Woken(putters), Woken(Dropped(getters, w)), DoneWakes} :
          /\ pc' = [pc EXCEPT ![w] = s] \/ (pc' = pc /\ pc[w] = s)
          /\ \E callbacks : Advance(w, state, woken, callbacks)
          /\ s = "stopped" \/ ~Thrown(w)
    BY <1>2
  <1>4. \A x \in ToSet(woken) : fut[x] = "pending"
    BY WokenSlept
  <1>5. pc'[w] = s /\ \A x \in Tasks \ {w} : pc'[x] = pc[x]
    BY <1>1, <1>3, Kinds, PcMoves
  <1>6. pc[w] \in {"get", "handle"} /\ (s = "stopped" \/ (~Thrown(w) /\ s \in {"get", "handle"}))
    BY <1>2, <1>3
  <1>7. PICK callbacks : Advance(w, state, woken, callbacks)
    BY <1>3
  <1> QED
    BY <1>1, <1>4, <1>5, <1>6, <1>7, TurnGoes

\* start() makes workers of those who were none.
LEMMA StartGoes ==
  ASSUME IInv, Start
  PROVE  /\ WorkersGo
         /\ \A w \in workers' : pc'[w] # "unborn" /\ rivals'[w] = Gatherers
         /\ \A w \in Workers : pc[w] # "unborn" => rivals'[w] = rivals[w]
         /\ \A c \in Callers : pc'[c] = pc[c]
  <1>1. /\ TypeOK /\ spawned \in Nat /\ PoolSize \in Nat \ {0} /\ spawned + PoolSize \in Workers
        /\ workers' = (spawned + 1) .. (spawned + PoolSize) /\ UNCHANGED <<fut, mustCancel>>
        /\ pc' = [t \in Tasks |-> IF t \in workers' THEN "get" ELSE pc[t]]
        /\ rivals' = [w \in Workers |-> IF w \in workers' THEN Gatherers ELSE rivals[w]]
    BY DEF IInv, TypeOK, Start
  <1>2. \A w \in workers' : w \in Workers /\ w > spawned
    BY <1>1 DEF Workers
  <1>3. \A w \in workers' : w \in Workers /\ w \in Tasks /\ pc[w] = "unborn" /\ pc'[w] = "get"
    BY <1>1, <1>2, Kinds DEF IInv, BooksInv, Places
  <1>4. \A w \in Workers : w \notin workers' => pc'[w] = pc[w]
    BY <1>1, Kinds
  <1>5. \A w \in Workers : Thrown(w)' <=> Thrown(w)
    BY <1>1 DEF Thrown
  <1>6. /\ \A w \in workers' : rivals'[w] = Gatherers
        /\ \A w \in Workers : w \notin workers' => rivals'[w] = rivals[w]
    BY <1>1, <1>3
  <1>7. \A c \in Callers : pc'[c] = pc[c]
    BY <1>1, <1>3, Kinds
  <1> QED
    BY <1>3, <1>4, <1>5, <1>6, <1>7 DEF WorkersGo

\* Callers cancel workers only once the pool is closed.
LEMMA CallerGoes ==
  ASSUME TypeOK, WakeInv, CallsPart, NEW c \in Callers,
         CallerStep(c) \/ \E what \in Operations : Call(c, what)
  PROVE  WorkersGo
  <1>1. c \in Tasks /\ c \notin Workers /\ fut \in [Tasks -> FutureState] /\ DOMAIN pc = Tasks
        /\ \A w \in Workers : w \in Tasks /\ w # c
    BY Kinds DEF TypeOK, LoopTypeOK
  <1>2. \A w \in Workers : pc'[w] = pc[w]
    <2>1. \E s : pc' = [pc EXCEPT ![c] = s]
      BY DEF CallerStep, JoinerWakes, GatherCompletes, CloseReturns, CallerCancelled, Call,
             CancelAndGather
    <2> QED
      BY <1>1, <2>1
  <1>3. CASE CancelAndGather(c) /\ workers # {}
    <2>1. closed'
      <3>1. CASE JoinerWakes(c)
        <4>1. op[c] # "join" /\ pc[c] = "joining" /\ closed' = closed
          <5>1. op[c] # "join"
            <6> SUFFICES ASSUME op[c] = "join" PROVE FALSE
              OBVIOUS
            <6>1. pc' = [pc EXCEPT ![c] = "joined"] /\ pc' = [pc EXCEPT ![c] = "gathering"]
              BY <1>3, <3>1 DEF JoinerWakes, CancelAndGather
            <6> QED
              BY <1>1, <6>1
          <5> QED
            BY <3>1, <5>1 DEF JoinerWakes, groupVars
        <4> QED
          BY <4>1 DEF CallsPart
      <3>2. ASSUME NEW what \in Operations, Call(c, what) PROVE closed'
        <4>1. pc' = [pc EXCEPT ![c] = "gathering"]
          BY <1>3 DEF CancelAndGather
        <4>2. what # "join"
          BY <1>1, <3>2, <4>1 DEF Call
        <4> QED
          BY <3>2, <4>2 DEF Call
      <3>3. CASE GatherCompletes(c) \/ CloseReturns(c) \/ CallerCancelled(c)
        <4>1. pc' = [pc EXCEPT ![c] = "gathering"]
          BY <1>3 DEF CancelAndGather
        <4>2. \E s \in {"gathered", "closed", "cancelled"} : pc' = [pc EXCEPT ![c] = s]
          BY <3>3 DEF GatherCompletes, CloseReturns, CallerCancelled
        <4> QED
          BY <1>1, <4>1, <4>2
      <3> QED
        BY <3>1, <3>2, <3>3 DEF CallerStep
    <2>2. ASSUME NEW w \in Workers, Thrown(w) PROVE Thrown(w)'
      <3>1. fut[w] = "cancelled" => fut'[w] = "cancelled"
        BY <1>1, <1>3 DEF CancelAndGather
      <3>2. w \in mustCancel => w \in mustCancel'
        BY <1>1, <1>3 DEF CancelAndGather
      <3> QED
        BY <2>2, <3>1, <3>2 DEF Thrown
    <2> QED
      BY <1>2, <2>1, <2>2 DEF WorkersGo
  <1>4. CASE ~(CancelAndGather(c) /\ workers # {})
    <2>1. \/ \E state : Advance(c, state, <<>>, <<>>)
          \/ fut' = [fut EXCEPT ![c] = "done"] /\ mustCancel' = mustCancel
      BY <1>4 DEF CallerStep, JoinerWakes, GatherCompletes, CloseReturns, CallerCancelled, Call,
             CancelAndGather, Ends, Suspends
    <2>2. \A w \in Workers : fut'[w] = fut[w] /\ (w \in mustCancel' <=> w \in mustCancel)
      <3>1. ASSUME NEW state, Advance(c, state, <<>>, <<>>), NEW w \in Workers
            PROVE  fut'[w] = fut[w] /\ (w \in mustCancel' <=> w \in mustCancel)
        <4>1. mustCancel' = mustCancel \ {c}
          BY <3>1 DEF Advance
        <4> QED
          BY <1>1, <3>1, <4>1, ShortDistinct, Kinds, AdvanceFutures
      <3>2. CASE fut' = [fut EXCEPT ![c] = "done"] /\ mustCancel' = mustCancel
        BY <1>1, <3>2
      <3> QED
        BY <2>1, <3>1, <3>2
    <2> QED
      BY <1>2, <2>2 DEF WorkersGo, Thrown
  <1> QED
    BY <1>3, <1>4

\* Every step leaves those who were cancelled cancelled.
LEMMA StepGoes ==
  ASSUME IInv, WakeInv, CallsPart, [Next]_vars
  PROVE  WorkersGo
  <1>0. TypeOK /\ fut \in [Tasks -> FutureState] /\ \A w \in Workers : w \in Tasks /\ w \notin Callers /\ w \notin Items
    BY Kinds DEF IInv, TypeOK, LoopTypeOK
  <1>1. CASE \E w \in Workers : WorkerStep(w)
    BY <1>0, <1>1, WorkerGoes
  <1>2. CASE \E i \in Items : SubmitStep(i) \/ Refuse(i) \/ Submit(i) \/ TrySubmit(i)
    BY <1>0, <1>2, SubmitGoes
  <1>3. CASE \E c \in Callers : CallerStep(c) \/ \E what \in Operations : Call(c, what)
    BY <1>0, <1>3, CallerGoes
  <1>4. CASE Start
    BY <1>4, StartGoes
  <1>5. ASSUME NEW t \in Cancellable, Cancel(t) PROVE WorkersGo
    <2>1. \A w \in Workers : fut'[w] = fut[w] /\ pc'[w] = pc[w] /\ (w \in mustCancel' <=> w \in mustCancel)
      BY <1>0, <1>5 DEF Cancel, Cancels
    <2> QED
      BY <2>1 DEF WorkersGo, Thrown
  <1>6. ASSUME NEW t \in Workers, HandlerWakes(t) PROVE WorkersGo
    <2>1. pc' = pc /\ mustCancel' = mustCancel
          /\ \A w \in Workers : fut'[w] = fut[w] \/ (fut[w] = "pending" /\ fut'[w] = "done")
      BY <1>0, <1>6 DEF HandlerWakes, Completes
    <2> QED
      BY <2>1 DEF WorkersGo, Thrown
  <1>7. CASE UNCHANGED vars
    BY <1>7 DEF vars, loopVars, WorkersGo, Thrown
  <1> QED
    BY <1>1, <1>2, <1>3, <1>4, <1>5, <1>6, <1>7 DEF Next, LoopStep, Application

\* Who gathers is still waiting for workers that have been cancelled.
LEMMA CallsKept ==
  ASSUME IInv, WakeInv, CloseInv, [Next]_vars
  PROVE  CallsPart'
  <1>1. /\ TypeOK /\ WorkersGo /\ CallsPart /\ KnownPart /\ LoopInv
        /\ DOMAIN pc = Tasks /\ fut \in [Tasks -> FutureState]
        /\ op \in [Callers -> {"none"} \cup Operations] /\ kids \in [Callers -> SUBSET Workers]
        /\ workers \subseteq Workers
        /\ \A d \in Callers : d \in Tasks /\ d \notin Workers
    BY StepGoes, Kinds DEF CloseInv, WakeInv, IInv, TypeOK, LoopTypeOK
  <1>2. ASSUME NEW S, S \subseteq Workers
        PROVE  /\ (\A w \in S : pc[w] # "unborn" /\ (pc[w] # "stopped" => Thrown(w)))
                    => \A w \in S : pc'[w] # "unborn" /\ (pc'[w] # "stopped" => Thrown(w)')
               /\ (\A w \in S : pc[w] = "stopped") => \A w \in S : pc'[w] = "stopped"
    BY <1>1, <1>2 DEF WorkersGo
  <1>3. ASSUME NEW d \in Callers, pc'[d] = pc[d], op'[d] = op[d], kids'[d] = kids[d],
               closed => closed'
        PROVE  /\ pc'[d] = "joining" => op'[d] # "none"
               /\ pc'[d] \in {"gathering", "gathered"} => op'[d] # "join"
               /\ op'[d] \notin {"none", "join"} => closed'
               /\ pc'[d] \in {"gathering", "gathered"} =>
                    /\ op'[d] # "none"
                    /\ \A w \in kids'[d] : pc'[w] # "unborn" /\ (pc'[w] # "stopped" => Thrown(w)')
               /\ pc'[d] = "gathered" => \A w \in kids'[d] : pc'[w] = "stopped"
    <2>1. kids[d] \subseteq Workers
      BY <1>1
    <2>2. /\ pc[d] = "joining" => op[d] # "none"
          /\ pc[d] \in {"gathering", "gathered"} => op[d] # "join"
          /\ op[d] \notin {"none", "join"} => closed
          /\ pc[d] \in {"gathering", "gathered"} =>
               /\ op[d] # "none"
               /\ \A w \in kids[d] : pc[w] # "unborn" /\ (pc[w] # "stopped" => Thrown(w))
          /\ pc[d] = "gathered" => \A w \in kids[d] : pc[w] = "stopped"
      BY <1>1 DEF CallsPart, AllStopped
    <2> QED
      BY <1>2, <1>3, <2>1, <2>2
  <1>4. CASE CallersSit
    BY <1>3, <1>4 DEF CallersSit, CallsPart, AllStopped, callVars
  <1>5. ASSUME NEW c \in Callers, CancelAndGather(c), op'[c] \notin {"none", "join"}, closed'
        PROVE  /\ pc'[c] \in {"gathering", "closed"}
               /\ pc'[c] = "gathering" =>
                    \A w \in kids'[c] : pc'[w] # "unborn" /\ (pc'[w] # "stopped" => Thrown(w)')
    <2>1. CASE workers = {}
      BY <1>1, <1>5, <2>1 DEF CancelAndGather
    <2>2. CASE workers # {}
      <3>1. /\ pc'[c] = "gathering" /\ kids'[c] = workers
            /\ \A w \in workers : pc'[w] = pc[w]
        <4>1. pc' = [pc EXCEPT ![c] = "gathering"] /\ kids' = [kids EXCEPT ![c] = workers]
          BY <1>5, <2>2 DEF CancelAndGather
        <4> QED
          BY <1>1, <4>1, Kinds
      <3>2. ASSUME NEW w \in workers, pc[w] # "stopped" PROVE Thrown(w)'
        <4>1. w \in ToCancel /\ w \in Tasks /\ w # c
          BY <1>1, <3>2, Kinds DEF ToCancel
        <4>2. fut[w] = "pending" => fut'[w] = "cancelled"
          BY <1>1, <1>5, <2>2, <4>1 DEF CancelAndGather
        <4>3. fut[w] # "pending" => w \in mustCancel'
          BY <1>1, <1>5, <2>2, <4>1 DEF CancelAndGather
        <4> QED
          BY <4>2, <4>3 DEF Thrown
      <3> QED
        BY <1>1, <3>1, <3>2 DEF KnownPart
    <2> QED
      BY <2>1, <2>2
  <1>6. ASSUME NEW c \in Callers, CallerStep(c) PROVE CallsPart'
    <2>1. /\ op' = op /\ closed' = closed
          /\ \A d \in Callers \ {c} : pc'[d] = pc[d] /\ kids'[d] = kids[d]
      BY <1>1, <1>6 DEF CallerStep, JoinerWakes, GatherCompletes, CloseReturns, CallerCancelled,
                        CancelAndGather, callVars, groupVars
    <2>2. CASE JoinerWakes(c)
      <3>1. CASE op[c] = "join"
        <4>1. pc'[c] = "joined"
          BY <1>1, <2>2, <3>1 DEF JoinerWakes
        <4> QED
          BY <1>1, <1>3, <2>1, <3>1, <4>1 DEF CallsPart, AllStopped
      <3>2. CASE op[c] # "join"
        <4>1. CancelAndGather(c) /\ op'[c] \notin {"none", "join"} /\ closed'
          BY <1>1, <2>1, <2>2, <3>2 DEF JoinerWakes, CallsPart
        <4> QED
          BY <1>3, <1>5, <2>1, <4>1 DEF CallsPart, AllStopped
      <3> QED
        BY <3>1, <3>2
    <2>3. CASE GatherCompletes(c)
      <3>1. /\ pc[c] = "gathering" /\ pc'[c] = "gathered" /\ kids'[c] = kids[c]
            /\ \A w \in kids[c] : pc[w] = "stopped"
        <4>1. Runnable(c)
          BY <1>1, <2>3, TurnIs DEF GatherCompletes
        <4> QED
          BY <1>1, <2>3, <4>1 DEF GatherCompletes, Runnable, AllStopped, callVars
      <3>2. kids[c] \subseteq Workers /\ op[c] \notin {"none", "join"} /\ closed
        BY <1>1, <3>1 DEF CallsPart
      <3>3. \A w \in kids'[c] : pc'[w] = "stopped"
        BY <1>2, <3>1, <3>2
      <3> QED
        BY <1>3, <2>1, <3>1, <3>2, <3>3 DEF CallsPart, AllStopped
    <2>4. CASE CloseReturns(c) \/ CallerCancelled(c)
      <3>1. pc'[c] \in {"closed", "cancelled"} /\ (op[c] \notin {"none", "join"} => closed)
        BY <1>1, <2>4 DEF CloseReturns, CallerCancelled, CallsPart
      <3> QED
        BY <1>3, <2>1, <3>1 DEF CallsPart, AllStopped
    <2> QED
      BY <1>6, <2>2, <2>3, <2>4 DEF CallerStep
  <1>7. ASSUME NEW c \in Callers, NEW what \in Operations, Call(c, what) PROVE CallsPart'
    <2>1. /\ closed' = (closed \/ what # "join") /\ op'[c] = what /\ what # "none"
          /\ \A d \in Callers \ {c} : pc'[d] = pc[d] /\ op'[d] = op[d] /\ kids'[d] = kids[d]
      <3>1. \A d \in Callers \ {c} : pc'[d] = pc[d] /\ kids'[d] = kids[d]
        BY <1>1, <1>7 DEF Call, CancelAndGather
      <3>2. /\ closed' = (closed \/ what # "join") /\ op'[c] = what
            /\ \A d \in Callers \ {c} : op'[d] = op[d]
        BY <1>1, <1>7 DEF Call
      <3> QED
        BY <3>1, <3>2
    <2>2. CASE what = "abort" \/ (what = "drain" /\ unfinished = 0)
      <3>1. CancelAndGather(c) /\ op'[c] \notin {"none", "join"} /\ closed'
        BY <1>7, <2>1, <2>2 DEF Call
      <3> QED
        BY <1>3, <1>5, <2>1, <3>1 DEF CallsPart, AllStopped
    <2>3. CASE ~(what = "abort" \/ (what = "drain" /\ unfinished = 0))
      <3>1. pc'[c] \in {"joined", "joining"}
        BY <1>1, <1>7, <2>3 DEF Call
      <3> QED
        BY <1>3, <2>1, <3>1 DEF CallsPart, AllStopped
    <2> QED
      BY <2>2, <2>3
  <1> QED
    BY <1>1, <1>4, <1>6, <1>7, OthersSit DEF WakeInv, IInv

Gathers(c) == pc[c] \in {"gathering", "gathered"}

\* A gather awaits the workers there were when it began.
GathersAs(c) ==
  Gathers(c)' =>
    \/ kids'[c] = workers
    \/ Gathers(c) /\ kids'[c] = kids[c]

\* What a step does to _workers, _closed, and the gathers.
LEMMA GroupMoves ==
  ASSUME IInv, WakeInv, [Next]_vars
  PROVE  /\ closed => closed'
         /\ workers' \in SUBSET Workers
         /\ \A c \in Callers :
              /\ pc[c] = "closed" => pc'[c] = "closed"
              /\ GathersAs(c)
         /\ \/ workers' = workers /\ rivals' = rivals
            \/ Start /\ workers = {}
            \/ \E c \in Callers : CloseReturns(c)
  <1>1. /\ TypeOK /\ DOMAIN pc = Tasks /\ kids \in [Callers -> SUBSET Workers]
        /\ \A d \in Callers : d \in Tasks /\ d \notin Workers
        /\ \A c \in Callers : Runnable(c) <=> c \in Scheduled
    BY Kinds DEF IInv, TypeOK, WakeInv, LoopInv
  <1>2. \/ workers' = workers /\ rivals' = rivals
        \/ Start /\ workers = {}
        \/ \E c \in Callers : CloseReturns(c)
    BY DEF Next, LoopStep, WorkerStep, SubmitStep, CallerStep, Application, vars, groupVars, Start,
           NotStarted, Refuse, Submit, TrySubmit, PutterWakes, PutterCancelled, WorkerWaits,
           WorkerTakes, HandlerReturns, HandlerRaises, HandlerCancelled, GetterCancelled,
           HandlerWakes, JoinerWakes, GatherCompletes, CallerCancelled, Cancel, Call
  <1>3. workers' \in SUBSET Workers
    <2>1. TypeOK'
      <3>1. unfinished' \in Nat
        BY StepBooks
      <3> QED
        BY <3>1, StepTypes DEF IInv
    <2> QED
      BY <2>1 DEF TypeOK
  <1>4. CASE CallersSit
    BY <1>2, <1>3, <1>4 DEF CallersSit, callVars, Gathers, GathersAs
  <1>5. ASSUME NEW c \in Callers, CallerStep(c) \/ \E what \in Operations : Call(c, what)
        PROVE  /\ closed => closed'
               /\ \A d \in Callers :
                    /\ pc[d] = "closed" => pc'[d] = "closed"
                    /\ GathersAs(d)
    <2>1. pc[c] # "closed"
      BY <1>5 DEF CallerStep, JoinerWakes, GatherCompletes, CloseReturns, CallerCancelled, Call
    <2>2. closed => closed'
      BY <1>5 DEF CallerStep, JoinerWakes, GatherCompletes, CloseReturns, CallerCancelled, Call,
                  groupVars
    <2>3. \A d \in Callers \ {c} : pc'[d] = pc[d] /\ kids'[d] = kids[d]
      BY <1>1, <1>5 DEF CallerStep, JoinerWakes, GatherCompletes, CloseReturns, CallerCancelled,
                        Call, CancelAndGather, callVars
    <2>4. GathersAs(c)
      <3>1. CASE GatherCompletes(c)
        BY <3>1 DEF GatherCompletes, Gathers, GathersAs, callVars
      <3>2. CASE CloseReturns(c) \/ CallerCancelled(c)
        BY <1>1, <3>2 DEF CloseReturns, CallerCancelled, Gathers, GathersAs
      <3>3. ASSUME CancelAndGather(c) PROVE Gathers(c)' => kids'[c] = workers
        BY <1>1, <3>3 DEF CancelAndGather, Gathers
      <3>4. CASE JoinerWakes(c)
        <4>1. op[c] = "join" => pc'[c] = "joined"
          BY <1>1, <3>4 DEF JoinerWakes
        <4>2. op[c] # "join" => CancelAndGather(c)
          BY <3>4 DEF JoinerWakes
        <4> QED
          BY <3>3, <4>1, <4>2 DEF Gathers, GathersAs
      <3>5. ASSUME NEW what \in Operations, Call(c, what)
            PROVE  CancelAndGather(c) \/ pc'[c] \in {"joined", "joining"}
        BY <1>1, <3>5 DEF Call
      <3> QED
        BY <1>5, <3>1, <3>2, <3>3, <3>4, <3>5 DEF CallerStep, Gathers, GathersAs
    <2> QED
      BY <2>1, <2>2, <2>3, <2>4 DEF Gathers, GathersAs
  <1> QED
    BY <1>1, <1>2, <1>3, <1>4, <1>5, OthersSit

\* Only the aclose that a worker was started beside forgets it.
LEMMA OrphansKept ==
  ASSUME IInv, WakeInv, CloseInv, [Next]_vars
  PROVE  NoOrphanWorker' /\ KnownPart' /\ ThrownPart' /\ RivalsPart'
  <1>1. /\ WorkersGo /\ TypeOK /\ DOMAIN pc = Tasks /\ kids \in [Callers -> SUBSET Workers]
        /\ NoOrphanWorker /\ KnownPart /\ ThrownPart /\ CallsPart /\ RivalsPart
        /\ workers \subseteq Workers /\ closed \in BOOLEAN /\ closed' \in BOOLEAN
    <2>1. TypeOK'
      <3>1. unfinished' \in Nat
        BY StepBooks
      <3> QED
        BY <3>1, StepTypes DEF IInv
    <2> QED
      BY <2>1, StepGoes DEF CloseInv, IInv, TypeOK
  <1>2. /\ closed => closed'
        /\ workers' \in SUBSET Workers
        /\ \A c \in Callers :
             /\ pc[c] = "closed" => pc'[c] = "closed"
             /\ GathersAs(c)
        /\ \/ workers' = workers /\ rivals' = rivals
           \/ Start /\ workers = {}
           \/ \E c \in Callers : CloseReturns(c)
    BY GroupMoves
  <1>3. ThrownPart'
    BY <1>1, <1>2 DEF ThrownPart, WorkersGo
  <1>4. KnownPart'
    <2>1. CASE workers' = workers
      BY <1>1, <2>1 DEF KnownPart, WorkersGo
    <2>2. CASE Start
      BY <2>2, StartGoes DEF KnownPart
    <2>3. CASE \E c \in Callers : CloseReturns(c)
      BY <2>3 DEF CloseReturns, KnownPart
    <2> QED
      BY <1>2, <2>1, <2>2, <2>3
  <1>5. \A w \in Workers : pc[w] # "unborn" => rivals'[w] = rivals[w]
    <2>1. CASE Start
      BY <2>1, StartGoes
    <2>2. CASE \E c \in Callers : CloseReturns(c)
      BY <2>2 DEF CloseReturns
    <2> QED
      BY <1>2, <2>1, <2>2
  <1>6. RivalsPart'
    <2>1. CASE workers' = workers /\ rivals' = rivals
      BY <1>1, <1>2, <2>1 DEF RivalsPart, Gathers, GathersAs
    <2>2. CASE Start
      BY <2>2, StartGoes DEF RivalsPart, Gatherers
    <2>3. CASE \E c \in Callers : CloseReturns(c)
      BY <2>3 DEF CloseReturns, RivalsPart
    <2> QED
      BY <1>2, <2>1, <2>2, <2>3
  <1>7. ASSUME NEW w \in Workers, pc'[w] \in {"get", "handle"}
        PROVE  w \in workers' \/ \E c \in rivals'[w] : pc'[c] = "closed"
    <2>1. CASE pc[w] = "unborn"
      BY <1>1, <1>7, <2>1 DEF WorkersGo
    <2>2. CASE pc[w] # "unborn"
      <3>1. pc[w] \in {"get", "handle"} /\ rivals'[w] = rivals[w]
        BY <1>1, <1>5, <1>7, <2>2 DEF WorkersGo
      <3>2. rivals[w] \subseteq Callers
        BY <1>1 DEF TypeOK
      <3>3. CASE \E c \in rivals[w] : pc[c] = "closed"
        BY <1>2, <3>1, <3>2, <3>3
      <3>4. CASE w \in workers /\ workers' = workers
        BY <3>4
      <3>5. ASSUME w \in workers, NEW c \in Callers, CloseReturns(c)
            PROVE  c \in rivals[w] /\ pc'[c] = "closed"
        <4>1. pc[c] = "gathered" /\ pc'[c] = "closed"
          BY <1>1, <3>5, Kinds DEF CloseReturns
        <4>2. AllStopped(c)
          BY <1>1, <4>1 DEF CallsPart
        <4>3. w \notin kids[c]
          BY <3>1, <4>2 DEF AllStopped
        <4> QED
          BY <1>1, <3>5, <4>1, <4>3 DEF RivalsPart
      <3> QED
        BY <1>1, <1>2, <3>1, <3>3, <3>4, <3>5 DEF NoOrphanWorker
    <2> QED
      BY <2>1, <2>2
  <1>8. NoOrphanWorker'
    BY <1>7 DEF NoOrphanWorker
  <1> QED
    BY <1>3, <1>4, <1>6, <1>8

\* What PoisonDoesNotKill counts.
Stoppers == {w \in Workers : pc[w] = "stopped"}
PoisonCount ==
  Cardinality(Stoppers)
    = Cardinality(WithFate({"interrupted"})) + Cardinality(Stoppers \cap Holders)

\* Nobody stops, no item is interrupted, and those who have stopped keep what
\* they hold.
LEMMA PoisonStands ==
  ASSUME PoisonCount,
         \A w \in Workers : pc'[w] = "stopped" <=> pc[w] = "stopped",
         \A w \in Workers : pc[w] = "stopped" => holding'[w] = holding[w],
         \A i \in Items : fate'[i] = "interrupted" <=> fate[i] = "interrupted"
  PROVE  PoisonCount'
  <1>1. Stoppers' = Stoppers
    BY DEF Stoppers
  <1>2. (Stoppers \cap Holders)' = Stoppers \cap Holders
    BY <1>1 DEF Stoppers, Holders
  <1>3. WithFate({"interrupted"})' = WithFate({"interrupted"})
    BY DEF WithFate
  <1> QED
    BY <1>1, <1>2, <1>3 DEF PoisonCount

\* A worker stops over its item: interrupted and marked done, or completed and
\* kept.
LEMMA PoisonStops ==
  ASSUME PoisonCount, TypeOK, NEW w \in Workers, pc[w] = "handle", holding[w] \in Items,
         fate[holding[w]] = "taken",
         pc'[w] = "stopped", \A v \in Workers \ {w} : pc'[v] = pc[v],
         \A v \in Workers \ {w} : holding'[v] = holding[v],
         \/ fate' = [fate EXCEPT ![holding[w]] = "interrupted"] /\ holding'[w] = NoItem
         \/ fate' = [fate EXCEPT ![holding[w]] = "completed"] /\ holding'[w] = holding[w]
  PROVE  PoisonCount'
  <1> DEFINE S == Stoppers
             H == Stoppers \cap Holders
             F == WithFate({"interrupted"})
  <1>1. S' = S \cup {w} /\ w \notin S /\ IsFiniteSet(S)
    <2>1. S \in SUBSET Workers
      BY DEF Stoppers
    <2>2. IsFiniteSet(S)
      BY <2>1, WorkersFinite, FS_Subset
    <2>3. S' = S \cup {w} /\ w \notin S
      BY DEF Stoppers
    <2> QED
      BY <2>2, <2>3
  <1>2. IsFiniteSet(H) /\ IsFiniteSet(F) /\ w \notin H
    BY <1>1, Counted, FS_Subset
  <1>3. Cardinality(S) \in Nat /\ Cardinality(H) \in Nat /\ Cardinality(F) \in Nat
    BY <1>1, <1>2, FS_CardinalityType
  <1>4. Cardinality(S') = Cardinality(S) + 1
    <2> HIDE DEF S
    <2> QED
      BY <1>1, Joins
  <1>5. \A v \in Workers \ {w} : v \in H' <=> v \in H
    BY DEF Stoppers, Holders
  <1>6. CASE fate' = [fate EXCEPT ![holding[w]] = "interrupted"] /\ holding'[w] = NoItem
    <2>1. H' = H
      <3>1. w \notin H'
        BY <1>6 DEF Holders
      <3>2. H \subseteq Workers /\ H' \subseteq Workers
        BY DEF Stoppers
      <3> HIDE DEF H
      <3> QED
        BY <1>2, <1>5, <3>1, <3>2
    <2>2. F' = F \cup {holding[w]} /\ holding[w] \notin F
      BY <1>6 DEF WithFate, TypeOK
    <2>3. Cardinality(F') = Cardinality(F) + 1
      <3> HIDE DEF F
      <3> QED
        BY <1>2, <2>2, Joins
    <2>4. Cardinality(H') = Cardinality(H)
      <3> HIDE DEF H
      <3> QED
        BY <2>1
    <2> QED
      BY <1>3, <1>4, <2>3, <2>4 DEF PoisonCount
  <1>7. CASE fate' = [fate EXCEPT ![holding[w]] = "completed"] /\ holding'[w] = holding[w]
    <2>1. H' = H \cup {w}
      <3>1. w \in H'
        BY <1>7 DEF Stoppers, Holders, TypeOK
      <3>2. H \subseteq Workers /\ H' \subseteq Workers
        BY DEF Stoppers
      <3> HIDE DEF H
      <3> QED
        BY <1>5, <3>1, <3>2
    <2>2. Cardinality(H') = Cardinality(H) + 1
      <3> HIDE DEF H
      <3> QED
        BY <1>2, <2>1, Joins
    <2>3. F' = F
      BY <1>7 DEF WithFate, TypeOK
    <2> QED
      BY <1>3, <1>4, <2>2, <2>3 DEF PoisonCount
  <1> QED
    BY <1>6, <1>7

\* While the pool is open, a worker that finishes does so over an item.
LEMMA PoisonKept ==
  ASSUME IInv, WakeInv, CloseInv, [Next]_vars
  PROVE  PoisonDoesNotKill'
  <1>1. (PoisonDoesNotKill <=> (~closed => PoisonCount))
        /\ (PoisonDoesNotKill <=> (~closed => PoisonCount))'
    BY DEF PoisonDoesNotKill, PoisonCount, Stoppers
  <1>2. /\ TypeOK /\ fate \in [Items -> Fate] /\ items \in Seq(Items)
        /\ holding \in [Workers -> Items \cup {NoItem}] /\ DOMAIN pc = Tasks
        /\ \A w \in Workers : w \in Tasks
    BY Kinds DEF IInv, TypeOK
  <1> SUFFICES ASSUME ~closed' PROVE PoisonCount'
    BY <1>1
  <1>3. ~closed /\ PoisonCount /\ \A w \in Workers : ~Thrown(w)
    <2>1. ~closed
      BY GroupMoves
    <2> QED
      BY <1>1, <2>1 DEF CloseInv, ThrownPart
  <1>4. ASSUME NEW w \in Workers, pc[w] = "handle"
        PROVE  holding[w] \in Items /\ fate[holding[w]] = "taken"
    <2>1. holding[w] \in {holding[v] : v \in {u \in Workers : pc[u] = "handle"}}
      BY <1>4
    <2> QED
      BY <2>1 DEF IInv, BooksInv, BooksBalance, EachItemOnce, WithFate
  <1>5. ASSUME NEW w \in Workers, WorkerStep(w) PROVE PoisonCount'
    <2>1. CASE WorkerWaits(w)
      BY <1>3, <2>1, PoisonStands DEF WorkerWaits, workVars
    <2>2. CASE WorkerTakes(w)
      <3>1. Head(items) \in Items /\ fate[Head(items)] = "queued"
        <4>1. Head(items) \in ToSet(items)
          BY <1>2, <2>2 DEF WorkerTakes, ToSet
        <4> QED
          BY <4>1 DEF IInv, BooksInv, BooksBalance, EachItemOnce, WithFate
      <3>2. /\ pc[w] = "get" /\ pc' = [pc EXCEPT ![w] = "handle"]
            /\ fate' = [fate EXCEPT ![Head(items)] = "taken"]
            /\ holding' = [holding EXCEPT ![w] = Head(items)]
        BY <2>2 DEF WorkerTakes
      <3> QED
        BY <1>2, <1>3, <3>1, <3>2, PoisonStands
    <2>3. CASE HandlerReturns(w) \/ HandlerRaises(w) \/ HandlerCancelled(w)
      <3>1. /\ pc[w] = "handle" /\ holding[w] \in Items /\ fate[holding[w]] = "taken"
        BY <1>4, <2>3 DEF HandlerReturns, HandlerRaises, HandlerCancelled
      <3>2. CASE /\ pc' = [pc EXCEPT ![w] = "get"] /\ TaskDone(w)
                 /\ \E f \in {"completed", "failed"} : fate' = [fate EXCEPT ![holding[w]] = f]
        BY <1>2, <1>3, <3>1, <3>2, PoisonStands DEF TaskDone
      <3>3. CASE /\ pc' = [pc EXCEPT ![w] = "stopped"] /\ TaskDone(w)
                 /\ fate' = [fate EXCEPT ![holding[w]] = "interrupted"]
        <4>1. holding'[w] = NoItem /\ \A v \in Workers \ {w} : holding'[v] = holding[v]
          BY <1>2, <3>3 DEF TaskDone
        <4>2. pc'[w] = "stopped" /\ \A v \in Workers \ {w} : pc'[v] = pc[v]
          BY <1>2, <3>3
        <4> QED
          BY <1>2, <1>3, <3>1, <3>3, <4>1, <4>2, PoisonStops
      <3>4. CASE /\ pc' = [pc EXCEPT ![w] = "stopped"] /\ holding' = holding
                 /\ fate' = [fate EXCEPT ![holding[w]] = "completed"]
        <4>1. pc'[w] = "stopped" /\ \A v \in Workers \ {w} : pc'[v] = pc[v]
          BY <1>2, <3>4
        <4> QED
          BY <1>2, <1>3, <3>1, <3>4, <4>1, PoisonStops
      <3> QED
        BY <2>3, <3>2, <3>3, <3>4 DEF HandlerReturns, HandlerRaises, HandlerCancelled, WorkerStops
    <2>4. CASE GetterCancelled(w)
      BY <1>3, <2>4 DEF GetterCancelled
    <2> QED
      BY <1>5, <2>1, <2>2, <2>3, <2>4 DEF WorkerStep
  <1>6. ASSUME NEW i \in Items, SubmitStep(i) \/ Refuse(i) \/ Submit(i) \/ TrySubmit(i)
        PROVE  PoisonCount'
    <2>1. holding' = holding /\ \A w \in Workers : pc'[w] = pc[w]
      <3>1. holding' = holding /\ \E s : pc' = [pc EXCEPT ![i] = s]
        BY <1>6 DEF SubmitStep, Refuse, Submit, TrySubmit, PutterWakes, PutterCancelled, PutOrWait,
                    workVars
      <3> QED
        BY <1>2, <3>1, Kinds
    <2>2. fate' = fate \/ (fate' = [fate EXCEPT ![i] = "queued"] /\ pc[i] # "returned")
      BY <1>6 DEF SubmitStep, Refuse, Submit, TrySubmit, PutterWakes, PutterCancelled, PutOrWait,
                  Enqueue, workVars
    <2>3. \A j \in Items : fate'[j] = "interrupted" <=> fate[j] = "interrupted"
      <3>1. pc[i] # "returned" => fate[i] = "none"
        BY DEF IInv, BooksInv, Places
      <3> QED
        BY <1>2, <2>2, <3>1
    <2> QED
      BY <1>3, <2>1, <2>3, PoisonStands
  <1>7. ASSUME NEW c \in Callers, CallerStep(c) \/ \E what \in Operations : Call(c, what)
        PROVE  PoisonCount'
    <2>1. holding' = holding /\ fate' = fate
      BY <1>7 DEF CallerStep, JoinerWakes, GatherCompletes, CloseReturns, CallerCancelled, Call,
                  workVars
    <2>2. \E s : pc' = [pc EXCEPT ![c] = s]
      BY <1>7 DEF CallerStep, JoinerWakes, GatherCompletes, CloseReturns, CallerCancelled, Call,
                  CancelAndGather
    <2>3. \A w \in Workers : pc'[w] = pc[w]
      BY <1>2, <2>2, Kinds
    <2> QED
      BY <1>3, <2>1, <2>3, PoisonStands
  <1>8. CASE Start
    <2>1. holding' = holding /\ fate' = fate
      BY <1>8 DEF Start, workVars
    <2>2. WorkersGo /\ \A w \in Workers : pc'[w] = pc[w] \/ pc'[w] = "get"
      BY <1>2, <1>8, StartGoes DEF Start
    <2>3. \A w \in Workers : pc[w] = "stopped" <=> pc'[w] = "stopped"
      BY <2>2 DEF WorkersGo
    <2> QED
      BY <1>3, <2>1, <2>3, PoisonStands
  <1>9. CASE \/ \E t \in Cancellable : Cancel(t)
             \/ \E w \in Workers : HandlerWakes(w)
             \/ UNCHANGED vars
    <2>1. holding' = holding /\ fate' = fate /\ pc' = pc
      BY <1>9 DEF Cancel, HandlerWakes, vars, workVars
    <2> QED
      BY <1>3, <2>1, PoisonStands
  <1> QED
    BY <1>5, <1>6, <1>7, <1>8, <1>9 DEF Next, LoopStep, Application

\* In the beginning no worker is there and nobody closes.
LEMMA InitCloses == Init => CloseInv
  <1> SUFFICES ASSUME Init PROVE CloseInv
    OBVIOUS
  <1>1. /\ fut = [t \in Tasks |-> "none"] /\ mustCancel = {} /\ workers = {} /\ ~closed
        /\ op = [c \in Callers |-> "none"] /\ fate = [i \in Items |-> "none"]
        /\ pc = [t \in Tasks |-> IF t \in Items THEN "new"
                                 ELSE IF t \in Callers THEN "idle" ELSE "unborn"]
    BY DEF Init, LoopInit
  <1>2. /\ \A c \in Callers : pc[c] = "idle" /\ op[c] = "none"
        /\ \A w \in Workers : pc[w] = "unborn" /\ fut[w] = "none"
    BY <1>1 DEF Tasks
  <1>3. CallsPart /\ ThrownPart /\ KnownPart /\ RivalsPart /\ NoOrphanWorker
    BY <1>1, <1>2 DEF CallsPart, ThrownPart, KnownPart, RivalsPart, NoOrphanWorker, Thrown
  <1>4. PoisonDoesNotKill
    <2>1. Stoppers = {} /\ WithFate({"interrupted"}) = {} /\ Stoppers \cap Holders = {}
      BY <1>1, <1>2 DEF Stoppers, WithFate
    <2>2. Cardinality({}) = 0
      BY FS_EmptySet
    <2>3. PoisonCount
      BY <2>1, <2>2 DEF PoisonCount
    <2> QED
      BY <2>3 DEF PoisonDoesNotKill, PoisonCount, Stoppers
  <1> QED
    BY <1>3, <1>4 DEF CloseInv

\* Whom an aclose has cancelled stays cancelled until it has finished.
LEMMA CloseInvariant == Spec => [](IInv /\ WakeInv /\ CloseInv)
  <1>1. Init => CloseInv
    BY InitCloses
  <1>2. CloseInv /\ (IInv /\ WakeInv) /\ [Next]_vars => CloseInv'
    BY CallsKept, OrphansKept, PoisonKept DEF CloseInv
  <1> QED
    BY <1>1, <1>2, WakesInvariant, PTL DEF Spec

\* A worker that has not finished is one that the next aclose would cancel, unless
\* an aclose was gathering those before it when it was started, and has returned.
THEOREM NoOrphans == Spec => []NoOrphanWorker
  <1>1. CloseInv => NoOrphanWorker
    BY DEF CloseInv
  <1> QED
    BY <1>1, CloseInvariant, PTL

\* While the pool is open a worker has finished only over an item, one for each,
\* whose handler raised CancelledError or whose on_result raised.
THEOREM Poison == Spec => []PoisonDoesNotKill
  <1>1. CloseInv => PoisonDoesNotKill
    BY DEF CloseInv
  <1> QED
    BY <1>1, CloseInvariant, PTL

\* While aclose waits for the workers it has cancelled, no handler starts.
THEOREM Closing == Spec => ClosingTakesNothing
  <1>1. IInv /\ WakeInv /\ CloseInv /\ [Next]_vars
          => [(\E c \in Callers : pc[c] \in {"gathering", "gathered"} /\ kids[c] = workers)
                => \A w \in workers : pc'[w] = "handle" => pc[w] = "handle"]_vars
    <2> SUFFICES ASSUME IInv, WakeInv, CloseInv, [Next]_vars,
                        NEW c \in Callers, pc[c] \in {"gathering", "gathered"}, kids[c] = workers,
                        NEW w \in workers, pc'[w] = "handle"
                 PROVE  pc[w] = "handle"
      OBVIOUS
    <2>1. WorkersGo /\ CallsPart /\ w \in Workers
      BY StepGoes, Kinds DEF CloseInv, IInv
    <2>2. pc[w] # "unborn" /\ (pc[w] # "stopped" => Thrown(w))
      BY <2>1 DEF CallsPart
    <2> QED
      BY <2>1, <2>2 DEF WorkersGo
  <1> QED
    BY <1>1, CloseInvariant, PTL DEF Spec, ClosingTakesNothing

-----------------------------------------------------------------------------
(* A drain, where every handler awaits something and no submit is cancelled *)

\* What the drain of aclose relies on.
Orderly == FALSE \notin HandlerSuspends /\ Cancellable \cap Items = {}

\* The workers in a handler.
Busy == {w \in Workers : pc[w] = "handle"}

\* Behind each submit in the queue s one of the workers H is still to come.
Backed(s, H) ==
  \A k \in DOMAIN s :
    s[k] \in Items => \E w \in H : \A j \in DOMAIN s : s[j] = w => k < j

\* A submit that was woken runs before the handler of the worker that freed its
\* slot goes on.
LineInv ==
  /\ \A i \in Items : ~Thrown(i)
  /\ running # NoTask => pc[running] = "get"
  /\ Backed(ready, Busy)

\* Nothing is in the queue, or waits to get in.
Empty == items = <<>> /\ \A i \in Items : pc[i] # "putting"

\* Who leaves the head of the queue backs nobody behind it.
LEMMA BackedTail ==
  ASSUME NEW T, NEW s \in Seq(T), s # <<>>, NEW H, Backed(s, H)
  PROVE  Backed(Tail(s), H \ {Head(s)})
  <1> DEFINE r == Tail(s)
             n == Len(s)
  <1>1. n \in Nat /\ n >= 1 /\ DOMAIN s = 1 .. n /\ Head(s) = s[1]
    OBVIOUS
  <1>2. DOMAIN r = 1 .. (n - 1) /\ \A k \in 1 .. (n - 1) : r[k] = s[k + 1]
    OBVIOUS
  <1> HIDE DEF r, n
  <1>3. SUFFICES ASSUME NEW k \in 1 .. (n - 1), r[k] \in Items
                 PROVE  \E w \in H \ {s[1]} : \A j \in 1 .. (n - 1) : r[j] = w => k < j
    BY <1>1, <1>2 DEF Backed, r
  <1>4. k + 1 \in 1 .. n /\ s[k + 1] \in Items
    BY <1>1, <1>2, <1>3
  <1>5. PICK w \in H : \A j \in 1 .. n : s[j] = w => k + 1 < j
    BY <1>1, <1>4 DEF Backed
  <1>6. w # s[1]
    <2>1. 1 \in 1 .. n /\ ~(k + 1 < 1)
      BY <1>1, <1>3
    <2> QED
      BY <1>5, <2>1
  <1>7. ASSUME NEW j \in 1 .. (n - 1), r[j] = w PROVE k < j
    <2>1. j + 1 \in 1 .. n /\ s[j + 1] = w
      BY <1>1, <1>2, <1>7
    <2>2. k + 1 < j + 1
      BY <1>5, <2>1
    <2> QED
      BY <1>3, <2>2
  <1> QED
    BY <1>6, <1>7

\* Others line up behind, no submits among them or all of them before h.
LEMMA BackedConcat ==
  ASSUME NEW T, NEW s \in Seq(T), NEW r \in Seq(T), NEW H, NEW G, H \subseteq G, Backed(s, H),
         \/ \A x \in ToSet(r) : x \notin Items
         \/ \E h \in G : h \notin ToSet(s) /\ h \notin ToSet(r)
  PROVE  Backed(s \o r, G)
  <1> DEFINE q == s \o r
             m == Len(s)
             n == Len(r)
  <1>1. m \in Nat /\ n \in Nat /\ DOMAIN s = 1 .. m /\ DOMAIN r = 1 .. n
    OBVIOUS
  <1>2. /\ DOMAIN q = 1 .. (m + n)
        /\ \A k \in 1 .. (m + n) : q[k] = IF k <= m THEN s[k] ELSE r[k - m]
    OBVIOUS
  <1> HIDE DEF q, m, n
  <1>3. SUFFICES ASSUME NEW k \in 1 .. (m + n), q[k] \in Items
                 PROVE  \E w \in G : \A j \in 1 .. (m + n) : q[j] = w => k < j
    BY <1>2 DEF Backed, q
  <1>4. \A j \in 1 .. (m + n) : \/ j \in 1 .. m /\ q[j] = s[j]
                                \/ j > m /\ j - m \in 1 .. n /\ q[j] = r[j - m]
    BY <1>1, <1>2
  <1>5. CASE k \in 1 .. m
    <2>1. q[k] = s[k]
      BY <1>1, <1>4, <1>5
    <2>2. PICK w \in H : \A j \in 1 .. m : s[j] = w => k < j
      BY <1>1, <1>3, <1>5, <2>1 DEF Backed
    <2>3. \A j \in 1 .. (m + n) : q[j] = w => k < j
      BY <1>1, <1>4, <1>5, <2>2
    <2> QED
      BY <2>2, <2>3
  <1>6. CASE k > m
    <2>1. q[k] \in ToSet(r)
      BY <1>1, <1>4, <1>6 DEF ToSet
    <2>2. PICK h \in G : h \notin ToSet(s) /\ h \notin ToSet(r)
      BY <1>3, <2>1
    <2>3. \A j \in 1 .. (m + n) : q[j] # h
      BY <1>1, <1>4, <2>2 DEF ToSet
    <2> QED
      BY <2>3
  <1> QED
    BY <1>1, <1>5, <1>6

\* The queue behind whoever acts, without the backing of whoever acts.
LEMMA BackedBehind ==
  ASSUME TypeOK, LineInv, NEW t \in Tasks, Turn(t) \/ t \notin Busy
  PROVE  Behind(t) \in Seq(Tasks) /\ Backed(Behind(t), Busy \ {t})
  <1>1. ready \in Seq(Tasks) /\ Backed(ready, Busy)
    BY Kinds DEF LineInv, LoopTypeOK
  <1>2. CASE Behind(t) = Tail(ready) /\ ready # <<>> /\ Head(ready) = t
    BY <1>1, <1>2, BackedTail
  <1>3. CASE Behind(t) = ready /\ t \notin Busy
    <2>1. Busy \ {t} = Busy
      BY <1>3
    <2> QED
      BY <1>1, <1>3, <2>1
  <1>4. Behind(t) = ready => t \notin Busy \/ (ready # <<>> /\ Head(ready) = t /\ Idle)
    BY Kinds DEF Turn, LineInv, Busy
  <1> QED
    BY <1>2, <1>3, <1>4 DEF Behind

\* A turn of t keeps the line if it lines no submit up, or only such as t itself
\* is still to follow.
LEMMA TurnLines ==
  ASSUME TypeOK, LineInv, NEW t \in Tasks, Turn(t) \/ t \notin Busy,
         NEW state \in {"none", "pending"}, NEW woken \in Seq(Tasks), NEW callbacks \in Seq(Tasks),
         Advance(t, state, woken, callbacks),
         running' = NoTask \/ pc'[running'] = "get",
         Busy \ {t} \subseteq Busy',
         \A x \in ToSet(callbacks) : x \notin Items,
         \/ \A x \in ToSet(woken) : x \notin Items
         \/ /\ t \in Busy' /\ t \notin ToSet(Behind(t))
            /\ t \notin ToSet(woken) /\ t \notin ToSet(callbacks)
  PROVE  LineInv'
  <1>1. \A x \in Tasks : fut'[x] = IF x = t THEN state
                                   ELSE IF x \in ToSet(woken) THEN "done" ELSE fut[x]
    BY Kinds, AdvanceFutures
  <1>2. \A i \in Items : ~Thrown(i)'
    <2>1. mustCancel' = mustCancel \ {t}
      BY DEF Advance
    <2> QED
      BY <1>1, <2>1, Kinds DEF LineInv, Thrown
  <1>3. Backed(ready', Busy')
    <2>1. /\ Behind(t) \in Seq(Tasks) /\ Backed(Behind(t), Busy \ {t})
          /\ woken \o callbacks \in Seq(Tasks)
          /\ ToSet(woken \o callbacks) = ToSet(woken) \cup ToSet(callbacks)
      BY BackedBehind, ConcatDistinct
    <2>2. Backed(Behind(t) \o (woken \o callbacks), Busy')
      BY <2>1, BackedConcat
    <2>3. ready' = Behind(t) \o (woken \o callbacks)
      BY <2>1 DEF Advance
    <2> QED
      BY <2>2, <2>3
  <1> QED
    BY <1>2, <1>3 DEF LineInv, Backed

\* Submits that are turned away, wait or pass; ...
LEMMA SubmitLines ==
  ASSUME TypeOK, WakeInv, LineInv, NEW i \in Items,
         SubmitStep(i) \/ Refuse(i) \/ Submit(i) \/ TrySubmit(i)
  PROVE  LineInv'
  <1>1. i \in Tasks /\ i \notin Busy /\ DOMAIN pc = Tasks
    BY Kinds DEF Busy
  <1>2. /\ Woken(getters) \in Seq(Tasks) /\ <<>> \in Seq(Tasks)
        /\ \A x \in ToSet(Woken(getters)) : x \notin Items
        /\ \A x \in ToSet(<<>>) : x \notin Items
    <2>1. \A x \in ToSet(Woken(Dropped(getters, NoTask))) : x \in InGet
      BY DequeTypes, WokenSleep DEF WakeInv, GetPart
    <2>2. Dropped(getters, NoTask) = getters
      <3>1. NoTask \notin ToSet(getters)
        BY Kinds DEF WakeInv, GetPart, Deque, InGet
      <3> QED
        BY <3>1, DroppedStranger
    <2>3. Woken(getters) \in Seq(Tasks)
      BY DequeTypes, WokenType
    <2> QED
      BY <2>1, <2>2, <2>3, ShortDistinct, WaitersFinite, Kinds
  <1>3. ASSUME NEW s, pc' = [pc EXCEPT ![i] = s] PROVE Busy' = Busy
    BY <1>1, <1>3, Kinds DEF Busy
  <1>4. CASE PutOrWait(i)
    BY <1>1, <1>2, <1>3, <1>4, TurnLines DEF PutOrWait, Suspends, Ends
  <1>5. CASE Refuse(i) \/ (TrySubmit(i) /\ Full)
    <2>1. UNCHANGED loopVars /\ \E s : pc' = [pc EXCEPT ![i] = s]
      BY <1>5 DEF Refuse, TrySubmit
    <2>2. running # NoTask => running \in Workers
      BY DEF WakeInv, LoopInv
    <2> QED
      BY <1>1, <1>3, <2>1, <2>2, Kinds DEF LineInv, loopVars, Thrown
  <1>6. CASE TrySubmit(i) /\ ~Full
    BY <1>1, <1>2, <1>3, <1>6, TurnLines DEF TrySubmit, Ends
  <1>7. ~PutterCancelled(i)
    BY DEF LineInv, PutterCancelled
  <1> QED
    BY <1>4, <1>5, <1>6, <1>7 DEF SubmitStep, Submit, PutterWakes

\* ... workers; ...
LEMMA WorkerLines ==
  ASSUME Orderly, TypeOK, WakeInv, LineInv, NEW w \in Workers, WorkerStep(w)
  PROVE  LineInv'
  <1>1. w \in Tasks /\ DOMAIN pc = Tasks /\ \A v \in Workers : v \in Tasks
    BY Kinds
  <1>2. Turn(w) /\ MayAct(w)
    <2>1. Turn(w)
      BY DEF WorkerStep, WorkerWaits, WorkerTakes, HandlerReturns, HandlerRaises,
             HandlerCancelled, GetterCancelled
    <2> QED
      BY <1>1, <2>1, TurnIs DEF WakeInv
  <1>3. /\ Woken(Dropped(getters, w)) \in Seq(Tasks) /\ DoneWakes \in Seq(Tasks)
        /\ <<>> \in Seq(Tasks) /\ Woken(putters) \in Seq(Tasks)
        /\ \A x \in ToSet(<<>>) : x \notin Items
        /\ \A x \in ToSet(DoneWakes) : x \notin Items
        /\ \A x \in ToSet(Woken(Dropped(getters, w))) : x \notin Items
        /\ w \notin ToSet(Woken(putters))
    <2>1. \A x \in ToSet(Woken(Dropped(getters, w))) : x \in InGet
      BY DequeTypes, WokenSleep DEF WakeInv, GetPart
    <2>2. \A x \in ToSet(Woken(Dropped(putters, NoTask))) : x \in InPut
      BY DequeTypes, WokenSleep DEF WakeInv, PutPart
    <2>3. Dropped(putters, NoTask) = putters
      <3>1. NoTask \notin ToSet(putters)
        BY Kinds DEF WakeInv, PutPart, Deque, InPut
      <3> QED
        BY <3>1, DroppedStranger
    <2>4. \A x \in ToSet(DoneWakes) : x \in Callers
      BY ShortDistinct DEF DoneWakes, WakeInv, JoinPart
    <2>5. DoneWakes \in Seq(Tasks)
      BY DequeTypes DEF DoneWakes
    <2>6. Woken(putters) \in Seq(Tasks) /\ Woken(Dropped(getters, w)) \in Seq(Tasks)
      BY DequeTypes, WokenType, DroppedType
    <2> QED
      BY <2>1, <2>2, <2>3, <2>4, <2>5, <2>6, ShortDistinct, WaitersFinite, Kinds
  <1>4. ASSUME NEW s, pc' = [pc EXCEPT ![w] = s]
        PROVE  Busy \ {w} \subseteq Busy' /\ pc'[w] = s
    BY <1>1, <1>4 DEF Busy
  <1>5. CASE WorkerWaits(w)
    <2>1. Busy' = Busy
      BY <1>5 DEF WorkerWaits, Busy
    <2> QED
      BY <1>1, <1>2, <1>3, <1>5, <2>1, TurnLines DEF WorkerWaits, Suspends
  <1>6. CASE WorkerTakes(w)
    <2>1. Suspends(w, Woken(putters)) /\ pc' = [pc EXCEPT ![w] = "handle"]
      <3>1. PICK suspends \in HandlerSuspends :
               IF suspends THEN Suspends(w, Woken(putters)) ELSE Continues(w, Woken(putters))
        BY <1>6 DEF WorkerTakes
      <3>2. suspends = TRUE
        BY OptionAssumption DEF Orderly
      <3> QED
        BY <1>6, <3>1, <3>2 DEF WorkerTakes
    <2>2. w \in Busy'
      BY <1>4, <2>1 DEF Busy
    <2>3. w \notin ToSet(Behind(w)) /\ w \notin ToSet(<<>>)
      <3>1. LoopTypeOK(Tasks) /\ LoopNeat /\ NoTask \notin Tasks
        BY Kinds DEF WakeInv, LoopInv
      <3> QED
        BY <1>1, <1>2, <3>1, ShortDistinct, BehindIs
    <2> QED
      BY <1>1, <1>2, <1>3, <1>4, <2>1, <2>2, <2>3, TurnLines DEF Suspends
  <1>7. ASSUME NEW woken \in Seq(Tasks), WorkerStops(w, woken),
               \A x \in ToSet(woken) : x \notin Items
        PROVE  LineInv'
    <2>1. PICK order \in SetToSeqs(LastChildOf(w)) : Ends(w, woken, order)
      BY <1>7 DEF WorkerStops
    <2>2. order \in Seq(Tasks) /\ \A x \in ToSet(order) : x \notin Items
      <3>1. LastChildOf(w) \in SUBSET Tasks /\ LastChildOf(w) \subseteq Callers
        BY DEF LastChildOf, Tasks
      <3>2. IsFiniteSet(LastChildOf(w))
        BY <3>1, FS_Subset, PoolAssumption
      <3> QED
        BY <2>1, <3>1, <3>2, OrderDistinct, Kinds
    <2> QED
      BY <1>1, <1>2, <1>4, <1>7, <2>1, <2>2, TurnLines DEF WorkerStops, Ends
  <1>8. ASSUME NEW woken \in Seq(Tasks), Continues(w, woken), pc' = [pc EXCEPT ![w] = "get"],
               \A x \in ToSet(woken) : x \notin Items
        PROVE  LineInv'
    BY <1>1, <1>2, <1>3, <1>4, <1>8, TurnLines DEF Continues
  <1>9. CASE HandlerReturns(w)
    <2>1. \/ WorkerStops(w, <<>>)
          \/ pc' = [pc EXCEPT ![w] = "get"] /\ Continues(w, DoneWakes)
      BY <1>9 DEF HandlerReturns
    <2> QED
      BY <1>3, <1>7, <1>8, <2>1
  <1>10. CASE HandlerRaises(w)
    BY <1>3, <1>8, <1>10 DEF HandlerRaises
  <1>11. CASE HandlerCancelled(w)
    BY <1>3, <1>7, <1>11 DEF HandlerCancelled
  <1>12. CASE GetterCancelled(w)
    BY <1>3, <1>7, <1>12 DEF GetterCancelled
  <1> QED
    BY <1>5, <1>6, <1>9, <1>10, <1>11, <1>12 DEF WorkerStep

\* ... callers, who cancel nobody but workers; ...
LEMMA CallerLines ==
  ASSUME TypeOK, WakeInv, LineInv, NEW c \in Callers,
         CallerStep(c) \/ \E what \in Operations : Call(c, what)
  PROVE  LineInv'
  <1>1. /\ c \in Tasks /\ c \notin Busy /\ DOMAIN pc = Tasks /\ <<>> \in Seq(Tasks) /\ c \notin Items
        /\ \A x \in ToSet(<<>>) : x \notin Items
        /\ Behind(c) \in Seq(Tasks) /\ Backed(Behind(c), Busy \ {c})
    BY Kinds, ShortDistinct, BackedBehind DEF Busy
  <1>2. ASSUME NEW s, pc' = [pc EXCEPT ![c] = s] PROVE Busy' = Busy
    BY <1>1, <1>2, Kinds DEF Busy
  <1>3. ASSUME NEW s, pc' = [pc EXCEPT ![c] = s], NEW state \in {"none", "pending"},
               Advance(c, state, <<>>, <<>>), running' = NoTask
        PROVE  LineInv'
    BY <1>1, <1>2, <1>3, TurnLines
  <1>4. CASE CancelAndGather(c) /\ workers # {}
    <2> DEFINE waiting == {w \in ToCancel : fut[w] = "pending"}
    <2>1. PICK order \in SetToSeqs(waiting), last \in {<<>>, <<c>>} :
             ready' = Behind(c) \o order \o last
      BY <1>4 DEF CancelAndGather
    <2>2. waiting \subseteq Workers /\ ToCancel \subseteq Workers /\ waiting \in SUBSET Tasks
      BY Kinds DEF ToCancel
    <2>3. IsFiniteSet(waiting)
      BY <2>2, FS_Subset, WorkersFinite
    <2>4. order \in Seq(Tasks) /\ \A x \in ToSet(order) : x \notin Items
      BY <2>1, <2>2, <2>3, OrderDistinct, Kinds
    <2>5. last \in Seq(Tasks) /\ \A x \in ToSet(last) : x \notin Items
      <3>1. <<>> \in Seq(Tasks) /\ ToSet(<<>>) = {} /\ <<c>> \in Seq(Tasks) /\ ToSet(<<c>>) = {c}
        BY <1>1, ShortDistinct
      <3>2. last = <<>> \/ last = <<c>>
        BY <2>1
      <3> QED
        BY <1>1, <3>1, <3>2
    <2>6. /\ Behind(c) \o order \in Seq(Tasks) /\ Busy' = Busy /\ Busy \ {c} \subseteq Busy'
      BY <1>1, <1>2, <1>4, <2>4, ConcatDistinct DEF CancelAndGather
    <2>7. Backed(Behind(c) \o order, Busy')
      BY <1>1, <2>4, <2>6, BackedConcat
    <2>8. Backed(ready', Busy')
      BY <2>1, <2>5, <2>6, <2>7, BackedConcat
    <2>9. \A i \in Items : ~Thrown(i)'
      <3>1. /\ mustCancel' = (mustCancel \ {c}) \cup (ToCancel \ waiting)
            /\ fut' = [t \in DOMAIN fut |-> IF t = c THEN "pending"
                                            ELSE IF t \in waiting THEN "cancelled" ELSE fut[t]]
        BY <1>4 DEF CancelAndGather
      <3>2. DOMAIN fut = Tasks
        BY Kinds DEF LoopTypeOK
      <3>3. \A i \in Items : i \notin ToCancel /\ i \notin waiting /\ i # c /\ i \in Tasks
        BY <2>2, <1>1, Kinds
      <3> HIDE DEF waiting
      <3> QED
        BY <3>1, <3>2, <3>3 DEF LineInv, Thrown
    <2>10. running' = NoTask
      BY <1>4 DEF CancelAndGather
    <2> QED
      BY <2>8, <2>9, <2>10 DEF LineInv, Backed
  <1>5. CASE CancelAndGather(c) /\ workers = {}
    BY <1>3, <1>5 DEF CancelAndGather, Ends
  <1>6. CASE GatherCompletes(c)
    <2>1. /\ ready' = Append(Behind(c), c) /\ fut' = [fut EXCEPT ![c] = "done"]
          /\ running' = running /\ mustCancel' = mustCancel /\ pc' = [pc EXCEPT ![c] = "gathered"]
      BY <1>6 DEF GatherCompletes
    <2>2. Append(Behind(c), c) = Behind(c) \o <<c>> /\ <<c>> \in Seq(Tasks)
          /\ \A x \in ToSet(<<c>>) : x \notin Items
      BY <1>1, ShortDistinct
    <2>3. Busy' = Busy /\ Busy \ {c} \subseteq Busy
      BY <1>2, <2>1
    <2>4. Backed(Behind(c) \o <<c>>, Busy)
      BY <1>1, <2>2, <2>3, BackedConcat
    <2>5. \A i \in Items : ~Thrown(i)'
      <3>1. fut \in [Tasks -> FutureState]
        BY DEF TypeOK, LoopTypeOK
      <3> QED
        BY <1>1, <2>1, <3>1, Kinds DEF LineInv, Thrown
    <2>6. running' # NoTask => pc'[running'] = "get"
      <3>1. running # NoTask => running \in Workers
        BY DEF WakeInv, LoopInv
      <3> QED
        BY <1>1, <2>1, <3>1, Kinds DEF LineInv
    <2> QED
      BY <2>1, <2>2, <2>3, <2>4, <2>5, <2>6 DEF LineInv, Backed
  <1>7. CASE JoinerWakes(c)
    BY <1>3, <1>4, <1>5, <1>7 DEF JoinerWakes, Ends
  <1>8. CASE CloseReturns(c) \/ CallerCancelled(c)
    BY <1>3, <1>8 DEF CloseReturns, CallerCancelled, Ends
  <1>9. ASSUME NEW what \in Operations, Call(c, what) PROVE LineInv'
    BY <1>3, <1>4, <1>5, <1>9 DEF Call, Ends, Suspends
  <1> QED
    BY <1>6, <1>7, <1>8, <1>9 DEF CallerStep

\* ... and what the application does to others.
LEMMA SignalLines ==
  ASSUME Orderly, IInv, WakeInv, LineInv,
         \/ Start
         \/ \E t \in Cancellable : Cancel(t)
         \/ \E w \in Workers : HandlerWakes(w)
         \/ UNCHANGED vars
  PROVE  LineInv'
  <1>1. /\ ready \in Seq(Tasks) /\ Backed(ready, Busy) /\ fut \in [Tasks -> FutureState]
        /\ DOMAIN pc = Tasks /\ TypeOK
    BY Kinds DEF LineInv, LoopTypeOK, IInv
  <1>2. CASE Start
    <2> DEFINE born == [k \in 1 .. PoolSize |-> spawned + k]
    <2>1. spawned + PoolSize \in Workers /\ spawned \in Nat
      BY <1>1, <1>2 DEF Start, TypeOK
    <2>2. (spawned + 1) .. (spawned + PoolSize) \subseteq Workers
      BY <2>1, PoolAssumption DEF Workers
    <2>3. \A k \in 1 .. PoolSize : spawned + k \in (spawned + 1) .. (spawned + PoolSize)
      BY <2>1, PoolAssumption
    <2>4. /\ born \in Seq(Tasks) /\ \A x \in ToSet(born) : x \notin Items
      <3>1. \A k \in 1 .. PoolSize : spawned + k \in Workers /\ spawned + k \in Tasks
        BY <1>1, <2>2, <2>3, Kinds
      <3>2. born \in Seq(Tasks) /\ DOMAIN born = 1 .. PoolSize
        BY <3>1, PoolAssumption
      <3> QED
        BY <1>1, <3>1, <3>2, Kinds DEF ToSet
    <2>5. Busy \subseteq Busy'
      <3>1. \A w \in Workers :
               pc'[w] = IF w \in (spawned + 1) .. (spawned + PoolSize) THEN "get" ELSE pc[w]
        BY <1>1, <1>2, Kinds DEF Start
      <3>2. \A w \in Busy : w \notin (spawned + 1) .. (spawned + PoolSize)
        <4>1. \A w \in Workers : w > spawned => pc[w] = "unborn"
          BY DEF IInv, BooksInv, Places
        <4>2. \A w \in (spawned + 1) .. (spawned + PoolSize) : w > spawned
          BY <2>1, PoolAssumption
        <4> QED
          BY <4>1, <4>2 DEF Busy
      <3> QED
        BY <3>1, <3>2 DEF Busy
    <2>6. Backed(ready \o born, Busy')
      BY <1>1, <2>4, <2>5, BackedConcat
    <2>7. ready' = ready \o born /\ running' = NoTask /\ fut' = fut /\ mustCancel' = mustCancel
      BY <1>2 DEF Start, Idle
    <2>8. \A i \in Items : ~Thrown(i)'
      BY <2>7 DEF LineInv, Thrown
    <2> HIDE DEF born
    <2> QED
      BY <2>6, <2>7, <2>8 DEF LineInv, Backed
  <1>3. ASSUME NEW t \in Tasks, t \notin Items, pc' = pc, Completes(t) \/ Cancels(t)
                 \/ (mustCancel' = mustCancel \cup {t} /\ UNCHANGED <<ready, running, fut>>)
        PROVE  LineInv'
    <2>1. Busy' = Busy
      BY <1>3 DEF Busy
    <2>2. Append(ready, t) = ready \o <<t>> /\ <<t>> \in Seq(Tasks)
          /\ \A x \in ToSet(<<t>>) : x \notin Items
      BY <1>1, <1>3, ShortDistinct
    <2>3. Backed(Append(ready, t), Busy)
      BY <1>1, <2>2, BackedConcat
    <2>4. ready' = ready \/ ready' = Append(ready, t)
      BY <1>3 DEF Completes, Cancels
    <2>5. \A i \in Items : ~Thrown(i)'
      BY <1>1, <1>3, Kinds DEF LineInv, Thrown, Completes, Cancels
    <2>6. running' = running
      BY <1>3 DEF Completes, Cancels
    <2> QED
      BY <1>1, <1>3, <2>1, <2>3, <2>4, <2>5, <2>6 DEF LineInv, Backed
  <1>4. ASSUME NEW t \in Cancellable, Cancel(t) PROVE LineInv'
    <2>1. t \in Tasks /\ t \notin Items
      BY OptionAssumption DEF Orderly, Tasks
    <2> QED
      BY <1>3, <1>4, <2>1 DEF Cancel
  <1>5. ASSUME NEW w \in Workers, HandlerWakes(w) PROVE LineInv'
    BY <1>1, <1>3, <1>5, Kinds DEF HandlerWakes
  <1>6. CASE UNCHANGED vars
    BY <1>6 DEF vars, loopVars, LineInv, Busy, Backed, Thrown
  <1> QED
    BY <1>2, <1>4, <1>5, <1>6

\* Where every handler awaits something and no submit is cancelled, those who
\* were woken to put run in time.
LEMMA LineInvariant ==
  ASSUME Orderly
  PROVE  Spec => [](IInv /\ WakeInv /\ CloseInv /\ LineInv)
  <1>1. Init => LineInv
    <2> SUFFICES ASSUME Init PROVE LineInv
      OBVIOUS
    <2>1. /\ ready = <<>> /\ running = NoTask /\ mustCancel = {}
          /\ fut = [t \in Tasks |-> "none"]
      BY DEF Init, LoopInit
    <2>2. \A i \in Items : i \in Tasks
      BY DEF Tasks
    <2>3. Backed(<<>>, Busy)
      BY DEF Backed
    <2> QED
      BY <2>1, <2>2, <2>3 DEF LineInv, Thrown
  <1>2. LineInv /\ (IInv /\ WakeInv /\ CloseInv) /\ [Next]_vars => LineInv'
    <2> SUFFICES ASSUME LineInv, IInv, WakeInv, [Next]_vars PROVE LineInv'
      OBVIOUS
    <2>1. TypeOK
      BY DEF IInv
    <2>2. CASE LoopStep
      BY <2>1, <2>2, WorkerLines, SubmitLines, CallerLines DEF LoopStep
    <2>3. CASE Application
      BY <2>1, <2>3, SubmitLines, CallerLines, SignalLines DEF Application
    <2>4. CASE (\E w \in Workers : HandlerWakes(w)) \/ UNCHANGED vars
      BY <2>4, SignalLines
    <2> QED
      BY <2>2, <2>3, <2>4 DEF Next
  <1> QED
    BY <1>1, <1>2, CloseInvariant, PTL DEF Spec

\* With nothing unfinished no worker is in a handler, so no submit that was woken
\* is still to run, and those who sleep in put() would have been woken.
LEMMA NothingUnfinished ==
  ASSUME IInv, WakeInv, LineInv, unfinished = 0
  PROVE  Empty
  <1>1. items = <<>> /\ TypeOK /\ ready \in Seq(Tasks) /\ NoTask \notin Tasks
    BY NothingLeft, Kinds DEF IInv, LoopTypeOK
  <1>2. Busy = {}
    <2>1. \A w \in Busy : holding[w] \in Items /\ fate[holding[w]] = "taken"
      <3>1. \A w \in Busy : holding[w] \in WithFate({"taken"})
        BY DEF Busy, IInv, BooksInv, BooksBalance, EachItemOnce
      <3> QED
        BY <3>1 DEF WithFate
    <2> QED
      BY <2>1, NothingLeft
  <1>3. \A i \in Items : i \notin Scheduled
    <2>1. \A k \in DOMAIN ready : ready[k] \notin Items
      BY <1>2 DEF LineInv, Backed
    <2>2. running \notin Items
      BY <1>1, Kinds DEF WakeInv, LoopInv
    <2> QED
      BY <2>1, <2>2 DEF Scheduled, ToSet
  <1>4. \A i \in InPut : fut[i] = "pending"
    <2>1. \A i \in InPut : i \in Items /\ i \in Tasks /\ pc[i] = "putting"
      BY <1>1, Kinds DEF InPut
    <2> QED
      BY <1>3, <2>1 DEF WakeInv, LoopInv, Runnable
  <1>5. InPut = {}
    <2>1. Awake(InPut, fut) = {}
      BY <1>4 DEF Awake
    <2>2. Cardinality(Awake(InPut, fut)) = 0
      BY <2>1, FS_EmptySet
    <2>3. ~(MaxSize - Len(items) <= 0)
      BY <1>1, PoolAssumption
    <2>4. HandedOut(MaxSize - Len(items), InPut, fut)
      BY DEF WakeInv, PutPart
    <2> QED
      BY <1>4, <2>2, <2>3, <2>4 DEF HandedOut
  <1> QED
    BY <1>1, <1>5 DEF Empty, InPut

\* Whatever a drain leaves behind its join is closed and empty.
DrainInv ==
  \A c \in Callers : op[c] = "drain" /\ PastJoin(c) => closed /\ Empty

\* Nothing gets into a closed pool in which nobody waits to put.
LEMMA StaysEmpty ==
  ASSUME TypeOK, closed, Empty, [Next]_vars
  PROVE  closed' /\ Empty'
  <1>1. DOMAIN pc = Tasks /\ \A i \in Items : i \in Tasks
    BY Kinds
  <1>2. closed'
    BY DEF Next, LoopStep, Application, WorkerStep, WorkerWaits, WorkerTakes, HandlerReturns,
           HandlerRaises, HandlerCancelled, GetterCancelled, SubmitStep, PutterWakes,
           PutterCancelled, CallerStep, JoinerWakes, GatherCompletes, CloseReturns,
           CallerCancelled, Start, Refuse, Submit, TrySubmit, Call, Cancel, HandlerWakes,
           groupVars, vars
  <1>3. ASSUME NEW i \in Items, SubmitStep(i) \/ Refuse(i) \/ Submit(i) \/ TrySubmit(i)
        PROVE  Empty'
    BY <1>1, <1>3 DEF SubmitStep, PutterWakes, PutterCancelled, Submit, TrySubmit, Accepting,
                      Refuse, Empty, queueVars
  <1>4. ASSUME NEW t \in Tasks, t \notin Items, NEW s, pc' = pc \/ pc' = [pc EXCEPT ![t] = s],
               items' = items
        PROVE  Empty'
    BY <1>1, <1>4 DEF Empty
  <1>5. ASSUME NEW w \in Workers, WorkerStep(w) \/ HandlerWakes(w) PROVE Empty'
    <2>1. items' = items
      BY <1>5 DEF Empty, WorkerStep, WorkerWaits, WorkerTakes, HandlerReturns, HandlerRaises,
                  HandlerCancelled, GetterCancelled, HandlerWakes, queueVars
    <2>2. pc' = pc \/ \E s : pc' = [pc EXCEPT ![w] = s]
      BY <1>5 DEF WorkerStep, WorkerWaits, WorkerTakes, HandlerReturns, HandlerRaises,
                  HandlerCancelled, GetterCancelled, HandlerWakes, WorkerStops
    <2> QED
      BY <1>4, <2>1, <2>2, Kinds
  <1>6. ASSUME NEW c \in Callers, CallerStep(c) \/ \E what \in Operations : Call(c, what)
        PROVE  Empty'
    <2>1. items' = items
      BY <1>6 DEF CallerStep, JoinerWakes, GatherCompletes, CloseReturns, CallerCancelled, Call,
                  queueVars
    <2>2. \E s : pc' = [pc EXCEPT ![c] = s]
      BY <1>6 DEF CallerStep, JoinerWakes, GatherCompletes, CloseReturns, CallerCancelled, Call,
                  CancelAndGather
    <2> QED
      BY <1>4, <2>1, <2>2, Kinds
  <1>7. CASE Start
    BY <1>1, <1>7 DEF Start, Empty, queueVars
  <1>8. CASE (\E t \in Cancellable : Cancel(t)) \/ UNCHANGED vars
    <2>1. items' = items /\ pc' = pc
      BY <1>8 DEF Cancel, vars, queueVars
    <2> QED
      BY <1>2, <2>1 DEF Empty
  <1> QED
    BY <1>2, <1>3, <1>5, <1>6, <1>7, <1>8 DEF Next, LoopStep, Application

\* A step takes a drain past its join only when nothing is unfinished.
LEMMA DrainsPass ==
  ASSUME IInv, WakeInv, CloseInv, [Next]_vars, NEW c \in Callers,
         op'[c] = "drain", PastJoin(c)', ~(op[c] = "drain" /\ PastJoin(c))
  PROVE  unfinished' = 0
  <1>1. TypeOK /\ c \in Tasks /\ DOMAIN pc = Tasks /\ fut \in [Tasks -> FutureState]
        /\ op \in [Callers -> {"none"} \cup Operations]
    BY Kinds DEF IInv, TypeOK, LoopTypeOK
  <1>2. CASE CallersSit
    BY <1>2 DEF CallersSit, callVars, PastJoin
  <1>3. ASSUME NEW d \in Callers, CallerStep(d) \/ \E what \in Operations : Call(d, what)
        PROVE  unfinished' = 0
    <2>1. CASE d # c
      BY <1>1, <1>3, <2>1, CallersApart DEF PastJoin
    <2>2. CASE d = c /\ CallerStep(c)
      BY <1>1, <2>2, StepPasses
    <2>3. ASSUME d = c, NEW what \in Operations, Call(c, what) PROVE unfinished' = 0
      BY <1>1, <2>3, CallPasses
    <2> QED
      BY <1>3, <2>1, <2>2, <2>3
  <1> QED
    BY <1>1, <1>2, <1>3, OthersSit

\* aclose(drain=True), "the backlog is finished first": nothing is left in the
\* queue, and no submit is left waiting, once it has returned, if every handler
\* awaits something and no submit is cancelled.
THEOREM Draining ==
  ASSUME FALSE \notin HandlerSuspends, Cancellable \cap Items = {}
  PROVE  Spec => []DrainMeansEmpty
  <1>1. Orderly
    BY DEF Orderly
  <1>2. Spec => [](IInv /\ WakeInv /\ CloseInv /\ LineInv)
    BY <1>1, LineInvariant
  <1>3. IInv /\ WakeInv /\ LineInv => (unfinished = 0 => Empty)
    BY NothingUnfinished
  <1>4. Init => DrainInv
    BY DEF Init, DrainInv
  <1>5. /\ DrainInv /\ IInv /\ WakeInv /\ CloseInv /\ [Next]_vars
        /\ CloseInv' /\ (unfinished = 0 => Empty)'
        => DrainInv'
    <2> SUFFICES ASSUME DrainInv, IInv, WakeInv, CloseInv, [Next]_vars,
                        CloseInv', (unfinished = 0 => Empty)',
                        NEW c \in Callers, op'[c] = "drain", PastJoin(c)'
                 PROVE  closed' /\ Empty'
      BY DEF DrainInv
    <2>1. CASE op[c] = "drain" /\ PastJoin(c)
      BY <2>1, StaysEmpty DEF DrainInv, IInv
    <2>2. CASE ~(op[c] = "drain" /\ PastJoin(c))
      <3>1. Empty'
        BY <2>2, DrainsPass
      <3>2. closed'
        BY DEF CloseInv, CallsPart
      <3> QED
        BY <3>1, <3>2
    <2> QED
      BY <2>1, <2>2
  <1>6. IInv /\ WakeInv /\ DrainInv => DrainMeansEmpty
    <2> SUFFICES ASSUME IInv, WakeInv, DrainInv, NEW c \in Callers,
                        op[c] = "drain", pc[c] = "closed"
                 PROVE  items = <<>> /\ putters = <<>>
      BY DEF DrainMeansEmpty
    <2>1. Empty
      BY DEF DrainInv, PastJoin
    <2>2. ToSet(putters) = {}
      BY <2>1 DEF WakeInv, PutPart, Deque, InPut, Empty
    <2>3. putters \in Seq(Items) /\ DOMAIN putters = 1 .. Len(putters) /\ Len(putters) \in Nat
      BY DEF IInv, TypeOK
    <2>4. 1 \notin DOMAIN putters
      BY <2>2 DEF ToSet
    <2>5. Len(putters) = 0
      BY <2>3, <2>4
    <2>6. putters = <<>>
      BY <2>3, <2>5
    <2> QED
      BY <2>1, <2>6 DEF Empty
  <1> QED
    BY <1>2, <1>3, <1>4, <1>5, <1>6, PTL DEF Spec
=============================================================================
