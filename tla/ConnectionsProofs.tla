-------------------------- MODULE ConnectionsProofs --------------------------
(***************************************************************************)
(* No resource is lost or shared and nobody is stranded, in the pool or    *)
(* in the lock of Once, and one initializer makes the only result: for     *)
(* every set of clients and of resources, with every one of them cancelled *)
(* wherever it waits.                                                      *)
(***************************************************************************)
EXTENDS Connections, EventLoopProofs

Waiters == At("waiting")
Users == At("using")

\* c is inside run(), or waits to borrow.
InLock(c) == step[c] = "waiting"
InFactory(c) == step[c] = "factory"
Engaged(c) == InLock(c) \/ InFactory(c) \/ c \in Waiters

\* Every variable has its type.
Types ==
  /\ TypeOK
  /\ locked \in BOOLEAN
  /\ lockWaiters \in Seq(Clients)
  /\ done \in BOOLEAN
  /\ result \in Clients \cup {NoResult}
  /\ step \in [Clients -> {"idle", "waiting", "factory", "returned", "raised", "cancelled"}]
  /\ got \in [Clients -> Clients \cup {NoResult}]

\* A client borrows when run() has returned to it, so it waits in one place at
\* a time; it is scheduled while it is inside and its future is not pending.
PlaceInv ==
  /\ LoopNeat
  /\ \A c \in Clients :
       /\ pc[c] # "idle" => step[c] = "returned"
       /\ c \in Scheduled <=> Engaged(c) /\ fut[c] # "pending"
       /\ running = c => InFactory(c)
       /\ InLock(c) \/ c \in Waiters => fut[c] # "none"

\* Each resource is in one place, and the waiters are woken for the free ones.
PoolInv ==
  /\ NothingLostOrShared
  /\ Deque(getters, Waiters, fut)
  /\ HandedOut(Len(free), Waiters, fut)

\* The lock is held around the initializer.  Only the first of its deque may
\* have been woken, when the lock is free, and then it is not asleep.
LockInv ==
  /\ locked <=> \E c \in Clients : InFactory(c)
  /\ \A c, d \in Clients : InFactory(c) /\ InFactory(d) => c = d
  /\ Distinct(lockWaiters)
  /\ ToSet(lockWaiters) = {c \in Clients : InLock(c)}
  /\ \A k \in DOMAIN lockWaiters :
       fut[lockWaiters[k]] = "done" => ~locked /\ k = 1
  /\ ~locked /\ lockWaiters # <<>> => fut[Head(lockWaiters)] # "pending"

\* The one result there is, is what everybody gets.
ResultInv ==
  /\ done <=> result # NoResult
  /\ done => ~locked
  /\ \A c \in Clients :
       IF step[c] = "returned" THEN done /\ got[c] = result ELSE got[c] = NoResult

IInv == Types /\ PlaceInv /\ PoolInv /\ LockInv /\ ResultInv
USE BorrowAssumption, SetupAssumption DEF Setup!OnceAssumption

-----------------------------------------------------------------------------
(* The loop of Once is the loop of the pool *)

\* Each operator of the loop means the same in both.
LEMMA SameLoop ==
  /\ Setup!Idle <=> Idle
  /\ \A t : /\ Setup!Turn(t) <=> Turn(t)
            /\ Setup!Thrown(t) <=> Thrown(t)
            /\ Setup!Cancels(t) <=> Cancels(t)
            /\ Setup!Completes(t) <=> Completes(t)
  /\ \A t, woken, callbacks :
       /\ Setup!Suspends(t, woken) <=> Suspends(t, woken)
       /\ Setup!Continues(t, woken) <=> Continues(t, woken)
       /\ Setup!Ends(t, woken, callbacks) <=> Ends(t, woken, callbacks)
  /\ \A s, t : Setup!Dropped(s, t) = Dropped(s, t)
  <1>1. Setup!Idle <=> Idle
          BY DEF Setup!Idle, Idle
  <1>2. ASSUME NEW t
        PROVE  /\ Setup!Turn(t) <=> Turn(t)
               /\ Setup!Thrown(t) <=> Thrown(t)
               /\ Setup!Cancels(t) <=> Cancels(t)
               /\ Setup!Completes(t) <=> Completes(t)
               /\ Setup!Behind(t) = Behind(t)
    BY DEF Setup!Idle, Idle, Setup!Turn, Turn, Setup!Thrown, Thrown, Setup!Cancels, Cancels,
           Setup!Completes, Completes, Setup!Behind, Behind
  <1>3. ASSUME NEW t, NEW state, NEW woken, NEW callbacks
        PROVE  Setup!Advance(t, state, woken, callbacks) <=> Advance(t, state, woken, callbacks)
    <2>1. Setup!ToSet(woken) = ToSet(woken)
      BY DEF Setup!ToSet, ToSet
    <2> HIDE DEF Setup!ToSet, ToSet
    <2> QED
      BY <1>2, <2>1 DEF Setup!Advance, Advance
  <1>4. ASSUME NEW t, NEW woken, NEW callbacks
        PROVE  /\ Setup!Suspends(t, woken) <=> Suspends(t, woken)
               /\ Setup!Continues(t, woken) <=> Continues(t, woken)
               /\ Setup!Ends(t, woken, callbacks) <=> Ends(t, woken, callbacks)
    BY <1>3 DEF Setup!Suspends, Suspends, Setup!Continues, Continues, Setup!Ends, Ends
  <1>5. ASSUME NEW s, NEW t PROVE Setup!Dropped(s, t) = Dropped(s, t)
    <2>1. /\ Setup!ToSet(s) = ToSet(s)
          /\ \A k : Setup!RemoveAt(s, k) = RemoveAt(s, k)
      BY DEF Setup!ToSet, ToSet, Setup!RemoveAt, RemoveAt
    <2> QED
      BY <2>1 DEF Setup!Dropped, Dropped
  <1> QED
    BY <1>1, <1>2, <1>4, <1>5

\* Whom a release of the lock wakes.
LEMMA FirstIs ==
  ASSUME NEW s \in Seq(Clients)
  PROVE  \/ /\ Setup!FirstOf(s) = <<>>
            /\ s # <<>> => fut[Head(s)] # "pending"
         \/ /\ s # <<>> /\ fut[Head(s)] = "pending"
            /\ Setup!FirstOf(s) = <<Head(s)>> /\ Head(s) \in ToSet(s)
  <1>1. s # <<>> => Head(s) = s[1] /\ 1 \in DOMAIN s
    OBVIOUS
  <1> QED
    BY <1>1 DEF Setup!FirstOf, ToSet

-----------------------------------------------------------------------------
(* Clients and their places *)

\* The clients are tasks.
LEMMA Clientele ==
  /\ NoTask \notin Clients /\ IsFiniteSet(Clients)
  /\ Waiters \in SUBSET Clients /\ IsFiniteSet(Waiters)
  /\ Users \in SUBSET Clients /\ IsFiniteSet(Users)
  <1>1. Waiters \in SUBSET Clients /\ Users \in SUBSET Clients
    BY DEF Waiters, Users, At
  <1> QED
    BY <1>1, FS_Subset

\* A client that acts leaves its place or stays, and those it wakes are scheduled.
LEMMA MovePlaces ==
  ASSUME Types, PlaceInv, NEW t \in Clients, MayAct(t),
         NEW state \in FutureState, NEW woken \in Seq(Clients), Distinct(woken),
         \A x \in ToSet(woken) : x \in Clients \ {t} /\ Engaged(x) /\ fut[x] = "pending",
         Advance(t, state, woken, <<>>), running' \in {t, NoTask},
         \A x \in Clients \ {t} : pc'[x] = pc[x] /\ step'[x] = step[x],
         pc'[t] # "idle" => step'[t] = "returned",
         Engaged(t)' /\ state # "pending" <=> running' = t,
         running' = t => InFactory(t)',
         InLock(t)' \/ t \in Waiters' => state # "none"
  PROVE  PlaceInv' /\ LoopTypeOK(Clients)'
  <1>1. LoopTypeOK(Clients) /\ NoTask \notin Clients /\ LoopNeat
    BY DEF Types, TypeOK, PlaceInv
  <1>2. /\ <<>> \in Seq(Clients) /\ Distinct(<<>>) /\ ToSet(<<>>) = {}
    BY ShortDistinct
  <1>3. \A x \in ToSet(woken) : x \notin Scheduled
    BY DEF PlaceInv
  <1>4. /\ LoopNeat'
        /\ Scheduled' = (Scheduled \ {t}) \cup ToSet(woken) \cup ({running'} \ {NoTask})
    <2> DEFINE none == <<>>
    <2>1. /\ none \in Seq(Clients) /\ Distinct(none) /\ ToSet(none) = {}
          /\ Advance(t, state, woken, none)
      BY <1>2
    <2> HIDE DEF none
    <2>2. /\ ToSet(woken) \cap ToSet(none) = {} /\ ToSet(woken) \cap Scheduled = {}
          /\ ToSet(none) \cap Scheduled = {} /\ t \notin ToSet(woken) /\ t \notin ToSet(none)
      BY <1>3, <2>1
    <2>3. /\ LoopNeat'
          /\ Scheduled' = (Scheduled \ {t}) \cup ToSet(woken) \cup ToSet(none)
                             \cup ({running'} \ {NoTask})
      BY <1>1, <2>1, <2>2, AdvanceSchedules
    <2> QED
      BY <2>1, <2>3
  <1>5. \A x \in Clients : fut'[x] = IF x = t THEN state
                                     ELSE IF x \in ToSet(woken) THEN "done" ELSE fut[x]
    BY <1>1, AdvanceFutures
  <1>6. LoopTypeOK(Clients)'
    BY <1>1, <1>2, AdvanceType
  <1>7. \A x \in Clients \ {t} :
           /\ InLock(x)' <=> InLock(x)
           /\ InFactory(x)' <=> InFactory(x)
           /\ x \in Waiters' <=> x \in Waiters
           /\ Engaged(x)' <=> Engaged(x)
    BY DEF InLock, InFactory, Engaged, Waiters, At
  <1>8. ASSUME NEW x \in Clients
        PROVE  /\ pc'[x] # "idle" => step'[x] = "returned"
               /\ x \in Scheduled' <=> Engaged(x)' /\ fut'[x] # "pending"
               /\ running' = x => InFactory(x)'
               /\ InLock(x)' \/ x \in Waiters' => fut'[x] # "none"
    <2>1. CASE x = t
      <3>1. x \in Scheduled' <=> running' = t
        BY <1>1, <1>4, <2>1
      <3> QED
        BY <1>5, <2>1, <3>1
    <2>2. CASE x # t
      <3>1. x # running'
        BY <1>1, <2>2
      <3>2. /\ pc[x] # "idle" => step[x] = "returned"
            /\ x \in Scheduled <=> Engaged(x) /\ fut[x] # "pending"
            /\ InLock(x) \/ x \in Waiters => fut[x] # "none"
        BY DEF PlaceInv
      <3>3. x \in Scheduled' <=> x \in Scheduled \/ x \in ToSet(woken)
        BY <1>4, <2>2, <3>1
      <3> HIDE DEF Engaged
      <3> QED
        BY <1>5, <1>7, <2>2, <3>1, <3>2, <3>3
    <2> QED
      BY <2>1, <2>2
  <1> QED
    BY <1>4, <1>6, <1>8 DEF PlaceInv

\* Application code cancels a client where it waits, or completes what it awaits.
LEMMA SignalPlaces ==
  ASSUME Types, PlaceInv, NEW t \in Clients, Engaged(t),
         Completes(t) \/ Cancels(t), UNCHANGED <<pc, step>>
  PROVE  /\ PlaceInv' /\ LoopTypeOK(Clients)'
         /\ \A x \in Clients \ {t} : fut'[x] = fut[x]
         /\ \/ fut'[t] = fut[t]
            \/ fut[t] = "pending" /\ fut'[t] \in {"done", "cancelled"}
         /\ Cancels(t) /\ fut'[t] # fut[t] => fut'[t] = "cancelled"
  <1>1. LoopTypeOK(Clients) /\ NoTask \notin Clients /\ LoopNeat /\ Idle
    BY DEF Types, TypeOK, PlaceInv, Completes, Cancels
  <1>2. LoopTypeOK(Clients)'
    BY <1>1, CompletesType, CancelsType
  <1>3. \A x \in Clients :
           /\ InLock(x)' <=> InLock(x)
           /\ InFactory(x)' <=> InFactory(x)
           /\ x \in Waiters' <=> x \in Waiters
           /\ Engaged(x)' <=> Engaged(x)
    BY DEF InLock, InFactory, Engaged, Waiters, At
  <1>4. CASE /\ fut[t] = "pending" /\ ready' = Append(ready, t) /\ running' = running
             /\ \/ fut' = [fut EXCEPT ![t] = "done"] /\ Completes(t) /\ ~Cancels(t)
                \/ fut' = [fut EXCEPT ![t] = "cancelled"]
    <2>1. t \notin Scheduled
      BY <1>4 DEF PlaceInv
    <2>2. LoopNeat' /\ Scheduled' = Scheduled \cup {t}
      BY <1>1, <1>4, <2>1, SignalSchedules
    <2>3. /\ \A x \in Clients \ {t} : fut'[x] = fut[x]
          /\ fut'[t] \in {"done", "cancelled"} /\ (Cancels(t) => fut'[t] = "cancelled")
      BY <1>1, <1>4 DEF LoopTypeOK
    <2>4. PlaceInv'
      <3> HIDE DEF Engaged
      <3> QED
        BY <1>3, <1>4, <2>2, <2>3 DEF PlaceInv
    <2> QED
      BY <1>2, <1>4, <2>3, <2>4
  <1>5. CASE UNCHANGED <<ready, running, fut>>
    <2>1. LoopNeat' /\ Scheduled' = Scheduled
      BY <1>1, <1>5 DEF LoopNeat, Scheduled, Distinct
    <2>2. PlaceInv'
      <3> HIDE DEF Engaged
      <3> QED
        BY <1>3, <1>5, <2>1 DEF PlaceInv
    <2> QED
      BY <1>2, <1>5, <2>2
  <1> QED
    BY <1>1, <1>4, <1>5 DEF Completes, Cancels, LoopTypeOK

-----------------------------------------------------------------------------
(* The lock *)

\* Somebody in the deque who has been woken is the first of it.
LEMMA WokenIsFirst ==
  ASSUME Types, LockInv, NEW x \in Clients, InLock(x), fut[x] = "done"
  PROVE  ~locked /\ lockWaiters # <<>> /\ Head(lockWaiters) = x
  <1>1. x \in ToSet(lockWaiters) /\ lockWaiters \in Seq(Clients)
    BY DEF LockInv, Types
  <1>2. PICK k \in DOMAIN lockWaiters : lockWaiters[k] = x
    BY <1>1 DEF ToSet
  <1>3. ~locked /\ k = 1
    BY <1>2 DEF LockInv
  <1> QED
    BY <1>1, <1>2, <1>3

\* Nothing happens to the lock, and at most somebody in it is cancelled.
LEMMA LockStands ==
  ASSUME Types, LockInv, UNCHANGED <<locked, lockWaiters, step>>,
         \A x \in Clients : InLock(x) => \/ fut'[x] = fut[x]
                                         \/ fut[x] = "pending" /\ fut'[x] = "cancelled"
  PROVE  LockInv'
  <1>1. \A x \in Clients : (InLock(x)' <=> InLock(x)) /\ (InFactory(x)' <=> InFactory(x))
    BY DEF InLock, InFactory
  <1>2. \A k \in DOMAIN lockWaiters : lockWaiters[k] \in Clients /\ InLock(lockWaiters[k])
    <2>1. \A k \in DOMAIN lockWaiters : lockWaiters[k] \in ToSet(lockWaiters)
      BY DEF ToSet
    <2> QED
      BY <2>1 DEF LockInv
  <1>3. lockWaiters # <<>> => 1 \in DOMAIN lockWaiters /\ Head(lockWaiters) = lockWaiters[1]
    BY DEF Types
  <1>4. /\ Distinct(lockWaiters)'
        /\ ToSet(lockWaiters)' = {c \in Clients : InLock(c)'}
    BY <1>1 DEF LockInv, Distinct, ToSet
  <1>5. \A k \in DOMAIN lockWaiters' :
          fut'[lockWaiters'[k]] = "done" => ~locked' /\ k = 1
    BY <1>2 DEF LockInv
  <1>6. ~locked' /\ lockWaiters' # <<>> => fut'[Head(lockWaiters')] # "pending"
    BY <1>2, <1>3 DEF LockInv
  <1> QED
    BY <1>1, <1>4, <1>5, <1>6 DEF LockInv

\* Where everybody is in the deque, and what is left of it without t.
LEMMA LockWithout ==
  ASSUME Types, LockInv, NEW t \in Clients
  PROVE  LET rest == Dropped(lockWaiters, t)
         IN /\ rest \in Seq(Clients) /\ Distinct(rest)
            /\ ToSet(rest) = {c \in Clients \ {t} : InLock(c)}
            /\ \A k \in DOMAIN rest :
                 /\ rest[k] \in Clients \ {t} /\ InLock(rest[k])
                 /\ fut[rest[k]] = "done" => ~locked /\ k = 1
  <1> DEFINE rest == Dropped(lockWaiters, t)
  <1>1. rest \in Seq(Clients) /\ Distinct(rest) /\ ToSet(rest) = ToSet(lockWaiters) \ {t}
    BY DroppedDistinct DEF LockInv, Types
  <1>2. ToSet(rest) = {c \in Clients \ {t} : InLock(c)}
    BY <1>1 DEF LockInv
  <1>3. ASSUME NEW k \in DOMAIN rest
        PROVE  /\ rest[k] \in Clients \ {t} /\ InLock(rest[k])
               /\ fut[rest[k]] = "done" => ~locked /\ k = 1
    <2>1. rest[k] \in ToSet(rest)
      BY DEF ToSet
    <2> HIDE DEF rest
    <2>2. rest[k] \in Clients \ {t} /\ InLock(rest[k])
      BY <1>2, <2>1
    <2>3. ASSUME fut[rest[k]] = "done" PROVE ~locked /\ k = 1
      <3>1. ~locked /\ lockWaiters # <<>> /\ Head(lockWaiters) = rest[k]
        BY <2>2, <2>3, WokenIsFirst
      <3>2. rest # <<>> /\ Head(rest) = rest[k]
        BY <2>2, <3>1, DroppedHead DEF Types, rest
      <3>3. 1 \in DOMAIN rest /\ rest[1] = rest[k]
        BY <1>1, <3>2
      <3> QED
        BY <1>1, <3>1, <3>3 DEF Distinct
    <2> QED
      BY <2>2, <2>3
  <1> QED
    BY <1>1, <1>2, <1>3

\* t leaves the deque or the initializer, and wakes the first of the others
\* unless the lock stays taken.
LEMMA LockLeaves ==
  ASSUME Types, LockInv, NEW t \in Clients,
         InFactory(t) \/ (InLock(t) /\ fut[t] # "pending"),
         locked' = (locked /\ ~InFactory(t)),
         lockWaiters' = Dropped(lockWaiters, t),
         NEW woken, woken = IF locked' THEN <<>> ELSE Setup!FirstOf(Dropped(lockWaiters, t)),
         Advance(t, "none", woken, <<>>),
         \A x \in Clients \ {t} : step'[x] = step[x],
         ~InLock(t)', ~InFactory(t)'
  PROVE  LockInv'
  <1> DEFINE rest == Dropped(lockWaiters, t)
  <1>1. /\ rest \in Seq(Clients) /\ Distinct(rest)
        /\ ToSet(rest) = {c \in Clients \ {t} : InLock(c)}
        /\ \A k \in DOMAIN rest :
             /\ rest[k] \in Clients \ {t} /\ InLock(rest[k])
             /\ fut[rest[k]] = "done" => ~locked /\ k = 1
    BY LockWithout
  <1>2. lockWaiters' = rest /\ woken = IF locked' THEN <<>> ELSE Setup!FirstOf(rest)
    OBVIOUS
  <1> HIDE DEF rest
  <1>3. \A x \in Clients \ {t} : (InLock(x)' <=> InLock(x)) /\ (InFactory(x)' <=> InFactory(x))
    BY DEF InLock, InFactory
  <1>4. \A x \in Clients \ {t} : fut'[x] = IF x \in ToSet(woken) THEN "done" ELSE fut[x]
    BY AdvanceFutures DEF Types, TypeOK
  <1>5. /\ locked' <=> \E c \in Clients : InFactory(c)'
        /\ \A c, d \in Clients : InFactory(c)' /\ InFactory(d)' => c = d
    BY <1>3 DEF LockInv
  <1>6. Distinct(lockWaiters)' /\ ToSet(lockWaiters)' = {c \in Clients : InLock(c)'}
    <2>1. Distinct(lockWaiters)' /\ ToSet(lockWaiters)' = ToSet(rest)
      BY <1>1, <1>2 DEF Distinct, ToSet
    <2> QED
      BY <1>1, <1>3, <2>1
  <1>7. rest # <<>> => 1 \in DOMAIN rest /\ Head(rest) = rest[1]
    BY <1>1
  <1>8. CASE woken = <<>> /\ (locked' \/ (rest # <<>> => fut[Head(rest)] # "pending"))
    <2>1. \A x \in Clients \ {t} : fut'[x] = fut[x]
      BY <1>4, <1>8, ShortDistinct
    <2>2. \A k \in DOMAIN rest : fut'[rest[k]] = "done" => ~locked' /\ k = 1
      BY <1>1, <2>1
    <2>3. ~locked' /\ rest # <<>> => fut'[Head(rest)] # "pending"
      BY <1>1, <1>7, <1>8, <2>1
    <2> QED
      BY <1>2, <1>5, <1>6, <2>2, <2>3 DEF LockInv
  <1>9. CASE ~locked' /\ rest # <<>> /\ woken = <<Head(rest)>>
    <2>1. ToSet(woken) = {rest[1]}
      BY <1>7, <1>9, ShortDistinct
    <2>2. \A k \in DOMAIN rest : fut'[rest[k]] = "done" => k = 1
      <3> SUFFICES ASSUME NEW k \in DOMAIN rest, fut'[rest[k]] = "done" PROVE k = 1
        OBVIOUS
      <3>1. rest[k] = rest[1] \/ fut[rest[k]] = "done"
        BY <1>1, <1>4, <2>1
      <3> QED
        BY <1>1, <1>7, <1>9, <3>1 DEF Distinct
    <2>3. fut'[Head(rest)] # "pending"
      BY <1>1, <1>4, <1>7, <1>9, <2>1
    <2> QED
      BY <1>2, <1>5, <1>6, <1>9, <2>2, <2>3 DEF LockInv
  <1> QED
    BY <1>1, <1>2, <1>8, <1>9, FirstIs

\* t takes the lock, the only one who has been woken for it.
LEMMA LockTaken ==
  ASSUME Types, LockInv, NEW t \in Clients, ~locked,
         \A x \in Clients \ {t} : InLock(x) => fut[x] # "done",
         locked' = TRUE, lockWaiters' = Dropped(lockWaiters, t),
         NEW state, Advance(t, state, <<>>, <<>>),
         \A x \in Clients \ {t} : step'[x] = step[x], InFactory(t)'
  PROVE  LockInv'
  <1> DEFINE rest == Dropped(lockWaiters, t)
  <1>1. /\ rest \in Seq(Clients) /\ Distinct(rest)
        /\ ToSet(rest) = {c \in Clients \ {t} : InLock(c)}
        /\ \A k \in DOMAIN rest : rest[k] \in Clients \ {t} /\ InLock(rest[k])
    BY LockWithout
  <1>2. lockWaiters' = rest
    OBVIOUS
  <1> HIDE DEF rest
  <1>3. /\ \A x \in Clients \ {t} : (InLock(x)' <=> InLock(x)) /\ (InFactory(x)' <=> InFactory(x))
        /\ ~InLock(t)'
    BY DEF InLock, InFactory
  <1>4. \A x \in Clients \ {t} : fut'[x] = fut[x]
    <2>1. \A x \in Clients : fut'[x] = IF x = t THEN state
                                       ELSE IF x \in ToSet(<<>>) THEN "done" ELSE fut[x]
      BY AdvanceFutures DEF Types, TypeOK
    <2> QED
      BY <2>1, ShortDistinct
  <1>5. Distinct(lockWaiters)' /\ ToSet(lockWaiters)' = {c \in Clients : InLock(c)'}
    <2>1. Distinct(lockWaiters)' /\ ToSet(lockWaiters)' = ToSet(rest)
      BY <1>1, <1>2 DEF Distinct, ToSet
    <2> QED
      BY <1>1, <1>3, <2>1
  <1>6. \A c \in Clients : InFactory(c)' => c = t
    BY <1>3 DEF LockInv
  <1>7. \A k \in DOMAIN lockWaiters' : fut'[lockWaiters'[k]] # "done"
    BY <1>1, <1>2, <1>4
  <1> QED
    BY <1>5, <1>6, <1>7 DEF LockInv

\* t waits at the end of the deque, behind somebody who has been woken if the
\* lock is free.
LEMMA LockQueued ==
  ASSUME Types, LockInv, NEW t \in Clients, ~InLock(t), ~InFactory(t), ~Setup!MayBarge,
         locked' = locked, lockWaiters' = Append(lockWaiters, t),
         Advance(t, "pending", <<>>, <<>>),
         \A x \in Clients \ {t} : step'[x] = step[x], InLock(t)'
  PROVE  LockInv'
  <1>1. /\ lockWaiters \in Seq(Clients) /\ Distinct(lockWaiters)
        /\ ToSet(lockWaiters) = {c \in Clients : InLock(c)}
    BY DEF LockInv, Types
  <1>2. /\ lockWaiters' \in Seq(Clients) /\ Distinct(lockWaiters')
        /\ ToSet(lockWaiters') = ToSet(lockWaiters) \cup {t}
    BY <1>1, AppendDistinct
  <1>3. /\ \A x \in Clients \ {t} : (InLock(x)' <=> InLock(x)) /\ (InFactory(x)' <=> InFactory(x))
        /\ ~InFactory(t)'
    BY DEF InLock, InFactory
  <1>4. fut'[t] = "pending" /\ \A x \in Clients \ {t} : fut'[x] = fut[x]
    <2>1. \A x \in Clients : fut'[x] = IF x = t THEN "pending"
                                       ELSE IF x \in ToSet(<<>>) THEN "done" ELSE fut[x]
      BY AdvanceFutures DEF Types, TypeOK
    <2> QED
      BY <2>1, ShortDistinct
  <1>5. \A k \in DOMAIN lockWaiters : lockWaiters[k] \in Clients \ {t}
    <2>1. \A k \in DOMAIN lockWaiters : lockWaiters[k] \in ToSet(lockWaiters)
      BY DEF ToSet
    <2> QED
      BY <1>1, <2>1
  <1>6. \A k \in DOMAIN lockWaiters' :
          \/ k \in DOMAIN lockWaiters /\ lockWaiters'[k] = lockWaiters[k]
          \/ lockWaiters'[k] = t
    BY <1>1
  <1>7. ToSet(lockWaiters') = {c \in Clients : InLock(c)'}
    BY <1>1, <1>2, <1>3
  <1>8. \A k \in DOMAIN lockWaiters' : fut'[lockWaiters'[k]] = "done" => ~locked' /\ k = 1
    BY <1>4, <1>5, <1>6 DEF LockInv
  <1>9. ~locked' => fut'[Head(lockWaiters')] # "pending"
    <2> SUFFICES ASSUME ~locked PROVE fut'[Head(lockWaiters')] # "pending"
      OBVIOUS
    <2>1. lockWaiters # <<>>
      BY DEF Setup!MayBarge
    <2>2. /\ Head(lockWaiters') = lockWaiters[1] /\ Head(lockWaiters) = lockWaiters[1]
          /\ 1 \in DOMAIN lockWaiters
      BY <1>1, <2>1
    <2> QED
      BY <1>4, <1>5, <2>1, <2>2 DEF LockInv
  <1>10. Distinct(lockWaiters)' /\ ToSet(lockWaiters)' = {c \in Clients : InLock(c)'}
    BY <1>2, <1>7 DEF Distinct, ToSet
  <1>11. /\ locked' <=> \E c \in Clients : InFactory(c)'
         /\ \A c, d \in Clients : InFactory(c)' /\ InFactory(d)' => c = d
    BY <1>3 DEF LockInv
  <1> QED
    BY <1>8, <1>9, <1>10, <1>11 DEF LockInv

-----------------------------------------------------------------------------
(* The pool *)

\* The smaller and the larger of two numbers.
LEMMA OfTwo ==
  ASSUME NEW m \in Int, NEW n \in Int
  PROVE  /\ Min({m, n}) = IF m <= n THEN m ELSE n
         /\ Max({m, n}) = IF m >= n THEN m ELSE n
  BY DEF Min, Max

\* The last of a queue is taken off.
LEMMA FrontIs ==
  ASSUME NEW s \in Seq(Resources), s # <<>>
  PROVE  /\ Front(s) \in Seq(Resources) /\ Len(Front(s)) = Len(s) - 1
         /\ Last(s) \in Resources /\ ToSet(s) = ToSet(Front(s)) \cup {Last(s)}
  <1> DEFINE n == Len(s)
             front == SubSeq(s, 1, n - 1)
  <1>1. n \in Nat /\ n >= 1 /\ DOMAIN s = 1 .. n /\ n \in 1 .. n
    OBVIOUS
  <1>2. \A k \in 1 .. (n - 1) : k \in 1 .. n /\ s[k] \in Resources
    BY <1>1
  <1>3. /\ front \in Seq(Resources) /\ Len(front) = n - 1
        /\ \A k \in 1 .. (n - 1) : front[k] = s[k]
    BY <1>1, <1>2, SubSeqProperties
  <1>4. DOMAIN front = 1 .. (n - 1)
    BY <1>3
  <1>5. Front(s) = front /\ Last(s) = s[n]
    BY DEF Front, Last
  <1> HIDE DEF n, front
  <1>6. \A k \in 1 .. n : k = n \/ k \in 1 .. (n - 1)
    BY <1>1
  <1>7. ToSet(s) \subseteq ToSet(front) \cup {s[n]}
    BY <1>1, <1>3, <1>4, <1>6 DEF ToSet
  <1>8. ToSet(front) \subseteq ToSet(s) /\ s[n] \in ToSet(s)
    BY <1>1, <1>2, <1>3, <1>4 DEF ToSet
  <1>9. s[n] \in Resources
    BY <1>1
  <1> QED
    BY <1>1, <1>3, <1>5, <1>7, <1>8, <1>9 DEF n

\* A resource changes hands: it leaves the queue for c, or c's returns to it.
LEMMA Handed ==
  ASSUME Types, NothingLostOrShared, NEW c \in Clients,
         resource' \in [Clients -> Resources \cup {NoResource}],
         \A x \in Clients \ {c} : pc'[x] = pc[x] /\ resource'[x] = resource[x],
         pc' \in [Clients -> {"idle", "waiting", "using"}],
         \/ /\ pc[c] # "using" /\ free # <<>> /\ pc'[c] = "using"
            /\ free' = Front(free) /\ resource'[c] = Last(free)
            /\ in_use' = in_use + 1 /\ peak_in_use' = Max({peak_in_use, in_use + 1})
         \/ /\ pc[c] = "using" /\ pc'[c] # "using"
            /\ free' = Append(free, resource[c])
            /\ in_use' = in_use - 1 /\ peak_in_use' = peak_in_use
  PROVE  /\ NothingLostOrShared'
         /\ free' \in Seq(Resources)
         /\ in_use' \in 0 .. Cardinality(Resources)
         /\ peak_in_use' \in 0 .. Cardinality(Resources)
  <1> DEFINE n == Cardinality(Resources)
             m == Cardinality(Clients)
             has == {resource[x] : x \in Users}
             hasNow == {resource'[x] : x \in Users'}
  <1>1. /\ free \in Seq(Resources) /\ n \in Nat /\ m \in Nat
        /\ in_use \in Nat /\ peak_in_use \in Nat /\ Len(free) \in Nat
    BY FS_CardinalityType DEF Types, TypeOK
  <1>2. /\ Len(free) + Cardinality(Users) = n
        /\ ToSet(free) \cup has = Resources
        /\ in_use = Cardinality(Users) /\ in_use <= peak_in_use
        /\ peak_in_use <= (IF m <= n THEN m ELSE n)
    BY <1>1, OfTwo DEF NothingLostOrShared, NothingLost, CountersExact, Users
  <1>3. /\ IsFiniteSet(Users) /\ Users \subseteq Clients /\ Cardinality(Users) \in Nat
        /\ IsFiniteSet(Users') /\ Users' \subseteq Clients /\ Cardinality(Users') \in Nat
        /\ Cardinality(Users') <= m
    <2>1. Users \subseteq Clients /\ Users' \subseteq Clients
      BY DEF Users, At
    <2>2. IsFiniteSet(Users) /\ IsFiniteSet(Users') /\ Cardinality(Users') <= m
      BY <2>1, FS_Subset
    <2> QED
      BY <2>1, <2>2, FS_CardinalityType
  <1>4. /\ free' \in Seq(Resources) /\ Len(free') \in Nat
        /\ Len(free') + Cardinality(Users') = n
        /\ ToSet(free') \cup hasNow = Resources
        /\ in_use' = Cardinality(Users')
        /\ peak_in_use' = IF peak_in_use >= in_use' THEN peak_in_use ELSE in_use'
    <2>1. CASE /\ pc[c] # "using" /\ free # <<>> /\ pc'[c] = "using"
               /\ free' = Front(free) /\ resource'[c] = Last(free)
               /\ in_use' = in_use + 1 /\ peak_in_use' = Max({peak_in_use, in_use + 1})
      <3>1. Users' = Users \cup {c} /\ c \notin Users
        BY <2>1 DEF Users, At
      <3>2. Cardinality(Users') = Cardinality(Users) + 1
        BY <1>3, <3>1, CountOne
      <3>3. /\ Front(free) \in Seq(Resources) /\ Len(Front(free)) = Len(free) - 1
            /\ ToSet(free) = ToSet(Front(free)) \cup {Last(free)}
        BY <1>1, <2>1, FrontIs
      <3>4. hasNow = has \cup {Last(free)}
        <4>1. \A x \in Users : x # c /\ resource'[x] = resource[x]
          BY <1>3, <3>1
        <4> QED
          BY <2>1, <3>1, <4>1
      <3> HIDE DEF has, hasNow
      <3>5. ToSet(free') \cup hasNow = Resources
        BY <1>2, <2>1, <3>3, <3>4
      <3>6. Len(free') \in Nat /\ Len(free') = Len(free) - 1
        BY <2>1, <3>3
      <3>7. peak_in_use' = IF peak_in_use >= in_use + 1 THEN peak_in_use ELSE in_use + 1
        <4>1. in_use + 1 \in Int /\ peak_in_use \in Int
          BY <1>1
        <4> QED
          BY <2>1, <4>1, OfTwo
      <3> HIDE DEF n, m
      <3>8. in_use' = Cardinality(Users')
        BY <1>2, <2>1, <3>2
      <3>9. Len(free') + Cardinality(Users') = n
        BY <1>1, <1>2, <1>3, <3>2, <3>6
      <3>10. free' \in Seq(Resources)
        BY <2>1, <3>3
      <3> QED
        BY <2>1, <3>5, <3>6, <3>7, <3>8, <3>9, <3>10
    <2>2. CASE /\ pc[c] = "using" /\ pc'[c] # "using"
               /\ free' = Append(free, resource[c])
               /\ in_use' = in_use - 1 /\ peak_in_use' = peak_in_use
      <3>1. Users' = Users \ {c} /\ c \in Users
        BY <2>2 DEF Users, At
      <3>2. Cardinality(Users') = Cardinality(Users) - 1
        BY <1>3, <3>1, CountOne
      <3>3. resource[c] \in Resources
        BY <1>2, <3>1
      <3>4. /\ free' \in Seq(Resources) /\ Len(free') = Len(free) + 1
            /\ ToSet(free') = ToSet(free) \cup {resource[c]}
        BY <1>1, <2>2, <3>3, AppendDistinct
      <3>5. hasNow \cup {resource[c]} = has
        <4>1. \A x \in Users \ {c} : resource'[x] = resource[x]
          BY <1>3
        <4> QED
          BY <3>1, <4>1
      <3> HIDE DEF has, hasNow
      <3>6. ToSet(free') \cup hasNow = Resources
        BY <1>2, <3>4, <3>5
      <3> HIDE DEF n, m
      <3>7. in_use' = Cardinality(Users') /\ in_use' \in Nat
        BY <1>2, <1>3, <2>2, <3>2
      <3>8. Len(free') \in Nat /\ Len(free') + Cardinality(Users') = n
        BY <1>1, <1>2, <1>3, <3>2, <3>4
      <3>9. peak_in_use' = IF peak_in_use >= in_use' THEN peak_in_use ELSE in_use'
        BY <1>1, <1>2, <1>3, <2>2, <3>2
      <3> QED
        BY <3>4, <3>6, <3>7, <3>8, <3>9
    <2> QED
      BY <2>1, <2>2
  <1> HIDE DEF n, m, has
  <1>5. /\ in_use' <= peak_in_use' /\ peak_in_use' <= (IF m <= n THEN m ELSE n)
        /\ in_use' \in Nat /\ peak_in_use' \in Nat /\ in_use' <= n /\ peak_in_use' <= n
    BY <1>1, <1>2, <1>3, <1>4
  <1>6. NothingLost'
    BY <1>4 DEF NothingLost, Users, n
  <1>7. CountersExact'
    BY <1>1, <1>4, <1>5, OfTwo DEF CountersExact, Users, n, m
  <1> QED
    BY <1>1, <1>4, <1>5, <1>6, <1>7 DEF NothingLostOrShared, n

\* Nothing happens to the pool, and at most somebody in it is cancelled.
LEMMA PoolStands ==
  ASSUME Types, PoolInv, UNCHANGED poolVars,
         \A x \in Waiters : \/ fut'[x] = fut[x]
                            \/ fut[x] = "pending" /\ fut'[x] = "cancelled"
  PROVE  PoolInv'
  <1>1. /\ Waiters' = Waiters /\ IsFiniteSet(Waiters) /\ NothingLostOrShared'
        /\ getters' = getters /\ free' = free
    BY Clientele DEF poolVars, PoolInv, NothingLostOrShared, NothingLost, CountersExact, At, Waiters
  <1>2. Len(free) \in Int /\ Len(free) <= Len(free)
    BY DEF Types, TypeOK
  <1>3. Deque(getters, Waiters, fut') /\ HandedOut(Len(free), Waiters, fut')
    BY <1>1, <1>2, HandoverStands DEF PoolInv
  <1> QED
    BY <1>1, <1>3 DEF PoolInv

-----------------------------------------------------------------------------
(* The steps of the pool *)

\* Whoever has a turn is scheduled.
LEMMA TurnIs ==
  ASSUME Types, NEW t \in Clients, Turn(t)
  PROVE  t \in Scheduled /\ MayAct(t)
  <1>1. t # NoTask
    OBVIOUS
  <1>2. ready # <<>> => Head(ready) \in ToSet(ready)
    <2> SUFFICES ASSUME ready # <<>> PROVE Head(ready) \in ToSet(ready)
      OBVIOUS
    <2>1. Head(ready) = ready[1] /\ 1 \in DOMAIN ready
      BY DEF Types, TypeOK, LoopTypeOK
    <2> QED
      BY <2>1 DEF ToSet
  <1> QED
    BY <1>1, <1>2 DEF Turn, Scheduled, MayAct

\* A step of the pool leaves Once alone.
LEMMA SetupStands ==
  ASSUME Types, LockInv, ResultInv, UNCHANGED setupVars,
         \A x \in Clients : InLock(x) => \/ fut'[x] = fut[x]
                                         \/ fut[x] = "pending" /\ fut'[x] = "cancelled"
  PROVE  LockInv' /\ ResultInv'
  <1>1. UNCHANGED <<locked, lockWaiters, step>>
    BY DEF setupVars
  <1>2. LockInv'
    BY <1>1, LockStands
  <1>3. ResultInv'
    BY DEF setupVars, ResultInv
  <1> QED
    BY <1>2, <1>3

\* A client of the pool moves, in its turn or in a call of its own.
LEMMA BorrowerMoves ==
  ASSUME IInv, UNCHANGED setupVars, NEW c \in Clients, step[c] = "returned",
         \/ Idle /\ pc[c] # "waiting"
         \/ Turn(c) /\ pc[c] = "waiting",
         NEW place \in {"idle", "waiting", "using"}, Moves(c, place),
         NEW state, state = (IF place = "waiting" THEN "pending" ELSE "none"),
         NEW woken \in Seq(Clients), Distinct(woken),
         \A x \in ToSet(woken) : x \in Waiters \ {c} /\ fut[x] = "pending",
         Advance(c, state, woken, <<>>), running' = NoTask
  PROVE  /\ PlaceInv' /\ LoopTypeOK(Clients)' /\ LockInv' /\ ResultInv'
         /\ pc' \in [Clients -> {"idle", "waiting", "using"}] /\ pc'[c] = place
         /\ \A x \in Clients \ {c} : pc'[x] = pc[x]
  <1>1. /\ pc' \in [Clients -> {"idle", "waiting", "using"}] /\ pc'[c] = place
        /\ \A x \in Clients \ {c} : pc'[x] = pc[x]
        /\ step' = step
    BY DEF IInv, Types, TypeOK, Moves, setupVars
  <1>2. /\ ~InLock(c)' /\ ~InFactory(c)' /\ (c \in Waiters' <=> place = "waiting")
        /\ ~InLock(c) /\ ~InFactory(c)
    BY <1>1 DEF InLock, InFactory, Waiters, At
  <1>3. Engaged(c)' <=> place = "waiting"
    BY <1>2 DEF Engaged
  <1>4. MayAct(c)
    <2>1. CASE Turn(c)
      BY <2>1, TurnIs DEF IInv
    <2>2. CASE Idle /\ pc[c] # "waiting"
      <3>1. ~Engaged(c)
        BY <1>2, <2>2 DEF Engaged, Waiters, At
      <3> QED
        BY <2>2, <3>1 DEF MayAct, IInv, PlaceInv
    <2> QED
      BY <2>1, <2>2
  <1>5. \A x \in ToSet(woken) : x \in Clients \ {c} /\ Engaged(x) /\ fut[x] = "pending"
    BY DEF Engaged, Waiters, At
  <1>6. \A x \in Clients : InLock(x) => fut'[x] = fut[x]
    <2>1. \A x \in Clients : fut'[x] = IF x = c THEN state
                                       ELSE IF x \in ToSet(woken) THEN "done" ELSE fut[x]
      BY AdvanceFutures DEF IInv, Types, TypeOK
    <2>2. \A x \in Clients : InLock(x) => x # c /\ x \notin ToSet(woken)
      BY <1>2 DEF IInv, PlaceInv, InLock, Waiters, At
    <2> QED
      BY <2>1, <2>2
  <1>7. LockInv' /\ ResultInv'
    BY <1>6, SetupStands DEF IInv
  <1>8. PlaceInv' /\ LoopTypeOK(Clients)'
    <2>1. /\ state \in FutureState /\ running' \in {c, NoTask} /\ running' # c
          /\ ~(Engaged(c)' /\ state # "pending")
          /\ c \in Waiters' => state # "none"
      BY <1>2, <1>3 DEF FutureState
    <2>2. /\ \A x \in Clients \ {c} : pc'[x] = pc[x] /\ step'[x] = step[x]
          /\ step'[c] = "returned"
      BY <1>1
    <2> QED
      BY <1>2, <1>4, <1>5, <2>1, <2>2, MovePlaces DEF IInv
  <1> QED
    BY <1>1, <1>7, <1>8

\* What is left to prove of a step of the pool.
LEMMA PoolKept ==
  ASSUME IInv, UNCHANGED setupVars, PlaceInv', LoopTypeOK(Clients)', LockInv', ResultInv',
         PoolInv',
         pc' \in [Clients -> {"idle", "waiting", "using"}],
         free' \in Seq(Resources), getters' \in Seq(Clients),
         in_use' \in 0 .. Cardinality(Resources), peak_in_use' \in 0 .. Cardinality(Resources),
         resource' \in [Clients -> Resources \cup {NoResource}]
  PROVE  IInv'
  BY DEF IInv, Types, TypeOK, setupVars

\* Nobody new, and nobody less, has a resource.
LEMMA CountsStand ==
  ASSUME IInv, NEW c \in Clients, pc[c] # "using", pc'[c] # "using",
         \A x \in Clients \ {c} : pc'[x] = pc[x],
         UNCHANGED <<free, in_use, peak_in_use, resource>>
  PROVE  NothingLostOrShared'
  <1>1. Users' = Users
    BY DEF Users, At
  <1> QED
    BY <1>1 DEF IInv, PoolInv, NothingLostOrShared, NothingLost, CountersExact, Users

\* acquire, at each of its looks at the queue.
LEMMA TakeOrWaitSafe ==
  ASSUME IInv, UNCHANGED setupVars, NEW c \in Clients, step[c] = "returned", TakeOrWait(c),
         \/ Idle /\ pc[c] = "idle"
         \/ Turn(c) /\ pc[c] = "waiting" /\ ~Thrown(c)
  PROVE  IInv'
  <1> DEFINE none == <<>>
  <1>1. none \in Seq(Clients) /\ Distinct(none) /\ ToSet(none) = {}
    BY ShortDistinct
  <1>2. /\ Types /\ LoopTypeOK(Clients) /\ getters \in Seq(Clients) /\ free \in Seq(Resources)
        /\ Waiters \in SUBSET Clients /\ IsFiniteSet(Waiters)
        /\ Deque(getters, Waiters, fut) /\ HandedOut(Len(free), Waiters, fut)
        /\ NothingLostOrShared
    BY Clientele DEF IInv, Types, TypeOK, PoolInv
  <1>3. c \in Waiters <=> pc[c] = "waiting"
    BY DEF Waiters, At
  <1>4. c \notin ToSet(getters) /\ (c \in Waiters => fut[c] # "pending")
    <2>1. CASE pc[c] = "waiting"
      <3>1. fut[c] # "pending" /\ fut[c] # "cancelled"
        BY <1>3, <2>1, TurnIs DEF IInv, PlaceInv, Thrown
      <3> QED
        BY <1>2, <3>1 DEF Deque
    <2>2. CASE pc[c] # "waiting"
      BY <1>2, <1>3, <2>2 DEF Deque
    <2> QED
      BY <2>1, <2>2
  <1>5. Len(free) \in Nat /\ Dropped(getters, c) = getters
    BY <1>2, <1>4, DroppedStranger
  <1>6. CASE free = <<>>
    <2>1. /\ getters' = Append(getters, c) /\ Moves(c, "waiting")
          /\ Advance(c, "pending", none, <<>>) /\ running' = NoTask
          /\ UNCHANGED <<free, in_use, peak_in_use, resource>>
      BY <1>6 DEF TakeOrWait, Suspends
    <2> HIDE DEF none
    <2>2. /\ PlaceInv' /\ LoopTypeOK(Clients)' /\ LockInv' /\ ResultInv'
          /\ pc' \in [Clients -> {"idle", "waiting", "using"}] /\ pc'[c] = "waiting"
          /\ \A x \in Clients \ {c} : pc'[x] = pc[x]
      BY <1>1, <2>1, BorrowerMoves
    <2>3. Waiters' = Waiters \cup {c}
      BY <2>2 DEF Waiters, At
    <2>4. Deque(Append(getters, c), Waiters \cup {c}, fut') /\ HandedOut(0, Waiters \cup {c}, fut')
      <3>1. ToSet(none) \cap Waiters = {} /\ 0 \in Int /\ 0 <= 0
        BY <1>1
      <3> QED
        BY <1>2, <1>4, <2>1, <3>1, HandoverSleeps
    <2>5. Len(free') = 0 /\ getters' \in Seq(Clients)
      BY <1>2, <1>6, <2>1
    <2>6. NothingLostOrShared'
      BY <2>1, <2>2, CountsStand
    <2>7. PoolInv'
      BY <2>1, <2>3, <2>4, <2>5, <2>6 DEF PoolInv
    <2> QED
      BY <2>1, <2>2, <2>5, <2>7, PoolKept DEF IInv, Types, TypeOK
  <1>7. CASE free # <<>>
    <2>1. /\ free' = Front(free) /\ resource' = [resource EXCEPT ![c] = Last(free)]
          /\ in_use' = in_use + 1 /\ peak_in_use' = Max({peak_in_use, in_use + 1})
          /\ Moves(c, "using") /\ Advance(c, "none", none, <<>>) /\ running' = NoTask
          /\ getters' = getters
      BY <1>7 DEF TakeOrWait, Ends
    <2> HIDE DEF none
    <2>2. /\ PlaceInv' /\ LoopTypeOK(Clients)' /\ LockInv' /\ ResultInv'
          /\ pc' \in [Clients -> {"idle", "waiting", "using"}] /\ pc'[c] = "using"
          /\ \A x \in Clients \ {c} : pc'[x] = pc[x]
      BY <1>1, <2>1, BorrowerMoves
    <2>3. Waiters' = Waiters \ {c}
      BY <2>2 DEF Waiters, At
    <2>4. Len(Front(free)) = Len(free) - 1 /\ Last(free) \in Resources
      BY <1>2, <1>7, FrontIs
    <2>5. /\ resource' \in [Clients -> Resources \cup {NoResource}] /\ resource'[c] = Last(free)
          /\ \A x \in Clients \ {c} : resource'[x] = resource[x]
      BY <1>2, <2>1, <2>4 DEF Types, TypeOK
    <2>6. /\ NothingLostOrShared' /\ free' \in Seq(Resources)
          /\ in_use' \in 0 .. Cardinality(Resources)
          /\ peak_in_use' \in 0 .. Cardinality(Resources)
      BY <1>2, <1>7, <2>1, <2>2, <2>5, Handed
    <2>7. /\ Deque(Dropped(getters, c), Waiters \ {c}, fut')
          /\ HandedOut(Len(free) - 1, Waiters \ {c}, fut')
      <3> DEFINE n == Len(free)
                 m == Len(free) - 1
                 R == Waiters \ {c}
      <3>1. n \in Int /\ m \in Int /\ m <= n /\ m < n /\ R \ {c} = Waiters \ {c} /\ c \notin R
        BY <1>5
      <3>2. HandedOut(n, Waiters, fut) /\ ToSet(none) \cap Waiters = {}
        BY <1>1, <1>2
      <3> HIDE DEF n, m, R
      <3>3. PICK callbacks : Advance(c, "none", none, callbacks)
        BY <2>1
      <3>4. /\ LoopTypeOK(Clients) /\ getters \in Seq(Clients)
            /\ Waiters \in SUBSET Clients /\ IsFiniteSet(Waiters) /\ Deque(getters, Waiters, fut)
        BY <1>2
      <3>5. c \in Waiters => fut[c] # "pending"
        BY <1>4
      <3>6. Deque(Dropped(getters, c), R, fut') /\ HandedOut(m, R, fut')
        BY <3>1, <3>2, <3>3, <3>4, <3>5, HandoverLeft
      <3> QED
        BY <3>6 DEF m, R
    <2>8. PoolInv'
      BY <1>5, <2>1, <2>3, <2>4, <2>6, <2>7 DEF PoolInv
    <2> QED
      BY <1>2, <2>1, <2>2, <2>5, <2>6, <2>8, PoolKept
  <1> QED
    BY <1>6, <1>7

\* A borrower is cancelled where it waits, and passes on what it was woken for.
LEMMA BorrowerCancelledSafe ==
  ASSUME IInv, UNCHANGED setupVars, NEW c \in Clients, BorrowerCancelled(c)
  PROVE  IInv'
  <1> DEFINE rest == Dropped(getters, c)
             woken == IF PassesOn(c) THEN Woken(rest) ELSE <<>>
             n == Len(free)
             left == Waiters \ {c}
  <1>1. /\ Types /\ LoopTypeOK(Clients) /\ getters \in Seq(Clients) /\ free \in Seq(Resources)
        /\ Waiters \in SUBSET Clients /\ IsFiniteSet(Waiters)
        /\ Deque(getters, Waiters, fut) /\ HandedOut(n, Waiters, fut)
    BY Clientele DEF IInv, Types, TypeOK, PoolInv
  <1>2. /\ Turn(c) /\ pc[c] = "waiting" /\ Moves(c, "idle") /\ running' = NoTask
        /\ getters' = IF PassesOn(c) THEN Popped(rest) ELSE rest
        /\ Advance(c, "none", woken, <<>>)
        /\ UNCHANGED <<free, in_use, peak_in_use, resource>>
    BY DEF BorrowerCancelled, Ends
  <1>3. c \in Waiters /\ fut[c] # "pending" /\ step[c] = "returned"
    BY <1>2, TurnIs DEF Waiters, At, IInv, PlaceInv
  <1>4. n \in Nat
    BY <1>1
  <1>5. rest \in Seq(Clients)
    BY <1>1, DroppedType
  <1>6. woken \in Seq(Clients) /\ Distinct(woken)
        /\ \A x \in ToSet(woken) : x \in Waiters \ {c} /\ fut[x] = "pending"
    <2>1. CASE PassesOn(c)
      <3>1. woken = Woken(Dropped(getters, c))
        BY <2>1
      <3> QED
        BY <1>1, <3>1, WokenSleep
    <2>2. CASE ~PassesOn(c)
      <3>1. woken = <<>> /\ <<>> \in Seq(Clients)
        BY <2>2
      <3> QED
        BY <3>1, ShortDistinct
    <2> QED
      BY <2>1, <2>2
  <1>7. Deque(getters', left, fut') /\ HandedOut(n, left, fut') /\ getters' \in Seq(Clients)
    <2>1. CASE PassesOn(c)
      <3>1. /\ Advance(c, "none", Woken(Dropped(getters, c)), <<>>) /\ getters' = Popped(rest)
            /\ n \in Int /\ n <= n + 1 /\ n <= n
        BY <1>2, <1>4, <2>1
      <3> HIDE DEF n
      <3>2. Deque(Popped(Dropped(getters, c)), left, fut') /\ HandedOut(n, left, fut')
        BY <1>1, <1>3, <3>1, HandoverWakes
      <3> QED
        BY <1>5, <3>1, <3>2, PoppedType
    <2>2. CASE ~PassesOn(c)
      <3>1. /\ n \in Int /\ n <= n
            /\ n <= 0 \/ ~(c \in Waiters /\ fut[c] = "done")
            /\ left \ {c} = Waiters \ {c} /\ c \notin left
        BY <1>1, <1>3, <2>2 DEF PassesOn
      <3>2. ToSet(woken) \cap Waiters = {} /\ getters' = rest
        BY <1>2, <2>2, ShortDistinct
      <3> HIDE DEF n, left, woken
      <3>3. Deque(Dropped(getters, c), left, fut') /\ HandedOut(n, left, fut')
        BY <1>1, <1>2, <1>3, <3>1, <3>2, HandoverLeft
      <3> QED
        BY <1>5, <3>2, <3>3
    <2> QED
      BY <2>1, <2>2
  <1> HIDE DEF woken, rest
  <1>8. /\ PlaceInv' /\ LoopTypeOK(Clients)' /\ LockInv' /\ ResultInv'
        /\ pc' \in [Clients -> {"idle", "waiting", "using"}] /\ pc'[c] = "idle"
        /\ \A x \in Clients \ {c} : pc'[x] = pc[x]
    BY <1>2, <1>3, <1>6, BorrowerMoves
  <1>9. Waiters' = left
    BY <1>8 DEF Waiters, At
  <1>10. NothingLostOrShared'
    BY <1>2, <1>8, CountsStand
  <1>11. PoolInv'
    BY <1>2, <1>7, <1>9, <1>10 DEF PoolInv
  <1> QED
    BY <1>2, <1>7, <1>8, <1>11, PoolKept DEF IInv, Types, TypeOK

\* A borrower gives its resource back, and wakes somebody for it.
LEMMA ReleaseSafe ==
  ASSUME IInv, UNCHANGED setupVars, NEW c \in Clients, Release(c)
  PROVE  IInv'
  <1> DEFINE woken == Woken(getters)
             n == Len(free)
             m == Len(free) + 1
  <1>1. /\ Types /\ LoopTypeOK(Clients) /\ getters \in Seq(Clients) /\ free \in Seq(Resources)
        /\ Waiters \in SUBSET Clients /\ IsFiniteSet(Waiters) /\ NothingLostOrShared
        /\ Deque(getters, Waiters, fut) /\ HandedOut(n, Waiters, fut)
    BY Clientele DEF IInv, Types, TypeOK, PoolInv
  <1>2. /\ Idle /\ pc[c] = "using" /\ Moves(c, "idle") /\ running' = NoTask
        /\ getters' = Popped(getters)
        /\ Advance(c, "none", woken, <<>>)
        /\ free' = Append(free, resource[c]) /\ in_use' = in_use - 1
        /\ resource' = [resource EXCEPT ![c] = NoResource] /\ peak_in_use' = peak_in_use
    BY DEF Release, Ends
  <1>3. c \notin Waiters /\ step[c] = "returned" /\ c \notin ToSet(getters)
    BY <1>1, <1>2 DEF Waiters, At, IInv, PlaceInv, Deque
  <1>4. n \in Int /\ m \in Int /\ m <= n + 1 /\ Waiters \ {c} = Waiters
    BY <1>1, <1>3
  <1>5. Dropped(getters, c) = getters
    BY <1>3, DroppedStranger
  <1>6. woken \in Seq(Clients) /\ Distinct(woken)
        /\ \A x \in ToSet(woken) : x \in Waiters \ {c} /\ fut[x] = "pending"
    BY <1>1, <1>5, WokenSleep
  <1>7. Deque(getters', Waiters, fut') /\ HandedOut(m, Waiters, fut') /\ getters' \in Seq(Clients)
    <2> HIDE DEF n, m
    <2>1. /\ Deque(Popped(Dropped(getters, c)), Waiters \ {c}, fut')
          /\ HandedOut(m, Waiters \ {c}, fut')
      <3>1. Advance(c, "none", Woken(Dropped(getters, c)), <<>>)
        BY <1>2, <1>5
      <3> QED
        BY <1>1, <1>3, <1>4, <3>1, HandoverWakes
    <2> QED
      BY <1>1, <1>2, <1>4, <1>5, <2>1, PoppedType
  <1> HIDE DEF woken
  <1>8. /\ PlaceInv' /\ LoopTypeOK(Clients)' /\ LockInv' /\ ResultInv'
        /\ pc' \in [Clients -> {"idle", "waiting", "using"}] /\ pc'[c] = "idle"
        /\ \A x \in Clients \ {c} : pc'[x] = pc[x]
    BY <1>2, <1>3, <1>6, BorrowerMoves
  <1>9. Waiters' = Waiters
    BY <1>2, <1>8 DEF Waiters, At
  <1>10. /\ resource' \in [Clients -> Resources \cup {NoResource}]
         /\ \A x \in Clients \ {c} : resource'[x] = resource[x]
    BY <1>1, <1>2 DEF Types, TypeOK
  <1>11. /\ NothingLostOrShared' /\ free' \in Seq(Resources)
         /\ in_use' \in 0 .. Cardinality(Resources)
         /\ peak_in_use' \in 0 .. Cardinality(Resources)
    BY <1>1, <1>2, <1>8, <1>10, Handed
  <1>12. Len(free') = m
    <2>1. resource[c] \in Resources
      <3>1. c \in Users
        BY <1>2 DEF Users, At
      <3> QED
        BY <1>1, <3>1 DEF NothingLostOrShared, NothingLost, Users
    <2> QED
      BY <1>1, <1>2, <2>1
  <1>13. PoolInv'
    BY <1>7, <1>9, <1>11, <1>12 DEF PoolInv
  <1> QED
    BY <1>7, <1>8, <1>10, <1>11, <1>13, PoolKept

\* The application cancels a borrower that waits.
LEMMA CancelBorrowerSafe ==
  ASSUME IInv, UNCHANGED setupVars, NEW c \in Clients, Cancel(c)
  PROVE  IInv'
  <1>1. /\ c \in Waiters /\ Engaged(c) /\ Cancels(c) /\ step' = step
        /\ UNCHANGED <<free, getters, in_use, peak_in_use, pc, resource>>
    BY DEF Cancel, Waiters, At, Engaged, setupVars
  <1>2. /\ PlaceInv' /\ LoopTypeOK(Clients)'
        /\ \A x \in Clients : \/ fut'[x] = fut[x]
                              \/ fut[x] = "pending" /\ fut'[x] = "cancelled"
    BY <1>1, SignalPlaces DEF IInv
  <1>3. PoolInv'
    BY <1>1, <1>2, PoolStands, Clientele DEF poolVars, IInv
  <1>4. LockInv' /\ ResultInv'
    BY <1>2, SetupStands DEF IInv
  <1> QED
    BY <1>1, <1>2, <1>3, <1>4, PoolKept DEF IInv, Types, TypeOK

\* Every step of the pool.
LEMMA PoolSafe ==
  ASSUME IInv, UNCHANGED setupVars, NEW c \in Clients,
         \/ BorrowerWakes(c) \/ BorrowerCancelled(c)
         \/ step[c] = "returned" /\ Acquire(c)
         \/ Release(c) \/ Cancel(c)
  PROVE  IInv'
  <1>1. CASE BorrowerWakes(c)
    <2>1. Turn(c) /\ pc[c] = "waiting" /\ ~Thrown(c) /\ TakeOrWait(c) /\ step[c] = "returned"
      BY <1>1 DEF BorrowerWakes, IInv, PlaceInv
    <2> QED
      BY <2>1, TakeOrWaitSafe
  <1>2. CASE step[c] = "returned" /\ Acquire(c)
    BY <1>2, TakeOrWaitSafe DEF Acquire
  <1> QED
    BY <1>1, <1>2, BorrowerCancelledSafe, ReleaseSafe, CancelBorrowerSafe

-----------------------------------------------------------------------------
(* The steps of Once *)

Places == {"idle", "waiting", "factory", "returned", "raised", "cancelled"}

\* A release of the lock wakes somebody who sleeps in it, if anybody.
LEMMA FirstSleeps ==
  ASSUME IInv, NEW c \in Clients, NEW woken,
         woken \in {<<>>, Setup!FirstOf(Dropped(lockWaiters, c))}
  PROVE  /\ woken \in Seq(Clients) /\ Distinct(woken)
         /\ \A x \in ToSet(woken) : x \in Clients \ {c} /\ InLock(x) /\ fut[x] = "pending"
  <1> DEFINE rest == Dropped(lockWaiters, c)
  <1>1. /\ rest \in Seq(Clients)
        /\ ToSet(rest) = {x \in Clients \ {c} : InLock(x)}
    BY LockWithout DEF IInv
  <1> HIDE DEF rest
  <1>2. CASE woken = <<>>
    <2>1. woken \in Seq(Clients)
      BY <1>2
    <2> QED
      BY <1>2, <2>1, ShortDistinct
  <1>3. CASE woken = <<Head(rest)>> /\ Head(rest) \in ToSet(rest) /\ fut[Head(rest)] = "pending"
    <2>1. Head(rest) \in Clients
      BY <1>1, <1>3
    <2>2. woken \in Seq(Clients) /\ Distinct(woken) /\ ToSet(woken) = {Head(rest)}
      BY <1>3, <2>1, ShortDistinct
    <2> QED
      BY <1>1, <1>3, <2>2
  <1> QED
    BY <1>1, <1>2, <1>3, FirstIs DEF rest

\* A client moves inside run(), in its turn or at its call.
LEMMA RunnerMoves ==
  ASSUME IInv, UNCHANGED poolVars, NEW c \in Clients,
         \/ Idle /\ step[c] = "idle"
         \/ Turn(c) /\ step[c] \in {"waiting", "factory"},
         NEW place \in Places, Setup!Moves(c, place),
         NEW state \in {"none", "pending"},
         state = "pending" => place \in {"waiting", "factory"},
         place = "waiting" => state = "pending",
         NEW woken \in Seq(Clients), Distinct(woken),
         \A x \in ToSet(woken) : x \in Clients \ {c} /\ InLock(x) /\ fut[x] = "pending",
         Advance(c, state, woken, <<>>), running' \in {c, NoTask},
         running' = c <=> place = "factory" /\ state = "none"
  PROVE  /\ PlaceInv' /\ LoopTypeOK(Clients)' /\ PoolInv'
         /\ step' \in [Clients -> Places] /\ step'[c] = place
         /\ \A x \in Clients \ {c} : step'[x] = step[x]
  <1>1. /\ step' \in [Clients -> Places] /\ step'[c] = place
        /\ \A x \in Clients \ {c} : step'[x] = step[x]
        /\ pc' = pc
    BY DEF IInv, Types, Setup!Moves, poolVars, Places
  <1>2. pc[c] = "idle" /\ pc'[c] = "idle"
    BY <1>1 DEF IInv, PlaceInv
  <1>3. /\ c \notin Waiters /\ c \notin Waiters'
        /\ InLock(c)' <=> place = "waiting"
    BY <1>1, <1>2 DEF InLock, Waiters, At
  <1>4. InFactory(c)' <=> place = "factory"
    BY <1>1 DEF InFactory
  <1>5. MayAct(c)
    <2>1. CASE Turn(c)
      BY <2>1, TurnIs DEF IInv
    <2>2. CASE Idle /\ step[c] = "idle"
      <3>1. ~Engaged(c)
        BY <1>3, <2>2 DEF Engaged, InLock, InFactory
      <3> QED
        BY <2>2, <3>1 DEF MayAct, IInv, PlaceInv
    <2> QED
      BY <2>1, <2>2
  <1>6. \A x \in ToSet(woken) : x \in Clients \ {c} /\ Engaged(x) /\ fut[x] = "pending"
    BY DEF Engaged
  <1>7. \A x \in Waiters : fut'[x] = fut[x]
    <2>1. \A x \in Clients : fut'[x] = IF x = c THEN state
                                       ELSE IF x \in ToSet(woken) THEN "done" ELSE fut[x]
      BY AdvanceFutures DEF IInv, Types, TypeOK
    <2>2. \A x \in Waiters : x \in Clients /\ x # c /\ x \notin ToSet(woken)
      BY <1>3 DEF IInv, PlaceInv, InLock, Waiters, At
    <2> QED
      BY <2>1, <2>2
  <1>8. PoolInv'
    BY <1>7, PoolStands DEF IInv
  <1>9. PlaceInv' /\ LoopTypeOK(Clients)'
    <2>1. /\ state \in FutureState
          /\ InLock(c)' \/ c \in Waiters' => state # "none"
          /\ Engaged(c)' /\ state # "pending" <=> running' = c
          /\ running' = c => InFactory(c)'
      <3>1. Engaged(c)' <=> place \in {"waiting", "factory"}
        BY <1>3, <1>4 DEF Engaged
      <3> QED
        BY <1>3, <1>4, <3>1 DEF FutureState
    <2>2. pc'[c] # "idle" => step'[c] = "returned"
      BY <1>2
    <2>3. \A x \in Clients \ {c} : pc'[x] = pc[x] /\ step'[x] = step[x]
      BY <1>1
    <2> QED
      BY <1>5, <1>6, <2>1, <2>2, <2>3, MovePlaces DEF IInv
  <1> QED
    BY <1>1, <1>8, <1>9

\* What is left to prove of a step of Once.
LEMMA OnceKept ==
  ASSUME IInv, UNCHANGED poolVars, PlaceInv', LoopTypeOK(Clients)', PoolInv', LockInv',
         ResultInv', step' \in [Clients -> Places], locked' \in BOOLEAN,
         lockWaiters' \in Seq(Clients), done' \in BOOLEAN,
         result' \in Clients \cup {NoResult}, got' \in [Clients -> Clients \cup {NoResult}]
  PROVE  IInv'
  BY DEF IInv, Types, TypeOK, poolVars, Places

\* The lock comes to c, whose initializer starts.
LEMMA BeginFactorySafe ==
  ASSUME IInv, UNCHANGED poolVars, NEW c \in Clients,
         \/ Idle /\ step[c] = "idle"
         \/ Turn(c) /\ step[c] = "waiting",
         ~done, ~locked, \A x \in Clients \ {c} : InLock(x) => fut[x] # "done",
         Setup!BeginFactory(c)
  PROVE  IInv'
  <1> DEFINE none == <<>>
  <1>1. none \in Seq(Clients) /\ Distinct(none) /\ ToSet(none) = {}
    BY ShortDistinct
  <1>2. PICK state \in {"none", "pending"} :
          /\ Advance(c, state, none, <<>>)
          /\ running' = IF state = "none" THEN c ELSE NoTask
    BY SameLoop DEF Setup!BeginFactory, Suspends, Continues
  <1>3. /\ locked' = TRUE /\ lockWaiters' = Dropped(lockWaiters, c) /\ Setup!Moves(c, "factory")
        /\ UNCHANGED <<done, result, got>>
    BY SameLoop DEF Setup!BeginFactory
  <1>4. Advance(c, state, <<>>, <<>>)
    BY <1>2
  <1> HIDE DEF none
  <1>5. /\ PlaceInv' /\ LoopTypeOK(Clients)' /\ PoolInv'
        /\ step' \in [Clients -> Places] /\ step'[c] = "factory"
        /\ \A x \in Clients \ {c} : step'[x] = step[x]
    <2>1. /\ running' \in {c, NoTask}
          /\ running' = c <=> state = "none"
          /\ "factory" \in Places
      BY <1>2 DEF Places
    <2> QED
      BY <1>1, <1>2, <1>3, <2>1, RunnerMoves
  <1>6. LockInv'
    BY <1>3, <1>4, <1>5, LockTaken DEF IInv, InFactory
  <1>7. ResultInv'
    BY <1>3, <1>5 DEF IInv, ResultInv
  <1>8. lockWaiters' \in Seq(Clients)
    BY <1>3, DroppedType DEF IInv, Types
  <1> QED
    BY <1>3, <1>5, <1>6, <1>7, <1>8, OnceKept DEF IInv, Types

\* A call of run().
LEMMA RunSafe ==
  ASSUME IInv, UNCHANGED poolVars, NEW c \in Clients, Setup!Run(c)
  PROVE  IInv'
  <1>1. Idle /\ step[c] = "idle"
    BY SameLoop DEF Setup!Run
  <1>2. CASE done /\ Setup!Returns(c, result) /\ UNCHANGED <<Setup!loopVars, Setup!lockVars, Setup!onceVars>>
    <2>1. /\ step' = [step EXCEPT ![c] = "returned"] /\ got' = [got EXCEPT ![c] = result]
          /\ UNCHANGED <<ready, running, fut, mustCancel, locked, lockWaiters, done, result, pc>>
      BY <1>2 DEF Setup!Returns, Setup!Moves, Setup!loopVars, Setup!lockVars, Setup!onceVars, poolVars
    <2>2. /\ step' \in [Clients -> Places] /\ step'[c] = "returned"
          /\ \A x \in Clients \ {c} : step'[x] = step[x]
          /\ got' \in [Clients -> Clients \cup {NoResult}] /\ got'[c] = result
          /\ \A x \in Clients \ {c} : got'[x] = got[x]
      BY <2>1 DEF IInv, Types, Places
    <2>3. /\ \A x \in Clients : /\ InLock(x)' <=> InLock(x)
                                /\ InFactory(x)' <=> InFactory(x)
                                /\ x \in Waiters' <=> x \in Waiters
          /\ Waiters' = Waiters
      BY <1>1, <2>1, <2>2 DEF InLock, InFactory, Waiters, At
    <2>4. LoopNeat' /\ Scheduled' = Scheduled
      BY <2>1 DEF LoopNeat, Scheduled, Distinct, IInv, PlaceInv
    <2>5. PlaceInv'
      <3>1. \A x \in Clients : Engaged(x)' <=> Engaged(x)
        BY <2>3 DEF Engaged
      <3> HIDE DEF Engaged
      <3>2. \A x \in Clients : pc'[x] # "idle" => step'[x] = "returned"
        BY <2>1, <2>2 DEF IInv, PlaceInv
      <3> QED
        BY <2>1, <2>3, <2>4, <3>1, <3>2 DEF IInv, PlaceInv
    <2>6. PoolInv'
      BY <2>1, PoolStands DEF IInv
    <2>7. LockInv'
      <3>1. Distinct(lockWaiters)' /\ ToSet(lockWaiters)' = ToSet(lockWaiters)
        BY <2>1 DEF IInv, LockInv, Distinct, ToSet
      <3> QED
        BY <2>1, <2>3, <3>1 DEF IInv, LockInv
    <2>8. ResultInv'
      BY <1>2, <2>1, <2>2 DEF IInv, ResultInv
    <2>9. LoopTypeOK(Clients)'
      BY <2>1 DEF IInv, Types, TypeOK, LoopTypeOK
    <2> QED
      BY <2>1, <2>2, <2>5, <2>6, <2>7, <2>8, <2>9, OnceKept DEF IInv, Types
  <1>3. CASE ~done /\ Setup!MayBarge /\ Setup!BeginFactory(c)
    <2>1. \A x \in Clients \ {c} : InLock(x) => fut[x] # "done"
      <3> SUFFICES ASSUME NEW x \in Clients \ {c}, InLock(x), fut[x] = "done" PROVE FALSE
        OBVIOUS
      <3>1. lockWaiters # <<>> /\ Head(lockWaiters) = x
        BY WokenIsFirst DEF IInv
      <3>2. 1 \in DOMAIN lockWaiters /\ lockWaiters[1] = x
        BY <3>1 DEF IInv, Types
      <3> QED
        BY <1>3, <3>2 DEF Setup!MayBarge
    <2> QED
      BY <1>1, <1>3, <2>1, BeginFactorySafe DEF Setup!MayBarge
  <1>4. CASE /\ ~done /\ ~Setup!MayBarge /\ Setup!Moves(c, "waiting") /\ Setup!Queues(c)
             /\ UNCHANGED <<Setup!onceVars, got>>
    <2> DEFINE none == <<>>
    <2>1. none \in Seq(Clients) /\ Distinct(none) /\ ToSet(none) = {}
      BY ShortDistinct
    <2>2. /\ lockWaiters' = Append(lockWaiters, c) /\ locked' = locked
          /\ Advance(c, "pending", none, <<>>) /\ running' = NoTask
          /\ UNCHANGED <<done, result, got>>
      BY <1>4, SameLoop DEF Setup!Queues, Suspends, Setup!onceVars
    <2>3. Advance(c, "pending", <<>>, <<>>)
      BY <2>2
    <2> HIDE DEF none
    <2>4. /\ PlaceInv' /\ LoopTypeOK(Clients)' /\ PoolInv'
          /\ step' \in [Clients -> Places] /\ step'[c] = "waiting"
          /\ \A x \in Clients \ {c} : step'[x] = step[x]
      <3>1. running' # c /\ "waiting" \in Places
        BY <2>2 DEF Places
      <3> QED
        BY <1>1, <1>4, <2>1, <2>2, <3>1, RunnerMoves
    <2>5. LockInv'
      BY <1>1, <1>4, <2>2, <2>3, <2>4, LockQueued DEF IInv, InLock, InFactory
    <2>6. ResultInv'
      BY <1>4, <2>2, <2>4 DEF IInv, ResultInv
    <2>7. lockWaiters' \in Seq(Clients)
      BY <2>2 DEF IInv, Types
    <2> QED
      BY <2>2, <2>4, <2>5, <2>6, <2>7, OnceKept DEF IInv, Types
  <1> QED
    BY <1>2, <1>3, <1>4 DEF Setup!Run

\* A client leaves the deque or the initializer, and run() with it.
LEMMA LeavingSafe ==
  ASSUME IInv, UNCHANGED poolVars, NEW c \in Clients, Turn(c),
         InFactory(c) \/ (InLock(c) /\ fut[c] # "pending"),
         locked' = (locked /\ ~InFactory(c)),
         lockWaiters' = Dropped(lockWaiters, c),
         Ends(c, IF locked' THEN <<>> ELSE Setup!FirstOf(Dropped(lockWaiters, c)), <<>>),
         NEW place \in {"returned", "raised", "cancelled"}, Setup!Moves(c, place),
         done' \in BOOLEAN, result' \in Clients \cup {NoResult},
         got' \in [Clients -> Clients \cup {NoResult}],
         \A x \in Clients \ {c} : got'[x] = got[x],
         \/ /\ place = "returned" /\ done /\ got'[c] = result /\ UNCHANGED <<done, result>>
         \/ /\ place = "returned" /\ done' /\ InFactory(c) /\ got'[c] = result' /\ result' # NoResult
         \/ /\ place # "returned" /\ UNCHANGED <<done, result, got>>
  PROVE  IInv'
  <1> DEFINE woken == IF locked' THEN <<>> ELSE Setup!FirstOf(Dropped(lockWaiters, c))
  <1>1. Advance(c, "none", woken, <<>>) /\ running' = NoTask
    BY DEF Ends
  <1>2. /\ woken \in Seq(Clients) /\ Distinct(woken)
        /\ \A x \in ToSet(woken) : x \in Clients \ {c} /\ InLock(x) /\ fut[x] = "pending"
    <2>1. woken \in {<<>>, Setup!FirstOf(Dropped(lockWaiters, c))}
      OBVIOUS
    <2> HIDE DEF woken
    <2> QED
      BY <2>1, FirstSleeps
  <1>3. step[c] \in {"waiting", "factory"}
    BY DEF InLock, InFactory
  <1>4. woken = IF locked' THEN <<>> ELSE Setup!FirstOf(Dropped(lockWaiters, c))
    OBVIOUS
  <1> HIDE DEF woken
  <1>5. /\ PlaceInv' /\ LoopTypeOK(Clients)' /\ PoolInv'
        /\ step' \in [Clients -> Places] /\ step'[c] = place
        /\ \A x \in Clients \ {c} : step'[x] = step[x]
    <2>1. /\ running' # c /\ place \in Places /\ running' \in {c, NoTask}
          /\ ~(place = "factory") /\ place # "waiting"
      BY <1>1 DEF Places
    <2> QED
      BY <1>1, <1>2, <1>3, <2>1, RunnerMoves
  <1>6. LockInv'
    <2>1. ~InLock(c)' /\ ~InFactory(c)'
      BY <1>5 DEF InLock, InFactory
    <2> QED
      BY <1>1, <1>4, <1>5, <2>1, LockLeaves DEF IInv
  <1>7. ResultInv'
    <2>1. /\ done => ~locked /\ ~locked'
          /\ InFactory(c) => locked /\ ~locked' /\ ~done
      BY DEF IInv, ResultInv, LockInv
    <2>2. \A x \in Clients : IF step[x] = "returned" THEN done /\ got[x] = result ELSE got[x] = NoResult
      BY DEF IInv, ResultInv
    <2>3. CASE place = "returned" /\ done /\ got'[c] = result /\ UNCHANGED <<done, result>>
      BY <1>5, <2>1, <2>2, <2>3 DEF IInv, ResultInv
    <2>4. CASE place = "returned" /\ done' /\ InFactory(c) /\ got'[c] = result' /\ result' # NoResult
      BY <1>5, <2>1, <2>2, <2>4 DEF ResultInv
    <2>5. CASE place # "returned" /\ UNCHANGED <<done, result, got>>
      BY <1>3, <1>5, <2>1, <2>2, <2>5 DEF IInv, ResultInv
    <2> QED
      BY <2>3, <2>4, <2>5
  <1>8. lockWaiters' \in Seq(Clients) /\ locked' \in BOOLEAN
    BY DroppedType DEF IInv, Types
  <1> QED
    BY <1>5, <1>6, <1>7, <1>8, OnceKept

\* A turn of a client inside run().
LEMMA OnceTurnSafe ==
  ASSUME IInv, UNCHANGED poolVars, NEW c \in Clients,
         Setup!Granted(c) \/ Setup!FactoryReturns(c) \/ Setup!FactoryFails(c)
           \/ Setup!WaiterCancelled(c)
  PROVE  IInv'
  <1>1. /\ locked \in BOOLEAN /\ got \in [Clients -> Clients \cup {NoResult}]
        /\ done \in BOOLEAN /\ result \in Clients \cup {NoResult}
    BY DEF IInv, Types
  <1>2. /\ InFactory(c) => locked
        /\ InLock(c) => ~InFactory(c)
    BY DEF IInv, LockInv, InLock, InFactory
  <1>3. Turn(c) /\ (InLock(c) => fut[c] # "pending" /\ fut[c] # "none")
    <2>1. Turn(c)
      BY SameLoop DEF Setup!Granted, Setup!FactoryReturns, Setup!FactoryFails, Setup!WaiterCancelled
    <2> QED
      BY <2>1, TurnIs DEF IInv, PlaceInv
  <1>4. CASE Setup!Granted(c)
    <2>1. step[c] = "waiting" /\ InLock(c) /\ ~InFactory(c) /\ ~Thrown(c)
      BY <1>2, <1>4, SameLoop DEF Setup!Granted, InLock
    <2>2. fut[c] = "done"
      BY <1>3, <2>1 DEF Thrown, IInv, Types, TypeOK, LoopTypeOK, FutureState
    <2>3. ~locked /\ Head(lockWaiters) = c
      BY <2>1, <2>2, WokenIsFirst DEF IInv
    <2>4. CASE Setup!StillToDo /\ Setup!BeginFactory(c)
      <3>1. \A x \in Clients \ {c} : InLock(x) => fut[x] # "done"
        BY <2>3, WokenIsFirst DEF IInv
      <3> QED
        BY <1>3, <2>1, <2>3, <2>4, <3>1, BeginFactorySafe DEF Setup!StillToDo
    <2>5. CASE ~Setup!StillToDo /\ Setup!Returns(c, result) /\ Setup!Release(c)
               /\ UNCHANGED Setup!onceVars
      <3>1. /\ locked' = (locked /\ ~InFactory(c)) /\ ~locked'
            /\ lockWaiters' = Dropped(lockWaiters, c)
            /\ Ends(c, Setup!FirstOf(Dropped(lockWaiters, c)), <<>>)
        BY <2>3, <2>5, SameLoop DEF Setup!Release
      <3>2. /\ Setup!Moves(c, "returned") /\ got' = [got EXCEPT ![c] = result]
            /\ UNCHANGED <<done, result>> /\ done
        BY <2>5 DEF Setup!Returns, Setup!onceVars, Setup!StillToDo
      <3>3. Ends(c, IF locked' THEN <<>> ELSE Setup!FirstOf(Dropped(lockWaiters, c)), <<>>)
        BY <3>1
      <3>4. /\ got' \in [Clients -> Clients \cup {NoResult}] /\ got'[c] = result
            /\ \A x \in Clients \ {c} : got'[x] = got[x]
        BY <1>1, <3>2
      <3> QED
        BY <1>1, <1>3, <2>1, <3>1, <3>2, <3>3, <3>4, LeavingSafe
    <2> QED
      BY <1>4, <2>4, <2>5 DEF Setup!Granted
  <1>5. CASE Setup!FactoryReturns(c)
    <2>1. /\ InFactory(c) /\ Setup!Moves(c, "returned") /\ got' = [got EXCEPT ![c] = c]
          /\ result' = c /\ done' = TRUE /\ Setup!Release(c)
      BY <1>5 DEF Setup!FactoryReturns, Setup!Returns, InFactory
    <2>2. /\ locked' = (locked /\ ~InFactory(c)) /\ ~locked'
          /\ lockWaiters' = Dropped(lockWaiters, c)
          /\ Ends(c, Setup!FirstOf(Dropped(lockWaiters, c)), <<>>)
      BY <2>1, SameLoop DEF Setup!Release
    <2>3. Ends(c, IF locked' THEN <<>> ELSE Setup!FirstOf(Dropped(lockWaiters, c)), <<>>)
      BY <2>2
    <2>4. /\ got' \in [Clients -> Clients \cup {NoResult}] /\ got'[c] = result'
          /\ \A x \in Clients \ {c} : got'[x] = got[x]
          /\ result' \in Clients \cup {NoResult} /\ result' # NoResult /\ done' \in BOOLEAN
      BY <1>1, <2>1
    <2> QED
      BY <1>3, <2>1, <2>2, <2>3, <2>4, LeavingSafe
  <1>6. CASE Setup!FactoryFails(c)
    <2>1. /\ InFactory(c) /\ Setup!Release(c) /\ UNCHANGED <<done, result, got>>
          /\ \E place \in {"raised", "cancelled"} : Setup!Moves(c, place)
      BY <1>6 DEF Setup!FactoryFails, Setup!onceVars, InFactory
    <2>2. /\ locked' = (locked /\ ~InFactory(c)) /\ ~locked'
          /\ lockWaiters' = Dropped(lockWaiters, c)
          /\ Ends(c, Setup!FirstOf(Dropped(lockWaiters, c)), <<>>)
      BY <2>1, SameLoop DEF Setup!Release
    <2>3. Ends(c, IF locked' THEN <<>> ELSE Setup!FirstOf(Dropped(lockWaiters, c)), <<>>)
      BY <2>2
    <2> QED
      BY <1>1, <1>3, <2>1, <2>2, <2>3, LeavingSafe
  <1>7. CASE Setup!WaiterCancelled(c)
    <2>1. /\ InLock(c) /\ Setup!WaiterLeaves(c) /\ UNCHANGED <<done, result, got>>
          /\ Setup!Moves(c, "cancelled")
      BY <1>7 DEF Setup!WaiterCancelled, Setup!onceVars, InLock
    <2>2. /\ locked' = (locked /\ ~InFactory(c))
          /\ lockWaiters' = Dropped(lockWaiters, c)
          /\ Ends(c, IF locked' THEN <<>> ELSE Setup!FirstOf(Dropped(lockWaiters, c)), <<>>)
      BY <1>1, <1>2, <2>1, SameLoop DEF Setup!WaiterLeaves
    <2> QED
      BY <1>1, <1>3, <2>1, <2>2, LeavingSafe
  <1> QED
    BY <1>4, <1>5, <1>6, <1>7

\* What an initializer awaits completes, or a client is cancelled inside run().
LEMMA OnceSignalSafe ==
  ASSUME IInv, UNCHANGED poolVars, NEW c \in Clients, Setup!FactoryWakes(c) \/ Setup!Cancel(c)
  PROVE  IInv'
  <1>1. /\ Engaged(c) /\ UNCHANGED <<pc, step, locked, lockWaiters, done, result, got>>
        /\ Cancels(c) \/ (Completes(c) /\ ~InLock(c))
        /\ c \notin Waiters
    <2>1. step[c] \in {"waiting", "factory"} /\ pc[c] = "idle"
      BY DEF Setup!FactoryWakes, Setup!Cancel, IInv, PlaceInv
    <2>2. Engaged(c) /\ c \notin Waiters
      BY <2>1 DEF Engaged, InLock, InFactory, Waiters, At
    <2> QED
      BY <2>2, SameLoop
      DEF Setup!FactoryWakes, Setup!Cancel, Setup!lockVars, Setup!onceVars, poolVars, InLock
  <1>2. /\ PlaceInv' /\ LoopTypeOK(Clients)'
        /\ \A x \in Clients \ {c} : fut'[x] = fut[x]
        /\ \/ fut'[c] = fut[c]
           \/ fut[c] = "pending" /\ fut'[c] \in {"done", "cancelled"}
        /\ Cancels(c) /\ fut'[c] # fut[c] => fut'[c] = "cancelled"
    BY <1>1, SignalPlaces DEF IInv
  <1>3. PoolInv'
    BY <1>1, <1>2, PoolStands, Clientele DEF IInv
  <1>4. LockInv'
    BY <1>1, <1>2, LockStands DEF IInv
  <1>5. ResultInv'
    BY <1>1 DEF IInv, ResultInv
  <1> QED
    BY <1>1, <1>2, <1>3, <1>4, <1>5, OnceKept DEF IInv, Types, Places

-----------------------------------------------------------------------------
(* The invariant *)

\* A queue of all the resources, each once, holds as many as there are.
LEMMA FullQueue ==
  ASSUME NEW s \in SetToSeqs(Resources)
  PROVE  s \in Seq(Resources) /\ Len(s) = Cardinality(Resources) /\ ToSet(s) = Resources
  <1> DEFINE n == Cardinality(Resources)
             D == 1 .. n
  <1>1. n \in Nat
    BY FS_CardinalityType
  <1>2. s \in [D -> Resources] /\ \A i, j \in D : i # j => s[i] # s[j]
    BY DEF SetToSeqs
  <1>3. IsFiniteSet(D) /\ Cardinality(D) = n
    BY <1>1, FS_Interval
  <1> HIDE DEF n
  <1>4. s \in Seq(Resources) /\ Len(s) = n /\ DOMAIN s = D
    BY <1>1, <1>2
  <1>5. s \in Injection(D, Resources)
    BY <1>2 DEF Injection, IsInjective
  <1>6. s \in Surjection(D, Resources)
    BY <1>3, <1>5, FS_Injection DEF n
  <1>7. ToSet(s) = Resources
    BY <1>4, <1>6 DEF ToSet, Surjection
  <1> QED
    BY <1>4, <1>7 DEF n

\* The invariant holds before anybody has called.
LEMMA InitInv == InitBoth => IInv
  <1> SUFFICES ASSUME InitBoth PROVE IInv
    OBVIOUS
  <1>1. /\ ready = <<>> /\ running = NoTask /\ fut = [t \in Clients |-> "none"] /\ mustCancel = {}
        /\ free \in SetToSeqs(Resources) /\ getters = <<>> /\ in_use = 0 /\ peak_in_use = 0
        /\ pc = [c \in Clients |-> "idle"] /\ resource = [c \in Clients |-> NoResource]
        /\ locked = FALSE /\ lockWaiters = <<>> /\ done = FALSE /\ result = NoResult
        /\ step = [c \in Clients |-> "idle"] /\ got = [c \in Clients |-> NoResult]
    BY DEF InitBoth, Init, LoopInit, Setup!Init, Setup!LockInit
  <1>2. /\ free \in Seq(Resources) /\ Len(free) = Cardinality(Resources) /\ ToSet(free) = Resources
        /\ Cardinality(Resources) \in Nat /\ Cardinality(Clients) \in Nat
    BY <1>1, FullQueue, FS_CardinalityType
  <1>3. LoopTypeOK(Clients)
    BY <1>1 DEF LoopTypeOK, FutureState
  <1>4. Types
    <2>1. /\ getters \in Seq(Clients) /\ lockWaiters \in Seq(Clients)
          /\ in_use \in 0 .. Cardinality(Resources) /\ peak_in_use \in 0 .. Cardinality(Resources)
      BY <1>1, <1>2
    <2>2. /\ pc \in [Clients -> {"idle", "waiting", "using"}]
          /\ resource \in [Clients -> Resources \cup {NoResource}]
          /\ step \in [Clients -> {"idle", "waiting", "factory", "returned", "raised", "cancelled"}]
          /\ got \in [Clients -> Clients \cup {NoResult}]
      BY <1>1
    <2> QED
      BY <1>1, <1>2, <1>3, <2>1, <2>2 DEF Types, TypeOK
  <1>5. Waiters = {} /\ Users = {} /\ At("using") = {} /\ Cardinality({}) = 0
    BY <1>1, FS_EmptySet DEF Waiters, Users, At
  <1>6. \A c \in Clients : ~InLock(c) /\ ~InFactory(c) /\ ~Engaged(c)
    BY <1>1, <1>5 DEF InLock, InFactory, Engaged
  <1>7. PlaceInv
    <2>1. Distinct(ready) /\ ToSet(ready) = {}
      BY <1>1, ShortDistinct
    <2>2. Scheduled = {} /\ LoopNeat
      BY <1>1, <2>1 DEF Scheduled, LoopNeat
    <2> QED
      BY <1>1, <1>5, <1>6, <2>2 DEF PlaceInv
  <1>8. PoolInv
    <2>1. Distinct(getters) /\ ToSet(getters) = {}
      BY <1>1, ShortDistinct
    <2>2. Deque(getters, Waiters, fut) /\ HandedOut(Len(free), Waiters, fut)
      BY <1>5, <2>1 DEF Deque, HandedOut
    <2>3. \A S : S = {} => {resource[c] : c \in S} = {}
      OBVIOUS
    <2>4. NothingLost
      <3>1. {resource[c] : c \in At("using")} = {} /\ Cardinality(At("using")) = 0
        BY <1>5, <2>3
      <3> DEFINE has == {resource[c] : c \in At("using")}
      <3>2. has = {}
        BY <3>1
      <3> HIDE DEF has
      <3>3. ToSet(free) \cup has = Resources
        BY <1>2, <3>2
      <3> QED
        BY <1>2, <3>1, <3>3 DEF NothingLost, has
    <2>5. CountersExact
      <3>1. Cardinality(At("using")) = 0
        BY <1>5
      <3>2. 0 <= Min({Cardinality(Clients), Cardinality(Resources)})
        <4> DEFINE m == Cardinality(Clients)
                   n == Cardinality(Resources)
        <4>1. m \in Nat /\ n \in Nat
          BY <1>2
        <4> HIDE DEF m, n
        <4>2. 0 <= Min({m, n})
          BY <4>1, OfTwo
        <4> QED
          BY <4>2 DEF m, n
      <3> QED
        BY <1>1, <3>1, <3>2 DEF CountersExact
    <2> QED
      BY <2>2, <2>4, <2>5 DEF PoolInv, NothingLostOrShared
  <1>9. LockInv
    <2>1. Distinct(lockWaiters) /\ ToSet(lockWaiters) = {} /\ DOMAIN lockWaiters = {}
      BY <1>1, ShortDistinct
    <2> QED
      BY <1>1, <1>6, <2>1 DEF LockInv
  <1>10. ResultInv
    BY <1>1 DEF ResultInv
  <1> QED
    BY <1>4, <1>7, <1>8, <1>9, <1>10 DEF IInv

\* Every step keeps it.
LEMMA StepInv == IInv /\ [NextBoth]_allVars => IInv'
  <1> SUFFICES ASSUME IInv, [NextBoth]_allVars PROVE IInv'
    OBVIOUS
  <1>1. CASE SetupTurn
    BY <1>1, OnceTurnSafe DEF SetupTurn, Setup!LoopStep
  <1>2. CASE PoolTurn
    BY <1>2, PoolSafe DEF PoolTurn, LoopStep
  <1>3. ASSUME NEW c \in Clients, Calls(c) \/ FactoryWakes(c) PROVE IInv'
    BY <1>3, RunSafe, OnceSignalSafe, PoolSafe DEF Calls, FactoryWakes, Borrows
  <1>4. CASE UNCHANGED allVars
    <2>1. UNCHANGED <<ready, running, fut, mustCancel, free, getters, in_use, peak_in_use, pc, resource,
                      locked, lockWaiters, done, result, calls, step, got>>
      BY <1>4 DEF allVars, loopVars, setupVars, poolVars
    <2>2. LoopTypeOK(Clients)'
      BY <2>1 DEF IInv, Types, TypeOK, LoopTypeOK
    <2>3. PlaceInv'
      <3>1. /\ LoopNeat' /\ Scheduled' = Scheduled
            /\ \A x \in Clients : /\ InLock(x)' <=> InLock(x)
                                  /\ InFactory(x)' <=> InFactory(x)
                                  /\ Engaged(x)' <=> Engaged(x)
                                  /\ x \in Waiters' <=> x \in Waiters
        BY <2>1 DEF IInv, PlaceInv, LoopNeat, Scheduled, Distinct, Engaged, InLock, InFactory,
           Waiters, At
      <3> HIDE DEF Engaged
      <3> QED
        BY <2>1, <3>1 DEF IInv, PlaceInv
    <2>4. PoolInv'
      BY <2>1, PoolStands DEF IInv, poolVars
    <2>5. LockInv' /\ ResultInv'
      BY <2>1, SetupStands DEF IInv, setupVars
    <2> QED
      BY <2>1, <2>2, <2>3, <2>4, <2>5, PoolKept DEF IInv, Types, TypeOK, setupVars
  <1> QED
    BY <1>1, <1>2, <1>3, <1>4 DEF NextBoth

\* The invariant of the two together.
LEMMA Invariant == SpecBoth => []IInv
  BY InitInv, StepInv, PTL DEF SpecBoth

-----------------------------------------------------------------------------
(* What it means *)

\* "A task cancelled mid-use does not permanently shrink the pool"
\* (src/aiolab/sync.py): each resource is in one place, and the counters of the
\* pool agree with who is inside.
THEOREM Conserved == SpecBoth => []NothingLostOrShared
  BY Invariant, PTL DEF IInv, PoolInv

\* No wakeup is lost, of a borrower or of a client that waits for the lock of
\* Once, whoever is cancelled before or after it was woken.
THEOREM NobodySleepsOn == SpecBoth => []NobodyStranded
  <1>1. IInv => NobodyStranded
    <2> SUFFICES ASSUME IInv PROVE NobodyStranded
      OBVIOUS
    <2>1. NoStrandedBorrower
      BY DEF IInv, PoolInv, HandedOut, Awake, NoStrandedBorrower, Waiters
    <2>2. lockWaiters # <<>> => 1 \in DOMAIN lockWaiters /\ Head(lockWaiters) = lockWaiters[1]
      BY DEF IInv, Types
    <2>3. Setup!LockNotStranded
      BY <2>2 DEF IInv, LockInv, Setup!LockNotStranded
    <2> QED
      BY <2>1, <2>3 DEF NobodyStranded, Setup!NobodyStranded
  <1> QED
    BY <1>1, Invariant, PTL

\* "Exactly once, however many callers arrive" (src/aiolab/sync.py): one
\* initializer at a time, none after one has succeeded, and whoever returns has
\* what that one made.
THEOREM ExactlyOnce == SpecBoth => []OneResult
  <1>1. IInv => OneResult
    <2> SUFFICES ASSUME IInv PROVE OneResult
      OBVIOUS
    <2>1. \A S \in SUBSET Clients : (\A x, y \in S : x = y) => Cardinality(S) <= 1
      <3> SUFFICES ASSUME NEW S \in SUBSET Clients, \A x, y \in S : x = y
                   PROVE  Cardinality(S) <= 1
        OBVIOUS
      <3>1. CASE S = {}
        BY <3>1, FS_EmptySet
      <3>2. ASSUME NEW x \in S PROVE Cardinality(S) <= 1
        <4>1. S = {x}
          OBVIOUS
        <4> QED
          BY <4>1, FS_Singleton
      <3> QED
        BY <3>1, <3>2
    <2>2. /\ Setup!At("factory") = {c \in Clients : InFactory(c)}
          /\ Setup!At("returned") = {c \in Clients : step[c] = "returned"}
      BY DEF Setup!At, InFactory
    <2>3. Cardinality(Setup!At("factory")) <= 1
      BY <2>1, <2>2 DEF IInv, LockInv
    <2>4. done => Setup!At("factory") = {}
      BY <2>2 DEF IInv, LockInv, ResultInv
    <2>5. Cardinality({c \in Clients : got[c] = c}) <= 1
      <3>1. \A c \in Clients : got[c] = c => c = result
        BY DEF IInv, ResultInv
      <3> QED
        BY <2>1, <3>1
    <2>6. \A c \in Setup!At("returned") : got[c] # NoResult /\ got[c] = result
      BY <2>2 DEF IInv, ResultInv
    <2>7. \A S : Setup!Cardinality(S) = Cardinality(S)
      BY DEF Setup!Cardinality, Cardinality
    <2> QED
      BY <2>3, <2>4, <2>5, <2>6, <2>7 DEF OneResult, Setup!InitializesOnce, Setup!ReturnersAgree
  <1> QED
    BY <1>1, Invariant, PTL
=============================================================================
