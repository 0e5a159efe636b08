----------------------------- MODULE TokenBucket -----------------------------
(***************************************************************************)
(* aiolab.sync.TokenBucket: tokens refilled lazily from the time elapsed,  *)
(* with the waiting serialised under an asyncio.Lock.                      *)
(*                                                                         *)
(* A tick is the time in which one token is refilled, and amounts are      *)
(* whole tokens, so that `deficit / rate` is a number of ticks.  Rounding  *)
(* of floats is not modelled.                                              *)
(***************************************************************************)
EXTENDS AsyncLock, Integers, FiniteSets

CONSTANTS
  Callers,        \* one acquire() call each
  Capacity,       \* capacity
  Amounts,        \* what is asked for; more than Capacity raises
  MaxTries,       \* bound: how often try_acquire() succeeds
  MaxLag,         \* bound: ticks between two looks at the clock
  MaxBack,        \* bound: how far the clock steps back
  MaxForward,     \* bound: how often it steps forward again
  Impatient       \* calls the application may cancel

ASSUME BucketAssumption ==
  /\ Capacity \in Nat \ {0}
  /\ Amounts \subseteq 1 .. Capacity
  /\ MaxTries \in Nat
  /\ MaxLag \in Nat /\ MaxLag > Capacity
  /\ MaxBack \in Nat
  /\ MaxForward \in Nat
  /\ NoTask \notin Callers
  /\ Impatient \subseteq Callers

VARIABLES
  tokens,   \* _tokens
  lag,      \* clock() - _updated
  offset,   \* clock() against the time that has passed
  forward,  \* history: how often it stepped forward
  tries,    \* history: how often try_acquire() succeeded
  left,     \* ticks left of the sleep of the one that sleeps
  calls,    \* per call: where it is
  asked,    \* per call: its amount
  line,     \* history: the calls that wait, in the order they were made
  meter     \* history: a bucket that fills by what is granted and leaks
            \* one token whenever the clock moves forward: a tick, or a
            \* step forward

clockVars == <<lag, offset, forward>>
bucketVars == <<loopVars, lockVars, clockVars, tokens, left, calls, asked, line, meter, tries>>

BucketInit ==
  /\ LoopInit(Callers)
  /\ LockInit
  /\ tokens = Capacity
  /\ lag = 0
  /\ offset = 0
  /\ forward = 0
  /\ tries = 0
  /\ left = 0
  /\ calls = [c \in Callers |-> "idle"]
  /\ asked = [c \in Callers |-> 0]
  /\ line = <<>>
  /\ meter = 0

-----------------------------------------------------------------------------
(* _refill, tokens, try_acquire *)

RefilledUncapped == IF lag <= 0 THEN tokens ELSE tokens + lag    \* mutant: no cap
Refilled == IF lag <= 0 THEN tokens ELSE Min({Capacity, tokens + lag})

\* Every look at the bucket moves _updated up to the clock, or back to it.
Looks == lag' = 0 /\ UNCHANGED <<offset, forward>>

Takes(amount) ==
  /\ tokens' = Refilled - amount
  /\ meter' = meter + amount

TryAcquire(amount) ==
  /\ Idle
  /\ Looks
  /\ \/ /\ Refilled >= amount
        /\ tries < MaxTries
        /\ tries' = tries + 1
        /\ Takes(amount)
     \/ /\ Refilled < amount
        /\ tokens' = Refilled
        /\ UNCHANGED <<meter, tries>>
  /\ UNCHANGED <<loopVars, lockVars, left, calls, asked, line>>

\* The property `tokens`.
Tokens ==
  /\ Idle
  /\ Looks
  /\ tokens' = Refilled
  /\ UNCHANGED <<loopVars, lockVars, left, calls, asked, line, meter, tries>>

-----------------------------------------------------------------------------
(* acquire *)

CallMoves(c, state) == calls' = [calls EXCEPT ![c] = state]

\* One look with the lock held: take and leave, or sleep holding the lock.
TakeOrSleep(c, amount) ==
  /\ Looks
  /\ IF Refilled >= amount
     THEN /\ Takes(amount)
          /\ CallMoves(c, "granted")
          /\ Release(c)
          /\ UNCHANGED left
     ELSE /\ tokens' = Refilled
          /\ left' = amount - Refilled
          /\ CallMoves(c, "sleeping")
          /\ locked' = TRUE
          /\ lockWaiters' = Dropped(lockWaiters, c)
          /\ Suspends(c, <<>>)
          /\ UNCHANGED meter

OutOfLine(c) == line' = Dropped(line, c)

Acquire(c, amount) ==
  /\ Idle
  /\ calls[c] = "idle"
  /\ asked' = [asked EXCEPT ![c] = amount]
  /\ IF MayBarge
     THEN /\ TakeOrSleep(c, amount)
          /\ line' = IF Refilled >= amount THEN line ELSE Append(line, c)
     ELSE /\ CallMoves(c, "waiting")
          /\ Queues(c)
          /\ line' = Append(line, c)
          /\ UNCHANGED <<clockVars, tokens, left, meter>>
  /\ UNCHANGED tries

\* The lock comes to a waiter, or the sleep is over.
Looking(c) ==
  /\ Turn(c)
  /\ calls[c] \in {"waiting", "sleeping"}
  /\ ~Thrown(c)
  /\ TakeOrSleep(c, asked[c])
  /\ IF Refilled >= asked[c] THEN OutOfLine(c) ELSE UNCHANGED line
  /\ UNCHANGED <<asked, tries>>

SleepEnds(c) ==
  /\ calls[c] = "sleeping"
  /\ left = 0
  /\ Completes(c)
  /\ UNCHANGED <<lockVars, clockVars, tokens, left, calls, asked, line, meter, tries>>

WaiterCancelled(c) ==
  /\ Turn(c)
  /\ calls[c] = "waiting"
  /\ Thrown(c)
  /\ CallMoves(c, "cancelled")
  /\ WaiterLeaves(c)
  /\ OutOfLine(c)
  /\ UNCHANGED <<clockVars, tokens, left, asked, meter, tries>>

SleeperCancelled(c) ==
  /\ Turn(c)
  /\ calls[c] = "sleeping"
  /\ Thrown(c)
  /\ CallMoves(c, "cancelled")
  /\ Release(c)
  /\ OutOfLine(c)
  /\ left' = 0
  /\ UNCHANGED <<clockVars, tokens, asked, meter, tries>>

CancelCall(c) ==
  /\ calls[c] \in {"waiting", "sleeping"}
  /\ ~Thrown(c)
  /\ Cancels(c)
  /\ UNCHANGED <<lockVars, clockVars, tokens, left, calls, asked, line, meter, tries>>

-----------------------------------------------------------------------------
(* Time *)

Leaks == meter' = Max({meter - 1, 0})

Tick ==
  /\ Idle
  /\ lag < MaxLag + forward
  /\ lag' = lag + 1
  /\ left' = Max({left - 1, 0})
  /\ Leaks
  /\ UNCHANGED <<loopVars, lockVars, offset, forward, tokens, calls, asked, line, tries>>

\* The clock is not monotonic: it steps back, and perhaps forward again to
\* where it should be.
StepBack ==
  /\ Idle
  /\ offset > -MaxBack
  /\ offset' = offset - 1
  /\ lag' = lag - 1
  /\ UNCHANGED <<loopVars, lockVars, forward, tokens, left, calls, asked, line, meter, tries>>

StepForward ==
  /\ Idle
  /\ forward < MaxForward
  /\ offset < 0
  /\ forward' = forward + 1
  /\ offset' = offset + 1
  /\ lag' = lag + 1
  /\ Leaks
  /\ UNCHANGED <<loopVars, lockVars, tokens, left, calls, asked, line, tries>>

BucketLoopStep == \E c \in Callers : Looking(c) \/ WaiterCancelled(c) \/ SleeperCancelled(c)

BucketNext ==
  \/ BucketLoopStep
  \/ Tick
  \/ StepBack
  \/ StepForward
  \/ Tokens
  \/ \E amount \in Amounts : TryAcquire(amount)
  \/ \E c \in Callers : SleepEnds(c)
  \/ \E c \in Callers, amount \in Amounts : Acquire(c, amount)
  \/ \E c \in Impatient : CancelCall(c)

BucketSpec == BucketInit /\ [][BucketNext]_bucketVars

\* The loop keeps turning, time passes, and a sleep that is over ends.
FairBucketSpec ==
  /\ BucketSpec
  /\ WF_bucketVars(BucketLoopStep)
  /\ WF_bucketVars(Tick)
  /\ \A c \in Callers : WF_bucketVars(SleepEnds(c))

-----------------------------------------------------------------------------
(* Properties *)

\* Every variable has its type.
BucketTypeOK ==
  /\ LoopTypeOK(Callers)
  /\ locked \in BOOLEAN
  /\ lockWaiters \in Seq(Callers)
  /\ tokens \in 0 .. Capacity
  /\ lag \in -MaxBack .. (MaxLag + MaxForward + MaxBack)
  /\ offset \in -MaxBack .. 0
  /\ forward \in 0 .. MaxForward
  /\ tries \in 0 .. MaxTries
  /\ left \in 0 .. Capacity
  /\ calls \in [Callers -> {"idle", "waiting", "sleeping", "granted", "cancelled"}]
  /\ asked \in [Callers -> {0} \cup Amounts]
  /\ line \in Seq(Callers)
  /\ meter \in Nat

\* The rate limit itself: over any stretch of t ticks in which the clock stepped
\* forward n times, acquire and try_acquire together never grant more than
\* Capacity + t + n, however often it stepped back, before or in the stretch, and
\* whatever was looked at in between.
RateHeld == meter <= Capacity

\* The calls that were made before c, still wait and have not been cancelled.
Ahead(c) ==
  {line[k] : k \in {j \in DOMAIN line : /\ ~Thrown(line[j])
                                       /\ \A n \in 1 .. j : line[n] # c}}

\* Calls of acquire are granted in the order they were made, whatever is
\* cancelled between them; a new call overtakes nobody.
ServedInOrder ==
  [][\A c \in Callers : calls[c] # "granted" /\ calls'[c] = "granted" => Ahead(c) = {}]_bucketVars

\* A call of acquire returns: its sleep is long enough.
AcquireReturns ==
  \A c \in Callers : (calls[c] \in {"waiting", "sleeping"}) ~> (calls[c] \in {"granted", "cancelled"})
=============================================================================
