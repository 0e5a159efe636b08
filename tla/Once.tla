-------------------------------- MODULE Once --------------------------------
(***************************************************************************)
(* aiolab.sync.Once: run an initializer once for many callers, under an    *)
(* asyncio.Lock and a flag that is tested again inside it.                 *)
(***************************************************************************)
EXTENDS AsyncLock, FiniteSets

CONSTANTS
  Clients,          \* one run() call each
  NoResult,         \* _result before any
  FactorySuspends,  \* whether the initializer awaits something
  FactoryOutcomes,  \* how it ends: "ok", "error"
  Cancellable       \* calls the application may cancel

OnceAssumption ==
  /\ NoTask \notin Clients
  /\ NoResult \notin Clients
  /\ FactorySuspends \subseteq BOOLEAN
  /\ FactoryOutcomes \subseteq {"ok", "error"}
  /\ Cancellable \subseteq Clients

VARIABLES
  done,      \* _done
  result,    \* _result, named by the call whose initializer made it
  calls,     \* calls
  pc,        \* per call: where it is
  got        \* per call: what it returned

onceVars == <<done, result, calls>>
vars == <<loopVars, lockVars, onceVars, pc, got>>

Init ==
  /\ LoopInit(Clients)
  /\ LockInit
  /\ done = FALSE
  /\ result = NoResult
  /\ calls = 0
  /\ pc = [c \in Clients |-> "idle"]
  /\ got = [c \in Clients |-> NoResult]

Moves(c, state) == pc' = [pc EXCEPT ![c] = state]

Returns(c, value) ==
  /\ Moves(c, "returned")
  /\ got' = [got EXCEPT ![c] = value]

\* The lock is held: count the call and await factory().
BeginFactory(c) ==
  /\ calls' = calls + 1
  /\ locked' = TRUE
  /\ lockWaiters' = Dropped(lockWaiters, c)
  /\ Moves(c, "factory")
  /\ \E suspends \in FactorySuspends :
       IF suspends THEN Suspends(c, <<>>) ELSE Continues(c, <<>>)
  /\ UNCHANGED <<done, result, got>>

Run(c) ==
  /\ Idle
  /\ pc[c] = "idle"
  /\ \/ /\ done
        /\ Returns(c, result)
        /\ UNCHANGED <<loopVars, lockVars, onceVars>>
     \/ /\ ~done
        /\ MayBarge
        /\ BeginFactory(c)
     \/ /\ ~done
        /\ ~MayBarge
        /\ Moves(c, "waiting")
        /\ Queues(c)
        /\ UNCHANGED <<onceVars, got>>

\* The lock comes to a waiter, which looks at the flag again.
StillToDoUnchecked == TRUE               \* mutant
StillToDo == ~done

Granted(c) ==
  /\ Turn(c)
  /\ pc[c] = "waiting"
  /\ ~Thrown(c)
  /\ \/ /\ StillToDo
        /\ BeginFactory(c)
     \/ /\ ~StillToDo
        /\ Returns(c, result)
        /\ Release(c)
        /\ UNCHANGED onceVars

FactoryReturns(c) ==
  /\ Turn(c)
  /\ pc[c] = "factory"
  /\ ~Thrown(c)
  /\ "ok" \in FactoryOutcomes
  /\ result' = c
  /\ done' = TRUE
  /\ Returns(c, c)
  /\ Release(c)
  /\ UNCHANGED calls

\* An exception or a cancellation leaves the flag unset.
FactoryFails(c) ==
  /\ Turn(c)
  /\ pc[c] = "factory"
  /\ Thrown(c) \/ "error" \in FactoryOutcomes
  /\ Moves(c, IF Thrown(c) THEN "cancelled" ELSE "raised")
  /\ Release(c)
  /\ UNCHANGED <<onceVars, got>>

WaiterCancelled(c) ==
  /\ Turn(c)
  /\ pc[c] = "waiting"
  /\ Thrown(c)
  /\ Moves(c, "cancelled")
  /\ WaiterLeaves(c)
  /\ UNCHANGED <<onceVars, got>>

\* What the initializer awaits completes.
FactoryWakes(c) ==
  /\ pc[c] = "factory"
  /\ Completes(c)
  /\ UNCHANGED <<lockVars, onceVars, pc, got>>

Cancel(c) ==
  /\ pc[c] \in {"waiting", "factory"}
  /\ ~Thrown(c)
  /\ Cancels(c)
  /\ UNCHANGED <<lockVars, onceVars, pc, got>>

LoopStep ==
  \E c \in Clients : Granted(c) \/ FactoryReturns(c) \/ FactoryFails(c) \/ WaiterCancelled(c)

Next ==
  \/ LoopStep
  \/ \E c \in Clients : Run(c) \/ FactoryWakes(c)
  \/ \E c \in Cancellable : Cancel(c)

Spec == Init /\ [][Next]_vars

-----------------------------------------------------------------------------
(* Properties *)

At(state) == {c \in Clients : pc[c] = state}

\* Every variable has its type.
TypeOK ==
  /\ LoopTypeOK(Clients)
  /\ locked \in BOOLEAN
  /\ lockWaiters \in Seq(Clients)
  /\ done \in BOOLEAN
  /\ result \in Clients \cup {NoResult}
  /\ calls \in 0 .. Cardinality(Clients)
  /\ pc \in [Clients -> {"idle", "waiting", "factory", "returned", "raised", "cancelled"}]
  /\ got \in [Clients -> Clients \cup {NoResult}]

\* "Exactly once, however many callers arrive": no two initializers run at
\* once, and none runs after one has succeeded, with callers queued, woken or
\* cancelled in any order.
InitializesOnce ==
  /\ Cardinality(At("factory")) <= 1
  /\ done => At("factory") = {}
  /\ Cardinality({c \in Clients : got[c] = c}) <= 1

\* Every caller that returns has what the one successful initializer made: a
\* failed or cancelled setup never reaches a caller as a result.
ReturnersAgree ==
  \A c \in At("returned") : got[c] # NoResult /\ got[c] = result

\* No lost wakeup in the lock, with waiters cancelled before and after they
\* are woken.
NobodyStranded == LockNotStranded

\* A caller of run() gets an answer, whoever fails or is cancelled before it.
RunReturns == \A c \in Clients : (pc[c] = "waiting") ~> (pc[c] \notin {"waiting", "factory"})
=============================================================================
