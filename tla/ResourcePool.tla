---------------------------- MODULE ResourcePool ----------------------------
(***************************************************************************)
(* aiolab.sync.ResourcePool: resources in an asyncio.LifoQueue, borrowed   *)
(* through `async with pool.borrow()`.  The queue has no bound, so only    *)
(* borrowers wait.                                                         *)
(***************************************************************************)
EXTENDS EventLoop, Integers, FiniteSets

CONSTANTS
  Clients,      \* tasks that borrow, again and again
  Resources,    \* what __init__ is given
  NoResource,
  Cancellable   \* tasks that may be cancelled while they wait

ASSUME BorrowAssumption ==
  /\ IsFiniteSet(Clients)
  /\ IsFiniteSet(Resources)
  /\ Resources # {}                   \* otherwise __init__ raises
  /\ NoResource \notin Resources
  /\ NoTask \notin Clients
  /\ Cancellable \subseteq Clients

VARIABLES
  free,          \* _free._queue: the last one put is the first one taken
  getters,       \* _free._getters
  in_use,        \* _in_use
  peak_in_use,   \* peak_in_use
  pc,            \* per client: where it is
  resource       \* per client: _Borrow._resource

vars == <<loopVars, free, getters, in_use, peak_in_use, pc, resource>>

Init ==
  /\ LoopInit(Clients)
  /\ free \in SetToSeqs(Resources)
  /\ getters = <<>>
  /\ in_use = 0
  /\ peak_in_use = 0
  /\ pc = [c \in Clients |-> "idle"]
  /\ resource = [c \in Clients |-> NoResource]

Moves(c, state) == pc' = [pc EXCEPT ![c] = state]

-----------------------------------------------------------------------------
(* acquire *)

\* get()'s look at the queue, and the counting that follows it.
TakeOrWait(c) ==
  IF free = <<>>
  THEN /\ getters' = Append(getters, c)
       /\ Moves(c, "waiting")
       /\ Suspends(c, <<>>)
       /\ UNCHANGED <<free, in_use, peak_in_use, resource>>
  ELSE /\ free' = Front(free)
       /\ resource' = [resource EXCEPT ![c] = Last(free)]
       /\ in_use' = in_use + 1
       /\ peak_in_use' = Max({peak_in_use, in_use + 1})
       /\ Moves(c, "using")
       /\ Ends(c, <<>>, <<>>)
       /\ UNCHANGED getters

Acquire(c) ==
  /\ Idle
  /\ pc[c] = "idle"
  /\ TakeOrWait(c)

BorrowerWakes(c) ==
  /\ Turn(c)
  /\ pc[c] = "waiting"
  /\ ~Thrown(c)
  /\ TakeOrWait(c)

\* A borrower cancelled after it was woken passes the resource on.
KeepsWakeup(c) == FALSE                   \* mutant
PassesOn(c) == fut[c] = "done" /\ free # <<>>

BorrowerCancelled(c) ==
  LET rest == Dropped(getters, c)
  IN /\ Turn(c)
     /\ pc[c] = "waiting"
     /\ Thrown(c)
     /\ Moves(c, "idle")
     /\ getters' = IF PassesOn(c) THEN Popped(rest) ELSE rest
     /\ Ends(c, IF PassesOn(c) THEN Woken(rest) ELSE <<>>, <<>>)
     /\ UNCHANGED <<free, in_use, peak_in_use, resource>>

-----------------------------------------------------------------------------
(* release *)

\* Mutant: it is not put back on the way out of a cancelled body.
ReleaseForgets(c) ==
  /\ Idle
  /\ pc[c] = "using"
  /\ Moves(c, "idle")
  /\ \/ /\ free' = Append(free, resource[c])
        /\ in_use' = in_use - 1
        /\ getters' = Popped(getters)
        /\ Ends(c, Woken(getters), <<>>)
     \/ UNCHANGED <<loopVars, free, in_use, getters>>
  /\ resource' = [resource EXCEPT ![c] = NoResource]
  /\ UNCHANGED peak_in_use

\* The end of the body, however it ends: __aexit__ does not suspend.
Release(c) ==
  /\ Idle
  /\ pc[c] = "using"
  /\ Moves(c, "idle")
  /\ in_use' = in_use - 1
  /\ free' = Append(free, resource[c])
  /\ getters' = Popped(getters)
  /\ resource' = [resource EXCEPT ![c] = NoResource]
  /\ Ends(c, Woken(getters), <<>>)
  /\ UNCHANGED peak_in_use

Cancel(c) ==
  /\ pc[c] = "waiting"
  /\ ~Thrown(c)
  /\ Cancels(c)
  /\ UNCHANGED <<free, getters, in_use, peak_in_use, pc, resource>>

LoopStep == \E c \in Clients : BorrowerWakes(c) \/ BorrowerCancelled(c)

Next ==
  \/ LoopStep
  \/ \E c \in Clients : Acquire(c) \/ Release(c)
  \/ \E c \in Cancellable : Cancel(c)

Spec == Init /\ [][Next]_vars

-----------------------------------------------------------------------------
(* Properties *)

At(state) == {c \in Clients : pc[c] = state}

\* Every variable has its type.
TypeOK ==
  /\ LoopTypeOK(Clients)
  /\ free \in Seq(Resources)
  /\ getters \in Seq(Clients)
  /\ in_use \in 0 .. Cardinality(Resources)
  /\ peak_in_use \in 0 .. Cardinality(Resources)
  /\ pc \in [Clients -> {"idle", "waiting", "using"}]
  /\ resource \in [Clients -> Resources \cup {NoResource}]

\* "A task cancelled mid-use does not permanently shrink the pool": each
\* resource is in one place, in the queue or with one borrower, so that no two
\* borrowers ever share one.
NothingLost ==
  /\ Len(free) + Cardinality(At("using")) = Cardinality(Resources)
  /\ ToSet(free) \cup {resource[c] : c \in At("using")} = Resources

\* The counters agree with who is inside, and the peak is one that was reached.
CountersExact ==
  /\ in_use = Cardinality(At("using"))
  /\ in_use <= peak_in_use
  /\ peak_in_use <= Min({Cardinality(Clients), Cardinality(Resources)})

\* No lost wakeup: while a borrower sleeps, each free resource has a woken
\* borrower on its way, even when woken ones are cancelled.
NoStrandedBorrower ==
  LET waiting == At("waiting")
  IN (\E c \in waiting : fut[c] = "pending") =>
        Len(free) <= Cardinality({c \in waiting : fut[c] = "done"})
=============================================================================
