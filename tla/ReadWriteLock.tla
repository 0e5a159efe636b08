---------------------------- MODULE ReadWriteLock ----------------------------
(***************************************************************************)
(* aiolab.sync.ReadWriteLock and its context managers.                     *)
(*                                                                         *)
(* Nobody suspends while holding the lock inside the asyncio.Condition:    *)
(* its only suspension is wait(), which has released it.  So that lock is  *)
(* free whenever a turn ends, and each stretch of acquire_* or release_*   *)
(* between two suspensions is one step.  A release never suspends, which   *)
(* is why a cancelled holder still releases.                               *)
(***************************************************************************)
EXTENDS EventLoop, FiniteSets

CONSTANTS
  Clients,      \* tasks using the lock, again and again
  Readers,      \* those that may read
  Writers,      \* those that may write
  Cancellable   \* those that may be cancelled while they wait

ASSUME LockAssumption ==
  /\ IsFiniteSet(Clients)
  /\ NoTask \notin Clients
  /\ Readers \subseteq Clients
  /\ Writers \subseteq Clients
  /\ Cancellable \subseteq Clients

VARIABLES
  readers,           \* _readers
  writer,            \* _writer
  waiting_writers,   \* _waiting_writers
  waiters,           \* Condition._waiters that have not been woken
  pc                 \* per client: where it is

countVars == <<readers, writer, waiting_writers>>
vars == <<loopVars, countVars, waiters, pc>>

Init ==
  /\ LoopInit(Clients)
  /\ readers = 0
  /\ writer = FALSE
  /\ waiting_writers = 0
  /\ waiters = <<>>
  /\ pc = [c \in Clients |-> "idle"]

Moves(c, state) == pc' = [pc EXCEPT ![c] = state]

\* Condition.wait: the client sleeps until notify_all.
Waits(c, state) ==
  /\ waiters' = Append(waiters, c)
  /\ Moves(c, state)
  /\ Suspends(c, <<>>)

-----------------------------------------------------------------------------
(* acquire_read, release_read *)

MayReadPastWriters == ~writer                            \* mutant
MayRead == ~writer /\ waiting_writers = 0

\* wait_for's look at the predicate, and what follows it.
ReadOrWait(c) ==
  IF MayRead
  THEN /\ readers' = readers + 1
       /\ Moves(c, "read")
       /\ Ends(c, <<>>, <<>>)
       /\ UNCHANGED <<writer, waiting_writers, waiters>>
  ELSE /\ Waits(c, "waitRead")
       /\ UNCHANGED countVars

AcquireRead(c) ==
  /\ Idle
  /\ pc[c] = "idle"
  /\ ReadOrWait(c)

ReaderWakes(c) ==
  /\ Turn(c)
  /\ pc[c] = "waitRead"
  /\ ~Thrown(c)
  /\ ReadOrWait(c)

\* notify_all wakes everyone who waits, in the order they began to.
NotifyAll(c, notified) ==
  /\ Ends(c, notified, <<>>)
  /\ waiters' = IF notified = <<>> THEN waiters ELSE <<>>

WokenByReaderNever == <<>>                               \* mutant
WokenByReader == IF readers = 1 THEN waiters ELSE <<>>

ReleaseRead(c) ==
  /\ Idle
  /\ pc[c] = "read"
  /\ readers' = readers - 1
  /\ Moves(c, "idle")
  /\ NotifyAll(c, WokenByReader)
  /\ UNCHANGED <<writer, waiting_writers>>

-----------------------------------------------------------------------------
(* acquire_write, release_write *)

MayWriteBesideReaders == ~writer                         \* mutant
MayWrite == ~writer /\ readers = 0

\* `asked` is _waiting_writers with this writer counted.
WriteOrWait(c, asked) ==
  IF MayWrite
  THEN /\ writer' = TRUE
       /\ waiting_writers' = asked - 1
       /\ Moves(c, "write")
       /\ Ends(c, <<>>, <<>>)
       /\ UNCHANGED <<readers, waiters>>
  ELSE /\ waiting_writers' = asked
       /\ Waits(c, "waitWrite")
       /\ UNCHANGED <<readers, writer>>

AcquireWriteUncounted(c) ==                              \* mutant
  /\ Idle
  /\ pc[c] = "idle"
  /\ WriteOrWait(c, waiting_writers)

AcquireWrite(c) ==
  /\ Idle
  /\ pc[c] = "idle"
  /\ WriteOrWait(c, waiting_writers + 1)

WriterWakes(c) ==
  /\ Turn(c)
  /\ pc[c] = "waitWrite"
  /\ ~Thrown(c)
  /\ WriteOrWait(c, waiting_writers)

WokenByWriterFirst == IF waiters = <<>> THEN <<>> ELSE <<Head(waiters)>>  \* mutant
WokenByWriter == waiters

ReleaseWrite(c) ==
  /\ Idle
  /\ pc[c] = "write"
  /\ writer' = FALSE
  /\ Moves(c, "idle")
  /\ NotifyAll(c, WokenByWriter)
  /\ UNCHANGED <<readers, waiting_writers>>

-----------------------------------------------------------------------------
(* Cancellation *)

\* A cancelled waiter is not notified: it leaves `waiters` here.
Cancel(c) ==
  /\ pc[c] \in {"waitRead", "waitWrite"}
  /\ ~Thrown(c)
  /\ Cancels(c)
  /\ waiters' = Dropped(waiters, c)
  /\ UNCHANGED <<countVars, pc>>

ReaderCancelled(c) ==
  /\ Turn(c)
  /\ pc[c] = "waitRead"
  /\ Thrown(c)
  /\ Moves(c, "idle")
  /\ Ends(c, <<>>, <<>>)
  /\ UNCHANGED <<countVars, waiters>>

\* Mutant: the decrement is not in a `finally`.
PhantomWriter(c) ==
  /\ Turn(c)
  /\ pc[c] = "waitWrite"
  /\ Thrown(c)
  /\ Moves(c, "idle")
  /\ Ends(c, <<>>, <<>>)
  /\ UNCHANGED <<countVars, waiters>>

\* The `finally` withdraws the writer, and tells nobody.
WriterCancelled(c) ==
  /\ Turn(c)
  /\ pc[c] = "waitWrite"
  /\ Thrown(c)
  /\ waiting_writers' = waiting_writers - 1
  /\ Moves(c, "idle")
  /\ Ends(c, <<>>, <<>>)
  /\ UNCHANGED <<readers, writer, waiters>>

-----------------------------------------------------------------------------

LoopStep ==
  \E c \in Clients :
    ReaderWakes(c) \/ WriterWakes(c) \/ ReaderCancelled(c) \/ WriterCancelled(c)

ReleaseEither(c) == ReleaseRead(c) \/ ReleaseWrite(c)

Next ==
  \/ LoopStep
  \/ \E c \in Readers : AcquireRead(c)
  \/ \E c \in Writers : AcquireWrite(c)
  \/ \E c \in Clients : ReleaseEither(c)
  \/ \E c \in Cancellable : Cancel(c)

Spec == Init /\ [][Next]_vars

\* The loop keeps turning, and whoever is inside leaves eventually.
FairSpec ==
  /\ Spec
  /\ WF_vars(LoopStep)
  /\ \A c \in Clients : WF_vars(ReleaseEither(c))

-----------------------------------------------------------------------------
(* Properties *)

At(states) == {c \in Clients : pc[c] \in states}

\* Every variable has its type.
TypeOK ==
  /\ LoopTypeOK(Clients)
  /\ readers \in Nat
  /\ writer \in BOOLEAN
  /\ waiting_writers \in Nat
  /\ waiters \in Seq(Clients)
  /\ pc \in [Clients -> {"idle", "waitRead", "read", "waitWrite", "write"}]

\* Readers together or one writer alone, whatever is cancelled and in
\* whatever order woken clients look at the lock.
MutualExclusion ==
  \A c, d \in Clients : pc[c] = "write" /\ pc[d] \in {"read", "write"} => c = d

\* The three counters agree with who is where: a cancelled or overtaken
\* client leaves no phantom reader or waiting writer behind.
CountersExact ==
  /\ readers = Cardinality(At({"read"}))
  /\ waiting_writers = Cardinality(At({"waitWrite"}))
  /\ writer <=> At({"write"}) # {}

\* Who sleeps on the condition: waiting, with a pending future.
Asleep(state) == {c \in At({state}) : fut[c] = "pending"}

\* No lost wakeup of a writer: it sleeps only while somebody is inside.
NoStrandedWriter == Asleep("waitWrite") # {} => writer \/ readers > 0

\* No lost wakeup of a reader: only the withdrawal of a cancelled writer leaves
\* one asleep with no writer inside or waiting.
Stranded == Asleep("waitRead") # {} /\ ~writer /\ waiting_writers = 0
OnlyWithdrawalStrands ==
  [][Stranded' /\ ~Stranded => \E c \in Writers : WriterCancelled(c)]_vars

\* Nobody is asleep for ever on a lock that nobody has or is about to take.
NobodyAsleepOnFreeLock ==
  (~writer /\ readers = 0 /\ ready = <<>>) => waiters = <<>>

\* "Writers not starved", by readers that keep coming: while writers wait, one
\* of them gets the lock, or they are all cancelled.
WritersNotStarved == At({"waitWrite"}) # {} ~> (writer \/ At({"waitWrite"}) = {})

Contract == INSTANCE RWContract WITH
  reading <- At({"read"}),
  writing <- At({"write"}),
  asking <- At({"waitWrite"})

\* The lock implements RWContract: the counters decide as the sets would.
ImplementsContract == Contract!Spec
=============================================================================
