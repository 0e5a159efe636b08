----------------------------- MODULE SyncProofs -----------------------------
(***************************************************************************)
(* ReadWriteLock keeps its counters exact, excludes as it should, strands  *)
(* no writer, strands readers only by a writer that withdraws, and         *)
(* implements RWContract, for every set of clients.  The rate limit of     *)
(* TokenBucket holds for every capacity and whatever its clock does, its   *)
(* calls are served in their order, and its lock strands none of them.     *)
(***************************************************************************)
EXTENDS ReadWriteLock, TokenBucket, EventLoopProofs

\* The counters decide who may enter, so exclusion is only inductive together
\* with their exactness.
IInv == TypeOK /\ CountersExact /\ MutualExclusion

-----------------------------------------------------------------------------
(* Counting clients *)

\* The clients at a place can be counted.
LEMMA AtFinite ==
  ASSUME NEW states
  PROVE  IsFiniteSet(At(states)) /\ Cardinality(At(states)) \in Nat
  BY LockAssumption, FS_Subset, FS_CardinalityType DEF LockAssumption, At

\* Nobody else's place changes.
LEMMA AtUnmoved ==
  ASSUME NEW c \in Clients, NEW new, NEW s, pc[c] # s, new # s,
         pc \in [Clients -> {"idle", "waitRead", "read", "waitWrite", "write"}],
         Moves(c, new)
  PROVE  At({s})' = At({s})
  BY DEF At, Moves

\* And how many arrive at a place or leave it.
LEMMA CountArrives ==
  ASSUME NEW c \in Clients, NEW s, pc[c] # s,
         pc \in [Clients -> {"idle", "waitRead", "read", "waitWrite", "write"}],
         Moves(c, s)
  PROVE  Cardinality(At({s}))' = Cardinality(At({s})) + 1 /\ At({s})' # {}
  <1>1. At({s})' = At({s}) \cup {c}
    BY DEF At, Moves
  <1>2. c \notin At({s})
    BY DEF At
  <1> QED
    BY <1>1, <1>2, AtFinite, FS_AddElement

\* A client that leaves a place makes the count there one less.
LEMMA CountLeaves ==
  ASSUME NEW c \in Clients, NEW s, NEW new, new # s, pc[c] = s,
         pc \in [Clients -> {"idle", "waitRead", "read", "waitWrite", "write"}],
         Moves(c, new)
  PROVE  /\ Cardinality(At({s}))' = Cardinality(At({s})) - 1
         /\ Cardinality(At({s})) > 0
  <1>1. At({s})' = At({s}) \ {c}
    BY DEF At, Moves
  <1>2. c \in At({s})
    BY DEF At
  <1>3. IsFiniteSet(At({s})) /\ Cardinality(At({s})) \in Nat
    BY AtFinite
  <1>4. Cardinality(At({s})) # 0
    BY <1>2, <1>3, FS_EmptySet
  <1>5. Cardinality(At({s}) \ {c}) = Cardinality(At({s})) - 1
    BY <1>2, <1>3, FS_RemoveElement
  <1>6. Cardinality(At({s})) > 0
    BY <1>3, <1>4
  <1>7. Cardinality(At({s}))' = Cardinality(At({s})) - 1
    BY <1>1, <1>5
  <1> QED
    BY <1>6, <1>7

\* A counter is zero when nobody is where it counts.
LEMMA NobodyAt ==
  ASSUME NEW s, Cardinality(At({s})) = 0
  PROVE  At({s}) = {}
  BY AtFinite, FS_EmptySet

-----------------------------------------------------------------------------
(* Every step keeps the invariant *)

States == {"idle", "waitRead", "read", "waitWrite", "write"}

\* A client that goes to sleep, or looks again and goes back to sleep.
LEMMA WaitsTypes ==
  ASSUME TypeOK, NEW c \in Clients, NEW state \in States, Waits(c, state)
  PROVE  /\ LoopTypeOK(Clients)'
         /\ waiters' \in Seq(Clients)
         /\ pc' \in [Clients -> States]
  <1>1. <<>> \in Seq(Clients)
    OBVIOUS
  <1>2. LoopTypeOK(Clients)'
    BY <1>1, SuspendsType DEF Waits, TypeOK
  <1>3. waiters' \in Seq(Clients)
    BY DEF Waits, TypeOK
  <1>4. pc' \in [Clients -> States]
    BY DEF Waits, Moves, TypeOK, States
  <1> QED
    BY <1>2, <1>3, <1>4

\* A client whose turn ends without a sleep.
LEMMA EndsTypes ==
  ASSUME TypeOK, NEW c \in Clients, NEW state \in States, NEW notified \in Seq(Clients),
         Ends(c, notified, <<>>), Moves(c, state)
  PROVE  LoopTypeOK(Clients)' /\ pc' \in [Clients -> States]
  <1>1. <<>> \in Seq(Clients)
    OBVIOUS
  <1>2. LoopTypeOK(Clients)'
    BY <1>1, EndsType DEF TypeOK
  <1>3. pc' \in [Clients -> States]
    BY DEF Moves, TypeOK, States
  <1> QED
    BY <1>2, <1>3

\* acquire_read, at its first look and after each wakeup.
LEMMA ReadOrWaitSafe ==
  ASSUME IInv, NEW c \in Clients, pc[c] \in {"idle", "waitRead"}, ReadOrWait(c)
  PROVE  IInv'
  <1> USE DEF IInv
  <1>1. CASE MayRead
    <2>1. /\ readers' = readers + 1
          /\ Moves(c, "read")
          /\ Ends(c, <<>>, <<>>)
          /\ UNCHANGED <<writer, waiting_writers, waiters>>
      BY <1>1 DEF ReadOrWait
    <2>2. TypeOK'
      <3>1. <<>> \in Seq(Clients)
        OBVIOUS
      <3>2. "read" \in States
        BY DEF States
      <3>3. LoopTypeOK(Clients)' /\ pc' \in [Clients -> States]
        BY <2>1, <3>1, <3>2, EndsTypes
      <3> QED
        BY <2>1, <3>3 DEF TypeOK, States
    <2>3. CountersExact'
      <3>1. Cardinality(At({"read"}))' = Cardinality(At({"read"})) + 1
        BY <2>1, CountArrives DEF TypeOK
      <3>2. At({"write"})' = At({"write"}) /\ At({"waitWrite"})' = At({"waitWrite"})
        BY <2>1, AtUnmoved DEF TypeOK
      <3> QED
        BY <2>1, <3>1, <3>2 DEF CountersExact
    <2>4. MutualExclusion'
      <3>1. At({"write"}) = {}
        BY <1>1 DEF MayRead, CountersExact
      <3>2. \A d \in Clients : pc[d] # "write"
        BY <3>1 DEF At
      <3> QED
        BY <2>1, <3>2 DEF MutualExclusion, Moves, TypeOK
    <2> QED
      BY <2>2, <2>3, <2>4
  <1>2. CASE ~MayRead
    <2>1. Waits(c, "waitRead") /\ UNCHANGED countVars
      BY <1>2 DEF ReadOrWait
    <2>2. TypeOK'
      <3>1. "waitRead" \in States
        BY DEF States
      <3> QED
        BY <2>1, <3>1, WaitsTypes DEF TypeOK, States, countVars
    <2>3. At({"read"})' = At({"read"}) /\ At({"write"})' = At({"write"})
            /\ At({"waitWrite"})' = At({"waitWrite"})
      BY <2>1 DEF Waits, Moves, At, TypeOK
    <2>4. CountersExact'
      BY <2>1, <2>3 DEF CountersExact, countVars
    <2>5. MutualExclusion'
      BY <2>1 DEF MutualExclusion, Waits, Moves, TypeOK
    <2> QED
      BY <2>2, <2>4, <2>5
  <1> QED
    BY <1>1, <1>2

\* release_read.
LEMMA ReleaseReadSafe ==
  ASSUME IInv, NEW c \in Clients, ReleaseRead(c)
  PROVE  IInv'
  <1> USE DEF IInv
  <1>1. /\ pc[c] = "read"
        /\ readers' = readers - 1
        /\ Moves(c, "idle")
        /\ NotifyAll(c, WokenByReader)
        /\ UNCHANGED <<writer, waiting_writers>>
    BY DEF ReleaseRead
  <1>2. CountersExact' /\ readers > 0
    <2>1. /\ Cardinality(At({"read"}))' = Cardinality(At({"read"})) - 1
          /\ Cardinality(At({"read"})) > 0
      BY <1>1, CountLeaves DEF TypeOK
    <2>2. At({"write"})' = At({"write"}) /\ At({"waitWrite"})' = At({"waitWrite"})
      BY <1>1, AtUnmoved DEF TypeOK
    <2> QED
      BY <1>1, <2>1, <2>2 DEF CountersExact
  <1>3. TypeOK'
    <2>1. WokenByReader \in Seq(Clients)
      BY DEF WokenByReader, TypeOK
    <2>2. "idle" \in States
      BY DEF States
    <2>3. LoopTypeOK(Clients)' /\ pc' \in [Clients -> States]
      BY <1>1, <2>1, <2>2, EndsTypes DEF NotifyAll
    <2>4. waiters' \in Seq(Clients)
      BY <1>1 DEF NotifyAll, TypeOK
    <2> QED
      BY <1>1, <1>2, <2>3, <2>4 DEF TypeOK, States
  <1>4. MutualExclusion'
    BY <1>1 DEF MutualExclusion, Moves, TypeOK
  <1> QED
    BY <1>2, <1>3, <1>4

\* release_write.
LEMMA ReleaseWriteSafe ==
  ASSUME IInv, NEW c \in Clients, ReleaseWrite(c)
  PROVE  IInv'
  <1> USE DEF IInv
  <1>1. /\ pc[c] = "write"
        /\ writer' = FALSE
        /\ Moves(c, "idle")
        /\ NotifyAll(c, WokenByWriter)
        /\ UNCHANGED <<readers, waiting_writers>>
    BY DEF ReleaseWrite
  <1>2. CountersExact'
    <2>1. At({"read"})' = At({"read"}) /\ At({"waitWrite"})' = At({"waitWrite"})
      BY <1>1, AtUnmoved DEF TypeOK
    <2>2. At({"write"})' = {}
      BY <1>1 DEF At, Moves, MutualExclusion, TypeOK
    <2> QED
      BY <1>1, <2>1, <2>2 DEF CountersExact
  <1>3. TypeOK'
    <2>1. WokenByWriter \in Seq(Clients)
      BY DEF WokenByWriter, TypeOK
    <2>2. "idle" \in States
      BY DEF States
    <2>3. LoopTypeOK(Clients)' /\ pc' \in [Clients -> States]
      BY <1>1, <2>1, <2>2, EndsTypes DEF NotifyAll
    <2>4. waiters' \in Seq(Clients)
      BY <1>1 DEF NotifyAll, TypeOK
    <2> QED
      BY <1>1, <2>3, <2>4 DEF TypeOK, States
  <1>4. MutualExclusion'
    BY <1>1 DEF MutualExclusion, Moves, TypeOK
  <1> QED
    BY <1>2, <1>3, <1>4

\* acquire_write, with the writer counted by `claimed`: before it calls, it is
\* idle and not yet counted; after a wakeup it is counted already.
LEMMA WriteOrWaitSafe ==
  ASSUME IInv, NEW c \in Clients, NEW claimed \in Nat, WriteOrWait(c, claimed),
         \/ pc[c] = "idle" /\ claimed = waiting_writers + 1
         \/ pc[c] = "waitWrite" /\ claimed = waiting_writers
  PROVE  IInv'
  <1> USE DEF IInv
  <1>1. CASE MayWrite
    <2>1. /\ writer' = TRUE
          /\ waiting_writers' = claimed - 1
          /\ Moves(c, "write")
          /\ Ends(c, <<>>, <<>>)
          /\ UNCHANGED <<readers, waiters>>
      BY <1>1 DEF WriteOrWait
    <2>2. CountersExact' /\ waiting_writers' \in Nat
      <3>1. At({"read"})' = At({"read"})
        BY <2>1, AtUnmoved DEF TypeOK
      <3>2. At({"write"})' # {}
        BY <2>1, CountArrives DEF TypeOK
      <3>3. waiting_writers' = Cardinality(At({"waitWrite"}))' /\ waiting_writers' \in Nat
        <4>1. CASE pc[c] = "idle"
          <5>1. At({"waitWrite"})' = At({"waitWrite"})
            BY <2>1, <4>1, AtUnmoved DEF TypeOK
          <5>2. waiting_writers' = waiting_writers
            BY <2>1, <4>1 DEF TypeOK
          <5> QED
            BY <5>1, <5>2 DEF CountersExact, TypeOK
        <4>2. CASE pc[c] = "waitWrite"
          <5>1. /\ Cardinality(At({"waitWrite"}))' = Cardinality(At({"waitWrite"})) - 1
                /\ Cardinality(At({"waitWrite"})) > 0
            BY <2>1, <4>2, CountLeaves DEF TypeOK
          <5>2. waiting_writers' = waiting_writers - 1
            BY <2>1, <4>2
          <5>3. waiting_writers = Cardinality(At({"waitWrite"})) /\ waiting_writers \in Nat
            BY DEF CountersExact, TypeOK
          <5> QED
            BY <5>1, <5>2, <5>3
        <4> QED
          BY <4>1, <4>2
      <3> QED
        BY <2>1, <3>1, <3>2, <3>3 DEF CountersExact
    <2>3. TypeOK'
      <3>1. <<>> \in Seq(Clients)
        OBVIOUS
      <3>2. "write" \in States
        BY DEF States
      <3>3. LoopTypeOK(Clients)' /\ pc' \in [Clients -> States]
        BY <2>1, <3>1, <3>2, EndsTypes
      <3> QED
        BY <2>1, <2>2, <3>3 DEF TypeOK, States
    <2>4. MutualExclusion'
      <3>1. At({"read"}) = {} /\ At({"write"}) = {}
        BY <1>1, NobodyAt DEF MayWrite, CountersExact
      <3>2. \A d \in Clients : pc[d] \notin {"read", "write"}
        BY <3>1 DEF At
      <3> QED
        BY <2>1, <3>2 DEF MutualExclusion, Moves, TypeOK
    <2> QED
      BY <2>2, <2>3, <2>4
  <1>2. CASE ~MayWrite
    <2>1. /\ waiting_writers' = claimed
          /\ Waits(c, "waitWrite")
          /\ UNCHANGED <<readers, writer>>
      BY <1>2 DEF WriteOrWait
    <2>2. Moves(c, "waitWrite")
      BY <2>1 DEF Waits
    <2>3. CountersExact'
      <3>1. At({"read"})' = At({"read"}) /\ At({"write"})' = At({"write"})
        BY <2>2, AtUnmoved DEF TypeOK
      <3>2. CASE pc[c] = "idle"
        BY <2>1, <2>2, <3>1, <3>2, CountArrives DEF CountersExact, TypeOK
      <3>3. CASE pc[c] = "waitWrite"
        <4>1. At({"waitWrite"})' = At({"waitWrite"})
          BY <2>2, <3>3 DEF At, Moves, TypeOK
        <4> QED
          BY <2>1, <3>1, <3>3, <4>1 DEF CountersExact
      <3> QED
        BY <3>2, <3>3
    <2>4. TypeOK'
      <3>1. "waitWrite" \in States
        BY DEF States
      <3> QED
        BY <2>1, <3>1, WaitsTypes DEF TypeOK, States
    <2>5. MutualExclusion'
      BY <2>2 DEF MutualExclusion, Moves, TypeOK
    <2> QED
      BY <2>3, <2>4, <2>5
  <1> QED
    BY <1>1, <1>2

\* A waiting client is cancelled: nothing but the event loop changes.
LEMMA CancelSafe ==
  ASSUME IInv, NEW c \in Clients, Cancel(c)
  PROVE  IInv'
  <1> USE DEF IInv
  <1>1. /\ Cancels(c)
        /\ waiters' = Dropped(waiters, c)
        /\ UNCHANGED <<countVars, pc>>
    BY DEF Cancel
  <1>2. LoopTypeOK(Clients)'
    BY <1>1, CancelsType DEF TypeOK
  <1>3. waiters' \in Seq(Clients)
    BY <1>1, DroppedType DEF TypeOK
  <1>4. TypeOK'
    BY <1>1, <1>2, <1>3 DEF TypeOK, countVars
  <1>5. CountersExact' /\ MutualExclusion'
    BY <1>1 DEF CountersExact, MutualExclusion, At, countVars
  <1> QED
    BY <1>4, <1>5

\* A cancelled reader was never counted, and takes nothing with it.
LEMMA ReaderCancelledSafe ==
  ASSUME IInv, NEW c \in Clients, ReaderCancelled(c)
  PROVE  IInv'
  <1> USE DEF IInv
  <1>1. /\ pc[c] = "waitRead"
        /\ Moves(c, "idle")
        /\ Ends(c, <<>>, <<>>)
        /\ UNCHANGED <<countVars, waiters>>
    BY DEF ReaderCancelled
  <1>2. TypeOK'
    <2>1. <<>> \in Seq(Clients) /\ "idle" \in States
      BY DEF States
    <2>2. LoopTypeOK(Clients)' /\ pc' \in [Clients -> States]
      BY <1>1, <2>1, EndsTypes
    <2> QED
      BY <1>1, <2>2 DEF TypeOK, States, countVars
  <1>3. CountersExact'
    <2>1. /\ At({"read"})' = At({"read"})
          /\ At({"write"})' = At({"write"})
          /\ At({"waitWrite"})' = At({"waitWrite"})
      BY <1>1, AtUnmoved DEF TypeOK
    <2> QED
      BY <1>1, <2>1 DEF CountersExact, countVars
  <1>4. MutualExclusion'
    BY <1>1 DEF MutualExclusion, Moves, TypeOK
  <1> QED
    BY <1>2, <1>3, <1>4

\* The `finally` of acquire_write keeps the count of waiting writers exact.
LEMMA WriterCancelledSafe ==
  ASSUME IInv, NEW c \in Clients, WriterCancelled(c)
  PROVE  IInv'
  <1> USE DEF IInv
  <1>1. /\ pc[c] = "waitWrite"
        /\ waiting_writers' = waiting_writers - 1
        /\ Moves(c, "idle")
        /\ Ends(c, <<>>, <<>>)
        /\ UNCHANGED <<readers, writer, waiters>>
    BY DEF WriterCancelled
  <1>2. CountersExact' /\ waiting_writers' \in Nat
    <2>1. /\ Cardinality(At({"waitWrite"}))' = Cardinality(At({"waitWrite"})) - 1
          /\ Cardinality(At({"waitWrite"})) > 0
      BY <1>1, CountLeaves DEF TypeOK
    <2>2. At({"write"})' = At({"write"}) /\ At({"read"})' = At({"read"})
      BY <1>1, AtUnmoved DEF TypeOK
    <2> QED
      BY <1>1, <2>1, <2>2 DEF CountersExact, TypeOK
  <1>3. TypeOK'
    <2>1. <<>> \in Seq(Clients) /\ "idle" \in States
      BY DEF States
    <2>2. LoopTypeOK(Clients)' /\ pc' \in [Clients -> States]
      BY <1>1, <2>1, EndsTypes
    <2> QED
      BY <1>1, <1>2, <2>2 DEF TypeOK, States
  <1>4. MutualExclusion'
    BY <1>1 DEF MutualExclusion, Moves, TypeOK
  <1> QED
    BY <1>2, <1>3, <1>4

-----------------------------------------------------------------------------
(* The invariant *)

\* A new lock has nobody inside and every counter at zero.
LEMMA InitSafe == Init => IInv
  <1> SUFFICES ASSUME Init PROVE IInv
    OBVIOUS
  <1>1. At({"read"}) = {} /\ At({"write"}) = {} /\ At({"waitWrite"}) = {}
    BY DEF Init, At
  <1>2. CountersExact
    BY <1>1, FS_EmptySet DEF Init, CountersExact
  <1>3. TypeOK
    <2>1. <<>> \in Seq(Clients)
      OBVIOUS
    <2> QED
      BY <2>1 DEF Init, LoopInit, TypeOK, LoopTypeOK, FutureState
  <1>4. MutualExclusion
    BY DEF Init, MutualExclusion
  <1> QED
    BY <1>2, <1>3, <1>4 DEF IInv

\* No handler of the lock, turn of the event loop or cancellation breaks it.
LEMMA StepSafe == IInv /\ [Next]_vars => IInv'
  <1> SUFFICES ASSUME IInv, [Next]_vars PROVE IInv'
    OBVIOUS
  <1>1. ASSUME NEW c \in Readers, AcquireRead(c)
        PROVE  IInv'
    BY <1>1, ReadOrWaitSafe, LockAssumption DEF AcquireRead, LockAssumption
  <1>2. ASSUME NEW c \in Writers, AcquireWrite(c)
        PROVE  IInv'
    <2>1. waiting_writers + 1 \in Nat
      BY DEF IInv, TypeOK
    <2> QED
      BY <1>2, <2>1, WriteOrWaitSafe, LockAssumption DEF AcquireWrite, LockAssumption
  <1>3. ASSUME NEW c \in Clients, ReaderWakes(c)
        PROVE  IInv'
    BY <1>3, ReadOrWaitSafe DEF ReaderWakes
  <1>4. ASSUME NEW c \in Clients, WriterWakes(c)
        PROVE  IInv'
    <2>1. waiting_writers \in Nat
      BY DEF IInv, TypeOK
    <2> QED
      BY <1>4, <2>1, WriteOrWaitSafe DEF WriterWakes
  <1>5. ASSUME NEW c \in Clients, ReaderCancelled(c) \/ WriterCancelled(c)
        PROVE  IInv'
    BY <1>5, ReaderCancelledSafe, WriterCancelledSafe
  <1>6. ASSUME NEW c \in Clients, ReleaseEither(c)
        PROVE  IInv'
    BY <1>6, ReleaseReadSafe, ReleaseWriteSafe DEF ReleaseEither
  <1>7. ASSUME NEW c \in Cancellable, Cancel(c)
        PROVE  IInv'
    BY <1>7, CancelSafe, LockAssumption DEF LockAssumption
  <1>8. CASE UNCHANGED vars
    BY <1>8 DEF vars, loopVars, countVars, IInv, TypeOK, LoopTypeOK, CountersExact,
                MutualExclusion, At
  <1> QED
    BY <1>1, <1>2, <1>3, <1>4, <1>5, <1>6, <1>7, <1>8 DEF Next, LoopStep

\* The counters are exact and exclude as they should, in every state of the lock.
THEOREM Invariance == Spec => []IInv
  BY InitSafe, StepSafe, PTL DEF Spec

\* Every variable of the lock and of its event loop keeps its type.
THEOREM TypeCorrect == Spec => []TypeOK
  <1>1. IInv => TypeOK
    BY DEF IInv
  <1> QED
    BY <1>1, Invariance, PTL

\* acquire_* and release_* admit readers together or one writer alone.
THEOREM Exclusion == Spec => []MutualExclusion
  <1>1. IInv => MutualExclusion
    BY DEF IInv
  <1> QED
    BY <1>1, Invariance, PTL

\* _readers, _writer and _waiting_writers never drift, cancellations included.
THEOREM Counters == Spec => []CountersExact
  <1>1. IInv => CountersExact
    BY DEF IInv
  <1> QED
    BY <1>1, Invariance, PTL

-----------------------------------------------------------------------------
(* No writer is stranded *)

\* Whoever sleeps is in the deque that notify_all goes through, so that a
\* release reaches everyone.
Registered ==
  \A c \in Clients :
    pc[c] \in {"waitRead", "waitWrite"} /\ fut[c] = "pending" => c \in ToSet(waiters)

WakeInv == TypeOK /\ Registered /\ NoStrandedWriter

\* A turn of c that wakes nobody leaves the others asleep or awake as they were.
LEMMA OthersSleepOn ==
  ASSUME TypeOK, NEW c \in Clients, NEW state, Ends(c, <<>>, <<>>) \/ Suspends(c, <<>>),
         Moves(c, state), NEW d \in Clients, d # c
  PROVE  fut'[d] = fut[d] /\ pc'[d] = pc[d]
  <1>1. ToSet(<<>>) = {}
    BY DEF ToSet
  <1> QED
    BY <1>1 DEF Ends, Suspends, Advance, Moves, TypeOK, LoopTypeOK

\* A client whose turn ends awake; the deque is as it was.
LEMMA AwakeKeepsRegistered ==
  ASSUME WakeInv, NEW c \in Clients, NEW state, state \notin {"waitRead", "waitWrite"},
         Ends(c, <<>>, <<>>), Moves(c, state), UNCHANGED waiters
  PROVE  Registered' /\ Asleep("waitWrite")' \subseteq Asleep("waitWrite")
  <1>1. pc'[c] = state
    BY DEF Moves, WakeInv, TypeOK
  <1>2. \A d \in Clients \ {c} : fut'[d] = fut[d] /\ pc'[d] = pc[d]
    BY OthersSleepOn DEF WakeInv
  <1> QED
    BY <1>1, <1>2 DEF WakeInv, Registered, Asleep, At

\* A client that goes to sleep enters the deque.
LEMMA SleepKeepsRegistered ==
  ASSUME WakeInv, NEW c \in Clients, NEW state, Waits(c, state)
  PROVE  Registered'
  <1>1. \A d \in Clients \ {c} : fut'[d] = fut[d] /\ pc'[d] = pc[d]
    BY OthersSleepOn DEF WakeInv, Waits
  <1>2. waiters' = Append(waiters, c) /\ waiters \in Seq(Clients)
    BY DEF Waits, WakeInv, TypeOK
  <1>3. c \in ToSet(waiters') /\ ToSet(waiters) \subseteq ToSet(waiters')
    BY <1>2 DEF ToSet
  <1> QED
    BY <1>1, <1>3 DEF WakeInv, Registered

\* notify_all reaches every sleeper.
LEMMA NotifyReachesAll ==
  ASSUME WakeInv, NEW c \in Clients, Moves(c, "idle"), NotifyAll(c, waiters)
  PROVE  Registered' /\ Asleep("waitWrite")' = {} /\ Asleep("waitRead")' = {}
  <1>1. \A d \in Clients \ {c} :
          pc'[d] = pc[d] /\ (fut'[d] = "pending" => fut[d] = "pending" /\ d \notin ToSet(waiters))
    BY DEF Moves, NotifyAll, Ends, Advance, WakeInv, TypeOK, LoopTypeOK
  <1>2. \A d \in Clients : ~(pc'[d] \in {"waitRead", "waitWrite"} /\ fut'[d] = "pending")
    BY <1>1 DEF Moves, WakeInv, TypeOK, Registered
  <1> QED
    BY <1>2 DEF Registered, Asleep, At

\* A release that notifies nobody.
LEMMA NotifyNobody ==
  ASSUME WakeInv, NEW c \in Clients, Moves(c, "idle"), NotifyAll(c, <<>>)
  PROVE  Registered' /\ Asleep("waitWrite")' \subseteq Asleep("waitWrite")
  BY AwakeKeepsRegistered DEF NotifyAll

\* acquire_read, at each look.
LEMMA ReadOrWaitWakes ==
  ASSUME WakeInv, NEW c \in Clients, pc[c] \in {"idle", "waitRead"}, ReadOrWait(c)
  PROVE  Registered' /\ NoStrandedWriter'
  <1>1. CASE MayRead
    BY <1>1, AwakeKeepsRegistered DEF ReadOrWait, NoStrandedWriter, WakeInv, TypeOK
  <1>2. CASE ~MayRead
    <2>1. Waits(c, "waitRead") /\ UNCHANGED countVars
      BY <1>2 DEF ReadOrWait
    <2>2. \A d \in Clients \ {c} : fut'[d] = fut[d] /\ pc'[d] = pc[d]
      BY <2>1, OthersSleepOn DEF WakeInv, Waits
    <2>3. Asleep("waitWrite")' \subseteq Asleep("waitWrite")
      BY <2>1, <2>2 DEF Asleep, At, Waits, Moves, WakeInv, TypeOK
    <2> QED
      BY <2>1, <2>3, SleepKeepsRegistered DEF NoStrandedWriter, WakeInv, countVars
  <1> QED
    BY <1>1, <1>2

\* acquire_write, at each look: it sleeps only when somebody is inside.
LEMMA WriteOrWaitWakes ==
  ASSUME WakeInv, NEW c \in Clients, NEW claimed, WriteOrWait(c, claimed)
  PROVE  Registered' /\ NoStrandedWriter'
  <1>1. CASE MayWrite
    BY <1>1, AwakeKeepsRegistered DEF WriteOrWait, NoStrandedWriter, WakeInv
  <1>2. CASE ~MayWrite
    <2>1. Waits(c, "waitWrite") /\ UNCHANGED <<readers, writer>>
      BY <1>2 DEF WriteOrWait
    <2>2. writer \/ readers > 0
      BY <1>2 DEF MayWrite, WakeInv, TypeOK
    <2> QED
      BY <2>1, <2>2, SleepKeepsRegistered DEF NoStrandedWriter
  <1> QED
    BY <1>1, <1>2

\* release_read notifies when the last reader leaves, which is enough.
LEMMA ReleaseReadWakes ==
  ASSUME WakeInv, readers > 0, NEW c \in Clients, ReleaseRead(c)
  PROVE  Registered' /\ NoStrandedWriter'
  <1>1. CASE readers = 1
    BY <1>1, NotifyReachesAll DEF ReleaseRead, WokenByReader, NoStrandedWriter
  <1>2. CASE readers # 1
    <2>1. Registered'
      BY <1>2, NotifyNobody DEF ReleaseRead, WokenByReader
    <2>2. readers' > 0
      BY <1>2 DEF ReleaseRead, WakeInv, TypeOK
    <2> QED
      BY <2>1, <2>2 DEF NoStrandedWriter
  <1> QED
    BY <1>1, <1>2

\* A cancelled waiter leaves the deque; the others stay in it.
LEMMA CancelWakes ==
  ASSUME WakeInv, NEW c \in Clients, Cancel(c)
  PROVE  Registered' /\ NoStrandedWriter'
  <1>1. /\ waiters \in Seq(Clients)
        /\ UNCHANGED <<countVars, pc>>
    BY DEF Cancel, WakeInv, TypeOK
  <1>2. \A d \in Clients : fut'[d] = "pending" => fut[d] = "pending" /\ d # c
    BY DEF Cancel, Cancels, WakeInv, TypeOK, LoopTypeOK
  <1>3. ASSUME NEW d \in Clients, d # c, d \in ToSet(waiters)
        PROVE  d \in ToSet(waiters')
    BY <1>1, <1>3, DroppedKeeps DEF Cancel
  <1> QED
    BY <1>1, <1>2, <1>3 DEF WakeInv, Registered, NoStrandedWriter, Asleep, At, countVars

\* No step strands a writer; the counters it relies on are exact.
LEMMA StepWakes == IInv /\ WakeInv /\ [Next]_vars => Registered' /\ NoStrandedWriter'
  <1> SUFFICES ASSUME IInv, WakeInv, [Next]_vars PROVE Registered' /\ NoStrandedWriter'
    OBVIOUS
  <1>1. ASSUME NEW c \in Readers, AcquireRead(c)
        PROVE  Registered' /\ NoStrandedWriter'
    BY <1>1, ReadOrWaitWakes, LockAssumption DEF AcquireRead, LockAssumption
  <1>2. ASSUME NEW c \in Writers, AcquireWrite(c)
        PROVE  Registered' /\ NoStrandedWriter'
    BY <1>2, WriteOrWaitWakes, LockAssumption DEF AcquireWrite, LockAssumption
  <1>3. ASSUME NEW c \in Clients, ReaderWakes(c)
        PROVE  Registered' /\ NoStrandedWriter'
    BY <1>3, ReadOrWaitWakes DEF ReaderWakes
  <1>4. ASSUME NEW c \in Clients, WriterWakes(c)
        PROVE  Registered' /\ NoStrandedWriter'
    BY <1>4, WriteOrWaitWakes DEF WriterWakes
  <1>5. ASSUME NEW c \in Clients, ReaderCancelled(c) \/ WriterCancelled(c)
        PROVE  Registered' /\ NoStrandedWriter'
    <2>1. Moves(c, "idle") /\ Ends(c, <<>>, <<>>) /\ UNCHANGED <<readers, writer, waiters>>
      BY <1>5 DEF ReaderCancelled, WriterCancelled, countVars
    <2> QED
      BY <2>1, AwakeKeepsRegistered DEF WakeInv, NoStrandedWriter
  <1>6. ASSUME NEW c \in Clients, ReleaseRead(c)
        PROVE  Registered' /\ NoStrandedWriter'
    <2>1. /\ Cardinality(At({"read"}))' = Cardinality(At({"read"})) - 1
          /\ Cardinality(At({"read"})) > 0
      BY <1>6, CountLeaves DEF ReleaseRead, WakeInv, TypeOK
    <2>2. readers > 0
      BY <2>1 DEF IInv, CountersExact
    <2> QED
      BY <1>6, <2>2, ReleaseReadWakes
  <1>7. ASSUME NEW c \in Clients, ReleaseWrite(c)
        PROVE  Registered' /\ NoStrandedWriter'
    BY <1>7, NotifyReachesAll DEF ReleaseWrite, WokenByWriter, NoStrandedWriter
  <1>8. ASSUME NEW c \in Cancellable, Cancel(c)
        PROVE  Registered' /\ NoStrandedWriter'
    BY <1>8, CancelWakes, LockAssumption DEF LockAssumption
  <1>9. CASE UNCHANGED vars
    BY <1>9 DEF vars, loopVars, countVars, WakeInv, Registered, NoStrandedWriter, Asleep, At
  <1> QED
    BY <1>1, <1>2, <1>3, <1>4, <1>5, <1>6, <1>7, <1>8, <1>9 DEF Next, LoopStep, ReleaseEither

\* A writer never sleeps on a lock with nobody inside: each release that
\* empties the lock reaches every sleeper, whoever else is cancelled.
THEOREM WritersWoken == Spec => []NoStrandedWriter
  <1>1. Init => Registered /\ NoStrandedWriter
    BY DEF Init, Registered, NoStrandedWriter, Asleep, At
  <1>2. IInv => TypeOK
    BY DEF IInv
  <1>3. TypeOK /\ Registered /\ NoStrandedWriter => WakeInv
    BY DEF WakeInv
  <1> QED
    BY <1>1, <1>2, <1>3, StepWakes, Invariance, PTL DEF Spec

-----------------------------------------------------------------------------
(* What strands a reader *)

\* Only writers ask to write.
WritersAsk == At({"waitWrite"}) \subseteq Writers

\* A step that leaves the counters of the writers as they were, or more, and
\* puts no reader to sleep strands nobody.
LEMMA NoneStranded ==
  ASSUME Asleep("waitRead")' \subseteq Asleep("waitRead"),
         writer' \/ ~writer, waiting_writers' # 0 \/ waiting_writers = 0
  PROVE  Stranded' => Stranded
  BY DEF Stranded

\* Who sleeps as a reader after a turn of c that wakes nobody.
LEMMA ReadersSleepOn ==
  ASSUME TypeOK, NEW c \in Clients, NEW state, state # "waitRead",
         Ends(c, <<>>, <<>>) \/ Suspends(c, <<>>), Moves(c, state)
  PROVE  Asleep("waitRead")' \subseteq Asleep("waitRead")
  <1>1. \A d \in Clients \ {c} : fut'[d] = fut[d] /\ pc'[d] = pc[d]
    BY OthersSleepOn
  <1>2. pc'[c] = state
    BY DEF Moves, TypeOK
  <1> QED
    BY <1>1, <1>2 DEF Asleep, At

\* acquire_read sleeps only for a writer.
LEMMA ReadOrWaitStrands ==
  ASSUME TypeOK, NEW c \in Clients, ReadOrWait(c)
  PROVE  Stranded' => Stranded
  <1>1. CASE MayRead
    BY <1>1, ReadersSleepOn, NoneStranded DEF ReadOrWait
  <1>2. CASE ~MayRead
    BY <1>2 DEF ReadOrWait, MayRead, Stranded, countVars
  <1> QED
    BY <1>1, <1>2

\* acquire_write goes in or waits, and is counted.
LEMMA WriteOrWaitStrands ==
  ASSUME TypeOK, NEW c \in Clients, NEW claimed \in Nat, claimed >= waiting_writers, WriteOrWait(c, claimed)
  PROVE  Stranded' => Stranded
  <1>1. CASE MayWrite
    BY <1>1 DEF WriteOrWait, Stranded
  <1>2. CASE ~MayWrite
    <2>1. Asleep("waitRead")' \subseteq Asleep("waitRead")
      BY <1>2, ReadersSleepOn DEF WriteOrWait, Waits
    <2> QED
      BY <1>2, <2>1, NoneStranded DEF WriteOrWait, TypeOK
  <1> QED
    BY <1>1, <1>2

\* A release leaves no reader asleep, or no writer less.
LEMMA ReleaseStrands ==
  ASSUME WakeInv, NEW c \in Clients, ReleaseEither(c)
  PROVE  Stranded' => Stranded
  <1>1. CASE ReleaseWrite(c)
    BY <1>1, NotifyReachesAll DEF ReleaseWrite, WokenByWriter, Stranded
  <1>2. CASE ReleaseRead(c) /\ readers = 1
    BY <1>2, NotifyReachesAll DEF ReleaseRead, WokenByReader, Stranded
  <1>3. CASE ReleaseRead(c) /\ readers # 1
    BY <1>3, ReadersSleepOn, NoneStranded DEF ReleaseRead, WokenByReader, NotifyAll, WakeInv
  <1> QED
    BY <1>1, <1>2, <1>3 DEF ReleaseEither

\* A cancellation of a waiter wakes it.
LEMMA CancelStrands ==
  ASSUME TypeOK, NEW c \in Clients, Cancel(c)
  PROVE  Stranded' => Stranded
  <1>1. \A d \in Clients : fut'[d] = "pending" => fut[d] = "pending"
    BY DEF Cancel, Cancels, TypeOK, LoopTypeOK
  <1>2. Asleep("waitRead")' \subseteq Asleep("waitRead")
    BY <1>1 DEF Cancel, Asleep, At
  <1> QED
    BY <1>2, NoneStranded DEF Cancel, countVars

LEMMA StepStrands ==
  ASSUME IInv, WakeInv, WritersAsk, [Next]_vars
  PROVE  /\ WritersAsk'
         /\ Stranded' /\ ~Stranded => \E c \in Writers : WriterCancelled(c)
  <1>1. TypeOK /\ pc \in [Clients -> States] /\ Writers \subseteq Clients /\ Readers \subseteq Clients
    BY LockAssumption DEF IInv, TypeOK, States, LockAssumption
  <1>2. WritersAsk'
    <2>1. \A c \in Clients : \A state : Moves(c, state) /\ state # "waitWrite" => WritersAsk'
      BY <1>1 DEF Moves, WritersAsk, At
    <2>2. \A c \in Writers : \A state : Moves(c, state) => WritersAsk'
      BY <1>1 DEF Moves, WritersAsk, At
    <2>3. \A c : ReadOrWait(c) => Moves(c, "read") \/ Moves(c, "waitRead")
      BY DEF ReadOrWait, Waits
    <2>4. \A c, claimed : WriteOrWait(c, claimed) => Moves(c, "write") \/ Moves(c, "waitWrite")
      BY DEF WriteOrWait, Waits
    <2>5. ASSUME NEW c \in Clients, ReaderWakes(c) \/ ReaderCancelled(c) \/ WriterCancelled(c) \/ ReleaseEither(c)
          PROVE  WritersAsk'
      BY <2>1, <2>3, <2>5 DEF ReaderWakes, ReaderCancelled, WriterCancelled, ReleaseEither, ReleaseRead, ReleaseWrite
    <2>6. ASSUME NEW c \in Clients, WriterWakes(c)
          PROVE  WritersAsk'
      <3>1. c \in Writers
        BY <2>6 DEF WriterWakes, WritersAsk, At
      <3> QED
        BY <2>2, <2>4, <2>6, <3>1 DEF WriterWakes
    <2>7. ASSUME NEW c \in Readers, AcquireRead(c)
          PROVE  WritersAsk'
      BY <1>1, <2>1, <2>3, <2>7 DEF AcquireRead
    <2>8. ASSUME NEW c \in Writers, AcquireWrite(c)
          PROVE  WritersAsk'
      BY <2>2, <2>4, <2>8 DEF AcquireWrite
    <2>9. UNCHANGED pc => WritersAsk'
      BY DEF WritersAsk, At
    <2> QED
      BY <2>5, <2>6, <2>7, <2>8, <2>9 DEF Next, LoopStep, Cancel, vars
  <1>3. ASSUME NEW c \in Clients, ReaderWakes(c) \/ AcquireRead(c)
        PROVE  Stranded' => Stranded
    BY <1>1, <1>3, ReadOrWaitStrands DEF ReaderWakes, AcquireRead
  <1>4. ASSUME NEW c \in Clients, WriterWakes(c) \/ AcquireWrite(c)
        PROVE  Stranded' => Stranded
    <2>1. waiting_writers \in Nat
      BY <1>1 DEF TypeOK
    <2> QED
      BY <1>1, <1>4, <2>1, WriteOrWaitStrands DEF WriterWakes, AcquireWrite
  <1>5. ASSUME NEW c \in Clients, ReaderCancelled(c)
        PROVE  Stranded' => Stranded
    BY <1>1, <1>5, ReadersSleepOn, NoneStranded DEF ReaderCancelled, countVars
  <1>6. ASSUME NEW c \in Clients, WriterCancelled(c)
        PROVE  c \in Writers
    BY <1>6 DEF WriterCancelled, WritersAsk, At
  <1>7. ASSUME NEW c \in Cancellable, Cancel(c)
        PROVE  Stranded' => Stranded
    BY <1>1, <1>7, CancelStrands, LockAssumption DEF LockAssumption
  <1>8. UNCHANGED vars => (Stranded' => Stranded)
    BY DEF vars, loopVars, countVars, Stranded, Asleep, At
  <1> QED
    BY <1>1, <1>2, <1>3, <1>4, <1>5, <1>6, <1>7, <1>8, ReleaseStrands DEF Next, LoopStep

\* Nothing but the withdrawal of a cancelled writer, which notifies nobody,
\* leaves a reader asleep with no writer inside or waiting: every release, every
\* look at the lock and every other cancellation keeps readers who may go in awake.
THEOREM ReadersWoken == Spec => OnlyWithdrawalStrands
  <1>1. Init => Registered /\ NoStrandedWriter /\ WritersAsk
    BY DEF Init, Registered, NoStrandedWriter, WritersAsk, Asleep, At
  <1>2. IInv /\ Registered /\ NoStrandedWriter /\ [Next]_vars => Registered' /\ NoStrandedWriter'
    BY StepWakes DEF IInv, WakeInv
  <1>3. IInv /\ Registered /\ NoStrandedWriter /\ WritersAsk /\ [Next]_vars =>
          /\ WritersAsk'
          /\ [Stranded' /\ ~Stranded => \E c \in Writers : WriterCancelled(c)]_vars
    BY StepStrands DEF IInv, WakeInv
  <1> QED
    BY <1>1, <1>2, <1>3, Invariance, PTL DEF Spec, OnlyWithdrawalStrands

-----------------------------------------------------------------------------
(* The lock implements RWContract *)

\* The sets of the contract, as a client moves between two places.
LEMMA AtMoves ==
  ASSUME TypeOK, NEW c \in Clients, NEW new, Moves(c, new)
  PROVE  /\ At({"read"})' = IF new = "read" THEN At({"read"}) \cup {c} ELSE At({"read"}) \ {c}
         /\ At({"write"})' = IF new = "write" THEN At({"write"}) \cup {c} ELSE At({"write"}) \ {c}
         /\ At({"waitWrite"})' =
              IF new = "waitWrite" THEN At({"waitWrite"}) \cup {c} ELSE At({"waitWrite"}) \ {c}
  BY DEF At, Moves, TypeOK

\* A client stays out of a place it was not at and does not go to.
LEMMA AtSame ==
  ASSUME TypeOK, NEW c \in Clients, NEW new, Moves(c, new)
  PROVE  /\ c \notin At({"read"}) /\ new # "read" => At({"read"})' = At({"read"})
         /\ c \notin At({"write"}) /\ new # "write" => At({"write"})' = At({"write"})
         /\ c \notin At({"waitWrite"}) /\ new # "waitWrite"
              => At({"waitWrite"})' = At({"waitWrite"})
  BY DEF At, Moves, TypeOK

\* A client is in one place only.
LEMMA OnePlace ==
  ASSUME NEW c \in Clients
  PROVE  /\ c \in At({"read"}) <=> pc[c] = "read"
         /\ c \in At({"write"}) <=> pc[c] = "write"
         /\ c \in At({"waitWrite"}) <=> pc[c] = "waitWrite"
  BY DEF At

\* acquire_read lets a reader in, or is a stutter.
LEMMA ReadOrWaitImplements ==
  ASSUME IInv, NEW c \in Clients, pc[c] \in {"idle", "waitRead"}, ReadOrWait(c)
  PROVE  Contract!EnterRead(c) \/ UNCHANGED Contract!contractVars
  <1> USE DEF IInv
  <1>1. CASE MayRead
    <2>1. Moves(c, "read")
      BY <1>1 DEF ReadOrWait
    <2>2. At({"write"}) = {} /\ At({"waitWrite"}) = {}
      BY <1>1, NobodyAt DEF MayRead, CountersExact
    <2>3. c \notin At({"read"}) \cup At({"write"}) \cup At({"waitWrite"})
      BY OnePlace
    <2>4. /\ At({"read"})' = At({"read"}) \cup {c}
          /\ At({"write"})' = At({"write"}) /\ At({"waitWrite"})' = At({"waitWrite"})
      BY <2>1, <2>3, AtMoves, AtSame
    <2> QED
      BY <2>2, <2>3, <2>4 DEF Contract!EnterRead, Contract!Outside
  <1>2. CASE ~MayRead
    <2>1. Moves(c, "waitRead")
      BY <1>2 DEF ReadOrWait, Waits
    <2>2. c \notin At({"read"}) \cup At({"write"}) \cup At({"waitWrite"})
      BY OnePlace
    <2>3. /\ At({"read"})' = At({"read"}) /\ At({"write"})' = At({"write"})
          /\ At({"waitWrite"})' = At({"waitWrite"})
      BY <2>1, <2>2, AtSame
    <2> QED
      BY <2>3 DEF Contract!contractVars
  <1> QED
    BY <1>1, <1>2

\* acquire_write asks or enters; a writer that sleeps again stutters.
LEMMA WriteOrWaitImplements ==
  ASSUME IInv, NEW c \in Clients, pc[c] \in {"idle", "waitWrite"}, NEW claimed,
         WriteOrWait(c, claimed)
  PROVE  Contract!EnterWrite(c) \/ Contract!Ask(c) \/ UNCHANGED Contract!contractVars
  <1> USE DEF IInv
  <1>1. c \notin At({"read"}) \cup At({"write"})
    BY OnePlace
  <1>2. CASE MayWrite
    <2>1. Moves(c, "write")
      BY <1>2 DEF WriteOrWait
    <2>2. At({"write"}) = {} /\ At({"read"}) = {}
      BY <1>2, NobodyAt DEF MayWrite, CountersExact
    <2>3. /\ At({"write"})' = {c}
          /\ At({"read"})' = At({"read"}) /\ At({"waitWrite"})' = At({"waitWrite"}) \ {c}
      BY <2>1, <2>2, AtMoves, AtSame
    <2> QED
      BY <1>1, <2>2, <2>3 DEF Contract!EnterWrite
  <1>3. CASE ~MayWrite
    <2>1. Moves(c, "waitWrite")
      BY <1>3 DEF WriteOrWait, Waits
    <2>2. /\ At({"write"})' = At({"write"}) /\ At({"read"})' = At({"read"})
          /\ At({"waitWrite"})' = At({"waitWrite"}) \cup {c}
      BY <1>1, <2>1, AtMoves, AtSame
    <2>3. CASE pc[c] = "waitWrite"
      BY <2>2, <2>3, OnePlace DEF Contract!contractVars
    <2>4. CASE pc[c] = "idle"
      BY <1>1, <2>2, <2>4, OnePlace DEF Contract!Ask, Contract!Outside
    <2> QED
      BY <2>3, <2>4
  <1> QED
    BY <1>2, <1>3

\* release_read and release_write let their client out.
LEMMA ReleaseImplements ==
  ASSUME IInv, NEW c \in Clients, ReleaseEither(c)
  PROVE  Contract!Leave(c)
  <1> USE DEF IInv
  <1>1. pc[c] \in {"read", "write"} /\ Moves(c, "idle")
    BY DEF ReleaseEither, ReleaseRead, ReleaseWrite
  <1>2. c \in At({"read"}) \cup At({"write"}) /\ c \notin At({"waitWrite"})
    BY <1>1, OnePlace
  <1>3. /\ At({"read"})' = At({"read"}) \ {c}
        /\ At({"write"})' = At({"write"}) \ {c}
        /\ At({"waitWrite"})' = At({"waitWrite"})
    BY <1>1, <1>2 DEF IInv, TypeOK, At, Moves
  <1> QED
    BY <1>2, <1>3 DEF Contract!Leave

\* A cancelled writer gives up, a cancelled reader was never seen.
LEMMA CancelledImplements ==
  ASSUME IInv, NEW c \in Clients, ReaderCancelled(c) \/ WriterCancelled(c)
  PROVE  Contract!GiveUp(c) \/ UNCHANGED Contract!contractVars
  <1> USE DEF IInv
  <1>1. Moves(c, "idle")
    BY DEF ReaderCancelled, WriterCancelled
  <1>2. pc[c] \in {"waitRead", "waitWrite"}
    BY DEF ReaderCancelled, WriterCancelled
  <1>3. c \notin At({"read"}) \cup At({"write"})
    BY <1>2, OnePlace
  <1>4. /\ At({"read"})' = At({"read"}) /\ At({"write"})' = At({"write"})
        /\ At({"waitWrite"})' = At({"waitWrite"}) \ {c}
    BY <1>1, <1>3 DEF IInv, TypeOK, At, Moves
  <1> QED
    BY <1>4 DEF Contract!GiveUp, Contract!contractVars

\* Every step of the lock is a step of the contract, or one it does not see.
LEMMA StepImplements ==
  IInv /\ [Next]_vars => [Contract!Next]_(Contract!contractVars)
  <1> SUFFICES ASSUME IInv, [Next]_vars
               PROVE  Contract!Next \/ UNCHANGED Contract!contractVars
    OBVIOUS
  <1>1. ASSUME NEW c \in Clients, ReaderWakes(c) \/ (c \in Readers /\ AcquireRead(c))
        PROVE  Contract!Next \/ UNCHANGED Contract!contractVars
    BY <1>1, ReadOrWaitImplements DEF AcquireRead, ReaderWakes, Contract!Next
  <1>2. ASSUME NEW c \in Clients, WriterWakes(c) \/ (c \in Writers /\ AcquireWrite(c))
        PROVE  Contract!Next \/ UNCHANGED Contract!contractVars
    BY <1>2, WriteOrWaitImplements DEF AcquireWrite, WriterWakes, Contract!Next
  <1>3. ASSUME NEW c \in Clients, ReaderCancelled(c) \/ WriterCancelled(c)
        PROVE  Contract!Next \/ UNCHANGED Contract!contractVars
    BY <1>3, CancelledImplements DEF Contract!Next
  <1>4. ASSUME NEW c \in Clients, ReleaseEither(c)
        PROVE  Contract!Next
    BY <1>4, ReleaseImplements DEF Contract!Next
  <1>5. ASSUME NEW c \in Cancellable, Cancel(c)
        PROVE  UNCHANGED Contract!contractVars
    BY <1>5 DEF Cancel, At, Contract!contractVars
  <1>6. CASE UNCHANGED vars
    BY <1>6 DEF vars, At, Contract!contractVars
  <1>7. Readers \subseteq Clients /\ Writers \subseteq Clients
    BY LockAssumption DEF LockAssumption
  <1> QED
    BY <1>1, <1>2, <1>3, <1>4, <1>5, <1>6, <1>7 DEF Next, LoopStep

\* The lock implements its contract: what the three counters decide is what
\* the sets of those inside and of those asking would.
THEOREM Implementation == Spec => ImplementsContract
  <1>1. Init => Contract!Init
    BY DEF Init, At, Contract!Init
  <1> QED
    BY <1>1, StepImplements, Invariance, PTL DEF Spec, ImplementsContract, Contract!Spec
-----------------------------------------------------------------------------
(* TokenBucket, with any number of callers of acquire and try_acquire, and *)
(* a clock that steps back and forward.  What the meter may still take and *)
(* what the bucket would hold, were it looked at now, are the same thing.  *)

\* The variables of the rate have their types.
BucketTypes ==
  /\ tokens \in Nat /\ tokens <= Capacity
  /\ lag \in Int
  /\ meter \in Nat
  /\ asked \in [Callers -> {0} \cup Amounts]

\* What was granted and has not leaked, and what could be granted now, are
\* together no more than the bucket.
Credit == meter + Refilled <= Capacity

BucketInv == BucketTypes /\ Credit

-----------------------------------------------------------------------------
(* Arithmetic *)

LEMMA LesserIs ==
  ASSUME NEW a \in Int, NEW b \in Int
  PROVE  Min({a, b}) = IF a <= b THEN a ELSE b
  BY DEF Min

LEMMA RefilledIs ==
  ASSUME BucketTypes
  PROVE  Refilled = IF lag <= 0 THEN tokens
                    ELSE IF tokens + lag <= Capacity THEN tokens + lag ELSE Capacity
  BY LesserIs, BucketAssumption DEF Refilled, BucketTypes, BucketAssumption

LEMMA LeakIs ==
  ASSUME NEW n \in Nat
  PROVE  Max({n - 1, 0}) = IF n = 0 THEN 0 ELSE n - 1
  BY DEF Max

\* What leaks from the meter pays for what is refilled.
LEMMA LeakPays ==
  ASSUME NEW m \in Nat, NEW n \in Nat, NEW k \in Nat, m + n <= Capacity,
         k <= n + 1, k <= Capacity, Capacity \in Nat
  PROVE  (IF m = 0 THEN 0 ELSE m - 1) + k <= Capacity
  OBVIOUS

\* The same in the next state.
LEMMA RefilledNext ==
  ASSUME BucketTypes'
  PROVE  Refilled' = IF lag' <= 0 THEN tokens'
                     ELSE IF tokens' + lag' <= Capacity THEN tokens' + lag' ELSE Capacity
  <1>1. Refilled' = IF lag' <= 0 THEN tokens' ELSE Min({Capacity, tokens' + lag'})
    BY DEF Refilled
  <1>2. tokens' + lag' \in Int /\ Capacity \in Int
    BY BucketAssumption DEF BucketTypes, BucketAssumption
  <1>3. Min({Capacity, tokens' + lag'}) =
          IF Capacity <= tokens' + lag' THEN Capacity ELSE tokens' + lag'
    BY <1>2, LesserIs
  <1> QED
    BY <1>1, <1>2, <1>3

-----------------------------------------------------------------------------
(* A look at the bucket, and time *)

\* To look moves what would be there into the bucket, and leaves it there.
LEMMA LooksKeeps ==
  ASSUME BucketInv, Looks, tokens' = Refilled, UNCHANGED meter,
         asked' \in [Callers -> {0} \cup Amounts]
  PROVE  BucketInv'
  <1>1. BucketTypes'
    BY RefilledIs, BucketAssumption DEF BucketInv, BucketTypes, Looks, BucketAssumption
  <1>2. Refilled' = Refilled
    BY RefilledIs, <1>1, BucketAssumption DEF BucketInv, BucketTypes, Looks, Refilled, BucketAssumption
  <1> QED
    BY <1>1, <1>2 DEF BucketInv, Credit, Looks

\* What is taken goes from the bucket to the meter.
LEMMA TakesKeeps ==
  ASSUME BucketInv, Looks, NEW amount \in Nat, amount <= Refilled, Takes(amount),
         asked' \in [Callers -> {0} \cup Amounts]
  PROVE  BucketInv'
  <1>1. BucketTypes'
    BY RefilledIs, BucketAssumption DEF BucketInv, BucketTypes, Looks, Takes, BucketAssumption
  <1>2. Refilled' = Refilled - amount
    BY RefilledIs, <1>1, BucketAssumption DEF BucketInv, BucketTypes, Looks, Takes, Refilled, BucketAssumption
  <1> QED
    BY <1>1, <1>2, RefilledIs, BucketAssumption DEF BucketInv, BucketTypes, Credit, Looks, Takes, BucketAssumption

\* acquire does one or the other, whatever else it does.
LEMMA AcquireKeeps ==
  ASSUME BucketInv, NEW c \in Callers, NEW amount \in {0} \cup Amounts, TakeOrSleep(c, amount),
         asked' \in [Callers -> {0} \cup Amounts]
  PROVE  BucketInv'
  <1>1. amount \in Nat /\ Refilled \in Nat
    BY RefilledIs, BucketAssumption DEF BucketInv, BucketTypes, BucketAssumption
  <1>2. CASE Refilled >= amount
    BY <1>1, <1>2, TakesKeeps DEF TakeOrSleep
  <1>3. CASE ~(Refilled >= amount)
    BY <1>3, LooksKeeps DEF TakeOrSleep
  <1> QED
    BY <1>2, <1>3

\* A tick refills one token at most, and lets one leak, unless there is none.
LEMMA TickKeeps ==
  ASSUME BucketInv, Tick
  PROVE  BucketInv'
  <1>1. meter' = IF meter = 0 THEN 0 ELSE meter - 1
    BY LeakIs DEF Tick, Leaks, BucketInv, BucketTypes
  <1>2. BucketTypes'
    BY <1>1, BucketAssumption DEF Tick, BucketInv, BucketTypes, BucketAssumption
  <1>3. Refilled' <= Refilled + 1 /\ Refilled' <= Capacity /\ Refilled' \in Nat
    <2>1. Refilled' = IF lag' <= 0 THEN tokens'
                      ELSE IF tokens' + lag' <= Capacity THEN tokens' + lag' ELSE Capacity
      BY <1>2, RefilledNext
    <2> QED
      BY <2>1, RefilledIs, BucketAssumption DEF Tick, BucketInv, BucketTypes, BucketAssumption
  <1>4. /\ meter + Refilled <= Capacity /\ meter \in Nat /\ Refilled \in Nat /\ Capacity \in Nat
        /\ Refilled' <= Refilled + 1 /\ Refilled' <= Capacity /\ Refilled' \in Nat
    BY <1>3, RefilledIs, BucketAssumption DEF BucketInv, BucketTypes, Credit, BucketAssumption
  <1>5. meter' + Refilled' <= Capacity
    BY <1>1, <1>4, LeakPays
  <1>6. Credit'
    BY <1>5 DEF Credit
  <1> QED
    BY <1>2, <1>6 DEF BucketInv

\* A clock that steps back takes nothing out of the bucket; one that steps
\* forward again puts in one token for which no time has passed, and one leaks.
LEMMA ClockKeeps ==
  ASSUME BucketInv, StepBack \/ StepForward
  PROVE  BucketInv'
  <1>1. StepForward => meter' = IF meter = 0 THEN 0 ELSE meter - 1
    BY LeakIs DEF StepForward, Leaks, BucketInv, BucketTypes
  <1>2. BucketTypes'
    BY <1>1, BucketAssumption DEF StepBack, StepForward, BucketInv, BucketTypes, BucketAssumption
  <1>3. Refilled' = IF lag' <= 0 THEN tokens'
                    ELSE IF tokens' + lag' <= Capacity THEN tokens' + lag' ELSE Capacity
    BY <1>2, RefilledNext
  <1>4. Credit'
    BY <1>1, <1>3, RefilledIs, BucketAssumption DEF StepBack, StepForward, BucketInv, BucketTypes, Credit, BucketAssumption
  <1> QED
    BY <1>2, <1>4 DEF BucketInv

-----------------------------------------------------------------------------
(* Every step keeps the invariant *)

\* Steps that do not look at the bucket.
LEMMA BucketUnseen ==
  ASSUME BucketInv, UNCHANGED <<clockVars, tokens, meter>>, asked' \in [Callers -> {0} \cup Amounts]
  PROVE  BucketInv'
  <1>1. Refilled' = Refilled
    BY DEF clockVars, Refilled
  <1> QED
    BY <1>1, BucketAssumption DEF BucketInv, BucketTypes, Credit, clockVars, BucketAssumption

LEMMA BucketLoopKeeps ==
  ASSUME BucketInv, BucketLoopStep
  PROVE  BucketInv'
  <1>1. ASSUME NEW c \in Callers, Looking(c) PROVE BucketInv'
    BY <1>1, AcquireKeeps, BucketAssumption DEF Looking, BucketInv, BucketTypes, BucketAssumption
  <1>2. ASSUME NEW c \in Callers, WaiterCancelled(c) \/ SleeperCancelled(c) PROVE BucketInv'
    BY <1>2, BucketUnseen, BucketAssumption DEF WaiterCancelled, SleeperCancelled, BucketInv, BucketTypes, BucketAssumption
  <1> QED
    BY <1>1, <1>2 DEF BucketLoopStep

LEMMA CallKeeps ==
  ASSUME BucketInv, NEW c \in Callers, NEW amount \in Amounts, Acquire(c, amount)
  PROVE  BucketInv'
  <1>1. asked' \in [Callers -> {0} \cup Amounts]
    BY BucketAssumption DEF Acquire, BucketInv, BucketTypes, BucketAssumption
  <1>2. CASE MayBarge
    BY <1>1, <1>2, AcquireKeeps DEF Acquire
  <1>3. CASE ~MayBarge
    BY <1>1, <1>3, BucketUnseen DEF Acquire
  <1> QED
    BY <1>2, <1>3

LEMMA TryKeeps ==
  ASSUME BucketInv, NEW amount \in Amounts, TryAcquire(amount)
  PROVE  BucketInv'
  <1>1. asked' \in [Callers -> {0} \cup Amounts]
    BY BucketAssumption DEF TryAcquire, BucketInv, BucketTypes, BucketAssumption
  <1>2. CASE Refilled >= amount
    BY <1>1, <1>2, TakesKeeps, RefilledIs, BucketAssumption DEF TryAcquire, BucketInv, BucketTypes, BucketAssumption
  <1>3. CASE ~(Refilled >= amount)
    BY <1>1, <1>3, LooksKeeps DEF TryAcquire
  <1> QED
    BY <1>2, <1>3

LEMMA BucketStepKeeps == BucketInv /\ [BucketNext]_bucketVars => BucketInv'
  <1> SUFFICES ASSUME BucketInv, [BucketNext]_bucketVars PROVE BucketInv'
    OBVIOUS
  <1>1. CASE BucketLoopStep
    BY <1>1, BucketLoopKeeps
  <1>2. CASE Tick \/ StepBack \/ StepForward
    BY <1>2, TickKeeps, ClockKeeps
  <1>3. CASE Tokens
    BY <1>3, LooksKeeps, BucketAssumption DEF Tokens, BucketInv, BucketTypes, BucketAssumption
  <1>4. ASSUME NEW amount \in Amounts, TryAcquire(amount) PROVE BucketInv'
    BY <1>4, TryKeeps
  <1>5. ASSUME NEW c \in Callers, SleepEnds(c) \/ CancelCall(c) PROVE BucketInv'
    BY <1>5, BucketUnseen, BucketAssumption DEF SleepEnds, CancelCall, BucketInv, BucketTypes, BucketAssumption
  <1>6. ASSUME NEW c \in Callers, NEW amount \in Amounts, Acquire(c, amount) PROVE BucketInv'
    BY <1>6, CallKeeps
  <1>7. CASE UNCHANGED bucketVars
    BY <1>7, BucketUnseen, BucketAssumption DEF bucketVars, BucketInv, BucketTypes, BucketAssumption
  <1>8. Impatient \subseteq Callers
    BY BucketAssumption DEF BucketInv, BucketTypes, BucketAssumption
  <1> QED
    BY <1>1, <1>2, <1>3, <1>4, <1>5, <1>6, <1>7, <1>8 DEF BucketNext

LEMMA BucketStarts ==
  ASSUME BucketInit
  PROVE  BucketInv
  <1>1. BucketTypes
    BY BucketAssumption DEF BucketInit, BucketTypes, BucketAssumption
  <1> QED
    BY <1>1, RefilledIs, BucketAssumption DEF BucketInit, BucketInv, Credit, BucketAssumption

-----------------------------------------------------------------------------
(* The rate limit *)

\* Whatever the constants of the bucket, as long as they are what the code takes:
\* over any stretch of time acquire and try_acquire together grant no more than
\* the capacity, one token a tick, and one for every step of the clock forward in
\* that stretch.
THEOREM Rate == BucketSpec => []RateHeld
  <1>1. BucketInv => RateHeld
    BY RefilledIs, BucketAssumption DEF BucketInv, BucketTypes, Credit, RateHeld, BucketAssumption
  <1>2. BucketSpec => []BucketInv
    BY BucketStarts, BucketStepKeeps, PTL DEF BucketSpec
  <1> QED
    BY <1>1, <1>2, PTL

-----------------------------------------------------------------------------
(* First come, first served                                                *)
(* A caller is in `line` from its call to its answer; in the lock's deque  *)
(* while it waits for the lock, and out of it when it sleeps with the      *)
(* lock.  The lock wakes its first waiter only, and is barged past only    *)
(* when all who wait have been cancelled.                                  *)

CallStates == {"idle", "waiting", "sleeping", "granted", "cancelled"}

LineTypes ==
  /\ NoTask \notin Callers
  /\ LoopTypeOK(Callers)
  /\ locked \in BOOLEAN
  /\ calls \in [Callers -> CallStates]

\* Who is scheduled is on its way out of an await, once.
TurnsNeat ==
  /\ running = NoTask
  /\ Distinct(ready)
  /\ \A c \in ToSet(ready) : calls[c] \in {"waiting", "sleeping"} /\ fut[c] \in {"done", "cancelled"}

\* The line and the deque hold those they should, in the same order.
InLine ==
  /\ lockWaiters \in Seq(Callers) /\ Distinct(lockWaiters)
  /\ line \in Seq(Callers) /\ Distinct(line)
  /\ \A c \in Callers : c \in ToSet(lockWaiters) <=> calls[c] = "waiting"
  /\ \A c \in Callers : c \in ToSet(line) <=> calls[c] \in {"waiting", "sleeping"}
  /\ \A c, d \in Callers : Before(lockWaiters, c, d) => Before(line, c, d)

\* One sleeps at a time, with the lock, and whoever is ahead of it is cancelled.
SleeperFirst ==
  \A c \in Callers : calls[c] = "sleeping" =>
    /\ locked
    /\ \A d \in Callers : Before(line, d, c) => Thrown(d)
    /\ \A d \in Callers : calls[d] = "sleeping" => d = c

\* A waiter that has been woken is the first, and the lock is there for it.
WokenFirst ==
  \A c \in Callers : calls[c] = "waiting" /\ fut[c] = "done" => ~locked /\ Head(lockWaiters) = c

OrderInv == LineTypes /\ TurnsNeat /\ InLine /\ SleeperFirst /\ WokenFirst

\* Nobody whom c should let pass is left.
Clear(c) ==
  /\ \A d \in Callers : calls[d] = "sleeping" => d = c
  /\ \A d \in Callers : calls[d] = "waiting" /\ fut[d] = "done" => d = c
  /\ \A d \in ToSet(line) : Before(line, d, c) \/ c \notin ToSet(line) => Thrown(d)

LEMMA NobodyAhead ==
  ASSUME OrderInv, NEW c \in Callers, Clear(c)
  PROVE  Ahead(c) = {}
  <1>1. ASSUME NEW j \in DOMAIN line, ~Thrown(line[j]), \A n \in 1 .. j : line[n] # c
        PROVE  FALSE
    <2>1. line \in Seq(Callers) /\ line[j] \in ToSet(line)
      BY DEF OrderInv, InLine, ToSet
    <2>2. CASE c \notin ToSet(line)
      BY <1>1, <2>1, <2>2 DEF Clear
    <2>3. CASE c \in ToSet(line)
      <3>1. PICK k \in DOMAIN line : line[k] = c
        BY <2>3 DEF ToSet
      <3>2. j < k
        BY <1>1, <2>1, <3>1
      <3>3. Before(line, line[j], c)
        BY <3>1, <3>2 DEF Before
      <3> QED
        BY <1>1, <2>1, <3>3 DEF Clear
    <2> QED
      BY <2>2, <2>3
  <1> QED
    BY <1>1 DEF Ahead

\* Whoever gets to look at the bucket has nobody to let pass.
LEMMA SleeperClear ==
  ASSUME OrderInv, NEW c \in Callers, calls[c] = "sleeping"
  PROVE  Clear(c)
  BY DEF OrderInv, InLine, SleeperFirst, WokenFirst, Clear, ToSet

LEMMA WokenClear ==
  ASSUME OrderInv, NEW c \in Callers, calls[c] = "waiting", Turn(c), ~Thrown(c)
  PROVE  Clear(c)
  <1>1. fut[c] = "done"
    <2>1. c \in ToSet(ready)
      BY DEF OrderInv, LineTypes, TurnsNeat, LoopTypeOK, Turn, ToSet
    <2> QED
      BY <2>1 DEF OrderInv, TurnsNeat, Thrown
  <1>2. ~locked /\ Head(lockWaiters) = c
    BY <1>1 DEF OrderInv, WokenFirst
  <1>3. \A d \in Callers : calls[d] # "sleeping"
    BY <1>2 DEF OrderInv, SleeperFirst
  <1>4. ASSUME NEW d \in ToSet(line), Before(line, d, c)
        PROVE  FALSE
    <2>1. d \in Callers /\ line \in Seq(Callers) /\ Distinct(line)
      BY DEF OrderInv, InLine, ToSet
    <2>2. d # c /\ ~Before(line, c, d)
      BY <1>4, <2>1, BeforeOnce
    <2>3. d \in ToSet(lockWaiters)
      BY <1>3, <2>1 DEF OrderInv, InLine
    <2>4. Before(lockWaiters, c, d)
      BY <1>2, <2>2, <2>3, HeadBefore DEF OrderInv, InLine
    <2> QED
      BY <2>1, <2>2, <2>4 DEF OrderInv, InLine
  <1>5. c \in ToSet(line)
    BY DEF OrderInv, InLine
  <1> QED
    BY <1>2, <1>3, <1>4, <1>5 DEF OrderInv, WokenFirst, Clear

LEMMA BargerClear ==
  ASSUME OrderInv, NEW c \in Callers, calls[c] = "idle", MayBarge
  PROVE  Clear(c)
  <1>1. ~locked /\ \A d \in ToSet(lockWaiters) : fut[d] = "cancelled"
    BY DEF MayBarge, ToSet
  <1>2. \A d \in Callers : calls[d] # "sleeping"
    BY <1>1 DEF OrderInv, SleeperFirst
  <1>3. \A d \in Callers : calls[d] = "waiting" => fut[d] = "cancelled"
    BY <1>1 DEF OrderInv, InLine
  <1>4. \A d \in ToSet(line) : d \in Callers /\ calls[d] = "waiting"
    BY <1>2 DEF OrderInv, InLine, ToSet
  <1> QED
    BY <1>2, <1>3, <1>4 DEF Clear, Thrown

-----------------------------------------------------------------------------
(* A turn of the bucket's *)

\* What a turn of c, or a call of it, leaves as it was.
LEMMA CallerTurns ==
  ASSUME OrderInv, NEW c \in Callers, MayAct(c), NEW state \in {"pending", "none"},
         NEW woken \in Seq(Callers), Distinct(woken),
         \A d \in ToSet(woken) : calls[d] = "waiting" /\ fut[d] = "pending" /\ d # c,
         Advance(c, state, woken, <<>>), running' = NoTask,
         NEW to \in CallStates, calls' = [calls EXCEPT ![c] = to]
  PROVE  /\ LoopTypeOK(Callers)' /\ calls' \in [Callers -> CallStates]
         /\ TurnsNeat'
         /\ \A d \in Callers \ {c} :
              /\ fut'[d] = IF d \in ToSet(woken) THEN "done" ELSE fut[d]
              /\ calls'[d] = calls[d]
              /\ Thrown(d)' <=> Thrown(d)
         /\ fut'[c] = state /\ calls'[c] = to
  <1>1. /\ LoopTypeOK(Callers) /\ NoTask \notin Callers /\ calls \in [Callers -> CallStates]
        /\ running = NoTask /\ Distinct(ready)
        /\ \A d \in ToSet(ready) : calls[d] \in {"waiting", "sleeping"} /\ fut[d] \in {"done", "cancelled"}
    BY DEF OrderInv, LineTypes, TurnsNeat
  <1>2. \A d \in ToSet(ready) : d \in Callers
    BY <1>1 DEF LoopTypeOK, ToSet
  <1>3. LoopNeat /\ Scheduled = ToSet(ready)
    BY <1>1, <1>2 DEF LoopNeat, Scheduled
  <1>4. <<>> \in Seq(Callers) /\ Distinct(<<>>) /\ ToSet(<<>>) = {}
    BY ShortDistinct
  <1>5. ToSet(woken) \cap Scheduled = {}
    BY <1>1, <1>3
  <1>6. state \in FutureState /\ c \notin ToSet(woken)
    BY DEF FutureState
  <1>7. /\ LoopTypeOK(Callers)' /\ LoopNeat'
        /\ Scheduled' = (Scheduled \ {c}) \cup ToSet(woken)
    BY <1>1, <1>3, <1>5, <1>6, QuietTurn
  <1>8. \A d \in Callers : fut'[d] = IF d = c THEN state ELSE IF d \in ToSet(woken) THEN "done" ELSE fut[d]
    BY <1>1, AdvanceFutures
  <1>9. \A d \in Callers : calls'[d] = IF d = c THEN to ELSE calls[d]
    BY <1>1
  <1>10. \A d \in Callers \ {c} : Thrown(d)' <=> Thrown(d)
    <2> TAKE d \in Callers \ {c}
    <2>1. fut'[d] = "cancelled" <=> fut[d] = "cancelled"
      BY <1>8
    <2>2. d \in mustCancel' <=> d \in mustCancel
      BY DEF Advance
    <2> QED
      BY <2>1, <2>2 DEF Thrown
  <1>11. TurnsNeat'
    <2>1. ToSet(ready') \subseteq (ToSet(ready) \ {c}) \cup ToSet(woken)
      BY <1>3, <1>7 DEF Scheduled
    <2>2. \A d \in ToSet(woken) : d \in Callers
      BY DEF ToSet
    <2> QED
      BY <1>1, <1>2, <1>7, <1>8, <1>9, <2>1, <2>2 DEF TurnsNeat, LoopNeat
  <1> QED
    BY <1>1, <1>7, <1>8, <1>9, <1>10, <1>11

\* The deque and the line when somebody leaves both of them.
LEMMA LinesShrink ==
  ASSUME OrderInv, NEW c \in Callers
  PROVE  /\ Dropped(lockWaiters, c) \in Seq(Callers) /\ Distinct(Dropped(lockWaiters, c))
         /\ Dropped(line, c) \in Seq(Callers) /\ Distinct(Dropped(line, c))
         /\ ToSet(Dropped(lockWaiters, c)) = ToSet(lockWaiters) \ {c}
         /\ ToSet(Dropped(line, c)) = ToSet(line) \ {c}
         /\ \A d, e : Before(Dropped(line, c), d, e) <=> Before(line, d, e) /\ d # c /\ e # c
         /\ \A d, e : Before(Dropped(lockWaiters, c), d, e) <=> Before(lockWaiters, d, e) /\ d # c /\ e # c
  BY DroppedDistinct, DroppedBefore DEF OrderInv, InLine

\* Whom the lock wakes when c is out of its deque.
WakesIt(c, woken) ==
  \/ woken = <<>>
  \/ /\ Dropped(lockWaiters, c) # <<>>
     /\ woken = <<Head(Dropped(lockWaiters, c))>>
     /\ fut[Head(Dropped(lockWaiters, c))] = "pending"

LEMMA WakesNext ==
  ASSUME OrderInv, NEW c \in Callers, NEW woken, WakesIt(c, woken)
  PROVE  /\ woken \in Seq(Callers) /\ Distinct(woken)
         /\ \A d \in ToSet(woken) : /\ d \in Callers /\ d # c
                                    /\ calls[d] = "waiting" /\ fut[d] = "pending"
                                    /\ d = Head(Dropped(lockWaiters, c))
  <1>1. CASE woken = <<>>
    BY <1>1, ShortDistinct
  <1>2. CASE woken # <<>>
    <2> DEFINE rest == Dropped(lockWaiters, c)
    <2>1. rest # <<>> /\ woken = <<Head(rest)>> /\ fut[Head(rest)] = "pending"
      BY <1>2 DEF WakesIt
    <2>2. rest \in Seq(Callers) /\ ToSet(rest) = ToSet(lockWaiters) \ {c}
      BY LinesShrink
    <2> HIDE DEF rest
    <2>3. Head(rest) = rest[1] /\ 1 \in DOMAIN rest /\ Head(rest) \in Callers
      BY <2>1, <2>2
    <2>4. Head(rest) \in ToSet(lockWaiters) /\ Head(rest) # c
      BY <2>2, <2>3 DEF ToSet
    <2>5. calls[Head(rest)] = "waiting"
      BY <2>3, <2>4 DEF OrderInv, InLine
    <2>6. Distinct(woken) /\ ToSet(woken) = {Head(rest)} /\ woken \in Seq(Callers)
      BY <2>1, <2>3, ShortDistinct
    <2> QED
      BY <2>1, <2>3, <2>4, <2>5, <2>6 DEF rest
  <1> QED
    BY <1>1, <1>2

\* c is out, granted or cancelled.
LEMMA LineExits ==
  ASSUME OrderInv, NEW c \in Callers, MayAct(c),
         NEW to \in {"granted", "cancelled"}, calls' = [calls EXCEPT ![c] = to],
         lockWaiters' = Dropped(lockWaiters, c), line' = Dropped(line, c),
         locked' \in BOOLEAN, locked' => locked,
         ~locked' => \A d \in Callers : calls[d] = "sleeping" => d = c,
         NEW woken, WakesIt(c, woken), woken # <<>> => ~locked',
         Ends(c, woken, <<>>)
  PROVE  OrderInv'
  <1>1. /\ woken \in Seq(Callers) /\ Distinct(woken)
        /\ \A d \in ToSet(woken) : /\ d \in Callers /\ d # c
                                   /\ calls[d] = "waiting" /\ fut[d] = "pending"
                                   /\ d = Head(Dropped(lockWaiters, c))
    BY WakesNext
  <1>2. Advance(c, "none", woken, <<>>) /\ running' = NoTask
    BY DEF Ends
  <1>3. /\ LoopTypeOK(Callers)' /\ calls' \in [Callers -> CallStates] /\ TurnsNeat'
        /\ \A d \in Callers \ {c} : /\ fut'[d] = IF d \in ToSet(woken) THEN "done" ELSE fut[d]
                                    /\ calls'[d] = calls[d]
                                    /\ Thrown(d)' <=> Thrown(d)
        /\ calls'[c] = to
    <2>1. to \in CallStates
      BY DEF CallStates
    <2> QED
      BY <1>1, <1>2, <2>1, CallerTurns
  <1>4. LineTypes'
    BY <1>3 DEF OrderInv, LineTypes
  <1>5. InLine'
    BY <1>3, LinesShrink DEF OrderInv, InLine
  <1>6. SleeperFirst'
    <2>1. ASSUME NEW d \in Callers, calls'[d] = "sleeping"
          PROVE  /\ locked'
                 /\ \A e \in Callers : Before(line', e, d) => Thrown(e)'
                 /\ \A e \in Callers : calls'[e] = "sleeping" => e = d
      <3>1. d # c /\ calls[d] = "sleeping"
        BY <1>3, <2>1
      <3> QED
        BY <1>3, <3>1, LinesShrink DEF OrderInv, LineTypes, SleeperFirst
    <2> QED
      BY <2>1 DEF SleeperFirst
  <1>7. WokenFirst'
    <2>1. ASSUME NEW d \in Callers, calls'[d] = "waiting", fut'[d] = "done"
          PROVE  ~locked' /\ Head(lockWaiters') = d
      <3>1. d # c /\ calls[d] = "waiting"
        BY <1>3, <2>1
      <3>2. CASE d \in ToSet(woken)
        <4>1. woken # <<>>
          BY <3>2 DEF ToSet
        <4> QED
          BY <1>1, <3>2, <4>1
      <3>3. CASE d \notin ToSet(woken)
        <4>1. fut[d] = "done"
          BY <1>3, <2>1, <3>1, <3>3
        <4>2. ~locked /\ Head(lockWaiters) = d /\ d \in ToSet(lockWaiters)
          BY <3>1, <4>1 DEF OrderInv, WokenFirst, InLine
        <4>3. lockWaiters \in Seq(Callers) /\ lockWaiters # <<>>
          BY <4>2 DEF OrderInv, InLine, ToSet
        <4>4. Head(Dropped(lockWaiters, c)) = d
          BY <3>1, <4>2, <4>3, DroppedHead
        <4> QED
          BY <4>2, <4>4
      <3> QED
        BY <3>2, <3>3
    <2> QED
      BY <2>1 DEF WokenFirst
  <1> QED
    BY <1>3, <1>4, <1>5, <1>6, <1>7 DEF OrderInv

\* c goes to sleep with the lock.
LEMMA LineSleeps ==
  ASSUME OrderInv, NEW c \in Callers, MayAct(c), Clear(c),
         calls[c] \in {"idle", "waiting", "sleeping"}, calls' = [calls EXCEPT ![c] = "sleeping"],
         locked' = TRUE, lockWaiters' = Dropped(lockWaiters, c),
         line' = IF calls[c] = "idle" THEN Append(line, c) ELSE line,
         Suspends(c, <<>>)
  PROVE  OrderInv'
  <1>1. Advance(c, "pending", <<>>, <<>>) /\ running' = NoTask
    BY DEF Suspends
  <1>2. <<>> \in Seq(Callers) /\ Distinct(<<>>) /\ ToSet(<<>>) = {} /\ "sleeping" \in CallStates
    BY ShortDistinct DEF CallStates
  <1>3. /\ LoopTypeOK(Callers)' /\ calls' \in [Callers -> CallStates] /\ TurnsNeat'
        /\ \A d \in Callers \ {c} : /\ fut'[d] = fut[d]
                                    /\ calls'[d] = calls[d]
                                    /\ Thrown(d)' <=> Thrown(d)
        /\ calls'[c] = "sleeping"
    BY <1>1, <1>2, CallerTurns
  <1>4. LineTypes'
    BY <1>3 DEF OrderInv, LineTypes
  <1>5. line \in Seq(Callers) /\ Distinct(line) /\ (c \in ToSet(line) <=> calls[c] # "idle")
    BY DEF OrderInv, InLine
  <1>6. /\ line' \in Seq(Callers) /\ Distinct(line') /\ ToSet(line') = ToSet(line) \cup {c}
        /\ \A d, e \in Callers : Before(line, d, e) => Before(line', d, e)
        /\ \A d \in Callers : Before(line', d, c) => d \in ToSet(line) \ {c} /\ (Before(line, d, c) \/ c \notin ToSet(line))
    <2>1. CASE calls[c] = "idle"
      <3>1. line' = Append(line, c)
        BY <2>1
      <3>2. \A d, e : Before(line', d, e) <=> Before(line, d, e) \/ (d \in ToSet(line) /\ e = c)
        BY <1>5, <3>1, AppendBefore
      <3> QED
        BY <1>5, <2>1, <3>1, <3>2, AppendDistinct, BeforeOnce
    <2>2. CASE calls[c] # "idle"
      BY <1>5, <2>2, BeforeOnce
    <2> QED
      BY <2>1, <2>2
  <1>7. InLine'
    BY <1>3, <1>6, LinesShrink DEF OrderInv, InLine
  <1>8. SleeperFirst'
    <2>1. \A d \in Callers : calls'[d] = "sleeping" => d = c
      BY <1>3 DEF Clear
    <2>2. \A d \in Callers : Before(line', d, c) => Thrown(d)'
      BY <1>3, <1>6 DEF Clear
    <2> QED
      BY <2>1, <2>2 DEF SleeperFirst
  <1>9. WokenFirst'
    BY <1>3 DEF WokenFirst, Clear
  <1> QED
    BY <1>3, <1>4, <1>7, <1>8, <1>9 DEF OrderInv

\* c waits for the lock, behind everybody.
LEMMA LineQueues ==
  ASSUME OrderInv, NEW c \in Callers, MayAct(c),
         calls[c] = "idle", calls' = [calls EXCEPT ![c] = "waiting"],
         locked' = locked, lockWaiters' = Append(lockWaiters, c), line' = Append(line, c),
         Suspends(c, <<>>)
  PROVE  OrderInv'
  <1>1. Advance(c, "pending", <<>>, <<>>) /\ running' = NoTask
    BY DEF Suspends
  <1>2. <<>> \in Seq(Callers) /\ Distinct(<<>>) /\ ToSet(<<>>) = {} /\ "waiting" \in CallStates
    BY ShortDistinct DEF CallStates
  <1>3. /\ LoopTypeOK(Callers)' /\ calls' \in [Callers -> CallStates] /\ TurnsNeat'
        /\ \A d \in Callers \ {c} : /\ fut'[d] = fut[d]
                                    /\ calls'[d] = calls[d]
                                    /\ Thrown(d)' <=> Thrown(d)
        /\ calls'[c] = "waiting" /\ fut'[c] = "pending"
    BY <1>1, <1>2, CallerTurns
  <1>4. LineTypes'
    BY <1>3 DEF OrderInv, LineTypes
  <1>5. /\ line \in Seq(Callers) /\ Distinct(line) /\ c \notin ToSet(line)
        /\ lockWaiters \in Seq(Callers) /\ Distinct(lockWaiters) /\ c \notin ToSet(lockWaiters)
    BY DEF OrderInv, InLine
  <1>6. /\ line' \in Seq(Callers) /\ Distinct(line') /\ ToSet(line') = ToSet(line) \cup {c}
        /\ lockWaiters' \in Seq(Callers) /\ Distinct(lockWaiters')
        /\ ToSet(lockWaiters') = ToSet(lockWaiters) \cup {c}
    BY <1>5, AppendDistinct
  <1>7. /\ \A d, e : Before(line', d, e) <=> Before(line, d, e) \/ (d \in ToSet(line) /\ e = c)
        /\ \A d, e : Before(lockWaiters', d, e) <=> Before(lockWaiters, d, e) \/ (d \in ToSet(lockWaiters) /\ e = c)
    BY <1>5, AppendBefore
  <1>8. InLine'
    BY <1>3, <1>6, <1>7 DEF OrderInv, InLine
  <1>9. SleeperFirst'
    <2>1. ASSUME NEW d \in Callers, calls'[d] = "sleeping"
          PROVE  /\ locked'
                 /\ \A e \in Callers : Before(line', e, d) => Thrown(e)'
                 /\ \A e \in Callers : calls'[e] = "sleeping" => e = d
      <3>1. d # c /\ calls[d] = "sleeping"
        BY <1>3, <2>1
      <3>2. ASSUME NEW e \in Callers, Before(line', e, d)
            PROVE  Thrown(e)'
        <4>1. Before(line, e, d)
          BY <1>7, <3>1, <3>2
        <4>2. e # c
          BY <1>5, <4>1, BeforeOnce
        <4> QED
          BY <1>3, <3>1, <4>1, <4>2 DEF OrderInv, SleeperFirst
      <3> QED
        BY <1>3, <3>1, <3>2 DEF OrderInv, SleeperFirst
    <2> QED
      BY <2>1 DEF SleeperFirst
  <1>10. WokenFirst'
    <2>1. ASSUME NEW d \in Callers, calls'[d] = "waiting", fut'[d] = "done"
          PROVE  ~locked' /\ Head(lockWaiters') = d
      <3>1. d # c /\ calls[d] = "waiting" /\ fut[d] = "done"
        BY <1>3, <2>1
      <3>2. ~locked /\ Head(lockWaiters) = d /\ d \in ToSet(lockWaiters)
        BY <3>1 DEF OrderInv, WokenFirst, InLine
      <3>3. lockWaiters # <<>>
        BY <3>2 DEF ToSet
      <3>4. Head(Append(lockWaiters, c)) = Head(lockWaiters)
        BY <1>5, <3>3
      <3> QED
        BY <3>2, <3>4
    <2> QED
      BY <2>1 DEF WokenFirst
  <1> QED
    BY <1>3, <1>4, <1>8, <1>9, <1>10 DEF OrderInv

-----------------------------------------------------------------------------
(* Every step keeps the line *)

LEMMA FirstWakes ==
  ASSUME OrderInv, NEW c \in Callers
  PROVE  WakesIt(c, FirstOf(Dropped(lockWaiters, c)))
  BY DEF WakesIt, FirstOf

\* A caller that has nothing to wait for yet is not scheduled.
LEMMA NewcomerMayAct ==
  ASSUME OrderInv, NEW c \in Callers, calls[c] = "idle"
  PROVE  MayAct(c)
  <1>1. running = NoTask /\ c # NoTask /\ c \notin ToSet(ready)
    BY DEF OrderInv, LineTypes, TurnsNeat
  <1> QED
    BY <1>1 DEF MayAct, Idle, Scheduled

\* One look at the bucket, with nobody to let pass.
LEMMA LooksInLine ==
  ASSUME OrderInv, NEW c \in Callers, MayAct(c), Clear(c), NEW amount,
         calls[c] \in {"idle", "waiting", "sleeping"},
         TakeOrSleep(c, amount),
         line' = IF Refilled >= amount THEN Dropped(line, c)
                 ELSE IF calls[c] = "idle" THEN Append(line, c) ELSE line
  PROVE  OrderInv'
  <1>1. CASE Refilled >= amount
    <2> DEFINE woken == FirstOf(Dropped(lockWaiters, c))
    <2>1. /\ calls' = [calls EXCEPT ![c] = "granted"] /\ locked' = FALSE
          /\ lockWaiters' = Dropped(lockWaiters, c) /\ Ends(c, woken, <<>>)
      BY <1>1 DEF TakeOrSleep, CallMoves, Release
    <2>2. WakesIt(c, woken)
      BY FirstWakes
    <2>3. \A d \in Callers : calls[d] = "sleeping" => d = c
      BY DEF Clear
    <2> HIDE DEF woken
    <2> QED
      BY <1>1, <2>1, <2>2, <2>3, LineExits
  <1>2. CASE ~(Refilled >= amount)
    <2>1. /\ calls' = [calls EXCEPT ![c] = "sleeping"] /\ locked' = TRUE
          /\ lockWaiters' = Dropped(lockWaiters, c) /\ Suspends(c, <<>>)
      BY <1>2 DEF TakeOrSleep, CallMoves
    <2> QED
      BY <1>2, <2>1, LineSleeps
  <1> QED
    BY <1>1, <1>2

LEMMA AcquireInLine ==
  ASSUME OrderInv, NEW c \in Callers, NEW amount, Acquire(c, amount)
  PROVE  OrderInv'
  <1>1. calls[c] = "idle" /\ MayAct(c)
    BY NewcomerMayAct DEF Acquire
  <1>2. CASE MayBarge
    <2>1. Clear(c)
      BY <1>1, <1>2, BargerClear
    <2>2. Dropped(line, c) = line
      <3>1. c \notin ToSet(line)
        BY <1>1 DEF OrderInv, InLine
      <3> QED
        BY <3>1, DroppedStranger
    <2>3. /\ TakeOrSleep(c, amount)
          /\ line' = IF Refilled >= amount THEN line ELSE Append(line, c)
      BY <1>2 DEF Acquire
    <2> QED
      BY <1>1, <2>1, <2>2, <2>3, LooksInLine
  <1>3. CASE ~MayBarge
    <2>1. /\ calls' = [calls EXCEPT ![c] = "waiting"] /\ locked' = locked
          /\ lockWaiters' = Append(lockWaiters, c) /\ line' = Append(line, c)
          /\ Suspends(c, <<>>)
      BY <1>3 DEF Acquire, CallMoves, Queues
    <2> QED
      BY <1>1, <2>1, LineQueues
  <1> QED
    BY <1>2, <1>3

\* Whoever looks again, the lock having come to it or its sleep being over.
LEMMA LookingClear ==
  ASSUME OrderInv, NEW c \in Callers, Looking(c)
  PROVE  Clear(c)
  <1>1. Turn(c) /\ ~Thrown(c) /\ calls[c] \in {"waiting", "sleeping"}
    BY DEF Looking
  <1> QED
    BY <1>1, SleeperClear, WokenClear

LEMMA LookingInLine ==
  ASSUME OrderInv, NEW c \in Callers, Looking(c)
  PROVE  OrderInv'
  <1>1. Turn(c) /\ calls[c] \in {"waiting", "sleeping"} /\ TakeOrSleep(c, asked[c])
    BY DEF Looking
  <1>2. line' = IF Refilled >= asked[c] THEN Dropped(line, c) ELSE line
    BY DEF Looking, OutOfLine
  <1>3. MayAct(c)
    BY <1>1 DEF MayAct
  <1>4. calls[c] # "idle" /\ calls[c] \in {"idle", "waiting", "sleeping"}
    BY <1>1
  <1> QED
    BY <1>1, <1>2, <1>3, <1>4, LookingClear, LooksInLine

LEMMA WaiterCancelledInLine ==
  ASSUME OrderInv, NEW c \in Callers, WaiterCancelled(c)
  PROVE  OrderInv'
  <1> DEFINE woken == IF locked THEN <<>> ELSE FirstOf(Dropped(lockWaiters, c))
  <1>1. /\ Turn(c) /\ calls' = [calls EXCEPT ![c] = "cancelled"] /\ locked' = locked
        /\ lockWaiters' = Dropped(lockWaiters, c) /\ line' = Dropped(line, c)
        /\ Ends(c, woken, <<>>)
    BY DEF WaiterCancelled, CallMoves, WaiterLeaves, OutOfLine
  <1>2. WakesIt(c, woken) /\ (woken # <<>> => ~locked)
    BY FirstWakes DEF WakesIt
  <1>3. ~locked => \A d \in Callers : calls[d] # "sleeping"
    BY DEF OrderInv, SleeperFirst
  <1>4. MayAct(c) /\ locked \in BOOLEAN
    BY <1>1 DEF MayAct, OrderInv, LineTypes
  <1> HIDE DEF woken
  <1> QED
    BY <1>1, <1>2, <1>3, <1>4, LineExits

LEMMA SleeperCancelledInLine ==
  ASSUME OrderInv, NEW c \in Callers, SleeperCancelled(c)
  PROVE  OrderInv'
  <1> DEFINE woken == FirstOf(Dropped(lockWaiters, c))
  <1>1. /\ Turn(c) /\ calls[c] = "sleeping" /\ calls' = [calls EXCEPT ![c] = "cancelled"]
        /\ locked' = FALSE /\ lockWaiters' = Dropped(lockWaiters, c) /\ line' = Dropped(line, c)
        /\ Ends(c, woken, <<>>)
    BY DEF SleeperCancelled, CallMoves, Release, OutOfLine
  <1>2. WakesIt(c, woken)
    BY FirstWakes
  <1>3. \A d \in Callers : calls[d] = "sleeping" => d = c
    BY <1>1 DEF OrderInv, SleeperFirst
  <1>4. MayAct(c)
    BY <1>1 DEF MayAct
  <1> HIDE DEF woken
  <1> QED
    BY <1>1, <1>2, <1>3, <1>4, LineExits

\* Nothing moves but what the line is not about.
LEMMA LineStands ==
  ASSUME OrderInv, UNCHANGED <<loopVars, locked, lockWaiters, calls, line>>
  PROVE  OrderInv'
  <1>1. /\ LineTypes' /\ TurnsNeat' /\ InLine'
        /\ \A c \in Callers : Thrown(c)' <=> Thrown(c)
    BY DEF OrderInv, LineTypes, LoopTypeOK, TurnsNeat, InLine, Thrown, loopVars
  <1> QED
    BY <1>1 DEF OrderInv, SleeperFirst, WokenFirst, loopVars

\* The sleep of c is over, or the application cancels it while it waits.
LEMMA SignalInLine ==
  ASSUME OrderInv, NEW c \in Callers, fut[c] = "pending", calls[c] \in {"waiting", "sleeping"},
         NEW state \in {"done", "cancelled"}, state = "done" => calls[c] = "sleeping",
         fut' = [fut EXCEPT ![c] = state], ready' = Append(ready, c),
         UNCHANGED <<running, mustCancel, locked, lockWaiters, calls, line>>
  PROVE  OrderInv'
  <1>1. /\ ready \in Seq(Callers) /\ Distinct(ready) /\ c \notin ToSet(ready)
        /\ fut \in [Callers -> FutureState]
    BY DEF OrderInv, LineTypes, LoopTypeOK, TurnsNeat
  <1>2. ready' \in Seq(Callers) /\ Distinct(ready') /\ ToSet(ready') = ToSet(ready) \cup {c}
    BY <1>1, AppendDistinct
  <1>3. \A d \in Callers : fut'[d] = IF d = c THEN state ELSE fut[d]
    BY <1>1
  <1>4. LineTypes'
    BY <1>1, <1>2 DEF OrderInv, LineTypes, LoopTypeOK, FutureState
  <1>5. TurnsNeat'
    <2>1. \A d \in ToSet(ready) : d \in Callers
      BY <1>1 DEF ToSet
    <2> QED
      BY <1>2, <1>3, <2>1 DEF OrderInv, TurnsNeat
  <1>6. InLine'
    BY DEF OrderInv, InLine
  <1>7. \A d \in Callers : Thrown(d) => Thrown(d)'
    BY <1>3 DEF Thrown
  <1>8. SleeperFirst'
    BY <1>7 DEF OrderInv, SleeperFirst
  <1>9. WokenFirst'
    BY <1>3 DEF OrderInv, WokenFirst
  <1> QED
    BY <1>4, <1>5, <1>6, <1>8, <1>9 DEF OrderInv

LEMMA SleepEndsInLine ==
  ASSUME OrderInv, NEW c \in Callers, SleepEnds(c)
  PROVE  OrderInv'
  <1>1. /\ calls[c] = "sleeping" /\ Completes(c)
        /\ UNCHANGED <<locked, lockWaiters, calls, line>>
    BY DEF SleepEnds, lockVars
  <1> QED
    BY <1>1, SignalInLine DEF Completes

LEMMA CancelInLine ==
  ASSUME OrderInv, NEW c \in Callers, CancelCall(c)
  PROVE  OrderInv'
  <1>1. /\ calls[c] \in {"waiting", "sleeping"} /\ Cancels(c)
        /\ UNCHANGED <<locked, lockWaiters, calls, line>>
    BY DEF CancelCall, lockVars
  <1>2. CASE fut[c] = "pending"
    BY <1>1, <1>2, SignalInLine DEF Cancels
  <1>3. CASE fut[c] # "pending"
    <2>1. mustCancel' = mustCancel \cup {c} /\ UNCHANGED <<ready, running, fut>>
      BY <1>1, <1>3 DEF Cancels
    <2>2. /\ LineTypes' /\ TurnsNeat' /\ InLine'
          /\ \A d \in Callers : Thrown(d) => Thrown(d)'
      BY <1>1, <2>1 DEF OrderInv, LineTypes, LoopTypeOK, TurnsNeat, InLine, Thrown
    <2> QED
      BY <1>1, <2>1, <2>2 DEF OrderInv, SleeperFirst, WokenFirst
  <1> QED
    BY <1>2, <1>3

LEMMA BeginsInLine ==
  ASSUME BucketInit
  PROVE  OrderInv
  <1>1. /\ ready = <<>> /\ running = NoTask /\ fut = [c \in Callers |-> "none"] /\ mustCancel = {}
        /\ locked = FALSE /\ lockWaiters = <<>> /\ line = <<>> /\ calls = [c \in Callers |-> "idle"]
    BY DEF BucketInit, LoopInit, LockInit
  <1>2. <<>> \in Seq(Callers) /\ Distinct(<<>>) /\ ToSet(<<>>) = {}
    BY ShortDistinct
  <1>3. LineTypes
    BY <1>1, <1>2, BucketAssumption DEF LineTypes, LoopTypeOK, FutureState, CallStates, BucketAssumption
  <1>4. TurnsNeat
    BY <1>1, <1>2 DEF TurnsNeat
  <1>5. InLine
    <2>1. \A c, d : ~Before(<<>>, c, d)
      BY DEF Before
    <2> QED
      BY <1>1, <1>2, <2>1 DEF InLine
  <1>6. SleeperFirst /\ WokenFirst
    BY <1>1 DEF SleeperFirst, WokenFirst
  <1> QED
    BY <1>3, <1>4, <1>5, <1>6 DEF OrderInv

LEMMA StepInLine ==
  ASSUME OrderInv, [BucketNext]_bucketVars
  PROVE  OrderInv'
  <1>1. CASE UNCHANGED bucketVars
    BY <1>1, LineStands DEF bucketVars, loopVars, lockVars, loopVars
  <1>2. CASE BucketLoopStep
    BY <1>2, LookingInLine, WaiterCancelledInLine, SleeperCancelledInLine DEF BucketLoopStep
  <1>3. ASSUME NEW c \in Callers, NEW amount \in Amounts, Acquire(c, amount)
        PROVE  OrderInv'
    BY <1>3, AcquireInLine
  <1>4. ASSUME NEW c \in Callers, SleepEnds(c)
        PROVE  OrderInv'
    BY <1>4, SleepEndsInLine
  <1>5. ASSUME NEW c \in Impatient, CancelCall(c)
        PROVE  OrderInv'
    BY <1>5, CancelInLine, BucketAssumption DEF BucketAssumption
  <1>6. CASE \/ Tick \/ StepBack \/ StepForward \/ Tokens
             \/ \E amount \in Amounts : TryAcquire(amount)
    <2>1. UNCHANGED <<loopVars, locked, lockWaiters, calls, line>>
      BY <1>6
      DEF Tick, StepBack, StepForward, Tokens, TryAcquire,
          loopVars, lockVars, loopVars
    <2> QED
      BY <2>1, LineStands
  <1> QED
    BY <1>1, <1>2, <1>3, <1>4, <1>5, <1>6 DEF BucketNext

\* Only a look at the bucket grants, and whoever looks has nobody to let pass.
LEMMA GrantsInTurn ==
  ASSUME OrderInv, [BucketNext]_bucketVars, NEW c \in Callers,
         calls[c] # "granted", calls'[c] = "granted"
  PROVE  Ahead(c) = {}
  <1>1. ASSUME NEW d \in Callers, NEW to, to # "granted", calls' = [calls EXCEPT ![d] = to]
        PROVE  FALSE
    BY <1>1 DEF OrderInv, LineTypes
  <1>2. ASSUME NEW d \in Callers, NEW amount, TakeOrSleep(d, amount)
        PROVE  c = d
    BY <1>1, <1>2 DEF OrderInv, LineTypes, TakeOrSleep, CallMoves
  <1>3. calls' # calls
    OBVIOUS
  <1>4. ASSUME NEW d \in Callers, Looking(d)
        PROVE  Ahead(c) = {}
    <2>1. c = d
      BY <1>2, <1>4 DEF Looking
    <2> QED
      BY <1>4, <2>1, LookingClear, NobodyAhead
  <1>5. ASSUME NEW d \in Callers, NEW amount, Acquire(d, amount)
        PROVE  Ahead(c) = {}
    <2>1. calls[d] = "idle" /\ MayBarge /\ c = d
      BY <1>1, <1>2, <1>5 DEF Acquire, CallMoves
    <2> QED
      BY <2>1, BargerClear, NobodyAhead
  <1>6. ASSUME NEW d \in Callers, WaiterCancelled(d) \/ SleeperCancelled(d)
        PROVE  FALSE
    BY <1>1, <1>6 DEF WaiterCancelled, SleeperCancelled, CallMoves
  <1>7. CASE BucketLoopStep
    BY <1>4, <1>6, <1>7 DEF BucketLoopStep
  <1>8. CASE \E d \in Callers, amount \in Amounts : Acquire(d, amount)
    BY <1>5, <1>8
  <1>9. CASE \/ UNCHANGED bucketVars
             \/ Tick \/ StepBack \/ StepForward \/ Tokens
             \/ \E amount \in Amounts : TryAcquire(amount)
             \/ \E d \in Callers : SleepEnds(d)
             \/ \E d \in Impatient : CancelCall(d)
    BY <1>3, <1>9
    DEF bucketVars, Tick, StepBack, StepForward, Tokens,
        TryAcquire, SleepEnds, CancelCall
  <1> QED
    BY <1>7, <1>8, <1>9 DEF BucketNext

\* TokenBucket.acquire serves its callers in the order they called, however
\* many there are and whatever is cancelled: when a call is granted, every
\* call that was made before it and still waits has been cancelled.
THEOREM InTurn == BucketSpec => ServedInOrder
  <1>1. BucketInit => OrderInv
    BY BeginsInLine
  <1>2. OrderInv /\ [BucketNext]_bucketVars => OrderInv'
    BY StepInLine
  <1>3. OrderInv /\ [BucketNext]_bucketVars =>
          [\A c \in Callers : calls[c] # "granted" /\ calls'[c] = "granted"
                                => Ahead(c) = {}]_bucketVars
    BY GrantsInTurn
  <1> QED
    BY <1>1, <1>2, <1>3, PTL DEF BucketSpec, ServedInOrder

-----------------------------------------------------------------------------
(* No lost wakeup, and every type *)

\* Under OrderInv a caller that leaves the deque with the lock free has woken the
\* next one, unless that one was on its way already.
LEMMA ExitStrandsNobody ==
  ASSUME OrderInv, NEW c \in Callers, Ends(c, FirstOf(Dropped(lockWaiters, c)), <<>>),
         lockWaiters' = Dropped(lockWaiters, c)
  PROVE  LockNotStranded'
  <1> DEFINE rest == Dropped(lockWaiters, c)
             woken == FirstOf(rest)
  <1>1. rest \in Seq(Callers) /\ ToSet(rest) = ToSet(lockWaiters) \ {c}
    BY LinesShrink
  <1>2. \A d \in Callers : fut'[d] = IF d = c THEN "none" ELSE IF d \in ToSet(woken) THEN "done" ELSE fut[d]
    <2>1. LoopTypeOK(Callers) /\ Advance(c, "none", woken, <<>>)
      BY DEF OrderInv, LineTypes, Ends
    <2> QED
      BY <2>1, AdvanceFutures
  <1> HIDE DEF rest
  <1>3. CASE rest = <<>>
    BY <1>3 DEF LockNotStranded, rest
  <1>4. CASE rest # <<>>
    <2>1. Head(rest) = rest[1] /\ 1 \in DOMAIN rest /\ Head(rest) \in Callers
      BY <1>1, <1>4
    <2>2. Head(rest) # c
      BY <1>1, <2>1 DEF ToSet
    <2>3. fut'[Head(rest)] # "pending"
      <3>1. CASE fut[Head(rest)] = "pending"
        <4>1. Head(rest) \in ToSet(woken)
          BY <1>4, <3>1, ShortDistinct DEF FirstOf
        <4> QED
          BY <1>2, <2>1, <2>2, <4>1
      <3>2. CASE fut[Head(rest)] # "pending"
        BY <1>2, <2>1, <2>2, <3>2
      <3> QED
        BY <3>1, <3>2
    <2> QED
      BY <2>1, <2>3 DEF LockNotStranded, rest
  <1> QED
    BY <1>3, <1>4

\* A step that leaves the deque, or adds to its end, and takes nobody's wakeup.
LEMMA DequeStands ==
  ASSUME LockNotStranded, locked' = locked,
         \/ lockWaiters' = lockWaiters
         \/ \E c \in Callers : lockWaiters' = Append(lockWaiters, c) /\ ~MayBarge,
         lockWaiters \in Seq(Callers),
         \A k \in DOMAIN lockWaiters : fut[lockWaiters[k]] # "pending" => fut'[lockWaiters[k]] # "pending"
  PROVE  LockNotStranded'
  <1>1. CASE lockWaiters' = lockWaiters
    BY <1>1 DEF LockNotStranded
  <1>2. ASSUME NEW c \in Callers, lockWaiters' = Append(lockWaiters, c), ~MayBarge
        PROVE  LockNotStranded'
    <2>1. \A k \in DOMAIN lockWaiters : k \in DOMAIN lockWaiters' /\ lockWaiters'[k] = lockWaiters[k]
      BY <1>2
    <2>2. ~locked => lockWaiters # <<>>
      BY <1>2 DEF MayBarge
    <2> QED
      BY <2>1, <2>2 DEF LockNotStranded
  <1> QED
    BY <1>1, <1>2

LEMMA LookStrandsNobody ==
  ASSUME OrderInv, NEW c \in Callers, NEW amount, TakeOrSleep(c, amount)
  PROVE  LockNotStranded'
  <1>1. CASE Refilled >= amount
    BY <1>1, ExitStrandsNobody DEF TakeOrSleep, Release
  <1>2. CASE ~(Refilled >= amount)
    BY <1>2 DEF TakeOrSleep, LockNotStranded
  <1> QED
    BY <1>1, <1>2

LEMMA CallStrandsNobody ==
  ASSUME OrderInv, LockNotStranded, NEW c \in Callers, NEW amount, Acquire(c, amount)
  PROVE  LockNotStranded'
  <1>1. CASE MayBarge
    BY <1>1, LookStrandsNobody DEF Acquire
  <1>2. CASE ~MayBarge
    <2>1. /\ calls[c] = "idle" /\ locked' = locked /\ lockWaiters' = Append(lockWaiters, c)
          /\ Advance(c, "pending", <<>>, <<>>)
      BY <1>2 DEF Acquire, Queues, Suspends
    <2>2. lockWaiters \in Seq(Callers) /\ LoopTypeOK(Callers) /\ c \notin ToSet(lockWaiters)
      BY <2>1 DEF OrderInv, LineTypes, InLine
    <2>3. \A d \in Callers : fut'[d] = IF d = c THEN "pending" ELSE fut[d]
      BY <2>1, <2>2, AdvanceFutures, ShortDistinct
    <2>4. \A k \in DOMAIN lockWaiters : lockWaiters[k] \in Callers /\ lockWaiters[k] # c
      BY <2>2 DEF ToSet
    <2> QED
      BY <1>2, <2>1, <2>2, <2>3, <2>4, DequeStands
  <1> QED
    BY <1>1, <1>2

\* A waiter that is cancelled passes on the wakeup it has received.
LEMMA WaiterStrandsNobody ==
  ASSUME OrderInv, NEW c \in Callers, WaiterCancelled(c)
  PROVE  LockNotStranded'
  <1>1. CASE locked
    BY <1>1 DEF WaiterCancelled, WaiterLeaves, LockNotStranded
  <1>2. CASE ~locked
    BY <1>2, ExitStrandsNobody DEF WaiterCancelled, WaiterLeaves
  <1> QED
    BY <1>1, <1>2

LEMMA SignalStrandsNobody ==
  ASSUME OrderInv, LockNotStranded, NEW c \in Callers, SleepEnds(c) \/ CancelCall(c)
  PROVE  LockNotStranded'
  <1>1. lockWaiters \in Seq(Callers) /\ fut \in [Callers -> FutureState]
    BY DEF OrderInv, LineTypes, InLine, LoopTypeOK
  <1>2. UNCHANGED <<locked, lockWaiters>>
    BY DEF SleepEnds, CancelCall, lockVars
  <1>3. \A d \in Callers : fut[d] # "pending" => fut'[d] # "pending"
    BY <1>1 DEF SleepEnds, CancelCall, Completes, Cancels
  <1>4. \A k \in DOMAIN lockWaiters : lockWaiters[k] \in Callers
    BY <1>1
  <1> QED
    BY <1>1, <1>2, <1>3, <1>4, DequeStands

LEMMA StepStrandsNobody ==
  ASSUME OrderInv, LockNotStranded, [BucketNext]_bucketVars
  PROVE  LockNotStranded'
  <1>1. ASSUME UNCHANGED <<loopVars, locked, lockWaiters>>
        PROVE  LockNotStranded'
    BY <1>1 DEF LockNotStranded, loopVars
  <1>2. ASSUME NEW c \in Callers, Looking(c)
        PROVE  LockNotStranded'
    BY <1>2, LookStrandsNobody DEF Looking
  <1>3. ASSUME NEW c \in Callers, SleeperCancelled(c)
        PROVE  LockNotStranded'
    BY <1>3, ExitStrandsNobody DEF SleeperCancelled, Release
  <1>4. CASE BucketLoopStep
    BY <1>2, <1>3, <1>4, WaiterStrandsNobody DEF BucketLoopStep
  <1>5. CASE \E c \in Callers, amount \in Amounts : Acquire(c, amount)
    BY <1>5, CallStrandsNobody
  <1>6. CASE \/ \E c \in Callers : SleepEnds(c)
             \/ \E c \in Impatient : CancelCall(c)
    BY <1>6, SignalStrandsNobody, BucketAssumption DEF BucketAssumption
  <1>7. CASE \/ UNCHANGED bucketVars \/ Tick \/ StepBack \/ StepForward \/ Tokens
             \/ \E amount \in Amounts : TryAcquire(amount)
    <2>1. UNCHANGED <<loopVars, locked, lockWaiters>>
      BY <1>7 DEF bucketVars, Tick, StepBack, StepForward, Tokens, TryAcquire, loopVars, lockVars
    <2> QED
      BY <1>1, <2>1
  <1> QED
    BY <1>4, <1>5, <1>6, <1>7 DEF BucketNext

\* No wakeup of the lock is lost between the callers of acquire, however they are
\* cancelled: when somebody is in the deque of a free lock, somebody there is on
\* its way to take it, or to pass the wakeup on.
THEOREM NobodyLeftInLine == BucketSpec => []LockNotStranded
  <1>1. BucketInit => OrderInv /\ LockNotStranded
    BY BeginsInLine DEF BucketInit, LockInit, LockNotStranded
  <1>2. OrderInv /\ LockNotStranded /\ [BucketNext]_bucketVars => OrderInv' /\ LockNotStranded'
    BY StepInLine, StepStrandsNobody
  <1> QED
    BY <1>1, <1>2, PTL DEF BucketSpec

\* The clock is never further back than it has stepped, nor further from the last
\* look than the bound on ticks and its steps forward; nobody sleeps for more than
\* it takes to fill the bucket.
ClockTypes ==
  /\ offset \in Int /\ -MaxBack <= offset /\ offset <= 0
  /\ lag \in Int /\ offset <= lag /\ lag <= MaxLag + forward
  /\ forward \in Nat /\ forward <= MaxForward
  /\ tries \in Nat /\ tries <= MaxTries
  /\ left \in Nat /\ left <= Capacity

LEMMA LookClock ==
  ASSUME ClockTypes, Looks, tries' = tries, left' = left
  PROVE  ClockTypes'
  BY BucketAssumption DEF ClockTypes, Looks, BucketAssumption

LEMMA LookTypes ==
  ASSUME BucketInv, ClockTypes, NEW c \in Callers, NEW amount \in {0} \cup Amounts,
         TakeOrSleep(c, amount), tries' = tries
  PROVE  ClockTypes'
  <1>1. CASE Refilled >= amount
    BY <1>1, LookClock DEF TakeOrSleep
  <1>2. CASE ~(Refilled >= amount)
    <2>1. Refilled \in Nat /\ Capacity \in Nat /\ amount \in Nat /\ amount <= Capacity
      BY RefilledIs, BucketAssumption DEF BucketInv, BucketTypes, BucketAssumption
    <2>2. left' = amount - Refilled /\ Looks
      BY <1>2 DEF TakeOrSleep
    <2>3. left' \in Nat /\ left' <= Capacity
      BY <1>2, <2>1, <2>2
    <2> QED
      BY <2>2, <2>3, BucketAssumption DEF ClockTypes, Looks, BucketAssumption
  <1> QED
    BY <1>1, <1>2

LEMMA TimeTypes ==
  ASSUME ClockTypes, Tick \/ StepBack \/ StepForward
  PROVE  ClockTypes'
  <1>1. CASE Tick
    <2>1. left' = IF left = 0 THEN 0 ELSE left - 1
      BY <1>1, LeakIs DEF Tick, ClockTypes
    <2> QED
      BY <1>1, <2>1, BucketAssumption DEF Tick, ClockTypes, BucketAssumption
  <1>2. CASE StepBack
    BY <1>2, BucketAssumption DEF StepBack, ClockTypes, BucketAssumption
  <1>3. CASE StepForward
    BY <1>3, BucketAssumption DEF StepForward, ClockTypes, BucketAssumption
  <1> QED
    BY <1>1, <1>2, <1>3

LEMMA ClockStands ==
  ASSUME ClockTypes, UNCHANGED <<clockVars, tries>>, left' \in {0, left}
  PROVE  ClockTypes'
  BY BucketAssumption DEF ClockTypes, clockVars, BucketAssumption

LEMMA StepClock ==
  ASSUME BucketInv, ClockTypes, [BucketNext]_bucketVars
  PROVE  ClockTypes'
  <1>1. ASSUME NEW c \in Callers, Looking(c)
        PROVE  ClockTypes'
    BY <1>1, LookTypes DEF Looking, BucketInv, BucketTypes
  <1>2. ASSUME NEW c \in Callers, WaiterCancelled(c) \/ SleeperCancelled(c)
        PROVE  ClockTypes'
    BY <1>2, ClockStands DEF WaiterCancelled, SleeperCancelled
  <1>3. CASE BucketLoopStep
    BY <1>1, <1>2, <1>3 DEF BucketLoopStep
  <1>4. ASSUME NEW c \in Callers, NEW amount \in Amounts, Acquire(c, amount)
        PROVE  ClockTypes'
    <2>1. CASE MayBarge
      BY <1>4, <2>1, LookTypes DEF Acquire
    <2>2. CASE ~MayBarge
      BY <1>4, <2>2, ClockStands DEF Acquire
    <2> QED
      BY <2>1, <2>2
  <1>5. ASSUME NEW amount \in Amounts, TryAcquire(amount)
        PROVE  ClockTypes'
    <2>1. CASE tries' = tries
      BY <1>5, <2>1, LookClock DEF TryAcquire
    <2>2. CASE tries < MaxTries /\ tries' = tries + 1
      BY <1>5, <2>2, BucketAssumption DEF TryAcquire, ClockTypes, Looks, BucketAssumption
    <2> QED
      BY <1>5, <2>1, <2>2 DEF TryAcquire
  <1>6. CASE Tokens
    BY <1>6, LookClock DEF Tokens
  <1>7. CASE Tick \/ StepBack \/ StepForward
    BY <1>7, TimeTypes
  <1>8. CASE \/ UNCHANGED bucketVars
             \/ \E c \in Callers : SleepEnds(c)
             \/ \E c \in Impatient : CancelCall(c)
    BY <1>8, ClockStands DEF bucketVars, SleepEnds, CancelCall
  <1> QED
    BY <1>3, <1>4, <1>5, <1>6, <1>7, <1>8 DEF BucketNext

\* Every variable of the bucket has its type, whatever the constants: the bucket
\* never holds more than its capacity or less than nothing, and nobody sleeps for
\* more ticks than fill it.
THEOREM BucketTypeCorrect == BucketSpec => []BucketTypeOK
  <1>1. BucketInit => BucketInv /\ OrderInv /\ ClockTypes
    <2>1. BucketInit => ClockTypes
      BY BucketAssumption DEF BucketInit, ClockTypes, BucketAssumption
    <2> QED
      BY <2>1, BucketStarts, BeginsInLine
  <1>2. BucketInv /\ OrderInv /\ ClockTypes /\ [BucketNext]_bucketVars
          => BucketInv' /\ OrderInv' /\ ClockTypes'
    BY BucketStepKeeps, StepInLine, StepClock
  <1>3. BucketInv /\ OrderInv /\ ClockTypes => BucketTypeOK
    <2> SUFFICES ASSUME BucketInv, OrderInv, ClockTypes
                 PROVE  BucketTypeOK
      OBVIOUS
    <2>1. /\ tokens \in 0 .. Capacity
          /\ lag \in -MaxBack .. (MaxLag + MaxForward + MaxBack)
          /\ offset \in -MaxBack .. 0
          /\ forward \in 0 .. MaxForward
          /\ tries \in 0 .. MaxTries
          /\ left \in 0 .. Capacity
          /\ meter \in Nat
      BY BucketAssumption DEF BucketInv, BucketTypes, ClockTypes, BucketAssumption
    <2>2. /\ LoopTypeOK(Callers) /\ locked \in BOOLEAN /\ lockWaiters \in Seq(Callers)
          /\ line \in Seq(Callers)
          /\ calls \in [Callers -> {"idle", "waiting", "sleeping", "granted", "cancelled"}]
      BY DEF OrderInv, LineTypes, InLine, CallStates
    <2>3. asked \in [Callers -> {0} \cup Amounts]
      BY DEF BucketInv, BucketTypes
    <2> QED
      BY <2>1, <2>2, <2>3 DEF BucketTypeOK
  <1> QED
    BY <1>1, <1>2, <1>3, PTL DEF BucketSpec
=============================================================================
