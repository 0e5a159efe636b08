--------------------------- MODULE EventLoopProofs ---------------------------
(* Facts about EventLoop and sequences that the component proofs share. *)
EXTENDS EventLoop, SequenceTheorems, FiniteSetTheorems, WellFoundedInduction, TLAPS

\* RemoveAt, which stands for deque.remove, yields a sequence over the same set.
LEMMA RemoveAtType ==
  ASSUME NEW T, NEW s \in Seq(T), NEW k \in DOMAIN s
  PROVE  RemoveAt(s, k) \in Seq(T)
  <1>1. k \in 1 .. Len(s)
    OBVIOUS
  <1>2. SubSeq(s, 1, k - 1) \in Seq(T)
    BY <1>1
  <1>3. SubSeq(s, k + 1, Len(s)) \in Seq(T)
    BY <1>1
  <1> QED
    BY <1>2, <1>3 DEF RemoveAt

\* Taking somebody out of a deque of waiters leaves a deque of waiters.
LEMMA DroppedType ==
  ASSUME NEW T, NEW s \in Seq(T), NEW t
  PROVE  Dropped(s, t) \in Seq(T)
  <1>1. ASSUME t \in ToSet(s)
        PROVE  RemoveAt(s, CHOOSE k \in DOMAIN s : s[k] = t) \in Seq(T)
    <2>1. PICK k \in DOMAIN s : s[k] = t
      BY <1>1 DEF ToSet
    <2> QED
      BY <2>1, RemoveAtType
  <1> QED
    BY <1>1 DEF Dropped

\* deque.remove takes out one entry and leaves every other one in.
LEMMA RemoveAtKeeps ==
  ASSUME NEW T, NEW s \in Seq(T), NEW k \in DOMAIN s, NEW t \in ToSet(s), t # s[k]
  PROVE  t \in ToSet(RemoveAt(s, k))
  <1> DEFINE before == SubSeq(s, 1, k - 1)
             after == SubSeq(s, k + 1, Len(s))
  <1>1. k \in 1 .. Len(s) /\ Len(s) \in Nat
    OBVIOUS
  <1>2. PICK j \in 1 .. Len(s) : s[j] = t /\ j # k
    BY DEF ToSet
  <1>3. /\ before \in Seq(T) /\ Len(before) = k - 1
        /\ \A n \in 1 .. (k - 1) : before[n] = s[n]
    BY <1>1, SubSeqProperties
  <1>4. /\ after \in Seq(T) /\ Len(after) = Len(s) - k
        /\ \A n \in 1 .. (Len(s) - k) : after[n] = s[k + n]
    BY <1>1, SubSeqProperties
  <1> HIDE DEF before, after
  <1>5. /\ Len(before \o after) = Len(s) - 1
        /\ \A n \in 1 .. (Len(s) - 1) :
             (before \o after)[n] = IF n <= k - 1 THEN before[n] ELSE after[n - (k - 1)]
    <2>1. Len(before) + Len(after) = Len(s) - 1
      BY <1>1, <1>3, <1>4
    <2>2. /\ Len(before \o after) = Len(before) + Len(after)
          /\ \A n \in 1 .. Len(before) + Len(after) :
               (before \o after)[n] =
                  IF n <= Len(before) THEN before[n] ELSE after[n - Len(before)]
      BY <1>3, <1>4, ConcatProperties
    <2> QED
      BY <1>3, <2>1, <2>2
  <1>6. \E n \in 1 .. (Len(s) - 1) : (before \o after)[n] = t
    <2>1. CASE j < k
      <3>1. j \in 1 .. (Len(s) - 1) /\ j <= k - 1 /\ j \in 1 .. (k - 1)
        BY <1>1, <1>2, <2>1
      <3>2. before[j] = s[j]
        BY <1>3, <3>1
      <3> QED
        BY <1>2, <1>5, <3>1, <3>2
    <2>2. CASE j > k
      <3>1. j - 1 \in 1 .. (Len(s) - 1) /\ ~(j - 1 <= k - 1) /\ (j - 1) - (k - 1) = j - k
        BY <1>1, <1>2, <2>2
      <3>2. j - k \in 1 .. (Len(s) - k) /\ k + (j - k) = j
        BY <1>1, <1>2, <2>2
      <3>3. after[j - k] = s[j]
        BY <1>4, <3>2
      <3> QED
        BY <1>2, <1>5, <3>1, <3>3
    <2>3. j \in Int /\ k \in Int /\ j # k
      BY <1>1, <1>2
    <2>4. j < k \/ j > k
      BY <2>3
    <2> QED
      BY <2>1, <2>2, <2>4
  <1>7. before \o after \in Seq(T)
    BY <1>3, <1>4, ConcatProperties
  <1>8. DOMAIN (before \o after) = 1 .. (Len(s) - 1)
    BY <1>5, <1>7
  <1>9. t \in ToSet(before \o after)
    BY <1>6, <1>8 DEF ToSet
  <1> QED
    BY <1>9 DEF RemoveAt, before, after

\* Nobody but the one who is dropped leaves the deque.
LEMMA DroppedKeeps ==
  ASSUME NEW T, NEW s \in Seq(T), NEW c, NEW t \in ToSet(s), t # c
  PROVE  t \in ToSet(Dropped(s, c))
  <1>1. CASE c \in ToSet(s)
    <2> DEFINE k == CHOOSE n \in DOMAIN s : s[n] = c
    <2>1. k \in DOMAIN s /\ s[k] = c
      BY <1>1 DEF ToSet
    <2>2. Dropped(s, c) = RemoveAt(s, k)
      BY <1>1 DEF Dropped
    <2> HIDE DEF k
    <2> QED
      BY <2>1, <2>2, RemoveAtKeeps
  <1>2. CASE c \notin ToSet(s)
    BY <1>2 DEF Dropped
  <1> QED
    BY <1>1, <1>2

\* Finitely many numbers have a least one, because the sets of those below each
\* of them have a least one.
LEMMA LeastNumber ==
  ASSUME NEW S, S \subseteq Nat, IsFiniteSet(S), S # {}
  PROVE  Min(S) \in S /\ \A n \in S : Min(S) <= n
  <1> DEFINE Below(x) == {y \in S : y < x}
             T == {Below(x) : x \in S}
             R == StrictSubsetOrdering(S)
  <1>1. T \subseteq FiniteSubsetsOf(S)
    <2>1. \A B \in T : B \subseteq S
      OBVIOUS
    <2>2. T \subseteq SUBSET S
      BY <2>1
    <2> QED
      BY <2>2, FS_FiniteSubsetsOfFinite
  <1>2. T # {}
    OBVIOUS
  <1>3. \E B \in T : \A C \in T : ~(<<C, B>> \in R)
    <2> HIDE DEF T, R
    <2>1. IsWellFoundedOn(R, FiniteSubsetsOf(S))
      BY FS_StrictSubsetOrderingWellFounded DEF R
    <2> QED
      BY <1>1, <1>2, <2>1, WFMin
  <1>4. PICK m \in S : \A n \in S : ~(<<Below(n), Below(m)>> \in R)
    BY <1>3
  <1>5. ASSUME NEW n \in S, ~(m <= n) PROVE FALSE
    <2>1. n < m /\ n \in Nat /\ m \in Nat
      BY <1>5
    <2>2. Below(n) \subseteq Below(m) /\ n \in Below(m) /\ n \notin Below(n)
      <3>1. \A y \in S : y \in Nat /\ (y < n => y < m)
        BY <2>1
      <3>2. n \in Below(m) /\ n \notin Below(n)
        BY <2>1
      <3>3. \A y \in Below(n) : y \in Below(m)
        BY <3>1
      <3> QED
        BY <3>2, <3>3
    <2>3. Below(n) \in SUBSET S /\ Below(m) \in SUBSET S /\ Below(n) # Below(m)
      BY <2>2
    <2>4. <<Below(n), Below(m)>> \in R
      <3> HIDE DEF Below
      <3> QED
        BY <2>2, <2>3 DEF StrictSubsetOrdering
    <2> QED
      BY <1>4, <2>4
  <1> QED
    BY <1>5 DEF Min

\* Those who still wait can be told from their places in the deque.
LEMMA WaitingPlaces ==
  ASSUME NEW T, NEW s \in Seq(T), Waiting(s) # {}
  PROVE  Min(Waiting(s)) \in 1 .. Len(s) /\ fut[s[Min(Waiting(s))]] = "pending"
  <1>1. Waiting(s) \subseteq 1 .. Len(s) /\ Len(s) \in Nat
    BY DEF Waiting
  <1>2. IsFiniteSet(Waiting(s))
    <2>1. IsFiniteSet(1 .. Len(s))
      BY <1>1, FS_Interval
    <2> QED
      BY <1>1, <2>1, FS_Subset
  <1>3. Waiting(s) \subseteq Nat
    BY <1>1
  <1> QED
    BY <1>1, <1>2, <1>3, LeastNumber DEF Waiting

\* _wakeup_next wakes one of the waiters, if anybody, ...
LEMMA WokenType ==
  ASSUME NEW T, NEW s \in Seq(T)
  PROVE  Woken(s) \in Seq(T)
  BY WaitingPlaces DEF Woken

\* ... and leaves some of them.
LEMMA PoppedType ==
  ASSUME NEW T, NEW s \in Seq(T)
  PROVE  Popped(s) \in Seq(T)
  <1>1. ASSUME Waiting(s) # {}
        PROVE  SubSeq(s, Min(Waiting(s)) + 1, Len(s)) \in Seq(T)
    <2> DEFINE m == Min(Waiting(s))
    <2>1. m \in 1 .. Len(s) /\ Len(s) \in Nat
      BY <1>1, WaitingPlaces
    <2> HIDE DEF m
    <2>2. \A k \in (m + 1) .. Len(s) : s[k] \in T
      BY <2>1
    <2> QED
      BY <2>1, <2>2, SubSeqProperties DEF m
  <1> QED
    BY <1>1 DEF Popped

\* A turn keeps the event loop's variables in their types.
LEMMA AdvanceType ==
  ASSUME NEW T, LoopTypeOK(T), NEW t \in T, NEW state \in FutureState,
         NEW woken \in Seq(T), NEW callbacks \in Seq(T),
         Advance(t, state, woken, callbacks),
         running' \in T \cup {NoTask}
  PROVE  LoopTypeOK(T)'
  <1>1. Behind(t) \in Seq(T)
    BY DEF Behind, LoopTypeOK
  <1>2. ready' \in Seq(T)
    BY <1>1 DEF Advance
  <1>3. fut' \in [T -> FutureState]
    BY DEF Advance, LoopTypeOK, FutureState
  <1> QED
    BY <1>2, <1>3 DEF Advance, LoopTypeOK

\* A turn that ends in an await that suspends.
LEMMA SuspendsType ==
  ASSUME NEW T, LoopTypeOK(T), NEW t \in T, NEW woken \in Seq(T), Suspends(t, woken)
  PROVE  LoopTypeOK(T)'
  <1>1. <<>> \in Seq(T)
    OBVIOUS
  <1> QED
    BY <1>1, AdvanceType DEF Suspends, FutureState

\* A turn that goes on.
LEMMA ContinuesType ==
  ASSUME NEW T, LoopTypeOK(T), NEW t \in T, NEW woken \in Seq(T), Continues(t, woken)
  PROVE  LoopTypeOK(T)'
  <1>1. <<>> \in Seq(T)
    OBVIOUS
  <1> QED
    BY <1>1, AdvanceType DEF Continues, FutureState

\* A turn that ends with nothing awaited.
LEMMA EndsType ==
  ASSUME NEW T, LoopTypeOK(T), NEW t \in T, NEW woken \in Seq(T),
         NEW callbacks \in Seq(T), Ends(t, woken, callbacks)
  PROVE  LoopTypeOK(T)'
  BY AdvanceType DEF Ends, FutureState

\* Application code completing or cancelling keeps the types as well.
LEMMA CompletesType ==
  ASSUME NEW T, LoopTypeOK(T), NEW t \in T, Completes(t)
  PROVE  LoopTypeOK(T)'
  BY DEF LoopTypeOK, Completes, FutureState

\* Task.cancel() keeps the types, whatever the task is doing.
LEMMA CancelsType ==
  ASSUME NEW T, LoopTypeOK(T), NEW t \in T, Cancels(t)
  PROVE  LoopTypeOK(T)'
  BY DEF LoopTypeOK, Cancels, FutureState

-----------------------------------------------------------------------------
(* Queues without duplicates *)

\* Nobody is in the queue twice.
Distinct(s) == \A j, k \in DOMAIN s : s[j] = s[k] => j = k

\* The empty queue, and the queue of one.
LEMMA ShortDistinct ==
  /\ Distinct(<<>>) /\ ToSet(<<>>) = {}
  /\ \A t : Distinct(<<t>>) /\ ToSet(<<t>>) = {t}
  <1>1. Distinct(<<>>) /\ ToSet(<<>>) = {}
    BY SMT DEF Distinct, ToSet
  <1>2. ASSUME NEW t PROVE Distinct(<<t>>) /\ ToSet(<<t>>) = {t}
    <2>1. DOMAIN <<t>> = {1} /\ <<t>>[1] = t
      BY SMT
    <2> QED
      BY <2>1, SMT DEF Distinct, ToSet
  <1> QED
    BY <1>1, <1>2

\* One queue after another that has nobody in common with it.
LEMMA ConcatDistinct ==
  ASSUME NEW T, NEW r \in Seq(T), NEW s \in Seq(T)
  PROVE  /\ r \o s \in Seq(T)
         /\ ToSet(r \o s) = ToSet(r) \cup ToSet(s)
         /\ Distinct(r) /\ Distinct(s) /\ ToSet(r) \cap ToSet(s) = {} => Distinct(r \o s)
  <1> DEFINE q == r \o s
             m == Len(r)
             n == Len(s)
  <1>1. m \in Nat /\ n \in Nat /\ DOMAIN r = 1 .. m /\ DOMAIN s = 1 .. n
    OBVIOUS
  <1>2. /\ q \in Seq(T) /\ DOMAIN q = 1 .. (m + n)
        /\ \A k \in 1 .. (m + n) : q[k] = IF k <= m THEN r[k] ELSE s[k - m]
    OBVIOUS
  <1> HIDE DEF q, m, n
  <1>3. \A k \in 1 .. n : m + k \in 1 .. (m + n) /\ q[m + k] = s[k]
    <2> TAKE k \in 1 .. n
    <2>1. m + k \in 1 .. (m + n) /\ ~(m + k <= m) /\ (m + k) - m = k
      BY <1>1
    <2> QED
      BY <1>2, <2>1
  <1>4. \A k \in 1 .. m : k \in 1 .. (m + n) /\ q[k] = r[k]
    <2> TAKE k \in 1 .. m
    <2>1. k \in 1 .. (m + n) /\ k <= m
      BY <1>1
    <2> QED
      BY <1>2, <2>1
  <1>5. \A k \in 1 .. (m + n) : \/ k \in 1 .. m
                                \/ k - m \in 1 .. n /\ q[k] = s[k - m] /\ ~(k <= m)
    BY <1>1, <1>2
  <1>6. ToSet(q) = ToSet(r) \cup ToSet(s)
    <2>1. ToSet(r) \subseteq ToSet(q)
      <3> SUFFICES ASSUME NEW k \in 1 .. m PROVE r[k] \in ToSet(q)
        BY <1>1 DEF ToSet
      <3>1. k \in DOMAIN q /\ q[k] = r[k]
        BY <1>2, <1>4
      <3> QED
        BY <3>1, Zenon DEF ToSet
    <2>2. ToSet(s) \subseteq ToSet(q)
      <3> SUFFICES ASSUME NEW k \in 1 .. n PROVE s[k] \in ToSet(q)
        BY <1>1 DEF ToSet
      <3>1. m + k \in DOMAIN q /\ q[m + k] = s[k]
        BY <1>2, <1>3
      <3> QED
        BY <3>1, Zenon DEF ToSet
    <2>3. ToSet(q) \subseteq ToSet(r) \cup ToSet(s)
      BY <1>1, <1>2, <1>4, <1>5 DEF ToSet
    <2> QED
      BY <2>1, <2>2, <2>3
  <1>7. ASSUME Distinct(r), Distinct(s), ToSet(r) \cap ToSet(s) = {},
               NEW j \in 1 .. (m + n), NEW k \in 1 .. (m + n), q[j] = q[k]
        PROVE  j = k
    <2>1. CASE j \in 1 .. m /\ k \in 1 .. m
      BY <1>1, <1>4, <1>7, <2>1 DEF Distinct
    <2>2. CASE j \notin 1 .. m /\ k \notin 1 .. m
      <3>1. j - m \in 1 .. n /\ k - m \in 1 .. n /\ s[j - m] = s[k - m]
        BY <1>5, <1>7, <2>2
      <3>2. j - m = k - m
        BY <1>1, <1>7, <3>1 DEF Distinct
      <3> QED
        BY <1>1, <3>2
    <2>3. CASE j \in 1 .. m /\ k \notin 1 .. m
      <3>1. q[j] \in ToSet(r) /\ q[k] \in ToSet(s)
        BY <1>1, <1>4, <1>5, <2>3 DEF ToSet
      <3> QED
        BY <1>7, <3>1
    <2>4. CASE j \notin 1 .. m /\ k \in 1 .. m
      <3>1. q[k] \in ToSet(r) /\ q[j] \in ToSet(s)
        BY <1>1, <1>4, <1>5, <2>4 DEF ToSet
      <3> QED
        BY <1>7, <3>1
    <2> QED
      BY <2>1, <2>2, <2>3, <2>4
  <1>8. Distinct(r) /\ Distinct(s) /\ ToSet(r) \cap ToSet(s) = {} => Distinct(q)
    BY <1>2, <1>7 DEF Distinct
  <1> QED
    BY <1>2, <1>6, <1>8 DEF q

\* Somebody new at the end.
LEMMA AppendDistinct ==
  ASSUME NEW T, NEW s \in Seq(T), NEW t \in T
  PROVE  /\ Append(s, t) \in Seq(T)
         /\ ToSet(Append(s, t)) = ToSet(s) \cup {t}
         /\ Distinct(s) /\ t \notin ToSet(s) => Distinct(Append(s, t))
  <1>1. Append(s, t) = s \o <<t>> /\ <<t>> \in Seq(T)
    OBVIOUS
  <1>2. Distinct(<<t>>) /\ ToSet(<<t>>) = {t}
    BY ShortDistinct
  <1> DEFINE one == <<t>>
  <1>3. /\ s \o one \in Seq(T) /\ ToSet(s \o one) = ToSet(s) \cup ToSet(one)
        /\ Distinct(s) /\ Distinct(one) /\ ToSet(s) \cap ToSet(one) = {} => Distinct(s \o one)
    <2>1. one \in Seq(T)
      OBVIOUS
    <2> HIDE DEF one
    <2> QED
      BY <2>1, ConcatDistinct
  <1> QED
    BY <1>1, <1>2, <1>3

\* The rest of a queue from some place on.
LEMMA SuffixDistinct ==
  ASSUME NEW T, NEW s \in Seq(T), Distinct(s), NEW m \in 1 .. Len(s)
  PROVE  LET rest == SubSeq(s, m + 1, Len(s))
         IN /\ rest \in Seq(T) /\ Distinct(rest)
            /\ ToSet(rest) = {s[k] : k \in (m + 1) .. Len(s)}
            /\ \A k \in 1 .. m : s[k] \notin ToSet(rest)
  <1> DEFINE rest == SubSeq(s, m + 1, Len(s))
             n == Len(s)
  <1>1. n \in Nat /\ m \in Nat /\ m <= n /\ DOMAIN s = 1 .. n
    OBVIOUS
  <1>2. \A k \in (m + 1) .. n : s[k] \in T
    BY <1>1
  <1>3. /\ rest \in Seq(T) /\ DOMAIN rest = 1 .. (n - m)
        /\ \A k \in 1 .. (n - m) : rest[k] = s[m + k]
    BY <1>1, <1>2, SubSeqProperties
  <1> HIDE DEF rest, n
  <1>4. \A k \in 1 .. (n - m) : m + k \in (m + 1) .. n
    BY <1>1
  <1>5. \A k \in (m + 1) .. n : k - m \in 1 .. (n - m) /\ m + (k - m) = k
    BY <1>1
  <1>6. ToSet(rest) = {s[k] : k \in (m + 1) .. n}
    BY <1>3, <1>4, <1>5 DEF ToSet
  <1>7. Distinct(rest)
    <2> SUFFICES ASSUME NEW j \in 1 .. (n - m), NEW k \in 1 .. (n - m), rest[j] = rest[k]
                 PROVE  j = k
      BY <1>3 DEF Distinct
    <2>1. m + j \in DOMAIN s /\ m + k \in DOMAIN s /\ s[m + j] = s[m + k]
      BY <1>1, <1>3
    <2>2. m + j = m + k
      BY <2>1 DEF Distinct
    <2> QED
      BY <1>1, <2>2
  <1>8. ASSUME NEW k \in 1 .. m, s[k] \in ToSet(rest) PROVE FALSE
    <2>1. PICK j \in (m + 1) .. n : s[j] = s[k]
      BY <1>6, <1>8
    <2>2. j \in DOMAIN s /\ k \in DOMAIN s /\ j # k
      BY <1>1
    <2> QED
      BY <2>1, <2>2 DEF Distinct
  <1> QED
    BY <1>3, <1>6, <1>7, <1>8 DEF rest, n

\* Without its first.
LEMMA TailDistinct ==
  ASSUME NEW T, NEW s \in Seq(T), Distinct(s), s # <<>>
  PROVE  /\ Tail(s) \in Seq(T) /\ Distinct(Tail(s)) /\ Head(s) \in ToSet(s)
         /\ ToSet(Tail(s)) = ToSet(s) \ {Head(s)}
  <1> DEFINE n == Len(s)
  <1>1. n \in Nat \ {0} /\ DOMAIN s = 1 .. n /\ Head(s) = s[1]
    OBVIOUS
  <1>2. Tail(s) = SubSeq(s, 2, n) /\ 1 + 1 = 2
    OBVIOUS
  <1>3. 1 \in 1 .. n
    BY <1>1
  <1>4. /\ Tail(s) \in Seq(T) /\ Distinct(Tail(s))
        /\ ToSet(Tail(s)) = {s[k] : k \in 2 .. n}
        /\ s[1] \notin ToSet(Tail(s))
    <2>1. /\ SubSeq(s, 1 + 1, n) \in Seq(T) /\ Distinct(SubSeq(s, 1 + 1, n))
          /\ ToSet(SubSeq(s, 1 + 1, n)) = {s[k] : k \in (1 + 1) .. n}
          /\ \A k \in 1 .. 1 : s[k] \notin ToSet(SubSeq(s, 1 + 1, n))
      BY <1>3, SuffixDistinct
    <2>2. 1 \in 1 .. 1
      OBVIOUS
    <2> QED
      BY <1>2, <2>1, <2>2
  <1>5. ToSet(s) = {s[k] : k \in 1 .. n}
    BY <1>1 DEF ToSet
  <1>6. \A k \in 1 .. n : k = 1 \/ k \in 2 .. n
    BY <1>1
  <1>7. \A k \in 2 .. n : k \in 1 .. n
    BY <1>1
  <1> HIDE DEF n
  <1>8. ToSet(s) \subseteq ToSet(Tail(s)) \cup {s[1]}
    BY <1>4, <1>5, <1>6
  <1>9. ToSet(Tail(s)) \subseteq ToSet(s) /\ s[1] \in ToSet(s)
    BY <1>3, <1>4, <1>5, <1>7
  <1> QED
    BY <1>1, <1>4, <1>8, <1>9

\* deque.remove takes out one, whose only entry it is.
LEMMA DroppedDistinct ==
  ASSUME NEW T, NEW s \in Seq(T), Distinct(s), NEW t
  PROVE  /\ Dropped(s, t) \in Seq(T) /\ Distinct(Dropped(s, t))
         /\ ToSet(Dropped(s, t)) = ToSet(s) \ {t}
  <1>1. CASE t \notin ToSet(s)
    BY <1>1 DEF Dropped
  <1>2. CASE t \in ToSet(s)
    <2> DEFINE k == CHOOSE m \in DOMAIN s : s[m] = t
               before == SubSeq(s, 1, k - 1)
               after == SubSeq(s, k + 1, Len(s))
    <2>1. k \in DOMAIN s /\ s[k] = t
      BY <1>2 DEF ToSet
    <2>2. Dropped(s, t) = before \o after
      BY <1>2 DEF Dropped, RemoveAt
    <2> HIDE DEF k
    <2>3. k \in 1 .. Len(s) /\ Len(s) \in Nat /\ DOMAIN s = 1 .. Len(s)
      BY <2>1
    <2>4. /\ after \in Seq(T) /\ Distinct(after)
          /\ ToSet(after) = {s[j] : j \in (k + 1) .. Len(s)}
          /\ \A j \in 1 .. k : s[j] \notin ToSet(after)
      BY <2>3, SuffixDistinct
    <2>5. /\ before \in Seq(T) /\ DOMAIN before = 1 .. (k - 1)
          /\ \A j \in 1 .. (k - 1) : before[j] = s[j]
      <3>1. \A j \in 1 .. (k - 1) : s[j] \in T
        BY <2>3
      <3> QED
        BY <2>3, <3>1, SubSeqProperties
    <2>6. \A j \in 1 .. (k - 1) : j \in 1 .. Len(s) /\ j \in 1 .. k /\ j # k
      BY <2>3
    <2>7. \A j \in (k + 1) .. Len(s) : j \in 1 .. Len(s) /\ j # k
      BY <2>3
    <2>8. \A j \in 1 .. Len(s) : j = k \/ j \in 1 .. (k - 1) \/ j \in (k + 1) .. Len(s)
      BY <2>3
    <2> HIDE DEF before, after
    <2>9. ToSet(before) = {s[j] : j \in 1 .. (k - 1)}
      BY <2>5 DEF ToSet
    <2>10. Distinct(before)
      BY <2>3, <2>5, <2>6 DEF Distinct
    <2>11. ToSet(before) \cap ToSet(after) = {}
      BY <2>4, <2>6, <2>9
    <2>12. /\ before \o after \in Seq(T) /\ Distinct(before \o after)
           /\ ToSet(before \o after) = ToSet(before) \cup ToSet(after)
      BY <2>4, <2>5, <2>10, <2>11, ConcatDistinct
    <2>13. ToSet(before) \cup ToSet(after) \subseteq ToSet(s)
      BY <2>3, <2>4, <2>6, <2>7, <2>9 DEF ToSet
    <2>14. ToSet(s) \subseteq ToSet(before) \cup ToSet(after) \cup {t}
      BY <2>1, <2>3, <2>4, <2>8, <2>9 DEF ToSet
    <2>15. t \notin ToSet(before) /\ t \notin ToSet(after)
      <3>1. \A j \in DOMAIN s : s[j] = s[k] => j = k
        BY <2>1 DEF Distinct
      <3> QED
        BY <2>1, <2>3, <2>4, <2>6, <2>7, <2>9, <3>1
    <2> QED
      BY <2>2, <2>12, <2>13, <2>14, <2>15
  <1> QED
    BY <1>1, <1>2

\* _wakeup_next wakes nobody if nobody waits.  Otherwise it wakes one who does,
\* who leaves the deque, and leaves in it all the others who wait.
LEMMA WakesOne ==
  ASSUME NEW T, NEW s \in Seq(T), Distinct(s)
  PROVE  \/ /\ \A t \in ToSet(s) : fut[t] # "pending"
            /\ Woken(s) = <<>> /\ Popped(s) = <<>>
         \/ \E t \in ToSet(s) :
              /\ fut[t] = "pending" /\ Woken(s) = <<t>>
              /\ Popped(s) \in Seq(T) /\ Distinct(Popped(s))
              /\ ToSet(Popped(s)) \subseteq ToSet(s) \ {t}
              /\ \A x \in ToSet(s) \ {t} : fut[x] = "pending" => x \in ToSet(Popped(s))
  <1>1. DOMAIN s = 1 .. Len(s) /\ Len(s) \in Nat
    OBVIOUS
  <1>2. CASE Waiting(s) = {}
    BY <1>2 DEF Waiting, Woken, Popped, ToSet
  <1>3. CASE Waiting(s) # {}
    <2> DEFINE m == Min(Waiting(s))
               t == s[m]
    <2>1. m \in Waiting(s) /\ m \in 1 .. Len(s) /\ fut[t] = "pending" /\ \A n \in Waiting(s) : m <= n
      <3>1. Waiting(s) \subseteq 1 .. Len(s) /\ Waiting(s) \subseteq Nat
        BY <1>1 DEF Waiting
      <3>2. IsFiniteSet(Waiting(s))
        <4>1. IsFiniteSet(1 .. Len(s))
          BY <1>1, FS_Interval
        <4> QED
          BY <3>1, <4>1, FS_Subset
      <3> QED
        BY <1>1, <1>3, <3>1, <3>2, LeastNumber DEF Waiting
    <2>2. Woken(s) = <<t>> /\ Popped(s) = SubSeq(s, m + 1, Len(s))
      BY <1>3 DEF Woken, Popped
    <2> HIDE DEF m
    <2>3. /\ Popped(s) \in Seq(T) /\ Distinct(Popped(s))
          /\ ToSet(Popped(s)) = {s[k] : k \in (m + 1) .. Len(s)}
          /\ \A k \in 1 .. m : s[k] \notin ToSet(Popped(s))
      BY <2>1, <2>2, SuffixDistinct
    <2>4. m \in 1 .. m /\ \A k \in (m + 1) .. Len(s) : k \in 1 .. Len(s)
      BY <1>1, <2>1
    <2>5. ToSet(s) = {s[k] : k \in 1 .. Len(s)}
      BY <1>1 DEF ToSet
    <2>6. t \in ToSet(s) /\ ToSet(Popped(s)) \subseteq ToSet(s) \ {t}
      BY <2>1, <2>3, <2>4, <2>5
    <2>7. ASSUME NEW x \in ToSet(s), x # t, fut[x] = "pending"
          PROVE  x \in ToSet(Popped(s))
      <3>1. PICK k \in 1 .. Len(s) : s[k] = x
        BY <2>5
      <3>2. k \in Waiting(s)
        BY <1>1, <2>7, <3>1 DEF Waiting
      <3>3. m <= k /\ m # k
        BY <2>1, <2>7, <3>1, <3>2
      <3>4. k \in (m + 1) .. Len(s)
        BY <1>1, <2>1, <3>1, <3>3
      <3> QED
        BY <2>3, <3>1, <3>4
    <2> QED
      BY <2>1, <2>2, <2>3, <2>6, <2>7
  <1> QED
    BY <1>2, <1>3

-----------------------------------------------------------------------------
(* Who is scheduled *)

\* The tasks that have a turn coming, or are in the middle of one.
Scheduled == ToSet(ready) \cup ({running} \ {NoTask})

\* Nobody is scheduled twice.
LoopNeat == Distinct(ready) /\ running \notin ToSet(ready)

\* A turn is t's, or application code calls on behalf of t.
MayAct(t) == Turn(t) \/ (Idle /\ t \notin Scheduled)

\* The queue is left without t, and nobody else is in a turn.
LEMMA BehindIs ==
  ASSUME NEW T, LoopTypeOK(T), NoTask \notin T, LoopNeat, NEW t \in T, MayAct(t)
  PROVE  /\ Behind(t) \in Seq(T) /\ Distinct(Behind(t))
         /\ ToSet(Behind(t)) = Scheduled \ {t}
  <1>1. ready \in Seq(T) /\ Distinct(ready) /\ running \notin ToSet(ready)
    BY DEF LoopTypeOK, LoopNeat
  <1>2. CASE Idle /\ ready # <<>> /\ Head(ready) = t
    <2>1. Behind(t) = Tail(ready) /\ Scheduled = ToSet(ready)
      BY <1>2 DEF Behind, Scheduled, Idle
    <2> QED
      BY <1>1, <1>2, <2>1, TailDistinct
  <1>3. CASE ~(Idle /\ ready # <<>> /\ Head(ready) = t)
    <2>1. Behind(t) = ready
      BY <1>3 DEF Behind
    <2>2. \/ running = t /\ t # NoTask
          \/ running = NoTask /\ t \notin Scheduled
      BY <1>3 DEF MayAct, Turn, Idle
    <2> QED
      BY <1>1, <2>1, <2>2 DEF Scheduled
  <1> QED
    BY <1>2, <1>3

\* After t's turn, or the call on its behalf, those are scheduled who were,
\* those it woke and the callbacks, and t itself if it goes on.
LEMMA AdvanceSchedules ==
  ASSUME NEW T, LoopTypeOK(T), NoTask \notin T, LoopNeat, NEW t \in T, MayAct(t),
         NEW state, NEW woken \in Seq(T), NEW callbacks \in Seq(T),
         Distinct(woken), Distinct(callbacks), ToSet(woken) \cap ToSet(callbacks) = {},
         ToSet(woken) \cap Scheduled = {}, ToSet(callbacks) \cap Scheduled = {},
         t \notin ToSet(woken), t \notin ToSet(callbacks),
         Advance(t, state, woken, callbacks), running' \in {t, NoTask}
  PROVE  /\ LoopNeat'
         /\ Scheduled' = (Scheduled \ {t}) \cup ToSet(woken) \cup ToSet(callbacks)
                           \cup ({running'} \ {NoTask})
  <1>1. /\ Behind(t) \in Seq(T) /\ Distinct(Behind(t))
        /\ ToSet(Behind(t)) = Scheduled \ {t}
    BY BehindIs
  <1>2. /\ Behind(t) \o woken \in Seq(T) /\ Distinct(Behind(t) \o woken)
        /\ ToSet(Behind(t) \o woken) = (Scheduled \ {t}) \cup ToSet(woken)
    BY <1>1, ConcatDistinct
  <1>3. /\ Distinct((Behind(t) \o woken) \o callbacks)
        /\ ToSet((Behind(t) \o woken) \o callbacks)
             = (Scheduled \ {t}) \cup ToSet(woken) \cup ToSet(callbacks)
    <2> DEFINE first == Behind(t) \o woken
    <2>1. ToSet(first) \cap ToSet(callbacks) = {}
      BY <1>2
    <2>2. first \in Seq(T) /\ Distinct(first)
      BY <1>2
    <2> HIDE DEF first
    <2>3. Distinct(first \o callbacks) /\ ToSet(first \o callbacks) = ToSet(first) \cup ToSet(callbacks)
      BY <2>1, <2>2, ConcatDistinct
    <2> QED
      BY <1>2, <2>3 DEF first
  <1>4. ready' = (Behind(t) \o woken) \o callbacks
    BY DEF Advance
  <1>5. t \notin ToSet(ready') /\ NoTask \notin ToSet(ready')
    <2>1. ready' \in Seq(T)
      BY <1>2, <1>4, ConcatProperties
    <2>2. \A x \in ToSet(ready') : x \in T
      BY <2>1 DEF ToSet
    <2> QED
      BY <1>3, <1>4, <2>2
  <1> QED
    BY <1>3, <1>4, <1>5 DEF LoopNeat, Scheduled

\* What becomes of everybody's future in t's turn.
LEMMA AdvanceFutures ==
  ASSUME NEW T, LoopTypeOK(T), NEW t \in T, NEW state, NEW woken, NEW callbacks,
         Advance(t, state, woken, callbacks)
  PROVE  \A x \in T : fut'[x] = IF x = t THEN state
                                ELSE IF x \in ToSet(woken) THEN "done" ELSE fut[x]
  <1>1. DOMAIN fut = T
    BY DEF LoopTypeOK
  <1>2. fut' = [x \in DOMAIN fut |->
                  IF x = t THEN state
                  ELSE IF x \in ToSet(woken) THEN "done" ELSE fut[x]]
    BY DEF Advance
  <1> HIDE DEF ToSet
  <1> QED
    BY <1>1, <1>2

\* A turn that schedules no callbacks and does not go on.
LEMMA QuietTurn ==
  ASSUME NEW T, LoopTypeOK(T), NoTask \notin T, LoopNeat, NEW t \in T, MayAct(t),
         NEW state \in FutureState, NEW woken \in Seq(T),
         Distinct(woken), ToSet(woken) \cap Scheduled = {}, t \notin ToSet(woken),
         Advance(t, state, woken, <<>>), running' = NoTask
  PROVE  /\ LoopTypeOK(T)' /\ LoopNeat'
         /\ Scheduled' = (Scheduled \ {t}) \cup ToSet(woken)
  <1> DEFINE nobody == <<>>
  <1>1. nobody \in Seq(T) /\ Distinct(nobody) /\ ToSet(nobody) = {}
    BY ShortDistinct
  <1>2. Advance(t, state, woken, nobody) /\ running' \in {t, NoTask}
    OBVIOUS
  <1> HIDE DEF nobody
  <1>3. /\ ToSet(woken) \cap ToSet(nobody) = {} /\ ToSet(nobody) \cap Scheduled = {}
        /\ t \notin ToSet(nobody)
    BY <1>1
  <1>4. /\ LoopNeat'
        /\ Scheduled' = (Scheduled \ {t}) \cup ToSet(woken) \cup ToSet(nobody)
                          \cup ({running'} \ {NoTask})
    BY <1>1, <1>2, <1>3, AdvanceSchedules
  <1>5. LoopTypeOK(T)'
    <2>1. running' \in T \cup {NoTask}
      OBVIOUS
    <2> QED
      BY <1>1, <1>2, <2>1, AdvanceType
  <1> QED
    BY <1>1, <1>4, <1>5

\* Somebody who was not scheduled is, at the end.
LEMMA SignalSchedules ==
  ASSUME NEW T, LoopTypeOK(T), NoTask \notin T, LoopNeat, NEW t \in T, Idle, t \notin Scheduled,
         ready' = Append(ready, t), running' = running
  PROVE  LoopNeat' /\ Scheduled' = Scheduled \cup {t}
  <1>1. ready \in Seq(T) /\ Distinct(ready) /\ running = NoTask /\ t \notin ToSet(ready)
    BY DEF LoopTypeOK, LoopNeat, Idle, Scheduled
  <1>2. ToSet(ready') = ToSet(ready) \cup {t} /\ Distinct(ready')
    BY <1>1, AppendDistinct
  <1> QED
    BY <1>1, <1>2 DEF LoopNeat, Scheduled

-----------------------------------------------------------------------------
(* Deques of waiters, and what is handed to those who wait *)

\* s is the deque of those in S who wait, by the futures f: everybody who sleeps
\* is in it, and nobody who has been woken.
Deque(s, S, f) ==
  /\ Distinct(s)
  /\ \A t \in ToSet(s) : t \in S /\ f[t] \in {"pending", "cancelled"}
  /\ \A t \in S : f[t] = "pending" => t \in ToSet(s)

Awake(S, f) == {t \in S : f[t] = "done"}

\* n things are to be had, and somebody in S has been woken for each while
\* somebody else in S sleeps.
HandedOut(n, S, f) ==
  (\E t \in S : f[t] = "pending") => n <= Cardinality(Awake(S, f))

\* One more or one less.
LEMMA CountOne ==
  ASSUME NEW S, IsFiniteSet(S), NEW x
  PROVE  /\ Cardinality(S) \in Nat
         /\ x \notin S => Cardinality(S \cup {x}) = Cardinality(S) + 1
         /\ x \in S => Cardinality(S \ {x}) = Cardinality(S) - 1
         /\ x \notin S => S \ {x} = S
  <1>1. Cardinality(S) \in Nat
    BY FS_CardinalityType
  <1>2. Cardinality(S \cup {x}) = IF x \in S THEN Cardinality(S) ELSE Cardinality(S) + 1
    BY FS_AddElement
  <1>3. Cardinality(S \ {x}) = IF x \in S THEN Cardinality(S) - 1 ELSE Cardinality(S)
    BY FS_RemoveElement
  <1> QED
    BY <1>1, <1>2, <1>3

\* Nobody comes or goes, and nothing more is to be had; a sleeper may be cancelled.
LEMMA HandoverStands ==
  ASSUME NEW s, NEW S, NEW f, NEW g, NEW n \in Int, NEW m \in Int, IsFiniteSet(S),
         \A x \in S : g[x] = f[x] \/ (f[x] = "pending" /\ g[x] = "cancelled"),
         m <= n, Deque(s, S, f), HandedOut(n, S, f)
  PROVE  Deque(s, S, g) /\ HandedOut(m, S, g)
  <1>1. Deque(s, S, g)
    BY DEF Deque
  <1>2. Awake(S, g) = Awake(S, f)
    BY DEF Awake
  <1>3. Cardinality(Awake(S, f)) \in Nat
    <2>1. IsFiniteSet(Awake(S, f))
      BY FS_Subset DEF Awake
    <2> QED
      BY <2>1, FS_CardinalityType
  <1>4. (\E t \in S : g[t] = "pending") => \E t \in S : f[t] = "pending"
    OBVIOUS
  <1>5. HandedOut(m, S, g)
    BY <1>2, <1>3, <1>4 DEF HandedOut
  <1> QED
    BY <1>1, <1>5

\* t leaves, or comes without waiting, and wakes nobody here: what it was woken
\* for it has taken.
LEMMA HandoverLeft ==
  ASSUME NEW T, LoopTypeOK(T), NEW t \in T, NEW state, NEW woken, NEW callbacks,
         Advance(t, state, woken, callbacks),
         NEW s \in Seq(T), NEW S \in SUBSET T, IsFiniteSet(S), NEW R,
         Deque(s, S, fut), R \ {t} = S \ {t}, t \in R => state = "none",
         t \in S => fut[t] # "pending",
         ToSet(woken) \cap S = {},
         NEW n \in Int, NEW m \in Int, HandedOut(n, S, fut),
         m <= n \/ m <= 0, m < n \/ m <= 0 \/ ~(t \in S /\ fut[t] = "done")
  PROVE  Deque(Dropped(s, t), R, fut') /\ HandedOut(m, R, fut')
  <1>1. /\ Dropped(s, t) \in Seq(T) /\ Distinct(Dropped(s, t))
        /\ ToSet(Dropped(s, t)) = ToSet(s) \ {t}
    BY DroppedDistinct DEF Deque
  <1>2. /\ \A x \in S \ {t} : fut'[x] = fut[x]
        /\ fut'[t] = state
    BY AdvanceFutures
  <1>3. Deque(Dropped(s, t), R, fut')
    BY <1>1, <1>2 DEF Deque
  <1>4. Awake(R, fut') = Awake(S, fut) \ {t}
    BY <1>2 DEF Awake
  <1>5. /\ Cardinality(Awake(S, fut)) \in Nat /\ Cardinality(Awake(R, fut')) \in Nat
        /\ t \in Awake(S, fut) => Cardinality(Awake(R, fut')) = Cardinality(Awake(S, fut)) - 1
        /\ t \notin Awake(S, fut) => Cardinality(Awake(R, fut')) = Cardinality(Awake(S, fut))
    <2>1. IsFiniteSet(Awake(S, fut))
      BY FS_Subset DEF Awake
    <2>2. IsFiniteSet(Awake(S, fut) \ {t})
      BY <2>1, FS_Subset
    <2> DEFINE A == Awake(S, fut)
    <2>3. IsFiniteSet(A) /\ IsFiniteSet(A \ {t})
      BY <2>1, <2>2
    <2> HIDE DEF A
    <2>4. Cardinality(A) \in Nat /\ Cardinality(A \ {t}) \in Nat
      BY <2>3, FS_CardinalityType
    <2>5. /\ t \in A => Cardinality(A \ {t}) = Cardinality(A) - 1
          /\ t \notin A => A \ {t} = A
      BY <2>3, CountOne
    <2> QED
      BY <1>4, <2>4, <2>5 DEF A
  <1>6. (\E x \in R : fut'[x] = "pending") => \E x \in S : fut[x] = "pending"
    BY <1>2
  <1>7. t \in Awake(S, fut) <=> t \in S /\ fut[t] = "done"
    BY DEF Awake
  <1>8. HandedOut(m, R, fut')
    BY <1>5, <1>6, <1>7 DEF HandedOut
  <1> QED
    BY <1>3, <1>8

\* t leaves and wakes another one: there is one more to be had, or what it was
\* woken for is passed on.
LEMMA HandoverWakes ==
  ASSUME NEW T, LoopTypeOK(T), NEW t \in T, NEW state, NEW s \in Seq(T), NEW callbacks,
         Advance(t, state, Woken(Dropped(s, t)), callbacks),
         NEW S \in SUBSET T, IsFiniteSet(S),
         Deque(s, S, fut), t \in S => fut[t] # "pending",
         NEW n \in Int, NEW m \in Int, HandedOut(n, S, fut),
         m <= n + 1, m <= n \/ ~(t \in S /\ fut[t] = "done")
  PROVE  Deque(Popped(Dropped(s, t)), S \ {t}, fut') /\ HandedOut(m, S \ {t}, fut')
  <1> DEFINE rest == Dropped(s, t)
             R == S \ {t}
  <1>1. rest \in Seq(T) /\ Distinct(rest) /\ ToSet(rest) = ToSet(s) \ {t}
    BY DroppedDistinct DEF Deque
  <1>2. /\ \A x \in R : fut'[x] = IF x \in ToSet(Woken(rest)) THEN "done" ELSE fut[x]
    BY AdvanceFutures
  <1>3. /\ \A x \in ToSet(rest) : x \in R /\ fut[x] \in {"pending", "cancelled"}
        /\ \A x \in R : fut[x] = "pending" => x \in ToSet(rest)
    BY <1>1 DEF Deque
  <1>4. IsFiniteSet(Awake(S, fut)) /\ IsFiniteSet(Awake(R, fut))
    <2>1. Awake(S, fut) \subseteq S /\ Awake(R, fut) \subseteq S
      BY DEF Awake
    <2> QED
      BY <2>1, FS_Subset
  <1>5. /\ Cardinality(Awake(S, fut)) \in Nat
        /\ Cardinality(Awake(R, fut)) \in Nat
        /\ t \in S /\ fut[t] = "done"
             => Cardinality(Awake(R, fut)) = Cardinality(Awake(S, fut)) - 1
        /\ ~(t \in S /\ fut[t] = "done")
             => Cardinality(Awake(R, fut)) = Cardinality(Awake(S, fut))
    <2>1. Awake(R, fut) = Awake(S, fut) \ {t}
      BY DEF Awake
    <2>2. t \in Awake(S, fut) <=> t \in S /\ fut[t] = "done"
      BY DEF Awake
    <2> QED
      BY <1>4, <2>1, <2>2, CountOne
  <1> HIDE DEF rest, R
  <1>6. CASE (\A x \in ToSet(rest) : fut[x] # "pending") /\ Woken(rest) = <<>> /\ Popped(rest) = <<>>
    <2>1. \A x \in R : fut'[x] = fut[x]
      BY <1>2, <1>6, ShortDistinct
    <2>2. \A x \in R : fut'[x] # "pending"
      BY <1>3, <1>6, <2>1
    <2>3. Deque(Popped(rest), R, fut')
      BY <1>6, <2>2, ShortDistinct DEF Deque
    <2> QED
      BY <2>2, <2>3 DEF HandedOut, rest, R
  <1>7. ASSUME NEW u \in ToSet(rest), fut[u] = "pending", Woken(rest) = <<u>>,
               Popped(rest) \in Seq(T), Distinct(Popped(rest)),
               ToSet(Popped(rest)) \subseteq ToSet(rest) \ {u},
               \A x \in ToSet(rest) \ {u} : fut[x] = "pending" => x \in ToSet(Popped(rest))
        PROVE  Deque(Popped(rest), R, fut') /\ HandedOut(m, R, fut')
    <2>1. ToSet(Woken(rest)) = {u} /\ u \in R
      BY <1>3, <1>7, ShortDistinct
    <2>2. \A x \in R : fut'[x] = IF x = u THEN "done" ELSE fut[x]
      BY <1>2, <2>1
    <2>3. Deque(Popped(rest), R, fut')
      BY <1>3, <1>7, <2>2 DEF Deque
    <2>4. Awake(R, fut') = Awake(R, fut) \cup {u} /\ u \notin Awake(R, fut)
      BY <1>7, <2>1, <2>2 DEF Awake
    <2>5. Cardinality(Awake(R, fut')) = Cardinality(Awake(R, fut)) + 1
      BY <1>4, <2>4, CountOne
    <2>6. n <= Cardinality(Awake(S, fut))
      <3>1. u \in S /\ fut[u] = "pending"
        BY <1>7, <2>1 DEF R
      <3> QED
        BY <3>1 DEF HandedOut
    <2>7. m <= Cardinality(Awake(R, fut'))
      <3> HIDE DEF Awake
      <3> QED
        BY <1>5, <2>5, <2>6
    <2> QED
      BY <2>3, <2>7 DEF HandedOut
  <1> QED
    BY <1>1, <1>6, <1>7, WakesOne DEF rest, R

\* t goes to sleep at the end of the deque, because there is nothing to be had.
LEMMA HandoverSleeps ==
  ASSUME NEW T, LoopTypeOK(T), NEW t \in T, NEW woken, NEW callbacks,
         Advance(t, "pending", woken, callbacks),
         NEW s \in Seq(T), NEW S \in SUBSET T, IsFiniteSet(S),
         Deque(s, S, fut), t \notin ToSet(s), ToSet(woken) \cap S = {},
         NEW m \in Int, m <= 0
  PROVE  Deque(Append(s, t), S \cup {t}, fut') /\ HandedOut(m, S \cup {t}, fut')
  <1>1. /\ Distinct(Append(s, t)) /\ ToSet(Append(s, t)) = ToSet(s) \cup {t}
    BY AppendDistinct DEF Deque
  <1>2. /\ \A x \in S \ {t} : fut'[x] = fut[x]
        /\ fut'[t] = "pending"
    BY AdvanceFutures
  <1>3. Deque(Append(s, t), S \cup {t}, fut')
    BY <1>1, <1>2 DEF Deque
  <1>4. Cardinality(Awake(S \cup {t}, fut')) \in Nat
    <2>1. IsFiniteSet(S \cup {t})
      BY FS_AddElement
    <2>2. Awake(S \cup {t}, fut') \subseteq S \cup {t}
      BY DEF Awake
    <2> QED
      BY <2>1, <2>2, FS_Subset, FS_CardinalityType
  <1> QED
    BY <1>3, <1>4 DEF HandedOut

\* _wakeup_next wakes somebody who sleeps, and never the one that leaves.
LEMMA WokenSleep ==
  ASSUME NEW T, NEW s \in Seq(T), NEW S, Deque(s, S, fut), NEW t
  PROVE  /\ Woken(Dropped(s, t)) \in Seq(T) /\ Distinct(Woken(Dropped(s, t)))
         /\ \A x \in ToSet(Woken(Dropped(s, t))) : x \in S \ {t} /\ x \in T /\ fut[x] = "pending"
  <1> DEFINE rest == Dropped(s, t)
  <1>1. rest \in Seq(T) /\ Distinct(rest) /\ ToSet(rest) = ToSet(s) \ {t}
    BY DroppedDistinct DEF Deque
  <1>2. \A x \in ToSet(rest) : x \in S \ {t} /\ x \in T
    <2>1. \A x \in ToSet(rest) : x \in T
      BY <1>1 DEF ToSet
    <2> QED
      BY <1>1, <2>1 DEF Deque
  <1> HIDE DEF rest
  <1>3. CASE Woken(rest) = <<>>
    BY <1>3, ShortDistinct DEF rest
  <1>4. ASSUME NEW u \in ToSet(rest), fut[u] = "pending", Woken(rest) = <<u>>
        PROVE  /\ Woken(rest) \in Seq(T) /\ Distinct(Woken(rest))
               /\ \A x \in ToSet(Woken(rest)) : x \in S \ {t} /\ x \in T /\ fut[x] = "pending"
    <2>1. Distinct(<<u>>) /\ ToSet(<<u>>) = {u}
      BY ShortDistinct
    <2>2. <<u>> \in Seq(T)
      BY <1>2, <1>4
    <2> QED
      BY <1>2, <1>4, <2>1, <2>2
  <1> QED
    BY <1>1, <1>3, <1>4, WakesOne DEF rest

\* Somebody who is not in the deque is not taken out of it.
LEMMA DroppedStranger ==
  ASSUME NEW s, NEW t, t \notin ToSet(s)
  PROVE  Dropped(s, t) = s
  BY DEF Dropped

\* The first stays the first when somebody else is taken out.
LEMMA DroppedHead ==
  ASSUME NEW T, NEW s \in Seq(T), s # <<>>, NEW t, Head(s) # t
  PROVE  Dropped(s, t) # <<>> /\ Head(Dropped(s, t)) = Head(s)
  <1>1. CASE t \notin ToSet(s)
    BY <1>1 DEF Dropped
  <1>2. CASE t \in ToSet(s)
    <2> DEFINE k == CHOOSE m \in DOMAIN s : s[m] = t
               before == SubSeq(s, 1, k - 1)
               after == SubSeq(s, k + 1, Len(s))
    <2>1. k \in DOMAIN s /\ s[k] = t
      BY <1>2 DEF ToSet
    <2>2. Dropped(s, t) = before \o after
      BY <1>2 DEF Dropped, RemoveAt
    <2> HIDE DEF k
    <2>3. k \in 2 .. Len(s) /\ Len(s) \in Nat /\ Head(s) = s[1]
      BY <2>1
    <2>4. before \in Seq(T) /\ Len(before) = k - 1 /\ before[1] = s[1]
      <3>1. \A j \in 1 .. (k - 1) : s[j] \in T
        BY <2>3
      <3> QED
        BY <2>3, <3>1, SubSeqProperties
    <2>5. after \in Seq(T)
      <3>1. \A j \in (k + 1) .. Len(s) : s[j] \in T
        BY <2>3
      <3> QED
        BY <2>3, <3>1, SubSeqProperties
    <2> HIDE DEF before, after
    <2>6. /\ Len(before \o after) = Len(before) + Len(after)
          /\ \A n \in 1 .. Len(before) + Len(after) :
               (before \o after)[n] = IF n <= Len(before) THEN before[n] ELSE after[n - Len(before)]
          /\ before \o after \in Seq(T)
      BY <2>4, <2>5, ConcatProperties
    <2>7. /\ Len(before) >= 1 /\ Len(after) \in Nat
          /\ 1 \in 1 .. Len(before) + Len(after) /\ 1 <= Len(before)
      BY <2>3, <2>4, <2>5
    <2>8. (before \o after)[1] = s[1] /\ Len(before \o after) >= 1
      BY <2>4, <2>6, <2>7
    <2>9. Head(before \o after) = s[1] /\ before \o after # <<>>
      BY <2>6, <2>8
    <2> QED
      BY <2>2, <2>3, <2>9
  <1> QED
    BY <1>1, <1>2

-----------------------------------------------------------------------------
(* Who comes before whom *)

\* In a queue x is before y.
Before(s, x, y) == \E j, k \in DOMAIN s : j < k /\ s[j] = x /\ s[k] = y

\* Nobody is both before and behind another.
LEMMA BeforeOnce ==
  ASSUME NEW T, NEW s \in Seq(T), Distinct(s), NEW x, NEW y, Before(s, x, y)
  PROVE  x \in ToSet(s) /\ y \in ToSet(s) /\ x # y /\ ~Before(s, y, x)
  <1>1. PICK j, k \in DOMAIN s : j < k /\ s[j] = x /\ s[k] = y
    BY DEF Before
  <1>2. \A i \in DOMAIN s : (s[i] = x => i = j) /\ (s[i] = y => i = k)
    BY <1>1 DEF Distinct
  <1>3. j \in Nat /\ k \in Nat
    OBVIOUS
  <1>4. ~Before(s, y, x)
    BY <1>1, <1>2, <1>3 DEF Before
  <1> QED
    BY <1>1, <1>2, <1>3, <1>4 DEF ToSet

\* The first is before all others.
LEMMA HeadBefore ==
  ASSUME NEW T, NEW s \in Seq(T), NEW x \in ToSet(s), x # Head(s)
  PROVE  Before(s, Head(s), x)
  <1>1. PICK k \in DOMAIN s : s[k] = x
    BY DEF ToSet
  <1>2. Head(s) = s[1] /\ 1 \in DOMAIN s /\ k \in Nat /\ k > 1
    BY <1>1
  <1> QED
    BY <1>1, <1>2 DEF Before

\* The one who joins comes after everybody.
LEMMA AppendBefore ==
  ASSUME NEW T, NEW s \in Seq(T), NEW t \in T, NEW x, NEW y
  PROVE  Before(Append(s, t), x, y) <=> Before(s, x, y) \/ (x \in ToSet(s) /\ y = t)
  <1> DEFINE q == Append(s, t)
             n == Len(s)
  <1>1. /\ n \in Nat /\ DOMAIN s = 1 .. n /\ DOMAIN q = 1 .. (n + 1)
        /\ \A i \in 1 .. n : q[i] = s[i]
        /\ q[n + 1] = t
    OBVIOUS
  <1> HIDE DEF q, n
  <1>2. ASSUME Before(q, x, y)
        PROVE  Before(s, x, y) \/ (x \in ToSet(s) /\ y = t)
    <2>1. PICK j, k \in 1 .. (n + 1) : j < k /\ q[j] = x /\ q[k] = y
      BY <1>1, <1>2 DEF Before
    <2>2. j \in 1 .. n /\ (k \in 1 .. n \/ k = n + 1)
      BY <1>1, <2>1
    <2> QED
      BY <1>1, <2>1, <2>2 DEF Before, ToSet
  <1>3. ASSUME Before(s, x, y)
        PROVE  Before(q, x, y)
    <2>1. PICK j, k \in 1 .. n : j < k /\ s[j] = x /\ s[k] = y
      BY <1>1, <1>3 DEF Before
    <2>2. j \in 1 .. (n + 1) /\ k \in 1 .. (n + 1)
      BY <1>1
    <2> QED
      BY <1>1, <2>1, <2>2 DEF Before
  <1>4. ASSUME x \in ToSet(s), y = t
        PROVE  Before(q, x, y)
    <2>1. PICK j \in 1 .. n : s[j] = x
      BY <1>1, <1>4 DEF ToSet
    <2>2. j \in 1 .. (n + 1) /\ n + 1 \in 1 .. (n + 1) /\ j < n + 1
      BY <1>1
    <2> QED
      BY <1>1, <1>4, <2>1, <2>2 DEF Before
  <1> QED
    BY <1>2, <1>3, <1>4 DEF q

\* Where everybody is when one has been taken out.
LEMMA DroppedPlaces ==
  ASSUME NEW T, NEW s \in Seq(T), NEW t \in ToSet(s)
  PROVE  \E k \in DOMAIN s :
           /\ s[k] = t
           /\ DOMAIN Dropped(s, t) = 1 .. (Len(s) - 1)
           /\ \A i \in 1 .. (Len(s) - 1) : Dropped(s, t)[i] = IF i < k THEN s[i] ELSE s[i + 1]
  <1> DEFINE k == CHOOSE m \in DOMAIN s : s[m] = t
             n == Len(s)
             before == SubSeq(s, 1, k - 1)
             after == SubSeq(s, k + 1, n)
             rest == before \o after
  <1>1. k \in DOMAIN s /\ s[k] = t
    BY DEF ToSet
  <1>2. Dropped(s, t) = rest
    BY DEF Dropped, RemoveAt
  <1>3. n \in Nat \ {0} /\ DOMAIN s = 1 .. n /\ k \in 1 .. n
    BY <1>1
  <1> HIDE DEF k, n
  <1>4. /\ before \in Seq(T) /\ Len(before) = k - 1
        /\ \A j \in 1 .. (k - 1) : before[j] = s[j]
    BY <1>3, SubSeqProperties DEF n
  <1>5. /\ after \in Seq(T) /\ Len(after) = n - k
        /\ \A j \in 1 .. (n - k) : after[j] = s[k + j]
    <2>1. \A j \in (k + 1) .. n : s[j] \in T
      BY <1>3
    <2> QED
      BY <1>3, <2>1, SubSeqProperties
  <1> HIDE DEF before, after
  <1>6. /\ DOMAIN rest = 1 .. (n - 1)
        /\ \A j \in 1 .. (n - 1) : rest[j] = IF j <= k - 1 THEN before[j] ELSE after[j - (k - 1)]
    <2>1. Len(before) + Len(after) = n - 1
      BY <1>3, <1>4, <1>5
    <2>2. /\ rest \in Seq(T) /\ Len(rest) = Len(before) + Len(after)
          /\ \A j \in 1 .. Len(before) + Len(after) :
               rest[j] = IF j <= Len(before) THEN before[j] ELSE after[j - Len(before)]
      BY <1>4, <1>5, ConcatProperties
    <2> HIDE DEF rest
    <2> QED
      BY <1>3, <1>4, <2>1, <2>2
  <1> HIDE DEF rest
  <1>7. ASSUME NEW j \in 1 .. (n - 1)
        PROVE  rest[j] = IF j < k THEN s[j] ELSE s[j + 1]
    <2>1. CASE j < k
      <3>1. j <= k - 1 /\ j \in 1 .. (k - 1)
        BY <1>3, <2>1
      <3> QED
        BY <1>4, <1>6, <2>1, <3>1
    <2>2. CASE ~(j < k)
      <3>1. ~(j <= k - 1) /\ j - (k - 1) \in 1 .. (n - k) /\ k + (j - (k - 1)) = j + 1
        BY <1>3, <2>2
      <3> QED
        BY <1>5, <1>6, <2>2, <3>1
    <2> QED
      BY <2>1, <2>2
  <1> QED
    BY <1>1, <1>2, <1>6, <1>7 DEF n

\* The others keep their order when one is taken out.
LEMMA DroppedBefore ==
  ASSUME NEW T, NEW s \in Seq(T), Distinct(s), NEW t, NEW x, NEW y
  PROVE  Before(Dropped(s, t), x, y) <=> Before(s, x, y) /\ x # t /\ y # t
  <1>1. CASE t \notin ToSet(s)
    BY <1>1, BeforeOnce, DroppedStranger
  <1>2. CASE t \in ToSet(s)
    <2> DEFINE rest == Dropped(s, t)
               n == Len(s)
    <2>1. PICK k \in DOMAIN s :
            /\ s[k] = t
            /\ DOMAIN rest = 1 .. (n - 1)
            /\ \A i \in 1 .. (n - 1) : rest[i] = IF i < k THEN s[i] ELSE s[i + 1]
      BY <1>2, DroppedPlaces
    <2>2. n \in Nat /\ DOMAIN s = 1 .. n /\ k \in 1 .. n
      BY <2>1
    <2> HIDE DEF rest, n
    <2>3. \A i \in 1 .. n : s[i] = t => i = k
      BY <2>1, <2>2 DEF Distinct
    <2>4. ASSUME Before(rest, x, y)
          PROVE  Before(s, x, y) /\ x # t /\ y # t
      <3> DEFINE At(i) == IF i < k THEN i ELSE i + 1
      <3>1. PICK i, j \in 1 .. (n - 1) : i < j /\ rest[i] = x /\ rest[j] = y
        BY <2>1, <2>4 DEF Before
      <3>2. /\ At(i) \in 1 .. n /\ At(j) \in 1 .. n /\ At(i) < At(j) /\ At(i) # k /\ At(j) # k
        BY <2>2, <3>1
      <3>3. s[At(i)] = x /\ s[At(j)] = y
        BY <2>1, <3>1
      <3> QED
        BY <2>2, <2>3, <3>2, <3>3 DEF Before
    <2>5. ASSUME Before(s, x, y), x # t, y # t
          PROVE  Before(rest, x, y)
      <3> DEFINE At(i) == IF i < k THEN i ELSE i - 1
      <3>1. PICK i, j \in 1 .. n : i < j /\ s[i] = x /\ s[j] = y
        BY <2>2, <2>5 DEF Before
      <3>2. i # k /\ j # k
        BY <2>1, <2>5, <3>1
      <3>3. At(i) \in 1 .. (n - 1) /\ At(j) \in 1 .. (n - 1) /\ At(i) < At(j)
        BY <2>2, <3>1, <3>2
      <3>4. \A m \in 1 .. n : m # k => (At(m) < k => At(m) = m) /\ (~(At(m) < k) => At(m) + 1 = m)
        BY <2>2
      <3>5. rest[At(i)] = x /\ rest[At(j)] = y
        BY <2>1, <3>1, <3>2, <3>3, <3>4
      <3> HIDE DEF At
      <3> QED
        BY <2>1, <3>3, <3>5 DEF Before
    <2> QED
      BY <2>4, <2>5 DEF rest
  <1> QED
    BY <1>1, <1>2
=============================================================================
