--------------------------- MODULE PipelineProofs ---------------------------
(***************************************************************************)
(* The generators of the pipeline keep their types, bound what they keep,  *)
(* leave no task behind when they end, and each of them implements the     *)
(* abstract stream, for any number of feeds and items and whatever fails,  *)
(* hangs or is cancelled.  End to end, an item is collected at most once,  *)
(* in its turn, and exactly once when the stream has ended by itself.      *)
(***************************************************************************)
EXTENDS Pipeline, SequenceTheorems, FiniteSetTheorems, WellFoundedInduction, TLAPS

-----------------------------------------------------------------------------
(* Sequences without duplicates *)

LEMMA AppendFacts ==
  ASSUME NEW Items, NEW s \in Seq(Items), NEW t \in Items
  PROVE  /\ Append(s, t) \in Seq(Items)
         /\ Len(Append(s, t)) = Len(s) + 1
         /\ ToSet(Append(s, t)) = ToSet(s) \cup {t}
         /\ IsInjective(s) /\ t \notin ToSet(s) => IsInjective(Append(s, t))
  <1> DEFINE q == Append(s, t)
             n == Len(s)
  <1>1. n \in Nat /\ DOMAIN s = 1 .. n
    OBVIOUS
  <1>2. /\ q \in Seq(Items) /\ Len(q) = n + 1 /\ DOMAIN q = 1 .. (n + 1)
        /\ \A k \in 1 .. n : q[k] = s[k]
        /\ q[n + 1] = t
    OBVIOUS
  <1> HIDE DEF q, n
  <1>3. \A k \in 1 .. (n + 1) : k \in 1 .. n \/ k = n + 1
    BY <1>1
  <1>4. \A k \in 1 .. n : k \in 1 .. (n + 1) /\ k # n + 1
    BY <1>1
  <1>5. n + 1 \in 1 .. (n + 1)
    BY <1>1
  <1>6. ToSet(q) = ToSet(s) \cup {t}
    BY <1>1, <1>2, <1>3, <1>4, <1>5 DEF ToSet
  <1>7. ASSUME IsInjective(s), t \notin ToSet(s),
               NEW j \in 1 .. (n + 1), NEW k \in 1 .. (n + 1), q[j] = q[k]
        PROVE  j = k
    BY <1>1, <1>2, <1>3, <1>7 DEF IsInjective, ToSet
  <1>8. IsInjective(s) /\ t \notin ToSet(s) => IsInjective(q)
    BY <1>2, <1>7 DEF IsInjective
  <1> QED
    BY <1>2, <1>6, <1>8 DEF q, n

\* The first one, and the others.
LEMMA TailFacts ==
  ASSUME NEW Items, NEW s \in Seq(Items), s # <<>>
  PROVE  /\ Head(s) \in Items /\ Tail(s) \in Seq(Items)
         /\ Len(Tail(s)) = Len(s) - 1
         /\ ToSet(s) = {Head(s)} \cup ToSet(Tail(s))
         /\ IsInjective(s) => IsInjective(Tail(s))
         /\ <<Head(s)>> \o Tail(s) = s
  <1> DEFINE q == Tail(s)
             n == Len(s)
  <1>1. n \in Nat \ {0} /\ DOMAIN s = 1 .. n /\ Head(s) = s[1] /\ Head(s) \in Items
    OBVIOUS
  <1>2. /\ q \in Seq(Items) /\ Len(q) = n - 1 /\ DOMAIN q = 1 .. (n - 1)
        /\ \A k \in 1 .. (n - 1) : q[k] = s[k + 1]
    OBVIOUS
  <1>3. <<Head(s)>> \o q = s
    BY <1>1, <1>2
  <1> HIDE DEF q, n
  <1>4. \A k \in 1 .. (n - 1) : k + 1 \in 1 .. n
    BY <1>1
  <1>5. \A k \in 1 .. n : k = 1 \/ (k - 1 \in 1 .. (n - 1) /\ (k - 1) + 1 = k)
    BY <1>1
  <1>6. 1 \in 1 .. n
    BY <1>1
  <1>7. ToSet(s) = {Head(s)} \cup ToSet(q)
    <2>1. ToSet(q) \subseteq ToSet(s)
      <3> SUFFICES ASSUME NEW k \in 1 .. (n - 1) PROVE q[k] \in ToSet(s)
        BY <1>2 DEF ToSet
      <3>1. k + 1 \in DOMAIN s /\ s[k + 1] = q[k]
        BY <1>1, <1>2, <1>4
      <3> QED
        BY <3>1, Zenon DEF ToSet
    <2>2. Head(s) \in ToSet(s)
      BY <1>1, <1>6 DEF ToSet
    <2>3. ToSet(s) \subseteq {Head(s)} \cup ToSet(q)
      <3> SUFFICES ASSUME NEW k \in 1 .. n, k # 1 PROVE s[k] \in ToSet(q)
        BY <1>1 DEF ToSet
      <3>1. k - 1 \in 1 .. (n - 1) /\ (k - 1) + 1 = k
        BY <1>5
      <3>2. q[k - 1] = s[k]
        BY <1>2, <3>1
      <3> QED
        BY <1>2, <3>1, <3>2 DEF ToSet
    <2> QED
      BY <2>1, <2>2, <2>3
  <1>8. ASSUME IsInjective(s), NEW j \in 1 .. (n - 1), NEW k \in 1 .. (n - 1), q[j] = q[k]
        PROVE  j = k
    <2>1. j + 1 \in DOMAIN s /\ k + 1 \in DOMAIN s /\ s[j + 1] = s[k + 1]
      BY <1>1, <1>2, <1>4, <1>8
    <2>2. j + 1 = k + 1
      BY <1>8, <2>1 DEF IsInjective
    <2> QED
      BY <2>2
  <1>9. IsInjective(s) => IsInjective(q)
    BY <1>2, <1>8 DEF IsInjective
  <1> QED
    BY <1>1, <1>2, <1>3, <1>7, <1>9 DEF q, n

\* The first one in front.
LEMMA PushFacts ==
  ASSUME NEW Items, NEW s \in Seq(Items), NEW t \in Items
  PROVE  /\ <<t>> \o s \in Seq(Items)
         /\ Len(<<t>> \o s) = Len(s) + 1
         /\ ToSet(<<t>> \o s) = {t} \cup ToSet(s)
  <1> DEFINE q == <<t>> \o s
  <1>1. q \in Seq(Items) /\ Len(q) = Len(s) + 1 /\ q # <<>> /\ Head(q) = t /\ Tail(q) = s
    OBVIOUS
  <1> HIDE DEF q
  <1>2. ToSet(q) = {t} \cup ToSet(s)
    BY <1>1, TailFacts
  <1> QED
    BY <1>1, <1>2 DEF q

\* list.remove, of one that is there once.
LEMMA RemovedFacts ==
  ASSUME NEW Items, NEW s \in Seq(Items), IsInjective(s), NEW v \in ToSet(s)
  PROVE  LET k == CHOOSE n \in DOMAIN s : s[n] = v
             rest == RemoveAt(s, k)
         IN /\ k \in DOMAIN s /\ s[k] = v
            /\ rest \in Seq(Items)
            /\ Len(rest) = Len(s) - 1
            /\ ToSet(rest) = ToSet(s) \ {v}
            /\ IsInjective(rest)
  <1> DEFINE k == CHOOSE m \in DOMAIN s : s[m] = v
             n == Len(s)
             before == SubSeq(s, 1, k - 1)
             after == SubSeq(s, k + 1, n)
             rest == before \o after
  <1>1. k \in DOMAIN s /\ s[k] = v
    BY DEF ToSet
  <1>2. RemoveAt(s, k) = rest
    BY DEF RemoveAt
  <1>3. n \in Nat \ {0} /\ DOMAIN s = 1 .. n /\ k \in 1 .. n
    BY <1>1
  <1> HIDE DEF k, n
  <1>4. /\ before \in Seq(Items) /\ Len(before) = k - 1
        /\ \A j \in 1 .. (k - 1) : before[j] = s[j]
    BY <1>3, SubSeqProperties DEF n
  <1>5. /\ after \in Seq(Items) /\ Len(after) = n - k
        /\ \A j \in 1 .. (n - k) : after[j] = s[k + j]
    <2>1. \A j \in (k + 1) .. n : s[j] \in Items
      BY <1>3
    <2> QED
      BY <1>3, <2>1, SubSeqProperties
  <1> HIDE DEF before, after
  <1>6. /\ rest \in Seq(Items) /\ Len(rest) = n - 1 /\ DOMAIN rest = 1 .. (n - 1)
        /\ \A j \in 1 .. (n - 1) :
             rest[j] = IF j <= k - 1 THEN before[j] ELSE after[j - (k - 1)]
    <2>1. Len(before) + Len(after) = n - 1
      BY <1>3, <1>4, <1>5
    <2>2. /\ rest \in Seq(Items) /\ Len(rest) = Len(before) + Len(after)
          /\ \A j \in 1 .. Len(before) + Len(after) :
               rest[j] = IF j <= Len(before) THEN before[j] ELSE after[j - Len(before)]
      BY <1>4, <1>5, ConcatProperties
    <2> HIDE DEF rest
    <2> QED
      BY <1>3, <1>4, <2>1, <2>2
  <1> HIDE DEF rest
  <1>7. \A j \in 1 .. (n - 1) : rest[j] = IF j < k THEN s[j] ELSE s[j + 1]
    <2> TAKE j \in 1 .. (n - 1)
    <2>1. CASE j < k
      <3>1. j <= k - 1 /\ j \in 1 .. (k - 1)
        BY <1>3, <2>1
      <3> QED
        BY <1>4, <1>6, <2>1, <3>1
    <2>2. CASE ~(j < k)
      <3>1. ~(j <= k - 1) /\ j - (k - 1) \in 1 .. (n - k) /\ k + (j - (k - 1)) = j + 1
        BY <1>3, <2>2
      <3> QED
        BY <1>5, <1>6, <2>2, <3>1
    <2> QED
      BY <2>1, <2>2
  <1>8. \A j \in 1 .. (n - 1) : /\ j \in 1 .. n /\ j + 1 \in 1 .. n
                                /\ j < k => j # k
                                /\ ~(j < k) => j + 1 # k
    BY <1>3
  <1>9. \A j \in 1 .. n : j = k \/ (j < k /\ j \in 1 .. (n - 1))
                            \/ (j - 1 \in 1 .. (n - 1) /\ ~(j - 1 < k) /\ (j - 1) + 1 = j)
    BY <1>3
  <1>10. ToSet(rest) = ToSet(s) \ {v}
    <2>1. ASSUME NEW x \in ToSet(rest) PROVE x \in ToSet(s) /\ x # v
      <3>1. PICK j \in 1 .. (n - 1) : x = rest[j]
        BY <1>6 DEF ToSet
      <3>2. PICK i \in 1 .. n : i # k /\ x = s[i]
        BY <1>7, <1>8, <3>1
      <3> QED
        BY <1>1, <1>3, <3>2 DEF ToSet, IsInjective
    <2>2. ASSUME NEW x \in ToSet(s), x # v PROVE x \in ToSet(rest)
      <3>1. PICK i \in 1 .. n : x = s[i]
        BY <1>3 DEF ToSet
      <3>2. i # k
        BY <1>1, <2>2, <3>1
      <3>3. \E j \in 1 .. (n - 1) : rest[j] = x
        BY <1>7, <1>9, <3>1, <3>2
      <3> QED
        BY <1>6, <3>3 DEF ToSet
    <2> QED
      BY <2>1, <2>2
  <1>11. IsInjective(rest)
    <2> SUFFICES ASSUME NEW i \in 1 .. (n - 1), NEW j \in 1 .. (n - 1), rest[i] = rest[j]
                 PROVE  i = j
      BY <1>6 DEF IsInjective
    <2> DEFINE At(m) == IF m < k THEN m ELSE m + 1
    <2>1. At(i) \in 1 .. n /\ At(j) \in 1 .. n /\ s[At(i)] = s[At(j)]
      BY <1>7, <1>8
    <2>2. At(i) = At(j)
      <3> HIDE DEF At
      <3> QED
        BY <1>3, <2>1 DEF IsInjective
    <2> QED
      BY <1>3, <2>2
  <1> QED
    BY <1>1, <1>2, <1>6, <1>10, <1>11 DEF k, n

\* A set that is in a sequence is no larger than it is long.
LEMMA SizeFits ==
  ASSUME NEW Items, NEW s \in Seq(Items), NEW S, S \subseteq ToSet(s)
  PROVE  IsFiniteSet(S) /\ Cardinality(S) \in Nat /\ Cardinality(S) <= Len(s)
  <1>1. IsFiniteSet(1 .. Len(s)) /\ Cardinality(1 .. Len(s)) = Len(s)
    <2> DEFINE n == Len(s)
    <2>1. n \in Nat
      OBVIOUS
    <2> HIDE DEF n
    <2>2. /\ IsFiniteSet(1 .. n)
          /\ Cardinality(1 .. n) = IF 1 > n THEN 0 ELSE n - 1 + 1
      BY <2>1, FS_Interval
    <2>3. IsFiniteSet(1 .. n) /\ Cardinality(1 .. n) = n
      BY <2>1, <2>2
    <2> QED
      BY <2>3 DEF n
  <1>2. DOMAIN s = 1 .. Len(s) /\ Len(s) \in Nat
    OBVIOUS
  <1>3. ToSet(s) = {s[k] : k \in 1 .. Len(s)}
    BY <1>2 DEF ToSet
  <1>4. s \in Surjection(1 .. Len(s), ToSet(s))
    BY <1>2, <1>3 DEF Surjection
  <1>5. IsFiniteSet(ToSet(s)) /\ Cardinality(ToSet(s)) <= Len(s)
    BY <1>1, <1>4, FS_Surjection
  <1>6. IsFiniteSet(S) /\ Cardinality(S) <= Cardinality(ToSet(s))
    BY <1>5, FS_Subset
  <1>7. Cardinality(S) \in Nat /\ Cardinality(ToSet(s)) \in Nat
    BY <1>5, <1>6, FS_CardinalityType
  <1> QED
    BY <1>2, <1>5, <1>6, <1>7


-----------------------------------------------------------------------------
(* Calls *)

\* What a generator may do to the call of whoever iterates over it, ...
Answering(c, d) == c = d \/ (Runs(c) /\ (Landed(d) \/ d.is = c.is))

\* ... and what that one may do to it.
Asking(c, d) == c = d \/ (c.is = "asked" /\ d.is = "asked") \/ (~Runs(c) /\ ~Landed(d))

\* The stages speak of the same calls.
LEMMA SameCalls ==
  /\ M!Quiet = Quiet /\ A!Quiet = Quiet /\ T!Quiet = Quiet /\ B!Quiet = Quiet
  /\ M!Asked = Asked /\ A!Asked = Asked /\ T!Asked = Asked /\ B!Asked = Asked
  /\ \A v : M!Item(v) = Item(v) /\ A!Item(v) = Item(v) /\ T!Item(v) = Item(v) /\ B!Item(v) = Item(v)
  /\ \A w : M!Answer(w) = Answer(w) /\ A!Answer(w) = Answer(w) /\ T!Answer(w) = Answer(w)
            /\ B!Answer(w) = Answer(w)
  /\ \A c : /\ M!Cancelled(c) = Cancelled(c) /\ A!Cancelled(c) = Cancelled(c)
            /\ T!Cancelled(c) = Cancelled(c) /\ B!Cancelled(c) = Cancelled(c)
            /\ M!Delivered(c) = Delivered(c) /\ A!Delivered(c) = Delivered(c)
            /\ T!Delivered(c) = Delivered(c) /\ B!Delivered(c) = Delivered(c)
            /\ M!Landed(c) = Landed(c) /\ T!Landed(c) = Landed(c) /\ B!Landed(c) = Landed(c)
            /\ M!Runs(c) = Runs(c)
  /\ \A V : M!Calls(V) = Calls(V) /\ A!Calls(V) = Calls(V) /\ T!Calls(V) = Calls(V)
            /\ B!Calls(V) = Calls(V)
  BY DEF M!Call, M!Quiet, M!Asked, M!Item, M!Answer, M!Answers, M!Landed, M!Runs,
         M!Cancelled, M!Delivered, M!Calls,
         A!Call, A!Quiet, A!Asked, A!Item, A!Answer, A!Answers,
         A!Cancelled, A!Delivered, A!Calls,
         T!Call, T!Quiet, T!Asked, T!Item, T!Answer, T!Answers, T!Landed,
         T!Cancelled, T!Delivered, T!Calls,
         B!Call, B!Quiet, B!Asked, B!Item, B!Answer, B!Answers, B!Landed,
         B!Cancelled, B!Delivered, B!Calls,
         Call, Quiet, Asked, Item, Answer, Answers, Landed, Runs, Cancelled, Delivered, Calls

LEMMA SameSequences ==
  \A q : A!ToSet(q) = ToSet(q) /\ A!IsInjective(q) = IsInjective(q)
  BY DEF A!ToSet, A!IsInjective, ToSet, IsInjective

States == {"none", "asked", "closing"} \cup Answers

\* What the calls are.
LEMMA CallsAre ==
  ASSUME NEW V
  PROVE  /\ Quiet \in Calls(V) /\ Quiet.is = "none" /\ ~Quiet.killed
         /\ Asked \in Calls(V) /\ Asked.is = "asked" /\ ~Asked.killed
         /\ Closing \in Calls(V) /\ Closing.is = "closing" /\ ~Closing.killed
         /\ \A v \in V : Item(v) \in Calls(V) /\ Item(v).is = "item" /\ Item(v).of = v
         /\ \A w \in {"stop", "error", "cancelled", "closed"} :
              Answer(w) \in Calls(V) /\ Answer(w).is = w
         /\ \A c \in Calls(V) :
              /\ c.is \in States
              /\ Landed(c) <=> c.is \in Answers
              /\ Runs(c) <=> c.is \in {"asked", "closing"}
              /\ Cancelled(c) \in Calls(V) /\ Cancelled(c).is = c.is /\ Cancelled(c).of = c.of
              /\ Cancelled(c).killed = (c.killed \/ c.is = "asked")
              /\ Delivered(c) \in Calls(V) /\ Delivered(c).is = c.is /\ Delivered(c).of = c.of
              /\ ~Delivered(c).killed
  <1>1. /\ Quiet \in Calls(V) /\ Quiet.is = "none" /\ ~Quiet.killed
        /\ Asked \in Calls(V) /\ Asked.is = "asked" /\ ~Asked.killed
        /\ Closing \in Calls(V) /\ Closing.is = "closing" /\ ~Closing.killed
    BY DEF Call, Quiet, Asked, Closing, Calls, Answers
  <1>2. ASSUME NEW v \in V
        PROVE  Item(v) \in Calls(V) /\ Item(v).is = "item" /\ Item(v).of = v
    BY DEF Call, Item, Calls, Answers
  <1>3. ASSUME NEW w \in {"stop", "error", "cancelled", "closed"}
        PROVE  Answer(w) \in Calls(V) /\ Answer(w).is = w
    BY DEF Call, Answer, Calls, Answers
  <1>4. ASSUME NEW c \in Calls(V)
        PROVE  /\ c.is \in States
               /\ Landed(c) <=> c.is \in Answers
               /\ Runs(c) <=> c.is \in {"asked", "closing"}
               /\ Cancelled(c) \in Calls(V) /\ Cancelled(c).is = c.is /\ Cancelled(c).of = c.of
               /\ Cancelled(c).killed = (c.killed \/ c.is = "asked")
               /\ Delivered(c) \in Calls(V) /\ Delivered(c).is = c.is /\ Delivered(c).of = c.of
               /\ ~Delivered(c).killed
    <2>1. /\ c.is \in States
          /\ Landed(c) <=> c.is \in Answers
          /\ Runs(c) <=> c.is \in {"asked", "closing"}
      BY DEF Landed, Runs, Calls, Answers, States
    <2>2. /\ Cancelled(c) \in Calls(V) /\ Cancelled(c).is = c.is /\ Cancelled(c).of = c.of
          /\ Cancelled(c).killed = (c.killed \/ c.is = "asked")
      BY DEF Cancelled, Calls
    <2>3. /\ Delivered(c) \in Calls(V) /\ Delivered(c).is = c.is /\ Delivered(c).of = c.of
          /\ ~Delivered(c).killed
      BY DEF Delivered, Calls
    <2> QED
      BY <2>1, <2>2, <2>3
  <1> QED
    BY <1>1, <1>2, <1>3, <1>4

\* The three that are not answers.
LEMMA Plain ==
  /\ Quiet.is = "none" /\ ~Landed(Quiet) /\ ~Runs(Quiet) /\ ~Quiet.killed
  /\ Asked.is = "asked" /\ ~Landed(Asked) /\ Runs(Asked) /\ ~Asked.killed
  /\ Closing.is = "closing" /\ ~Landed(Closing) /\ Runs(Closing) /\ ~Closing.killed
  /\ Asked # Quiet
  BY DEF Call, Quiet, Asked, Closing, Answers, Landed, Runs

-----------------------------------------------------------------------------
(* The invariant *)

\* An answer that is an item has one.
Carries(call, values) == call.is = "item" => call.of \in values

ItemsCarried ==
  /\ \A f \in Feeds : pull[f].is = "item" => given[f] # 0 /\ pull[f].of = <<f, given[f]>>
  /\ Carries(merged, Values)
  /\ Carries(mapped, Values)
  /\ Carries(taken, Values)
  /\ Carries(batches, Seq(Values))

\* merge answers in its turn only, and for the source it stands at.
MergeInv ==
  /\ M!TypeOK
  /\ M!NobodyLeft
  /\ merged.is = "item" => mergeAt = "yielding" /\ merged.of[1] = last
  /\ mergeAt \in {"waiting", "walking", "unwinding"} => Runs(merged)
  /\ mergeAt \notin {"walking", "yielding"} => mergeWalk = {}
  /\ mergeAt = "unwinding" => mergeExit # "none"
  /\ merged.is = "closing" => mapAt = "over"

\* No item is mapped twice: what has not reached amap's tasks has none.
Fresh ==
  /\ \A v \in Values :
       job[v] # "none" => /\ v[2] <= given[v[1]]
                          /\ pull[v[1]].is = "item" => v[2] < given[v[1]]
  /\ merged.is = "item" => job[merged.of] = "none" /\ merged.of[2] <= given[last]

\* amap's tasks are those it holds, and there is room for one more while it asks.
MapInv ==
  /\ A!TypeOK
  /\ A!Working \subseteq ToSet(A!Held)
  /\ \A v \in ToSet(A!Held) : job[v] # "none"
  /\ Len(A!Held) <= Concurrency
  /\ mapAt = "filling" => Len(in_flight) < Concurrency
  /\ mapAt = "awaiting" <=> head # Nothing
  /\ mapAt = "over" => in_flight = <<>>
  /\ mapAt \notin {"walking", "yielding"} => mapWalk = {}
  /\ mapWalk # {} \/ mapAt \in {"waiting", "walking"} => ~ordered
  /\ \A v \in mapWalk : A!Ended(v)
  /\ mapAt = "unwinding" => mapExit # "none"
  /\ mapAt # "filling" => merged.is # "asked"
  /\ mapAt \in {"filling", "awaiting", "waiting", "walking", "unwinding"} => Runs(mapped)
  /\ mapped.is = "closing" => untilAt = "over"

UntilInv ==
  /\ T!TypeOK
  /\ untilAt \notin {"waiting", "unwinding"} => mapped.is # "asked"
  /\ untilAt \in {"unwinding", "over"} => stop # "waiting"
  /\ stop = "done" => event
  /\ untilExit = "stop" => event
  /\ untilAt = "unwinding" => untilExit # "none"
  /\ untilAt \in {"waiting", "unwinding"} => Runs(taken)
  /\ taken.is = "closing" => batchAt = "over"

BatchInv ==
  /\ B!TypeOK
  /\ B!BatchesFit
  /\ batchAt # "waiting" => batch = <<>>
  /\ batchAt = "waiting" => batches.is = "asked"
  /\ ending => batchAt \in {"yielding", "over"}
  /\ batchAt \in {"new", "yielding"} /\ ending => taken = Quiet

UseInv ==
  /\ use \in {"new", "pulling", "closing", "ended", "left", "error", "cancelled"}
  /\ use = "new" => batches = Quiet
  /\ out \in Seq(Seq(Values))
  /\ \A f \in Feeds : given[f] \in 0 .. Supply[f]
  /\ given \in [Feeds -> Nat]

IInv == MergeInv /\ MapInv /\ UntilInv /\ BatchInv /\ UseInv /\ ItemsCarried /\ Fresh

-----------------------------------------------------------------------------
(* merge *)

LEMMA ValuesAre ==
  /\ \A v \in Values : v[1] \in Feeds /\ v[2] \in 1 .. Supply[v[1]] /\ v[2] \in Nat /\ v = <<v[1], v[2]>>
  /\ \A f \in Feeds : \A i \in 1 .. Supply[f] : <<f, i>> \in Values
  <1>1. \A f \in Feeds : Supply[f] \in Nat
    BY PipelineAssumption
  <1> QED
    BY <1>1 DEF Values

\* What merge hands on is new to amap, and comes from where merge stands.
MergeSide ==
  /\ MergeInv
  /\ \A f \in Feeds : pull[f].is = "item" => given[f] # 0 /\ pull[f].of = <<f, given[f]>>
  /\ \A f \in Feeds : given[f] \in 0 .. Supply[f]
  /\ Carries(merged, Values)
  /\ Fresh

LEMMA MergeBegins ==
  ASSUME MergeSide, M!Begin, UNCHANGED <<given, job, mapAt>>
  PROVE  MergeSide' /\ Answering(merged, merged')
  <1>1. /\ pull' = [f \in Feeds |-> Asked]
        /\ mergeAt = "new" /\ mergeAt' = "waiting" /\ merged.is = "asked"
        /\ UNCHANGED <<merged, mergeWalk, last, mergeExit>>
    BY SameCalls DEF M!Begin
  <1>2. \A f \in Feeds : pull'[f] = Asked
    BY <1>1
  <1>3. pull' \in [Feeds -> Calls(Values)]
    BY <1>1, CallsAre
  <1>4. \A f \in Feeds : pull'[f].is = "asked" /\ ~Landed(pull'[f])
    BY <1>2, Plain
  <1>5. MergeInv'
    BY <1>1, <1>3, <1>4, SameCalls
    DEF MergeSide, MergeInv, M!TypeOK, M!NobodyLeft, M!Done, Runs
  <1> QED
    BY <1>1, <1>4, <1>5, ValuesAre DEF MergeSide, Fresh, Carries, Answering

LEMMA MergeLands ==
  ASSUME MergeSide, M!Lands, UNCHANGED <<given, job, mapAt>>
  PROVE  MergeSide' /\ Answering(merged, merged')
  BY SameCalls, CallsAre, PipelineAssumption
  DEF MergeSide, MergeInv, M!TypeOK, M!NobodyLeft, M!Done, Fresh, Carries, Answering, M!Lands

LEMMA MergeGoesOn ==
  ASSUME MergeSide, M!GoesOn, UNCHANGED <<given, job, mapAt>>
  PROVE  MergeSide' /\ Answering(merged, merged')
  BY SameCalls, CallsAre, PipelineAssumption
  DEF MergeSide, MergeInv, M!TypeOK, M!NobodyLeft, M!Done, Fresh, Carries, Answering, M!GoesOn,
      M!Pending, Answers, Landed

LEMMA MergeResumes ==
  ASSUME MergeSide, M!Resumes, UNCHANGED <<given, job, mapAt>>
  PROVE  MergeSide' /\ Answering(merged, merged')
  <1>1. /\ pull' = [pull EXCEPT ![last] = Asked]
        /\ mergeAt = "yielding" /\ mergeAt' = "walking" /\ merged.is = "asked"
        /\ last' = Nothing /\ last \in Feeds /\ pull[last] = Quiet
        /\ UNCHANGED <<merged, mergeWalk, mergeExit>>
    BY SameCalls DEF M!Resumes, MergeSide, MergeInv, M!TypeOK
  <1>2. \A f \in Feeds : pull'[f] = IF f = last THEN Asked ELSE pull[f]
    BY <1>1, SameCalls DEF MergeSide, MergeInv, M!TypeOK
  <1>3. pull' \in [Feeds -> Calls(Values)]
    BY <1>1, CallsAre, SameCalls DEF MergeSide, MergeInv, M!TypeOK
  <1>4. last \notin mergeWalk
    BY <1>1, Plain, SameCalls DEF MergeSide, MergeInv, M!TypeOK, M!Done
  <1>5. \A f \in Feeds : pull'[f].is = "item" => f # last
    BY <1>2, Plain
  <1>6. MergeInv'
    BY <1>1, <1>2, <1>3, <1>4, SameCalls
    DEF MergeSide, MergeInv, M!TypeOK, M!NobodyLeft, M!Done, Runs
  <1> QED
    BY <1>1, <1>2, <1>5, <1>6, ValuesAre DEF MergeSide, Fresh, Carries, Answering

\* Leaves: whatever is pending is cancelled, and awaited if there is any.
LEMMA MergeLeaves ==
  ASSUME MergeSide, NEW how \in {"error", "cancelled", "closed"},
         NEW calls \in [Feeds -> Calls(Values)],
         \A f \in Feeds : calls[f] = pull[f] \/ calls[f] = Quiet,
         M!Leaves(how, calls), Runs(merged), UNCHANGED <<given, job, mapAt>>
  PROVE  MergeSide' /\ Answering(merged, merged')
  <1>1. /\ pull' = [f \in Feeds |-> Cancelled(calls[f])]
        /\ mergeExit' = how /\ mergeWalk' = {} /\ last' = Nothing
        /\ \/ /\ \A f \in Feeds : calls[f] = Quiet
              /\ merged' = Answer(how) /\ mergeAt' = "over"
           \/ mergeAt' = "unwinding" /\ merged' = merged
    BY SameCalls DEF M!Leaves
  <1>2. \A f \in Feeds : pull'[f] = Cancelled(calls[f])
    BY <1>1
  <1>3. \A f \in Feeds :
          /\ pull'[f] \in Calls(Values) /\ pull'[f].is = calls[f].is /\ pull'[f].of = calls[f].of
    BY <1>2, CallsAre
  <1>4. pull' \in [Feeds -> Calls(Values)]
    BY <1>1, <1>2, <1>3
  <1>5. /\ merged' \in Calls(Values) /\ merged'.is # "item" /\ Answering(merged, merged')
        /\ mergeAt' = "unwinding" => merged' = merged
        /\ merged'.is = "closing" => merged'.is = merged.is
    <2>1. merged \in Calls(Values) /\ merged.is # "item"
      BY SameCalls DEF MergeSide, MergeInv, M!TypeOK, Runs
    <2>2. CASE merged' = merged
      BY <2>1, <2>2 DEF Answering
    <2>3. CASE merged' = Answer(how) /\ mergeAt' = "over"
      <3>1. merged' \in Calls(Values) /\ merged'.is = how
        BY <2>3, CallsAre
      <3> QED
        BY <2>3, <3>1 DEF Answering, Landed, Answers
    <2> QED
      BY <1>1, <2>2, <2>3
  <1>6. mergeAt' = "over" => \A f \in Feeds : ~Runs(pull'[f])
    BY <1>1, <1>3, Plain DEF Runs
  <1>7. MergeInv'
    BY <1>1, <1>4, <1>5, <1>6, SameCalls, PipelineAssumption
    DEF MergeSide, MergeInv, M!TypeOK, M!NobodyLeft
  <1>8. \A f \in Feeds : pull'[f].is = "item" => pull[f].is = "item" /\ pull'[f].of = pull[f].of
    BY <1>3, Plain
  <1>9. Fresh'
    BY <1>5, <1>8, ValuesAre DEF MergeSide, Fresh
  <1> QED
    BY <1>5, <1>7, <1>8, <1>9 DEF MergeSide, Carries
LEMMA MergeYields ==
  ASSUME MergeSide, NEW s \in mergeWalk, M!Yields(s), mergeAt = "walking",
         UNCHANGED <<given, job, mapAt>>
  PROVE  MergeSide' /\ Answering(merged, merged')
  <1>1. /\ s \in Feeds /\ pull[s].is = "item" /\ Runs(merged)
        /\ merged' = Item(pull[s].of)
        /\ pull' = [pull EXCEPT ![s] = Quiet]
        /\ mergeWalk' = mergeWalk \ {s} /\ last' = s /\ mergeAt' = "yielding"
        /\ mergeExit' = mergeExit
    BY SameCalls DEF M!Yields, M!Popped, MergeSide, MergeInv, M!TypeOK, M!Done
  <1>2. /\ given[s] \in Nat /\ given[s] # 0 /\ pull[s].of = <<s, given[s]>>
        /\ given[s] \in 1 .. Supply[s]
    BY <1>1, PipelineAssumption DEF MergeSide
  <1>3. /\ pull[s].of \in Values /\ pull[s].of[1] = s /\ pull[s].of[2] = given[s]
    BY <1>1, <1>2, ValuesAre
  <1>4. /\ merged' \in Calls(Values) /\ merged'.is = "item" /\ merged'.of = pull[s].of
        /\ Landed(merged')
    <2> DEFINE v == pull[s].of
    <2>1. v \in Values /\ merged' = Item(v)
      BY <1>1, <1>3
    <2> HIDE DEF v
    <2>2. Item(v) \in Calls(Values) /\ Item(v).is = "item" /\ Item(v).of = v
      BY <2>1, CallsAre
    <2> QED
      BY <2>1, <2>2 DEF v, Landed, Answers
  <1>5. /\ pull' \in [Feeds -> Calls(Values)]
        /\ \A f \in Feeds : pull'[f] = IF f = s THEN Quiet ELSE pull[f]
    BY <1>1, CallsAre, SameCalls DEF MergeSide, MergeInv, M!TypeOK
  <1>6. MergeInv'
    BY <1>1, <1>3, <1>4, <1>5, SameCalls, PipelineAssumption
    DEF MergeSide, MergeInv, M!TypeOK, M!NobodyLeft, M!Done
  <1>7. \A f \in Feeds : pull'[f].is = "item" => f # s
    BY <1>5, Plain
  <1>8. job[pull[s].of] = "none"
    BY <1>1, <1>2, <1>3 DEF MergeSide, Fresh
  <1>9. Fresh'
    BY <1>1, <1>2, <1>3, <1>4, <1>5, <1>7, <1>8, ValuesAre DEF MergeSide, Fresh
  <1> QED
    BY <1>1, <1>3, <1>4, <1>5, <1>6, <1>7, <1>9 DEF MergeSide, Carries, Answering

LEMMA MergeWalks ==
  ASSUME MergeSide, NEW s \in Feeds, M!Walks(s), UNCHANGED <<given, job, mapAt>>
  PROVE  MergeSide' /\ Answering(merged, merged')
  <1>1. s \in mergeWalk /\ mergeAt = "walking" /\ Runs(merged)
    BY DEF M!Walks, MergeSide, MergeInv
  <1>2. /\ M!Popped(s) \in [Feeds -> Calls(Values)]
        /\ \A f \in Feeds : M!Popped(s)[f] = IF f = s THEN Quiet ELSE pull[f]
    BY CallsAre, SameCalls DEF M!Popped, MergeSide, MergeInv, M!TypeOK
  <1>3. CASE M!Yields(s)
    BY <1>1, <1>3, MergeYields
  <1>4. CASE /\ pull[s].is = "stop"
             /\ pull' = M!Popped(s)
             /\ mergeWalk' = mergeWalk \ {s}
             /\ UNCHANGED <<merged, mergeAt, last, mergeExit>>
    <2>1. MergeInv'
      BY <1>1, <1>2, <1>4, SameCalls
      DEF MergeSide, MergeInv, M!TypeOK, M!NobodyLeft, M!Done
    <2>2. \A f \in Feeds : pull'[f].is = "item" => pull'[f] = pull[f]
      BY <1>2, <1>4, Plain
    <2>3. Fresh'
      BY <1>4, <2>2, ValuesAre DEF MergeSide, Fresh
    <2> QED
      BY <1>4, <2>1, <2>2, <2>3 DEF MergeSide, Carries, Answering
  <1>5. CASE pull[s].is \in {"error", "cancelled"} /\ M!Leaves(pull[s].is, M!Popped(s))
    <2> DEFINE how == pull[s].is
               calls == M!Popped(s)
    <2>1. how \in {"error", "cancelled", "closed"} /\ calls \in [Feeds -> Calls(Values)]
          /\ \A f \in Feeds : calls[f] = pull[f] \/ calls[f] = Quiet
      BY <1>2, <1>5
    <2>2. M!Leaves(how, calls)
      BY <1>5
    <2> HIDE DEF how, calls
    <2> QED
      BY <1>1, <2>1, <2>2, MergeLeaves
  <1> QED
    BY <1>3, <1>4, <1>5 DEF M!Walks

\* Every pending call is cancelled again.
LEMMA MergeThrownAgain ==
  ASSUME MergeSide, M!ThrownAgain, UNCHANGED <<given, job, mapAt>>
  PROVE  MergeSide' /\ Answering(merged, merged')
  <1>1. /\ mergeAt = "unwinding" /\ merged' = Delivered(merged) /\ Runs(merged)
        /\ pull' = [f \in Feeds |-> Cancelled(pull[f])] /\ mergeExit' = "cancelled"
        /\ UNCHANGED <<mergeAt, mergeWalk, last>>
    BY SameCalls DEF M!ThrownAgain, MergeSide, MergeInv
  <1>2. /\ merged' \in Calls(Values) /\ merged'.is = merged.is /\ Runs(merged')
    BY <1>1, CallsAre, SameCalls DEF MergeSide, MergeInv, M!TypeOK, Runs
  <1>3. pull \in [Feeds -> Calls(Values)]
    BY SameCalls DEF MergeSide, MergeInv, M!TypeOK
  <1>4. /\ pull' \in [Feeds -> Calls(Values)]
        /\ \A f \in Feeds : pull'[f].is = pull[f].is /\ pull'[f].of = pull[f].of
    BY <1>1, <1>3, CallsAre
  <1>5. MergeInv'
    BY <1>1, <1>2, <1>4, SameCalls DEF MergeSide, MergeInv, M!TypeOK, M!NobodyLeft
  <1>6. merged.is # "item" /\ merged'.is # "item"
    BY <1>1, <1>2 DEF Runs
  <1>7. Fresh'
    BY <1>1, <1>4, <1>6, ValuesAre DEF MergeSide, Fresh
  <1> QED
    BY <1>1, <1>2, <1>4, <1>5, <1>6, <1>7 DEF MergeSide, Carries, Answering

LEMMA MergeUnwound ==
  ASSUME MergeSide, M!Unwound, UNCHANGED <<given, job, mapAt>>
  PROVE  MergeSide' /\ Answering(merged, merged')
  <1>1. /\ mergeAt = "unwinding" /\ Runs(merged) /\ mergeAt' = "over"
        /\ merged' = Answer(mergeExit)
        /\ pull' = [f \in Feeds |-> Quiet]
        /\ UNCHANGED <<mergeWalk, last, mergeExit>>
    BY SameCalls DEF M!Unwound, MergeSide, MergeInv
  <1>2. mergeExit \in {"error", "cancelled", "closed"}
    BY <1>1 DEF MergeSide, MergeInv, M!TypeOK
  <1>3. merged' \in Calls(Values) /\ merged'.is = mergeExit /\ Landed(merged')
    BY <1>1, <1>2, CallsAre DEF Landed, Answers
  <1>4. /\ pull' \in [Feeds -> Calls(Values)]
        /\ \A f \in Feeds : pull'[f].is = "none"
    BY <1>1, CallsAre
  <1>5. MergeInv'
    BY <1>1, <1>2, <1>3, <1>4, SameCalls DEF MergeSide, MergeInv, M!TypeOK, M!NobodyLeft, Runs
  <1>6. Fresh'
    BY <1>2, <1>3, <1>4, ValuesAre DEF MergeSide, Fresh
  <1> QED
    BY <1>1, <1>2, <1>3, <1>4, <1>5, <1>6 DEF MergeSide, Carries, Answering

\* merge, whatever it does.
LEMMA MergeSteps ==
  ASSUME MergeSide, M!Step, UNCHANGED <<given, job, mapAt>>
  PROVE  MergeSide' /\ Answering(merged, merged')
  <1>1. pull \in [Feeds -> Calls(Values)]
    BY SameCalls DEF MergeSide, MergeInv, M!TypeOK
  <1>2. CASE M!Closes
    BY <1>1, <1>2, MergeLeaves DEF M!Closes, Runs
  <1>3. CASE M!Thrown
    BY <1>1, <1>3, MergeLeaves DEF M!Thrown, MergeSide, MergeInv
  <1> QED
    BY <1>2, <1>3, MergeBegins, MergeLands, MergeGoesOn, MergeResumes, MergeThrownAgain,
       MergeUnwound, MergeWalks DEF M!Step

-----------------------------------------------------------------------------
(* amap *)

\* A caller that leaves a running call alone, but for a cancellation, leaves
\* merge as it was.
LEMMA MergeAsked ==
  ASSUME MergeInv, merged' \in Calls(Values), Asking(merged, merged'),
         merged'.is = "closing" => mapAt' = "over",
         UNCHANGED <<pull, mergeVars>>
  PROVE  MergeInv'
  BY SameCalls DEF MergeInv, M!TypeOK, M!NobodyLeft, M!Done, M!Landed, Asking, mergeVars, Runs, Landed, Answers

\* What amap's tasks work on has come out of merge.
MapSide ==
  /\ MergeInv /\ MapInv /\ Fresh
  /\ Carries(merged, Values)
  /\ Carries(mapped, Values)
  /\ untilAt = "over" => mapped.is # "asked"

\* What a step of amap keeps, and what it does to the calls.
MapKept ==
  /\ MapInv'
  /\ Carries(mapped, Values)'
  /\ Answering(mapped, mapped')
  /\ mapAt = "over" => mapAt' = "over"

LEMMA MapShape ==
  ASSUME MapSide
  PROVE  /\ mapped \in Calls(Values) /\ merged \in Calls(Values)
         /\ in_flight \in Seq(Values) /\ IsInjective(in_flight)
         /\ head \in Values \cup {Nothing}
         /\ job \in [Values -> {"none", "running", "ok", "error", "cancelled"}]
         /\ Nothing \notin Values
         /\ Concurrency \in Nat \ {0} /\ Orders \subseteq BOOLEAN
  BY SameCalls, SameSequences, PipelineAssumption DEF MapSide, MapInv, A!TypeOK, A!MapAssumption

\* From the top of the loop to its next await, or to the return.
LEMMA MapProceeds ==
  ASSUME MapSide, Runs(mapped), mapWalk = {}, head = Nothing,
         NEW flight \in Seq(Values), IsInjective(flight), Len(flight) <= Concurrency,
         NEW dry \in BOOLEAN, A!Proceeds(flight, dry),
         job' \in [Values -> {"none", "running", "ok", "error", "cancelled"}],
         \A v \in Values : job'[v] = "running" => v \in ToSet(flight),
         \A v \in ToSet(flight) : job'[v] # "none",
         UNCHANGED <<ordered, torn, mapWalk, mapExit, untilAt>>, mapAt # "over"
  PROVE  MapKept /\ merged' \in {Quiet, Asked}
  <1>1. A!Held' = IF head' = Nothing THEN in_flight' ELSE <<head'>> \o in_flight'
    BY DEF A!Held
  <1>2. /\ mapWalk' = {} /\ ordered' = ordered /\ ordered \in BOOLEAN
        /\ torn' \subseteq Values /\ exhausted' = dry
        /\ mapExit' \in {"none", "error", "cancelled", "closed"}
        /\ mapped.is = "closing" => untilAt = "over"
    BY DEF MapSide, MapInv, A!TypeOK, A!Proceeds
  <1>3. mapped \in Calls(Values) /\ Nothing \notin Values /\ mapped.is # "item"
    BY MapShape DEF Runs
  <1>4. A!Working' = {v \in Values : job'[v] = "running"}
    BY DEF A!Working
  <1>5. CASE /\ ~dry /\ A!Room(flight)
             /\ merged' = Asked /\ mapAt' = "filling" /\ in_flight' = flight
             /\ UNCHANGED <<mapped, head>>
    <2>1. A!Held' = flight
      BY <1>1, <1>5
    <2>2. merged' \in Calls(Values)
      BY <1>5, CallsAre
    <2> QED
      BY <1>2, <1>3, <1>4, <1>5, <2>1, <2>2, SameCalls, SameSequences
      DEF MapKept, MapInv, A!TypeOK, A!InFlight, A!Room, Carries, Answering
  <1>6. merged' = Quiet => merged' \in Calls(Values) /\ merged'.is = "none"
    BY CallsAre
  <1>7. CASE /\ merged' = Quiet /\ flight = <<>>
             /\ mapped' = Answer("stop") /\ mapAt' = "over" /\ in_flight' = flight
             /\ UNCHANGED head
    <2>1. A!Held' = flight
      BY <1>1, <1>7
    <2>2. mapped' \in Calls(Values) /\ mapped'.is = "stop"
      BY <1>7, CallsAre
    <2> QED
      BY <1>2, <1>3, <1>4, <1>6, <1>7, <2>1, <2>2, SameCalls, SameSequences
      DEF MapKept, MapInv, A!TypeOK, A!InFlight, Carries, Answering, Landed, Answers
  <1>8. CASE /\ merged' = Quiet /\ flight # <<>> /\ ordered
             /\ mapAt' = "awaiting" /\ head' = Head(flight) /\ in_flight' = Tail(flight)
             /\ UNCHANGED mapped
    <2>1. /\ Head(flight) \in Values /\ Tail(flight) \in Seq(Values)
          /\ IsInjective(Tail(flight)) /\ <<Head(flight)>> \o Tail(flight) = flight
      BY <1>8, TailFacts
    <2>2. A!Held' = flight
      BY <1>1, <1>3, <1>8, <2>1
    <2> QED
      BY <1>2, <1>3, <1>4, <1>6, <1>8, <2>1, <2>2, SameCalls, SameSequences
      DEF MapKept, MapInv, A!TypeOK, A!InFlight, Carries, Answering
  <1>9. CASE /\ merged' = Quiet /\ flight # <<>> /\ ~ordered
             /\ mapAt' = "waiting" /\ in_flight' = flight
             /\ UNCHANGED <<mapped, head>>
    <2>1. A!Held' = flight
      BY <1>1, <1>9
    <2> QED
      BY <1>2, <1>3, <1>4, <1>6, <1>9, <2>1, SameCalls, SameSequences
      DEF MapKept, MapInv, A!TypeOK, A!InFlight, Carries, Answering
  <1> QED
    BY <1>5, <1>7, <1>8, <1>9, SameCalls, SameSequences DEF A!Proceeds

\* Into the finally, with a flight that holds whatever runs.
LEMMA MapLeaves ==
  ASSUME MapSide, Runs(mapped),
         NEW how \in {"error", "cancelled", "closed"},
         NEW flight \in Seq(Values), IsInjective(flight), Len(flight) <= Concurrency,
         A!Leaves(how, flight),
         \A v \in Values : job[v] = "running" => v \in ToSet(flight),
         \A v \in ToSet(flight) : job[v] # "none",
         UNCHANGED <<ordered, job, exhausted, untilAt>>, mapAt # "over"
  PROVE  MapKept /\ merged' = Quiet
  <1>1. /\ in_flight' = flight /\ torn' = torn \cup (ToSet(flight) \cap A!Working)
        /\ head' = Nothing /\ merged' = Quiet /\ mapWalk' = {} /\ mapExit' = how
        /\ \/ flight = <<>> /\ mapped' = Answer(how) /\ mapAt' = "over"
           \/ flight # <<>> /\ mapAt' = "unwinding" /\ mapped' = mapped
    BY SameCalls, SameSequences DEF A!Leaves
  <1>2. A!Held' = flight
    BY <1>1 DEF A!Held
  <1>3. A!Working' = {v \in Values : job'[v] = "running"} /\ A!Working \subseteq Values
    BY DEF A!Working
  <1>4. mapped \in Calls(Values) /\ Nothing \notin Values /\ mapped.is # "item"
    BY MapShape DEF Runs
  <1>5. /\ merged' \in Calls(Values) /\ merged'.is = "none"
        /\ Answer(how) \in Calls(Values) /\ Answer(how).is = how
    BY <1>1, CallsAre
  <1>6. torn' \subseteq Values
    BY <1>1, <1>3 DEF MapSide, MapInv, A!TypeOK
  <1>7. CASE flight = <<>> /\ mapped' = Answer(how) /\ mapAt' = "over"
    BY <1>1, <1>2, <1>3, <1>4, <1>5, <1>6, <1>7, SameCalls, SameSequences
    DEF MapKept, MapSide, MapInv, A!TypeOK, A!InFlight, Carries, Answering, Landed, Answers
  <1>8. CASE flight # <<>> /\ mapAt' = "unwinding" /\ mapped' = mapped
    BY <1>1, <1>2, <1>3, <1>4, <1>5, <1>6, <1>8, SameCalls, SameSequences
    DEF MapKept, MapSide, MapInv, A!TypeOK, A!InFlight, Carries, Answering
  <1> QED
    BY <1>1, <1>7, <1>8

\* What merge is to hand on has no task, and the others keep theirs.
LEMMA FreshStays ==
  ASSUME Fresh, Carries(merged, Values), merged' = merged \/ merged'.is # "item",
         \A v \in Values : job'[v] = "none" <=> job[v] = "none",
         UNCHANGED <<pull, given, last>>
  PROVE  Fresh' /\ Carries(merged, Values)'
  BY DEF Fresh, Carries

\* A step of amap, with what it leaves alone in the pipeline.
MapStep == MapSide /\ UNCHANGED <<pull, mergeVars, given, untilAt>>

MapDone == MapKept /\ MergeInv' /\ Fresh' /\ Carries(merged, Values)'

\* The source is not running, and is asked or let go.
LEMMA MapAsksAgain ==
  ASSUME MapStep, mapAt # "over", merged.is # "asked", merged' \in {Quiet, Asked},
         \A v \in Values : job'[v] = "none" <=> job[v] = "none"
  PROVE  MergeInv' /\ Fresh' /\ Carries(merged, Values)'
  <1>1. ~Runs(merged)
    BY DEF MapStep, MapSide, MergeInv, Runs
  <1>2. /\ merged' \in Calls(Values) /\ merged'.is \in {"none", "asked"}
        /\ Asking(merged, merged')
    BY <1>1, CallsAre DEF Asking, Landed, Answers
  <1>3. MergeInv'
    BY <1>2, MergeAsked DEF MapStep, MapSide
  <1> QED
    BY <1>2, <1>3, FreshStays DEF MapStep, MapSide, mergeVars

LEMMA MapContinues ==
  ASSUME MapStep, A!Continues
  PROVE  MapDone
  <1>1. /\ mapAt \in {"new", "yielding"} /\ mapped = Asked /\ mapWalk = {}
        /\ A!Proceeds(in_flight, exhausted)
        /\ UNCHANGED <<ordered, job, torn, mapWalk, mapExit>>
    BY SameCalls DEF A!Continues
  <1>2. /\ head = Nothing /\ A!Held = in_flight /\ Runs(mapped) /\ merged.is # "asked"
    BY <1>1, Plain DEF MapStep, MapSide, MapInv, A!Held
  <1>3. /\ Len(in_flight) <= Concurrency /\ exhausted \in BOOLEAN
        /\ \A v \in Values : job[v] = "running" => v \in ToSet(in_flight)
        /\ \A v \in ToSet(in_flight) : job[v] # "none"
    BY <1>2 DEF MapStep, MapSide, MapInv, A!Working, A!TypeOK
  <1>4. MapKept /\ merged' \in {Quiet, Asked}
    BY <1>1, <1>2, <1>3, MapShape, MapProceeds DEF MapStep
  <1> QED
    BY <1>1, <1>2, <1>4, MapAsksAgain DEF MapDone

\* What amap holds while it asks.
LEMMA WhileFilling ==
  ASSUME MapSide, mapAt = "filling"
  PROVE  /\ head = Nothing /\ A!Held = in_flight /\ Runs(mapped) /\ mapWalk = {}
         /\ Len(in_flight) < Concurrency /\ Len(in_flight) \in Nat
         /\ exhausted \in BOOLEAN
         /\ \A v \in Values : job[v] = "running" => v \in ToSet(in_flight)
         /\ \A v \in ToSet(in_flight) : job[v] # "none"
  <1>1. head = Nothing /\ A!Held = in_flight
    BY DEF MapSide, MapInv, A!Held
  <1>2. Len(in_flight) \in Nat
    BY MapShape
  <1> QED
    BY <1>1, <1>2 DEF MapSide, MapInv, A!Working, A!TypeOK

LEMMA MapFills ==
  ASSUME MapStep, A!Fills
  PROVE  MapDone
  <1> DEFINE v == merged.of
             flight == Append(in_flight, v)
  <1>1. /\ mapAt = "filling" /\ merged.is = "item"
        /\ job' = [job EXCEPT ![v] = "running"]
        /\ A!Proceeds(flight, exhausted)
        /\ UNCHANGED <<ordered, torn, mapWalk, mapExit>>
    BY DEF A!Fills
  <1>2. /\ v \in Values /\ job[v] = "none" /\ v[2] <= given[last] /\ v[1] = last
        /\ pull[last] = Quiet
    BY <1>1, SameCalls DEF MapStep, MapSide, Carries, Fresh, MergeInv, M!TypeOK
  <1> HIDE DEF v
  <1>3. v \notin ToSet(in_flight)
    BY <1>1, <1>2, WhileFilling DEF MapStep
  <1>4. /\ flight \in Seq(Values) /\ Len(flight) = Len(in_flight) + 1
        /\ ToSet(flight) = ToSet(in_flight) \cup {v} /\ IsInjective(flight)
    BY <1>2, <1>3, AppendFacts, MapShape DEF MapStep
  <1> HIDE DEF flight
  <1>5. /\ \A x \in Values : job'[x] = IF x = v THEN "running" ELSE job[x]
        /\ job' \in [Values -> {"none", "running", "ok", "error", "cancelled"}]
    BY <1>1, <1>2, MapShape DEF MapStep
  <1>6. /\ Len(flight) <= Concurrency
        /\ \A x \in Values : job'[x] = "running" => x \in ToSet(flight)
    BY <1>1, <1>4, <1>5, WhileFilling, MapShape DEF MapStep
  <1>7. \A x \in ToSet(flight) : x \in Values
    BY <1>4 DEF ToSet
  <1>8. \A x \in ToSet(flight) : job'[x] # "none"
    BY <1>1, <1>4, <1>5, <1>7, WhileFilling DEF MapStep
  <1>9. MapKept /\ merged' \in {Quiet, Asked}
    <2>1. Runs(mapped) /\ mapWalk = {} /\ head = Nothing /\ exhausted \in BOOLEAN
      BY <1>1, WhileFilling DEF MapStep
    <2>2. mapAt # "over" /\ untilAt' = untilAt
      BY <1>1 DEF MapStep
    <2> QED
      BY <1>1, <1>4, <1>5, <1>6, <1>8, <2>1, <2>2, MapProceeds DEF MapStep
  <1>10. /\ merged' \in Calls(Values) /\ merged'.is \in {"none", "asked"}
         /\ Asking(merged, merged')
    BY <1>1, <1>9, CallsAre DEF Asking, Runs, Landed, Answers
  <1>11. MergeInv'
    BY <1>10, MergeAsked DEF MapStep, MapSide
  <1>12. Fresh' /\ Carries(merged, Values)'
    <2>1. pull[v[1]].is # "item"
      BY <1>2, Plain
    <2> QED
      BY <1>2, <1>5, <1>10, <2>1 DEF MapStep, MapSide, Fresh, Carries
  <1> QED
    BY <1>9, <1>11, <1>12 DEF MapDone

LEMMA MapExhausts ==
  ASSUME MapStep, A!Exhausts
  PROVE  MapDone
  <1>1. /\ mapAt = "filling" /\ merged.is = "stop"
        /\ A!Proceeds(in_flight, TRUE)
        /\ UNCHANGED <<ordered, job, torn, mapWalk, mapExit>>
    BY DEF A!Exhausts
  <1>2. /\ Runs(mapped) /\ mapWalk = {} /\ head = Nothing
        /\ Len(in_flight) <= Concurrency
        /\ \A v \in Values : job[v] = "running" => v \in ToSet(in_flight)
        /\ \A v \in ToSet(in_flight) : job[v] # "none"
    BY <1>1, WhileFilling, MapShape DEF MapStep
  <1>3. MapKept /\ merged' \in {Quiet, Asked}
    BY <1>1, <1>2, MapShape, MapProceeds DEF MapStep
  <1> QED
    BY <1>1, <1>3, MapAsksAgain DEF MapDone

LEMMA MapFillFails ==
  ASSUME MapStep, A!FillFails
  PROVE  MapDone
  <1>1. /\ mapAt = "filling" /\ merged.is \in {"error", "cancelled"}
        /\ A!Leaves(merged.is, in_flight)
        /\ UNCHANGED <<ordered, job, exhausted>>
    BY DEF A!FillFails
  <1>2. /\ Runs(mapped)
        /\ Len(in_flight) <= Concurrency
        /\ \A v \in Values : job[v] = "running" => v \in ToSet(in_flight)
        /\ \A v \in ToSet(in_flight) : job[v] # "none"
    BY <1>1, WhileFilling, MapShape DEF MapStep
  <1>3. MapKept /\ merged' = Quiet
    BY <1>1, <1>2, MapShape, MapLeaves DEF MapStep
  <1> QED
    BY <1>1, <1>3, MapAsksAgain DEF MapDone

\* The source is left alone, or cancelled.
LEMMA MapLeavesBe ==
  ASSUME MapStep, merged' \in Calls(Values), Asking(merged, merged'), merged'.is = merged.is,
         merged' = merged \/ merged.is # "item", mapAt = "over" => mapAt' = "over",
         \A v \in Values : job'[v] = "none" <=> job[v] = "none"
  PROVE  MergeInv' /\ Fresh' /\ Carries(merged, Values)'
  <1>1. merged.is = "closing" => mapAt = "over"
    BY DEF MapStep, MapSide, MergeInv
  <1>2. MergeInv'
    BY <1>1, MergeAsked DEF MapStep, MapSide
  <1> QED
    BY <1>2, FreshStays DEF MapStep, MapSide, mergeVars

LEMMA MapLeavesAlone ==
  ASSUME MapStep, merged' = merged, mapAt = "over" => mapAt' = "over",
         \A v \in Values : job'[v] = "none" <=> job[v] = "none"
  PROVE  MergeInv' /\ Fresh' /\ Carries(merged, Values)'
  <1>1. merged' \in Calls(Values) /\ Asking(merged, merged') /\ merged'.is = merged.is
    BY MapShape DEF MapStep, Asking
  <1> QED
    BY <1>1, MapLeavesBe

\* What amap holds while it awaits the oldest task, ...
LEMMA WhileAwaiting ==
  ASSUME MapSide, mapAt = "awaiting"
  PROVE  /\ head \in Values /\ Runs(mapped) /\ mapWalk = {}
         /\ Len(in_flight) + 1 <= Concurrency /\ Len(in_flight) \in Nat
         /\ \A v \in Values : job[v] = "running" => v = head \/ v \in ToSet(in_flight)
         /\ \A v \in ToSet(in_flight) : job[v] # "none"
         /\ job[head] # "none"
         /\ A!Held = <<head>> \o in_flight /\ ToSet(A!Held) = {head} \cup ToSet(in_flight)
         /\ merged.is # "asked"
  <1>1. head \in Values /\ A!Held = <<head>> \o in_flight
    BY MapShape DEF MapSide, MapInv, A!Held
  <1>2. Len(A!Held) = Len(in_flight) + 1 /\ ToSet(A!Held) = {head} \cup ToSet(in_flight)
    BY <1>1, PushFacts, MapShape
  <1>3. Len(in_flight) \in Nat
    BY MapShape
  <1> QED
    BY <1>1, <1>2, <1>3 DEF MapSide, MapInv, A!Working

\* ... and elsewhere.
LEMMA Otherwise ==
  ASSUME MapSide, mapAt # "awaiting"
  PROVE  /\ head = Nothing /\ A!Held = in_flight
         /\ Len(in_flight) <= Concurrency /\ Len(in_flight) \in Nat
         /\ \A v \in Values : job[v] = "running" => v \in ToSet(in_flight)
         /\ \A v \in ToSet(in_flight) : job[v] # "none"
  <1>1. head = Nothing /\ A!Held = in_flight
    BY DEF MapSide, MapInv, A!Held
  <1>2. Len(in_flight) \in Nat
    BY MapShape
  <1> QED
    BY <1>1, <1>2 DEF MapSide, MapInv, A!Working

LEMMA MapHeadArrives ==
  ASSUME MapStep, A!HeadArrives
  PROVE  MapDone
  <1>1. mapAt = "awaiting" /\ UNCHANGED <<ordered, job, exhausted>>
    BY DEF A!HeadArrives
  <1>2. CASE /\ job[head] = "ok" /\ mapped' = Item(head) /\ mapAt' = "yielding"
             /\ head' = Nothing
             /\ UNCHANGED <<merged, in_flight, torn, mapWalk, mapExit>>
    <2>1. /\ head \in Values /\ Runs(mapped) /\ mapWalk = {} /\ merged.is # "asked"
          /\ Len(in_flight) <= Concurrency
          /\ \A v \in Values : job[v] = "running" => v \in ToSet(in_flight)
          /\ \A v \in ToSet(in_flight) : job[v] # "none"
      BY <1>1, <1>2, WhileAwaiting, MapShape DEF MapStep
    <2>2. mapped' \in Calls(Values) /\ mapped'.is = "item" /\ mapped'.of = head
      <3>1. Item(head) \in Calls(Values) /\ Item(head).is = "item" /\ Item(head).of = head
        BY <2>1, CallsAre
      <3> QED
        BY <1>2, <3>1
    <2>3. A!Held' = in_flight /\ A!Working' = {v \in Values : job[v] = "running"}
      BY <1>1, <1>2 DEF A!Held, A!Working
    <2>4. MapKept
      BY <1>1, <1>2, <2>1, <2>2, <2>3, SameCalls, SameSequences
      DEF MapStep, MapSide, MapKept, MapInv, A!TypeOK, A!InFlight, Carries, Answering, Landed, Answers
    <2> QED
      BY <1>1, <1>2, <2>4, MapLeavesAlone DEF MapDone
  <1>3. CASE job[head] \in {"error", "cancelled"} /\ A!Leaves(job[head], in_flight)
    <2>1. /\ Runs(mapped) /\ merged.is # "asked"
          /\ Len(in_flight) <= Concurrency
          /\ \A v \in Values : job[v] = "running" => v \in ToSet(in_flight)
          /\ \A v \in ToSet(in_flight) : job[v] # "none"
      BY <1>1, <1>3, WhileAwaiting, MapShape DEF MapStep
    <2>2. MapKept /\ merged' = Quiet
      BY <1>1, <1>3, <2>1, MapShape, MapLeaves DEF MapStep
    <2> QED
      BY <1>1, <2>1, <2>2, MapAsksAgain DEF MapDone
  <1> QED
    BY <1>2, <1>3, SameCalls DEF A!HeadArrives

LEMMA MapLands ==
  ASSUME MapStep, A!Lands
  PROVE  MapDone
  <1>1. /\ mapAt = "waiting" /\ mapAt' = "walking"
        /\ mapWalk' = {v \in ToSet(in_flight) : A!Ended(v)}
        /\ UNCHANGED <<mapped, merged, ordered, in_flight, head, job, torn, exhausted, mapExit>>
    BY SameSequences DEF A!Lands, A!InFlight, A!taskVars
  <1>2. A!Held' = A!Held /\ A!Working' = A!Working /\ \A v : A!Ended(v)' = A!Ended(v)
    BY <1>1 DEF A!Held, A!Working, A!Ended
  <1>3. MapKept
    BY <1>1, <1>2, SameCalls, SameSequences
    DEF MapStep, MapSide, MapKept, MapInv, A!TypeOK, A!InFlight, Carries, Answering
  <1> QED
    BY <1>1, <1>3, MapLeavesAlone DEF MapDone

LEMMA MapNeverStarts ==
  ASSUME MapStep, A!NeverStarts
  PROVE  MapDone
  <1>1. /\ mapAt \in {"new", "yielding"} /\ mapped.is = "asked" /\ mapped' = Answer("cancelled")
        /\ UNCHANGED <<merged, mapAt, ordered, in_flight, head, job, torn, exhausted, mapWalk, mapExit>>
    BY SameCalls DEF A!NeverStarts, A!taskVars
  <1>2. A!Held' = A!Held /\ A!Working' = A!Working /\ \A v : A!Ended(v)' = A!Ended(v)
    BY <1>1 DEF A!Held, A!Working, A!Ended
  <1>3. mapped' \in Calls(Values) /\ mapped'.is = "cancelled" /\ Runs(mapped) /\ Landed(mapped')
    BY <1>1, CallsAre DEF Runs, Landed, Answers
  <1>4. MapKept
    BY <1>1, <1>2, <1>3, SameCalls, SameSequences
    DEF MapStep, MapSide, MapKept, MapInv, A!TypeOK, A!InFlight, Carries, Answering
  <1> QED
    BY <1>1, <1>4, MapLeavesAlone DEF MapDone

LEMMA MapCloses ==
  ASSUME MapStep, A!Closes
  PROVE  MapDone
  <1>1. /\ mapAt = "yielding" /\ mapped.is = "closing"
        /\ A!Leaves("closed", in_flight)
        /\ UNCHANGED <<ordered, job, exhausted>>
    BY DEF A!Closes
  <1>2. Runs(mapped) /\ merged.is # "asked"
    BY <1>1 DEF Runs, MapStep, MapSide, MapInv
  <1>3. MapKept /\ merged' = Quiet
    BY <1>1, <1>2, Otherwise, MapShape, MapLeaves DEF MapStep
  <1> QED
    BY <1>1, <1>2, <1>3, MapAsksAgain DEF MapDone

LEMMA MapPassesOn ==
  ASSUME MapStep, A!PassesOn
  PROVE  MapDone
  <1>1. /\ mapped' = Delivered(mapped)
        /\ \/ mapAt = "filling" /\ merged.is = "asked" /\ merged' = Cancelled(merged) /\ torn' = torn
           \/ mapAt = "awaiting" /\ torn' = torn \cup {head} /\ merged' = merged
        /\ UNCHANGED <<mapAt, ordered, in_flight, head, job, exhausted, mapWalk, mapExit>>
    BY SameCalls DEF A!PassesOn
  <1>2. A!Held' = A!Held /\ A!Working' = A!Working /\ \A v : A!Ended(v)' = A!Ended(v)
    BY <1>1 DEF A!Held, A!Working, A!Ended
  <1>3. /\ mapped' \in Calls(Values) /\ mapped'.is = mapped.is /\ mapped'.of = mapped.of
        /\ Runs(mapped)
        /\ merged' \in Calls(Values) /\ merged'.is = merged.is
    <2>1. mapped \in Calls(Values) /\ merged \in Calls(Values) /\ Runs(mapped)
      BY <1>1, MapShape DEF MapStep, MapSide, MapInv
    <2> QED
      BY <1>1, <2>1, CallsAre
  <1>4. torn' \subseteq Values
    BY <1>1, WhileAwaiting DEF MapStep, MapSide, MapInv, A!TypeOK
  <1>5. MapKept
    BY <1>1, <1>2, <1>3, <1>4, SameCalls, SameSequences
    DEF MapStep, MapSide, MapKept, MapInv, A!TypeOK, A!InFlight, Carries, Answering, Runs
  <1>6. Asking(merged, merged')
    BY <1>1, <1>3 DEF Asking
  <1> QED
    BY <1>1, <1>3, <1>5, <1>6, MapLeavesBe DEF MapDone

LEMMA MapThrown ==
  ASSUME MapStep, A!Thrown
  PROVE  MapDone
  <1>1. /\ mapAt \in {"waiting", "awaiting"}
        /\ mapAt = "awaiting" => job[head] \in {"ok", "error", "cancelled"}
        /\ A!Leaves("cancelled", in_flight)
        /\ UNCHANGED <<ordered, job, exhausted>>
    BY DEF A!Thrown, A!Ended
  <1>2. Runs(mapped) /\ merged.is # "asked"
    BY <1>1 DEF MapStep, MapSide, MapInv
  <1>3. /\ Len(in_flight) <= Concurrency
        /\ \A v \in Values : job[v] = "running" => v \in ToSet(in_flight)
        /\ \A v \in ToSet(in_flight) : job[v] # "none"
    BY <1>1, WhileAwaiting, Otherwise, MapShape DEF MapStep
  <1>4. MapKept /\ merged' = Quiet
    BY <1>1, <1>2, <1>3, MapShape, MapLeaves DEF MapStep
  <1> QED
    BY <1>1, <1>2, <1>4, MapAsksAgain DEF MapDone

LEMMA MapThrownAgain ==
  ASSUME MapStep, A!ThrownAgain
  PROVE  MapDone
  <1>1. /\ mapAt = "unwinding" /\ mapped' = Delivered(mapped)
        /\ torn' = torn \cup (A!InFlight \cap A!Working) /\ mapExit' = "cancelled"
        /\ UNCHANGED <<merged, mapAt, ordered, in_flight, head, job, exhausted, mapWalk>>
    BY SameCalls DEF A!ThrownAgain
  <1>2. A!Held' = A!Held /\ A!Working' = A!Working /\ \A v : A!Ended(v)' = A!Ended(v)
    BY <1>1 DEF A!Held, A!Working, A!Ended
  <1>3. /\ mapped' \in Calls(Values) /\ mapped'.is = mapped.is /\ mapped'.of = mapped.of
        /\ Runs(mapped)
    <2>1. mapped \in Calls(Values) /\ Runs(mapped)
      BY <1>1, MapShape DEF MapStep, MapSide, MapInv
    <2> QED
      BY <1>1, <2>1, CallsAre
  <1>4. torn' \subseteq Values
    BY <1>1 DEF MapStep, MapSide, MapInv, A!TypeOK, A!Working
  <1>5. MapKept
    BY <1>1, <1>2, <1>3, <1>4, SameCalls, SameSequences
    DEF MapStep, MapSide, MapKept, MapInv, A!TypeOK, A!InFlight, Carries, Answering, Runs
  <1> QED
    BY <1>1, <1>5, MapLeavesAlone DEF MapDone

LEMMA MapUnwound ==
  ASSUME MapStep, A!Unwound
  PROVE  MapDone
  <1>1. /\ mapAt = "unwinding" /\ mapAt' = "over" /\ mapped' = Answer(mapExit) /\ in_flight' = <<>>
        /\ \A v \in ToSet(in_flight) : A!Ended(v)
        /\ UNCHANGED <<merged, ordered, head, job, torn, exhausted, mapWalk, mapExit>>
    BY SameCalls, SameSequences DEF A!Unwound, A!InFlight
  <1>2. \A v \in Values : job[v] # "running"
    BY <1>1, Otherwise DEF MapStep, A!Ended
  <1>3. mapExit \in {"error", "cancelled", "closed"} /\ Runs(mapped) /\ mapWalk = {} /\ merged.is # "asked"
    BY <1>1 DEF MapStep, MapSide, MapInv, A!TypeOK
  <1>4. /\ mapped' \in Calls(Values) /\ mapped'.is = mapExit /\ Landed(mapped')
    BY <1>1, <1>3, CallsAre DEF Landed, Answers
  <1>5. head = Nothing /\ A!Held' = <<>> /\ A!Working' = {}
    BY <1>1, <1>2, Otherwise DEF MapStep, A!Held, A!Working
  <1>6. <<>> \in Seq(Values) /\ IsInjective(<<>>) /\ ToSet(<<>>) = {} /\ Len(<<>>) = 0
    BY DEF IsInjective, ToSet
  <1>7. Concurrency \in Nat
    BY MapShape DEF MapStep
  <1>8. MapKept
    BY <1>1, <1>3, <1>4, <1>5, <1>6, <1>7, SameCalls, SameSequences
    DEF MapStep, MapSide, MapKept, MapInv, A!TypeOK, A!InFlight, Carries, Answering, Runs
  <1> QED
    BY <1>1, <1>8, MapLeavesAlone DEF MapDone

\* A finished task is taken out of the flight, and its result handed on.
LEMMA MapWalks ==
  ASSUME MapStep, NEW v \in Values, A!Walks(v)
  PROVE  MapDone
  <1> DEFINE rest == A!Removed(v)
  <1>1. /\ mapAt \in {"walking", "yielding"} /\ v \in mapWalk
        /\ mapAt = "yielding" => mapped = Asked
        /\ UNCHANGED <<ordered, job, exhausted>>
        /\ \/ /\ job[v] = "ok" /\ mapped' = Item(v) /\ mapAt' = "yielding"
              /\ mapWalk' = mapWalk \ {v} /\ in_flight' = rest
              /\ UNCHANGED <<merged, head, torn, mapExit>>
           \/ job[v] # "ok" /\ A!Leaves(job[v], rest)
    BY SameCalls DEF A!Walks
  <1>2. /\ v \in ToSet(in_flight) /\ Runs(mapped) /\ ~ordered /\ merged.is # "asked"
        /\ job[v] \in {"ok", "error", "cancelled"}
        /\ mapWalk \subseteq ToSet(in_flight)
        /\ \A x \in mapWalk : A!Ended(x)
    BY <1>1, Plain, SameSequences DEF MapStep, MapSide, MapInv, A!TypeOK, A!InFlight, A!Ended
  <1>3. /\ rest \in Seq(Values) /\ Len(rest) = Len(in_flight) - 1
        /\ ToSet(rest) = ToSet(in_flight) \ {v} /\ IsInjective(rest)
    <2>1. rest = RemoveAt(in_flight, CHOOSE k \in DOMAIN in_flight : in_flight[k] = v)
      BY DEF A!Removed, A!RemoveAt, RemoveAt
    <2> HIDE DEF rest
    <2> QED
      BY <1>2, <2>1, RemovedFacts, MapShape DEF MapStep
  <1>4. /\ head = Nothing /\ Len(rest) <= Concurrency
        /\ \A x \in Values : job[x] = "running" => x \in ToSet(rest)
        /\ \A x \in ToSet(rest) : job[x] # "none"
    BY <1>1, <1>2, <1>3, Otherwise, MapShape DEF MapStep
  <1> HIDE DEF rest
  <1>5. CASE /\ job[v] = "ok" /\ mapped' = Item(v) /\ mapAt' = "yielding"
             /\ mapWalk' = mapWalk \ {v} /\ in_flight' = rest
             /\ UNCHANGED <<merged, head, torn, mapExit>>
    <2>1. mapped' \in Calls(Values) /\ mapped'.is = "item" /\ mapped'.of = v
      <3>1. Item(v) \in Calls(Values) /\ Item(v).is = "item" /\ Item(v).of = v
        BY CallsAre
      <3> QED
        BY <1>5, <3>1
    <2>2. A!Held' = rest /\ A!Working' = {x \in Values : job[x] = "running"}
      BY <1>1, <1>4, <1>5 DEF A!Held, A!Working
    <2>3. \A x : A!Ended(x)' = A!Ended(x)
      BY <1>1 DEF A!Ended
    <2>4. mapWalk' \subseteq ToSet(in_flight')
      BY <1>2, <1>3, <1>5
    <2>5. MapKept
      BY <1>1, <1>2, <1>3, <1>4, <1>5, <2>1, <2>2, <2>3, <2>4, SameCalls, SameSequences
      DEF MapStep, MapSide, MapKept, MapInv, A!TypeOK, A!InFlight, Carries, Answering, Landed, Answers
    <2> QED
      BY <1>1, <1>5, <2>5, MapLeavesAlone DEF MapDone
  <1>6. CASE job[v] # "ok" /\ A!Leaves(job[v], rest)
    <2>1. MapKept /\ merged' = Quiet
      BY <1>1, <1>2, <1>3, <1>4, <1>6, MapLeaves DEF MapStep
    <2> QED
      BY <1>1, <1>2, <2>1, MapAsksAgain DEF MapDone
  <1> QED
    BY <1>1, <1>5, <1>6

\* fn ends on an item.
LEMMA MapJobEnds ==
  ASSUME MapStep, NEW v \in Values, A!JobEnds(v)
  PROVE  MapDone
  <1>1. /\ job[v] = "running"
        /\ \E how \in {"ok", "error", "cancelled"} : job' = [job EXCEPT ![v] = how]
        /\ UNCHANGED <<mapped, merged, mapAt, ordered, in_flight, head, torn, exhausted, mapWalk, mapExit>>
    BY DEF A!JobEnds
  <1>2. PICK how \in {"ok", "error", "cancelled"} : job' = [job EXCEPT ![v] = how]
    BY <1>1
  <1>3. /\ \A x \in Values : job'[x] = IF x = v THEN how ELSE job[x]
        /\ job' \in [Values -> {"none", "running", "ok", "error", "cancelled"}]
    BY <1>2, MapShape DEF MapStep
  <1>4. A!Held' = A!Held
    BY <1>1 DEF A!Held
  <1>5. A!Working' \subseteq A!Working
    BY <1>1, <1>3 DEF A!Working
  <1>6. /\ \A x \in ToSet(A!Held) : x \in Values /\ job'[x] # "none"
        /\ \A x \in mapWalk : x \in Values
    <2>1. \A x \in ToSet(in_flight) : x \in Values
      BY MapShape DEF MapStep, ToSet
    <2>2. \A x \in ToSet(A!Held) : x \in Values
      <3>1. CASE mapAt = "awaiting"
        BY <2>1, <3>1, WhileAwaiting DEF MapStep
      <3>2. CASE mapAt # "awaiting"
        BY <2>1, <3>2, Otherwise DEF MapStep
      <3> QED
        BY <3>1, <3>2
    <2>3. mapWalk \subseteq ToSet(in_flight)
      BY SameSequences DEF MapStep, MapSide, MapInv, A!TypeOK, A!InFlight
    <2> QED
      BY <1>3, <2>1, <2>2, <2>3 DEF MapStep, MapSide, MapInv
  <1>7. \A x \in mapWalk : A!Ended(x)'
    BY <1>3, <1>6 DEF MapStep, MapSide, MapInv, A!Ended
  <1>8. MapKept
    BY <1>1, <1>3, <1>4, <1>5, <1>6, <1>7, SameCalls, SameSequences
    DEF MapStep, MapSide, MapKept, MapInv, A!TypeOK, A!InFlight, Carries, Answering
  <1> QED
    BY <1>1, <1>3, <1>8, MapLeavesAlone DEF MapDone

\* amap, whatever it does.
LEMMA MapSteps ==
  ASSUME MapStep, A!Step
  PROVE  MapDone
  BY MapContinues, MapFills, MapExhausts, MapFillFails, MapHeadArrives, MapLands,
     MapNeverStarts, MapCloses, MapPassesOn, MapThrown, MapThrownAgain, MapUnwound, MapWalks
  DEF A!Step

-----------------------------------------------------------------------------
(* take_until *)

\* A caller that leaves a running call alone, but for a cancellation, leaves
\* amap as it was.
LEMMA MapAsked ==
  ASSUME MapInv, mapped' \in Calls(Values), Asking(mapped, mapped'),
         mapped'.is = "closing" => untilAt' = "over",
         UNCHANGED <<merged, mapVars>>
  PROVE  MapInv'
  <1>1. A!Held' = A!Held /\ A!Working' = A!Working /\ \A v : A!Ended(v)' = A!Ended(v)
    BY DEF A!Held, A!Working, A!Ended, mapVars
  <1>2. Runs(mapped) => Runs(mapped')
    BY DEF Asking, Runs
  <1> QED
    BY <1>1, <1>2, SameCalls, SameSequences DEF MapInv, A!TypeOK, A!InFlight, mapVars

UntilSide ==
  /\ UntilInv
  /\ Carries(mapped, Values) /\ Carries(taken, Values)
  /\ mapped.is = "closing" => untilAt = "over"

\* What a step of take_until keeps, and what it does to the calls.
UntilKept ==
  /\ UntilInv'
  /\ Carries(mapped, Values)' /\ Carries(taken, Values)'
  /\ Answering(taken, taken')
  /\ mapped' \in Calls(Values) /\ Asking(mapped, mapped')
  /\ mapped'.is = "closing" => mapped' = mapped
  /\ untilAt = "over" => untilAt' = "over"

UntilStep == UntilSide /\ UNCHANGED batchAt

LEMMA UntilShape ==
  ASSUME UntilSide
  PROVE  taken \in Calls(Values) /\ mapped \in Calls(Values)
  BY SameCalls DEF UntilSide, UntilInv, T!TypeOK

LEMMA UntilStopEnds ==
  ASSUME UntilStep, T!StopEnds
  PROVE  UntilKept
  BY SameCalls DEF UntilStep, UntilSide, UntilKept, UntilInv, T!TypeOK, T!StopEnds, Answering, Asking

\* T!Ends: the end, with nothing of the source to wait for.
LEMMA UntilEnds ==
  ASSUME UntilStep, Runs(taken), untilAt # "over", ~Runs(mapped),
         NEW how \in {"stop", "error", "cancelled", "closed"}, T!Ends(how),
         UNCHANGED <<event, untilExit>>
  PROVE  UntilKept
  <1>1. /\ taken' = Answer(how) /\ mapped' = Quiet /\ untilAt' = "over"
        /\ stop' = IF stop = "done" THEN stop ELSE "cancelled"
    BY SameCalls DEF T!Ends
  <1>2. /\ taken' \in Calls(Values) /\ taken'.is = how /\ Landed(taken')
        /\ mapped' \in Calls(Values) /\ mapped'.is = "none" /\ ~Landed(mapped')
    BY <1>1, CallsAre DEF Landed, Answers
  <1> QED
    BY <1>1, <1>2, SameCalls
    DEF UntilStep, UntilSide, UntilKept, UntilInv, T!TypeOK, Answering, Asking, Carries

LEMMA UntilContinues ==
  ASSUME UntilStep, T!Continues
  PROVE  UntilKept
  <1>1. /\ untilAt \in {"new", "yielding"} /\ taken = Asked /\ Runs(taken)
        /\ T!AsksOrEnds /\ UNCHANGED <<event, untilExit>>
    BY SameCalls, Plain DEF T!Continues
  <1>2. ~Runs(mapped)
    BY <1>1 DEF UntilStep, UntilSide, UntilInv, Runs
  <1>3. CASE T!Ends("stop")
    BY <1>1, <1>2, <1>3, UntilEnds
  <1>4. CASE /\ ~event /\ mapped' = Asked /\ untilAt' = "waiting"
             /\ stop' = (IF stop = "none" THEN "waiting" ELSE stop)
             /\ UNCHANGED taken
    <2>1. mapped' \in Calls(Values) /\ mapped'.is = "asked" /\ ~Landed(mapped')
      BY <1>4, CallsAre, Plain
    <2> QED
      BY <1>1, <1>2, <1>4, <2>1, SameCalls
      DEF UntilStep, UntilSide, UntilKept, UntilInv, T!TypeOK, Answering, Asking, Carries
  <1> QED
    BY <1>1, <1>3, <1>4, SameCalls DEF T!AsksOrEnds

LEMMA UntilNeverStarts ==
  ASSUME UntilStep, T!NeverStarts
  PROVE  UntilKept
  <1>1. /\ untilAt \in {"new", "yielding"} /\ taken.is = "asked" /\ taken' = Answer("cancelled")
        /\ UNCHANGED <<mapped, untilAt, event, stop, untilExit>>
    BY SameCalls DEF T!NeverStarts
  <1>2. taken' \in Calls(Values) /\ taken'.is = "cancelled" /\ Runs(taken) /\ Landed(taken')
    BY <1>1, CallsAre DEF Runs, Landed, Answers
  <1> QED
    BY <1>1, <1>2, SameCalls
    DEF UntilStep, UntilSide, UntilKept, UntilInv, T!TypeOK, Answering, Asking, Carries

LEMMA UntilLands ==
  ASSUME UntilStep, T!Lands
  PROVE  UntilKept
  <1>1. untilAt = "waiting" /\ UNCHANGED <<event, untilExit>>
    BY DEF T!Lands
  <1>2. Runs(taken)
    BY <1>1 DEF UntilStep, UntilSide, UntilInv
  <1>3. CASE /\ mapped.is = "item" /\ taken' = Item(mapped.of) /\ mapped' = Quiet
             /\ untilAt' = "yielding" /\ UNCHANGED stop
    <2> DEFINE v == mapped.of
    <2>1. v \in Values /\ taken' = Item(v)
      BY <1>3 DEF UntilStep, UntilSide, Carries
    <2> HIDE DEF v
    <2>2. Item(v) \in Calls(Values) /\ Item(v).is = "item" /\ Item(v).of = v
      BY <2>1, CallsAre
    <2>3. /\ taken' \in Calls(Values) /\ taken'.is = "item" /\ taken'.of = v /\ Landed(taken')
          /\ mapped' \in Calls(Values) /\ mapped'.is = "none" /\ ~Landed(mapped') /\ ~Runs(mapped)
      BY <1>3, <2>1, <2>2, CallsAre, Plain DEF Landed, Answers, Runs
    <2> QED
      BY <1>1, <1>2, <1>3, <2>1, <2>3, SameCalls
      DEF UntilStep, UntilSide, UntilKept, UntilInv, T!TypeOK, Answering, Asking, Carries
  <1>4. CASE mapped.is \in {"stop", "error", "cancelled"} /\ T!Ends(mapped.is)
    BY <1>1, <1>2, <1>4, UntilEnds DEF Runs
  <1> QED
    BY <1>3, <1>4, SameCalls DEF T!Lands

\* T!Leaves: the source is cancelled and awaited.
LEMMA UntilLeaves ==
  ASSUME UntilStep, untilAt = "waiting", NEW how \in {"stop", "cancelled"}, T!Leaves(how),
         how = "stop" => event
  PROVE  UntilKept
  <1>1. /\ mapped' = Cancelled(mapped) /\ untilExit' = how /\ untilAt' = "unwinding"
        /\ stop' = (IF stop = "done" THEN stop ELSE "cancelled")
        /\ UNCHANGED <<taken, event>>
    BY SameCalls DEF T!Leaves
  <1>2. mapped' \in Calls(Values) /\ mapped'.is = mapped.is /\ mapped'.of = mapped.of
    BY <1>1, CallsAre, UntilShape DEF UntilStep
  <1>3. Asking(mapped, mapped')
    BY <1>1, <1>2 DEF Asking, Cancelled
  <1> QED
    BY <1>1, <1>2, <1>3, SameCalls
    DEF UntilStep, UntilSide, UntilKept, UntilInv, T!TypeOK, Answering, Carries

LEMMA UntilThrownAgain ==
  ASSUME UntilStep, T!ThrownAgain
  PROVE  UntilKept
  <1>1. /\ mapped' = Cancelled(mapped) /\ taken' = Delivered(taken) /\ untilExit' = "cancelled"
        /\ untilAt = "unwinding" /\ UNCHANGED <<untilAt, event, stop>>
    BY SameCalls DEF T!ThrownAgain
  <1>2. /\ mapped' \in Calls(Values) /\ mapped'.is = mapped.is /\ mapped'.of = mapped.of
        /\ taken' \in Calls(Values) /\ taken'.is = taken.is /\ taken'.of = taken.of
    BY <1>1, CallsAre, UntilShape DEF UntilStep
  <1>3. Asking(mapped, mapped')
    BY <1>1, <1>2 DEF Asking, Cancelled
  <1>4. Runs(taken) /\ Runs(taken')
    BY <1>1, <1>2 DEF UntilStep, UntilSide, UntilInv, Runs
  <1> QED
    BY <1>1, <1>2, <1>3, <1>4, SameCalls
    DEF UntilStep, UntilSide, UntilKept, UntilInv, T!TypeOK, Answering, Carries

LEMMA UntilUnwound ==
  ASSUME UntilStep, T!Unwound
  PROVE  UntilKept
  <1>1. /\ untilAt = "unwinding" /\ Landed(mapped) /\ taken' = Answer(untilExit)
        /\ mapped' = Quiet /\ untilAt' = "over" /\ UNCHANGED <<event, stop, untilExit>>
    BY SameCalls DEF T!Unwound
  <1>2. untilExit \in {"stop", "cancelled"} /\ Runs(taken)
    BY <1>1 DEF UntilStep, UntilSide, UntilInv, T!TypeOK
  <1>3. /\ taken' \in Calls(Values) /\ taken'.is = untilExit /\ Landed(taken')
        /\ mapped' \in Calls(Values) /\ mapped'.is = "none" /\ ~Landed(mapped') /\ ~Runs(mapped)
    BY <1>1, <1>2, CallsAre, Plain DEF Landed, Answers, Runs
  <1> QED
    BY <1>1, <1>2, <1>3, SameCalls
    DEF UntilStep, UntilSide, UntilKept, UntilInv, T!TypeOK, Answering, Asking, Carries

\* take_until, whatever it does.
LEMMA UntilSteps ==
  ASSUME UntilStep, T!Step
  PROVE  UntilKept
  <1>1. CASE T!Stops
    BY <1>1, UntilLeaves DEF T!Stops, UntilStep, UntilSide, UntilInv
  <1>2. CASE T!Thrown
    BY <1>2, UntilLeaves DEF T!Thrown
  <1>3. CASE T!Closes
    <2>1. /\ untilAt = "yielding" /\ taken.is = "closing" /\ T!Ends("closed")
          /\ UNCHANGED <<event, untilExit>>
      BY <1>3 DEF T!Closes
    <2>2. Runs(taken) /\ ~Runs(mapped)
      BY <2>1 DEF Runs, UntilStep, UntilSide, UntilInv
    <2> QED
      BY <2>1, <2>2, UntilEnds
  <1> QED
    BY <1>1, <1>2, <1>3, UntilStopEnds, UntilContinues, UntilNeverStarts, UntilLands,
       UntilThrownAgain, UntilUnwound DEF T!Step

\* The event is set.
LEMMA UntilSet ==
  ASSUME UntilStep, T!Set
  PROVE  UntilKept
  BY SameCalls DEF UntilStep, UntilSide, UntilKept, UntilInv, T!TypeOK, T!Set, Answering, Asking

-----------------------------------------------------------------------------
(* batched *)

\* A caller that leaves a running call alone, but for a cancellation, leaves
\* take_until as it was.
LEMMA UntilAsked ==
  ASSUME UntilInv, taken' \in Calls(Values), Asking(taken, taken'),
         taken'.is = "closing" => batchAt' = "over",
         UNCHANGED <<mapped, untilVars>>
  PROVE  UntilInv'
  BY SameCalls DEF UntilInv, T!TypeOK, Asking, untilVars, Runs

BatchSide ==
  /\ BatchInv
  /\ Carries(taken, Values) /\ Carries(batches, Seq(Values))
  /\ taken.is = "closing" => batchAt = "over"

\* What a step of batched keeps, and what it does to the calls.
BatchKept ==
  /\ BatchInv'
  /\ Carries(taken, Values)' /\ Carries(batches, Seq(Values))'
  /\ Answering(batches, batches')
  /\ taken' \in Calls(Values) /\ Asking(taken, taken')
  /\ taken'.is = "closing" => taken' = taken
  /\ batchAt = "over" => batchAt' = "over"

LEMMA BatchShape ==
  ASSUME BatchSide
  PROVE  /\ batches \in Calls(Seq(Values)) /\ taken \in Calls(Values)
         /\ batch \in Seq(Values) /\ Len(batch) \in Nat /\ Len(batch) < Size
         /\ Size \in Nat \ {0}
  <1>1. batch \in Seq(Values)
    BY DEF BatchSide, BatchInv, B!TypeOK
  <1> QED
    BY <1>1, SameCalls, PipelineAssumption DEF BatchSide, BatchInv, B!TypeOK, B!BatcherAssumption

\* The end; what is pending is cancelled and not awaited.
LEMMA BatchEnds ==
  ASSUME BatchSide, Runs(batches), NEW how \in {"stop", "error", "cancelled", "closed"}, B!Ends(how),
         UNCHANGED <<timed, ending>>
  PROVE  BatchKept
  <1>1. /\ batches' = Answer(how) /\ batchAt' = "over" /\ batch' = <<>>
        /\ taken' = IF Landed(taken) THEN Quiet ELSE Cancelled(taken)
    BY SameCalls DEF B!Ends
  <1>2. /\ batches' \in Calls(Seq(Values)) /\ batches'.is = how /\ Landed(batches')
    BY <1>1, CallsAre DEF Landed, Answers
  <1>3. /\ taken' \in Calls(Values) /\ Asking(taken, taken') /\ taken'.is # "item"
        /\ taken'.is = "closing" => taken' = taken
    <2>1. CASE Landed(taken)
      BY <1>1, <2>1, CallsAre, Plain DEF Asking, Landed, Runs, Answers
    <2>2. CASE ~Landed(taken)
      <3>1. taken' = Cancelled(taken) /\ taken' \in Calls(Values) /\ taken'.is = taken.is
        BY <1>1, <2>2, CallsAre, BatchShape
      <3> QED
        BY <2>2, <3>1 DEF Asking, Cancelled, Landed, Answers
    <2> QED
      BY <2>1, <2>2
  <1>4. <<>> \in Seq(Values) /\ Len(<<>>) = 0 /\ 0 < Size
    BY BatchShape
  <1> QED
    BY <1>1, <1>2, <1>3, <1>4, SameCalls
    DEF BatchSide, BatchKept, BatchInv, B!TypeOK, B!BatchesFit, Answering, Carries

\* A batch is handed on.
LEMMA BatchYields ==
  ASSUME BatchSide, batchAt = "waiting", NEW items \in Seq(Values), Len(items) \in 1 .. Size,
         B!Yields(items), timed' = timed, ending' \in BOOLEAN,
         taken' \in Calls(Values), Asking(taken, taken'), Carries(taken, Values)',
         taken'.is = "closing" => taken' = taken,
         ending' => taken' = Quiet
  PROVE  BatchKept
  <1>1. batches' = Item(items) /\ batch' = <<>> /\ batchAt' = "yielding"
    BY SameCalls DEF B!Yields
  <1>2. batches' \in Calls(Seq(Values)) /\ batches'.is = "item" /\ batches'.of = items
    <2> DEFINE V == Seq(Values)
    <2>1. items \in V
      OBVIOUS
    <2> HIDE DEF V
    <2>2. Item(items) \in Calls(V) /\ Item(items).is = "item" /\ Item(items).of = items
      BY <2>1, CallsAre, Zenon
    <2> QED
      BY <1>1, <2>2 DEF V
  <1>3. Runs(batches) /\ Landed(batches')
    BY <1>2 DEF BatchSide, BatchInv, Runs, Landed, Answers
  <1>4. <<>> \in Seq(Values) /\ Len(<<>>) = 0 /\ 0 < Size
    BY BatchShape
  <1> QED
    BY <1>1, <1>2, <1>3, <1>4, SameCalls
    DEF BatchSide, BatchKept, BatchInv, B!TypeOK, B!BatchesFit, Answering, Carries

LEMMA BatchContinues ==
  ASSUME BatchSide, B!Continues
  PROVE  BatchKept
  <1>1. /\ batchAt \in {"new", "yielding"} /\ batches.is = "asked" /\ Runs(batches)
        /\ UNCHANGED <<timed, ending>>
    BY DEF B!Continues, Runs
  <1>2. CASE ending /\ B!Ends("stop")
    BY <1>1, <1>2, BatchEnds
  <1>3. CASE /\ ~ending /\ taken' = (IF taken = Quiet THEN Asked ELSE taken)
             /\ batchAt' = "waiting" /\ UNCHANGED <<batches, batch>>
    <2>1. /\ taken' \in Calls(Values) /\ Asking(taken, taken')
          /\ taken'.is = "item" => taken' = taken
          /\ taken'.is = "closing" => taken' = taken
      BY <1>3, CallsAre, Plain, BatchShape DEF Asking, Runs
    <2> QED
      BY <1>1, <1>3, <2>1, SameCalls
      DEF BatchSide, BatchKept, BatchInv, B!TypeOK, B!BatchesFit, Answering, Carries
  <1> QED
    BY <1>2, <1>3, SameCalls DEF B!Continues, B!Waits

LEMMA BatchGathers ==
  ASSUME BatchSide, B!Gathers
  PROVE  BatchKept
  <1> DEFINE items == Append(batch, taken.of)
  <1>1. batchAt = "waiting" /\ taken.is = "item" /\ UNCHANGED <<timed, ending>>
    BY DEF B!Gathers, B!Ready
  <1>2. items \in Seq(Values) /\ Len(items) = Len(batch) + 1
    <2>1. taken.of \in Values
      BY <1>1 DEF BatchSide, Carries
    <2> QED
      BY <2>1, AppendFacts, BatchShape
  <1> HIDE DEF items
  <1>3. ~ending /\ ending \in BOOLEAN
    BY <1>1 DEF BatchSide, BatchInv, B!TypeOK
  <1>4. CASE B!Full(items) /\ B!Yields(items) /\ taken' = Quiet
    <2>1. /\ taken' \in Calls(Values) /\ Asking(taken, taken') /\ taken'.is = "none"
      BY <1>1, <1>4, CallsAre, Plain DEF Asking, Runs
    <2>2. Len(items) \in 1 .. Size
      BY <1>2, BatchShape
    <2> QED
      BY <1>1, <1>2, <1>3, <1>4, <2>1, <2>2, BatchYields DEF Carries
  <1>5. CASE /\ ~B!Full(items) /\ batch' = items /\ taken' = Asked
             /\ UNCHANGED <<batches, batchAt>>
    <2>1. /\ taken' \in Calls(Values) /\ Asking(taken, taken') /\ taken'.is = "asked"
      BY <1>1, <1>5, CallsAre, Plain DEF Asking, Runs
    <2>2. Len(items) < Size
      BY <1>2, <1>5, BatchShape DEF B!Full
    <2> QED
      BY <1>1, <1>2, <1>3, <1>5, <2>1, <2>2, SameCalls
      DEF BatchSide, BatchKept, BatchInv, B!TypeOK, B!BatchesFit, Answering, Carries
  <1> QED
    BY <1>4, <1>5, SameCalls DEF B!Gathers, items

\* The timeout expires on a batch that has something in it.
LEMMA BatchExpires ==
  ASSUME BatchSide, B!Expires
  PROVE  BatchKept
  <1>1. batchAt = "waiting" /\ batch # <<>> /\ B!Yields(batch) /\ UNCHANGED <<taken, timed, ending>>
    BY DEF B!Expires, B!Ready
  <1>2. Len(batch) \in 1 .. Size
    BY <1>1, BatchShape
  <1>3. ~ending /\ ending \in BOOLEAN
    BY <1>1 DEF BatchSide, BatchInv, B!TypeOK
  <1> QED
    BY <1>1, <1>2, <1>3, BatchYields, BatchShape DEF Asking, BatchSide, Carries

LEMMA BatchSourceStops ==
  ASSUME BatchSide, B!SourceStops
  PROVE  BatchKept
  <1>1. batchAt = "waiting" /\ taken.is = "stop" /\ timed' = timed /\ Runs(batches)
    BY DEF B!SourceStops, B!Ready, BatchSide, BatchInv, Runs
  <1>2. CASE batch = <<>> /\ B!Ends("stop") /\ UNCHANGED ending
    BY <1>1, <1>2, BatchEnds
  <1>3. CASE batch # <<>> /\ B!Yields(batch) /\ ending' = TRUE /\ taken' = Quiet
    <2>1. Len(batch) \in 1 .. Size
      BY <1>3, BatchShape
    <2>2. /\ taken' \in Calls(Values) /\ Asking(taken, taken') /\ taken'.is = "none"
      BY <1>1, <1>3, CallsAre, Plain DEF Asking, Runs
    <2> QED
      BY <1>1, <1>3, <2>1, <2>2, BatchYields, BatchShape DEF Carries
  <1> QED
    BY <1>2, <1>3, SameCalls DEF B!SourceStops

\* A TimeoutError of the source, taken for that of the wait.
LEMMA BatchTimesOut ==
  ASSUME BatchSide, B!SourceTimesOut
  PROVE  BatchKept
  <1>1. /\ batchAt = "waiting" /\ taken.is = "error" /\ UNCHANGED <<taken, timed, ending>>
        /\ batches.is = "asked" /\ Runs(batches) /\ ~ending
    BY DEF B!SourceTimesOut, B!Ready, BatchSide, BatchInv, Runs
  <1>2. taken' \in Calls(Values) /\ Asking(taken, taken')
    BY <1>1, BatchShape DEF Asking
  <1>3. CASE batch = <<>> /\ batchAt' = "spinning" /\ UNCHANGED <<batches, batch>>
    BY <1>1, <1>2, <1>3, SameCalls
    DEF BatchSide, BatchKept, BatchInv, B!TypeOK, B!BatchesFit, Answering, Carries
  <1>4. CASE batch # <<>> /\ batches' = Item(batch) /\ batch' = <<>> /\ batchAt' = "flushing"
    <2> DEFINE V == Seq(Values)
    <2>1. batch \in V
      BY BatchShape
    <2> HIDE DEF V
    <2>2. Item(batch) \in Calls(V) /\ Item(batch).is = "item" /\ Item(batch).of = batch
      BY <2>1, CallsAre, Zenon
    <2>3. /\ batches' \in Calls(Seq(Values)) /\ batches'.is = "item" /\ batches'.of = batch
          /\ Landed(batches')
      BY <1>4, <2>2 DEF V, Landed, Answers
    <2>4. <<>> \in Seq(Values) /\ Len(<<>>) = 0 /\ 0 < Size
      BY BatchShape
    <2>5. batch \in Seq(Values) /\ Len(batch) \in 1 .. Size
      BY <1>4, BatchShape
    <2> QED
      BY <1>1, <1>2, <1>4, <2>3, <2>4, <2>5, SameCalls
      DEF BatchSide, BatchKept, BatchInv, B!TypeOK, B!BatchesFit, Answering, Carries
  <1> QED
    BY <1>3, <1>4, SameCalls DEF B!SourceTimesOut

LEMMA BatchSpins ==
  ASSUME BatchSide, B!Spins
  PROVE  BatchKept
  <1>1. /\ batchAt = "flushing" /\ batchAt' = "spinning" /\ batches.is = "asked"
        /\ UNCHANGED <<batches, taken, batch, timed, ending>>
    BY DEF B!Spins
  <1> QED
    BY <1>1, BatchShape, SameCalls
    DEF BatchSide, BatchKept, BatchInv, B!TypeOK, B!BatchesFit, Answering, Asking, Carries

LEMMA BatchPassesOn ==
  ASSUME BatchSide, B!PassesOn
  PROVE  BatchKept
  <1>1. /\ batchAt = "waiting" /\ taken.is = "asked"
        /\ taken' = Cancelled(taken) /\ batches' = Delivered(batches)
        /\ UNCHANGED <<batchAt, batch, timed, ending>>
    BY SameCalls DEF B!PassesOn
  <1>2. /\ taken' \in Calls(Values) /\ taken'.is = "asked" /\ Asking(taken, taken')
    BY <1>1, CallsAre, BatchShape DEF Asking
  <1>3. /\ batches' \in Calls(Seq(Values)) /\ batches'.is = batches.is /\ batches'.of = batches.of
    BY <1>1, CallsAre, BatchShape
  <1>4. batches.is = "asked"
    BY <1>1 DEF BatchSide, BatchInv
  <1> QED
    BY <1>1, <1>2, <1>3, <1>4, SameCalls
    DEF BatchSide, BatchKept, BatchInv, B!TypeOK, B!BatchesFit, Answering, Carries, Runs

\* batched, whatever it does.
LEMMA BatchSteps ==
  ASSUME BatchSide, B!Step
  PROVE  BatchKept
  <1>1. CASE B!SourceFails
    BY <1>1, BatchEnds DEF B!SourceFails, B!Ready, BatchSide, BatchInv, Runs
  <1>2. CASE B!Closes
    BY <1>2, BatchEnds DEF B!Closes, Runs
  <1>3. CASE B!Thrown
    BY <1>3, BatchEnds DEF B!Thrown, BatchSide, BatchInv, Runs
  <1> QED
    BY <1>1, <1>2, <1>3, BatchContinues, BatchSpins, BatchGathers, BatchSourceStops,
       BatchTimesOut, BatchPassesOn DEF B!Step

\* collect asks for another batch, closes the generator or cancels itself.
LEMMA BatchAsked ==
  ASSUME BatchInv, Carries(batches, Seq(Values)), batches' \in Calls(Seq(Values)),
         Asking(batches, batches'),
         UNCHANGED <<taken, batchVars>>
  PROVE  BatchInv' /\ Carries(batches, Seq(Values))'
  <1>1. batches'.is = "item" => batches' = batches
    BY DEF Asking, Landed, Answers
  <1>2. batches.is = "asked" => batches'.is = "asked"
    BY DEF Asking, Runs
  <1> QED
    BY <1>1, <1>2, SameCalls DEF BatchInv, B!TypeOK, B!BatchesFit, Carries, batchVars

-----------------------------------------------------------------------------
(* The pipeline *)

\* What the calls of the pipeline are.
LEMMA Shape ==
  ASSUME IInv
  PROVE  /\ pull \in [Feeds -> Calls(Values)]
         /\ merged \in Calls(Values) /\ mapped \in Calls(Values) /\ taken \in Calls(Values)
         /\ batches \in Calls(Seq(Values))
  BY SameCalls
  DEF IInv, MergeInv, MapInv, UntilInv, BatchInv, M!TypeOK, A!TypeOK, T!TypeOK, B!TypeOK

\* An invariant depends on the variables of its stage and the calls on both sides.
LEMMA MergeRests ==
  MergeInv /\ UNCHANGED <<merged, pull, mergeVars, mapAt>> => MergeInv'
  BY SameCalls DEF MergeInv, M!TypeOK, M!NobodyLeft, M!Done, M!Landed, mergeVars

LEMMA MapRests ==
  ASSUME MapInv, UNCHANGED <<mapped, mapVars, untilAt>>, merged' \in Calls(Values),
         merged'.is = "asked" => merged.is = "asked"
  PROVE  MapInv'
  <1>1. A!Held' = A!Held /\ A!Working' = A!Working /\ \A v : A!Ended(v)' = A!Ended(v)
    BY DEF A!Held, A!Working, A!Ended, mapVars
  <1> QED
    BY <1>1, SameCalls, SameSequences DEF MapInv, A!TypeOK, A!InFlight, mapVars

LEMMA UntilRests ==
  ASSUME UntilInv, UNCHANGED <<taken, untilVars, batchAt>>, mapped' \in Calls(Values),
         mapped'.is = "asked" => mapped.is = "asked"
  PROVE  UntilInv'
  BY SameCalls DEF UntilInv, T!TypeOK, untilVars

LEMMA BatchRests ==
  ASSUME BatchInv, UNCHANGED <<batches, batchVars>>, taken' \in Calls(Values),
         taken = Quiet => taken' = Quiet
  PROVE  BatchInv'
  BY SameCalls DEF BatchInv, B!TypeOK, B!BatchesFit, batchVars

LEMMA FreshRests ==
  Fresh /\ UNCHANGED <<job, given, pull, merged, last>> => Fresh'
  BY DEF Fresh

LEMMA UseRests ==
  UseInv /\ UNCHANGED <<use, out, given>> /\ (batches = Quiet => batches' = Quiet) => UseInv'
  BY DEF UseInv

\* A generator whose call does not run does not answer it.
LEMMA Answered ==
  ASSUME NEW c, NEW d, Answering(c, d)
  PROVE  /\ d.is = "asked" => c.is = "asked"
         /\ c = Quiet => d = Quiet
  BY Plain DEF Answering, Landed, Answers, Runs

-----------------------------------------------------------------------------
(* The turns *)

LEMMA MergeTurns ==
  ASSUME IInv, MergeTurn
  PROVE  IInv'
  <1>1. /\ M!Step
        /\ UNCHANGED <<mapped, taken, batches, mapVars, untilVars, batchVars, useVars, given>>
    BY DEF MergeTurn
  <1>2. UNCHANGED <<given, job, mapAt, untilAt, batchAt, use, out>>
    BY <1>1 DEF mapVars, untilVars, batchVars, useVars
  <1>3. MergeSide
    BY DEF IInv, MergeSide, ItemsCarried, UseInv
  <1>4. MergeSide' /\ Answering(merged, merged')
    BY <1>1, <1>2, <1>3, MergeSteps
  <1>5. merged' \in Calls(Values)
    BY <1>4, SameCalls DEF MergeSide, MergeInv, M!TypeOK
  <1>6. MapInv' /\ UntilInv' /\ BatchInv' /\ UseInv'
    BY <1>1, <1>2, <1>4, <1>5, Answered, MapRests, UntilRests, BatchRests, UseRests, Shape DEF IInv
  <1>7. ItemsCarried'
    BY <1>1, <1>4 DEF IInv, ItemsCarried, MergeSide, Carries
  <1> QED
    BY <1>4, <1>6, <1>7 DEF IInv, MergeSide

LEMMA MapSided == IInv => MapSide
  BY DEF IInv, MapSide, ItemsCarried, UntilInv

\* A step of amap.
LEMMA MapMoves ==
  ASSUME IInv, MapDone,
         UNCHANGED <<pull, taken, batches, mergeVars, untilVars, batchVars, useVars, given>>
  PROVE  IInv'
  <1>1. UNCHANGED <<pull, given, untilAt, batchAt, use, out>>
    BY DEF mergeVars, untilVars, batchVars, useVars
  <1>2. mapped' \in Calls(Values)
    BY SameCalls DEF MapDone, MapKept, MapInv, A!TypeOK
  <1>3. UntilInv' /\ BatchInv' /\ UseInv'
    BY <1>1, <1>2, Answered, UntilRests, BatchRests, UseRests, Shape DEF IInv, MapDone, MapKept
  <1>4. ItemsCarried'
    BY <1>1 DEF IInv, ItemsCarried, MapDone, MapKept, Carries
  <1> QED
    BY <1>3, <1>4 DEF IInv, MapDone, MapKept

LEMMA MapTurns ==
  ASSUME IInv, MapTurn
  PROVE  IInv'
  BY MapSided, MapSteps, MapMoves DEF MapTurn, MapStep, untilVars

LEMMA FnEnding ==
  ASSUME IInv, NEW v \in Values, FnEnds(v)
  PROVE  IInv'
  <1>1. A!JobEnds(v) /\ merged' = merged
    BY DEF FnEnds
  <1> QED
    BY <1>1, MapSided, MapJobEnds, MapMoves DEF FnEnds, MapStep, untilVars

\* A step of take_until.
LEMMA UntilMoves ==
  ASSUME IInv, UntilKept,
         UNCHANGED <<pull, merged, batches, mergeVars, mapVars, batchVars, useVars, given>>
  PROVE  IInv'
  <1>1. UNCHANGED <<given, job, mapAt, batchAt, use, out, last>>
    BY DEF mergeVars, mapVars, batchVars, useVars
  <1>2. taken' \in Calls(Values)
    BY SameCalls DEF UntilKept, UntilInv, T!TypeOK
  <1>3. mapped'.is = "closing" => untilAt' = "over"
    BY DEF IInv, MapInv, UntilKept
  <1>4. MapInv'
    BY <1>3, MapAsked DEF IInv, UntilKept
  <1>5. MergeInv' /\ BatchInv' /\ UseInv' /\ Fresh'
    BY <1>1, <1>2, Answered, MergeRests, BatchRests, UseRests, FreshRests, Shape
    DEF IInv, UntilKept
  <1>6. ItemsCarried'
    BY <1>1 DEF IInv, ItemsCarried, UntilKept, Carries
  <1> QED
    BY <1>4, <1>5, <1>6 DEF IInv, UntilKept

LEMMA UntilSided == IInv => UntilSide
  BY DEF IInv, UntilSide, ItemsCarried, MapInv

LEMMA UntilTurns ==
  ASSUME IInv, UntilTurn \/ SetEvent
  PROVE  IInv'
  <1>1. CASE UntilTurn
    BY <1>1, UntilSided, UntilSteps, UntilMoves DEF UntilTurn, UntilStep, batchVars
  <1>2. CASE SetEvent
    BY <1>2, UntilSided, UntilSet, UntilMoves DEF SetEvent, UntilStep, batchVars
  <1> QED
    BY <1>1, <1>2

\* A step of batched.
LEMMA BatchMoves ==
  ASSUME IInv, BatchKept,
         UNCHANGED <<pull, merged, mapped, mergeVars, mapVars, untilVars, useVars, given>>
  PROVE  IInv'
  <1>1. UNCHANGED <<given, job, mapAt, untilAt, use, out, last>>
    BY DEF mergeVars, mapVars, untilVars, useVars
  <1>2. taken'.is = "closing" => batchAt' = "over"
    BY DEF IInv, UntilInv, BatchKept
  <1>3. UntilInv'
    BY <1>2, UntilAsked DEF IInv, BatchKept
  <1>4. MergeInv' /\ MapInv' /\ UseInv' /\ Fresh'
    BY <1>1, Answered, MergeRests, MapRests, UseRests, FreshRests, Shape DEF IInv, BatchKept
  <1>5. ItemsCarried'
    BY <1>1 DEF IInv, ItemsCarried, BatchKept, Carries
  <1> QED
    BY <1>3, <1>4, <1>5 DEF IInv, BatchKept

LEMMA BatchSided == IInv => BatchSide
  BY DEF IInv, BatchSide, ItemsCarried, UntilInv

LEMMA BatchTurns ==
  ASSUME IInv, BatchTurn \/ Expires
  PROVE  IInv'
  <1>1. CASE BatchTurn
    BY <1>1, BatchSided, BatchSteps, BatchMoves DEF BatchTurn
  <1>2. CASE Expires
    BY <1>2, BatchSided, BatchExpires, BatchMoves DEF Expires
  <1> QED
    BY <1>1, <1>2

\* collect asks, closes, takes the answer, or is cancelled.
LEMMA CollectAsks ==
  ASSUME IInv, CollectTurn \/ CancelCollect
  PROVE  /\ batches' \in Calls(Seq(Values)) /\ Asking(batches, batches')
         /\ use' \in {"new", "pulling", "closing", "ended", "left", "error", "cancelled"}
         /\ use' # "new"
         /\ out' \in Seq(Seq(Values))
  <1>1. CASE Starts
    <2>1. batches.is = "none"
      BY <1>1, Plain DEF Starts, IInv, UseInv
    <2> QED
      BY <1>1, <2>1, CallsAre, Plain DEF Starts, Asking, IInv, UseInv, Runs
  <1>2. CASE Receives
    <2>1. batches.of \in Seq(Values) /\ ~Runs(batches)
      BY <1>2 DEF Receives, IInv, ItemsCarried, Carries, Runs
    <2>2. out' = Append(out, batches.of) /\ out \in Seq(Seq(Values))
      BY <1>2 DEF Receives, IInv, UseInv
    <2>3. out' \in Seq(Seq(Values))
      BY <2>1, <2>2
    <2>4. batches' \in {Closing, Asked} /\ use' \in {"closing", "pulling"}
      BY <1>2 DEF Receives
    <2> QED
      BY <2>1, <2>3, <2>4, CallsAre, Plain DEF Asking
  <1>3. CASE Finishes
    <2>1. batches' = Quiet /\ ~Runs(batches) /\ out' = out
          /\ use' \in {"ended", "left", "error", "cancelled"}
      BY <1>3 DEF Finishes, Runs
    <2> QED
      BY <2>1, CallsAre, Plain DEF Asking, IInv, UseInv
  <1>4. CASE Cancel
    <2>1. batches.is = "asked" /\ batches' = Cancelled(batches) /\ UNCHANGED <<use, out>>
          /\ use = "pulling"
      BY <1>4 DEF Cancel, useVars
    <2> QED
      BY <2>1, CallsAre, Shape DEF Asking, IInv, UseInv
  <1> QED
    BY <1>1, <1>2, <1>3, <1>4 DEF CollectTurn, CollectStep, CancelCollect

LEMMA UseTurns ==
  ASSUME IInv, CollectTurn \/ CancelCollect
  PROVE  IInv'
  <1>1. UNCHANGED <<pull, merged, mapped, taken, mergeVars, mapVars, untilVars, batchVars, given>>
    BY DEF CollectTurn, CancelCollect
  <1>2. UNCHANGED <<given, job, mapAt, untilAt, batchAt, last>>
    BY <1>1 DEF mergeVars, mapVars, untilVars, batchVars
  <1>3. /\ batches' \in Calls(Seq(Values)) /\ Asking(batches, batches')
        /\ use' \in {"new", "pulling", "closing", "ended", "left", "error", "cancelled"}
        /\ use' # "new"
        /\ out' \in Seq(Seq(Values))
    BY CollectAsks
  <1>4. BatchInv' /\ Carries(batches, Seq(Values))'
    BY <1>1, <1>3, BatchAsked DEF IInv, ItemsCarried
  <1>5. MergeInv' /\ MapInv' /\ UntilInv' /\ Fresh'
    BY <1>1, <1>2, MergeRests, MapRests, UntilRests, FreshRests, Shape DEF IInv
  <1>6. UseInv' /\ ItemsCarried'
    BY <1>1, <1>3, <1>4 DEF IInv, UseInv, ItemsCarried, Carries
  <1> QED
    BY <1>4, <1>5, <1>6 DEF IInv

\* The event loop closes what nobody refers to any more.
LEMMA Finalizing ==
  ASSUME IInv, Finalizes
  PROVE  IInv'
  <1>1. UNCHANGED <<pull, batches, mergeVars, mapVars, untilVars, batchVars, useVars, given>>
    BY DEF Finalizes, Unused
  <1>2. UNCHANGED <<given, job, mapAt, untilAt, batchAt, use, out, last>>
    BY <1>1 DEF mergeVars, mapVars, untilVars, batchVars, useVars
  <1>3. \A c : ~Runs(c) => Asking(c, Closing)
    BY Plain DEF Asking
  <1>4. BatchInv' /\ UseInv'
    <2>1. taken' = taken \/ (batchAt = "over" /\ taken' = Closing)
      BY DEF Finalizes
    <2>2. taken' \in Calls(Values)
      BY <2>1, CallsAre, Shape
    <2>3. batchAt = "over" => BatchInv'
      BY <1>1, <2>2, SameCalls DEF IInv, BatchInv, B!TypeOK, B!BatchesFit, batchVars
    <2> QED
      BY <1>1, <1>2, <2>1, <2>3, BatchRests, UseRests, Shape DEF IInv
  <1>5. CASE /\ batchAt = "over" /\ ~Runs(taken) /\ taken' = Closing
             /\ UNCHANGED <<merged, mapped>>
    <2>1. UntilInv'
      BY <1>1, <1>2, <1>3, <1>5, CallsAre, UntilAsked DEF IInv
    <2>2. MergeInv' /\ MapInv' /\ Fresh'
      BY <1>1, <1>2, <1>5, MergeRests, MapRests, FreshRests, Shape DEF IInv
    <2>3. ItemsCarried'
      BY <1>1, <1>5, Plain DEF IInv, ItemsCarried, Carries
    <2> QED
      BY <1>4, <2>1, <2>2, <2>3 DEF IInv
  <1>6. CASE /\ untilAt = "over" /\ ~Runs(mapped) /\ mapped' = Closing
             /\ UNCHANGED <<merged, taken>>
    <2>1. MapInv'
      BY <1>1, <1>2, <1>3, <1>6, CallsAre, MapAsked DEF IInv
    <2>2. MergeInv' /\ Fresh'
      BY <1>1, <1>2, <1>6, MergeRests, FreshRests, Shape DEF IInv
    <2>3. UntilInv'
      BY <1>1, <1>2, <1>6, Plain, CallsAre, UntilRests DEF IInv
    <2>4. ItemsCarried'
      BY <1>1, <1>6, Plain DEF IInv, ItemsCarried, Carries
    <2> QED
      BY <1>4, <2>1, <2>2, <2>3, <2>4 DEF IInv
  <1>7. CASE /\ mapAt = "over" /\ ~Runs(merged) /\ merged' = Closing
             /\ UNCHANGED <<mapped, taken>>
    <2>1. MergeInv'
      BY <1>1, <1>2, <1>3, <1>7, CallsAre, MergeAsked DEF IInv
    <2>2. UntilInv'
      BY <1>1, <1>2, <1>7, UntilRests, Shape DEF IInv
    <2>3. MapInv'
      BY <1>1, <1>2, <1>7, Plain, CallsAre, MapRests DEF IInv
    <2>4. Fresh' /\ ItemsCarried'
      BY <1>1, <1>2, <1>7, Plain DEF IInv, Fresh, ItemsCarried, Carries
    <2> QED
      BY <1>4, <2>1, <2>2, <2>3, <2>4 DEF IInv
  <1> QED
    BY <1>5, <1>6, <1>7 DEF Finalizes

\* A feed answers; what it delivers is new.
LEMMA FeedsAnswer ==
  ASSUME IInv, NEW f \in Feeds, FeedAnswers(f)
  PROVE  IInv'
  <1>1. /\ pull[f].is = "asked"
        /\ UNCHANGED <<merged, mapped, taken, batches,
                       mergeVars, mapVars, untilVars, batchVars, useVars>>
    BY DEF FeedAnswers
  <1>2. UNCHANGED <<job, mapAt, untilAt, batchAt, use, out, last, mergeAt, mergeWalk, mergeExit>>
    BY <1>1 DEF mergeVars, mapVars, untilVars, batchVars, useVars
  <1>3. /\ pull \in [Feeds -> Calls(Values)]
        /\ given \in [Feeds -> Nat] /\ \A g \in Feeds : given[g] \in 0 .. Supply[g]
        /\ \A g \in Feeds : Supply[g] \in Nat
    BY Shape, PipelineAssumption DEF IInv, UseInv
  <1>4. PICK answer \in Calls(Values) :
          /\ pull' = [pull EXCEPT ![f] = answer]
          /\ Landed(answer)
          /\ \/ /\ given[f] < Supply[f]
                /\ given' = [given EXCEPT ![f] = @ + 1]
                /\ answer.is = "item" /\ answer.of = <<f, given[f] + 1>>
             \/ answer.is # "item" /\ given' = given
    <2>1. CASE /\ given[f] < Supply[f]
               /\ given' = [given EXCEPT ![f] = @ + 1]
               /\ pull' = [pull EXCEPT ![f] = Item(<<f, given[f] + 1>>)]
      <3>1. <<f, given[f] + 1>> \in Values
        BY <1>3, <2>1, ValuesAre
      <3>2. /\ Item(<<f, given[f] + 1>>) \in Calls(Values)
            /\ Item(<<f, given[f] + 1>>).is = "item"
            /\ Item(<<f, given[f] + 1>>).of = <<f, given[f] + 1>>
        <4>1. \A v \in Values : Item(v) \in Calls(Values) /\ Item(v).is = "item" /\ Item(v).of = v
          BY CallsAre
        <4> QED
          BY <3>1, <4>1
      <3>3. Landed(Item(<<f, given[f] + 1>>))
        BY <3>2 DEF Landed, Answers
      <3> QED
        BY <2>1, <3>2, <3>3
    <2>2. CASE \E how \in {"stop", "error", "cancelled"} :
                 pull' = [pull EXCEPT ![f] = Answer(how)] /\ given' = given
      <3>1. PICK how \in {"stop", "error", "cancelled"} :
              pull' = [pull EXCEPT ![f] = Answer(how)] /\ given' = given
        BY <2>2
      <3>2. Answer(how) \in Calls(Values) /\ Answer(how).is = how
        BY CallsAre
      <3>3. Landed(Answer(how))
        BY <3>2 DEF Landed, Answers
      <3> QED
        BY <3>1, <3>2, <3>3
    <2> QED
      BY <2>1, <2>2 DEF FeedAnswers
  <1>5. \A g \in Feeds : pull'[g] = IF g = f THEN answer ELSE pull[g]
    BY <1>3, <1>4
  <1>6. /\ given' \in [Feeds -> Nat]
        /\ \A g \in Feeds : given'[g] \in 0 .. Supply[g] /\ given[g] <= given'[g]
        /\ \A g \in Feeds : g # f => given'[g] = given[g]
        /\ answer.is = "item" => given'[f] = given[f] + 1
    BY <1>3, <1>4
  <1>7. MergeInv'
    <2>1. pull' \in [Feeds -> Calls(Values)]
      BY <1>3, <1>4
    <2>2. \A g \in Feeds : Landed(pull[g]) => Landed(pull'[g])
      BY <1>4, <1>5
    <2>3. \A g \in Feeds : Runs(pull'[g]) => Runs(pull[g])
      BY <1>4, <1>5 DEF Landed, Answers, Runs
    <2>4. \A g \in Feeds : pull[g] = Quiet => pull'[g] = Quiet
      BY <1>1, <1>5, Plain
    <2> QED
      BY <1>1, <1>2, <2>1, <2>2, <2>3, <2>4, SameCalls, PipelineAssumption
      DEF IInv, MergeInv, M!TypeOK, M!NobodyLeft, M!Done
  <1>8. Fresh'
    <2>1. ASSUME NEW v \in Values, job[v] # "none"
          PROVE  v[2] <= given'[v[1]] /\ (pull'[v[1]].is = "item" => v[2] < given'[v[1]])
      <3>1. v[1] \in Feeds /\ v[2] \in Nat /\ v[2] <= given[v[1]]
        BY <2>1, ValuesAre DEF IInv, Fresh
      <3>2. given[v[1]] \in Nat /\ given'[v[1]] \in Nat /\ given[v[1]] <= given'[v[1]]
        BY <1>3, <1>6, <3>1
      <3>3. CASE v[1] = f
        BY <1>5, <1>6, <3>1, <3>2, <3>3
      <3>4. CASE v[1] # f
        BY <1>5, <1>6, <2>1, <3>1, <3>2, <3>4 DEF IInv, Fresh
      <3> QED
        BY <3>3, <3>4
    <2>2. ASSUME merged.is = "item"
          PROVE  job[merged.of] = "none" /\ merged.of[2] <= given'[last]
      <3>1. /\ merged.of \in Values /\ last = merged.of[1] /\ job[merged.of] = "none"
            /\ merged.of[2] <= given[last]
        BY <2>2 DEF IInv, Fresh, MergeInv, ItemsCarried, Carries
      <3>2. last \in Feeds /\ merged.of[2] \in Nat
        BY <3>1, ValuesAre
      <3> QED
        BY <1>3, <1>6, <3>1, <3>2
    <2> QED
      BY <1>1, <1>2, <2>1, <2>2 DEF Fresh
  <1>9. ItemsCarried'
    <2>1. ASSUME NEW g \in Feeds, pull'[g].is = "item"
          PROVE  given'[g] # 0 /\ pull'[g].of = <<g, given'[g]>>
      <3>1. CASE g = f
        BY <1>3, <1>4, <1>5, <1>6, <2>1, <3>1
      <3>2. CASE g # f
        BY <1>5, <1>6, <2>1, <3>2 DEF IInv, ItemsCarried
      <3> QED
        BY <3>1, <3>2
    <2> QED
      BY <1>1, <2>1 DEF IInv, ItemsCarried, Carries
  <1>10. UseInv'
    BY <1>1, <1>2, <1>6 DEF IInv, UseInv
  <1> QED
    BY <1>1, <1>2, <1>7, <1>8, <1>9, <1>10, MapRests, UntilRests, BatchRests, Shape DEF IInv

-----------------------------------------------------------------------------
(* What holds of every run *)

LEMMA Starting ==
  ASSUME Init
  PROVE  IInv
  <1>1. /\ merged = Quiet /\ mapped = Quiet /\ taken = Quiet /\ batches = Quiet
        /\ pull = [f \in Feeds |-> Quiet]
        /\ mergeAt = "new" /\ mergeWalk = {} /\ last = Nothing /\ mergeExit = "none"
        /\ mapAt = "new" /\ in_flight = <<>> /\ head = Nothing /\ torn = {} /\ exhausted = FALSE
        /\ ordered \in Orders /\ job = [v \in Values |-> "none"]
        /\ mapWalk = {} /\ mapExit = "none"
        /\ untilAt = "new" /\ event = FALSE /\ stop = "none" /\ untilExit = "none"
        /\ batchAt = "new" /\ batch = <<>> /\ timed \in Timeouts /\ ending = FALSE
        /\ use = "new" /\ out = <<>> /\ given = [f \in Feeds |-> 0]
    BY SameCalls DEF Init, M!Init, A!Init, T!Init, B!Init
  <1>2. /\ \A f \in Feeds : pull[f] = Quiet
        /\ pull \in [Feeds -> Calls(Values)]
    BY <1>1, CallsAre
  <1>3. MergeInv
    BY <1>1, <1>2, SameCalls, CallsAre, Plain
    DEF MergeInv, M!TypeOK, M!NobodyLeft
  <1>4. MapInv
    <2>1. A!Held = <<>> /\ ToSet(<<>>) = {} /\ IsInjective(<<>>) /\ Len(<<>>) = 0 /\ <<>> \in Seq(Values)
      BY <1>1 DEF A!Held, ToSet, IsInjective
    <2>2. A!Working = {} /\ job \in [Values -> {"none", "running", "ok", "error", "cancelled"}]
      BY <1>1 DEF A!Working
    <2>3. Concurrency \in Nat \ {0} /\ Orders \subseteq BOOLEAN
      BY PipelineAssumption DEF A!MapAssumption
    <2>4. A!TypeOK
      BY <1>1, <2>1, <2>2, <2>3, SameCalls, SameSequences, CallsAre DEF A!TypeOK, A!InFlight
    <2> QED
      BY <1>1, <2>1, <2>2, <2>3, <2>4, Plain DEF MapInv
  <1>5. UntilInv
    BY <1>1, SameCalls, CallsAre, Plain DEF UntilInv, T!TypeOK
  <1>6. BatchInv
    <2>1. <<>> \in Seq(Values) /\ Len(<<>>) = 0 /\ Size \in Nat \ {0} /\ Timeouts \subseteq BOOLEAN
      BY PipelineAssumption DEF B!BatcherAssumption
    <2>2. Quiet \in Calls(Values) /\ Quiet \in Calls(Seq(Values))
      BY CallsAre
    <2>3. Quiet \in B!Calls(Values) /\ Quiet \in B!Calls(Seq(Values))
      BY <2>2, SameCalls
    <2>4. B!TypeOK
      <3>1. batch \in Seq(Values) /\ Len(batch) < Size
        BY <1>1, <2>1
      <3>2. timed \in BOOLEAN /\ ending \in BOOLEAN
        BY <1>1, <2>1, Zenon
      <3> QED
        BY <1>1, <2>3, <3>1, <3>2 DEF B!TypeOK
    <2> QED
      BY <1>1, <2>4, Plain DEF BatchInv, B!BatchesFit
  <1>7. UseInv
    <2>1. \A f \in Feeds : Supply[f] \in Nat
      BY PipelineAssumption
    <2> QED
      BY <1>1, <2>1 DEF UseInv
  <1>8. ItemsCarried /\ Fresh
    BY <1>1, <1>2, Plain DEF ItemsCarried, Carries, Fresh
  <1> QED
    BY <1>3, <1>4, <1>5, <1>6, <1>7, <1>8 DEF IInv

LEMMA Stutters ==
  ASSUME IInv, UNCHANGED vars
  PROVE  IInv'
  <1>1. /\ UNCHANGED <<pull, merged, mapped, taken, batches,
                       mergeVars, mapVars, untilVars, batchVars, given>>
        /\ UNCHANGED <<job, mapAt, untilAt, batchAt, use, out, last>>
    BY DEF vars, mergeVars, mapVars, untilVars, batchVars, useVars
  <1>2. MergeInv' /\ MapInv' /\ UntilInv' /\ BatchInv' /\ Fresh' /\ UseInv'
    BY <1>1, MergeRests, MapRests, UntilRests, BatchRests, FreshRests, UseRests, Shape DEF IInv
  <1> QED
    BY <1>1, <1>2 DEF IInv, ItemsCarried, Carries

LEMMA Invariance == Spec => []IInv
  <1>1. Init => IInv
    BY Starting
  <1>2. ASSUME IInv, [Next]_vars PROVE IInv'
    <2>1. ASSUME NEW v \in torn, FnEnds(v) PROVE IInv'
      <3>1. v \in Values
        BY <1>2 DEF IInv, MapInv, A!TypeOK
      <3> QED
        BY <1>2, <2>1, <3>1, FnEnding
    <2> QED
      BY <1>2, <2>1, MergeTurns, MapTurns, FnEnding, UntilTurns, BatchTurns, UseTurns,
         Finalizing, FeedsAnswer, Stutters DEF Next, Progress
  <1> QED
    BY <1>1, <1>2, PTL DEF Spec

\* Every variable of the pipeline keeps its type: no feed delivers more than it
\* has, an item is in flight once, a source is asked once at a time, and a batch
\* that is being gathered is never full.
THEOREM TypeCorrect == Spec => []TypesOK
  <1>1. IInv => TypesOK
    BY DEF IInv, MergeInv, MapInv, UntilInv, BatchInv, UseInv, TypesOK
  <1> QED
    BY <1>1, Invariance, PTL

\* batched ends once, and cancels its read then.
LEMMA BatchLeaves ==
  ASSUME B!Step \/ B!Expires
  PROVE  /\ batchAt # "over"
         /\ batchAt' = "over" => taken' = IF Landed(taken) THEN Quiet ELSE Cancelled(taken)
  BY SameCalls
  DEF B!Step, B!Expires, B!Continues, B!Waits, B!Spins, B!Gathers, B!SourceStops, B!SourceFails,
      B!SourceTimesOut, B!Closes, B!PassesOn, B!Thrown, B!Ready, B!Yields, B!Ends

\* take_until takes notice of a cancellation before it does anything else.
LEMMA UntilHeeds ==
  ASSUME UntilInv, ReadCancelled, batchAt = "over", T!Step
  PROVE  taken'.is # "asked" \/ taken'.killed \/ untilAt' = "unwinding"
  <1>1. \A how : Answer(how).is = how /\ \A v : Item(v).is = "item"
    BY DEF Answer, Call, Item
  <1>2. taken.is # "asked" \/ taken.killed \/ untilAt = "unwinding"
    BY DEF ReadCancelled
  <1>3. CASE T!StopEnds
    BY <1>2, <1>3 DEF T!StopEnds
  <1>4. CASE T!Continues
    BY <1>2, <1>4, SameCalls, Plain DEF T!Continues
  <1>5. CASE T!NeverStarts
    BY <1>1, <1>5, SameCalls DEF T!NeverStarts
  <1>6. CASE T!Lands
    <2>1. taken' = Item(mapped.of) \/ \E how \in {"stop", "error", "cancelled"} : taken' = Answer(how)
      BY <1>6, SameCalls DEF T!Lands, T!Ends
    <2> QED
      BY <1>1, <2>1
  <1>7. CASE T!Stops \/ T!Thrown \/ T!ThrownAgain
    BY <1>7 DEF T!Stops, T!Thrown, T!ThrownAgain, T!Leaves
  <1>8. CASE T!Closes
    BY <1>1, <1>8, SameCalls DEF T!Closes, T!Ends
  <1>9. CASE T!Unwound
    <2>1. untilExit \in {"none", "stop", "cancelled"}
      BY DEF UntilInv, T!TypeOK
    <2> QED
      BY <1>1, <1>9, <2>1, SameCalls DEF T!Unwound
  <1> QED
    BY <1>3, <1>4, <1>5, <1>6, <1>7, <1>8, <1>9 DEF T!Step

LEMMA ReadStays ==
  ASSUME IInv, ReadCancelled, [Next]_vars
  PROVE  ReadCancelled'
  <1>1. ASSUME UNCHANGED <<taken, batchVars, untilVars>> PROVE ReadCancelled'
    BY <1>1 DEF ReadCancelled, batchVars, untilVars
  <1>2. CASE BatchTurn \/ Expires
    <2>1. B!Step \/ B!Expires
      BY <1>2 DEF BatchTurn, Expires
    <2>2. batchAt' = "over" => taken' = Quiet \/ taken' = Cancelled(taken)
      BY <2>1, BatchLeaves
    <2>3. Cancelled(taken).is = "asked" => Cancelled(taken).killed
      BY Shape DEF Cancelled, Calls
    <2> QED
      BY <2>2, <2>3, Plain DEF ReadCancelled
  <1>3. CASE UntilTurn
    <2>1. T!Step /\ batchAt' = batchAt
      BY <1>3 DEF UntilTurn, batchVars
    <2> QED
      BY <2>1, UntilHeeds DEF ReadCancelled, IInv
  <1>4. CASE SetEvent
    BY <1>4 DEF SetEvent, T!Set, batchVars, ReadCancelled
  <1>5. CASE Finalizes
    <2>1. taken' = taken \/ taken' = Closing
      BY <1>5 DEF Finalizes
    <2>2. UNCHANGED <<batchAt, untilAt>>
      BY <1>5 DEF Finalizes, Unused, batchVars, untilVars
    <2> QED
      BY <2>1, <2>2, Plain DEF ReadCancelled
  <1>6. CASE MergeTurn \/ MapTurn \/ CollectTurn \/ CancelCollect \/ UNCHANGED vars
    BY <1>1, <1>6 DEF MergeTurn, MapTurn, CollectTurn, CancelCollect, vars
  <1>7. ASSUME NEW v, FeedAnswers(v) \/ FnEnds(v) PROVE ReadCancelled'
    BY <1>1, <1>7 DEF FeedAnswers, FnEnds
  <1> QED
    BY <1>2, <1>3, <1>4, <1>5, <1>6, <1>7 DEF Next, Progress

\* When a generator ends, by its end, an exception, a cancellation or aclose, the
\* tasks it has made have ended, whatever the others do: the finally of merge,
\* amap and take_until leaves nothing behind.  What the finally of batched leaves
\* is one read at most, cancelled, and take_until heeds that before all else.
THEOREM EndsClean == Spec => []NobodyLeft
  <1>1. ASSUME IInv, ReadCancelled PROVE NobodyLeft
    <2>1. mapAt = "over" => A!Working = {}
      <3>1. mapAt = "over" => A!Held = <<>>
        BY <1>1 DEF IInv, MapInv, A!Held
      <3> QED
        BY <1>1, <3>1 DEF IInv, MapInv, ToSet
    <2>2. A!NobodyLeft
      BY <1>1, <2>1 DEF IInv, MapInv, A!NobodyLeft
    <2>3. M!NobodyLeft /\ T!NobodyLeft
      BY <1>1 DEF IInv, MergeInv, UntilInv, T!NobodyLeft
    <2> QED
      BY <1>1, <2>2, <2>3 DEF NobodyLeft
  <1>2. Init => ReadCancelled
    BY DEF Init, B!Init, ReadCancelled
  <1>3. IInv /\ ReadCancelled /\ [Next]_vars => ReadCancelled'
    BY ReadStays
  <1> QED
    BY <1>1, <1>2, <1>3, Invariance, PTL DEF Spec

\* amap never works on more than `concurrency` items, the one it has popped and
\* awaits among them, and batched hands on between one and `size` items at a time.
THEOREM Bounds == Spec => []WithinBounds
  <1>1. ASSUME IInv PROVE WithinBounds
    <2>1. A!Held \in Seq(Values) /\ Len(A!Held) <= Concurrency /\ A!Working \subseteq ToSet(A!Held)
      <3>1. in_flight \in Seq(Values) /\ head \in Values \cup {Nothing}
        BY <1>1 DEF IInv, MapInv, A!TypeOK
      <3>2. A!Held \in Seq(Values)
        BY <3>1, PushFacts DEF A!Held
      <3> QED
        BY <1>1, <3>2 DEF IInv, MapInv
    <2>2. Len(A!Held) \in Nat /\ Concurrency \in Nat
      BY <2>1, PipelineAssumption DEF A!MapAssumption
    <2>3. Cardinality(A!Working) \in Nat /\ Cardinality(A!Working) <= Len(A!Held)
      BY <2>1, SizeFits
    <2>4. A!BoundedFlight
      <3>1. \A S : A!Cardinality(S) = Cardinality(S)
        BY DEF A!Cardinality, Cardinality
      <3>2. Cardinality(A!Working) <= Concurrency
        BY <2>1, <2>2, <2>3
      <3> QED
        BY <3>1, <3>2 DEF A!BoundedFlight
    <2> QED
      BY <1>1, <2>4 DEF IInv, BatchInv, WithinBounds
  <1> QED
    BY <1>1, Invariance, PTL

-----------------------------------------------------------------------------
(* Streams *)

\* What is inside a stream that takes an item from each of some sources.
Folding(calls, inside, taking) == FoldSet(LAMBDA x, held : Append(held, calls[x].of), inside, taking)

LEMMA FoldingNone ==
  ASSUME NEW calls, NEW inside
  PROVE  Folding(calls, inside, {}) = inside
  BY DEF Folding, FoldSet, MapThenFoldSet

LEMMA FoldingOne ==
  ASSUME NEW calls, NEW inside, NEW x
  PROVE  Folding(calls, inside, {x}) = Append(inside, calls[x].of)
  <1> DEFINE First(q) == CHOOSE y \in q : TRUE
             Once(it) == [q \in SUBSET {x} |->
                            IF q = {} THEN inside ELSE Append(it[q \ {First(q)}], calls[First(q)].of)]
             fold == CHOOSE it : it = Once(it)
             sum == [q \in SUBSET {x} |-> IF q = {} THEN inside ELSE Append(inside, calls[x].of)]
  <1>1. SUBSET {x} = {{}, {x}} /\ First({x}) = x /\ {x} \ {x} = {} /\ {x} # {}
    OBVIOUS
  <1>2. sum[{}] = inside /\ sum[{x}] = Append(inside, calls[x].of)
    BY <1>1
  <1>3. Once(sum) = sum
    <2>1. Once(sum)[{}] = inside /\ Once(sum)[{x}] = Append(sum[{}], calls[x].of)
      <3>1. {} \in SUBSET {x} /\ {x} \in SUBSET {x}
        OBVIOUS
      <3> QED
        BY <1>1, <3>1
    <2>2. \A q \in SUBSET {x} : q = {} \/ q = {x}
      OBVIOUS
    <2>3. \A q \in SUBSET {x} : Once(sum)[q] = sum[q]
      BY <1>2, <2>1, <2>2
    <2> QED
      BY <2>3
  <1>4. fold = Once(fold)
    BY <1>3
  <1>5. fold[{}] = inside
    BY <1>1, <1>4
  <1>6. fold[{x}] = Append(inside, calls[x].of)
    <2>1. Once(fold)[{x}] = Append(fold[{}], calls[x].of)
      <3>1. {x} \in SUBSET {x}
        OBVIOUS
      <3> HIDE DEF fold
      <3> QED
        BY <1>1, <3>1
    <2> HIDE DEF fold, Once
    <2> QED
      BY <1>4, <1>5, <2>1
  <1>7. Folding(calls, inside, {x}) = fold[{x}]
    BY DEF Folding, FoldSet, MapThenFoldSet
  <1> QED
    BY <1>6, <1>7

LEMMA StreamsTake ==
  /\ MergeStream!Now = Folding(pull, <<>>, MergeStream!Takes)
  /\ MapStream!Now = Folding(Only(merged), A!Held, MapStream!Takes)
  /\ UntilStream!Now = Folding(Only(mapped), <<>>, UntilStream!Takes)
  /\ BatchStream!Now = Folding(Only(taken), batch, BatchStream!Takes)
  BY DEF MergeStream!Now, MergeStream!FoldSet, MergeStream!MapThenFoldSet,
         MapStream!Now, MapStream!FoldSet, MapStream!MapThenFoldSet,
         UntilStream!Now, UntilStream!FoldSet, UntilStream!MapThenFoldSet,
         BatchStream!Now, BatchStream!FoldSet, BatchStream!MapThenFoldSet,
         Folding, FoldSet, MapThenFoldSet

\* What is inside a stage after a step that takes an item from its source, and
\* after one that does not.
LEMMA MapTakes ==
  /\ merged.is = "item" /\ merged' # merged => MapStream!Now = Append(A!Held, merged.of)
  /\ merged.is # "item" \/ merged' = merged => MapStream!Now = A!Held
  <1>1. Only(merged)["source"] = merged /\ Only(merged)' = Only(merged') /\ Only(merged')["source"] = merged'
    BY DEF Only
  <1>2. MapStream!Takes = IF merged.is = "item" /\ merged' # merged THEN {"source"} ELSE {}
    BY <1>1 DEF MapStream!Takes
  <1>3. CASE MapStream!Takes = {"source"}
    <2>1. Folding(Only(merged), A!Held, {"source"}) = Append(A!Held, Only(merged)["source"].of)
      BY FoldingOne
    <2> QED
      BY <1>1, <1>2, <1>3, <2>1, StreamsTake
  <1>4. CASE MapStream!Takes = {}
    <2>1. Folding(Only(merged), A!Held, {}) = A!Held
      BY FoldingNone
    <2> QED
      BY <1>2, <1>4, <2>1, StreamsTake
  <1> QED
    BY <1>2, <1>3, <1>4

LEMMA UntilTakes ==
  /\ mapped.is = "item" /\ mapped' # mapped => UntilStream!Now = Append(<<>>, mapped.of)
  /\ mapped.is # "item" \/ mapped' = mapped => UntilStream!Now = <<>>
  <1>1. Only(mapped)["source"] = mapped /\ Only(mapped)' = Only(mapped') /\ Only(mapped')["source"] = mapped'
    BY DEF Only
  <1>2. UntilStream!Takes = IF mapped.is = "item" /\ mapped' # mapped THEN {"source"} ELSE {}
    BY <1>1 DEF UntilStream!Takes
  <1>3. CASE UntilStream!Takes = {"source"}
    <2>1. Folding(Only(mapped), <<>>, {"source"}) = Append(<<>>, Only(mapped)["source"].of)
      BY FoldingOne
    <2> QED
      BY <1>1, <1>2, <1>3, <2>1, StreamsTake
  <1>4. CASE UntilStream!Takes = {}
    <2>1. Folding(Only(mapped), <<>>, {}) = <<>>
      BY FoldingNone
    <2> QED
      BY <1>2, <1>4, <2>1, StreamsTake
  <1> QED
    BY <1>2, <1>3, <1>4

LEMMA BatchTakes ==
  /\ taken.is = "item" /\ taken' # taken => BatchStream!Now = Append(batch, taken.of)
  /\ taken.is # "item" \/ taken' = taken => BatchStream!Now = batch
  <1>1. Only(taken)["source"] = taken /\ Only(taken)' = Only(taken') /\ Only(taken')["source"] = taken'
    BY DEF Only
  <1>2. BatchStream!Takes = IF taken.is = "item" /\ taken' # taken THEN {"source"} ELSE {}
    BY <1>1 DEF BatchStream!Takes
  <1>3. CASE BatchStream!Takes = {"source"}
    <2>1. Folding(Only(taken), batch, {"source"}) = Append(batch, Only(taken)["source"].of)
      BY FoldingOne
    <2> QED
      BY <1>1, <1>2, <1>3, <2>1, StreamsTake
  <1>4. CASE BatchStream!Takes = {}
    <2>1. Folding(Only(taken), batch, {}) = batch
      BY FoldingNone
    <2> QED
      BY <1>2, <1>4, <2>1, StreamsTake
  <1> QED
    BY <1>2, <1>3, <1>4

LEMMA MergeTakesNone ==
  ASSUME \A f \in Feeds : pull[f].is = "item" => pull'[f] = pull[f]
  PROVE  MergeStream!Now = <<>>
  <1>1. MergeStream!Takes = {}
    BY DEF MergeStream!Takes
  <1> QED
    BY <1>1, StreamsTake, FoldingNone

LEMMA MergeTakesOne ==
  ASSUME NEW s \in Feeds, pull[s].is = "item", pull'[s] # pull[s],
         \A f \in Feeds : f # s => pull'[f] = pull[f]
  PROVE  MergeStream!Now = Append(<<>>, pull[s].of)
  <1>1. MergeStream!Takes = {s}
    BY DEF MergeStream!Takes
  <1> QED
    BY <1>1, StreamsTake, FoldingOne

\* What the sources of a stage may tell it.
LEMMA Stoppings ==
  /\ MergeStream!Stopping = {f \in Feeds : pull[f].is = "stop"}
  /\ MapStream!Stopping = IF merged.is = "stop" THEN {"source"} ELSE {}
  /\ UntilStream!Stopping = IF mapped.is = "stop" THEN {"source"} ELSE {}
  /\ BatchStream!Stopping = IF taken.is = "stop" THEN {"source"} ELSE {}
  BY DEF MergeStream!Stopping, MapStream!Stopping, UntilStream!Stopping, BatchStream!Stopping, Only

\* A caller never says "item" or "stop".
LEMMA AskingSays ==
  ASSUME NEW c, NEW d, Asking(c, d)
  PROVE  ~(c.is # "item" /\ d.is = "item") /\ ~(c.is # "stop" /\ d.is = "stop")
  BY DEF Asking, Landed, Answers

\* A step of the others passes a stage by, if it leaves an item for it where it is.
LEMMA MergeBeside ==
  ASSUME \A f \in Feeds : pull'[f] = pull[f] \/ (pull[f].is = "asked" /\ Landed(pull'[f])),
         Asking(merged, merged'), UNCHANGED mergeVars
  PROVE  MergeStream!Next
  <1>1. MergeStream!Now = <<>>
    BY MergeTakesNone
  <1>2. \A f \in Feeds : pull'[f] = Quiet <=> pull[f] = Quiet
    BY Plain
  <1>3. {f \in Feeds \ {last'} : pull'[f] = Quiet} = {f \in Feeds \ {last} : pull[f] = Quiet}
    BY <1>2 DEF mergeVars
  <1>4. MergeStream!Passes
    BY <1>1, <1>3, AskingSays, SameCalls
    DEF MergeStream!Passes, MergeStream!Says, MergeStream!Learns, mergeVars
  <1> QED
    BY <1>4 DEF MergeStream!Next

LEMMA MapBeside ==
  ASSUME merged.is = "item" => merged' = merged, Asking(mapped, mapped'), UNCHANGED mapVars
  PROVE  MapStream!Next
  <1>1. A!Held' = A!Held
    BY DEF A!Held, mapVars
  <1>2. MapStream!Passes
    BY <1>1, MapTakes, AskingSays DEF MapStream!Passes, MapStream!Says, MapStream!Learns, mapVars
  <1> QED
    BY <1>2 DEF MapStream!Next

LEMMA UntilBeside ==
  ASSUME mapped.is = "item" => mapped' = mapped, Asking(taken, taken'), UNCHANGED untilAt
  PROVE  UntilStream!Next
  <1>1. UntilStream!Passes
    BY UntilTakes, AskingSays DEF UntilStream!Passes, UntilStream!Says, UntilStream!Learns
  <1> QED
    BY <1>1 DEF UntilStream!Next

LEMMA BatchBeside ==
  ASSUME taken.is = "item" => taken' = taken, Asking(batches, batches'), UNCHANGED batchVars
  PROVE  BatchStream!Next
  <1>1. BatchStream!Passes
    BY BatchTakes, AskingSays DEF BatchStream!Passes, BatchStream!Says, BatchStream!Learns, batchVars
  <1> QED
    BY <1>1 DEF BatchStream!Next

\* No item waits for a generator that does not ask for one.
Fed ==
  /\ mergeAt = "new" => \A f \in Feeds : pull[f] = Quiet
  /\ mapAt \notin {"filling", "over"} => merged.is # "item"
  /\ untilAt \in {"new", "yielding"} => mapped.is # "item"

Kept == IInv /\ Fed

LEMMA MergeStarted ==
  ASSUME M!Step
  PROVE  mergeAt' # "new"
  BY DEF M!Step, M!Begin, M!Lands, M!GoesOn, M!Resumes, M!Closes, M!Thrown, M!ThrownAgain,
         M!Unwound, M!Walks, M!Yields, M!Leaves

\* What amap does to its call of merge.
LEMMA MapAsks ==
  ASSUME Kept, A!Step
  PROVE  /\ Asking(merged, merged')
         /\ merged.is = "item" /\ merged' # merged => mapAt = "filling"
         /\ mapAt' \notin {"filling", "over"} => merged'.is # "item"
  <1>1. /\ mapAt # "filling" => merged.is # "asked"
        /\ mapAt # "over" => merged.is # "closing"
        /\ mapAt \notin {"filling", "over"} => merged.is # "item"
    BY DEF Kept, IInv, MergeInv, MapInv, Fed
  <1>2. CASE merged' \in {Asked, Quiet} /\ ~Runs(merged) /\ mapAt # "over"
    BY <1>1, <1>2, Plain DEF Asking
  <1>3. CASE merged' = merged /\ mapAt \notin {"filling", "over"}
    BY <1>1, <1>3 DEF Asking
  <1>4. CASE A!PassesOn /\ mapAt = "filling"
    <2>1. merged.is = "asked" /\ merged' = Cancelled(merged) /\ mapAt' = "filling"
      BY <1>4, SameCalls DEF A!PassesOn
    <2> QED
      BY <2>1, CallsAre, Shape DEF Kept, Asking
  <1>5. A!Proceeds(in_flight, exhausted) \/ A!Proceeds(in_flight, TRUE)
          \/ A!Proceeds(Append(in_flight, merged.of), exhausted) => merged' \in {Asked, Quiet}
    BY SameCalls DEF A!Proceeds
  <1>6. \A how, flight : A!Leaves(how, flight) => merged' = Quiet
    BY SameCalls DEF A!Leaves
  <1>7. CASE A!Continues \/ A!Fills \/ A!Exhausts
    BY <1>1, <1>2, <1>5, <1>7 DEF A!Continues, A!Fills, A!Exhausts, Runs
  <1>8. CASE A!FillFails \/ A!Closes \/ A!Thrown
    BY <1>1, <1>2, <1>6, <1>8 DEF A!FillFails, A!Closes, A!Thrown, Runs
  <1>9. CASE A!HeadArrives \/ \E v \in Values : A!Walks(v)
    BY <1>1, <1>2, <1>3, <1>6, <1>9 DEF A!HeadArrives, A!Walks, Runs
  <1>10. CASE A!Lands \/ A!NeverStarts \/ A!ThrownAgain \/ A!Unwound
    BY <1>3, <1>10 DEF A!Lands, A!NeverStarts, A!ThrownAgain, A!Unwound
  <1>11. CASE A!PassesOn /\ mapAt # "filling"
    BY <1>3, <1>11 DEF A!PassesOn
  <1> QED
    BY <1>4, <1>7, <1>8, <1>9, <1>10, <1>11 DEF A!Step

\* Nor does one come to it in a step of its own.
LEMMA UntilAsks ==
  ASSUME T!Step
  PROVE  untilAt' \in {"new", "yielding"} /\ untilAt' # untilAt => mapped'.is # "item"
  <1>1. CASE T!Lands
    BY <1>1, SameCalls, Plain DEF T!Lands, T!Ends
  <1> QED
    BY <1>1 DEF T!Step, T!StopEnds, T!Continues, T!AsksOrEnds, T!NeverStarts, T!Ends, T!Stops,
       T!Leaves, T!Thrown, T!ThrownAgain, T!Unwound, T!Closes

LEMMA UntilTakesWhile ==
  ASSUME Kept, T!Step
  PROVE  mapped.is = "item" /\ mapped' # mapped => untilAt \in {"waiting", "unwinding"}
  BY DEF Kept, Fed, T!Step, T!StopEnds, T!Continues, T!AsksOrEnds, T!NeverStarts, T!Ends, T!Lands, T!Stops,
         T!Leaves, T!Thrown, T!ThrownAgain, T!Unwound, T!Closes

LEMMA FedStays ==
  ASSUME Kept, [Next]_vars
  PROVE  Fed'
  <1>1. \A c, d : Answering(c, d) /\ d.is = "item" => c.is = "item" \/ Runs(c)
    BY DEF Answering
  <1>2. IInv /\ Fed /\ MapSide /\ UntilSide /\ BatchSide
    BY MapSided, UntilSided, BatchSided DEF Kept
  <1>3. /\ mapAt \notin {"filling", "over"} => ~Runs(merged)
        /\ untilAt \in {"new", "yielding"} => ~Runs(mapped)
    BY <1>2 DEF IInv, MergeInv, MapInv, UntilInv, Runs
  <1>4. CASE MergeTurn
    <2>1. M!Step /\ UNCHANGED <<mapped, mapAt, untilAt, given, job>>
      BY <1>4 DEF MergeTurn, mapVars, untilVars
    <2>2. Answering(merged, merged')
      BY <1>2, <2>1, MergeSteps DEF IInv, MergeSide, ItemsCarried, UseInv
    <2> QED
      BY <1>1, <1>2, <1>3, <2>1, <2>2, MergeStarted DEF Fed
  <1>5. CASE MapTurn
    <2>1. A!Step /\ UNCHANGED <<pull, mergeAt, untilAt>> /\ MapStep
      BY <1>2, <1>5 DEF MapTurn, mergeVars, untilVars, MapStep
    <2>2. Answering(mapped, mapped')
      BY <2>1, MapSteps DEF MapDone, MapKept
    <2> QED
      BY <1>1, <1>2, <1>3, <2>1, <2>2, MapAsks DEF Fed, Kept
  <1>6. CASE UntilTurn
    <2>1. T!Step /\ UNCHANGED <<pull, merged, mergeAt, mapAt>> /\ UntilStep
      BY <1>2, <1>6 DEF UntilTurn, mergeVars, mapVars, batchVars, UntilStep
    <2>2. Asking(mapped, mapped')
      BY <2>1, UntilSteps DEF UntilKept
    <2> QED
      BY <1>2, <2>1, <2>2, UntilAsks, AskingSays DEF Fed
  <1>7. ASSUME NEW f \in Feeds, FeedAnswers(f) PROVE Fed'
    <2>1. pull[f].is = "asked" /\ UNCHANGED <<merged, mapped, mergeAt, mapAt, untilAt>>
      BY <1>7 DEF FeedAnswers, mergeVars, mapVars, untilVars
    <2> QED
      BY <1>2, <2>1, Plain DEF Fed
  <1>8. CASE Finalizes
    <2>1. /\ merged' \in {merged, Closing} /\ mapped' \in {mapped, Closing}
          /\ UNCHANGED <<pull, mergeAt, mapAt, untilAt>>
      BY <1>8 DEF Finalizes, Unused, mergeVars, mapVars, untilVars
    <2> QED
      BY <1>2, <2>1, Plain DEF Fed
  <1>9. CASE BatchTurn \/ CollectTurn \/ Expires \/ SetEvent \/ CancelCollect \/ UNCHANGED vars
    <2>1. UNCHANGED <<pull, merged, mapped, mergeAt, mapAt, untilAt>>
      BY <1>9 DEF BatchTurn, CollectTurn, Expires, SetEvent, T!Set, CancelCollect, vars, mergeVars, mapVars, untilVars
    <2> QED
      BY <1>2, <2>1 DEF Fed
  <1>10. ASSUME NEW v, FnEnds(v) PROVE Fed'
    <2>1. UNCHANGED <<pull, merged, mapped, mergeAt, mapAt, untilAt>>
      BY <1>10 DEF FnEnds, A!JobEnds, mergeVars, untilVars
    <2> QED
      BY <1>2, <2>1 DEF Fed
  <1> QED
    BY <1>4, <1>5, <1>6, <1>7, <1>8, <1>9, <1>10 DEF Next, Progress

-----------------------------------------------------------------------------
(* merge is a stream *)

\* It breaks off for a reason, or is in its finally.
LEMMA MergeBreaks ==
  ASSUME mergeAt' \in {"unwinding", "over"},
         merged' = merged \/ merged'.is \in {"error", "cancelled", "closed"},
         \/ mergeAt \in {"unwinding", "over"}
         \/ merged.killed \/ merged.is = "closing"
         \/ \E f \in Feeds : pull[f].is \in {"error", "cancelled"}
  PROVE  MergeStream!Next
  <1>1. MergeStream!BreaksOff
    BY DEF MergeStream!BreaksOff, MergeStream!Says, MergeStream!Reason
  <1> QED
    BY <1>1 DEF MergeStream!Next

\* It asks, or looks around, or learns that a source has stopped.
LEMMA MergePasses ==
  ASSUME merged' = merged,
         \A f \in Feeds : pull[f].is = "item" => pull'[f] = pull[f],
         mergeAt \notin {"unwinding", "over"}, mergeAt' \notin {"unwinding", "over"}, mergeAt' # "new",
         mergeAt = "new" \/ {f \in Feeds \ {last} : pull[f] = Quiet} \subseteq
                               {f \in Feeds \ {last'} : pull'[f] = Quiet},
         \A f \in Feeds \ {last'} : pull'[f] = Quiet =>
           \/ pull[f].is = "stop"
           \/ mergeAt # "new" /\ f # last /\ pull[f] = Quiet
  PROVE  MergeStream!Next
  <1>1. MergeStream!Now = <<>>
    BY MergeTakesNone
  <1>2. MergeStream!Learns
    BY Stoppings, SameCalls DEF MergeStream!Learns
  <1>3. MergeStream!Passes
    BY <1>1, <1>2 DEF MergeStream!Passes, MergeStream!Says
  <1> QED
    BY <1>3 DEF MergeStream!Next

LEMMA MergeStreams ==
  ASSUME Kept, M!Step
  PROVE  MergeStream!Next
  <1>1. /\ pull \in [Feeds -> Calls(Values)]
        /\ mergeAt \in {"waiting", "walking", "unwinding"} => Runs(merged)
        /\ Nothing \notin Feeds
        /\ last \in Feeds \cup {Nothing} /\ (mergeAt = "yielding" <=> last # Nothing)
        /\ mergeAt = "yielding" => pull[last] = Quiet
        /\ mergeAt = "new" => \A f \in Feeds : pull[f] = Quiet
    BY SameCalls, PipelineAssumption DEF Kept, Fed, IInv, MergeInv, M!TypeOK
  <1>2. CASE M!Begin
    <2>1. /\ mergeAt = "new" /\ mergeAt' = "waiting" /\ merged' = merged
          /\ \A f \in Feeds : pull'[f] = Asked
      BY <1>2, SameCalls DEF M!Begin
    <2> QED
      BY <1>1, <2>1, Plain, MergePasses
  <1>3. CASE M!Lands
    BY <1>3, MergePasses DEF M!Lands
  <1>4. CASE M!GoesOn
    <2>1. CASE M!Pending # {}
      BY <1>4, <2>1, MergePasses DEF M!GoesOn
    <2>2. CASE M!Pending = {}
      <3>1. /\ mergeAt = "walking" /\ merged' = Answer("stop") /\ mergeAt' = "over"
            /\ pull' = pull /\ last = Nothing
        BY <1>1, <1>4, <2>2, SameCalls DEF M!GoesOn
      <3>2. \A f \in Feeds : pull[f] = Quiet
        BY <2>2, SameCalls DEF M!Pending
      <3>3. {f \in Feeds \ {last} : pull[f] = Quiet} = Feeds
        BY <1>1, <3>1, <3>2
      <3>4. MergeStream!Now = <<>>
        BY <3>1, MergeTakesNone
      <3>5. merged'.is = "stop" /\ merged.is # "stop"
        BY <1>1, <3>1, CallsAre DEF Runs
      <3>6. MergeStream!Ends
        BY <3>1, <3>3, <3>4, <3>5, Stoppings, SameCalls DEF MergeStream!Ends, MergeStream!Says
      <3> QED
        BY <3>6 DEF MergeStream!Next
    <2> QED
      BY <2>1, <2>2
  <1>5. CASE M!Resumes
    <2>1. /\ mergeAt = "yielding" /\ mergeAt' = "walking" /\ merged' = merged
          /\ last \in Feeds /\ last' = Nothing
          /\ \A f \in Feeds : pull'[f] = IF f = last THEN Asked ELSE pull[f]
      BY <1>1, <1>5, SameCalls DEF M!Resumes
    <2> QED
      BY <1>1, <2>1, Plain, MergePasses
  <1>6. CASE M!Closes \/ M!Thrown \/ M!ThrownAgain \/ M!Unwound
    <2>1. \A how : Answer(how).is = how
      BY DEF Answer, Call
    <2>2. mergeExit # "none" /\ mergeAt = "unwinding" => mergeExit \in {"error", "cancelled", "closed"}
      BY DEF Kept, IInv, MergeInv, M!TypeOK
    <2>3. Delivered(merged).is = merged.is
      BY CallsAre, Shape DEF Kept
    <2>4. CASE M!Closes \/ M!Thrown
      BY <2>1, <2>4, SameCalls, MergeBreaks DEF M!Closes, M!Thrown, M!Leaves
    <2>5. CASE M!Unwound
      BY <2>1, <2>2, <2>5, SameCalls, MergeBreaks DEF M!Unwound, Kept, IInv, MergeInv
    <2>6. CASE M!ThrownAgain
      <3>1. MergeStream!BreaksOff
        BY <2>3, <2>6, SameCalls DEF M!ThrownAgain, MergeStream!BreaksOff, MergeStream!Says
      <3> QED
        BY <3>1 DEF MergeStream!Next
    <2> QED
      BY <1>6, <2>4, <2>5, <2>6
  <1>7. ASSUME NEW s \in Feeds, M!Walks(s) PROVE MergeStream!Next
    <2>1. mergeAt = "walking" /\ last = Nothing /\ Runs(merged)
      BY <1>1, <1>7 DEF M!Walks
    <2>2. \A f \in Feeds : M!Popped(s)[f] = IF f = s THEN Quiet ELSE pull[f]
      BY <1>1, SameCalls DEF M!Popped
    <2>3. CASE M!Yields(s)
      <3>1. /\ pull[s].is = "item" /\ merged' = Item(pull[s].of) /\ last' = s /\ mergeAt' = "yielding"
            /\ pull'[s] = Quiet /\ \A f \in Feeds : f # s => pull'[f] = pull[f]
        BY <2>2, <2>3, SameCalls DEF M!Yields
      <3>2. MergeStream!Now = Append(<<>>, pull[s].of)
        BY <3>1, Plain, MergeTakesOne
      <3>3. merged'.is = "item" /\ merged'.of = pull[s].of /\ merged.is # "item"
        BY <2>1, <3>1 DEF Item, Runs
      <3>4. {f \in Feeds \ {last'} : pull'[f] = Quiet} = {f \in Feeds \ {last} : pull[f] = Quiet}
        <4>1. pull[s] # Quiet
          BY <3>1, Plain
        <4> QED
          BY <1>1, <2>1, <3>1, <4>1
      <3>5. MergeStream!Learns
        BY <2>1, <3>1, <3>4, SameCalls DEF MergeStream!Learns
      <3>6. MergeStream!HandsOn
        BY <2>1, <3>1, <3>2, <3>3, <3>5 DEF MergeStream!HandsOn, MergeStream!Says, Just
      <3> QED
        BY <3>6 DEF MergeStream!Next
    <2>4. CASE /\ pull[s].is = "stop" /\ pull' = M!Popped(s)
               /\ UNCHANGED <<merged, mergeAt, last, mergeExit>>
      BY <1>1, <2>1, <2>2, <2>4, MergePasses
    <2>5. CASE pull[s].is \in {"error", "cancelled"} /\ M!Leaves(pull[s].is, M!Popped(s))
      <3>1. \A how : Answer(how).is = how
        BY DEF Answer, Call
      <3> QED
        BY <2>5, <3>1, SameCalls, MergeBreaks DEF M!Leaves
    <2> QED
      BY <1>7, <2>3, <2>4, <2>5 DEF M!Walks
  <1> QED
    BY <1>2, <1>3, <1>4, <1>5, <1>6, <1>7 DEF M!Step

-----------------------------------------------------------------------------
(* amap is a stream *)

LEMMA MapBreaks ==
  ASSUME mapAt' \in {"unwinding", "over"},
         mapped'.is = mapped.is \/ mapped'.is \in {"error", "cancelled", "closed"},
         \/ mapAt \in {"unwinding", "over"}
         \/ mapped.killed \/ mapped.is = "closing"
         \/ merged.is \in {"error", "cancelled"}
         \/ \E v \in ToSet(A!Held) : job[v] \in {"error", "cancelled"}
  PROVE  MapStream!Next
  <1>1. Only(merged)["source"] = merged
    BY DEF Only
  <1>2. MapStream!BreaksOff
    BY <1>1 DEF MapStream!BreaksOff, MapStream!Says, MapStream!Reason
  <1> QED
    BY <1>2 DEF MapStream!Next

\* Nothing is taken, and what it holds stays.
LEMMA MapPasses ==
  ASSUME merged.is = "item" => merged' = merged,
         mapped'.is = mapped.is \/ mapped'.is \in {"error", "cancelled", "closed"},
         A!Held' = A!Held, exhausted' = exhausted,
         mapAt \notin {"unwinding", "over"}, mapAt' \notin {"unwinding", "over"}
  PROVE  MapStream!Next
  <1>1. MapStream!Passes
    BY MapTakes DEF MapStream!Passes, MapStream!Says, MapStream!Learns
  <1> QED
    BY <1>1 DEF MapStream!Next

\* From the top of the loop, with all that is inside in flight.
LEMMA MapProceedsStream ==
  ASSUME Kept, NEW flight \in Seq(Values), NEW dry \in BOOLEAN, A!Proceeds(flight, dry),
         MapStream!Now = flight, head = Nothing, Runs(mapped), mapAt \notin {"unwinding", "over"},
         dry = exhausted \/ (dry /\ merged.is = "stop")
  PROVE  MapStream!Next
  <1>1. exhausted \in BOOLEAN /\ Concurrency \in Nat \ {0}
    BY PipelineAssumption DEF Kept, IInv, MapInv, A!TypeOK, A!MapAssumption
  <1>2. exhausted' = dry
    BY DEF A!Proceeds
  <1>3. MapStream!Learns
    BY <1>1, <1>2, Stoppings DEF MapStream!Learns, If
  <1>4. A!Held' = IF head' = Nothing THEN in_flight' ELSE <<head'>> \o in_flight'
    BY DEF A!Held
  <1>5. ASSUME mapped' = mapped, A!Held' = flight, mapAt' \notin {"unwinding", "over"}
        PROVE  MapStream!Next
    <2>1. MapStream!Passes
      BY <1>3, <1>5 DEF MapStream!Passes, MapStream!Says
    <2> QED
      BY <2>1 DEF MapStream!Next
  <1>6. CASE ~dry /\ A!Room(flight)
    BY <1>4, <1>5, <1>6 DEF A!Proceeds
  <1>7. CASE ~(~dry /\ A!Room(flight))
    <2>1. CASE flight = <<>> /\ mapped' = A!Answer("stop") /\ mapAt' = "over"
      <3>1. dry
        <4>1. Len(<<>>) = 0
          OBVIOUS
        <4> QED
          BY <1>1, <1>7, <2>1, <4>1 DEF A!Room
      <3>2. mapped'.is = "stop" /\ mapped.is # "stop"
        BY <2>1, SameCalls, CallsAre DEF Runs
      <3>3. If(exhausted) \cup MapStream!Stopping = {"source"}
        BY <1>1, <3>1, Stoppings DEF If
      <3>4. MapStream!Ends
        BY <2>1, <3>2, <3>3 DEF MapStream!Ends, MapStream!Says
      <3> QED
        BY <3>4 DEF MapStream!Next
    <2>2. CASE /\ flight # <<>> /\ mapAt' = "awaiting" /\ head' = Head(flight)
               /\ in_flight' = Tail(flight) /\ mapped' = mapped
      <3>1. Head(flight) # Nothing /\ <<Head(flight)>> \o Tail(flight) = flight
        BY <2>2, TailFacts, PipelineAssumption DEF A!MapAssumption
      <3> QED
        BY <1>4, <1>5, <2>2, <3>1
    <2>3. CASE mapAt' = "waiting" /\ in_flight' = flight /\ UNCHANGED <<mapped, head>>
      BY <1>4, <1>5, <2>3
    <2> QED
      BY <1>7, <2>1, <2>2, <2>3 DEF A!Proceeds
  <1> QED
    BY <1>6, <1>7

LEMMA MapStreams ==
  ASSUME Kept, A!Step
  PROVE  MapStream!Next
  <1>1. /\ MapSide /\ mapped \in Calls(Values) /\ merged \in Calls(Values)
        /\ in_flight \in Seq(Values) /\ exhausted \in BOOLEAN
        /\ mapAt # "awaiting" => head = Nothing /\ A!Held = in_flight
        /\ mapAt = "awaiting" => A!Held = <<head>> \o in_flight
        /\ mapAt \in {"filling", "awaiting", "waiting", "walking", "unwinding"} => Runs(mapped)
        /\ mapAt \notin {"filling", "over"} => merged.is # "item"
    BY MapSided, MapShape DEF Kept, Fed, IInv, MapInv, A!TypeOK, A!Held
  <1>2. \A how : Answer(how).is = how
    BY DEF Answer, Call
  <1>3. ASSUME NEW how \in {"error", "cancelled", "closed"}, NEW flight, A!Leaves(how, flight),
               \/ mapped.killed \/ mapped.is = "closing" \/ merged.is \in {"error", "cancelled"}
               \/ \E v \in ToSet(A!Held) : job[v] \in {"error", "cancelled"}
        PROVE  MapStream!Next
    BY <1>2, <1>3, SameCalls, MapBreaks DEF A!Leaves
  <1>4. CASE A!Continues
    <2>1. /\ mapAt \in {"new", "yielding"} /\ mapped = Asked /\ A!Proceeds(in_flight, exhausted)
      BY <1>4, SameCalls DEF A!Continues
    <2>2. MapStream!Now = in_flight
      BY <1>1, <2>1, MapTakes
    <2> QED
      BY <1>1, <2>1, <2>2, Plain, MapProceedsStream
  <1>5. CASE A!Fills
    <2>1. /\ mapAt = "filling" /\ merged.is = "item"
          /\ A!Proceeds(Append(in_flight, merged.of), exhausted)
      BY <1>5 DEF A!Fills
    <2>2. merged' # merged
      BY <2>1, SameCalls, Plain DEF A!Proceeds
    <2>3. MapStream!Now = Append(in_flight, merged.of)
      BY <1>1, <2>1, <2>2, MapTakes
    <2>4. Append(in_flight, merged.of) \in Seq(Values)
      <3>1. merged.of \in Values
        BY <1>1, <2>1 DEF MapSide, Carries
      <3> QED
        BY <1>1, <3>1
    <2> QED
      BY <1>1, <2>1, <2>3, <2>4, MapProceedsStream
  <1>6. CASE A!Exhausts
    <2>1. mapAt = "filling" /\ merged.is = "stop" /\ A!Proceeds(in_flight, TRUE)
      BY <1>6 DEF A!Exhausts
    <2>2. MapStream!Now = in_flight
      BY <1>1, <2>1, MapTakes
    <2> QED
      BY <1>1, <2>1, <2>2, MapProceedsStream
  <1>7. CASE A!FillFails \/ A!Closes \/ A!Thrown
    BY <1>3, <1>7 DEF A!FillFails, A!Closes, A!Thrown
  <1>8. CASE A!HeadArrives
    <2>1. mapAt = "awaiting" /\ A!Held = <<head>> \o in_flight /\ mapped.is # "item" /\ merged.is # "item"
      BY <1>1, <1>8 DEF A!HeadArrives, Runs
    <2>2. CASE job[head] = "ok"
      <3>1. /\ mapped' = Item(head) /\ mapAt' = "yielding" /\ head' = Nothing
            /\ UNCHANGED <<merged, in_flight, exhausted>>
        BY <1>8, <2>2, SameCalls DEF A!HeadArrives
      <3>2. A!Held' = in_flight
        BY <3>1 DEF A!Held
      <3>3. MapStream!Now = Just(head) \o in_flight
        BY <2>1, MapTakes DEF Just
      <3>4. mapped'.is = "item" /\ mapped'.of = head
        BY <3>1 DEF Item
      <3>5. MapStream!HandsOn
        BY <2>1, <3>1, <3>2, <3>3, <3>4 DEF MapStream!HandsOn, MapStream!Says, MapStream!Learns
      <3> QED
        BY <3>5 DEF MapStream!Next
    <2>3. CASE job[head] \in {"error", "cancelled"} /\ A!Leaves(job[head], in_flight)
      <3>1. head \in ToSet(A!Held)
        BY <1>1, <2>1, WhileAwaiting DEF ToSet
      <3> QED
        BY <1>3, <2>3, <3>1
    <2> QED
      BY <1>8, <2>2, <2>3 DEF A!HeadArrives
  <1>9. CASE A!Lands \/ A!NeverStarts \/ A!PassesOn
    <2>1. A!Held' = A!Held /\ exhausted' = exhausted
      BY <1>9 DEF A!Lands, A!NeverStarts, A!PassesOn, A!Held, A!taskVars
    <2>2. Delivered(mapped).is = mapped.is
      BY <1>1, CallsAre
    <2>3. merged.is = "item" => merged' = merged
      BY <1>9 DEF A!Lands, A!NeverStarts, A!PassesOn
    <2>4. mapped'.is = mapped.is \/ mapped'.is \in {"error", "cancelled", "closed"}
      BY <1>2, <1>9, <2>2, SameCalls DEF A!Lands, A!NeverStarts, A!PassesOn
    <2> QED
      BY <1>9, <2>1, <2>3, <2>4, MapPasses DEF A!Lands, A!NeverStarts, A!PassesOn
  <1>10. CASE A!ThrownAgain
    <2>1. Delivered(mapped).is = mapped.is
      BY <1>1, CallsAre
    <2> QED
      BY <1>10, <2>1, SameCalls, MapBreaks DEF A!ThrownAgain
  <1>11. CASE A!Unwound
    <2>1. mapExit \in {"error", "cancelled", "closed"}
      BY <1>11 DEF A!Unwound, Kept, IInv, MapInv, A!TypeOK
    <2> QED
      BY <1>2, <1>11, <2>1, SameCalls, MapBreaks DEF A!Unwound
  <1>12. ASSUME NEW v \in Values, A!Walks(v) PROVE MapStream!Next
    <2>1. /\ mapAt \in {"walking", "yielding"} /\ v \in mapWalk /\ mapped.is # "item" /\ merged.is # "item"
          /\ A!Held = in_flight /\ head = Nothing
      BY <1>1, <1>12, SameCalls, Plain DEF A!Walks, Runs
    <2>2. ~ordered /\ v \in ToSet(in_flight) /\ A!Ended(v) /\ IsInjective(in_flight)
      BY <2>1, SameSequences DEF Kept, IInv, MapInv, A!TypeOK, A!InFlight
    <2>3. CASE job[v] = "ok"
      <3> DEFINE k == CHOOSE n \in DOMAIN in_flight : in_flight[n] = v
      <3>1. /\ mapped' = Item(v) /\ mapAt' = "yielding" /\ in_flight' = A!RemoveAt(in_flight, k)
            /\ UNCHANGED <<merged, head, exhausted>>
        BY <1>12, <2>3, SameCalls DEF A!Walks, A!Removed
      <3>2. k \in DOMAIN in_flight /\ in_flight[k] = v
        BY <1>1, <2>2, RemovedFacts
      <3>3. A!Held' = SubSeq(in_flight, 1, k - 1) \o SubSeq(in_flight, k + 1, Len(in_flight))
        BY <2>1, <3>1 DEF A!Held, A!RemoveAt
      <3> HIDE DEF k
      <3>4. MapStream!Now = in_flight
        BY <2>1, MapTakes
      <3>5. mapped'.is = "item" /\ Just(mapped'.of) = <<v>>
        BY <3>1 DEF Item, Just
      <3>6. \E n \in DOMAIN MapStream!Now :
              /\ <<MapStream!Now[n]>> = Just(mapped'.of)
              /\ A!Held' = SubSeq(MapStream!Now, 1, n - 1) \o SubSeq(MapStream!Now, n + 1, Len(MapStream!Now))
        BY <3>2, <3>3, <3>4, <3>5
      <3>7. MapStream!HandsOn
        <4>1. /\ ~(mapAt \in {"unwinding", "over"}) /\ MapStream!Says("item") /\ MapStream!Learns
              /\ UNCHANGED (mapAt \in {"unwinding", "over"})
          BY <2>1, <3>1, <3>5 DEF MapStream!Says, MapStream!Learns
        <4> QED
          BY ONLY <2>2, <3>6, <4>1, Zenon DEF MapStream!HandsOn
      <3> QED
        BY <3>7 DEF MapStream!Next
    <2>4. CASE job[v] # "ok"
      <3>1. job[v] \in {"error", "cancelled"}
        BY <2>2, <2>4 DEF A!Ended
      <3> QED
        BY <1>3, <1>12, <2>1, <2>2, <2>4, <3>1 DEF A!Walks
    <2> QED
      BY <2>3, <2>4
  <1> QED
    BY <1>4, <1>5, <1>6, <1>7, <1>8, <1>9, <1>10, <1>11, <1>12 DEF A!Step

-----------------------------------------------------------------------------
(* take_until is a stream *)

LEMMA UntilBreaks ==
  ASSUME untilAt' \in {"unwinding", "over"},
         taken'.is = taken.is \/ taken'.is \in {"error", "cancelled", "closed"},
         \/ untilAt \in {"unwinding", "over"}
         \/ taken.killed \/ taken.is = "closing" \/ event
         \/ mapped.is \in {"error", "cancelled"}
  PROVE  UntilStream!Next
  <1>1. Only(mapped)["source"] = mapped
    BY DEF Only
  <1>2. UntilStream!BreaksOff
    BY <1>1 DEF UntilStream!BreaksOff, UntilStream!Says, UntilStream!Reason
  <1> QED
    BY <1>2 DEF UntilStream!Next

LEMMA UntilStreams ==
  ASSUME Kept, T!Step
  PROVE  UntilStream!Next \/ UNCHANGED UntilStream!vars
  <1>1. /\ UntilSide /\ taken \in Calls(Values)
        /\ untilAt \in {"new", "yielding"} => mapped.is # "item"
        /\ untilAt \in {"waiting", "unwinding"} => Runs(taken)
        /\ stop = "done" => event
        /\ untilAt = "unwinding" => untilExit \in {"stop", "cancelled"}
        /\ untilExit = "stop" => event
    BY UntilSided, UntilShape DEF Kept, Fed, IInv, UntilInv, T!TypeOK
  <1>2. \A how : Answer(how).is = how
    BY DEF Answer, Call
  <1>3. Delivered(taken).is = taken.is
    BY <1>1, CallsAre
  <1>4. ASSUME taken'.is = "stop", taken.is # "stop", untilAt' = "over", event
        PROVE  UntilStream!Next
    <2>1. UntilStream!Ends
      BY <1>4 DEF UntilStream!Ends, UntilStream!Says
    <2> QED
      BY <2>1 DEF UntilStream!Next
  <1>5. ASSUME mapped.is # "item" \/ mapped' = mapped,
               taken'.is = taken.is \/ taken'.is \in {"error", "cancelled", "closed"},
               untilAt \notin {"unwinding", "over"}, untilAt' \notin {"unwinding", "over"}
        PROVE  UntilStream!Next
    <2>1. UntilStream!Passes
      BY <1>5, UntilTakes DEF UntilStream!Passes, UntilStream!Says, UntilStream!Learns
    <2> QED
      BY <2>1 DEF UntilStream!Next
  <1>6. CASE T!StopEnds
    BY <1>6 DEF T!StopEnds, UntilStream!vars
  <1>7. CASE T!Continues
    <2>1. untilAt \in {"new", "yielding"} /\ taken = Asked /\ mapped.is # "item" /\ T!AsksOrEnds
      BY <1>1, <1>7, SameCalls DEF T!Continues
    <2>2. CASE event /\ T!Ends("stop")
      BY <1>2, <1>4, <2>1, <2>2, SameCalls, Plain DEF T!Ends
    <2>3. CASE untilAt' = "waiting" /\ taken' = taken
      BY <1>5, <2>1, <2>3
    <2> QED
      BY <2>1, <2>2, <2>3 DEF T!AsksOrEnds
  <1>8. CASE T!NeverStarts
    BY <1>2, <1>5, <1>8, SameCalls DEF T!NeverStarts
  <1>9. CASE T!Lands
    <2>1. CASE /\ mapped.is = "item" /\ taken' = Item(mapped.of) /\ mapped' = Quiet
               /\ untilAt = "waiting" /\ untilAt' = "yielding"
      <3>1. UntilStream!Now = Append(<<>>, mapped.of)
        BY <2>1, Plain, UntilTakes
      <3>2. taken'.is = "item" /\ taken'.of = mapped.of /\ taken.is # "item"
        BY <1>1, <2>1 DEF Item, Runs
      <3>3. UntilStream!HandsOn
        BY <2>1, <3>1, <3>2 DEF UntilStream!HandsOn, UntilStream!Says, UntilStream!Learns, Just
      <3> QED
        BY <3>3 DEF UntilStream!Next
    <2>2. CASE mapped.is = "stop" /\ T!Ends("stop") /\ untilAt = "waiting"
      <3>1. UntilStream!Now = <<>>
        BY <2>2, UntilTakes
      <3>2. taken'.is = "stop" /\ taken.is # "stop" /\ untilAt' = "over"
        BY <1>1, <1>2, <2>2, SameCalls DEF T!Ends, Runs
      <3>3. UntilStream!Ends
        BY <2>2, <3>1, <3>2, Stoppings DEF UntilStream!Ends, UntilStream!Says
      <3> QED
        BY <3>3 DEF UntilStream!Next
    <2>3. CASE mapped.is \in {"error", "cancelled"} /\ T!Ends(mapped.is)
      BY <1>2, <2>3, SameCalls, UntilBreaks DEF T!Ends
    <2> QED
      BY <1>9, <2>1, <2>2, <2>3, SameCalls DEF T!Lands
  <1>10. CASE T!Stops \/ T!Thrown
    BY <1>1, <1>10, UntilBreaks DEF T!Stops, T!Thrown, T!Leaves
  <1>11. CASE T!ThrownAgain
    BY <1>3, <1>11, SameCalls, UntilBreaks DEF T!ThrownAgain
  <1>12. CASE T!Unwound
    <2>1. CASE untilExit = "stop"
      BY <1>1, <1>2, <1>4, <1>12, <2>1, SameCalls DEF T!Unwound, Runs
    <2>2. CASE untilExit = "cancelled"
      BY <1>2, <1>12, <2>2, SameCalls, UntilBreaks DEF T!Unwound
    <2> QED
      BY <1>1, <1>12, <2>1, <2>2 DEF T!Unwound
  <1>13. CASE T!Closes
    BY <1>2, <1>13, SameCalls, UntilBreaks DEF T!Closes, T!Ends
  <1> QED
    BY <1>6, <1>7, <1>8, <1>9, <1>10, <1>11, <1>12, <1>13 DEF T!Step

-----------------------------------------------------------------------------
(* batched is a stream *)

LEMMA BatchBreaks ==
  ASSUME batchAt' = "over",
         batches'.is \in {"error", "cancelled", "closed"},
         batches.killed \/ batches.is = "closing" \/ taken.is \in {"error", "cancelled"}
  PROVE  BatchStream!Next
  <1>1. Only(taken)["source"] = taken
    BY DEF Only
  <1>2. BatchStream!BreaksOff
    BY <1>1 DEF BatchStream!BreaksOff, BatchStream!Says, BatchStream!Reason
  <1> QED
    BY <1>2 DEF BatchStream!Next

\* A batch that is handed on is all that is inside.
LEMMA BatchHandsOn ==
  ASSUME Kept, NEW items, batches' = B!Item(items), batch' = <<>>, batchAt' # "over",
         BatchStream!Now = items, batchAt = "waiting",
         ending' = ending \/ (ending' = TRUE /\ taken.is = "stop")
  PROVE  BatchStream!Next
  <1>1. batches.is = "asked" /\ ending \in BOOLEAN
    BY DEF Kept, IInv, BatchInv, B!TypeOK
  <1>2. batches'.is = "item" /\ batches'.of = items
    BY DEF B!Item
  <1>3. BatchStream!Learns
    BY <1>1, Stoppings DEF BatchStream!Learns, If
  <1>4. items = items \o <<>>
    <2>1. items \in Seq(Values)
      <3>1. batch \in Seq(Values)
        BY DEF Kept, IInv, BatchInv, B!TypeOK
      <3>2. taken.is = "item" => Append(batch, taken.of) \in Seq(Values)
        BY <3>1 DEF Kept, IInv, ItemsCarried, Carries
      <3> QED
        BY <3>1, <3>2, BatchTakes
    <2> QED
      BY <2>1
  <1>5. BatchStream!HandsOn
    BY <1>1, <1>2, <1>3, <1>4 DEF BatchStream!HandsOn, BatchStream!Says, Whole
  <1> QED
    BY <1>5 DEF BatchStream!Next

\* The end, with nothing inside.
LEMMA BatchStops ==
  ASSUME B!Ends("stop"), BatchStream!Now = <<>>, batchAt # "over", batches.is = "asked",
         ending \/ taken.is = "stop"
  PROVE  BatchStream!Next
  <1>1. batches'.is = "stop" /\ batchAt' = "over"
    BY DEF B!Ends, B!Answer, B!Call
  <1>2. If(ending) \cup BatchStream!Stopping = {"source"}
    BY Stoppings DEF If
  <1>3. BatchStream!Ends
    BY <1>1, <1>2 DEF BatchStream!Ends, BatchStream!Says
  <1> QED
    BY <1>3 DEF BatchStream!Next

LEMMA BatchPasses ==
  ASSUME batches'.is = batches.is, batch' = BatchStream!Now, ending' = ending,
         batchAt # "over", batchAt' # "over"
  PROVE  BatchStream!Next
  <1>1. BatchStream!Passes
    BY DEF BatchStream!Passes, BatchStream!Says, BatchStream!Learns
  <1> QED
    BY <1>1 DEF BatchStream!Next

LEMMA BatchStreams ==
  ASSUME Kept, B!Step \/ B!Expires
  PROVE  BatchStream!Next
  <1>1. /\ BatchSide /\ batches \in Calls(Seq(Values))
        /\ batchAt = "waiting" => batches.is = "asked"
        /\ batchAt # "waiting" => batch = <<>>
        /\ batchAt \in {"new", "yielding"} /\ ending => taken = Quiet
    BY BatchSided, BatchShape DEF Kept, IInv, BatchInv
  <1>2. \A how : Answer(how).is = how
    BY DEF Answer, Call
  <1>3. ASSUME NEW how \in {"error", "cancelled", "closed"}, B!Ends(how),
               batches.killed \/ batches.is = "closing" \/ taken.is \in {"error", "cancelled"}
        PROVE  BatchStream!Next
    BY <1>2, <1>3, SameCalls, BatchBreaks DEF B!Ends
  <1>4. CASE B!Continues
    <2>1. batchAt \in {"new", "yielding"} /\ batches.is = "asked" /\ batch = <<>>
      BY <1>1, <1>4 DEF B!Continues
    <2>2. CASE ending /\ B!Ends("stop")
      <3>1. BatchStream!Now = <<>>
        BY <1>1, <2>1, <2>2, Plain, BatchTakes
      <3> QED
        BY <2>1, <2>2, <3>1, BatchStops
    <2>3. CASE B!Waits /\ UNCHANGED <<batches, batch, ending>>
      <3>1. taken.is = "item" => taken' = taken
        BY <2>3, SameCalls, Plain DEF B!Waits
      <3>2. BatchStream!Now = batch
        BY <3>1, BatchTakes
      <3> QED
        BY <2>1, <2>3, <3>2, BatchPasses DEF B!Waits
    <2> QED
      BY <1>4, <2>2, <2>3 DEF B!Continues
  <1>5. CASE B!Gathers
    <2>1. batchAt = "waiting" /\ taken.is = "item" /\ ending' = ending
      BY <1>5 DEF B!Gathers, B!Ready
    <2>2. taken' # taken
      BY <1>5, <2>1, SameCalls, Plain DEF B!Gathers
    <2>3. BatchStream!Now = Append(batch, taken.of)
      BY <2>1, <2>2, BatchTakes
    <2>4. CASE B!Yields(Append(batch, taken.of))
      BY <2>1, <2>3, <2>4, BatchHandsOn DEF B!Yields
    <2>5. CASE batch' = Append(batch, taken.of) /\ UNCHANGED <<batches, batchAt>>
      BY <2>1, <2>3, <2>5, BatchPasses
    <2> QED
      BY <1>5, <2>4, <2>5 DEF B!Gathers
  <1>6. CASE B!Expires
    <2>1. BatchStream!Now = batch
      BY <1>6, BatchTakes DEF B!Expires
    <2> QED
      BY <1>6, <2>1, BatchHandsOn DEF B!Expires, B!Ready, B!Yields
  <1>7. CASE B!SourceStops
    <2>1. batchAt = "waiting" /\ taken.is = "stop" /\ batches.is = "asked"
      BY <1>1, <1>7 DEF B!SourceStops, B!Ready
    <2>2. BatchStream!Now = batch
      BY <2>1, BatchTakes
    <2>3. CASE batch = <<>> /\ B!Ends("stop")
      BY <2>1, <2>2, <2>3, BatchStops
    <2>4. CASE B!Yields(batch) /\ ending' = TRUE
      BY <2>1, <2>2, <2>4, BatchHandsOn DEF B!Yields
    <2> QED
      BY <1>7, <2>3, <2>4 DEF B!SourceStops
  <1>8. CASE B!SourceFails \/ B!Closes \/ B!Thrown
    BY <1>3, <1>8 DEF B!SourceFails, B!Closes, B!Thrown
  <1>9. CASE B!PassesOn
    <2>1. /\ batchAt = "waiting" /\ taken.is = "asked" /\ batches' = Delivered(batches)
          /\ UNCHANGED <<batchAt, batch, ending>>
      BY <1>9, SameCalls DEF B!PassesOn
    <2>2. batches'.is = batches.is
      BY <1>1, <2>1, CallsAre
    <2>3. BatchStream!Now = batch
      BY <2>1, BatchTakes
    <2> QED
      BY <2>1, <2>2, <2>3, BatchPasses
  <1>10. CASE B!SourceTimesOut
    <2>1. batchAt = "waiting" /\ UNCHANGED <<taken, ending>>
      BY <1>10 DEF B!SourceTimesOut, B!Ready
    <2>2. BatchStream!Now = batch
      BY <2>1, BatchTakes
    <2>3. CASE batchAt' = "spinning" /\ UNCHANGED <<batches, batch>>
      BY <2>1, <2>2, <2>3, BatchPasses
    <2>4. CASE batches' = B!Item(batch) /\ batch' = <<>> /\ batchAt' = "flushing"
      BY <2>1, <2>2, <2>4, BatchHandsOn
    <2> QED
      BY <1>10, <2>3, <2>4 DEF B!SourceTimesOut
  <1>11. CASE B!Spins
    <2>1. /\ batchAt = "flushing" /\ batchAt' = "spinning"
          /\ UNCHANGED <<batches, taken, batch, ending>>
      BY <1>11 DEF B!Spins
    <2>2. BatchStream!Now = batch
      BY <2>1, BatchTakes
    <2> QED
      BY <2>1, <2>2, BatchPasses
  <1> QED
    BY <1>4, <1>5, <1>6, <1>7, <1>8, <1>9, <1>10, <1>11 DEF B!Step

-----------------------------------------------------------------------------
(* Together *)

\* What a stage does to the calls on its two sides.
LEMMA Neighbours ==
  ASSUME Kept
  PROVE  /\ MergeTurn => Answering(merged, merged')
         /\ MapTurn => Answering(mapped, mapped') /\ Asking(merged, merged')
         /\ UntilTurn \/ SetEvent => Answering(taken, taken') /\ Asking(mapped, mapped')
         /\ BatchTurn \/ Expires => Asking(taken, taken')
         /\ CollectTurn \/ CancelCollect => Asking(batches, batches')
  <1>1. IInv /\ MapSide /\ UntilSide /\ BatchSide
    BY MapSided, UntilSided, BatchSided DEF Kept
  <1>2. MergeTurn => Answering(merged, merged')
    <2>1. MergeSide
      BY <1>1 DEF IInv, MergeSide, ItemsCarried, UseInv
    <2> QED
      BY <2>1, MergeSteps DEF MergeTurn, mapVars
  <1>3. MapTurn => Answering(mapped, mapped') /\ Asking(merged, merged')
    <2>1. MapTurn => MapStep /\ A!Step
      BY <1>1 DEF MapTurn, MapStep, untilVars
    <2> QED
      BY <2>1, MapSteps, MapAsks DEF MapDone, MapKept
  <1>4. UntilTurn \/ SetEvent => UntilKept
    <2>1. UntilTurn => UntilStep /\ T!Step
      BY <1>1 DEF UntilTurn, UntilStep, batchVars
    <2>2. SetEvent => UntilStep /\ T!Set
      BY <1>1 DEF SetEvent, UntilStep, batchVars
    <2> QED
      BY <2>1, <2>2, UntilSteps, UntilSet
  <1>5. BatchTurn \/ Expires => BatchKept
    BY <1>1, BatchSteps, BatchExpires DEF BatchTurn, Expires
  <1> QED
    BY <1>1, <1>2, <1>3, <1>4, <1>5, CollectAsks DEF UntilKept, BatchKept

\* An item stays until it is taken, and a caller may always do nothing or close.
LEMMA Stays ==
  ASSUME NEW c, NEW d
  PROVE  /\ Answering(c, d) /\ c.is = "item" => d = c
         /\ Asking(c, c)
         /\ ~Runs(c) => Asking(c, Closing)
  BY Plain DEF Answering, Asking, Runs

\* A stage takes its own steps, and those of the others pass it by.
LEMMA MergeStage ==
  ASSUME Kept, [Next]_vars
  PROVE  [MergeStream!Next]_(MergeStream!vars)
  <1>1. CASE MergeTurn
    BY <1>1, MergeStreams DEF MergeTurn
  <1>2. CASE MapTurn
    BY <1>2, Neighbours, MergeBeside DEF MapTurn
  <1>3. ASSUME NEW f \in Feeds, FeedAnswers(f)
        PROVE  MergeStream!Next
    <2>1. UNCHANGED <<merged, mergeVars>> /\ pull[f].is = "asked" /\ pull \in [Feeds -> Calls(Values)]
      BY <1>3, Shape DEF FeedAnswers, Kept
    <2>2. PICK answer : pull' = [pull EXCEPT ![f] = answer] /\ Landed(answer)
      <3>1. Landed(Item(<<f, given[f] + 1>>))
        BY DEF Item, Landed, Answers
      <3>2. \A how \in {"stop", "error", "cancelled"} : Landed(Answer(how))
        BY DEF Answer, Call, Landed, Answers
      <3> QED
        BY <1>3, <3>1, <3>2 DEF FeedAnswers
    <2>3. \A g \in Feeds : pull'[g] = pull[g] \/ (pull[g].is = "asked" /\ Landed(pull'[g]))
      BY <2>1, <2>2
    <2> QED
      BY <2>1, <2>3, Stays, MergeBeside
  <1>4. CASE Finalizes
    <2>1. UNCHANGED <<pull, mergeVars>> /\ Asking(merged, merged')
      BY <1>4, Stays DEF Finalizes, Unused
    <2> QED
      BY <2>1, MergeBeside
  <1>5. ASSUME UNCHANGED <<pull, merged, mergeVars>>
        PROVE  MergeStream!Next
    BY <1>5, Stays, MergeBeside
  <1>6. CASE UntilTurn \/ BatchTurn \/ CollectTurn \/ Expires \/ SetEvent \/ CancelCollect \/ UNCHANGED vars
    BY <1>5, <1>6 DEF UntilTurn, BatchTurn, CollectTurn, Expires, SetEvent, CancelCollect, vars
  <1>7. ASSUME NEW v, FnEnds(v)
        PROVE  MergeStream!Next
    BY <1>5, <1>7 DEF FnEnds
  <1> QED
    BY <1>1, <1>2, <1>3, <1>4, <1>6, <1>7 DEF Next, Progress

LEMMA MapStage ==
  ASSUME Kept, [Next]_vars
  PROVE  [MapStream!Next]_(MapStream!vars)
  <1>1. CASE MapTurn
    BY <1>1, MapStreams DEF MapTurn
  <1>2. CASE MergeTurn
    BY <1>2, Neighbours, Stays, MapBeside DEF MergeTurn
  <1>3. CASE UntilTurn \/ SetEvent
    BY <1>3, Neighbours, MapBeside DEF UntilTurn, SetEvent
  <1>4. CASE Finalizes
    <2>1. UNCHANGED mapVars /\ Asking(mapped, mapped')
      BY <1>4, Stays DEF Finalizes, Unused
    <2>2. CASE merged' = merged
      BY <2>1, <2>2, MapBeside
    <2>3. CASE mapAt = "over" /\ mapped' = mapped
      BY <2>1, <2>3, MapBreaks DEF mapVars
    <2> QED
      BY <1>4, <2>2, <2>3 DEF Finalizes
  <1>5. ASSUME NEW v, FnEnds(v)
        PROVE  UNCHANGED MapStream!vars
    BY <1>5 DEF FnEnds, A!JobEnds, A!Held, MapStream!vars
  <1>6. ASSUME UNCHANGED <<merged, mapped, mapVars>>
        PROVE  MapStream!Next
    BY <1>6, Stays, MapBeside
  <1>7. CASE BatchTurn \/ CollectTurn \/ Expires \/ CancelCollect \/ UNCHANGED vars
    BY <1>6, <1>7 DEF BatchTurn, CollectTurn, Expires, CancelCollect, vars
  <1>8. ASSUME NEW f, FeedAnswers(f)
        PROVE  MapStream!Next
    BY <1>6, <1>8 DEF FeedAnswers
  <1> QED
    BY <1>1, <1>2, <1>3, <1>4, <1>5, <1>7, <1>8 DEF Next, Progress

LEMMA UntilStage ==
  ASSUME Kept, [Next]_vars
  PROVE  [UntilStream!Next]_(UntilStream!vars)
  <1>1. CASE UntilTurn
    BY <1>1, UntilStreams DEF UntilTurn
  <1>2. CASE SetEvent
    <2>1. UNCHANGED <<mapped, taken, untilAt>>
      BY <1>2 DEF SetEvent, T!Set
    <2> QED
      BY <2>1, Stays, UntilBeside
  <1>3. CASE MapTurn
    BY <1>3, Neighbours, Stays, UntilBeside DEF MapTurn, untilVars
  <1>4. CASE BatchTurn \/ Expires
    BY <1>4, Neighbours, UntilBeside DEF BatchTurn, Expires, untilVars
  <1>5. CASE Finalizes
    <2>1. UNCHANGED untilAt /\ Asking(taken, taken')
      BY <1>5, Stays DEF Finalizes, Unused, untilVars
    <2>2. CASE mapped' = mapped
      BY <2>1, <2>2, UntilBeside
    <2>3. CASE untilAt = "over" /\ taken' = taken
      BY <2>1, <2>3, UntilBreaks
    <2> QED
      BY <1>5, <2>2, <2>3 DEF Finalizes
  <1>6. ASSUME UNCHANGED <<mapped, taken, untilAt>>
        PROVE  UntilStream!Next
    BY <1>6, Stays, UntilBeside
  <1>7. CASE MergeTurn \/ CollectTurn \/ CancelCollect \/ UNCHANGED vars
    BY <1>6, <1>7 DEF MergeTurn, CollectTurn, CancelCollect, vars, untilVars
  <1>8. ASSUME NEW v, FeedAnswers(v) \/ FnEnds(v)
        PROVE  UntilStream!Next
    BY <1>6, <1>8 DEF FeedAnswers, FnEnds, A!JobEnds, untilVars
  <1> QED
    BY <1>1, <1>2, <1>3, <1>4, <1>5, <1>7, <1>8 DEF Next, Progress

LEMMA BatchStage ==
  ASSUME Kept, [Next]_vars
  PROVE  [BatchStream!Next]_(BatchStream!vars)
  <1>1. CASE BatchTurn \/ Expires
    BY <1>1, BatchStreams DEF BatchTurn, Expires
  <1>2. CASE UntilTurn \/ SetEvent
    BY <1>2, Neighbours, Stays, BatchBeside DEF UntilTurn, SetEvent
  <1>3. CASE CollectTurn \/ CancelCollect
    BY <1>3, Neighbours, BatchBeside DEF CollectTurn, CancelCollect
  <1>4. ASSUME UNCHANGED <<taken, batches, batchVars>>
        PROVE  BatchStream!Next
    BY <1>4, Stays, BatchBeside
  <1>5. CASE Finalizes
    <2>1. UNCHANGED <<batches, batchVars>>
      BY <1>5 DEF Finalizes, Unused
    <2>2. CASE batchAt = "over"
      <3>1. BatchStream!BreaksOff
        BY <2>1, <2>2 DEF BatchStream!BreaksOff, BatchStream!Says, batchVars
      <3> QED
        BY <3>1 DEF BatchStream!Next
    <2>3. CASE taken' = taken
      BY <1>4, <2>1, <2>3
    <2> QED
      BY <1>5, <2>2, <2>3 DEF Finalizes
  <1>6. CASE MergeTurn \/ MapTurn \/ UNCHANGED vars
    BY <1>4, <1>6 DEF MergeTurn, MapTurn, vars
  <1>7. ASSUME NEW v, FeedAnswers(v) \/ FnEnds(v)
        PROVE  BatchStream!Next
    BY <1>4, <1>7 DEF FeedAnswers, FnEnds
  <1> QED
    BY <1>1, <1>2, <1>3, <1>5, <1>6, <1>7 DEF Next, Progress

LEMMA StreamsStart ==
  ASSUME Init
  PROVE  Fed /\ MergeStream!Init /\ MapStream!Init /\ UntilStream!Init /\ BatchStream!Init
  <1>1. /\ merged = Quiet /\ mapped = Quiet /\ taken = Quiet /\ batches = Quiet
        /\ \A f \in Feeds : pull[f] = Quiet
        /\ mergeAt = "new" /\ mapAt = "new" /\ untilAt = "new" /\ batchAt = "new"
        /\ in_flight = <<>> /\ head = Nothing /\ exhausted = FALSE
        /\ batch = <<>> /\ ending = FALSE
    BY SameCalls DEF Init, M!Init, A!Init, T!Init, B!Init
  <1>2. Fed
    BY <1>1, Plain DEF Fed
  <1>3. MergeStream!Init /\ UntilStream!Init /\ BatchStream!Init
    BY <1>1 DEF MergeStream!Init, UntilStream!Init, BatchStream!Init, If,
                MergeStream!Quiet, MergeStream!Call, UntilStream!Quiet, UntilStream!Call,
                BatchStream!Quiet, BatchStream!Call, Quiet, Call
  <1>4. MapStream!Init
    BY <1>1 DEF MapStream!Init, If, A!Held, MapStream!Quiet, MapStream!Call, Quiet, Call
  <1> QED
    BY <1>2, <1>3, <1>4

\* Every generator of the pipeline is a stream, whatever its neighbours do: merge,
\* amap, take_until and batched hand on each item they have taken once and in
\* order, say that they are at their end when nothing is left in them, and drop
\* something only when they are closed, cancelled, told to stop, or hit by an
\* exception.
THEOREM StreamsKept == Spec => StagesKeepEveryItem
  <1>1. Init => Fed /\ MergeStream!Init /\ MapStream!Init /\ UntilStream!Init /\ BatchStream!Init
    BY StreamsStart
  <1>2. IInv /\ Fed /\ [Next]_vars => Fed'
    BY FedStays DEF Kept
  <1>3. IInv /\ Fed /\ [Next]_vars =>
          /\ [MergeStream!Next]_(MergeStream!vars)
          /\ [MapStream!Next]_(MapStream!vars)
          /\ [UntilStream!Next]_(UntilStream!vars)
          /\ [BatchStream!Next]_(BatchStream!vars)
    BY MergeStage, MapStage, UntilStage, BatchStage DEF Kept
  <1> QED
    BY <1>1, <1>2, <1>3, Invariance, PTL
    DEF Spec, StagesKeepEveryItem, MergeStream!Spec, MapStream!Spec, UntilStream!Spec, BatchStream!Spec

-----------------------------------------------------------------------------
(* What has been collected *)

\* Of some numbers one comes first.
LEMMA Least ==
  ASSUME NEW n \in Nat, NEW S, S \subseteq 0 .. n, S # {}
  PROVE  \E k \in S : \A j \in S : k <= j
  <1> DEFINE Below(x) == {y \in S : y < x}
             Heads == {Below(x) : x \in S}
             R == StrictSubsetOrdering(S)
  <1>1. \A x \in S : x \in Int
    OBVIOUS
  <1>2. IsFiniteSet(S)
    <2>1. IsFiniteSet(0 .. n)
      BY FS_Interval
    <2> QED
      BY <2>1, FS_Subset
  <1>3. Heads \subseteq FiniteSubsetsOf(S) /\ Heads # {}
    <2>1. Heads \subseteq SUBSET S /\ Heads # {}
      OBVIOUS
    <2> QED
      BY <1>2, <2>1, FS_FiniteSubsetsOfFinite
  <1>4. \E p \in Heads : \A q \in Heads : ~(<<q, p>> \in R)
    <2> HIDE DEF Heads, R
    <2>1. IsWellFoundedOn(R, FiniteSubsetsOf(S))
      BY FS_StrictSubsetOrderingWellFounded DEF R
    <2> QED
      BY <1>3, <2>1, WFMin
  <1>5. PICK m \in S : \A x \in S : ~(<<Below(x), Below(m)>> \in R)
    BY <1>4
  <1>6. ASSUME NEW x \in S, x < m PROVE FALSE
    <2>1. \A y \in S : y < x => y < m
      BY <1>1, <1>6
    <2>2. Below(x) \subseteq Below(m) /\ x \in Below(m) /\ x \notin Below(x)
      <3>1. ~(x < x)
        BY <1>1
      <3>2. Below(x) \subseteq Below(m)
        BY <2>1
      <3>3. x \in Below(m) /\ x \notin Below(x)
        BY <1>6, <3>1
      <3> QED
        BY <3>2, <3>3
    <2>3. Below(x) \in SUBSET S /\ Below(m) \in SUBSET S
      OBVIOUS
    <2> HIDE DEF Below
    <2>4. <<Below(x), Below(m)>> \in R
      BY <2>2, <2>3 DEF StrictSubsetOrdering
    <2> QED
      BY <1>5, <2>4
  <1> QED
    BY <1>1, <1>5, <1>6

\* FlattenSeq is the function that puts one after another what comes up to each place.
Summing(s, n, f) == f = [i \in 1 .. n |-> IF i = 1 THEN s[i] ELSE f[i - 1] \o s[i]]

\* What it is at each place, ...
LEMMA SummingAt ==
  ASSUME NEW s, NEW n \in Nat, NEW f
  PROVE  Summing(s, n, f) <=> f = [i \in 1 .. n |-> f[i]]
                             /\ \A i \in 1 .. n : f[i] = IF i = 1 THEN s[i] ELSE f[i - 1] \o s[i]
  <1>1. ASSUME Summing(s, n, f)
        PROVE  f = [i \in 1 .. n |-> f[i]] /\ \A i \in 1 .. n : f[i] = IF i = 1 THEN s[i] ELSE f[i - 1] \o s[i]
    <2> DEFINE g == [i \in 1 .. n |-> IF i = 1 THEN s[i] ELSE f[i - 1] \o s[i]]
    <2>1. f = g
      BY <1>1 DEF Summing
    <2>2. \A i \in 1 .. n : g[i] = IF i = 1 THEN s[i] ELSE f[i - 1] \o s[i]
      OBVIOUS
    <2>3. g = [i \in 1 .. n |-> g[i]]
      OBVIOUS
    <2> HIDE DEF g
    <2> QED
      BY <2>1, <2>2, <2>3
  <1>2. ASSUME f = [i \in 1 .. n |-> f[i]],
               \A i \in 1 .. n : f[i] = IF i = 1 THEN s[i] ELSE f[i - 1] \o s[i]
        PROVE  Summing(s, n, f)
    <2>1. [i \in 1 .. n |-> f[i]] = [i \in 1 .. n |-> IF i = 1 THEN s[i] ELSE f[i - 1] \o s[i]]
      BY <1>2
    <2> QED
      BY <1>2, <2>1 DEF Summing
  <1> QED
    BY <1>1, <1>2

\* ... that there is one, or there would be a shortest sequence without, ...
LEMMA SummingExists ==
  ASSUME NEW s, NEW n \in Nat
  PROVE  \E f : Summing(s, n, f)
  <1> DEFINE Bad == {k \in 0 .. n : ~\E f : Summing(s, k, f)}
  <1> SUFFICES ASSUME Bad # {} PROVE FALSE
    OBVIOUS
  <1>1. PICK k \in Bad : \A j \in Bad : k <= j
    <2>1. Bad \subseteq 0 .. n
      OBVIOUS
    <2> HIDE DEF Bad
    <2> QED
      BY <2>1, Least
  <1>2. k \in Nat /\ k <= n /\ ~\E f : Summing(s, k, f)
    BY <1>1
  <1>3. k # 0
    <2>1. Summing(s, 0, [i \in 1 .. 0 |-> s])
      BY DEF Summing
    <2> QED
      BY <1>2, <2>1
  <1>4. PICK f : Summing(s, k - 1, f)
    <2>1. k - 1 \in 0 .. n /\ ~(k <= k - 1)
      BY <1>2, <1>3
    <2> QED
      BY <1>1, <2>1
  <1>5. \A i \in 1 .. k - 1 : f[i] = IF i = 1 THEN s[i] ELSE f[i - 1] \o s[i]
    <2>1. k - 1 \in Nat
      BY <1>2, <1>3
    <2> QED
      BY <1>4, <2>1, SummingAt
  <1> DEFINE value == IF k = 1 THEN s[k] ELSE f[k - 1] \o s[k]
             g == [i \in 1 .. k |-> IF i = k THEN value ELSE f[i]]
  <1>6. g = [i \in 1 .. k |-> g[i]] /\ g[k] = value /\ \A i \in 1 .. k - 1 : g[i] = f[i]
    <2>1. k \in 1 .. k /\ \A i \in 1 .. k - 1 : i \in 1 .. k /\ i # k
      BY <1>2, <1>3
    <2> HIDE DEF value
    <2> QED
      BY <2>1
  <1> HIDE DEF g
  <1>7. \A i \in 1 .. k : g[i] = IF i = 1 THEN s[i] ELSE g[i - 1] \o s[i]
    <2> TAKE i \in 1 .. k
    <2>1. CASE i = k
      <3>1. k = 1 \/ k - 1 \in 1 .. k - 1
        BY <1>2, <1>3
      <3> QED
        BY <1>6, <2>1, <3>1 DEF value
    <2>2. CASE i # k
      <3>1. i \in 1 .. k - 1 /\ (i = 1 \/ i - 1 \in 1 .. k - 1)
        BY <1>2, <2>2
      <3> QED
        BY <1>5, <1>6, <3>1
    <2> QED
      BY <2>1, <2>2
  <1>8. Summing(s, k, g)
    BY <1>2, <1>6, <1>7, SummingAt
  <1> QED
    BY <1>2, <1>8

\* ... and that one of a longer sequence goes on from there.
Same(f, g, n) == \A i \in 1 .. n : f[i] = g[i]

LEMMA SummingOnce ==
  ASSUME NEW s, NEW t, NEW n \in Nat, NEW m \in Nat, NEW f, NEW g,
         n <= m, Summing(s, n, f), Summing(t, m, g), Same(s, t, n)
  PROVE  Same(f, g, n)
  <1> DEFINE Bad == {i \in 1 .. n : f[i] # g[i]}
  <1> SUFFICES ASSUME Bad # {} PROVE FALSE
    BY DEF Same
  <1>1. PICK k \in Bad : \A j \in Bad : k <= j
    <2>1. Bad \subseteq 0 .. n
      OBVIOUS
    <2> HIDE DEF Bad
    <2> QED
      BY <2>1, Least
  <1>2. k \in 1 .. n /\ k \in 1 .. m /\ f[k] # g[k] /\ k \in Nat
    BY <1>1
  <1>3. k = 1 \/ f[k - 1] = g[k - 1]
    <2>1. k = 1 \/ (k - 1 \in 1 .. n /\ ~(k <= k - 1))
      BY <1>2
    <2> QED
      BY <1>1, <2>1
  <1>4. /\ f[k] = IF k = 1 THEN s[k] ELSE f[k - 1] \o s[k]
        /\ g[k] = IF k = 1 THEN t[k] ELSE g[k - 1] \o t[k]
    BY <1>2, SummingAt
  <1> QED
    BY <1>2, <1>3, <1>4 DEF Same

\* So it is what the library's operator chooses.
LEMMA FlattenIs ==
  ASSUME NEW S, NEW s \in Seq(Seq(S)), s # <<>>
  PROVE  \E f : Summing(s, Len(s), f) /\ FlattenSeq(s) = f[Len(s)]
  <1>1. Len(s) \in Nat /\ Len(s) # 0
    OBVIOUS
  <1> DEFINE fl == CHOOSE f : f = [i \in 1 .. Len(s) |-> IF i = 1 THEN s[i] ELSE f[i - 1] \o s[i]]
  <1>2. Summing(s, Len(s), fl)
    <2>1. \E f : f = [i \in 1 .. Len(s) |-> IF i = 1 THEN s[i] ELSE f[i - 1] \o s[i]]
      BY <1>1, SummingExists, Zenon DEF Summing
    <2>2. fl = [i \in 1 .. Len(s) |-> IF i = 1 THEN s[i] ELSE fl[i - 1] \o s[i]]
      BY <2>1, Zenon
    <2> HIDE DEF fl
    <2> QED
      BY <2>2 DEF Summing
  <1>3. FlattenSeq(s) = fl[Len(s)]
    BY <1>1, Zenon DEF FlattenSeq
  <1> HIDE DEF fl
  <1> QED
    BY <1>2, <1>3

LEMMA AppendedAt ==
  ASSUME NEW I, NEW s \in Seq(I), NEW x \in I
  PROVE  /\ Len(s) \in Nat /\ Append(s, x) \in Seq(I)
         /\ Append(s, x) # <<>> /\ Len(Append(s, x)) = Len(s) + 1
         /\ Append(s, x)[Len(s) + 1] = x
         /\ \A i \in 1 .. Len(s) : Append(s, x)[i] = s[i]
  OBVIOUS

\* One more sequence is put at the end.
LEMMA FlattenGrows ==
  ASSUME NEW S, NEW s \in Seq(Seq(S)), NEW x \in Seq(S), FlattenSeq(s) \in Seq(S)
  PROVE  FlattenSeq(Append(s, x)) = FlattenSeq(s) \o x
  <1> DEFINE t == Append(s, x)
             n == Len(s)
  <1>1. /\ n \in Nat /\ t \in Seq(Seq(S)) /\ t # <<>> /\ Len(t) = n + 1
        /\ t[n + 1] = x /\ \A i \in 1 .. n : t[i] = s[i]
    <2> DEFINE I == Seq(S)
    <2>1. s \in Seq(I) /\ x \in I
      OBVIOUS
    <2> HIDE DEF I
    <2>2. /\ n \in Nat /\ t \in Seq(I) /\ t # <<>> /\ Len(t) = n + 1
          /\ t[n + 1] = x /\ \A i \in 1 .. n : t[i] = s[i]
      BY <2>1, AppendedAt
    <2> HIDE DEF t, n
    <2> QED
      BY <2>2 DEF I
  <1>2. s = <<>> <=> n = 0
    OBVIOUS
  <1> HIDE DEF t, n
  <1>3. PICK g : Summing(t, n + 1, g) /\ FlattenSeq(t) = g[n + 1]
    BY <1>1, FlattenIs
  <1>4. g[n + 1] = IF n + 1 = 1 THEN x ELSE g[n] \o x
    <2>1. n + 1 \in Nat /\ n + 1 \in 1 .. (n + 1) /\ (n + 1) - 1 = n
      BY <1>1
    <2> QED
      BY <1>1, <1>3, <2>1, SummingAt
  <1>5. CASE n = 0
    <2>1. s = <<>> /\ FlattenSeq(s) = <<>>
      <3>1. Len(<<>>) = 0
        OBVIOUS
      <3> QED
        BY <1>2, <1>5, <3>1 DEF FlattenSeq
    <2>2. <<>> \o x = x
      BY ConcatEmptySeq
    <2> QED
      BY <1>3, <1>4, <1>5, <2>1, <2>2 DEF t
  <1>6. CASE n # 0
    <2>1. PICK f : Summing(s, n, f) /\ FlattenSeq(s) = f[n]
      BY <1>2, <1>6, FlattenIs DEF n
    <2>2. n <= n + 1 /\ n + 1 \in Nat /\ n \in 1 .. n /\ n + 1 # 1
      BY <1>1, <1>6
    <2>3. Same(s, t, n)
      BY <1>1 DEF Same
    <2>4. Same(f, g, n)
      BY <1>1, <1>3, <2>1, <2>2, <2>3, SummingOnce
    <2>5. f[n] = g[n]
      BY <2>2, <2>4 DEF Same
    <2> QED
      BY <1>3, <1>4, <2>1, <2>2, <2>5 DEF t
  <1> QED
    BY <1>5, <1>6

-----------------------------------------------------------------------------
(* The line that all items stand in, from the first one collected to the last one merged *)

\* No item comes twice, nor, if order is kept, behind a later one of its feed.
Precedes(v, w, kept) == v # w /\ (kept /\ v[1] = w[1] => v[2] < w[2])
Sorted(q, kept) == \A j, k \in DOMAIN q : j < k => Precedes(q[j], q[k], kept)
Before(p, q, kept) == \A v \in ToSet(p), w \in ToSet(q) : Precedes(v, w, kept)

\* Two sequences, one behind the other.
LEMMA SortedJoins ==
  ASSUME NEW V, NEW p \in Seq(V), NEW q \in Seq(V), NEW kept
  PROVE  /\ p \o q \in Seq(V)
         /\ ToSet(p \o q) = ToSet(p) \cup ToSet(q)
         /\ Sorted(p \o q, kept) <=> Sorted(p, kept) /\ Sorted(q, kept) /\ Before(p, q, kept)
  <1> DEFINE r == p \o q
             m == Len(p)
             n == Len(q)
  <1>1. m \in Nat /\ n \in Nat /\ DOMAIN p = 1 .. m /\ DOMAIN q = 1 .. n
    OBVIOUS
  <1>2. /\ r \in Seq(V) /\ Len(r) = m + n
        /\ \A i \in 1 .. (m + n) : r[i] = IF i <= m THEN p[i] ELSE q[i - m]
    BY ConcatProperties
  <1>3. DOMAIN r = 1 .. (m + n)
    BY <1>2
  <1> HIDE DEF r, m, n
  <1>4. /\ \A i \in 1 .. m : i \in 1 .. (m + n) /\ r[i] = p[i]
        /\ \A i \in 1 .. n : m + i \in 1 .. (m + n) /\ r[m + i] = q[i]
    <2>1. \A i \in 1 .. n : m + i \in 1 .. (m + n) /\ ~(m + i <= m) /\ (m + i) - m = i
      BY <1>1
    <2>2. \A i \in 1 .. m : i \in 1 .. (m + n) /\ i <= m
      BY <1>1
    <2> QED
      BY <1>2, <2>1, <2>2
  <1>5. \A i \in 1 .. (m + n) : i \in 1 .. m \/ (i - m \in 1 .. n /\ m + (i - m) = i)
    BY <1>1
  <1>6. ToSet(r) = ToSet(p) \cup ToSet(q)
    <2>1. ASSUME NEW v \in ToSet(r)
          PROVE  v \in ToSet(p) \cup ToSet(q)
      <3>1. PICK i \in 1 .. (m + n) : v = r[i]
        BY <1>3 DEF ToSet
      <3>2. CASE i \in 1 .. m
        <4>1. v = p[i]
          BY <1>4, <3>1, <3>2
        <4> QED
          BY <1>1, <3>2, <4>1 DEF ToSet
      <3>3. CASE i - m \in 1 .. n /\ m + (i - m) = i
        <4>1. v = q[i - m]
          BY <1>4, <3>1, <3>3
        <4> QED
          BY <1>1, <3>3, <4>1 DEF ToSet
      <3> QED
        BY <1>5, <3>2, <3>3
    <2>2. ASSUME NEW v \in ToSet(p) \cup ToSet(q)
          PROVE  v \in ToSet(r)
      <3>1. CASE v \in ToSet(p)
        <4>1. PICK i \in 1 .. m : v = p[i]
          BY <1>1, <3>1 DEF ToSet
        <4> QED
          BY <1>3, <1>4, <4>1 DEF ToSet
      <3>2. CASE v \in ToSet(q)
        <4>1. PICK i \in 1 .. n : v = q[i]
          BY <1>1, <3>2 DEF ToSet
        <4> QED
          BY <1>3, <1>4, <4>1 DEF ToSet
      <3> QED
        BY <3>1, <3>2
    <2> QED
      BY <2>1, <2>2
  <1>7. ASSUME Sorted(r, kept)
        PROVE  Sorted(p, kept) /\ Sorted(q, kept) /\ Before(p, q, kept)
    <2>1. Sorted(p, kept)
      BY <1>1, <1>3, <1>4, <1>7 DEF Sorted
    <2>2. Sorted(q, kept)
      <3> SUFFICES ASSUME NEW j \in 1 .. n, NEW k \in 1 .. n, j < k
                   PROVE  Precedes(q[j], q[k], kept)
        BY <1>1 DEF Sorted
      <3>1. m + j < m + k
        BY <1>1
      <3> QED
        BY <1>3, <1>4, <1>7, <3>1 DEF Sorted
    <2>3. Before(p, q, kept)
      <3> SUFFICES ASSUME NEW j \in 1 .. m, NEW k \in 1 .. n
                   PROVE  Precedes(p[j], q[k], kept)
        BY <1>1 DEF Before, ToSet
      <3>1. j < m + k
        BY <1>1
      <3> QED
        BY <1>3, <1>4, <1>7, <3>1 DEF Sorted
    <2> QED
      BY <2>1, <2>2, <2>3
  <1>8. ASSUME Sorted(p, kept), Sorted(q, kept), Before(p, q, kept)
        PROVE  Sorted(r, kept)
    <2> SUFFICES ASSUME NEW j \in 1 .. (m + n), NEW k \in 1 .. (m + n), j < k
                 PROVE  Precedes(r[j], r[k], kept)
      BY <1>3 DEF Sorted
    <2>1. CASE k \in 1 .. m
      <3>1. j \in 1 .. m
        BY <1>1, <2>1
      <3> QED
        BY <1>1, <1>4, <1>8, <2>1, <3>1 DEF Sorted
    <2>2. CASE j \in 1 .. m /\ k - m \in 1 .. n /\ m + (k - m) = k
      <3>1. r[j] = p[j] /\ r[k] = q[k - m]
        BY <1>4, <2>2
      <3>2. r[j] \in ToSet(p) /\ r[k] \in ToSet(q)
        BY <1>1, <2>2, <3>1 DEF ToSet
      <3> QED
        BY <1>8, <3>2 DEF Before
    <2>3. CASE /\ j - m \in 1 .. n /\ m + (j - m) = j
               /\ k - m \in 1 .. n /\ m + (k - m) = k
      <3>1. r[j] = q[j - m] /\ r[k] = q[k - m] /\ j - m < k - m
        BY <1>1, <1>4, <2>3
      <3> QED
        BY <1>1, <1>8, <2>3, <3>1 DEF Sorted
    <2> QED
      BY <1>5, <2>1, <2>2, <2>3
  <1> QED
    BY <1>2, <1>6, <1>7, <1>8 DEF r

\* At most one item.
LEMMA SortedShort ==
  ASSUME NEW V, NEW kept
  PROVE  /\ <<>> \in Seq(V) /\ ToSet(<<>>) = {} /\ Sorted(<<>>, kept)
         /\ \A v \in V : <<v>> \in Seq(V) /\ ToSet(<<v>>) = {v} /\ Sorted(<<v>>, kept)
  <1>1. <<>> \in Seq(V) /\ ToSet(<<>>) = {} /\ Sorted(<<>>, kept)
    <2>1. DOMAIN <<>> = {}
      OBVIOUS
    <2> QED
      BY <2>1 DEF ToSet, Sorted
  <1>2. ASSUME NEW v \in V
        PROVE  <<v>> \in Seq(V) /\ ToSet(<<v>>) = {v} /\ Sorted(<<v>>, kept)
    <2>1. <<v>> \in Seq(V) /\ DOMAIN <<v>> = {1} /\ <<v>>[1] = v
      OBVIOUS
    <2>2. ToSet(<<v>>) = {v}
      BY <2>1 DEF ToSet
    <2>3. Sorted(<<v>>, kept)
      BY <2>1 DEF Sorted
    <2> QED
      BY <2>1, <2>2, <2>3
  <1> QED
    BY <1>1, <1>2

\* One is taken out from where it stands.
LEMMA SortedWithout ==
  ASSUME NEW V, NEW q \in Seq(V), NEW kept, kept = FALSE, Sorted(q, kept), NEW k \in DOMAIN q
  PROVE  /\ RemoveAt(q, k) \in Seq(V)
         /\ ToSet(RemoveAt(q, k)) = ToSet(q) \ {q[k]}
         /\ Sorted(RemoveAt(q, k), kept)
         /\ q[k] \in V /\ q[k] \in ToSet(q)
  <1>1. \A p \in Seq(V) : Sorted(p, kept) <=> IsInjective(p)
    <2> TAKE p \in Seq(V)
    <2>1. DOMAIN p = 1 .. Len(p) /\ Len(p) \in Nat
      OBVIOUS
    <2>2. \A i, j \in DOMAIN p : i = j \/ i < j \/ j < i
      BY <2>1
    <2>3. \A i, j \in DOMAIN p : ~(i < j /\ i = j)
      BY <2>1
    <2> QED
      BY <2>2, <2>3 DEF Sorted, IsInjective, Precedes
  <1>2. q[k] \in V /\ q[k] \in ToSet(q) /\ DOMAIN q = 1 .. Len(q)
    BY DEF ToSet
  <1> DEFINE v == q[k]
  <1> HIDE DEF v
  <1> DEFINE c == CHOOSE n \in DOMAIN q : q[n] = v
  <1>3. IsInjective(q)
    BY <1>1
  <1>4. c = k
    <2>1. c \in DOMAIN q /\ q[c] = q[k]
      BY DEF v
    <2> HIDE DEF c
    <2> QED
      BY <1>3, <2>1 DEF IsInjective
  <1>5. /\ RemoveAt(q, c) \in Seq(V)
        /\ ToSet(RemoveAt(q, c)) = ToSet(q) \ {v}
        /\ IsInjective(RemoveAt(q, c))
    <2>1. v \in ToSet(q)
      BY <1>2 DEF v
    <2> QED
      BY <1>3, <2>1, RemovedFacts
  <1> HIDE DEF c
  <1> QED
    BY <1>1, <1>2, <1>4, <1>5 DEF v

\* The line: eight places, of which each holds a sequence of items.
Places == 1 .. 8
Lines == [Places -> Seq(Values)]
InOrder(l, kept) ==
  /\ \A i \in Places : Sorted(l[i], kept)
  /\ \A i, j \in Places : i < j => Before(l[i], l[j], kept)
On(l) == UNION {ToSet(l[i]) : i \in Places}
Beside(l, m, k) == \A i \in Places : i \in {k, k + 1} \/ m[i] = l[i]

\* Some go on to the place in front of theirs, ...
LEMMA GoesForward ==
  ASSUME NEW kept, NEW l \in Lines, NEW m \in Lines, InOrder(l, kept), NEW k \in Places, k + 1 \in Places,
         Beside(l, m, k),
         l[k] \o l[k + 1] = m[k] \o m[k + 1]
  PROVE  InOrder(m, kept) /\ On(m) = On(l)
  <1> DEFINE both == l[k] \o l[k + 1]
             p == l[k]
             q == l[k + 1]
  <1>1. l[k] \in Seq(Values) /\ l[k + 1] \in Seq(Values) /\ m[k] \in Seq(Values) /\ m[k + 1] \in Seq(Values)
    BY DEF Lines
  <1>2. k < k + 1
    BY DEF Places
  <1>3. Sorted(both, kept) /\ ToSet(both) = ToSet(l[k]) \cup ToSet(l[k + 1])
    <2>1. p \in Seq(Values) /\ q \in Seq(Values) /\ Sorted(p, kept) /\ Sorted(q, kept) /\ Before(p, q, kept)
      BY <1>1, <1>2 DEF InOrder
    <2> HIDE DEF p, q
    <2>2. Sorted(p \o q, kept) /\ ToSet(p \o q) = ToSet(p) \cup ToSet(q)
      BY <2>1, SortedJoins
    <2> QED
      BY <2>2 DEF p, q
  <1>4. both = m[k] \o m[k + 1]
    OBVIOUS
  <1> HIDE DEF both
  <1>5. /\ Sorted(m[k], kept) /\ Sorted(m[k + 1], kept) /\ Before(m[k], m[k + 1], kept)
        /\ ToSet(both) = ToSet(m[k]) \cup ToSet(m[k + 1])
    BY <1>1, <1>3, <1>4, SortedJoins
  <1>6. \A i \in Places : i # k /\ i # k + 1 => m[i] = l[i] /\ (i < k => i < k + 1) /\ (k < i => k + 1 < i)
                          /\ (k + 1 < i => k < i) /\ (i < k + 1 => i < k)
    BY DEF Places, Beside
  <1>7. ASSUME NEW i \in Places, i # k, i # k + 1, i < k
        PROVE  Before(l[i], m[k], kept) /\ Before(l[i], m[k + 1], kept)
    BY <1>3, <1>5, <1>6, <1>7 DEF InOrder, Before
  <1>8. ASSUME NEW i \in Places, i # k, i # k + 1, k < i
        PROVE  Before(m[k], l[i], kept) /\ Before(m[k + 1], l[i], kept)
    BY <1>3, <1>5, <1>6, <1>8 DEF InOrder, Before
  <1>9. ASSUME NEW i \in Places, NEW j \in Places, i < j
        PROVE  Before(m[i], m[j], kept)
    <2>1. CASE i \notin {k, k + 1} /\ j \notin {k, k + 1}
      BY <1>6, <1>9, <2>1 DEF InOrder
    <2>2. CASE i \in {k, k + 1} /\ j \notin {k, k + 1}
      BY <1>6, <1>8, <1>9, <2>2
    <2>3. CASE i \notin {k, k + 1} /\ j \in {k, k + 1}
      BY <1>6, <1>7, <1>9, <2>3
    <2>4. CASE i \in {k, k + 1} /\ j \in {k, k + 1}
      <3>1. i = k /\ j = k + 1
        BY <1>9, <2>4 DEF Places
      <3> QED
        BY <1>5, <3>1
    <2> QED
      BY <2>1, <2>2, <2>3, <2>4
  <1>10. \A i \in Places : Sorted(m[i], kept)
    BY <1>5, <1>6 DEF InOrder
  <1>11. On(m) = On(l)
    BY <1>3, <1>5, <1>6 DEF On
  <1> QED
    BY <1>9, <1>10, <1>11 DEF InOrder

\* ... some leave it, ...
LEMMA Leaving ==
  ASSUME NEW kept, NEW l \in Lines, NEW m \in Lines, InOrder(l, kept),
         \A i \in Places : m[i] \in {l[i], <<>>}
  PROVE  InOrder(m, kept) /\ On(m) \subseteq On(l)
  <1>1. \A i \in Places : ToSet(m[i]) \subseteq ToSet(l[i]) /\ (m[i] = l[i] \/ Sorted(m[i], kept))
    BY SortedShort
  <1> QED
    BY <1>1 DEF InOrder, Before, On

\* ... where order is not kept one may go on before its turn, ...
LEMMA GoesOutOfTurn ==
  ASSUME NEW kept, kept = FALSE, NEW l \in Lines, NEW m \in Lines, InOrder(l, kept),
         NEW k \in Places, k + 1 \in Places,
         Beside(l, m, k),
         l[k] = <<>>,
         NEW n \in DOMAIN l[k + 1], m[k] = <<l[k + 1][n]>>, m[k + 1] = RemoveAt(l[k + 1], n)
  PROVE  InOrder(m, kept) /\ On(m) = On(l)
  <1> DEFINE q == l[k + 1]
             v == q[n]
  <1>1. q \in Seq(Values) /\ Sorted(q, kept)
    BY DEF Lines, InOrder
  <1>2. /\ ToSet(m[k + 1]) = ToSet(q) \ {v} /\ Sorted(m[k + 1], kept) /\ v \in Values /\ v \in ToSet(q)
    <2>1. n \in DOMAIN q /\ m[k + 1] = RemoveAt(q, n)
      OBVIOUS
    <2> HIDE DEF q, v
    <2>2. q \in Seq(Values) /\ kept = FALSE /\ Sorted(q, kept) /\ n \in DOMAIN q
      BY <1>1, <2>1
    <2>3. /\ ToSet(RemoveAt(q, n)) = ToSet(q) \ {q[n]} /\ Sorted(RemoveAt(q, n), kept)
          /\ q[n] \in Values /\ q[n] \in ToSet(q)
      BY ONLY <2>2, SortedWithout
    <2> QED
      BY <2>1, <2>3 DEF v
  <1>3. ToSet(m[k]) = {v} /\ Sorted(m[k], kept) /\ ToSet(l[k]) = {}
    <2>1. m[k] = <<v>> /\ l[k] = <<>>
      OBVIOUS
    <2> HIDE DEF v
    <2> QED
      BY ONLY <1>2, <2>1, SortedShort
  <1> HIDE DEF v
  <1>4. \A x, y : Precedes(x, y, kept) <=> x # y
    BY DEF Precedes
  <1>5. \A i, j \in Places : i < j => ToSet(l[i]) \cap ToSet(l[j]) = {}
    BY <1>4 DEF InOrder, Before
  <1>6. \A i, j \in Places : i # j => ToSet(l[i]) \cap ToSet(l[j]) = {}
    <2>1. \A i, j \in Places : i # j => i < j \/ j < i
      BY DEF Places
    <2> QED
      BY <1>5, <2>1
  <1>7. \A i \in Places : i # k /\ i # k + 1 => ToSet(m[i]) = ToSet(l[i])
    BY DEF Beside
  <1>8. k # k + 1
    BY DEF Places
  <1>9. \A i, j \in Places : i # j => ToSet(m[i]) \cap ToSet(m[j]) = {}
    <2> DEFINE S == [i \in Places |-> ToSet(l[i])]
               R == [i \in Places |-> ToSet(m[i])]
    <2>1. /\ \A i \in Places : i # k /\ i # k + 1 => R[i] = S[i]
          /\ R[k] = {v} /\ R[k + 1] \subseteq S[k + 1] /\ v \notin R[k + 1] /\ v \in S[k + 1]
          /\ \A i, j \in Places : i # j => S[i] \cap S[j] = {}
          /\ \A i \in Places : R[i] = ToSet(m[i])
      BY <1>2, <1>3, <1>6, <1>7
    <2> HIDE DEF S, R
    <2>2. ASSUME NEW i \in Places, i # k
          PROVE  R[i] \subseteq S[i] /\ v \notin R[i]
      BY <1>8, <2>1, <2>2
    <2>3. ASSUME NEW i \in Places, NEW j \in Places, i # j
          PROVE  R[i] \cap R[j] = {}
      <3>1. CASE i # k /\ j # k
        <4>1. R[i] \subseteq S[i] /\ R[j] \subseteq S[j] /\ S[i] \cap S[j] = {}
          BY <2>1, <2>2, <2>3, <3>1
        <4> QED
          BY <4>1
      <3>2. CASE i = k
        BY <2>1, <2>2, <2>3, <3>2
      <3>3. CASE j = k
        BY <2>1, <2>2, <2>3, <3>3
      <3> QED
        BY <3>1, <3>2, <3>3
    <2> QED
      BY <2>1, <2>3
  <1>10. \A i, j \in Places : i < j => Before(m[i], m[j], kept)
    <2>1. \A i, j \in Places : i < j => i # j
      BY DEF Places
    <2> QED
      BY <1>4, <1>9, <2>1 DEF Before
  <1>11. \A i \in Places : Sorted(m[i], kept)
    <2>1. \A i \in Places : i = k \/ i = k + 1 \/ m[i] = l[i]
      BY DEF Beside
    <2> QED
      BY <1>2, <1>3, <2>1 DEF InOrder
  <1>12. On(m) = On(l)
    BY <1>2, <1>3, <1>7 DEF On
  <1> QED
    BY <1>10, <1>11, <1>12 DEF InOrder

\* ... and one joins at the end.
LEMMA Joining ==
  ASSUME NEW kept, NEW l \in Lines, NEW m \in Lines, InOrder(l, kept), NEW v \in Values,
         \A i \in 1 .. 7 : m[i] = l[i], l[8] = <<>>, m[8] = <<v>>,
         \A w \in On(l) : Precedes(w, v, kept)
  PROVE  InOrder(m, kept) /\ On(m) = On(l) \cup {v}
  <1>1. ToSet(m[8]) = {v} /\ Sorted(m[8], kept) /\ ToSet(l[8]) = {}
    BY SortedShort
  <1>2. \A i \in Places : (i \in 1 .. 7 \/ i = 8) /\ ~(8 < i)
    BY DEF Places
  <1>3. \A i \in Places : i = 8 \/ m[i] = l[i]
    BY <1>2
  <1>4. 8 \in Places
    BY DEF Places
  <1>5. On(m) = On(l) \cup {v}
    BY <1>1, <1>3, <1>4 DEF On
  <1>6. \A i \in Places : Sorted(m[i], kept)
    BY <1>1, <1>3 DEF InOrder
  <1>7. ASSUME NEW i \in Places, NEW j \in Places, i < j
        PROVE  Before(m[i], m[j], kept)
    <2>1. i # 8 /\ m[i] = l[i]
      BY <1>2, <1>3, <1>7
    <2>2. CASE j = 8
      BY <1>1, <2>1, <2>2 DEF Before, On
    <2>3. CASE j # 8
      BY <1>3, <1>7, <2>1, <2>3 DEF InOrder
    <2> QED
      BY <2>2, <2>3
  <1> QED
    BY <1>5, <1>6, <1>7 DEF InOrder

\* What one stage does to its place j, to its caller's in front of it, i, and to
\* that of its source behind it, k.
StageStep(kept, l, m, i, j, k, held, rest, now, left, leaves) ==
  /\ i \in {2, 4, 6} /\ j = i + 1 /\ k = i + 2
  /\ \A p \in Places : p \in {i, j, k} \/ m[p] = l[p]
  /\ left => leaves
  /\ l[j] = IF left THEN <<>> ELSE held
  /\ m[j] = IF leaves THEN <<>> ELSE rest
  /\ \/ now = held /\ m[k] = l[k]
     \/ now = held \o l[k] /\ m[k] = <<>>
  /\ \/ leaves /\ m[i] = l[i]
     \/ ~leaves /\ m[i] = l[i] /\ rest = now
     \/ ~leaves /\ l[i] = <<>> /\ now = m[i] \o rest
     \/ /\ ~leaves /\ l[i] = <<>> /\ ~kept
        /\ \E n \in DOMAIN now : m[i] = <<now[n]>> /\ rest = RemoveAt(now, n)

\* Nobody is overtaken, and nothing gets lost unless the stage has left.
StageMoved(kept, l, m, k, now, left, leaves) ==
  /\ InOrder(m, kept)
  /\ On(m) \subseteq On(l)
  /\ On(m) = On(l) \/ (leaves /\ IF left THEN m[k] # l[k] ELSE now # <<>>)

LEMMA StageMoves ==
  ASSUME NEW kept \in BOOLEAN, NEW l \in Lines, NEW m \in Lines, InOrder(l, kept),
         NEW i, NEW j, NEW k, NEW held \in Seq(Values), NEW rest, NEW now \in Seq(Values),
         NEW left \in BOOLEAN, NEW leaves \in BOOLEAN,
         StageStep(kept, l, m, i, j, k, held, rest, now, left, leaves)
  PROVE  StageMoved(kept, l, m, k, now, left, leaves)
  <1>1. /\ i \in Places /\ j \in Places /\ k \in Places /\ i # j /\ i # k /\ j # k
        /\ j = i + 1 /\ k = j + 1
    BY DEF Places, StageStep
  <1>2. \A p \in Places : l[p] \in Seq(Values) /\ m[p] \in Seq(Values)
    BY DEF Lines
  <1>3. CASE leaves
    <2>1. \A p \in Places : m[p] \in {l[p], <<>>}
      BY <1>3 DEF StageStep
    <2>2. InOrder(m, kept) /\ On(m) \subseteq On(l)
      BY <2>1, Leaving
    <2>3. ASSUME IF left THEN m[k] = l[k] ELSE now = <<>>
          PROVE  On(m) = On(l)
      <3>1. m[i] = l[i] /\ m[j] = <<>>
        BY <1>3 DEF StageStep
      <3>2. l[j] = <<>> /\ m[k] = l[k]
        <4>1. CASE left
          BY <2>3, <4>1 DEF StageStep
        <4>2. CASE ~left
          <5>1. now = <<>> /\ l[j] = held
            BY <2>3, <4>2 DEF StageStep
          <5>2. held \o l[k] = <<>> => held = <<>> /\ l[k] = <<>>
            BY <1>1, <1>2, ConcatEqualIffEmpty
          <5> QED
            BY <5>1, <5>2 DEF StageStep
        <4> QED
          BY <4>1, <4>2
      <3>3. \A p \in Places : m[p] = l[p]
        BY <3>1, <3>2 DEF StageStep
      <3> QED
        BY <3>3 DEF On
    <2> QED
      BY <1>3, <2>2, <2>3 DEF StageMoved
  <1>4. CASE ~leaves
    <2>1. l[j] = held /\ m[j] = rest /\ ~left
      BY <1>4 DEF StageStep
    <2> DEFINE h == [p \in Places |-> IF p = j THEN now ELSE IF p = k THEN m[k] ELSE l[p]]
    <2>2. /\ h \in Lines /\ h[j] = now /\ h[k] = m[k] /\ h[i] = l[i]
          /\ \A p \in Places : p # j /\ p # k => h[p] = l[p]
      BY <1>1, <1>2 DEF Lines
    <2> HIDE DEF h
    <2>3. l[j] \o l[k] = h[j] \o h[k]
      <3>1. CASE now = held /\ m[k] = l[k]
        BY <2>1, <2>2, <3>1
      <3>2. CASE now = held \o l[k] /\ m[k] = <<>>
        <4>1. now \o <<>> = now
          BY ConcatEmptySeq
        <4> QED
          BY <2>1, <2>2, <3>2, <4>1
      <3> QED
        BY <3>1, <3>2 DEF StageStep
    <2>4. InOrder(h, kept) /\ On(h) = On(l)
      <3>1. l[j] \o l[j + 1] = h[j] \o h[j + 1] /\ j + 1 \in Places
        BY <1>1, <2>3
      <3>2. Beside(l, h, j)
        BY <1>1, <2>2 DEF Beside
      <3> QED
        BY <1>1, <2>2, <3>1, <3>2, GoesForward
    <2>5. Beside(h, m, i) /\ i + 1 \in Places
      <3>1. \A p \in Places : p \in {i, j} \/ m[p] = h[p]
        BY <1>1, <2>2 DEF StageStep
      <3> QED
        BY <1>1, <3>1 DEF Beside
    <2>6. CASE m[i] = l[i] /\ rest = now
      <3>1. \A p \in Places : m[p] = h[p]
        BY <1>1, <2>1, <2>2, <2>5, <2>6 DEF Beside
      <3>2. m = h
        BY <2>2, <3>1 DEF Lines
      <3> QED
        BY <2>4, <3>2 DEF StageMoved
    <2>7. CASE l[i] = <<>> /\ now = m[i] \o rest
      <3>1. h[i] \o h[i + 1] = m[i] \o m[i + 1]
        <4>1. <<>> \o now = now
          BY ConcatEmptySeq
        <4> QED
          BY <1>1, <2>1, <2>2, <2>7, <4>1
      <3>2. InOrder(m, kept) /\ On(m) = On(h)
        BY <1>1, <2>2, <2>4, <2>5, <3>1, GoesForward
      <3> QED
        BY <2>4, <3>2 DEF StageMoved
    <2>8. ASSUME l[i] = <<>>, ~kept, NEW n \in DOMAIN now, m[i] = <<now[n]>>, rest = RemoveAt(now, n)
          PROVE  StageMoved(kept, l, m, k, now, left, leaves)
      <3>1. kept = FALSE /\ h[i] = <<>> /\ n \in DOMAIN h[i + 1]
            /\ m[i] = <<h[i + 1][n]>> /\ m[i + 1] = RemoveAt(h[i + 1], n)
        BY <1>1, <2>1, <2>2, <2>8
      <3>2. InOrder(m, kept) /\ On(m) = On(h)
        BY <1>1, <2>2, <2>4, <2>5, <3>1, GoesOutOfTurn
      <3> QED
        BY <2>4, <3>2 DEF StageMoved
    <2> QED
      BY <1>4, <2>6, <2>7, <2>8 DEF StageStep
  <1> QED
    BY <1>3, <1>4

-----------------------------------------------------------------------------
(* The line of the pipeline *)

\* Both invariants of before, together.
LEMMA KeptStays ==
  ASSUME Kept, [Next]_vars
  PROVE  Kept'
  <1>1. IInv
    BY DEF Kept
  <1>2. ASSUME NEW v \in torn, FnEnds(v) PROVE IInv'
    <2>1. v \in Values
      BY <1>1 DEF IInv, MapInv, A!TypeOK
    <2> QED
      BY <1>1, <1>2, <2>1, FnEnding
  <1>3. IInv'
    BY <1>1, <1>2, MergeTurns, MapTurns, FnEnding, UntilTurns, BatchTurns, UseTurns,
       Finalizing, FeedsAnswer, Stutters DEF Next, Progress
  <1> QED
    BY <1>3, FedStays DEF Kept

\* What a stage that has broken off holds will never come, and is not in the line.
Carried(call) == IF call.is = "item" THEN <<call.of>> ELSE <<>>
InBatches == IF batches.is = "item" THEN batches.of ELSE <<>>
BatchLeft == batchAt = "over"
MapLeft == mapAt \in {"unwinding", "over"}
InBatch == IF BatchLeft THEN <<>> ELSE batch
InMap == IF MapLeft THEN <<>> ELSE A!Held

\* The fifth place is take_until's, which holds nothing.
LineOf(p1, p2, p3, p4, p6, p7, p8) == <<p1, p2, p3, p4, <<>>, p6, p7, p8>>
Line == LineOf(Collected, InBatches, InBatch, Carried(taken), Carried(mapped), InMap, Carried(merged))

InPlaces(l, p1, p2, p3, p4, p6, p7, p8) ==
  /\ l \in Lines
  /\ l[1] = p1 /\ l[2] = p2 /\ l[3] = p3 /\ l[4] = p4 /\ l[5] = <<>>
  /\ l[6] = p6 /\ l[7] = p7 /\ l[8] = p8

LEMMA LineOfIs ==
  ASSUME NEW p1 \in Seq(Values), NEW p2 \in Seq(Values), NEW p3 \in Seq(Values), NEW p4 \in Seq(Values),
         NEW p6 \in Seq(Values), NEW p7 \in Seq(Values), NEW p8 \in Seq(Values)
  PROVE  InPlaces(LineOf(p1, p2, p3, p4, p6, p7, p8), p1, p2, p3, p4, p6, p7, p8)
  <1> DEFINE l == LineOf(p1, p2, p3, p4, p6, p7, p8)
  <1>1. /\ l[1] = p1 /\ l[2] = p2 /\ l[3] = p3 /\ l[4] = p4 /\ l[5] = <<>>
        /\ l[6] = p6 /\ l[7] = p7 /\ l[8] = p8
    BY DEF LineOf
  <1>2. l = [i \in Places |-> l[i]]
    BY DEF LineOf, Places
  <1> HIDE DEF l
  <1>3. \A i \in Places : i \in {1, 2, 3, 4, 5, 6, 7, 8}
    BY DEF Places
  <1>4. \A i \in Places : l[i] \in Seq(Values)
    BY <1>1, <1>3, SortedShort
  <1>5. l \in Lines
    BY <1>2, <1>4 DEF Lines
  <1> QED
    BY <1>1, <1>5 DEF l, InPlaces

LEMMA CarriedIs ==
  ASSUME NEW call, Carries(call, Values)
  PROVE  Carried(call) \in Seq(Values)
  BY SortedShort DEF Carries, Carried

\* What stands at each place.
Pieces ==
  /\ InBatches \in Seq(Values) /\ InBatch \in Seq(Values) /\ InMap \in Seq(Values)
  /\ Carried(taken) \in Seq(Values) /\ Carried(mapped) \in Seq(Values) /\ Carried(merged) \in Seq(Values)
  /\ batch \in Seq(Values) /\ A!Held \in Seq(Values)

LEMMA PiecesAre == IInv => Pieces
  <1> SUFFICES ASSUME IInv PROVE Pieces
    OBVIOUS
  <1>1. batch \in Seq(Values) /\ A!Held \in Seq(Values)
    <2>1. batch \in Seq(Values)
      BY DEF IInv, BatchInv, B!TypeOK
    <2>2. in_flight \in Seq(Values) /\ head \in Values \cup {Nothing}
      BY DEF IInv, MapInv, A!TypeOK
    <2>3. A!Held \in Seq(Values)
      BY <2>2, PushFacts DEF A!Held
    <2> QED
      BY <2>1, <2>3
  <1>2. /\ Carried(taken) \in Seq(Values) /\ Carried(mapped) \in Seq(Values)
        /\ Carried(merged) \in Seq(Values)
    BY CarriedIs DEF IInv, ItemsCarried
  <1>3. InBatches \in Seq(Values) /\ InBatch \in Seq(Values) /\ InMap \in Seq(Values)
    BY <1>1, SortedShort DEF InBatches, InBatch, InMap, IInv, ItemsCarried, Carries
  <1> QED
    BY <1>1, <1>2, <1>3 DEF Pieces

LEMMA PiecesNext == IInv' => Pieces'
  BY PiecesAre, PTL

LEMMA LineIs ==
  ASSUME Pieces, Collected \in Seq(Values)
  PROVE  /\ Line \in Lines
         /\ Line[1] = Collected /\ Line[2] = InBatches /\ Line[3] = InBatch /\ Line[4] = Carried(taken)
         /\ Line[5] = <<>> /\ Line[6] = Carried(mapped) /\ Line[7] = InMap /\ Line[8] = Carried(merged)
  <1>1. InPlaces(Line, Collected, InBatches, InBatch, Carried(taken), Carried(mapped), InMap, Carried(merged))
    <2>1. /\ InBatches \in Seq(Values) /\ InBatch \in Seq(Values) /\ InMap \in Seq(Values)
          /\ Carried(taken) \in Seq(Values) /\ Carried(mapped) \in Seq(Values)
          /\ Carried(merged) \in Seq(Values)
      BY DEF Pieces
    <2> QED
      BY <2>1, LineOfIs DEF Line
  <1> QED
    BY <1>1 DEF InPlaces

LEMMA LineNext ==
  ASSUME Pieces', Collected' \in Seq(Values)
  PROVE  /\ Line' \in Lines
         /\ Line'[1] = Collected' /\ Line'[2] = InBatches' /\ Line'[3] = InBatch'
         /\ Line'[4] = Carried(taken')
         /\ Line'[5] = <<>> /\ Line'[6] = Carried(mapped') /\ Line'[7] = InMap' /\ Line'[8] = Carried(merged')
  <1>1. Line' = LineOf(Collected', InBatches', InBatch', Carried(taken'), Carried(mapped'), InMap', Carried(merged'))
    BY DEF Line, LineOf, Carried
  <1>2. /\ InBatches' \in Seq(Values) /\ InBatch' \in Seq(Values) /\ InMap' \in Seq(Values)
        /\ Carried(taken') \in Seq(Values) /\ Carried(mapped') \in Seq(Values)
        /\ Carried(merged') \in Seq(Values)
    BY DEF Pieces, Carried
  <1>3. InPlaces(LineOf(Collected', InBatches', InBatch', Carried(taken'), Carried(mapped'), InMap', Carried(merged')),
              Collected', InBatches', InBatch', Carried(taken'), Carried(mapped'), InMap', Carried(merged'))
    BY <1>2, LineOfIs
  <1> QED
    BY <1>1, <1>3 DEF InPlaces

\* Each item stands in the line once, no item of a feed that keeps order stands behind
\* a later one, and none is there that the feed has not delivered.
LineInv ==
  /\ Collected \in Seq(Values)
  /\ InOrder(Line, ordered)
  /\ \A v \in On(Line) : /\ v[2] <= given[v[1]]
                         /\ pull[v[1]].is = "item" => v[2] < given[v[1]]

LEMMA LineValues ==
  ASSUME Pieces, LineInv
  PROVE  On(Line) \subseteq Values
  <1>1. \A i \in Places : Line[i] \in Seq(Values)
    BY LineIs DEF LineInv, Lines
  <1>2. \A q \in Seq(Values) : ToSet(q) \subseteq Values
    BY DEF ToSet
  <1> QED
    BY <1>1, <1>2 DEF On

\* What a stage does to the calls on its two sides.
LEMMA Sides ==
  ASSUME NEW c, NEW d
  PROVE  /\ Answering(c, d) /\ c.is = "item" => d = c
         /\ Asking(c, d) /\ d # c => d.is # "item"
         /\ c.is # "item" /\ d.is # "item" => Carried(d) = Carried(c)
         /\ d.is # "item" => Carried(d) = <<>>
         /\ d.is = "item" => Carried(d) = <<d.of>>
  BY DEF Answering, Asking, Runs, Landed, Answers, Carried

\* What is inside with what is taken.
LEMMA Taking ==
  ASSUME NEW V, NEW c, NEW d, Asking(c, d), Carries(c, V), NEW held \in Seq(V), NEW now,
         c.is = "item" /\ d # c => now = Append(held, c.of),
         c.is # "item" \/ d = c => now = held
  PROVE  /\ now \in Seq(V)
         /\ \/ now = held /\ Carried(d) = Carried(c)
            \/ now = held \o Carried(c) /\ Carried(d) = <<>>
         /\ Carried(d) # Carried(c) => c.is = "item"
  <1>1. CASE c.is = "item" /\ d # c
    <2>1. Carried(d) = <<>> /\ Carried(c) = <<c.of>> /\ c.of \in V
      BY <1>1, Sides DEF Carries
    <2>2. Append(held, c.of) = held \o <<c.of>> /\ Append(held, c.of) \in Seq(V)
      BY <2>1
    <2> QED
      BY <1>1, <2>1, <2>2
  <1>2. CASE d = c
    BY <1>2
  <1>3. CASE c.is # "item" /\ d # c
    BY <1>3, Sides
  <1> QED
    BY <1>1, <1>2, <1>3

\* What a step does to the line.
Stands == On(Line') = On(Line)
InLine ==
  /\ Collected' \in Seq(Values)
  /\ InOrder(Line', ordered')
  /\ On(Line') \subseteq On(Line)

\* batched, when it has left, drops what it holds, and what it is given.
BatchDrops == BatchLeft' /\ IF BatchLeft THEN taken.is = "item" ELSE BatchStream!Now # <<>>

LEMMA BatchLine ==
  ASSUME Kept, Kept', LineInv, BatchTurn \/ Expires
  PROVE  InLine /\ (Stands \/ BatchDrops)
  <1>1. /\ UNCHANGED <<mapped, merged, out, ordered>> /\ InMap' = InMap /\ Collected' = Collected
        /\ B!Step \/ B!Expires
    BY DEF BatchTurn, Expires, mapVars, useVars, InMap, MapLeft, A!Held, Collected
  <1>2. Pieces /\ Pieces' /\ ordered \in BOOLEAN
    BY PiecesAre, PiecesNext DEF Kept, IInv, MapInv, A!TypeOK
  <1> DEFINE l == Line
             m == Line'
  <1>3. /\ l \in Lines /\ l[1] = Collected /\ l[2] = InBatches /\ l[3] = InBatch /\ l[4] = Carried(taken)
        /\ l[5] = <<>> /\ l[6] = Carried(mapped) /\ l[7] = InMap /\ l[8] = Carried(merged)
    BY <1>2, LineIs DEF LineInv
  <1>4. /\ m \in Lines /\ m[1] = Collected /\ m[2] = InBatches' /\ m[3] = InBatch' /\ m[4] = Carried(taken')
        /\ m[5] = <<>> /\ m[6] = Carried(mapped) /\ m[7] = InMap /\ m[8] = Carried(merged)
    BY <1>1, <1>2, LineNext DEF LineInv
  <1>5. InOrder(l, ordered)
    BY DEF LineInv
  <1> HIDE DEF l, m
  <1>6. \A p \in Places : p \in {2, 3, 4} \/ m[p] = l[p]
    <2>1. \A p \in Places : p \in {1, 2, 3, 4, 5, 6, 7, 8}
      BY DEF Places
    <2> QED
      BY <1>3, <1>4, <2>1
  <1>7. Answering(batches, batches') /\ Asking(taken, taken') /\ (BatchLeft => BatchLeft')
    BY <1>1, BatchSided, BatchSteps, BatchExpires DEF Kept, BatchKept, BatchLeft
  <1>8. BatchStream!Next
    BY <1>1, BatchStreams
  <1> DEFINE now == BatchStream!Now
  <1>9. /\ now \in Seq(Values)
        /\ \/ now = batch /\ Carried(taken') = Carried(taken)
           \/ now = batch \o Carried(taken) /\ Carried(taken') = <<>>
        /\ Carried(taken') # Carried(taken) => taken.is = "item"
    <2>1. /\ Carries(taken, Values) /\ batch \in Seq(Values)
          /\ taken.is = "item" /\ taken' # taken => now = Append(batch, taken.of)
          /\ taken.is # "item" \/ taken' = taken => now = batch
      BY <1>2, BatchTakes DEF Kept, IInv, ItemsCarried, Pieces
    <2> HIDE DEF now
    <2> QED
      BY <1>7, <2>1, Taking
  <1>10. batches.is = "item" => batches' = batches
    BY <1>7, Sides
  <1>11. \/ BatchLeft' /\ m[2] = l[2]
         \/ ~BatchLeft' /\ m[2] = l[2] /\ batch' = now
         \/ ~BatchLeft' /\ l[2] = <<>> /\ now = m[2] \o batch'
    <2>1. batches'.is = "item" => batches.is = "item" \/ BatchStream!HandsOn
      BY <1>8 DEF BatchStream!Next, BatchStream!Passes, BatchStream!HandsOn, BatchStream!Ends,
                  BatchStream!BreaksOff, BatchStream!Says
    <2>2. CASE BatchStream!HandsOn
      <3>1. batches.is # "item" /\ batches'.is = "item" /\ ~BatchLeft /\ ~BatchLeft' /\ now = batches'.of \o batch'
        BY <2>2 DEF BatchStream!HandsOn, BatchStream!Says, Whole, BatchLeft
      <3>2. l[2] = <<>> /\ m[2] = batches'.of
        BY <1>3, <1>4, <3>1 DEF InBatches
      <3> QED
        BY <3>1, <3>2
    <2>3. CASE ~BatchStream!HandsOn
      <3>1. m[2] = l[2]
        BY <1>3, <1>4, <1>10, <2>1, <2>3 DEF InBatches
      <3>2. BatchLeft' \/ batch' = now
        BY <1>8, <2>3 DEF BatchStream!Next, BatchStream!Passes, BatchStream!Ends, BatchStream!BreaksOff, BatchLeft
      <3> QED
        BY <3>1, <3>2
    <2> QED
      BY <2>2, <2>3
  <1>12. InBatch = (IF BatchLeft THEN <<>> ELSE batch) /\ InBatch' = (IF BatchLeft' THEN <<>> ELSE batch')
    BY DEF InBatch
  <1> HIDE DEF now
  <1>13. StageMoved(ordered, l, m, 4, now, BatchLeft, BatchLeft')
    <2>1. BatchLeft \in BOOLEAN /\ BatchLeft' \in BOOLEAN /\ batch \in Seq(Values)
      BY <1>2 DEF BatchLeft, Pieces
    <2>2. \/ now = batch /\ m[4] = l[4]
          \/ now = batch \o l[4] /\ m[4] = <<>>
      BY <1>3, <1>4, <1>9
    <2>3. StageStep(ordered, l, m, 2, 3, 4, batch, batch', now, BatchLeft, BatchLeft')
      BY <1>3, <1>4, <1>6, <1>7, <1>11, <1>12, <2>2 DEF StageStep
    <2> QED
      BY <1>2, <1>3, <1>4, <1>5, <1>9, <2>1, <2>3, StageMoves
  <1>14. On(m) = On(l) \/ BatchDrops
    BY <1>3, <1>4, <1>9, <1>13 DEF BatchDrops, StageMoved, now
  <1> QED
    BY <1>1, <1>13, <1>14 DEF InLine, Stands, StageMoved, LineInv, l, m

\* take_until, which holds nothing.
UntilLeft == untilAt \in {"unwinding", "over"}
UntilDrops == UntilLeft' /\ IF UntilLeft THEN mapped.is = "item" ELSE UntilStream!Now # <<>>

LEMMA UntilLine ==
  ASSUME Kept, Kept', LineInv, UntilTurn \/ SetEvent
  PROVE  InLine /\ (Stands \/ UntilDrops)
  <1>1. /\ UNCHANGED <<batches, merged, out, ordered>> /\ InMap' = InMap /\ InBatch' = InBatch
        /\ InBatches' = InBatches /\ Collected' = Collected
    BY DEF UntilTurn, SetEvent, mapVars, batchVars, useVars, InMap, MapLeft, InBatch, BatchLeft, InBatches,
           A!Held, Collected
  <1>2. Pieces /\ Pieces' /\ ordered \in BOOLEAN
    BY PiecesAre, PiecesNext DEF Kept, IInv, MapInv, A!TypeOK
  <1> DEFINE l == Line
             m == Line'
  <1>3. /\ l \in Lines /\ l[1] = Collected /\ l[2] = InBatches /\ l[3] = InBatch /\ l[4] = Carried(taken)
        /\ l[5] = <<>> /\ l[6] = Carried(mapped) /\ l[7] = InMap /\ l[8] = Carried(merged)
    BY <1>2, LineIs DEF LineInv
  <1>4. /\ m \in Lines /\ m[1] = Collected /\ m[2] = InBatches /\ m[3] = InBatch /\ m[4] = Carried(taken')
        /\ m[5] = <<>> /\ m[6] = Carried(mapped') /\ m[7] = InMap /\ m[8] = Carried(merged)
    BY <1>1, <1>2, LineNext DEF LineInv
  <1>5. InOrder(l, ordered)
    BY DEF LineInv
  <1> HIDE DEF l, m
  <1>6. \A p \in Places : p \in {4, 5, 6} \/ m[p] = l[p]
    <2>1. \A p \in Places : p \in {1, 2, 3, 4, 5, 6, 7, 8}
      BY DEF Places
    <2> QED
      BY <1>3, <1>4, <2>1
  <1>7. Answering(taken, taken') /\ Asking(mapped, mapped')
    BY Neighbours
  <1>8. UntilStream!Next \/ (taken' = taken /\ mapped' = mapped /\ UntilLeft' = UntilLeft)
    <2>1. CASE UntilTurn
      <3>1. Only(mapped)["source"] = mapped /\ Only(mapped)' = Only(mapped') /\ Only(mapped')["source"] = mapped'
        BY DEF Only
      <3>2. UntilStream!Next \/ (Only(mapped)' = Only(mapped) /\ taken' = taken /\ UntilLeft' = UntilLeft)
        BY <2>1, UntilStreams DEF UntilTurn, UntilStream!vars, UntilLeft
      <3> QED
        BY <3>1, <3>2
    <2>2. CASE SetEvent
      BY <2>2 DEF SetEvent, T!Set, UntilLeft
    <2> QED
      BY <2>1, <2>2
  <1>9. UntilLeft => UntilLeft'
    BY <1>8 DEF UntilStream!Next, UntilStream!Passes, UntilStream!HandsOn, UntilStream!Ends,
                UntilStream!BreaksOff, UntilLeft
  <1> DEFINE now == UntilStream!Now
             none == <<>>
  <1>10. /\ now \in Seq(Values)
         /\ \/ now = none /\ Carried(mapped') = Carried(mapped)
            \/ now = none \o Carried(mapped) /\ Carried(mapped') = <<>>
         /\ Carried(mapped') # Carried(mapped) => mapped.is = "item"
    <2>1. /\ Carries(mapped, Values) /\ none \in Seq(Values)
          /\ mapped.is = "item" /\ mapped' # mapped => now = Append(none, mapped.of)
          /\ mapped.is # "item" \/ mapped' = mapped => now = none
      BY SortedShort, UntilTakes DEF Kept, IInv, ItemsCarried
    <2> HIDE DEF now, none
    <2> QED
      BY <1>7, <2>1, Taking
  <1>11. taken.is = "item" => taken' = taken
    BY <1>7, Sides
  <1>12. \/ UntilLeft' /\ m[4] = l[4]
         \/ ~UntilLeft' /\ m[4] = l[4] /\ none = now
         \/ ~UntilLeft' /\ l[4] = <<>> /\ now = m[4] \o none
    <2>1. taken'.is = "item" => taken.is = "item" \/ UntilStream!HandsOn
      BY <1>8 DEF UntilStream!Next, UntilStream!Passes, UntilStream!HandsOn, UntilStream!Ends,
                  UntilStream!BreaksOff, UntilStream!Says
    <2>2. CASE UntilStream!HandsOn
      <3>1. taken.is # "item" /\ taken'.is = "item" /\ ~UntilLeft /\ ~UntilLeft' /\ now = <<taken'.of>> \o <<>>
        BY <2>2 DEF UntilStream!HandsOn, UntilStream!Says, Just, UntilLeft
      <3>2. l[4] = <<>> /\ m[4] = <<taken'.of>>
        BY <1>3, <1>4, <3>1 DEF Carried
      <3> QED
        BY <3>1, <3>2
    <2>3. CASE ~UntilStream!HandsOn
      <3>1. m[4] = l[4]
        BY <1>3, <1>4, <1>11, <2>1, <2>3 DEF Carried
      <3>2. UntilLeft' \/ none = now
        BY <1>8, <2>3, UntilTakes
        DEF UntilStream!Next, UntilStream!Passes, UntilStream!Ends, UntilStream!BreaksOff, UntilLeft
      <3> QED
        BY <3>1, <3>2
    <2> QED
      BY <2>2, <2>3
  <1>13. none = <<>>
    OBVIOUS
  <1>14. none \in Seq(Values)
    BY SortedShort
  <1> HIDE DEF now, none
  <1>15. StageMoved(ordered, l, m, 6, now, UntilLeft, UntilLeft')
    <2>1. UntilLeft \in BOOLEAN /\ UntilLeft' \in BOOLEAN
      BY DEF UntilLeft
    <2>2. \/ now = none /\ m[6] = l[6]
          \/ now = none \o l[6] /\ m[6] = <<>>
      BY <1>3, <1>4, <1>10
    <2>3. StageStep(ordered, l, m, 4, 5, 6, none, none, now, UntilLeft, UntilLeft')
      BY <1>3, <1>4, <1>6, <1>9, <1>12, <1>13, <2>2 DEF StageStep
    <2> QED
      BY <1>2, <1>3, <1>4, <1>5, <1>10, <1>14, <2>1, <2>3, StageMoves
  <1>16. On(m) = On(l) \/ UntilDrops
    BY <1>3, <1>4, <1>10, <1>15 DEF UntilDrops, StageMoved, now, none
  <1> QED
    BY <1>1, <1>16, <1>15 DEF InLine, Stands, StageMoved, LineInv, l, m

\* amap, which may hand an item on before its turn.
MapDrops == MapLeft' /\ IF MapLeft THEN merged.is = "item" ELSE MapStream!Now # <<>>

LEMMA MapLine ==
  ASSUME Kept, Kept', LineInv, MapTurn
  PROVE  InLine /\ (Stands \/ MapDrops)
  <1>1. /\ UNCHANGED <<batches, taken, out>> /\ InBatch' = InBatch
        /\ InBatches' = InBatches /\ Collected' = Collected /\ A!Step
    BY DEF MapTurn, batchVars, useVars, InBatch, BatchLeft, InBatches, Collected
  <1>2. Pieces /\ Pieces' /\ ordered \in BOOLEAN
    BY PiecesAre, PiecesNext DEF Kept, IInv, MapInv, A!TypeOK
  <1>3. ordered' = ordered
    BY <1>1 DEF A!Step, A!Continues, A!Fills, A!Exhausts, A!FillFails, A!HeadArrives, A!Lands, A!NeverStarts,
                A!Closes, A!PassesOn, A!Thrown, A!ThrownAgain, A!Unwound, A!Walks
  <1> DEFINE l == Line
             m == Line'
  <1>4. /\ l \in Lines /\ l[1] = Collected /\ l[2] = InBatches /\ l[3] = InBatch /\ l[4] = Carried(taken)
        /\ l[5] = <<>> /\ l[6] = Carried(mapped) /\ l[7] = InMap /\ l[8] = Carried(merged)
    BY <1>2, LineIs DEF LineInv
  <1>5. /\ m \in Lines /\ m[1] = Collected /\ m[2] = InBatches /\ m[3] = InBatch /\ m[4] = Carried(taken)
        /\ m[5] = <<>> /\ m[6] = Carried(mapped') /\ m[7] = InMap' /\ m[8] = Carried(merged')
    BY <1>1, <1>2, LineNext DEF LineInv
  <1>6. InOrder(l, ordered)
    BY DEF LineInv
  <1> HIDE DEF l, m
  <1>7. \A p \in Places : p \in {6, 7, 8} \/ m[p] = l[p]
    <2>1. \A p \in Places : p \in {1, 2, 3, 4, 5, 6, 7, 8}
      BY DEF Places
    <2> QED
      BY <1>4, <1>5, <2>1
  <1>8. Answering(mapped, mapped') /\ Asking(merged, merged')
    BY Neighbours
  <1>9. MapStream!Next
    BY <1>1, MapStreams
  <1>10. MapLeft => MapLeft'
    BY <1>9 DEF MapStream!Next, MapStream!Passes, MapStream!HandsOn, MapStream!Ends, MapStream!BreaksOff, MapLeft
  <1> DEFINE now == MapStream!Now
  <1>11. /\ now \in Seq(Values)
         /\ \/ now = A!Held /\ Carried(merged') = Carried(merged)
            \/ now = A!Held \o Carried(merged) /\ Carried(merged') = <<>>
         /\ Carried(merged') # Carried(merged) => merged.is = "item"
    <2>1. /\ Carries(merged, Values) /\ A!Held \in Seq(Values)
          /\ merged.is = "item" /\ merged' # merged => now = Append(A!Held, merged.of)
          /\ merged.is # "item" \/ merged' = merged => now = A!Held
      BY <1>2, MapTakes DEF Kept, IInv, ItemsCarried, Pieces
    <2> HIDE DEF now
    <2> QED
      BY <1>8, <2>1, Taking
  <1>12. mapped.is = "item" => mapped' = mapped
    BY <1>8, Sides
  <1>13. \/ MapLeft' /\ m[6] = l[6]
         \/ ~MapLeft' /\ m[6] = l[6] /\ A!Held' = now
         \/ ~MapLeft' /\ l[6] = <<>> /\ now = m[6] \o A!Held'
         \/ /\ ~MapLeft' /\ l[6] = <<>> /\ ~ordered
            /\ \E n \in DOMAIN now : m[6] = <<now[n]>> /\ A!Held' = RemoveAt(now, n)
    <2>1. mapped'.is = "item" => mapped.is = "item" \/ MapStream!HandsOn
      BY <1>9 DEF MapStream!Next, MapStream!Passes, MapStream!HandsOn, MapStream!Ends,
                  MapStream!BreaksOff, MapStream!Says
    <2>2. CASE MapStream!HandsOn
      <3>1. /\ mapped.is # "item" /\ mapped'.is = "item" /\ ~MapLeft /\ ~MapLeft'
            /\ \/ now = <<mapped'.of>> \o A!Held'
               \/ ~ordered /\ \E n \in DOMAIN now : <<now[n]>> = <<mapped'.of>> /\ A!Held' = RemoveAt(now, n)
        BY <2>2 DEF MapStream!HandsOn, MapStream!Says, Just, MapLeft, RemoveAt
      <3>2. l[6] = <<>> /\ m[6] = <<mapped'.of>>
        BY <1>4, <1>5, <3>1 DEF Carried
      <3> QED
        BY <3>1, <3>2
    <2>3. CASE ~MapStream!HandsOn
      <3>1. m[6] = l[6]
        BY <1>4, <1>5, <1>12, <2>1, <2>3 DEF Carried
      <3>2. MapLeft' \/ A!Held' = now
        BY <1>9, <2>3 DEF MapStream!Next, MapStream!Passes, MapStream!Ends, MapStream!BreaksOff, MapLeft
      <3> QED
        BY <3>1, <3>2
    <2> QED
      BY <2>2, <2>3
  <1>14. InMap = (IF MapLeft THEN <<>> ELSE A!Held) /\ InMap' = (IF MapLeft' THEN <<>> ELSE A!Held')
    BY DEF InMap
  <1> HIDE DEF now
  <1>15. StageMoved(ordered, l, m, 8, now, MapLeft, MapLeft')
    <2>1. MapLeft \in BOOLEAN /\ MapLeft' \in BOOLEAN /\ A!Held \in Seq(Values)
      BY <1>2 DEF MapLeft, Pieces
    <2>2. \/ now = A!Held /\ m[8] = l[8]
          \/ now = A!Held \o l[8] /\ m[8] = <<>>
      BY <1>4, <1>5, <1>11
    <2>3. StageStep(ordered, l, m, 6, 7, 8, A!Held, A!Held', now, MapLeft, MapLeft')
      BY <1>4, <1>5, <1>7, <1>10, <1>13, <1>14, <2>2 DEF StageStep
    <2> QED
      BY <1>2, <1>4, <1>5, <1>6, <1>11, <2>1, <2>3, StageMoves
  <1>16. On(m) = On(l) \/ MapDrops
    BY <1>4, <1>5, <1>11, <1>15 DEF MapDrops, StageMoved, now
  <1> QED
    BY <1>1, <1>3, <1>15, <1>16 DEF InLine, Stands, StageMoved, LineInv, l, m

\* A batch is collected.
LEMMA CollectLine ==
  ASSUME Kept, Kept', LineInv, CollectTurn \/ CancelCollect
  PROVE  InLine /\ Stands
  <1>1. /\ UNCHANGED <<taken, mapped, merged, ordered>> /\ InBatch' = InBatch /\ InMap' = InMap
    BY DEF CollectTurn, CancelCollect, mapVars, batchVars, InMap, MapLeft, InBatch, BatchLeft, A!Held
  <1>2. Pieces /\ Pieces' /\ ordered \in BOOLEAN
    BY PiecesAre, PiecesNext DEF Kept, IInv, MapInv, A!TypeOK
  <1>3. CASE ~Receives
    <2>1. /\ batches \in Calls(Seq(Values)) /\ (use = "new" => batches = Quiet)
          /\ Cancelled(batches).is = batches.is
      BY Shape, CallsAre DEF Kept, IInv, UseInv
    <2>2. batches.is # "item" /\ batches'.is # "item" /\ out' = out
      <3>1. CASE Starts
        BY <2>1, <3>1, Plain DEF Starts
      <3>2. CASE Finishes
        BY <3>2, Plain DEF Finishes
      <3>3. CASE Cancel
        BY <2>1, <3>3 DEF Cancel, useVars
      <3> QED
        BY <1>3, <3>1, <3>2, <3>3 DEF CollectTurn, CollectStep, CancelCollect
    <2>3. Collected' = Collected /\ InBatches' = InBatches
      BY <2>2 DEF Collected, InBatches
    <2>4. Line' = Line
      BY <1>1, <2>3 DEF Line, LineOf, Carried
    <2> QED
      BY <1>1, <2>3, <2>4 DEF InLine, Stands, LineInv
  <1>4. CASE Receives
    <2>1. batches.is = "item" /\ batches'.is # "item" /\ out' = Append(out, batches.of)
      BY <1>4, Plain DEF Receives
    <2>2. Collected' = Collected \o batches.of /\ Collected' \in Seq(Values)
      <3>1. out \in Seq(Seq(Values)) /\ batches.of \in Seq(Values) /\ FlattenSeq(out) \in Seq(Values)
        BY <2>1 DEF Kept, IInv, UseInv, ItemsCarried, Carries, LineInv, Collected
      <3>2. FlattenSeq(Append(out, batches.of)) = FlattenSeq(out) \o batches.of
        BY <3>1, FlattenGrows
      <3>3. FlattenSeq(out) \o batches.of \in Seq(Values)
        BY <3>1, ConcatProperties
      <3> QED
        BY <2>1, <3>2, <3>3 DEF Collected
    <2> DEFINE l == Line
               m == Line'
    <2>3. /\ l \in Lines /\ l[1] = Collected /\ l[2] = InBatches /\ l[3] = InBatch /\ l[4] = Carried(taken)
          /\ l[5] = <<>> /\ l[6] = Carried(mapped) /\ l[7] = InMap /\ l[8] = Carried(merged)
      BY <1>2, LineIs DEF LineInv
    <2>4. /\ m \in Lines /\ m[1] = Collected' /\ m[2] = InBatches' /\ m[3] = InBatch /\ m[4] = Carried(taken)
          /\ m[5] = <<>> /\ m[6] = Carried(mapped) /\ m[7] = InMap /\ m[8] = Carried(merged)
      BY <1>1, <1>2, <2>2, LineNext
    <2>5. InOrder(l, ordered)
      BY DEF LineInv
    <2> HIDE DEF l, m
    <2>6. Beside(l, m, 1)
      <3>1. \A p \in Places : p \in {1, 2, 3, 4, 5, 6, 7, 8}
        BY DEF Places
      <3>2. \A p \in Places : p \in {1, 1 + 1} \/ m[p] = l[p]
        BY <2>3, <2>4, <3>1
      <3> QED
        BY <3>2 DEF Beside
    <2>7. l[1] \o l[1 + 1] = m[1] \o m[1 + 1]
      <3>1. InBatches = batches.of /\ InBatches' = <<>>
        BY <2>1 DEF InBatches
      <3>2. Collected' \o <<>> = Collected'
        BY <2>2, ConcatEmptySeq
      <3>3. l[1] \o l[2] = m[1] \o m[2]
        BY <2>2, <2>3, <2>4, <3>1, <3>2
      <3>4. 1 + 1 = 2
        OBVIOUS
      <3> QED
        BY <3>3, <3>4
    <2>8. 1 \in Places /\ 1 + 1 \in Places
      BY DEF Places
    <2>9. InOrder(m, ordered) /\ On(m) = On(l)
      <3> DEFINE one == 1
      <3>1. /\ one \in Places /\ one + 1 \in Places /\ Beside(l, m, one)
            /\ l[one] \o l[one + 1] = m[one] \o m[one + 1]
        BY <2>6, <2>7, <2>8
      <3> HIDE DEF one
      <3> QED
        BY <2>3, <2>4, <2>5, <3>1, GoesForward
    <2> QED
      BY <1>1, <2>2, <2>9 DEF InLine, Stands, l, m
  <1> QED
    BY <1>3, <1>4

\* The event loop closes a generator of which nobody takes the item any more.
FinalizeDrops ==
  \/ BatchLeft /\ taken.is = "item"
  \/ UntilLeft /\ mapped.is = "item"
  \/ MapLeft /\ merged.is = "item"

LEMMA FinalizesLine ==
  ASSUME Kept, Kept', LineInv, Finalizes
  PROVE  InLine /\ (Stands \/ FinalizeDrops)
  <1>1. /\ UNCHANGED <<batches, ordered, out>> /\ InBatch' = InBatch /\ InMap' = InMap
        /\ InBatches' = InBatches /\ Collected' = Collected
    BY DEF Finalizes, Unused, mapVars, batchVars, useVars, InMap, MapLeft, InBatch, BatchLeft, A!Held,
           InBatches, Collected
  <1>2. Pieces /\ Pieces' /\ ordered \in BOOLEAN
    BY PiecesAre, PiecesNext DEF Kept, IInv, MapInv, A!TypeOK
  <1>3. /\ taken' = taken \/ (BatchLeft /\ taken' = Closing)
        /\ mapped' = mapped \/ (UntilLeft /\ mapped' = Closing)
        /\ merged' = merged \/ (MapLeft /\ merged' = Closing)
    BY DEF Finalizes, BatchLeft, UntilLeft, MapLeft
  <1>4. \A c : Carried(Closing) \in {Carried(c), <<>>} /\ (c.is # "item" => Carried(Closing) = Carried(c))
    BY Plain DEF Carried
  <1> DEFINE l == Line
             m == Line'
  <1>5. /\ l \in Lines /\ l[1] = Collected /\ l[2] = InBatches /\ l[3] = InBatch /\ l[4] = Carried(taken)
        /\ l[5] = <<>> /\ l[6] = Carried(mapped) /\ l[7] = InMap /\ l[8] = Carried(merged)
    BY <1>2, LineIs DEF LineInv
  <1>6. /\ m \in Lines /\ m[1] = Collected /\ m[2] = InBatches /\ m[3] = InBatch /\ m[4] = Carried(taken')
        /\ m[5] = <<>> /\ m[6] = Carried(mapped') /\ m[7] = InMap /\ m[8] = Carried(merged')
    BY <1>1, <1>2, LineNext DEF LineInv
  <1>7. InOrder(l, ordered)
    BY DEF LineInv
  <1> HIDE DEF l, m
  <1>8. \A p \in Places : p \in {1, 2, 3, 4, 5, 6, 7, 8}
    BY DEF Places
  <1>9. /\ m[4] \in {l[4], <<>>} /\ m[6] \in {l[6], <<>>} /\ m[8] \in {l[8], <<>>}
        /\ FinalizeDrops \/ (m[4] = l[4] /\ m[6] = l[6] /\ m[8] = l[8])
    BY <1>3, <1>4, <1>5, <1>6 DEF FinalizeDrops
  <1>10. \A p \in Places : m[p] \in {l[p], <<>>} /\ (FinalizeDrops \/ m[p] = l[p])
    BY <1>5, <1>6, <1>8, <1>9
  <1>11. InOrder(m, ordered) /\ On(m) \subseteq On(l)
    BY <1>5, <1>6, <1>7, <1>10, Leaving
  <1>12. FinalizeDrops \/ On(m) = On(l)
    BY <1>10 DEF On
  <1> QED
    BY <1>1, <1>11, <1>12 DEF InLine, Stands, LineInv, l, m

\* The other steps leave the line alone.
LEMMA SameLine ==
  ASSUME LineInv,
         UNCHANGED <<batches, taken, mapped, merged, out, batchAt, batch, mapAt, ordered, in_flight, head>>
  PROVE  InLine /\ Stands /\ Line' = Line
  <1>1. /\ InBatch' = InBatch /\ InMap' = InMap /\ InBatches' = InBatches /\ Collected' = Collected
    BY DEF InMap, MapLeft, InBatch, BatchLeft, A!Held, InBatches, Collected
  <1>2. Line' = Line
    BY <1>1 DEF Line, LineOf, Carried
  <1> QED
    BY <1>1, <1>2 DEF InLine, Stands, LineInv

\* merge hands on an item of one of its feeds, ...
Joins(s) ==
  /\ pull[s].is = "item" /\ pull'[s] = Quiet /\ \A f \in Feeds : f # s => pull'[f] = pull[f]
  /\ merged.is # "item" /\ merged' = Item(pull[s].of)

\* ... or none, and then drops none unless it leaves.
MergeLeft == mergeAt \in {"unwinding", "over"}
ItemsStay == \A f \in Feeds : pull[f].is = "item" => pull'[f] = pull[f]
NoneJoins ==
  /\ Carried(merged') = Carried(merged)
  /\ \A f \in Feeds : pull'[f].is = "item" => pull'[f] = pull[f]
  /\ MergeLeft' \/ ItemsStay

LEMMA MergeDoes ==
  ASSUME Kept, M!Step
  PROVE  NoneJoins \/ \E s \in Feeds : Joins(s)
  <1>1. /\ pull \in [Feeds -> Calls(Values)] /\ merged \in Calls(Values)
        /\ mergeAt \in {"waiting", "walking", "unwinding"} => Runs(merged)
        /\ mergeAt = "new" => \A f \in Feeds : pull[f] = Quiet
        /\ mergeAt = "yielding" => last \in Feeds /\ pull[last] = Quiet
        /\ mergeAt = "unwinding" => mergeExit \in {"error", "cancelled", "closed"}
    BY Shape, SameCalls DEF Kept, Fed, IInv, MergeInv, M!TypeOK
  <1>2. \A c : Runs(c) => c.is # "item"
    BY DEF Runs
  <1>3. \A how \in {"stop", "error", "cancelled", "closed"} : Answer(how).is # "item"
    BY DEF Answer, Call
  <1>4. \A c \in Calls(Values) : Cancelled(c).is = c.is /\ (c.is = "item" => Cancelled(c) = c)
    BY CallsAre DEF Cancelled
  <1>5. \A c \in Calls(Values) : Delivered(c).is = c.is
    BY CallsAre
  <1>6. CASE M!Begin
    <2>1. mergeAt = "new" /\ merged' = merged /\ \A f \in Feeds : pull'[f] = Asked
      BY <1>6, SameCalls DEF M!Begin
    <2> QED
      BY <1>1, <2>1, Plain DEF NoneJoins, ItemsStay
  <1>7. CASE M!Lands
    BY <1>7 DEF M!Lands, NoneJoins, ItemsStay
  <1>8. CASE M!GoesOn
    <2>1. pull' = pull /\ (merged' = merged \/ (Runs(merged) /\ merged' = Answer("stop")))
      BY <1>1, <1>8, SameCalls DEF M!GoesOn
    <2> QED
      BY <1>2, <1>3, <2>1, Sides DEF NoneJoins, ItemsStay
  <1>9. CASE M!Resumes
    <2>1. /\ merged' = merged /\ pull[last] = Quiet
          /\ \A f \in Feeds : pull'[f] = IF f = last THEN Asked ELSE pull[f]
      BY <1>1, <1>9, SameCalls DEF M!Resumes
    <2> QED
      BY <2>1, Plain DEF NoneJoins, ItemsStay
  <1>10. ASSUME NEW how \in {"error", "cancelled", "closed"}, NEW calls,
                M!Leaves(how, calls), merged.is # "item",
                \A f \in Feeds : calls[f] \in {pull[f], Quiet}
         PROVE  NoneJoins
    <2>1. MergeLeft' /\ (merged' = merged \/ merged' = Answer(how))
          /\ \A f \in Feeds : pull'[f] = Cancelled(calls[f])
      BY <1>10, SameCalls DEF M!Leaves, MergeLeft
    <2>2. Quiet \in Calls(Values)
      BY CallsAre
    <2>3. ASSUME NEW f \in Feeds, pull'[f].is = "item" PROVE pull'[f] = pull[f]
      BY <1>1, <1>4, <1>10, <2>1, <2>2, <2>3, Plain
    <2>4. merged'.is # "item"
      BY <1>3, <1>10, <2>1
    <2>5. Carried(merged') = Carried(merged)
      BY <1>10, <2>4 DEF Carried
    <2> QED
      BY <2>1, <2>3, <2>5 DEF NoneJoins
  <1>11. CASE M!Closes \/ M!Thrown
    BY <1>1, <1>2, <1>10, <1>11 DEF M!Closes, M!Thrown
  <1>12. CASE M!ThrownAgain
    <2>1. /\ Runs(merged) /\ merged' = Delivered(merged) /\ mergeAt' = "unwinding"
          /\ \A f \in Feeds : pull'[f] = Cancelled(pull[f])
      BY <1>1, <1>12, SameCalls DEF M!ThrownAgain
    <2>2. Carried(merged') = Carried(merged)
      BY <1>1, <1>2, <1>5, <2>1 DEF Carried
    <2>3. ASSUME NEW f \in Feeds, pull'[f].is = "item" PROVE pull'[f] = pull[f]
      BY <1>1, <1>4, <2>1, <2>3
    <2> QED
      BY <2>1, <2>2, <2>3 DEF NoneJoins, MergeLeft
  <1>13. CASE M!Unwound
    <2>1. /\ Runs(merged) /\ merged' = Answer(mergeExit) /\ mergeExit \in {"error", "cancelled", "closed"}
          /\ mergeAt' = "over" /\ \A f \in Feeds : pull'[f] = Quiet
      BY <1>1, <1>13, SameCalls DEF M!Unwound
    <2>2. Carried(merged') = Carried(merged)
      BY <1>2, <1>3, <2>1 DEF Carried
    <2> QED
      BY <2>1, <2>2, Plain DEF NoneJoins, MergeLeft
  <1>14. ASSUME NEW s \in Feeds, M!Walks(s)
         PROVE  NoneJoins \/ Joins(s)
    <2>1. merged.is # "item"
      BY <1>1, <1>2, <1>14 DEF M!Walks
    <2>2. \A f \in Feeds : M!Popped(s)[f] = IF f = s THEN Quiet ELSE pull[f]
      BY <1>1, SameCalls DEF M!Popped
    <2>3. CASE M!Yields(s)
      BY <2>1, <2>2, <2>3, SameCalls DEF M!Yields, Joins
    <2>4. CASE pull[s].is = "stop" /\ pull' = M!Popped(s) /\ merged' = merged
      BY <2>2, <2>4, Plain DEF NoneJoins, ItemsStay
    <2>5. CASE pull[s].is \in {"error", "cancelled"} /\ M!Leaves(pull[s].is, M!Popped(s))
      BY <1>10, <2>1, <2>2, <2>5
    <2> QED
      BY <1>14, <2>3, <2>4, <2>5 DEF M!Walks
  <1> QED
    BY <1>6, <1>7, <1>8, <1>9, <1>11, <1>12, <1>13, <1>14 DEF M!Step

\* Where no item comes in, the line keeps its order.
LEMMA LineKept ==
  ASSUME LineInv, InLine, given' = given,
         \A f \in Feeds : pull'[f].is = "item" => pull'[f] = pull[f],
         Pieces
  PROVE  LineInv'
  <1>1. On(Line) \subseteq Values
    BY LineValues
  <1>2. \A v \in On(Line') : v \in On(Line) /\ v[1] \in Feeds
    BY <1>1, ValuesAre DEF InLine
  <1>3. \A v \in On(Line') : /\ v[2] <= given'[v[1]]
                             /\ pull'[v[1]].is = "item" => v[2] < given'[v[1]]
    BY <1>2 DEF LineInv
  <1>4. On(Line)' = On(Line')
    BY DEF On
  <1> QED
    BY <1>3, <1>4 DEF LineInv, InLine, InOrder, Sorted, Before, Precedes

LEMMA MergeLine ==
  ASSUME Kept, Kept', LineInv, MergeTurn
  PROVE  /\ LineInv'
         /\ \/ NoneJoins /\ Stands
            \/ \E s \in Feeds : Joins(s) /\ On(Line') = On(Line) \cup {pull[s].of}
  <1>1. /\ UNCHANGED <<batches, taken, mapped, out, ordered, given>> /\ InBatch' = InBatch /\ InMap' = InMap
        /\ InBatches' = InBatches /\ Collected' = Collected /\ M!Step
    BY DEF MergeTurn, mapVars, batchVars, useVars, InMap, MapLeft, InBatch, BatchLeft, InBatches,
           A!Held, Collected
  <1>2. Pieces /\ Pieces' /\ ordered \in BOOLEAN
    BY PiecesAre, PiecesNext DEF Kept, IInv, MapInv, A!TypeOK
  <1>3. CASE NoneJoins
    <2>1. Line' = Line
      BY <1>1, <1>3 DEF Line, LineOf, Carried, NoneJoins
    <2>2. InLine /\ Stands
      BY <1>1, <2>1 DEF InLine, Stands, LineInv
    <2> QED
      BY <1>1, <1>2, <1>3, <2>2, LineKept DEF NoneJoins
  <1>4. ASSUME NEW s \in Feeds, Joins(s)
        PROVE  LineInv' /\ On(Line') = On(Line) \cup {pull[s].of}
    <2> DEFINE l == Line
               m == Line'
               v == pull[s].of
    <2>1. /\ l \in Lines /\ l[1] = Collected /\ l[2] = InBatches /\ l[3] = InBatch /\ l[4] = Carried(taken)
          /\ l[5] = <<>> /\ l[6] = Carried(mapped) /\ l[7] = InMap /\ l[8] = Carried(merged)
      BY <1>2, LineIs DEF LineInv
    <2>2. /\ m \in Lines /\ m[1] = Collected /\ m[2] = InBatches /\ m[3] = InBatch /\ m[4] = Carried(taken)
          /\ m[5] = <<>> /\ m[6] = Carried(mapped) /\ m[7] = InMap /\ m[8] = Carried(merged')
      BY <1>1, <1>2, LineNext DEF LineInv
    <2>3. InOrder(l, ordered)
      BY DEF LineInv
    <2>4. l[8] = <<>> /\ m[8] = <<v>>
      BY <1>4, <2>1, <2>2 DEF Joins, Carried, Item
    <2>5. \A i \in 1 .. 7 : m[i] = l[i]
      <3>1. \A i \in 1 .. 7 : i \in {1, 2, 3, 4, 5, 6, 7}
        OBVIOUS
      <3> QED
        BY <2>1, <2>2, <3>1
    <2>6. v = <<s, given[s]>> /\ given[s] # 0 /\ v \in Values /\ v[1] = s /\ v[2] = given[s] /\ given[s] \in Nat
      <3>1. v = <<s, given[s]>> /\ given[s] # 0 /\ given[s] \in 0 .. Supply[s] /\ given[s] \in Nat
        BY <1>4 DEF Joins, Kept, IInv, ItemsCarried, UseInv
      <3>2. given[s] \in 1 .. Supply[s]
        BY <3>1, PipelineAssumption
      <3> QED
        BY <3>1, <3>2, ValuesAre
    <2>7. \A w \in On(l) : w \in Values
      BY <1>2, LineValues
    <2>8. \A w \in On(l) : w[2] <= given[w[1]] /\ (pull[w[1]].is = "item" => w[2] < given[w[1]])
      BY DEF LineInv
    <2> HIDE DEF l, m
    <2>9. \A w \in On(l) : Precedes(w, v, ordered)
      <3> TAKE w \in On(l)
      <3>1. CASE w[1] = s
        <4>1. w[2] < v[2]
          BY <1>4, <2>6, <2>8, <3>1 DEF Joins
        <4>2. w # v /\ w[2] # v[2]
          BY <2>6, <2>7, <4>1, ValuesAre
        <4> QED
          BY <4>1, <4>2 DEF Precedes
      <3>2. CASE w[1] # s
        BY <2>6, <3>2 DEF Precedes
      <3> QED
        BY <3>1, <3>2
    <2>10. InOrder(m, ordered) /\ On(m) = On(l) \cup {v}
      <3> HIDE DEF v
      <3> QED
        BY <2>1, <2>2, <2>3, <2>4, <2>5, <2>6, <2>9, Joining
    <2>11. \A w \in On(m) : w[2] <= given'[w[1]] /\ (pull'[w[1]].is = "item" => w[2] < given'[w[1]])
      <3> TAKE w \in On(m)
      <3>1. CASE w = v
        BY <1>1, <1>4, <2>6, <3>1, Plain DEF Joins
      <3>2. CASE w \in On(l)
        <4>1. w[1] \in Feeds
          BY <2>7, <3>2, ValuesAre
        <4>2. pull'[w[1]].is = "item" => pull[w[1]].is = "item"
          BY <1>4, <4>1, Plain DEF Joins
        <4> QED
          BY <1>1, <2>8, <3>2, <4>2
      <3> QED
        BY <2>10, <3>1, <3>2
    <2>12. On(Line)' = On(m) /\ Collected' \in Seq(Values) /\ InOrder(Line, ordered)' = InOrder(m, ordered)
      BY <1>1 DEF On, m, InOrder, Sorted, Before, Precedes, LineInv
    <2>13. LineInv'
      BY <2>10, <2>11, <2>12 DEF LineInv
    <2> QED
      BY <2>10, <2>13 DEF l, m
  <1> QED
    BY <1>1, <1>3, <1>4, MergeDoes

\* What a feed has delivered is in the line, or waits for merge.
There ==
  \A v \in Values : v[2] <= given[v[1]] =>
    v \in On(Line) \/ (pull[v[1]].is = "item" /\ v[2] = given[v[1]])

\* Somebody drops something.
Lost == BatchDrops \/ UntilDrops \/ MapDrops \/ FinalizeDrops \/ (MergeLeft' /\ ~ItemsStay)

LEMMA ThereStays ==
  ASSUME There, Stands, given' = given, ItemsStay
  PROVE  There'
  <1>1. On(Line)' = On(Line)
    BY DEF Stands, On
  <1>2. \A v \in Values : v[1] \in Feeds
    BY ValuesAre
  <1> QED
    BY <1>1, <1>2 DEF There, ItemsStay

LEMMA ThereJoins ==
  ASSUME Kept, There, NEW s \in Feeds, Joins(s), On(Line') = On(Line) \cup {pull[s].of}, given' = given
  PROVE  There'
  <1>1. On(Line)' = On(Line) \cup {pull[s].of} /\ pull[s].of = <<s, given[s]>>
    BY DEF On, Joins, Kept, IInv, ItemsCarried
  <1>2. ASSUME NEW v \in Values, v[2] <= given[v[1]], pull[v[1]].is = "item", v[2] = given[v[1]]
        PROVE  v \in On(Line)' \/ pull'[v[1]] = pull[v[1]]
    <2>1. v[1] \in Feeds /\ v = <<v[1], v[2]>>
      BY ValuesAre
    <2> QED
      BY <1>1, <1>2, <2>1 DEF Joins
  <1> QED
    BY <1>1, <1>2 DEF There

\* A feed answers.
LEMMA FeedAdds ==
  ASSUME Kept, LineInv, NEW f \in Feeds, FeedAnswers(f)
  PROVE  LineInv' /\ (There => There')
  <1>1. /\ UNCHANGED <<batches, taken, mapped, merged, out, batchAt, batch, mapAt, ordered, in_flight, head>>
        /\ pull[f].is = "asked"
    BY DEF FeedAnswers, useVars, batchVars, mapVars
  <1>2. InLine /\ Stands
    BY <1>1, SameLine
  <1>3. Pieces
    BY PiecesAre DEF Kept
  <1>4. pull \in [Feeds -> Calls(Values)] /\ given \in [Feeds -> Nat]
    BY Shape DEF Kept, IInv, UseInv
  <1>5. CASE given' = given /\ \E how \in {"stop", "error", "cancelled"} : pull' = [pull EXCEPT ![f] = Answer(how)]
    <2>1. \A how \in {"stop", "error", "cancelled"} : Answer(how).is # "item"
      BY DEF Answer, Call
    <2>2. \A g \in Feeds : /\ pull'[g].is = "item" => pull'[g] = pull[g]
                           /\ pull[g].is = "item" => pull'[g] = pull[g]
      BY <1>1, <1>4, <1>5, <2>1
    <2> QED
      BY <1>2, <1>3, <1>5, <2>2, LineKept, ThereStays DEF ItemsStay
  <1>6. CASE /\ given' = [given EXCEPT ![f] = @ + 1]
             /\ pull' = [pull EXCEPT ![f] = Item(<<f, given[f] + 1>>)]
    <2>1. /\ given'[f] = given[f] + 1 /\ pull'[f].is = "item" /\ given[f] \in Nat
          /\ \A g \in Feeds : g # f => given'[g] = given[g] /\ pull'[g] = pull[g]
      BY <1>4, <1>6 DEF Item
    <2>2. \A v \in Values : v[1] \in Feeds /\ v[2] \in Nat
      BY ValuesAre
    <2>3. On(Line)' = On(Line) /\ Line' = Line
      BY <1>1, SameLine DEF On
    <2>4. On(Line) \subseteq Values
      BY <1>3, LineValues
    <2>5. ASSUME NEW v \in On(Line)
          PROVE  v[2] <= given'[v[1]] /\ (pull'[v[1]].is = "item" => v[2] < given'[v[1]])
      <3>1. v[2] <= given[v[1]] /\ (pull[v[1]].is = "item" => v[2] < given[v[1]])
        BY DEF LineInv
      <3>2. v[1] \in Feeds /\ v[2] \in Nat
        BY <2>2, <2>4
      <3>3. CASE v[1] = f
        BY <2>1, <3>1, <3>2, <3>3
      <3>4. CASE v[1] # f
        BY <2>1, <3>1, <3>2, <3>4
      <3> QED
        BY <3>3, <3>4
    <2>6. LineInv'
      BY <1>2, <2>3, <2>5 DEF LineInv, InLine, InOrder, Sorted, Before, Precedes
    <2>7. ASSUME There, NEW v \in Values, v[2] <= given'[v[1]]
          PROVE  v \in On(Line) \/ (pull'[v[1]].is = "item" /\ v[2] = given'[v[1]])
      <3>1. CASE v[1] # f
        BY <2>1, <2>2, <2>7, <3>1 DEF There
      <3>2. CASE v[1] = f
        <4>1. v[2] = given[f] + 1 \/ v[2] <= given[f]
          BY <2>1, <2>2, <2>7, <3>2
        <4> QED
          BY <1>1, <2>1, <2>7, <3>2, <4>1 DEF There
      <3> QED
        BY <3>1, <3>2
    <2> QED
      BY <2>3, <2>6, <2>7 DEF There
  <1> QED
    BY <1>5, <1>6 DEF FeedAnswers

\* The line keeps its order, and what is in it, unless somebody drops something.
LEMMA LineStays ==
  ASSUME Kept, LineInv, [Next]_vars
  PROVE  LineInv' /\ (There => Lost \/ There')
  <1>1. Kept' /\ Pieces
    BY KeptStays, PiecesAre DEF Kept
  <1>2. ASSUME InLine, Stands \/ Lost, UNCHANGED <<given, pull>>
        PROVE  LineInv' /\ (There => Lost \/ There')
    BY <1>1, <1>2, LineKept, ThereStays DEF ItemsStay
  <1>3. CASE BatchTurn \/ Expires
    <2>1. UNCHANGED <<given, pull>>
      BY <1>3 DEF BatchTurn, Expires
    <2> QED
      BY <1>1, <1>2, <1>3, <2>1, BatchLine DEF Lost
  <1>4. CASE UntilTurn \/ SetEvent
    <2>1. UNCHANGED <<given, pull>>
      BY <1>4 DEF UntilTurn, SetEvent
    <2> QED
      BY <1>1, <1>2, <1>4, <2>1, UntilLine DEF Lost
  <1>5. CASE MapTurn
    <2>1. UNCHANGED <<given, pull>>
      BY <1>5 DEF MapTurn
    <2> QED
      BY <1>1, <1>2, <1>5, <2>1, MapLine DEF Lost
  <1>6. CASE CollectTurn \/ CancelCollect
    <2>1. UNCHANGED <<given, pull>>
      BY <1>6 DEF CollectTurn, CancelCollect
    <2> QED
      BY <1>1, <1>2, <1>6, <2>1, CollectLine
  <1>7. CASE Finalizes
    <2>1. UNCHANGED <<given, pull>>
      BY <1>7 DEF Finalizes, Unused
    <2> QED
      BY <1>1, <1>2, <1>7, <2>1, FinalizesLine DEF Lost
  <1>8. CASE MergeTurn
    <2>1. given' = given
      BY <1>8 DEF MergeTurn
    <2>2. LineInv'
      BY <1>1, <1>8, MergeLine
    <2>3. CASE NoneJoins /\ Stands
      BY <2>1, <2>2, <2>3, ThereStays DEF NoneJoins, Lost
    <2>4. CASE \E s \in Feeds : Joins(s) /\ On(Line') = On(Line) \cup {pull[s].of}
      BY <2>1, <2>2, <2>4, ThereJoins
    <2> QED
      BY <1>1, <1>8, <2>3, <2>4, MergeLine
  <1>9. ASSUME NEW f \in Feeds, FeedAnswers(f)
        PROVE  LineInv' /\ (There => Lost \/ There')
    BY <1>9, FeedAdds
  <1>10. ASSUME NEW v, FnEnds(v)
         PROVE  LineInv' /\ (There => Lost \/ There')
    <2>1. UNCHANGED <<batches, taken, mapped, merged, out, batchAt, batch, mapAt, ordered, in_flight, head,
                      given, pull>>
      BY <1>10 DEF FnEnds, A!JobEnds, useVars, batchVars
    <2> QED
      BY <1>2, <2>1, SameLine
  <1>11. CASE UNCHANGED vars
    <2>1. UNCHANGED <<batches, taken, mapped, merged, out, batchAt, batch, mapAt, ordered, in_flight, head,
                      given, pull>>
      BY <1>11 DEF vars, useVars, batchVars, mapVars
    <2> QED
      BY <1>2, <2>1, SameLine
  <1> QED
    BY <1>3, <1>4, <1>5, <1>6, <1>7, <1>8, <1>9, <1>10, <1>11 DEF Next, Progress

-----------------------------------------------------------------------------
(* The end *)

\* The end of the feeds has come as far as to a stage's caller.
BatchEnded == batches.is = "stop" \/ use = "ended"
UntilEnded == taken.is = "stop" \/ ending \/ BatchEnded
MapEnded == mapped.is = "stop" \/ UntilEnded
MergeEnded == merged.is = "stop" \/ exhausted \/ MapEnded

\* A stage's caller hears of the end when the stage has heard of it, and holds nothing.
BatchTold ==
  ~BatchLeft /\ BatchLeft' /\ BatchStream!Now = <<>> /\ UntilEnded /\ batches'.is = "stop"
UntilTold ==
  ~UntilLeft /\ UntilLeft' /\ UntilStream!Now = <<>> /\ MapEnded /\ taken'.is = "stop"
MapTold ==
  ~MapLeft /\ MapLeft' /\ MapStream!Now = <<>> /\ MergeEnded /\ mapped'.is = "stop"

LEMMA BatchEnding ==
  ASSUME Kept, [Next]_vars, BatchEnded', ~BatchEnded
  PROVE  BatchTold
  <1>1. CASE batches'.is # "stop"
    <2>1. use' = "ended" /\ use # "ended"
      BY <1>1 DEF BatchEnded
    <2>2. CollectTurn
      BY <2>1 DEF Next, Progress, MergeTurn, MapTurn, UntilTurn, BatchTurn, Finalizes, Unused, Expires, FeedAnswers,
                  FnEnds, SetEvent, CancelCollect, Cancel, vars, useVars
    <2>3. batches.is = "stop"
      BY <2>1, <2>2 DEF CollectTurn, CollectStep, Starts, Receives, Finishes
    <2> QED
      BY <2>3 DEF BatchEnded
  <1>2. CASE batches'.is = "stop"
    <2>1. BatchStream!Says("stop")
      BY <1>2 DEF BatchStream!Says, BatchEnded
    <2>2. BatchStream!Next
      BY <2>1, BatchStage DEF BatchStream!Says, BatchStream!vars
    <2>3. BatchStream!Ends
      BY <1>2, <2>1, <2>2 DEF BatchStream!Next, BatchStream!Passes, BatchStream!HandsOn, BatchStream!BreaksOff,
                              BatchStream!Says
    <2>4. ~BatchLeft /\ BatchLeft' /\ BatchStream!Now = <<>> /\ (ending \/ taken.is = "stop")
      BY <2>3, Stoppings DEF BatchStream!Ends, If, BatchLeft
    <2> QED
      BY <1>2, <2>4 DEF BatchTold, UntilEnded
  <1> QED
    BY <1>1, <1>2

LEMMA UntilEnding ==
  ASSUME Kept, [Next]_vars, ~event, UntilEnded', ~UntilEnded
  PROVE  UntilTold
  <1>1. ~BatchEnded'
    BY BatchEnding DEF BatchTold, UntilEnded
  <1>2. ~ending'
    <2> SUFFICES ASSUME ending' PROVE FALSE
      OBVIOUS
    <2>1. ~ending
      BY DEF UntilEnded
    <2>2. BatchTurn
      BY <2>1 DEF Next, Progress, MergeTurn, MapTurn, UntilTurn, CollectTurn, Finalizes, Unused, Expires, B!Expires,
                  FeedAnswers, FnEnds, SetEvent, CancelCollect, vars, batchVars
    <2>3. taken.is = "stop"
      BY <2>1, <2>2 DEF BatchTurn, B!Step, B!Continues, B!Gathers, B!SourceStops, B!SourceFails,
                        B!SourceTimesOut, B!Spins, B!Closes, B!PassesOn, B!Thrown
    <2> QED
      BY <2>3 DEF UntilEnded
  <1>3. taken'.is = "stop" /\ taken.is # "stop"
    BY <1>1, <1>2 DEF UntilEnded
  <1>4. UntilStream!Says("stop")
    BY <1>3 DEF UntilStream!Says
  <1>5. UntilStream!Next
    BY <1>3, UntilStage DEF UntilStream!vars
  <1>6. UntilStream!Ends
    BY <1>3, <1>4, <1>5 DEF UntilStream!Next, UntilStream!Passes, UntilStream!HandsOn, UntilStream!BreaksOff,
                            UntilStream!Says
  <1>7. ~UntilLeft /\ UntilLeft' /\ UntilStream!Now = <<>> /\ mapped.is = "stop"
    BY <1>6, Stoppings DEF UntilStream!Ends, UntilLeft
  <1> QED
    BY <1>3, <1>7 DEF UntilTold, MapEnded

LEMMA MapEnding ==
  ASSUME Kept, [Next]_vars, ~event, MapEnded', ~MapEnded
  PROVE  MapTold
  <1>1. ~UntilEnded'
    BY UntilEnding DEF UntilTold, MapEnded
  <1>2. mapped'.is = "stop" /\ mapped.is # "stop"
    BY <1>1 DEF MapEnded
  <1>3. MapStream!Says("stop")
    BY <1>2 DEF MapStream!Says
  <1>4. MapStream!Next
    BY <1>2, MapStage DEF MapStream!vars
  <1>5. MapStream!Ends
    BY <1>2, <1>3, <1>4 DEF MapStream!Next, MapStream!Passes, MapStream!HandsOn, MapStream!BreaksOff, MapStream!Says
  <1>6. ~MapLeft /\ MapLeft' /\ MapStream!Now = <<>> /\ (exhausted \/ merged.is = "stop")
    BY <1>5, Stoppings DEF MapStream!Ends, If, MapLeft
  <1> QED
    BY <1>2, <1>6 DEF MapTold, MergeEnded

LEMMA MergeEnding ==
  ASSUME Kept, [Next]_vars, ~event, MergeEnded', ~MergeEnded
  PROVE  MergeTurn /\ M!GoesOn /\ M!Pending = {}
  <1>1. ~MapEnded'
    BY MapEnding DEF MapTold, MergeEnded
  <1>2. ~exhausted'
    <2> SUFFICES ASSUME exhausted' PROVE FALSE
      OBVIOUS
    <2>1. ~exhausted
      BY DEF MergeEnded
    <2>2. MapTurn
      BY <2>1 DEF Next, Progress, MergeTurn, UntilTurn, BatchTurn, CollectTurn, Finalizes, Unused, Expires,
                  FeedAnswers, FnEnds, A!JobEnds, SetEvent, CancelCollect, vars, mapVars
    <2>3. merged.is = "stop"
      BY <2>1, <2>2 DEF MapTurn, A!Step, A!Continues, A!Proceeds, A!Fills, A!Exhausts, A!FillFails, A!HeadArrives,
                        A!Lands, A!NeverStarts, A!Closes, A!PassesOn, A!Thrown, A!ThrownAgain, A!Unwound, A!Walks
    <2> QED
      BY <2>3 DEF MergeEnded
  <1>3. merged'.is = "stop" /\ merged.is # "stop"
    BY <1>1, <1>2 DEF MergeEnded
  <1>4. MergeTurn
    <2>1. ~MapTurn
      BY <1>3, Neighbours, AskingSays
    <2>2. ~Finalizes
      BY <1>3, Plain DEF Finalizes
    <2> QED
      BY <1>3, <2>1, <2>2 DEF Next, Progress, UntilTurn, BatchTurn, CollectTurn, Expires,
                  FeedAnswers, FnEnds, SetEvent, CancelCollect, vars
  <1>5. M!GoesOn /\ M!Pending = {}
    <2>1. /\ M!Step /\ (mergeAt = "unwinding" => mergeExit \in {"error", "cancelled", "closed"})
          /\ merged \in Calls(Values)
      BY <1>4, Shape, SameCalls DEF MergeTurn, Kept, IInv, MergeInv, M!TypeOK
    <2>2. \A how : Answer(how).is = how
      BY DEF Answer, Call
    <2>3. ~\E how \in {"error", "cancelled", "closed"} : \E calls : M!Leaves(how, calls)
      BY <1>3, <2>2, SameCalls DEF M!Leaves
    <2>4. ~M!ThrownAgain
      <3>1. Delivered(merged).is = merged.is
        BY <2>1, CallsAre
      <3> QED
        BY <1>3, <3>1, SameCalls DEF M!ThrownAgain
    <2>5. ~M!Unwound
      BY <1>3, <2>1, <2>2, SameCalls DEF M!Unwound
    <2>6. ~M!Closes /\ ~M!Thrown
      BY <2>3 DEF M!Closes, M!Thrown
    <2>7. ~\E s \in Feeds : M!Walks(s)
      <3> SUFFICES ASSUME NEW s \in Feeds, M!Walks(s) PROVE FALSE
        OBVIOUS
      <3>1. ~M!Yields(s)
        BY <1>3, SameCalls DEF M!Yields, Item
      <3> QED
        BY <1>3, <2>3, <3>1 DEF M!Walks
    <2>8. M!GoesOn
      BY <1>3, <2>1, <2>4, <2>5, <2>6, <2>7 DEF M!Step, M!Begin, M!Lands, M!Resumes
    <2> QED
      BY <1>3, <2>8 DEF M!GoesOn
  <1> QED
    BY <1>4, <1>5

\* What has been told that a stage has ended is told nothing else, and a feed that
\* merge does not ask any more has delivered all it has.
DoneWith(f) == mergeAt \in {"waiting", "walking", "yielding"} /\ f # last /\ (pull[f] = Quiet \/ pull[f].is = "stop")
AllGiven(f) == given[f] = Supply[f]
Ends ==
  /\ BatchEnded => BatchLeft /\ batches.is # "item"
  /\ UntilEnded => UntilLeft /\ taken.is # "item"
  /\ MapEnded => MapLeft /\ mapped.is # "item"
  /\ MergeEnded => mergeAt = "over" /\ merged.is # "item" /\ \A f \in Feeds : pull[f] = Quiet /\ AllGiven(f)
  /\ \A f \in Feeds : DoneWith(f) => AllGiven(f)

LEMMA LeftStays ==
  ASSUME Kept, [Next]_vars
  PROVE  /\ event => event'
         /\ BatchLeft => BatchLeft' /\ (batches'.is = "item" => batches.is = "item")
         /\ UntilLeft => UntilLeft' /\ (taken'.is = "item" => taken.is = "item")
         /\ MapLeft => MapLeft' /\ (mapped'.is = "item" => mapped.is = "item")
         /\ MergeLeft => MergeLeft' /\ (merged'.is = "item" => merged.is = "item")
  <1>1. event => event'
    BY DEF Next, Progress, MergeTurn, MapTurn, UntilTurn, BatchTurn, CollectTurn, Finalizes, Unused, Expires,
           FeedAnswers, FnEnds, SetEvent, CancelCollect, vars, untilVars, T!Set, T!Step, T!StopEnds, T!Continues,
           T!NeverStarts, T!Lands, T!Stops, T!Leaves, T!Thrown, T!ThrownAgain, T!Unwound, T!Closes
  <1>2. BatchLeft => BatchLeft' /\ (batches'.is = "item" => batches.is = "item")
    <2>1. BatchStream!Next \/ (batches' = batches /\ BatchLeft' = BatchLeft)
      BY BatchStage DEF BatchStream!vars, BatchLeft
    <2> QED
      BY <2>1 DEF BatchStream!Next, BatchStream!Passes, BatchStream!HandsOn, BatchStream!Ends, BatchStream!BreaksOff,
                  BatchStream!Says, BatchLeft
  <1>3. UntilLeft => UntilLeft' /\ (taken'.is = "item" => taken.is = "item")
    <2>1. UntilStream!Next \/ (taken' = taken /\ UntilLeft' = UntilLeft)
      BY UntilStage DEF UntilStream!vars, UntilLeft
    <2> QED
      BY <2>1 DEF UntilStream!Next, UntilStream!Passes, UntilStream!HandsOn, UntilStream!Ends, UntilStream!BreaksOff,
                  UntilStream!Says, UntilLeft
  <1>4. MapLeft => MapLeft' /\ (mapped'.is = "item" => mapped.is = "item")
    <2>1. MapStream!Next \/ (mapped' = mapped /\ MapLeft' = MapLeft)
      BY MapStage DEF MapStream!vars, MapLeft
    <2> QED
      BY <2>1 DEF MapStream!Next, MapStream!Passes, MapStream!HandsOn, MapStream!Ends, MapStream!BreaksOff,
                  MapStream!Says, MapLeft
  <1>5. MergeLeft => MergeLeft' /\ (merged'.is = "item" => merged.is = "item")
    <2>1. MergeStream!Next \/ (merged' = merged /\ MergeLeft' = MergeLeft)
      BY MergeStage DEF MergeStream!vars, MergeLeft
    <2> QED
      BY <2>1 DEF MergeStream!Next, MergeStream!Passes, MergeStream!HandsOn, MergeStream!Ends, MergeStream!BreaksOff,
                  MergeStream!Says, MergeLeft
  <1> QED
    BY <1>1, <1>2, <1>3, <1>4, <1>5

LEMMA EndsStay ==
  ASSUME Kept, [Next]_vars, ~event, Ends
  PROVE  Ends'
  <1>1. BatchEnded' => BatchLeft' /\ batches'.is # "item"
    BY BatchEnding, LeftStays DEF Ends, BatchTold
  <1>2. UntilEnded' => UntilLeft' /\ taken'.is # "item"
    BY UntilEnding, LeftStays DEF Ends, UntilTold
  <1>3. MapEnded' => MapLeft' /\ mapped'.is # "item"
    BY MapEnding, LeftStays DEF Ends, MapTold
  <1>4. /\ pull \in [Feeds -> Calls(Values)] /\ given \in [Feeds -> Nat]
        /\ mergeAt \in {"new", "waiting", "walking", "yielding", "unwinding", "over"}
        /\ last \in Feeds \cup {Nothing} /\ Nothing \notin Feeds /\ (mergeAt = "yielding" <=> last # Nothing)
        /\ mergeAt = "yielding" => pull[last] = Quiet
    BY Shape, SameCalls, PipelineAssumption DEF Kept, IInv, UseInv, MergeInv, M!TypeOK
  <1>5. MergeEnded' =>
          mergeAt' = "over" /\ merged'.is # "item" /\ \A f \in Feeds : pull'[f] = Quiet /\ AllGiven(f)'
    <2>1. CASE MergeEnded
      <3>1. mergeAt = "over" /\ merged.is # "item" /\ \A f \in Feeds : pull[f] = Quiet /\ AllGiven(f)
        BY <2>1 DEF Ends
      <3>2. ~MergeTurn
        BY <3>1 DEF MergeTurn, M!Step, M!Begin, M!Lands, M!GoesOn, M!Resumes, M!Closes, M!Thrown, M!ThrownAgain,
                    M!Unwound, M!Walks
      <3>3. \A f \in Feeds : ~FeedAnswers(f)
        BY <3>1, Plain DEF FeedAnswers
      <3>4. UNCHANGED <<mergeAt, pull, given>>
        BY <3>2, <3>3 DEF Next, Progress, MapTurn, UntilTurn, BatchTurn, CollectTurn, Finalizes, Unused, Expires,
                          FnEnds, SetEvent, CancelCollect, vars, mergeVars
      <3> QED
        BY <3>1, <3>4, LeftStays DEF MergeLeft, AllGiven
    <2>2. CASE MergeEnded' /\ ~MergeEnded
      <3>1. /\ M!GoesOn /\ M!Pending = {} /\ given' = given
        BY <2>2, MergeEnding DEF MergeTurn
      <3>2. /\ mergeAt = "walking" /\ pull' = pull /\ mergeAt' = "over" /\ merged' = Answer("stop")
            /\ \A f \in Feeds : pull[f] = Quiet
        BY <3>1, SameCalls DEF M!GoesOn, M!Pending
      <3>3. \A f \in Feeds : DoneWith(f)
        BY <1>4, <3>2 DEF DoneWith
      <3>4. \A f \in Feeds : AllGiven(f)
        BY <3>3 DEF Ends
      <3>5. merged'.is # "item"
        BY <3>2 DEF Answer, Call
      <3> QED
        BY <3>1, <3>2, <3>4, <3>5 DEF AllGiven
    <2> QED
      BY <2>1, <2>2
  <1>6. ASSUME NEW f \in Feeds, DoneWith(f)'
        PROVE  AllGiven(f)'
    <2>1. CASE DoneWith(f) /\ given'[f] = given[f]
      BY <2>1 DEF AllGiven, Ends
    <2>2. CASE MergeTurn
      <3>1. M!Step /\ given'[f] = given[f]
        BY <2>2 DEF MergeTurn
      <3>2. /\ mergeAt' \in {"waiting", "walking", "yielding"} /\ f # last'
            /\ pull'[f] = Quiet \/ pull'[f].is = "stop"
        BY <1>6 DEF DoneWith
      <3>3. pull'[f] # Asked
        BY <3>2, Plain
      <3>4. CASE M!Begin
        BY <3>3, <3>4, SameCalls DEF M!Begin
      <3>5. CASE M!Lands \/ M!GoesOn
        BY <2>1, <3>1, <3>2, <3>5 DEF M!Lands, M!GoesOn, DoneWith
      <3>6. CASE M!Resumes
        <4>1. mergeAt = "yielding" /\ pull'[f] = IF f = last THEN Asked ELSE pull[f]
          BY <1>4, <3>6, SameCalls DEF M!Resumes
        <4> QED
          BY <2>1, <3>1, <3>2, <3>3, <4>1 DEF DoneWith
      <3>7. CASE M!Closes \/ M!Thrown \/ M!ThrownAgain \/ M!Unwound
        BY <3>2, <3>7 DEF M!Closes, M!Thrown, M!ThrownAgain, M!Unwound, M!Leaves
      <3>8. ASSUME NEW s \in Feeds, M!Walks(s) PROVE AllGiven(f)'
        <4>1. mergeAt = "walking" /\ f # last
          BY <1>4, <3>8 DEF M!Walks
        <4>2. M!Popped(s)[f] = IF f = s THEN Quiet ELSE pull[f]
          BY <1>4, SameCalls DEF M!Popped
        <4>3. CASE M!Yields(s)
          BY <2>1, <3>1, <3>2, <4>1, <4>2, <4>3, SameCalls DEF M!Yields, DoneWith
        <4>4. CASE pull[s].is = "stop" /\ pull' = M!Popped(s)
          BY <2>1, <3>1, <3>2, <4>1, <4>2, <4>4 DEF DoneWith
        <4>5. CASE M!Leaves(pull[s].is, M!Popped(s))
          BY <3>2, <4>5 DEF M!Leaves
        <4> QED
          BY <3>8, <4>3, <4>4, <4>5 DEF M!Walks
      <3> QED
        BY <3>1, <3>4, <3>5, <3>6, <3>7, <3>8 DEF M!Step
    <2>3. ASSUME NEW g \in Feeds, FeedAnswers(g) PROVE AllGiven(f)'
      <3>1. /\ UNCHANGED <<mergeAt, last>>
            /\ pull'[f] = Quiet \/ pull'[f].is = "stop"
        BY <1>6, <2>3 DEF FeedAnswers, mergeVars, DoneWith
      <3>2. CASE f # g
        <4>1. pull'[f] = pull[f] /\ given'[f] = given[f]
          BY <1>4, <2>3, <3>2 DEF FeedAnswers
        <4> QED
          BY <1>6, <2>1, <3>1, <4>1 DEF DoneWith
      <3>3. CASE f = g
        <4>1. pull'[g].is \in {"none", "stop"}
          BY <3>1, <3>3, Plain
        <4>2. \A v : Item(v).is = "item"
          BY DEF Item
        <4>3. Answer("error").is = "error" /\ Answer("cancelled").is = "cancelled"
          BY DEF Answer, Call
        <4>4. given[g] = Supply[g] /\ given' = given
          BY <1>4, <2>3, <4>1, <4>2, <4>3 DEF FeedAnswers
        <4> QED
          BY <3>3, <4>4 DEF AllGiven
      <3> QED
        BY <3>2, <3>3
    <2>4. CASE UNCHANGED <<mergeAt, last, pull, given>>
      BY <1>6, <2>1, <2>4 DEF DoneWith
    <2>5. CASE MergeTurn \/ (\E g \in Feeds : FeedAnswers(g)) \/ UNCHANGED <<mergeAt, last, pull, given>>
      BY <2>2, <2>3, <2>4, <2>5
    <2> QED
      BY <2>5 DEF Next, Progress, MapTurn, UntilTurn, BatchTurn, CollectTurn, Finalizes, Unused, Expires,
                  FnEnds, SetEvent, CancelCollect, vars, mergeVars
  <1> QED
    BY <1>1, <1>2, <1>3, <1>5, <1>6 DEF Ends

\* A stage has left that has not been told of the end: what is lost then never
\* counts as the end of the stream.
Broken ==
  \/ BatchLeft /\ ~BatchEnded
  \/ UntilLeft /\ ~UntilEnded
  \/ MapLeft /\ ~MapEnded
  \/ MergeLeft /\ ~MergeEnded

LEMMA BrokenStays ==
  ASSUME Kept, [Next]_vars, ~event, Broken
  PROVE  Broken'
  BY LeftStays, BatchEnding, UntilEnding, MapEnding, MergeEnding
  DEF Broken, BatchTold, UntilTold, MapTold, MergeLeft, M!GoesOn

\* Where something is lost, a stage has broken off.
LEMMA LostBreaks ==
  ASSUME Kept, [Next]_vars, ~event, Ends, Lost
  PROVE  Broken'
  <1>1. Broken => Broken'
    BY BrokenStays
  <1>2. CASE BatchDrops
    <2>1. CASE BatchLeft
      <3>1. taken.is = "item"
        BY <1>2, <2>1 DEF BatchDrops
      <3>2. ~BatchEnded
        BY <3>1 DEF Ends, UntilEnded
      <3> QED
        BY <1>1, <2>1, <3>2 DEF Broken
    <2>2. CASE ~BatchLeft
      <3>1. BatchLeft' /\ BatchStream!Now # <<>> /\ ~BatchEnded
        BY <1>2, <2>2 DEF BatchDrops, Ends
      <3>2. ~BatchEnded'
        BY <3>1, BatchEnding DEF BatchTold
      <3> QED
        BY <3>1, <3>2 DEF Broken
    <2> QED
      BY <2>1, <2>2
  <1>3. CASE UntilDrops
    <2>1. CASE UntilLeft
      <3>1. mapped.is = "item"
        BY <1>3, <2>1 DEF UntilDrops
      <3>2. ~UntilEnded
        BY <3>1 DEF Ends, MapEnded
      <3> QED
        BY <1>1, <2>1, <3>2 DEF Broken
    <2>2. CASE ~UntilLeft
      <3>1. UntilLeft' /\ UntilStream!Now # <<>> /\ ~UntilEnded
        BY <1>3, <2>2 DEF UntilDrops, Ends
      <3>2. ~UntilEnded'
        BY <3>1, UntilEnding DEF UntilTold
      <3> QED
        BY <3>1, <3>2 DEF Broken
    <2> QED
      BY <2>1, <2>2
  <1>4. CASE MapDrops
    <2>1. CASE MapLeft
      <3>1. merged.is = "item"
        BY <1>4, <2>1 DEF MapDrops
      <3>2. ~MapEnded
        BY <3>1 DEF Ends, MergeEnded
      <3> QED
        BY <1>1, <2>1, <3>2 DEF Broken
    <2>2. CASE ~MapLeft
      <3>1. MapLeft' /\ MapStream!Now # <<>> /\ ~MapEnded
        BY <1>4, <2>2 DEF MapDrops, Ends
      <3>2. ~MapEnded'
        BY <3>1, MapEnding DEF MapTold
      <3> QED
        BY <3>1, <3>2 DEF Broken
    <2> QED
      BY <2>1, <2>2
  <1>5. CASE FinalizeDrops
    <2>1. /\ taken.is = "item" => ~BatchEnded
          /\ mapped.is = "item" => ~UntilEnded
          /\ merged.is = "item" => ~MapEnded
      BY DEF Ends, UntilEnded, MapEnded, MergeEnded
    <2> QED
      BY <1>1, <1>5, <2>1 DEF FinalizeDrops, Broken
  <1>6. CASE MergeLeft' /\ ~ItemsStay
    <2>1. PICK f \in Feeds : pull[f].is = "item" /\ pull'[f] # pull[f]
      BY <1>6 DEF ItemsStay
    <2>2. ~MergeEnded
      BY <2>1, Plain DEF Ends
    <2>3. ~MergeEnded'
      BY <2>1, <2>2, MergeEnding DEF M!GoesOn
    <2> QED
      BY <1>6, <2>3 DEF Broken
  <1> QED
    BY <1>2, <1>3, <1>4, <1>5, <1>6 DEF Lost

\* Until the event is set, the ends come from the feeds on, and while no stage has
\* broken off, all that has been delivered is on its way.
EndInv == ~event => Ends /\ (Broken \/ There)

LEMMA EndStays ==
  ASSUME Kept, LineInv, EndInv, [Next]_vars
  PROVE  EndInv'
  <1> SUFFICES ASSUME ~event' PROVE Ends' /\ (Broken' \/ There')
    BY DEF EndInv
  <1>1. ~event /\ Ends /\ (Broken \/ There)
    BY LeftStays DEF EndInv
  <1>2. Ends'
    BY <1>1, EndsStay
  <1>3. CASE Broken
    BY <1>1, <1>2, <1>3, BrokenStays
  <1>4. CASE There
    BY <1>1, <1>2, <1>4, LineStays, LostBreaks
  <1> QED
    BY <1>1, <1>3, <1>4

LEMMA LineStarts ==
  ASSUME Init
  PROVE  LineInv /\ EndInv
  <1>1. /\ merged = Quiet /\ mapped = Quiet /\ taken = Quiet /\ batches = Quiet
        /\ \A f \in Feeds : pull[f] = Quiet
        /\ mergeAt = "new" /\ mapAt = "new" /\ untilAt = "new" /\ batchAt = "new"
        /\ in_flight = <<>> /\ head = Nothing /\ exhausted = FALSE
        /\ batch = <<>> /\ ending = FALSE /\ use = "new" /\ out = <<>> /\ given = [f \in Feeds |-> 0]
    BY SameCalls DEF Init, M!Init, A!Init, T!Init, B!Init
  <1>2. /\ InBatches = <<>> /\ InBatch = <<>> /\ InMap = <<>> /\ Carried(taken) = <<>>
        /\ Carried(mapped) = <<>> /\ Carried(merged) = <<>>
    BY <1>1, Plain DEF InBatches, InBatch, InMap, A!Held, Carried
  <1>3. Collected = <<>>
    BY <1>1 DEF Collected, FlattenSeq
  <1>4. IInv /\ Pieces /\ Collected \in Seq(Values)
    BY <1>3, Starting, PiecesAre, SortedShort
  <1>5. \A i \in Places : Line[i] = <<>>
    <2>1. \A i \in Places : i \in {1, 2, 3, 4, 5, 6, 7, 8}
      BY DEF Places
    <2> QED
      BY <1>2, <1>3, <1>4, <2>1, LineIs
  <1>6. \A i \in Places : ToSet(Line[i]) = {} /\ Sorted(Line[i], ordered)
    BY <1>5, SortedShort
  <1>7. On(Line) = {}
    BY <1>6 DEF On
  <1>8. LineInv
    BY <1>4, <1>6, <1>7 DEF LineInv, InOrder, Before
  <1>9. ~BatchEnded /\ ~UntilEnded /\ ~MapEnded /\ ~MergeEnded
    BY <1>1, Plain DEF BatchEnded, UntilEnded, MapEnded, MergeEnded
  <1>10. Ends
    BY <1>1, <1>9 DEF Ends, DoneWith
  <1>11. There
    <2>1. \A v \in Values : v[1] \in Feeds /\ v[2] \in 1 .. Supply[v[1]] /\ Supply[v[1]] \in Nat
      BY ValuesAre, PipelineAssumption
    <2> QED
      BY <1>1, <2>1 DEF There
  <1> QED
    BY <1>8, <1>10, <1>11 DEF EndInv

\* When the stream has ended, all is collected.
LEMMA AllCollected ==
  ASSUME Kept, LineInv, EndInv, ~event, use = "ended"
  PROVE  ToSet(Collected) = Values
  <1>1. BatchEnded /\ UntilEnded /\ MapEnded /\ MergeEnded
    BY DEF BatchEnded, UntilEnded, MapEnded, MergeEnded
  <1>2. /\ BatchLeft /\ batches.is # "item" /\ taken.is # "item" /\ MapLeft /\ mapped.is # "item"
        /\ merged.is # "item" /\ \A f \in Feeds : pull[f] = Quiet /\ given[f] = Supply[f]
    BY <1>1 DEF EndInv, Ends, AllGiven
  <1>3. There
    BY <1>1 DEF EndInv, Broken
  <1>4. Values \subseteq On(Line)
    <2> SUFFICES ASSUME NEW v \in Values PROVE v \in On(Line)
      OBVIOUS
    <2>1. v[1] \in Feeds /\ v[2] <= Supply[v[1]]
      BY ValuesAre, PipelineAssumption
    <2> QED
      BY <1>2, <1>3, <2>1, Plain DEF There
  <1>5. /\ InBatches = <<>> /\ InBatch = <<>> /\ InMap = <<>> /\ Carried(taken) = <<>>
        /\ Carried(mapped) = <<>> /\ Carried(merged) = <<>>
    BY <1>2 DEF InBatches, InBatch, InMap, Carried
  <1>6. Pieces /\ Collected \in Seq(Values)
    BY PiecesAre DEF Kept, LineInv
  <1>7. \A i \in Places : i = 1 \/ Line[i] = <<>>
    <2>1. \A i \in Places : i \in {1, 2, 3, 4, 5, 6, 7, 8}
      BY DEF Places
    <2> QED
      BY <1>5, <1>6, <2>1, LineIs
  <1>8. \A i \in Places : i = 1 \/ ToSet(Line[i]) = {}
    BY <1>7, SortedShort
  <1>9. On(Line) \subseteq ToSet(Collected)
    BY <1>6, <1>8, LineIs DEF On
  <1>10. ToSet(Collected) \subseteq Values
    BY <1>6 DEF ToSet
  <1> QED
    BY <1>4, <1>9, <1>10

\* ... in order and once.
LEMMA OneByOne ==
  ASSUME Kept, LineInv
  PROVE  /\ IsInjective(Collected)
         /\ ordered => \A j, k \in DOMAIN Collected :
              j < k /\ Collected[j][1] = Collected[k][1] => Collected[j][2] < Collected[k][2]
  <1>1. Sorted(Collected, ordered) /\ Collected \in Seq(Values)
    <2>1. Line[1] = Collected /\ 1 \in Places
      BY PiecesAre, LineIs DEF Kept, LineInv, Places
    <2> QED
      BY <2>1 DEF LineInv, InOrder
  <1>2. \A j, k \in DOMAIN Collected : j < k => Precedes(Collected[j], Collected[k], ordered)
    BY <1>1 DEF Sorted
  <1>3. \A j, k \in DOMAIN Collected : j = k \/ j < k \/ k < j
    BY <1>1
  <1>4. IsInjective(Collected)
    <2> SUFFICES ASSUME NEW j \in DOMAIN Collected, NEW k \in DOMAIN Collected, Collected[j] = Collected[k]
                 PROVE  j = k
      BY DEF IsInjective
    <2> QED
      BY <1>2, <1>3 DEF Precedes
  <1> QED
    BY <1>2, <1>4 DEF Precedes

\* End to end no item is collected twice, with ordered=True those of a feed come in
\* its order, and when the stream has ended, and nobody has told it to, all items of
\* all feeds have been collected.
THEOREM EndToEnd == Spec => []NothingDropped
  <1>1. Init => IInv /\ Fed /\ LineInv /\ EndInv
    BY Starting, StreamsStart, LineStarts
  <1>2. Kept /\ LineInv /\ EndInv /\ [Next]_vars => (Kept /\ LineInv /\ EndInv)'
    <2>1. Kept /\ [Next]_vars => Kept'
      BY KeptStays
    <2> QED
      BY <2>1, LineStays, EndStays
  <1>3. Kept /\ LineInv /\ EndInv => NothingDropped
    BY AllCollected, OneByOne DEF NothingDropped
  <1> QED
    BY <1>1, <1>2, <1>3, PTL DEF Spec, Kept
=============================================================================
