---------------------------- MODULE ScopesProofs ----------------------------
(***************************************************************************)
(* The books of a registry balance, drain waits for everything, and        *)
(* nothing outlives a closed registry, for every finite set of tasks and   *)
(* every set of closers that race each other.  Scopes nest: the registry   *)
(* keeps these promises whatever its tasks do, and nothing of a group that *)
(* one of them runs outlives it either.                                    *)
(***************************************************************************)
EXTENDS Scopes, FiniteSetTheorems, TLAPS

-----------------------------------------------------------------------------
(* The registry alone *)

Counted(how) == {k \in Ended \ tasks : task[k] = how}

\* Each task is accounted for in one place.
BooksInv ==
  /\ tasks \subseteq Running \cup Ended
  /\ Reconciles

\* What a drain owes is or was a task of the registry; what closes it leaves
\* nobody running that it does not wait for.
CloseInv ==
  \A c \in Closers :
    /\ owed[c] \subseteq Running \cup Ended
    /\ op[c] = "drain" /\ pc[c] = "returned" => owed[c] \subseteq Ended \ tasks
    /\ pc[c] = "gathering" => op[c] \in {"drain", "exit"}
    /\ pc[c] = "unwinding" => op[c] = "aclose" /\ closed /\ Running \subseteq awaiting[c]
    /\ op[c] \in {"aclose", "exit"} /\ pc[c] = "returned" => closed /\ Running = {}

\* TypeOK without the bound on the counters, which follows from the books.
ShapeOK ==
  /\ tasks \subseteq Tasks
  /\ closed \in BOOLEAN
  /\ task \in [Tasks -> {"none", "running", "ok", "error", "cancelled"}]
  /\ asked \subseteq Tasks
  /\ op \in [Closers -> {"none"} \cup Operations]
  /\ pc \in [Closers -> {"idle", "gathering", "unwinding", "returned", "cancelled"}]
  /\ awaiting \in [Closers -> SUBSET Tasks]
  /\ thrown \subseteq Closers
  /\ owed \in [Closers -> SUBSET Tasks]

RegistryInv == ShapeOK /\ BooksInv /\ CloseInv

USE RegistryAssumption

-----------------------------------------------------------------------------
(* Counting *)

\* The tasks that were counted can be counted.
LEMMA CountedFinite ==
  ASSUME NEW how
  PROVE  IsFiniteSet(Counted(how)) /\ Cardinality(Counted(how)) \in Nat
  <1>1. Counted(how) \in SUBSET Tasks
    BY DEF Counted, Ended
  <1> QED
    BY <1>1, FS_Subset, FS_CardinalityType

LEMMA TypesFollow == RegistryInv => TypeOK
  <1> SUFFICES ASSUME RegistryInv PROVE completed \in Nat /\ failed \in Nat /\
                 completed + failed <= Cardinality(Tasks)
    BY DEF RegistryInv, ShapeOK, TypeOK
  <1> DEFINE good == Counted("ok")
             bad == Counted("error")
  <1>1. completed = Cardinality(good) /\ failed = Cardinality(bad)
    BY DEF RegistryInv, BooksInv, Reconciles, Counted
  <1>2. IsFiniteSet(good) /\ IsFiniteSet(bad)
    BY CountedFinite
  <1>3. good \cap bad = {} /\ good \cup bad \in SUBSET Tasks
    BY DEF Counted, Ended
  <1>4. Cardinality(good \cup bad) = Cardinality(good) + Cardinality(bad)
    <2>1. Cardinality(good \cup bad) =
            Cardinality(good) + Cardinality(bad) - Cardinality(good \cap bad)
      BY <1>2, FS_Union
    <2>2. Cardinality(good \cap bad) = 0
      BY <1>3, FS_EmptySet
    <2>3. Cardinality(good) \in Nat /\ Cardinality(bad) \in Nat
      BY CountedFinite
    <2> QED
      BY <2>1, <2>2, <2>3
  <1>5. Cardinality(good \cup bad) <= Cardinality(Tasks)
    BY <1>3, FS_Subset
  <1>6. completed \in Nat /\ failed \in Nat
    BY <1>1, CountedFinite
  <1> QED
    BY <1>1, <1>4, <1>5, <1>6

\* The sets whose sizes are the counters stay as they are, and so do the books.
LEMMA BooksStand ==
  ASSUME BooksInv, Running' \subseteq tasks', tasks' \subseteq Running' \cup Ended',
         Counted("ok")' = Counted("ok"), Counted("error")' = Counted("error"),
         completed' = completed, failed' = failed
  PROVE  BooksInv'
  BY DEF BooksInv, Reconciles, Counted

-----------------------------------------------------------------------------
(* The tasks *)

LEMMA InitHolds == Init => RegistryInv
  <1> SUFFICES ASSUME Init PROVE RegistryInv
    OBVIOUS
  <1>1. Counted("ok") = {} /\ Counted("error") = {}
    BY DEF Init, Counted, Ended
  <1>2. BooksInv
    BY <1>1, FS_EmptySet DEF Init, BooksInv, Reconciles, Counted, Running, Ended
  <1>3. ShapeOK /\ CloseInv
    BY DEF Init, ShapeOK, CloseInv, Running, Ended
  <1> QED
    BY <1>2, <1>3 DEF RegistryInv

\* A new task runs and is owned; what has returned has closed the registry, or
\* owes nothing to it.
LEMMA SpawnKeeps ==
  ASSUME RegistryInv, NEW k \in Tasks, Spawn(k)
  PROVE  RegistryInv'
  <1>1. ShapeOK'
    BY DEF RegistryInv, ShapeOK, Spawn, closerVars
  <1>2. Running' = Running \cup {k} /\ Ended' = Ended /\ k \notin Running \cup Ended
    BY DEF RegistryInv, ShapeOK, Spawn, Running, Ended
  <1>3. BooksInv'
    <2>1. Counted("ok")' = Counted("ok") /\ Counted("error")' = Counted("error")
      BY <1>2 DEF RegistryInv, ShapeOK, Spawn, Counted, Ended
    <2> QED
      BY <1>2, <2>1, BooksStand DEF RegistryInv, BooksInv, Reconciles, Spawn
  <1>4. CloseInv'
    BY <1>2 DEF RegistryInv, ShapeOK, CloseInv, Spawn, Accepts, closerVars
  <1> QED
    BY <1>1, <1>3, <1>4 DEF RegistryInv

\* A task that ends is owned until its callback has run.
LEMMA TaskEndsKeeps ==
  ASSUME RegistryInv, NEW k \in Tasks, TaskEnds(k)
  PROVE  RegistryInv'
  <1>1. ShapeOK'
    BY DEF RegistryInv, ShapeOK, TaskEnds, registryVars, closerVars
  <1>2. Running' = Running \ {k} /\ Ended' = Ended \cup {k} /\ k \in tasks
    BY DEF RegistryInv, ShapeOK, BooksInv, Reconciles, TaskEnds, Running, Ended
  <1>3. BooksInv'
    <2>1. Counted("ok")' = Counted("ok") /\ Counted("error")' = Counted("error")
      BY <1>2 DEF RegistryInv, ShapeOK, TaskEnds, Counted, registryVars, Ended
    <2> QED
      BY <1>2, <2>1, BooksStand DEF RegistryInv, BooksInv, Reconciles, TaskEnds, registryVars
  <1>4. CloseInv'
    BY <1>2 DEF RegistryInv, CloseInv, TaskEnds, registryVars, closerVars
  <1> QED
    BY <1>1, <1>3, <1>4 DEF RegistryInv

\* The callback counts a task once, because it disowns it.
LEMMA OnDoneKeeps ==
  ASSUME RegistryInv, NEW k \in Tasks, OnDone(k)
  PROVE  RegistryInv'
  <1>1. ShapeOK'
    BY DEF RegistryInv, ShapeOK, OnDone, closerVars
  <1>2. Running' = Running /\ Ended' = Ended /\ k \in Ended /\ k \notin Running
    BY DEF OnDone, Running, Ended
  <1>3. BooksInv'
    <2>1. ASSUME NEW how
          PROVE  Counted(how)' = IF task[k] = how THEN Counted(how) \cup {k} ELSE Counted(how)
      BY <1>2 DEF OnDone, Counted, Ended
    <2>2. ASSUME NEW how
          PROVE  Cardinality(Counted(how)') = IF task[k] = how THEN Cardinality(Counted(how)) + 1
                                              ELSE Cardinality(Counted(how))
      <3>1. k \notin Counted(how)
        BY DEF OnDone, Counted
      <3> QED
        BY <2>1, <3>1, CountedFinite, FS_AddElement
    <2>3. completed' = Cardinality(Counted("ok")') /\ failed' = Cardinality(Counted("error")')
      BY <2>2 DEF RegistryInv, BooksInv, Reconciles, OnDone, Counted
    <2>4. Running' \subseteq tasks' /\ tasks' \subseteq Running' \cup Ended'
      BY <1>2 DEF RegistryInv, BooksInv, Reconciles, OnDone
    <2> QED
      BY <2>3, <2>4 DEF BooksInv, Reconciles, Counted
  <1>4. CloseInv'
    BY <1>2 DEF RegistryInv, CloseInv, OnDone, closerVars
  <1> QED
    BY <1>1, <1>3, <1>4 DEF RegistryInv

-----------------------------------------------------------------------------
(* The closers *)

\* A closer's step leaves the tasks and the counters alone.
LEMMA TasksStand ==
  ASSUME RegistryInv, UNCHANGED <<tasks, completed, failed, task>>
  PROVE  BooksInv' /\ Running' = Running /\ Ended' = Ended
  BY DEF RegistryInv, BooksInv, Reconciles, Running, Ended

\* Waiting for all there is, or returning when there is nothing.
LEMMA GatherMoves ==
  ASSUME ShapeOK, NEW c \in Closers, NEW what, GatherOrReturn(c, what)
  PROVE  /\ pc' \in [Closers -> {"idle", "gathering", "unwinding", "returned", "cancelled"}]
         /\ closed' \in BOOLEAN
         /\ awaiting \in [Closers -> SUBSET Tasks] /\ awaiting' \in [Closers -> SUBSET Tasks]
         /\ \A d \in Closers \ {c} : pc'[d] = pc[d] /\ awaiting'[d] = awaiting[d]
         /\ closed => closed'
         /\ pc'[c] \in {"returned", "gathering"}
         /\ pc'[c] = "returned" => tasks = {} /\ (what = "exit" => closed')
  <1>1. CASE Drained(c)
    BY <1>1 DEF ShapeOK, GatherOrReturn, Drained, Moves
  <1>2. CASE ~Drained(c)
    BY <1>2 DEF ShapeOK, GatherOrReturn, Drained, Moves
  <1> QED
    BY <1>1, <1>2

LEMMA DrainKeeps ==
  ASSUME RegistryInv, NEW c \in Closers, NEW what \in Operations, Drain(c, what)
  PROVE  RegistryInv'
  <1>1. ShapeOK'
    BY GatherMoves DEF RegistryInv, ShapeOK, Drain
  <1>2. BooksInv' /\ Running' = Running /\ Ended' = Ended
    BY TasksStand DEF Drain
  <1>3. CloseInv'
    <2> SUFFICES ASSUME NEW d \in Closers
                 PROVE  /\ owed'[d] \subseteq Running \cup Ended
                        /\ op'[d] = "drain" /\ pc'[d] = "returned" => owed'[d] \subseteq Ended \ tasks'
                        /\ pc'[d] = "gathering" => op'[d] \in {"drain", "exit"}
                        /\ pc'[d] = "unwinding" => op'[d] = "aclose" /\ closed' /\ Running \subseteq awaiting'[d]
                        /\ op'[d] \in {"aclose", "exit"} /\ pc'[d] = "returned" => closed' /\ Running = {}
      BY <1>2 DEF CloseInv
    <2>1. tasks' = tasks /\ tasks \subseteq Running \cup Ended /\ Running \subseteq tasks
      BY DEF RegistryInv, BooksInv, Reconciles, Drain
    <2>2. CASE d = c
      <3>1. op'[c] = what /\ what \in {"drain", "exit"} /\ owed'[c] = tasks
        BY DEF RegistryInv, ShapeOK, Drain
      <3> QED
        BY <2>1, <2>2, <3>1, GatherMoves DEF RegistryInv, Drain
    <2>3. CASE d # c
      <3>1. op'[d] = op[d] /\ owed'[d] = owed[d]
        BY <2>3 DEF RegistryInv, ShapeOK, Drain
      <3> QED
        BY <2>1, <2>3, <3>1, GatherMoves DEF RegistryInv, CloseInv, Drain
    <2> QED
      BY <2>2, <2>3
  <1> QED
    BY <1>1, <1>2, <1>3 DEF RegistryInv

\* drain returns when the registry owns nothing, and then nothing runs.
LEMMA GatheredKeeps ==
  ASSUME RegistryInv, NEW c \in Closers, Gathered(c)
  PROVE  RegistryInv'
  <1>1. ShapeOK'
    BY GatherMoves DEF RegistryInv, ShapeOK, Gathered
  <1>2. BooksInv' /\ Running' = Running /\ Ended' = Ended
    BY TasksStand DEF Gathered
  <1>3. CloseInv'
    <2> SUFFICES ASSUME NEW d \in Closers
                 PROVE  /\ owed[d] \subseteq Running \cup Ended
                        /\ op[d] = "drain" /\ pc'[d] = "returned" => owed[d] \subseteq Ended \ tasks
                        /\ pc'[d] = "gathering" => op[d] \in {"drain", "exit"}
                        /\ pc'[d] = "unwinding" => op[d] = "aclose" /\ closed' /\ Running \subseteq awaiting'[d]
                        /\ op[d] \in {"aclose", "exit"} /\ pc'[d] = "returned" => closed' /\ Running = {}
      BY <1>2 DEF CloseInv, Gathered
    <2>1. Running \subseteq tasks
      BY DEF RegistryInv, BooksInv, Reconciles
    <2>2. CASE d = c
      <3>1. owed[c] \subseteq Running \cup Ended /\ op[c] \in {"drain", "exit"}
        BY DEF RegistryInv, CloseInv, Gathered
      <3> QED
        BY <2>1, <2>2, <3>1, GatherMoves DEF RegistryInv, Gathered
    <2>3. CASE d # c
      BY <2>3, GatherMoves DEF RegistryInv, CloseInv, Gathered
    <2> QED
      BY <2>2, <2>3
  <1> QED
    BY <1>1, <1>2, <1>3 DEF RegistryInv

\* What runs when aclose is called is owned, cancelled and waited for.
LEMMA AcloseKeeps ==
  ASSUME RegistryInv, NEW c \in Closers, Aclose(c)
  PROVE  RegistryInv'
  <1>1. ShapeOK'
    BY DEF RegistryInv, ShapeOK, Aclose, Moves, Running
  <1>2. BooksInv' /\ Running' = Running /\ Ended' = Ended
    BY TasksStand DEF Aclose
  <1>3. CloseInv'
    BY <1>2 DEF RegistryInv, ShapeOK, BooksInv, Reconciles, CloseInv, Aclose, Moves
  <1> QED
    BY <1>1, <1>2, <1>3 DEF RegistryInv

LEMMA OtherCloserKeeps ==
  ASSUME RegistryInv, NEW c \in Closers, GatherCancelled(c) \/ Unwound(c) \/ Cancel(c)
  PROVE  RegistryInv'
  <1>1. ShapeOK'
    BY DEF RegistryInv, ShapeOK, GatherCancelled, Unwound, Cancel, Moves, registryVars, Running
  <1>2. BooksInv' /\ Running' = Running /\ Ended' = Ended
    BY TasksStand DEF GatherCancelled, Unwound, Cancel, registryVars
  <1>3. Running \cap Ended = {}
    BY DEF Running, Ended
  <1>4. CloseInv'
    BY <1>2, <1>3 DEF RegistryInv, ShapeOK, CloseInv, GatherCancelled, Unwound, Cancel, Moves,
                registryVars
  <1> QED
    BY <1>1, <1>2, <1>4 DEF RegistryInv

-----------------------------------------------------------------------------
(* Every step keeps the invariant *)

LEMMA RegistryStands == RegistryInv /\ UNCHANGED vars => RegistryInv'
  BY DEF vars, registryVars, closerVars, RegistryInv, ShapeOK, BooksInv, Reconciles, CloseInv,
         Running, Ended

LEMMA StepKeeps == RegistryInv /\ [Next]_vars => RegistryInv'
  <1> SUFFICES ASSUME RegistryInv, [Next]_vars PROVE RegistryInv'
    OBVIOUS
  <1>1. CASE LoopStep
    BY <1>1, OnDoneKeeps, GatheredKeeps, OtherCloserKeeps DEF LoopStep
  <1>2. ASSUME NEW k \in Tasks, Spawn(k) \/ TaskEnds(k) PROVE RegistryInv'
    BY <1>2, SpawnKeeps, TaskEndsKeeps
  <1>3. ASSUME NEW c \in Closers, Aclose(c) \/ Cancel(c) PROVE RegistryInv'
    BY <1>3, AcloseKeeps, OtherCloserKeeps
  <1>4. ASSUME NEW c \in Closers, NEW what \in Operations, Drain(c, what) PROVE RegistryInv'
    BY <1>4, DrainKeeps
  <1>5. CASE UNCHANGED vars
    BY <1>5, RegistryStands
  <1> QED
    BY <1>1, <1>2, <1>3, <1>4, <1>5 DEF Next

\* The invariant says what the registry promises.
LEMMA RegistrySafe == RegistryInv => Reconciles /\ DrainMeansAll /\ NothingOutlives
  BY DEF RegistryInv, BooksInv, CloseInv, DrainMeansAll, NothingOutlives

LEMMA Always == Spec => []RegistryInv
  BY InitHolds, StepKeeps, PTL DEF Spec

-----------------------------------------------------------------------------
(* The results *)

\* The variables of the registry keep their types, its counters their bounds.
THEOREM RegistryTypes == Spec => []TypeOK
  BY Always, TypesFollow, PTL

\* Nothing outlives the scope, then or later, whatever races its end.
THEOREM RegistryCloses == Spec => []NothingOutlives
  <1>1. RegistryInv => NothingOutlives
    BY RegistrySafe
  <1> QED
    BY <1>1, Always, PTL

-----------------------------------------------------------------------------
(* The registry and the group together *)

GP == INSTANCE TaskGroupProofs WITH
        op <- call, pc <- at, asked <- torn, thrown <- raised, Operations <- Calls

\* Only a running Host is inside a group.
HostInside == at \in {"waiting", "unwinding"} => task[Host] = "running"

\* A Host that was cancelled where it waits will be thrown out of there.
CancelArrives ==
  /\ at = "idle" => ~wanted
  /\ at = "waiting" /\ (wanted \/ Host \in asked) => raised

\* What aclose waits for has been cancelled.
AllAsked ==
  \A c \in Closers : pc[c] = "unwinding" => awaiting[c] \cap Running \subseteq asked

IInv == RegistryInv /\ GP!IInv /\ HostInside /\ CancelArrives /\ AllAsked

-----------------------------------------------------------------------------
(* The steps of both are steps of each *)

\* The steps of the two are steps of the registry, or leave it alone.
LEMMA RegistryView == [NextBoth]_allVars => [Next]_vars
  BY ScopesAssumption
  DEF NextBoth, allVars, RegistryStep, OtherEnds, HostBegins, GroupTurn, HostCancelled, HostEnds,
      ChildStarts, ChildEnds, Next

-----------------------------------------------------------------------------
(* G, the group of Scopes, and GP, the one the theorems are about, are the *)
(* same module, instantiated twice: each definition means the same.        *)

\* The turns of the caller.
LEMMA SameCaller == G!CallerStep => GP!CallerStep
  BY DEF G!CallerStep, GP!CallerStep, G!Unwound, GP!Unwound, G!Collects, GP!Collects,
         G!Settles, GP!Settles, G!RacesOn, GP!RacesOn, G!Lists, GP!Lists, G!Expires,
         GP!Expires, G!CallerCancelled, GP!CallerCancelled, G!CancelledInWaitFor,
         GP!CancelledInWaitFor, G!Wins, GP!Wins, G!Aborts, GP!Aborts, G!Settled, GP!Settled,
         G!Follows, GP!Follows, G!Unwinds, GP!Unwinds, G!Ends, GP!Ends, G!CancelAndWait,
         GP!CancelAndWait, G!FirstException, GP!FirstException, G!NewlyDone, GP!NewlyDone,
         G!Lands, GP!Lands, G!In, GP!In, G!Done, GP!Done, G!AllDone, GP!AllDone, G!AsChildDid,
         GP!AsChildDid, G!Gathering, GP!Gathering, G!Listing, GP!Listing, G!Single, GP!Single,
         G!Borrowing, GP!Borrowing, G!callerVars, GP!callerVars, G!cancelVars, GP!cancelVars

\* A cancel() of the caller.
LEMMA SameCancel == G!Cancel => GP!Cancel
  BY DEF G!Cancel, GP!Cancel, G!callerVars, GP!callerVars, G!In, GP!In, G!Done, GP!Done,
         G!Gathering, GP!Gathering

\* The beginning of a call.
LEMMA SameBegin == \A what \in Calls : G!Begin(what) => GP!Begin(what)
  BY DEF G!Begin, GP!Begin, G!cancelVars, GP!cancelVars, G!Single, GP!Single

\* The start of a child.
LEMMA SameStart == \A k \in Children : G!ChildStarts(k) => GP!ChildStarts(k)
  BY DEF G!ChildStarts, GP!ChildStarts, G!Permitted, GP!Permitted, G!Cardinality,
         GP!Cardinality, G!In, GP!In, G!callerVars, GP!callerVars, G!cancelVars, GP!cancelVars

\* The end of a child.
LEMMA SameEnd == \A k \in Children : G!ChildEnds(k) => GP!ChildEnds(k)
  BY DEF G!ChildEnds, GP!ChildEnds, G!callerVars, GP!callerVars, G!cancelVars, GP!cancelVars

\* What is assumed of the constants.
LEMMA SameAssumption == GP!GroupAssumption
  BY ScopesAssumption
  DEF ScopesAssumption, G!GroupAssumption, GP!GroupAssumption, G!IsFiniteSet, GP!IsFiniteSet,
      G!Gathering, GP!Gathering, G!Listing, GP!Listing, G!Single, GP!Single, G!Borrowing,
      GP!Borrowing

\* The steps of the two are steps of the group, or leave it alone.
LEMMA GroupView ==
  ASSUME [NextBoth]_allVars
  PROVE  GP!CallerStep \/ GP!Cancel \/ (\E what \in Calls : GP!Begin(what))
         \/ (\E k \in Children : GP!ChildStarts(k) \/ GP!ChildEnds(k)) \/ UNCHANGED groupVars
  BY SameCaller, SameCancel, SameBegin, SameStart, SameEnd
  DEF NextBoth, allVars, RegistryStep, OtherEnds, HostBegins, GroupTurn, HostCancelled, HostEnds,
      ChildStarts, ChildEnds

\* So the invariant of a group survives in the composition.
LEMMA GroupKeeps == GP!IInv /\ [NextBoth]_allVars => GP!IInv'
  <1>1. [NextBoth]_allVars => [GP!Next]_(GP!vars)
    BY GroupView DEF GP!Next, GP!vars, GP!callerVars, GP!cancelVars, groupVars
  <1> QED
    BY <1>1, GP!StepKeeps, SameAssumption

-----------------------------------------------------------------------------
(* What one of them needs of the other *)

\* A turn of the caller cancels nobody outside its group and begins no call.
LEMMA CallerTurn ==
  ASSUME G!CallerStep
  PROVE  UNCHANGED <<wanted, raised>> /\ at \in {"waiting", "unwinding"} /\ at' # "idle"
  BY DEF G!CallerStep, G!Unwound, G!Collects, G!Settles, G!RacesOn, G!Lists, G!Expires,
         G!CallerCancelled, G!CancelledInWaitFor, G!Wins, G!Aborts, G!Settled, G!Follows,
         G!Unwinds, G!Ends, G!CancelAndWait, G!FirstException, G!NewlyDone, G!Lands, G!In,
         G!Done, G!AllDone, G!AsChildDid, G!Gathering, G!Listing, G!Single, G!Borrowing,
         G!callerVars, G!cancelVars

\* Nor does a turn of a child.
LEMMA ChildTurn ==
  ASSUME NEW k \in Children, G!ChildStarts(k) \/ G!ChildEnds(k)
  PROVE  UNCHANGED <<wanted, raised, at>>
  BY DEF G!ChildStarts, G!ChildEnds, G!callerVars, G!cancelVars

\* A turn of the registry, which passes on what it does to Host.
RegistryTurn ==
  /\ \/ LoopStep
     \/ \E k \in Tasks : Spawn(k)
     \/ \E c \in Closers : Aclose(c) \/ Cancel(c)
     \/ \E c \in Closers, what \in Operations : Drain(c, what)
  /\ \/ Passes /\ G!Cancel
     \/ ~Passes /\ UNCHANGED groupVars

\* The kinds of steps there are, for the lemmas that follow.
LEMMA Turns ==
  ASSUME [NextBoth]_allVars
  PROVE  \/ RegistryTurn
         \/ HostEnds \/ HostCancelled \/ GroupTurn
         \/ \E k \in Tasks : OtherEnds(k)
         \/ \E what \in Calls : HostBegins(what)
         \/ \E k \in Children : ChildStarts(k) \/ ChildEnds(k)
         \/ UNCHANGED allVars
  BY DEF NextBoth, RegistryStep, RegistryTurn

\* cancel() is not taken back.
LEMMA AskedGrows == RegistryInv /\ [Next]_vars => asked \subseteq asked'
  BY DEF Next, vars, LoopStep, OnDone, Gathered, GatherCancelled, Unwound, Spawn, TaskEnds, Aclose,
         Cancel, Drain, registryVars, closerVars

\* Host ends only outside of its group, and enters it only while it runs.
LEMMA HostInsideKeeps == IInv /\ [NextBoth]_allVars => HostInside'
  <1> SUFFICES ASSUME IInv, [NextBoth]_allVars PROVE HostInside'
    OBVIOUS
  <1> USE DEF IInv, HostInside
  <1>1. CASE RegistryTurn
    <2>1. task[Host] = "running" => task'[Host] = "running"
      <3>1. CASE LoopStep
        BY <3>1 DEF LoopStep, OnDone, Gathered, GatherCancelled, Unwound
      <3>2. ASSUME NEW k \in Tasks, Spawn(k), task[Host] = "running"
            PROVE  task'[Host] = "running"
        <4>1. task' = [task EXCEPT ![k] = "running"] /\ k # Host
          BY <3>2 DEF Spawn
        <4> QED
          BY <3>2, <4>1, ScopesAssumption DEF RegistryInv, ShapeOK
      <3>3. CASE \E c \in Closers : Aclose(c) \/ Cancel(c)
        BY <3>3 DEF Aclose, Cancel
      <3>4. CASE \E c \in Closers, what \in Operations : Drain(c, what)
        BY <3>4 DEF Drain
      <3> QED
        BY <1>1, <3>1, <3>2, <3>3, <3>4 DEF RegistryTurn
    <2>2. at' = at
      BY <1>1 DEF RegistryTurn, G!Cancel, G!callerVars, groupVars
    <2> QED
      BY <2>1, <2>2
  <1>2. CASE HostEnds
    BY <1>2 DEF HostEnds, groupVars
  <1>3. CASE HostCancelled
    BY <1>3 DEF HostCancelled, G!Cancel, G!callerVars, vars
  <1>4. CASE GroupTurn
    BY <1>4, CallerTurn DEF GroupTurn, vars
  <1>5. ASSUME NEW k \in Tasks, OtherEnds(k) PROVE HostInside'
    BY <1>5 DEF OtherEnds, TaskEnds, groupVars, RegistryInv, ShapeOK
  <1>6. ASSUME NEW what \in Calls, HostBegins(what) PROVE HostInside'
    BY <1>6 DEF HostBegins, vars
  <1>7. ASSUME NEW k \in Children, ChildStarts(k) \/ ChildEnds(k) PROVE HostInside'
    BY <1>7, ChildTurn DEF ChildStarts, ChildEnds, vars
  <1>8. CASE UNCHANGED allVars
    BY <1>8 DEF allVars, vars, groupVars
  <1> QED
    BY <1>1, <1>2, <1>3, <1>4, <1>5, <1>6, <1>7, <1>8, Turns

\* A cancel() of Host reaches its group in the same step.
LEMMA CancelArrivesKeeps == IInv /\ [NextBoth]_allVars => CancelArrives'
  <1> SUFFICES ASSUME IInv, [NextBoth]_allVars PROVE CancelArrives'
    OBVIOUS
  <1> USE DEF IInv, CancelArrives
  <1>1. CASE RegistryTurn
    <2>1. CASE Passes /\ G!Cancel
      BY <2>1 DEF Passes, G!Cancel, G!callerVars
    <2>2. CASE ~Passes /\ UNCHANGED groupVars
      BY <2>2 DEF Passes, Cancels, groupVars
    <2> QED
      BY <1>1, <2>1, <2>2 DEF RegistryTurn
  <1>2. CASE HostEnds \/ \E k \in Tasks : OtherEnds(k)
    BY <1>2 DEF HostEnds, OtherEnds, TaskEnds, groupVars
  <1>3. CASE HostCancelled
    BY <1>3 DEF HostCancelled, G!Cancel, G!callerVars, vars
  <1>4. CASE GroupTurn
    <2>1. at' = "waiting" => at = "waiting"
      BY <1>4
      DEF GroupTurn, G!CallerStep, G!Unwound, G!Collects, G!Settles, G!RacesOn, G!Lists, G!Expires,
         G!CallerCancelled, G!CancelledInWaitFor, G!Wins, G!Aborts, G!Settled, G!Follows,
         G!Unwinds, G!Ends, G!CancelAndWait, G!FirstException, G!NewlyDone, G!Lands, G!In,
         G!Done, G!AllDone, G!AsChildDid, G!Gathering, G!Listing, G!Single, G!Borrowing,
         G!callerVars, G!cancelVars
    <2> QED
      BY <1>4, <2>1, CallerTurn DEF GroupTurn, vars
  <1>5. ASSUME NEW what \in Calls, HostBegins(what) PROVE CancelArrives'
    BY <1>5 DEF HostBegins, vars, G!Begin, G!cancelVars
  <1>6. ASSUME NEW k \in Children, ChildStarts(k) \/ ChildEnds(k) PROVE CancelArrives'
    BY <1>6, ChildTurn DEF ChildStarts, ChildEnds, vars
  <1>7. CASE UNCHANGED allVars
    BY <1>7 DEF allVars, vars, groupVars
  <1> QED
    BY <1>1, <1>2, <1>3, <1>4, <1>5, <1>6, <1>7, Turns

\* A closed registry spawns nothing new to wait for.
LEMMA AllAskedKeeps == IInv /\ [NextBoth]_allVars => AllAsked'
  <1> SUFFICES ASSUME IInv, [Next]_vars, asked \subseteq asked' PROVE AllAsked'
    BY RegistryView, AskedGrows DEF IInv
  <1>1. RegistryInv'
    BY StepKeeps DEF IInv
  <1>2. ASSUME NEW c \in Closers, pc'[c] = "unwinding"
        PROVE  \/ pc[c] = "unwinding" /\ awaiting'[c] = awaiting[c]
               \/ awaiting'[c] \subseteq asked'
    BY <1>2 DEF IInv, RegistryInv, ShapeOK, Next, vars, LoopStep, OnDone, Gathered, GatherOrReturn,
       GatherCancelled, Unwound, Spawn, TaskEnds, Aclose, Cancel, Drain, Moves, registryVars, closerVars
  <1>3. ASSUME NEW c \in Closers, pc[c] = "unwinding" PROVE Running' \subseteq Running
    BY <1>3 DEF IInv, RegistryInv, ShapeOK, CloseInv, Next, vars, LoopStep, OnDone, Gathered,
       GatherCancelled, Unwound, Spawn, Accepts, TaskEnds, Aclose, Cancel, Drain, Running,
       registryVars, closerVars
  <1> QED
    BY <1>2, <1>3 DEF IInv, AllAsked

\* The invariant of both holds at first.
LEMMA BothInit == InitBoth => IInv
  <1> SUFFICES ASSUME Init, G!Init PROVE IInv
    BY DEF InitBoth
  <1>1. RegistryInv
    BY InitHolds
  <1>2. GP!IInv
    BY GP!InitHolds, SameAssumption DEF G!Init, GP!Init
  <1>3. HostInside /\ CancelArrives /\ AllAsked
    BY DEF Init, G!Init, HostInside, CancelArrives, AllAsked
  <1> QED
    BY <1>1, <1>2, <1>3 DEF IInv

\* Every step keeps it.
LEMMA BothKeep == IInv /\ [NextBoth]_allVars => IInv'
  <1> SUFFICES ASSUME IInv, [NextBoth]_allVars PROVE IInv'
    OBVIOUS
  <1>1. RegistryInv'
    BY RegistryView, StepKeeps DEF IInv
  <1>2. GP!IInv'
    BY GroupKeeps DEF IInv
  <1>3. HostInside' /\ CancelArrives' /\ AllAsked'
    BY HostInsideKeeps, CancelArrivesKeeps, AllAskedKeeps
  <1> QED
    BY <1>1, <1>2, <1>3 DEF IInv

\* So it always holds.
LEMMA AlwaysBoth == SpecBoth => []IInv
  BY BothInit, BothKeep, PTL DEF SpecBoth

-----------------------------------------------------------------------------
(* The results *)

\* Whatever the tasks of a registry run, its books balance.
THEOREM Books == SpecBoth => []Reconciles
  <1>1. IInv => Reconciles
    BY RegistrySafe DEF IInv
  <1> QED
    BY <1>1, AlwaysBoth, PTL

\* drain has waited for everything that ran when it was called or was spawned
\* before it returned.
THEOREM DrainWaits == SpecBoth => []DrainMeansAll
  <1>1. IInv => DrainMeansAll
    BY RegistrySafe DEF IInv
  <1> QED
    BY <1>1, AlwaysBoth, PTL

\* Scopes nest: when a closed registry has let go of its tasks, the children of
\* a group that one of them ran have ended, too.
THEOREM ScopesNest == SpecBoth => []NothingLeftRunning
  <1>1. IInv => NothingLeftRunning
    <2> SUFFICES ASSUME IInv, NEW c \in Closers, op[c] \in {"aclose", "exit"}, pc[c] = "returned"
                 PROVE  at \in {"idle", "ended"} /\ G!In({"running"}) = {}
      <3>1. IInv => NothingOutlives
        BY RegistrySafe DEF IInv
      <3> QED
        BY <3>1 DEF NothingLeftRunning
    <2>1. Running = {}
      BY RegistrySafe DEF IInv, NothingOutlives
    <2>2. at \in {"idle", "ended"}
      BY <2>1, ScopesAssumption DEF IInv, HostInside, Running, GP!IInv, GP!TypeOK
    <2>3. CASE at = "idle"
      BY <2>3 DEF IInv, GP!IInv, GP!AskedLate, G!In
    <2>4. CASE at = "ended"
      <3>1. call \in Calls \cup {"none"} /\ call \notin GP!Borrowing /\ call # "with_timeout"
        BY ScopesAssumption, <2>4 DEF IInv, GP!IInv, GP!TypeOK, GP!Borrowing, G!Borrowing, G!Single
      <3>2. GP!AllDone
        BY <2>4, <3>1 DEF IInv, GP!IInv, GP!OwnershipDecides
      <3> QED
        BY <2>4, <3>2 DEF GP!AllDone, GP!Done, GP!In, G!In
    <2> QED
      BY <2>2, <2>3, <2>4
  <1> QED
    BY <1>1, AlwaysBoth, PTL

\* aclose cannot hang on a task it has forgotten to cancel, nor on the call that
\* such a task waits in.
THEOREM ClosingReaches == SpecBoth => []ClosingReachesAll
  <1>1. IInv => ClosingReachesAll
    BY DEF IInv, AllAsked, CancelArrives, ClosingReachesAll
  <1> QED
    BY <1>1, AlwaysBoth, PTL
=============================================================================
