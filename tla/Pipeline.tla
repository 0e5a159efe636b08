------------------------------ MODULE Pipeline ------------------------------
(***************************************************************************)
(* collect(batched(take_until(amap(merge(feeds), fn), event), ...)): the   *)
(* pipeline of examples/pipeline_demo.py, with several feeds in place of   *)
(* one.                                                                    *)
(*                                                                         *)
(* merge and amap run in the task that asks for their next item; batched   *)
(* and take_until ask in tasks of their own.  A generator suspended at a   *)
(* yield that nobody refers to any more is closed by the event loop, some  *)
(* time later.                                                             *)
(***************************************************************************)
EXTENDS AsyncIterator, Naturals, FiniteSets, SequencesExt

CONSTANTS
  Feeds,         \* what merge merges
  Supply,        \* how many items each of them has
  Faulty,        \* those that may fail
  Concurrency, Orders, Fragile,      \* amap
  Size, Timeouts,                    \* batched
  Limits,        \* limit= of collect, in batches
  NoLimit,
  Cancellable    \* whether collect may be cancelled

Values == UNION {{f} \X (1 .. Supply[f]) : f \in Feeds}

VARIABLES
  pull, merged, mapped, taken, batches,       \* the calls, from the feeds on
  mergeAt, mergeWalk, last, mergeExit,        \* merge
  mapAt, ordered, in_flight, head, job, torn, exhausted, mapWalk, mapExit,  \* amap
  untilAt, event, stop, untilExit,            \* take_until
  batchAt, batch, timed, ending,              \* batched
  use,           \* where collect is
  limit,         \* its limit
  out,           \* its out
  given          \* per feed: how many items it has delivered

mergeVars == <<mergeAt, mergeWalk, last, mergeExit>>
mapVars == <<mapAt, ordered, in_flight, head, job, torn, exhausted, mapWalk, mapExit>>
untilVars == <<untilAt, event, stop, untilExit>>
batchVars == <<batchAt, batch, timed, ending>>
useVars == <<use, limit, out>>
vars == <<pull, merged, mapped, taken, batches,
          mergeVars, mapVars, untilVars, batchVars, useVars, given>>

M == INSTANCE Merge WITH
       Sources <- Feeds, down <- merged,
       at <- mergeAt, walk <- mergeWalk, exit <- mergeExit
A == INSTANCE AsyncMap WITH
       down <- mapped, up <- merged, at <- mapAt, walk <- mapWalk, exit <- mapExit
T == INSTANCE TakeUntil WITH
       down <- taken, up <- mapped, at <- untilAt, exit <- untilExit
B == INSTANCE Batcher WITH
       down <- batches, up <- taken, at <- batchAt

ASSUME PipelineAssumption ==
  /\ IsFiniteSet(Feeds) /\ Feeds # {}
  /\ Nothing \notin Feeds
  /\ Supply \in [Feeds -> Nat]
  /\ Faulty \subseteq Feeds
  /\ Limits \subseteq Nat \cup {NoLimit}
  /\ Cancellable \in BOOLEAN
  /\ A!MapAssumption
  /\ B!BatcherAssumption

Init ==
  /\ M!Init /\ A!Init /\ T!Init /\ B!Init
  /\ use = "new"
  /\ limit \in Limits
  /\ out = <<>>
  /\ given = [f \in Feeds |-> 0]

-----------------------------------------------------------------------------
\* Who runs: generators that await one another directly go on without a break
\* until one of them waits for a task or a future, and a cancellation goes
\* down at once to what is really waited for.  At most one of these holds.
MergeRuns ==
  \/ mergeAt = "walking"
  \/ merged.is = "asked" /\ mergeAt \in {"new", "yielding"}
MapRuns ==
  \/ mapAt = "walking"
  \/ mapAt = "filling" /\ (Landed(merged) \/ mapped.killed)
  \/ mapAt = "awaiting" /\ mapped.killed /\ job[head] = "running"
\* A batched that spins without a timeout never lets the loop go.
BatchRuns ==
  \/ batches.is = "closing"
  \/ batches.is = "asked" /\ batchAt \in {"new", "yielding", "flushing"}
  \/ batchAt = "spinning" /\ ~timed
  \/ batches.killed /\ ~timed /\ taken.is = "asked"
CollectRuns == Landed(batches)
Idle == ~MergeRuns /\ ~MapRuns /\ ~BatchRuns /\ ~CollectRuns

-----------------------------------------------------------------------------
(* The feeds: any async iterators, which do not absorb a cancellation *)

FeedAnswers(f) ==
  /\ Idle
  /\ pull[f].is = "asked"
  /\ \/ /\ ~pull[f].killed
        /\ given[f] < Supply[f]
        /\ given' = [given EXCEPT ![f] = @ + 1]
        /\ pull' = [pull EXCEPT ![f] = Item(<<f, given[f] + 1>>)]
     \/ /\ ~pull[f].killed
        /\ given[f] = Supply[f]
        /\ pull' = [pull EXCEPT ![f] = Answer("stop")]
        /\ UNCHANGED given
     \/ /\ f \in Faulty
        /\ pull' = [pull EXCEPT ![f] = Answer("error")]
        /\ UNCHANGED given
     \/ /\ pull[f].killed
        /\ pull' = [pull EXCEPT ![f] = Answer("cancelled")]
        /\ UNCHANGED given
  /\ UNCHANGED <<merged, mapped, taken, batches, mergeVars, mapVars, untilVars, batchVars, useVars>>

-----------------------------------------------------------------------------
(* collect *)

Starts ==
  /\ use = "new"
  /\ batches' = Asked
  /\ use' = "pulling"
  /\ UNCHANGED <<limit, out>>

\* The limit is looked at after an item has been taken.
Receives ==
  /\ use = "pulling"
  /\ batches.is = "item"
  /\ out' = Append(out, batches.of)
  /\ IF limit # NoLimit /\ Len(out') >= limit
     THEN batches' = Closing /\ use' = "closing"
     ELSE batches' = Asked /\ UNCHANGED use
  /\ UNCHANGED limit

\* The end: of the stream, or by an exception; the aclose() in the finally
\* finds the generator over.
Finishes ==
  /\ use \in {"pulling", "closing"}
  /\ batches.is \in {"stop", "error", "cancelled", "closed"}
  /\ batches' = Quiet
  /\ use' = CASE batches.is = "stop" -> "ended"
               [] batches.is = "closed" -> "left"
               [] OTHER -> batches.is
  /\ UNCHANGED <<limit, out>>

Cancel ==
  /\ Cancellable
  /\ use = "pulling"
  /\ batches.is = "asked"
  /\ ~batches.killed
  /\ batches' = Cancelled(batches)
  /\ UNCHANGED useVars

CollectStep == Starts \/ Receives \/ Finishes

-----------------------------------------------------------------------------
(* The event loop *)

MergeTurn ==
  /\ MergeRuns \/ Idle
  /\ M!Step
  /\ UNCHANGED <<mapped, taken, batches, mapVars, untilVars, batchVars, useVars, given>>
MapTurn ==
  /\ MapRuns \/ Idle
  /\ A!Step
  /\ UNCHANGED <<pull, taken, batches, mergeVars, untilVars, batchVars, useVars, given>>
UntilTurn ==
  /\ Idle
  /\ T!Step
  /\ UNCHANGED <<pull, merged, batches, mergeVars, mapVars, batchVars, useVars, given>>
BatchTurn ==
  /\ BatchRuns \/ Idle
  /\ B!Step
  /\ UNCHANGED <<pull, merged, mapped, mergeVars, mapVars, untilVars, useVars, given>>
CollectTurn ==
  /\ CollectRuns \/ Idle
  /\ CollectStep
  /\ UNCHANGED <<pull, merged, mapped, taken, mergeVars, mapVars, untilVars, batchVars, given>>

\* The event loop closes generators that nobody refers to any more.
Unused == <<pull, batches, mergeVars, mapVars, untilVars, batchVars, useVars, given>>
Finalizes ==
  /\ Idle
  /\ \/ /\ batchAt = "over" /\ untilAt = "yielding" /\ ~Runs(taken)
        /\ taken' = Closing
        /\ UNCHANGED <<merged, mapped>>
     \/ /\ untilAt = "over" /\ mapAt = "yielding" /\ ~Runs(mapped)
        /\ mapped' = Closing
        /\ UNCHANGED <<merged, taken>>
     \/ /\ mapAt = "over" /\ mergeAt = "yielding" /\ ~Runs(merged)
        /\ merged' = Closing
        /\ UNCHANGED <<mapped, taken>>
  /\ UNCHANGED Unused

FnEnds(v) ==
  /\ Idle
  /\ A!JobEnds(v)
  /\ UNCHANGED <<pull, merged, taken, batches, mergeVars, untilVars, batchVars, useVars, given>>
Expires ==
  /\ Idle
  /\ B!Expires
  /\ UNCHANGED <<pull, merged, mapped, mergeVars, mapVars, untilVars, useVars, given>>
SetEvent ==
  /\ Idle
  /\ T!Set
  /\ UNCHANGED <<pull, merged, batches, mergeVars, mapVars, batchVars, useVars, given>>
CancelCollect ==
  /\ Idle
  /\ Cancel
  /\ UNCHANGED <<pull, merged, mapped, taken, mergeVars, mapVars, untilVars, batchVars, given>>

\* What the event loop sees to, whatever the feeds, fn and the callers do: turns,
\* timeouts, and the ends of what has been cancelled.
Progress ==
  \/ MergeTurn \/ MapTurn \/ UntilTurn \/ BatchTurn \/ CollectTurn
  \/ Finalizes \/ Expires
  \/ \E f \in Feeds : pull[f].killed /\ FeedAnswers(f)
  \/ \E v \in torn : FnEnds(v)

Next ==
  \/ Progress
  \/ SetEvent \/ CancelCollect
  \/ \E f \in Feeds : FeedAnswers(f)
  \/ \E v \in Values : FnEnds(v)

Spec == Init /\ [][Next]_vars

-----------------------------------------------------------------------------
(* Properties *)

\* Every variable of the pipeline has its type.
TypesOK ==
  /\ M!TypeOK /\ A!TypeOK /\ T!TypeOK /\ B!TypeOK
  /\ use \in {"new", "pulling", "closing", "ended", "left", "error", "cancelled"}
  /\ out \in Seq(Seq(Values))
  /\ \A f \in Feeds : given[f] \in 0 .. Supply[f]

Collected == FlattenSeq(out)

\* End to end: no item is collected twice; with ordered=True those of a feed
\* come in its order; and when the stream has ended, and nobody has told it to,
\* all items of all feeds have been collected.
NothingDropped ==
  /\ IsInjective(Collected)
  /\ ordered => \A j, k \in DOMAIN Collected :
       j < k /\ Collected[j][1] = Collected[k][1] => Collected[j][2] < Collected[k][2]
  /\ use = "ended" /\ ~event => ToSet(Collected) = Values

\* Each generator keeps the promise of a stream: what it takes it hands on, once
\* and in order, and it drops something, or says that it is at its end, only for
\* a reason.
Just(v) == <<v>>
Whole(items) == items
Only(call) == [s \in {"source"} |-> call]
If(dry) == IF dry THEN {"source"} ELSE {}

MergeStream == INSTANCE Stream WITH
  Inputs <- Feeds, Parts <- Just, ins <- pull, out <- merged, inside <- <<>>,
  dry <- IF mergeAt = "new" THEN {} ELSE {f \in Feeds \ {last} : pull[f] = Quiet},
  over <- mergeAt \in {"unwinding", "over"}, ordered <- TRUE, mayStop <- FALSE, spoiled <- FALSE
MapStream == INSTANCE Stream WITH
  Inputs <- {"source"}, Parts <- Just, ins <- Only(merged), out <- mapped,
  inside <- A!Held, dry <- If(exhausted),
  over <- mapAt \in {"unwinding", "over"}, mayStop <- FALSE,
  spoiled <- \E v \in ToSet(A!Held) : job[v] \in {"error", "cancelled"}
UntilStream == INSTANCE Stream WITH
  Inputs <- {"source"}, Parts <- Just, ins <- Only(mapped), out <- taken,
  inside <- <<>>, dry <- {},
  over <- untilAt \in {"unwinding", "over"}, ordered <- TRUE, mayStop <- event, spoiled <- FALSE
BatchStream == INSTANCE Stream WITH
  Inputs <- {"source"}, Parts <- Whole, ins <- Only(taken), out <- batches,
  inside <- batch, dry <- If(ending),
  over <- batchAt = "over", ordered <- TRUE, mayStop <- FALSE, spoiled <- FALSE

StagesKeepEveryItem ==
  MergeStream!Spec /\ MapStream!Spec /\ UntilStream!Spec /\ BatchStream!Spec

\* No task outlives the generator that owns it, however that one ends: merge, amap
\* and take_until wait for what they cancel.  batched does not: its one read may
\* still run when it is over, but only with a cancellation that is on its way to
\* take_until, or that take_until is unwinding from.
ReadCancelled ==
  batchAt = "over" => taken.is # "asked" \/ taken.killed \/ untilAt = "unwinding"
NobodyLeft == M!NobodyLeft /\ A!NobodyLeft /\ T!NobodyLeft /\ ReadCancelled

\* At most `concurrency` items are in flight, and a batch has something in it but
\* no more than `size` items.
WithinBounds == A!BoundedFlight /\ B!BatchesFit

\* When nothing is left to do but for the feeds, fn and the callers, who may
\* hang: once collect is over so is everything below it; once the event has
\* been set collect is over, unless batched took a TimeoutError of the source for
\* its own, the one way to hang; and under a timeout nothing gathered is kept.
Returned == use \in {"ended", "left", "error", "cancelled"}
NothingHangs ==
  ~ENABLED Progress =>
    /\ Returned =>
         /\ A!Working = {}
         /\ \A f \in Feeds : ~Runs(pull[f])
         /\ mergeAt \in {"new", "over"} /\ mapAt \in {"new", "over"} /\ untilAt \in {"new", "over"}
    /\ event => Returned \/ use = "new" \/ batchAt = "spinning"
    /\ timed => batch = <<>>
=============================================================================
