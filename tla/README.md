# A TLA+ model of aiolab

`aiolab` (`src/src/aiolab`) is a library of asyncio building blocks: a worker
pool, locks and pools, a rate limiter, retries and a circuit breaker, task
groups and a registry of background tasks, futures and streams. This directory
holds TLA+ modules that model its concurrent parts, TLC runs that check them on
small instances, and TLAPS proofs that hold for every instance.

Everything runs on one thread. What makes the code hard is therefore not data
races but the order of turns: whatever is true before an `await` may be false
after it, a woken task runs later than it was woken, and a cancellation arrives
at any `await`, also at one whose result is there already.

## 1. Inventory

| Part (source) | State | Operations | What is hard | What makes it correct | Module |
|---|---|---|---|---|---|
| `WorkerPool` (`queues.py`) | the `asyncio.Queue`, `_workers`, `_closed`, `stats` | `start`, `submit`, `try_submit`, `_worker`, `join`, `aclose`, `__aexit__` | blocked submits, closers racing each other and the workers, handlers that fail in every way, cancellation | bounded, exactly counted, no lost wakeup, each item once, a close that means what it says | `WorkerPool`, `PoolContract` |
| `ReadWriteLock` (`sync.py`) | three counters, a `Condition` | `acquire_*`, `release_*`, `_RWContext` | many woken at once, cancelled waiters | exclusion, exact counters, no lost wakeup, writers not starved | `ReadWriteLock`, `RWContract` |
| `Once` (`sync.py`) | `_done`, `_result`, `calls`, a `Lock` | `run` | callers queued while the initializer fails or is cancelled | one success, shared by all | `Once` |
| `ResourcePool` (`sync.py`) | a `LifoQueue`, `_in_use`, `peak_in_use` | `acquire`, `release`, `_Borrow` | borrowers overtaken or cancelled after they were woken | nothing lost or shared, nobody asleep beside a free resource | `ResourcePool` |
| `TokenBucket` (`sync.py`) | `_tokens`, `_updated`, a `Lock` | `acquire`, `try_acquire`, `tokens` | sleeps computed before they start, a clock that steps | the rate limit, order, an answer | `TokenBucket` |
| `CircuitBreaker` (`retry.py`) | `_failures`, `_opened_at` | `call`, `state`, `record_*` | calls that begin in one state and end in another | tripped by consecutive failures only, opens up again | `CircuitBreaker` |
| `retry`, `RetryPolicy`, `retry_with_timeout` (`retry.py`) | the attempt, the delay | one loop | refusals, timeouts and cancellations in it | the budget is spent exactly, the backoff grows to its cap, it ends | `Retry`, `RetriedCalls` |
| `run_all`, `run_all_settled`, `first_result`, `cancel_and_wait` (`tasks.py`); `as_completed_results`, `wait_any`, `gather_with_index`, `shielded` (`futures.py`); `with_timeout` (`retry.py`) | the children, `pending`, `errors` or `out` | one call each | children that fail or finish during the teardown, several that finish in one turn, a deadline racing an answer, a caller cancelled at any time | owners leave nobody running, borrowers cancel nobody, the cause is blamed, cancellation is not failure | `TaskGroup` |
| `TaskRegistry` (`tasks.py`) | `_tasks`, `_closed`, counters | `spawn`, `_on_done`, `drain`, `aclose`, `__aexit__` | tasks that spawn tasks, closers racing | the books balance, drain means all, nothing outlives | `TaskRegistry`, `Scopes` |
| `amap`, `merge`, `take_until`, `collect`, `aiter_from` (`streams.py`) | calls and tasks in flight, the rest of `done` | async generators | several sources deliver at once, a consumer that stops in the middle, a failure during the teardown | nothing lost or doubled, nobody left running, an end for a reason | `AsyncMap`, `Merge`, `TakeUntil`, `Pipeline` |
| `batched` (`queues.py`) | a batch, a pending `__anext__` | async generator | an idle timeout racing an item, a read that outlives it | no item lost, batches neither empty nor too long | `Batcher`, `Pipeline` |
| `produce`, `drain_now` (`queues.py`), `throttle` (`streams.py`), `settle`, `CallbackBridge` (`futures.py`), `SafeCounter`, `RaceyCounter`, `wait_for_event` (`sync.py`) | a value or a future at most | | | | not modelled, section 5 |
| `basics.py`, `errors.py`, `__init__.py`, `cli.py` | none | wrappers, exceptions, exports, demonstrations | | | not modelled |

How they interact: tasks of one program share the event loop, which is the only
channel between `Once` and `ResourcePool`, say, or between two locks.
`retry_with_timeout` calls a factory that may be a `CircuitBreaker.call`, and
tells the breaker of a timeout by cancelling it. A `TaskRegistry` cancels tasks
that may be running a task group, whose teardown then decides how they end. The
generators of a pipeline call one another: what one of them takes, keeps or drops
is for the next one an item, the end or an exception. These four compositions
are modelled, as `Connections`, `RetriedCalls`, `Scopes` and `Pipeline`.
`examples/pipeline_demo.py` and "Library use" in the repository's README put the
same parts together.

## 2. Modules

**`EventLoop`** is what all the queueing parts run on: the FIFO queue of
scheduled tasks (`ready`), the task in the middle of its turn (`running`), the
future each task awaits (`fut`) and `_must_cancel` (`mustCancel`). asyncio is
not in the repository, so this module, **`AsyncLock`** (`asyncio.Lock`) and the
operators of the other modules that stand for `asyncio.Queue`, `Condition` and
`gather` are modelled from how the code uses them, and are marked external in
`PROJECT.json`. A stretch of code between two suspensions is one action, because
nothing can come between; application tasks act between two turns.

Three modules do without the explicit loop. In `CircuitBreaker` and `Retry` one
await separates two steps, and any order of them is possible. In `TaskGroup` and
`TaskRegistry` children are arbitrary coroutines, so that the order of their ends
is arbitrary already; the caller's turn comes any time after what it waits for.
`Pipeline` replaces the queue by a rule about who runs: generators that await one
another directly run on, as one task, until one of them waits (`MergeRuns`,
`MapRuns`, `BatchRuns`, `CollectRuns`), and everybody else acts only when none of
them is in the middle of that (`Idle`).

**`WorkerPool`.** An item stands for the `submit` or `try_submit` call that
carries it; workers are numbered as `start` creates them. `Submit`,
`PutterWakes` and `PutterCancelled` are `submit` with `Queue.put` inlined,
`WorkerTakes`, `HandlerReturns`, `HandlerRaises`, `HandlerCancelled`,
`GetterCancelled` the ways through `_worker`, `Call`, `JoinerWakes`,
`GatherCompletes`, `CloseReturns`, `CallerCancelled` those through `join` and
`aclose`. `rivals` is a history variable: the `aclose` calls that were gathering the
earlier workers when a worker was started. The scenarios are constants: what handlers do, whether `on_result`
raises, who may be cancelled. A handler does not absorb a `CancelledError` it
is thrown. **`PoolContract`** is the abstract pool: an item is waiting, accepted,
in hand, or settled, and a closed pool accepts nothing new.

**`ReadWriteLock`.** The lock inside the `Condition` is free whenever a turn
ends, so every stretch of `acquire_*` is one step; `ReadOrWait` and
`WriteOrWait` are the two predicates with what follows them, `WriterCancelled`
is the `finally` that withdraws the count. **`RWContract`** is the abstract
lock, over the sets of who reads, writes and asks.

**`Once`**, **`ResourcePool`** and **`Connections`.** `Connections` runs both
on one loop: each task sets up through `run()` and then borrows. The queue
`ready` is shared, so that turns of one interleave with turns of the other.

**`TokenBucket`.** A tick refills one token, amounts are whole. `lag` is
`clock() - _updated`, negative after the clock has stepped back. `meter` is a
history variable: a leaky bucket filled by every grant and leaking one token
whenever the clock moves forward, by a tick or by a step (`Leaks`). `meter <= Capacity`
says exactly that over *every* stretch of `t` ticks and `n` forward steps at most
`Capacity + t + n` tokens were granted. The machine's parts have names of their own
(`BucketInit`, `BucketNext`, `BucketSpec`, `calls` where others have `pc`), so that
`SyncProofs` extends it beside `ReadWriteLock`.

**`CircuitBreaker`**, **`Retry`** and **`RetriedCalls`.** `RetriedCalls` is
`retry_with_timeout(lambda: breaker.call(service))` by several clients. A call
that times out ends as `CallCancelled` for the breaker and as a failed attempt
for `retry`; a refusal costs an attempt.

**`TaskGroup`.** One caller makes one call over children that return, raise,
ignore a cancellation, end cancelled or hang. `Collects`, `Settles`, `Wins`,
`RacesOn`, `Lists`, `Settled` and `Follows` are what the eight calls do after what
they wait for; `Aborts` is the `CancelledError` that `task.exception()` raises in
`first_result` and `as_completed_results` when a child ended cancelled;
`CancelAndWait`, `Unwound` are the teardown. The calls differ in what they own:
`Borrowing` ones leave what they waited for alone, `Single` ones go through
`asyncio.wait_for`. The repository supports Python 3.10 and later, whose `wait_for`
differ in two places: a cancellation while a timed-out child unwinds is raised at
once before 3.12, and the child runs on; from 3.12 on it waits, and then the
child's result or the cancellation may win. `Unwinds` and `CancelledInWaitFor`
allow all of it.

**`TaskRegistry`** and **`Scopes`.** In `Scopes` the task `Host` of a registry
makes one of the five owning calls over several children. `RegistryStep` passes a
`cancel()` of `Host` on to the call; `HostEnds` makes the end of the call the end
of the task.

**`AsyncIterator`** is what passes between a generator and whoever iterates over
it: one call at a time, and its answer. **`Merge`**, **`AsyncMap`**,
**`TakeUntil`** and **`Batcher`** model one generator each, from `up` (or `pull`,
one call per source) to `down`. A turn that walks the set `done` is several steps,
none of which waits. An error of a source may be a `TimeoutError`, which `batched`
takes for that of its own `wait_for` (`SourceTimesOut`, `Spins`). **`Pipeline`** shares these calls between neighbours: feeds,
`merge`, `amap`, `take_until`, `batched`, `collect`, as in the example, with two
feeds where that has one. `Finalizes` is the event loop closing a generator that
nobody refers to any more; `collect` closes only the topmost one.
**`Stream`** is the abstract generator that each of the four implements: what it
takes it hands on, once and in order (or, for `amap` with `ordered=False`, in any
order); it says that it is at its end only when its sources are and nothing is
left inside, or when it was told to stop; it breaks off, and drops what is inside,
only for a reason.

`MC*` modules add model values and, where everyone is alike, symmetry sets.
Definitions marked `mutant` are plausible bugs; each replaces the definition
after it in one test that the checked property can fail.

## 3. Runs

| Run | Instance | What it shows |
|---|---|---|
| `pool_core` | 2 workers, 3 items, `maxsize` 1, 2 callers, every outcome of handlers and callbacks, everyone cancellable | `BooksBalance` (the queue is bounded and exactly counted, no item twice, the statistics reconcile), `NoLostWakeup` of workers, producers and joiners, `JoinMeansProcessed`, `NoOrphanWorker`, `PoisonDoesNotKill`, `ClosingTakesNothing`, and the refinement of `PoolContract` |
| `pool_drain` | 2 workers, 3 items, 2 callers, 2 starts, handlers that await | `DrainMeansEmpty`; `NoOrphanWorker` of the workers of a second `start` too, behind one `aclose` and beside another that still waits or gathers; `CallsReturn`: `join`, `aclose` and blocked submits |
| `rw_core` | 4 clients, all reading and writing for ever, all cancellable | `MutualExclusion`, `CountersExact`, `NoStrandedWriter`, `OnlyWithdrawalStrands` (a reader sleeps on a free lock only because a cancelled writer withdrew), `WritersNotStarved`, no deadlock, refinement of `RWContract` |
| `connections_core` | 4 tasks, 2 resources, cancelled anywhere | `OneResult`, `RunReturns` of `Once`; `NothingLostOrShared` of `ResourcePool`; `NobodyStranded` in either |
| `bucket_core` | 3 acquires of 1 or 2 tokens, capacity 2, one `try_acquire`, clock 1 tick back and forward, 2 calls cancellable | `RateHeld`, `ServedInOrder`, `AcquireReturns` |
| `retried_core` | 3 clients, threshold 2, 3 attempts, delays 0, 1, 2 | `TrippedByConsecutive`, `BudgetSpent`, `EndsInTime` (an open breaker half-opens, every retry ends), against a service that answers, fails or hangs |
| `group_core` | 8 calls over 3 children, limit 2 | `OwnershipDecides`, `EndsHonestly`, `GroupEnds`, with children that hang |
| `scopes_core` | 2 closers, 2 tasks, 5 calls over 2 children, limit 1 | `Reconciles`, `DrainMeansAll`, `ClosingReachesAll` (a closer waits only for what it has cancelled), `NothingLeftRunning` (no task and no child of a task) |
| `pipeline_core` | 2 feeds of 2 and 1 items, `concurrency` 2, `size` 2, ordered or not, timeout or not, `limit` 1 or none | `NothingDropped` end to end, `StagesKeepEveryItem` (each generator implements `Stream`), `NobodyLeft`, `WithinBounds`, `NothingHangs`; stopped by the event, the limit, a failing feed or `fn`, a cancellation |
| `pool_drain_loses`, `rw_stuck_reader`, `scopes_cancel_lost` | | the divergences of section 6 that have a run |

The bounds are small and enough for the cases that matter. Two workers and
`maxsize` 1 make a full queue, an idle and a busy worker meet; three items let a
submit block behind a queued one, or two of them while nobody has started the
workers. Two callers race each other; with two starts the second aclose meets
workers it did not gather. Four clients of the lock are two of each
kind, or one against three. Two resources among four tasks leave two waiting,
which a lost wakeup needs. One clock step back and one forward are what it takes
to credit time twice. A threshold of two with three clients lets late answers
arrive in every state of the breaker; with three attempts and a cap that the
third delay exceeds, the cap applies. Three children are a cause, a bystander and
one that has not started (limit 2); two closers overlap. Two feeds that deliver at
once leave one item for the rest of merge's walk; three items fill a batch and
leave one over, and put two in flight behind one that is awaited.

The bounds in the guards: `MaxStarts` (successful calls of `start`), `MaxTries`
(`try_acquire`), `MaxLag` (ticks between two looks at the clock; more than the
capacity, so that the bucket is full before it is reached), `MaxBack`,
`MaxForward`. `_failures` is counted no further than the threshold and the age
of an open breaker no further than `reset_after`: beyond these the code does
not tell values apart.

`CHECK_DEADLOCK FALSE` stands where calls are made once and the system is then
over. Where clients go on for ever (`rw_core`, `bucket_core`, `retried_core`)
deadlock is checked.

### Fairness

Weak fairness of the loop's steps everywhere: asyncio runs every scheduled task
in turn. Beyond that only what the caller of the library must provide: what a
handler or an initializer awaits completes (`pool_drain`, `connections_core`),
who is inside a lock leaves (`rw_core`), time passes and a sleep ends
(`bucket_core`, `retried_core`), a cancelled child ends (`group_core`). Nothing is
assumed of a service that `retry_with_timeout` calls, nor of children nobody
cancels: they may hang. Borrowers need not release, and no call need be made.

`pipeline_core` needs no fairness. A pipeline over finite feeds makes finitely many
steps, so that what must happen eventually has happened when nothing more can:
`NothingHangs` speaks of the states in which `Progress`, everything that does not
depend on a feed, on `fn` or on the application, is disabled.
`ClosingReachesAll` is the safety half of "aclose ends": what it waits for has
been cancelled, and ends unless it ignores that.

## 4. Proofs

TLAPS proves the following for every value of the constants that satisfies the
named assumptions, however many tasks, workers, items or children there are.

| Module | Theorem | Statement |
|---|---|---|
| `WorkerPoolProofs` | `TypeCorrect` | `Spec => []TypeOK` |
| | `Books` | `Spec => []BooksBalance` |
| | `Implementation` | `Spec => ImplementsContract` |
| | `Wakeups`, `Joining` | `Spec => []NoLostWakeup`, `Spec => []JoinMeansProcessed` |
| | `NoOrphans`, `Poison`, `Closing` | `Spec => []NoOrphanWorker`, `Spec => []PoisonDoesNotKill`, `Spec => ClosingTakesNothing` |
| | `Draining` | `Spec => []DrainMeansEmpty`, if `FALSE \notin HandlerSuspends` and `Cancellable \cap Items = {}` |
| `SyncProofs` (the lock) | `TypeCorrect` | `Spec => []TypeOK` |
| | `Exclusion` | `Spec => []MutualExclusion` |
| | `Counters` | `Spec => []CountersExact` |
| | `WritersWoken`, `ReadersWoken` | `Spec => []NoStrandedWriter`, `Spec => OnlyWithdrawalStrands` |
| | `Implementation` | `Spec => ImplementsContract` |
| `SyncProofs` (the bucket) | `Rate`, `InTurn` | `BucketSpec => []RateHeld`, `BucketSpec => ServedInOrder` |
| | `NobodyLeftInLine`, `BucketTypeCorrect` | `BucketSpec => []LockNotStranded`, `BucketSpec => []BucketTypeOK` |
| `RetriedCallsProofs` | `Tripped`, `Budget` | `TrippedByConsecutive` and `BudgetSpent`, for the composition |
| `TaskGroupProofs` | `TypeCorrect`, `Ownership`, `Honesty` | the types, `OwnershipDecides`, `EndsHonestly` |
| `ConnectionsProofs` | `Conserved`, `NobodySleepsOn`, `ExactlyOnce` | `SpecBoth => []NothingLostOrShared`, `[]NobodyStranded`, `[]OneResult` |
| `PipelineProofs` | `TypeCorrect`, `EndsClean`, `Bounds` | `Spec => []TypesOK`, `Spec => []NobodyLeft`, `Spec => []WithinBounds` |
| | `StreamsKept` | `Spec => StagesKeepEveryItem`: each of the four generators implements `Stream` |
| | `EndToEnd` | `Spec => []NothingDropped` |
| `ScopesProofs` | `RegistryTypes`, `RegistryCloses` | the types of a registry, and `NothingOutlives`: no task outlives the scope |
| | `Books`, `DrainWaits`, `ScopesNest`, `ClosingReaches` | `Reconciles`, `DrainMeansAll`, `NothingLeftRunning`, `ClosingReachesAll`, for the composition |

*Assumptions.* `PoolAssumption`: positive sizes, and finite sets of items and
callers that have nothing in common with each other or with the workers.
`OptionAssumption`: what handlers and callers may do is a subset of what there is.
`LockAssumption`: finitely many clients. `BorrowAssumption`: finitely many clients
and resources, at least one. `SetupAssumption`: `NoResult` is nobody's result. `BucketAssumption`, `GroupAssumption`,
`RegistryAssumption`, `ScopesAssumption`: the constants are of their kinds, as
`__init__` or the signatures have it, and there are finitely many children and
tasks. `BreakerAssumption`: a positive threshold. `PolicyAssumption` also says that
the powers of `Factor` are naturals, because the prover knows nothing of `^`.
`PipelineAssumption`: finitely many feeds, at least one, with any number
of items each; positive `concurrency=` and `size=`, as `amap` and `batched` require.

*The pool's books.* `task_done()` is called right only because the counter is
exact, and the counter is exact only because an item is in one place; so types
and books are proved together. `Places` adds what the code relies on without
saying so: only a worker in its handler, or one that `on_result` has ended, holds
an item, and an item has a fate exactly when its submit has returned. One lemma
counts (`OneMoves`: a set that gains or loses one element); `StatsFollow` says that
the statistics still reconcile after a step that touches one item, if the counters
move as the item does; one lemma per kind of step shows that they do. For the
*refinement*, `Life` reads an item's life from its fate and its submit; that a
free hand is left when a worker takes an item (`HandFree`) is an injection from
the items in hand to the other workers.

*The pool's wakeups.* `WakeInv` has three layers. `LoopInv`: `ready` holds nobody
twice, and holds (or runs) exactly the tasks that have something to do
(`Runnable`: a waiter whose future is not pending, a gather whose workers have all
stopped). `FutInv`: what the future of a task can be where the task is. `GetPart`,
`PutPart` and `JoinPart`: each deque of waiters holds every sleeper once (`Deque`;
cancelled waiters may linger in it), and if anybody sleeps, as many waiters
are awake and on their way as there are items or slots to hand out (`HandedOut`).
That a waiter woken *and* cancelled passes its item or slot on, and that the one
it is passed to was asleep, is what makes the count inductive; `Deque` supplies
the sleeper. `NoLostWakeup` follows, since the awake are scheduled.

*The pool's closings.* `JoinInv` adds that a joiner that was woken is owed
nothing: the counter was 0 then, and a fate never goes back (`FatesAdvance`).
`CloseInv` adds what a call of `aclose` has done by where it is (`CallsPart`: it
has closed the pool; the workers it gathers have stopped or a cancellation is on
its way to them) and that nobody cancels a worker of an open pool (`ThrownPart`);
with these, `PoisonDoesNotKill` is kept by every step, and a worker somebody gathers
cannot take (`ClosingTakesNothing`). `NoOrphanWorker` needs `RivalsPart` besides: an
`aclose` that is gathering either gathers a worker or was gathering when that worker
was started, so that it forgets no other when it returns.

*The drain.* `aclose(drain=True)` leaves nothing behind only under two hypotheses,
each of which TLC shows to be needed: every handler awaits something (section 6),
and no submit is cancelled while it waits (a submit cancelled after it was woken
wakes the next one too late, after the join has been released). `LineInv` says
why they suffice: between a woken submit and the counter reaching 0 there is
always a worker in its handler that comes behind that submit in `ready`. So nobody
is in `put` when the counter is 0 (`NothingUnfinished`), and nothing gets into a
closed pool in which nobody is (`StaysEmpty`).

*Once and the resources.* The invariant is one place at a time for every client
(`PlaceInv`), and then the two halves separately. `PoolInv`: `Deque` and
`HandedOut` as for the pool, because both are an `asyncio.Queue`, from the same
lemmas. `LockInv`: the lock is held around the initializer, only the first in its
deque was ever woken, and it is not asleep while the lock is free; `asyncio.Lock`
hands on by the head of its deque and not by a count. `ResultInv`: the
result there is, is what everybody who returned has. A step of one half leaves
the other as it was except for the queue they share.

*Exclusion.* The lock decides by counters and not by who is inside, so mutual
exclusion alone is not inductive: `IInv` adds that the counters are exact
(`CountersExact`). The lemmas `CountArrives`, `CountLeaves` and `NobodyAt` turn a
move of one client into arithmetic on cardinalities; one lemma per action then
shows that it keeps `IInv`, and `StepSafe` puts them together.

*No stranded writer.* `WakeInv` adds that whoever sleeps is registered on the
condition (`Registered`), so that the `notify_all` of the last one inside
reaches every sleeping writer (`NotifyReachesAll`). The last reader notifies
because the counters are exact, so `IInv` is used here as well. A cancelled
writer may drop the count without a notify, which strands no *writer*; it does
strand readers, see section 6. That nothing else strands them (`ReadersWoken`)
needs no more than that only writers ask to write (`WritersAsk`): a step that makes
the lock free for readers either notifies everybody or is a withdrawal, and a
reader goes to sleep only while it is not free. For the *refinement*, the counters decide as the
contract's sets would.

*The bucket.* What a look at the clock would find in the bucket (`Refilled`) and
what the meter still holds fit in the capacity together: `Credit` says so and is
inductive, because what a step of the clock adds to the one it takes out of the other
(`LeakPays`). `RateHeld` follows, because a bucket does not hold less than nothing.

*The bucket's line.* That calls are served in order (`InTurn`) rests on the lock
around the sleep, and `OrderInv` says how: who waits for the lock is in its deque
in the order of the calls (`InLine`); the one that sleeps has the lock, and only
cancelled calls are still ahead of it (`SleeperFirst`); a waiter that has been
woken is the first in the deque of a free lock (`WokenFirst`). So whoever looks at
the bucket has nobody to let pass: the sleeper (`SleeperClear`), the one woken
(`WokenClear`) and a newcomer that passes a deque of cancelled waiters
(`BargerClear`). What leaving and joining a line does to who is before whom is in
`EventLoopProofs` (`Before`, `DroppedBefore`, `AppendBefore`). The deque strands
nobody for the same reason (`NobodyLeftInLine`): whoever leaves it with the lock
free, granted or cancelled, wakes the next, unless that one is on its way
(`ExitStrandsNobody`), and a newcomer joins a free lock's deque only behind somebody
who has not been cancelled (`DequeStands`). With the bounds of the clock
(`ClockTypes`) these give every variable its type.

*The breaker and its retries.* The breaker's count is the length of the run of
failures at the end of the remembered history (`CountsTheRun`), whatever order late
answers come in, and it is tripped exactly when that count is at the threshold
(`TrippedAtThreshold`). In `Retry` the attempt under way is the one after those
that have failed (`Counted`).

*Groups, registries and both.* For the group the invariant adds that nobody is
asked to stop while the caller waits undisturbed (`AskedLate`), where the way out is
chosen and who may be torn down (`ExitSet`), and that a call that walks `done` has
accounted for everything that is not pending (`Accounted`). For the registry: every
task is in one place (`BooksInv`), and what a closer waits for covers everyone who
runs (`CloseInv`). `ScopesProofs` uses both invariants (the group's through an
instance of `TaskGroupProofs`) and adds what holds the two levels together: the call
runs inside its task (`HostInside`), a cancellation of the task reaches the call
(`CancelArrives`), and what `aclose` waits for has been cancelled (`AllAsked`).

*The generators.* `IInv` has a part per generator, which speaks of its own
variables and of the calls above and below it, and the lemmas are about one
generator at a time: a step of it keeps its part, does to the call of its caller
only what an answer does (`Answering`) and to its call of its source only what a
caller does (`Asking`); and either leaves the part of the neighbour as it was
(`MergeAsked`, `MapRests`, ...). `amap` holds what its tasks work on
(`MapInv`: every running task is in `in_flight` or has been popped and is awaited,
and while it asks its source there is room for one more), so that the bound on
the flight is the length of a sequence (`SizeFits`). That an item is in flight only
once is a property of the stages below it: a feed numbers its items, `merge` hands on
what it was given last (`ItemsCarried`), and what has not come out of it has
no task (`Fresh`). `EndsClean` needs the other half: where a generator can be when
its call runs, that a flight is empty when `amap` is over, and that a `batched` that
is over has cancelled the read it leaves (`ReadCancelled`, by `BatchLeaves`,
`UntilHeeds` and `ReadStays`).

For the *refinement of `Stream`* (`StreamsKept`), `Fed` adds that no item waits for
a generator that does not ask for one: `amap` takes an item only while it fills,
`take_until` only while it waits, and a `merge` that has not begun has called no
source. A stream takes at most one item in a step, so that what is inside after it,
a fold over the sources it takes from, is what was inside or that and the item
(`FoldingNone`, `FoldingOne`, `MapTakes`, ...). A generator's own step is one of its
stream's (`MergeStreams`, `MapStreams`, `UntilStreams`, `BatchStreams`, one case per
action); a neighbour's passes it by (`MergeBeside`, ...), because the neighbour only
answers or only asks (`Neighbours`), which leaves a waiting item where it is. The
exception is the event loop closing a source that still has an item for a generator
that is over: that drops the item, as a stream that is over may.

For the *pipeline end to end* (`EndToEnd`) the items stand in one line of eight
places (`Line`): collected, in the call of `batched`, in its batch, and so on to what
`merge` hands on. `LineInv` says that no item stands in it twice, and that with
`ordered=True` those of a feed stand in its order; a step of a generator joins what
it takes and what it holds and moves items one place forward (`StageMoves`, with
`GoesForward`, `Leaving` and `GoesOutOfTurn`, the last for `ordered=False`), `merge`
adds at the back what its feed has just delivered (`Joining`), and nobody else moves
the line. That gives the first two conjuncts of `NothingDropped`. For the third,
`There` says that what has been delivered is in the line or waits for `merge`. A step
that drops something breaks it (`Lost`), but then a stage has left that has not been
told of the end (`Broken`), and that lasts: such a stage ends with an error or a
cancellation, and an end that is told comes down from the feeds stage by stage
(`Ends`), so that `collect` never ends normally after a loss. `EndInv` therefore keeps
`Ends /\ (Broken \/ There)` until the event is set, and when `collect` has ended the
rest of the line is empty (`AllCollected`). The one recursion, the `CHOOSE` of a
recursive function in `FlattenSeq`, is met without an induction theorem: there is a
function that satisfies its equation, and only one, because there is no least length
without one and no least index at which two differ (`Least`, `SummingExists`,
`SummingOnce`).

`EventLoopProofs` holds lemmas about the loop's operators for the proofs of every
module on top of it: types, who is scheduled after a step (`LoopNeat`,
`Scheduled`), what leaving or joining a deque keeps (`Deque`), and the handover of
items, slots or resources to waiters (`HandedOut`).

Only model-checked: all liveness, and `NothingHangs` of the generators, which speaks
of `ENABLED`; both are outside the prover's reach.

## 5. Not modelled

- Floats: `TokenBucket` and `Retry` count whole ticks and tokens, so that rounding
  (a deficit that is a little more than zero when the sleep ends, an
  `OverflowError` in `factor ** (attempt - 2)` from attempt 1026 on) is outside
  the model.
- Values of results and errors, beyond whose they are.
- Threads: `settle` and `CallbackBridge` exist to cross from one into the loop, and
  do in one call of `call_soon_threadsafe` what matters; `to_thread` likewise.
- Handlers, children and factories are arbitrary within the constants, except that
  a handler of the pool and a client of a lock do not absorb a cancellation, and that
  a child that raises `TimeoutError` itself is a failed one: `with_timeout` and
  `shielded` take it for their deadline (`retry.py` line 135, `futures.py`
  line 174), and no property here tells the two apart.
- A second cancellation of a call of `TaskGroup` while it tears down after the first:
  each caller is cancelled at most once.
- What changed in asyncio after Python 3.12. The lock's `Condition` is that of 3.10 to
  3.12, the versions the repository is tested with: a notified waiter that is
  cancelled takes its notify with it (3.13 passes it on). In `TaskRegistry` the
  gather of `drain` suspends at least once; from 3.12 on a gather over tasks that are
  all done need not, so that the loop may turn once more before `_on_done` runs. Only
  whether `drain` ever returns could depend on that, and this is not checked.
- `RaceyCounter` loses updates on purpose, as its own tests show; `SafeCounter` is an
  `asyncio.Lock` around an addition, and the lock is modelled (`AsyncLock`).
- `wait_for_event` is `asyncio.wait_for` around one `wait()`; `wait_for` is modelled
  where it has something to get wrong, in `TaskGroup`.
- `throttle` is a loop around `TokenBucket.acquire`, `produce` one around
  `Queue.put`, and `drain_now` never suspends.
- `basics.py`, `errors.py`, `__init__.py`, `cli.py` and the example: wrappers,
  exceptions, exports and demonstrations of the parts above.

## 6. Where the code and its documentation differ

With a run, whose counterexample is the shortest way to see it:

- `pool_drain_loses`: `aclose(drain=True)` says that "the backlog is finished
  first". With submits blocked in `put()` and a handler that does not suspend,
  the worker empties the queue before a woken submit has run; `join()` ends, the
  workers are cancelled, and an accepted item stays in the queue for ever.
- `rw_stuck_reader`: the `finally` in `acquire_write` is there so that "a
  cancelled writer cannot leave a phantom waiter behind, which would block every
  future reader". It drops the count and notifies nobody: a reader that went
  back to sleep because of that writer sleeps on a free lock.
- `scopes_cancel_lost`: "Cancellation is not failure. `CancelledError` is
  re-raised everywhere". `cancel_and_wait` absorbs its own caller's
  cancellation: a task cancelled while `run_all` tears down its children ends
  with `ConcurrencyError`, and the registry counts it as failed.

Met while modelling, each to be seen by changing a constant or a property:

- `on_result` is called before `task_done()` and outside the `try`: if it
  raises, the worker ends with the item unaccounted for and `join()` waits for
  ever (`OnResultRaises = {TRUE}` in `PoolDrain.cfg`).
- A handler that raises `CancelledError` of its own ends its worker; without
  workers `aclose(drain=True)` hangs (`HandlerOutcomes` with `"cancelled"` in
  `PoolDrain.cfg`).
- A worker marks its item done when it is cancelled, "or a concurrent `join()`
  blocks forever on work nobody will redo". The items still in the queue are not
  marked: a `join` or a draining `aclose` blocks for ever once an aborting one has
  taken the workers (`JoinReturns` without its last disjunct).
- `start` after `aclose` succeeds on a pool that refuses every submit. If another
  `aclose` is still gathering the earlier workers, it forgets the new ones when it
  returns, and no `aclose` reaches them again (`NoOrphanWorker` without its last
  disjunct).
- Writers are in no order among themselves: one can starve another. Only writers
  as a group are not starved (`WritersNotStarved`).
- `Once` says that a setup error "is re-raised to every waiter"; a waiter runs
  the initializer again instead.
- `_refill` says that a clock stepping back "must not mint tokens". One that steps
  back and then recovers does: each forward step is credited again. `RateHeld` holds
  because its meter leaks at a forward step too; with `Leaks` left out of
  `StepForward` it is violated in `bucket_core`.
- A half-open breaker lets every call through, not "one probe"; a late success
  of a call from before closes an open breaker at once.
- Timeouts never trip a breaker: to it they are cancellations. A service that
  hangs is called by every retry for ever.
- A candidate of `first_result` that ends cancelled aborts the race, though
  "only an all-failed race raises"; a child of `as_completed_results` that does so
  aborts that, too.
- `with_timeout` that is cancelled while its timed-out child unwinds leaves the
  child running before Python 3.12.
- `streams.py` has its sources closed explicitly with `aclose()`, says its header
  (line 13); only `collect` closes anything, and only the generator it iterates
  over. The ones further up are left to the event loop's finalizer, so `collect`
  returns before they are closed.
- `batched`: the timeout counts from the last item and not from the first of the
  batch; the `finally` cancels its pending read and does not await it, so that this
  one task may outlive its generator (`ReadCancelled` says how far).
- A source of `batched` that raises `TimeoutError` is taken for an idle one: the
  batch is flushed, and the read, which is over, is awaited again and again. The call
  never returns: `NothingHangs` without `batchAt = "spinning"` is violated in
  `pipeline_core`. Without a timeout, and with one from Python 3.12 on, awaiting what
  is done does not suspend and the event loop stands still; before 3.12 the loop goes
  on.
- `collect(limit=0)` returns one item.

## 7. What is left

A run of the pool with a restart *and* every failure of the handlers is beyond five
minutes with the present state.
