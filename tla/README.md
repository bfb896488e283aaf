# lexec: a verification project

`lexec` is a C++17 implementation of the sender/receiver model of `std::execution`
(P2300 and the papers around it). These modules specify the parts of it in which
threads, callbacks and lifetimes meet, TLC checks them on small instances, and TLAPS
proves what it can for every instance. All paths below are relative to the repository;
headers are under `include/lexec/`.

## Inventory

The library is mostly headers. A *sender* describes work, `connect` makes an *operation
state* of it, `start` starts that, and it ends with exactly one completion of its
*receiver*: `set_value`, `set_error` or `set_stopped`. Almost all of it is types and calls
on one stack. What can go wrong is in the few places that keep shared state:

| component | source | state | operations | what is hard | what makes it correct |
|---|---|---|---|---|---|
| stop tokens | `stop_token.hpp` | one atomic byte (stop requested, lock), an intrusive list, the callback that is being notified | construct, destroy, run a callback; `request_stop`; destroy the source | a callback destroyed while another thread runs it, or by its own body; a source destroyed by a callback | each callback runs once or not at all; nothing is used after its destructor returned; no destructor waits for itself |
| counting scopes | `scopes/counting_scope.hpp` | one word of state and count, a mutex, a list of waiting joins | associate, disassociate, join, close, destroy | a join registered while the last association ends; destruction as soon as a join completes | a join means no association is left, none is lost, and the scope can be destroyed after it |
| spawn, spawn_future | `algorithms/spawn.hpp` | one byte of flags, the result, the stop callback | complete, consume, cancel, abandon, free | four parties in any order, the operation completing inside the stop request | the consumer is completed once, the state is freed once and last |
| run_loop, sync_wait | `schedulers/run_loop.hpp`, `algorithms/sync_wait.hpp` | an intrusive list (`head`, `tail`, `next`), a mutex, a condition variable, the loop's state | push, run, finish, destroy | lost wakeups; the loop dies when `run` returns | tasks run once per push and in order; `run` returns; `finish` does not outlive the loop |
| when_all, when_any | `algorithms/when_all.hpp`, `when_any.hpp` | children left, disposition, first error, a stop source, a stop callback | child completions, start, forwarded stop | the last child arrives while the stop request that ends it is still on a stack | one completion, of the kind the children call for, and no use of the operation afterwards |
| static thread pool | `src/static_thread_pool.cpp` | per worker: local and remote queue, state, mutex; sleepers; bulk jobs | enqueue, steal, sleep, notify, bulk jobs, destroy | submissions against falling asleep; late helpers of a job that completes; draining | work runs once, no wakeup is lost, jobs complete after the last use, the destructor drains |
| work-stealing queue | `src/bwos_queue.hpp` | blocks with four counters each, rounds | push, pop, steal, move between blocks | the owner reclaims blocks that thieves still read | each item is taken once |
| parallel scheduler | `schedulers/parallel_scheduler.hpp`, `src/parallel_scheduler.cpp` | a replaceable backend, bulk operations with a first failure | schedule, bulk, chunks | several chunks fail at once | one completion, after every chunk, with the first failure |
| trampoline, repeat | `schedulers/trampoline_scheduler.hpp`, `algorithms/repeat.hpp` | depth and queue of the running thread; one iteration | schedule; iterate; reconnect | an iteration destroyed by its own completion; work that waits beside an endless loop | bounded nesting, each item once and in order, one iteration at a time |
| stop_when, type-erased senders | `algorithms/stop_when.hpp`, `any_sender_of.hpp` | a stop source and callbacks that feed it | start, complete, stop | two sources, one completion, which may come inside the stop request | no callback outlives the operation, no source the request |
| let, continues_on, bulk, associate | `algorithms/` | the second stage's operation, a stored completion, a job | complete, start | the second operation is made inside the first one's completion; a bulk runs where its predecessor claims to be | one completion of a declared kind, on the claimed scheduler, after all chunks |
| coroutine bridge | `coro/co2.hpp` | the operation being started on a thread, an awaiter's outcome, a Task's stop source | await, complete, resume, finish | completion before `start` has returned; frame slots that are used again | the coroutine is resumed once, in one place |
| stateless adaptors | `algorithms/just.hpp`, `then.hpp`, `into_variant.hpp`, `write_env.hpp`, `stopped_as.hpp`, `starts_on.hpp`, ... | none of their own | complete | what they are lowered to | as above, in chains |
| framework, utilities | `core/`, `framework/`, `detail/` | none that others see | | | mostly checked by the compiler |

**Interactions.** Stop tokens are below everything: `when_all`, `spawn_future`, `stop_when`
and the scopes each own a source and are called back from `request_stop`, on a foreign
thread and possibly inside a completion. `spawn` and `spawn_future` hold an association
with a scope and end it when they free their state; a `counting_scope` wraps what is spawned
in `stop_when` with a token of its own. `spawn_future` puts `stop_when` and `write_env` around
its sender. Every adaptor completes its receiver inside its child's completion, and whoever
receives the last of these completions may destroy the whole chain there and then, below
frames of it that are still on stacks. A loop hands each iteration to the trampoline of the
thread that completed the previous one. `sync_wait` drives a `run_loop` that
other operations schedule on. The parallel scheduler runs on a static thread pool, whose
workers use the block queue.

The hazards that follow from this are listed, line by line, in `PROJECT.json`.

## Modules

| module | models | depends on |
|---|---|---|
| `StopToken` | `inplace_stop_source` and `inplace_stop_callback` | |
| `JoinableScope` | what a scope promises (abstract) | |
| `CountingScope` | the state machine of `simple_counting_scope` and `counting_scope` | implements `JoinableScope` |
| `Future` | what `spawn_future` promises (abstract) | |
| `SpawnFuture` | the state that a spawned operation shares with its future | implements `Future` |
| `RunLoop` | `run_loop` as `sync_wait` drives it | |
| `WhenAll` | the operation states of `when_all` and `when_any` | |
| `ThreadPool` | `thread_pool_impl` | |
| `StealQueue` | what a work-stealing queue promises (abstract) | |
| `BwosQueue` | `bwos_queue`, the workers' local queue | implements `StealQueue` |
| `Loops` | `repeat`, `repeat_n`, `repeat_until` and the trampoline they run on | |
| `Coroutine` | awaited senders and Tasks of the `co2` bridge | |
| `Adaptors` | chains of adaptors on the pool, the parallel scheduler and other leaves | takes from `StopToken` how callbacks behave, from `ThreadPool` how jobs are handed out |
| `StopToken_proofs`, `CountingScope_proofs`, `RunLoop_proofs`, `WhenAll_proofs`, `ThreadPool_proofs`, `BwosQueue_proofs`, `Loops_proofs`, `Coroutine_proofs` | theorems, with the lemmas about sequences that they need | the module they are named after |
| `MC...` | instances for TLC, each with a `.cfg` or two | the module they are named after |

How they are written: a step is one access to shared memory (one atomic operation, or
what a thread does between locking and unlocking where nobody can see in between). A
thread's place in the code is its `pc`, named for what it does next. Where a call returns
into different callers, or a callback or a completion runs nested inside a call of the
same thread, the frame below is kept too (`stack` in `StopToken`, `Coroutine`, `Loops` and
`Adaptors`, `back` in `SpawnFuture`, `within` in `WhenAll`, `back` and `home` in `ThreadPool`). User code is part of each model:
it makes any call the library's contract allows, in any order, or none.

### StopToken

`src` is the source's members, `local` the locals of the one `request_stop` that makes the
request (`destroyed` and `removed_during_callback`, to which the source and the running
callback hold pointers), `cb` the callbacks. Registration is `BeginConstruct`, then
`AddRefused`, or `AddLock` and `Add`; a refused registration runs the callback inline.
Destruction is `BeginDestroy`, `RemoveLock`, `RemoveUnlink`, `RemoveSelf` or `RemoveOther`
and `RemoveWait`. `request_stop` is `BeginRequest` to `RequestRelock`, with a callback's
body as user code in between, so a body may construct, destroy (also itself), request
again or destroy the source. `DestroySource` is allowed to user code when every callback that
refers to the source is dead and no other thread is inside a call or a body that
`request_stop` runs; the thread that runs `request_stop` may do it from inside a body.

### CountingScope and JoinableScope

`word` is the packed atomic, `mutex`, `waiters` and `list` (the joins that the last
disassociation has taken) the rest. `Associate`, `Disassociate` and `Close` are
compare-exchange loops on the word and one step each. `start_join` is not: it takes the
mutex (`LockMutex`), changes the word (`Decide`) and registers (`Register`), and the last
association may end in between; it is the mutex that makes `TakeWaiters` wait for the
registration. `JoinableScope` knows none of it: a gate, whether the scope is sealed, who
is active, and how far each join has come. The owner may destroy the scope when every join
it started has completed, or in the completion that `complete_joins` brings to one of them
while the others are still in the finisher's `list` (`MayDestroy`): the comment above
`complete_joins` is about that. A join that completes inside its own `start` ("returned") says
less: the operation that ended the last association may not have taken the waiters yet, so
such a completion alone does not let the owner destroy a scope on which other joins wait.

### SpawnFuture and Future

`mode` tells plain `spawn`, whose state frees itself (`CompleteSpawned`), from `spawn_future`.
`Run` starts the operation, or completes it at once when the scope has refused the
association. `flags` is the atomic byte. The producer's completion (`Complete`), the
consumer's start (`Register`, `Consume`) or drop (`AbandonStop`, `Abandon`) and the stopper's
callback (`Cancel`, `CancelStop`, `Cancelled`) each change it and go on as the old flags tell.
`RequestStop`'s effect on the operation is open: it may complete inside the request, later
on its own thread, or never. `Free` and `Release` are two steps, because the association must
end after the memory is gone. `Future` knows whether the operation has finished, where the
consumer is, and whether the storage is held; to it a spawn is a future that was dropped
from the beginning.

### RunLoop

Every critical section is spelled out (lock, body, notify, unlock), because one question
is what may still touch the loop once `run` has returned. The list is the code's: `head`,
`tail` and the tasks' `next`, changed in the order of the statements, and in two steps in
`push_back` (`Push` links the task, `PushTail` sets the tail) and in `pop_front` (`Pop` moves
the head, `PopTail` resets the tail with the last task), so that a step of another thread
may fall between them unless the mutex keeps it out. Workers and tasks schedule tasks, also
one that has been popped before, whose storage then carries a link of its own from last
time; one thread completes the operation, which comes last. `FirstInFirstOut` compares the
list with the history: what has run is the beginning of what was pushed, and whenever the
mutex is free, `head`, the links and `tail` lead to the rest (`Linked`).

### WhenAll

Children complete with a value, a value whose copy throws, an error or stopped, on a
thread of their own, inside their own `start`, or inside the `request_stop` of the child
that failed or of the receiver's stop callback. The completion's writes are separate
steps: load the disposition and store the values, change the disposition, store the error,
request stop, arrive. The last to arrive resets `on_stop`, which waits for a callback that
runs on another thread, and completes the receiver; the operation is destroyed with that.
With `any` the same operation is a `when_any`: `Emplace` and `StoreResult` keep the first
completion, and `OutcomeOf` looks at the receiver's token once more.

### ThreadPool

A worker runs `Look`, `Find`, `FindRemote`, `Steal`, `FindNothing` while it has work, and
`SleepLock` to `Rejoin` around its sleep. Clients submit to a worker's remote queue and
notify it; tasks submit to their worker's local queue and wake a sleeper, if there is one.
Bulk jobs are listed by `RunBulk`, joined by `Join`, worked on by `Participate`, `Claim`,
`RunChunk`, taken off the list by `Unlist` and completed by `Drop`. The destructor is
`BeginDestroy` to `JoinThreads`.

What it leaves out: the local queue is a bounded sequence, of which `BwosQueue` has the
detail; a critical section of `bulk_mutex` and the moves of `take_remote` are
one step each; a round of spinning is a round of `run`'s loop; `steal_front` of a random
victim succeeds for some victim or for none.

### BwosQueue and StealQueue

`block` is the blocks with their four counters and their items, `last` and `start` the
queue's two counters, `thief` the locals of a thief. The owner's `Put` and `Get` are one
step each, as thieves look at nothing in between; moving on is `Advance`, `Grant`,
`Reclaim`, `Renew`, `Recount`, `MoveOn`, moving back `ReduceRound`, `Takeover`, `MoveBack`.
A thief is `StealFront`, `Load`, `CheckTail`, `Claim`, `Read`, `CountRead` and
`AdvanceSteal`, each one access. Items are numbered as they are pushed; `StealQueue` is the set
of those that are queued, from which the owner pops the newest and thieves take any: they
usually take the oldest, but a thief that was slow to look at a block may pass it by. When the owner may be told "empty" or "full" is
`AnswersAreTrue`.

### Loops

Loop 1 is a `repeat_n` whose child starts all other loops and completes with the last of
them, so several loops meet in the trampoline of one thread and are destroyed by the
next iteration of the one around them. `trampoline` is `current_trampoline` with its depth,
head and tail, `next` the links of the tasks, `waiting` the history against which the list is
compared. `Run` is `trampoline_run`: outermost, nested, or queued. Whether the byte limit of
the stack forbids what the depth allows is a choice. `IterationDone` ends a loop or connects
the child again, which may throw, and hands over the next iteration. A child completes
inside `start`, through the trampoline's `schedule()`, or on another thread.

### Coroutine

A thread's stack has a frame for each body it has resumed, for each `start()` an
`await_suspend` is in, and for the stop callback; `current_start` points to the `start()` it
was set by. `Await` connects and starts, `CompleteAwaiter` tells the `start()` or resumes the
coroutine, `StartReturns` looks whether it was told. All awaiters of a coroutine have the
same address, as they follow one another in the slot that `co2` keeps in the frame.
`CompletesLater` is the question of the finding below: whether a thread inside one `start()`
may complete what the same coroutine awaits next.

### Adaptors

`set` is what is connected: a chain of adaptors, a leaf, and whether the receiver's token is
of another type than `inplace_stop_token`. Operations are numbered from the outside; what
`let` connects in place of its child, and a hop to a scheduler, is an adaptor's `Aux`. A
thread's stack holds what it still has to do: `start` and `deliver` (a completion that is on
its way to the parent) replace what they were called by, while `request_stop` and callbacks
stay below what they call. Each adaptor has its operator for what it declares (`...Sigs`),
what it claims (`...Claims`), the token it shows (`Shown`), how it starts and what it does
with a completion; `CompleteReceiver` completes the receiver and destroys everything in the
same step. `starts_on`, `on` and `stopped_as_*` are the chains they are lowered to. Completion
signatures and claimed schedulers are computed for the chain as the templates compute them,
and compared with what the chain does.

Leaves are `just` and its siblings (and the inline scheduler), `schedule()` of the pool and of
the parallel scheduler's default backend, and an *async* leaf that stands for any other
sender: it completes when it likes, on any thread, or inside its stop callback. `Asker` is the
thread that requests stop of the receiver, `Closer` requests it through the other token of a
`stop_when`, as `counting_scope::request_stop` does. A job's chunks are model values that
participants take, in any order; `error` is the set of chunks whose exception was written, so
that a second write would be seen. What a worker runs has its scheduler at the bottom of the
stack (`Place`), which is how the place of a completion is compared with the claimed one.

An `any_sender` below `unstoppable` shows its sender an `inplace_stop_token` that refers to no
source (`NoSource`), not the `never_stop_token` it sees itself: a `stop_when` below it takes
it for a token that may be stopped and makes a source of its own. `Hears` says, apart from
all that, whose requests a level has to hear of; `ChainCompletes` lets an async leaf wait only
while none of these sources was asked.

## Checks

Each run is one question. `cfg` files and their exact values are beside the modules.

| run | instance | states | what it shows |
|---|---|---|---|
| `stop_token` | 3 threads, 2 callbacks, 1 request each | 150,000 | `NoUseAfterDestroy`; `StopReachesEachOnce`: whichever side of the request a registration falls; `CallsReturn` |
| `counting_scope` | 3 operations, limit 2, 3 joins, 1 of them scheduled | 20,800 | `DestroyIsSafe`: also by the receiver of the first of several joins; `JoinMeansEmpty`, `NoLostJoin`, every join completes, `JoinableScope` is implemented |
| `spawn_future` | the 3 threads there are; `spawn` and `spawn_future`, accepted or refused | 390 | `NoUseAfterFree`; `Future` is implemented; `PromiseKept`: the consumer is answered, the state is freed |
| `run_loop` | 2 workers, 3 tasks, 4 pushes, 1 spurious wakeup | 529,000 | `SafeReturn`; `FirstInFirstOut`: head, links and tail are the tasks that wait, also when a task is pushed again; `SyncWaitReturns`: scheduled tasks run, `sync_wait` returns |
| `when_all` | 3 children of a `when_all` or a `when_any` | 882,000 | `NoUseAfterDestroy`, `OutcomeFollowsChildren`, and the completion comes |
| `thread_pool` | 2 workers, 1 client, local queues of 1; 3 tasks, or 1 task and 1 spurious wakeup, or a job of 3 indices in 2 chunks that the task or the client publishes | 558,000 | `InOnePlace`, `NoLostWakeup`, `JobFindsHelp`, `JobCompletesLast`, `Drained`, `WorkCompletes` |
| `bwos_queue` | 2 thieves, 7 items, 2 blocks of 2 | 405,000 | `ImplementsStealQueue`, `ReadsItsClaim`, `AnswersAreTrue`, `CallsReturn` |
| `loops` | a `repeat_n` of two loops of all kinds, 2 threads, depth 3, counts of 2 | 170,000 | `OneIterationAtATime`; `NestsAndQueues`: depth and list are what they should be; `LoopsGiveWay`: stop requests end the loops, queued work runs |
| `coroutine` | 2 Tasks of 2 awaits, 3 threads | 39,000 | `RunsInOnePlace`, `NoUseAfterDestroy`, `TaskEnds` |
| `coroutine_slot` | the same on 2 threads, with `CompletesLater` | | finds `MarksOwnStart` violated (below) |
| `adaptors` | 2 workers, single adaptors, pairs and lowered chains of up to 3 over up to 5 leaves, a token without a source (`Cases`) | 426,000 | `NoUseAfterDestroy`; `CompletesAsDeclared`: a declared completion, on a worker of the claimed scheduler, of jobs that are finished and have written one exception if they failed; `ChainCompletes`: the stop requests of either source get through, nothing is forgotten |
| `forwarded_stop` | `continues_on` over `any_sender`, foreign token, 1 worker | | finds `SourceOutlivesRequest` violated (below) |

Each property is also run against a *mutant*, a definition changed the way a bug would
(`Mutant:` in the modules), and found violated there.

**Why the bounds are enough.** Three threads are the request, the destructor of the callback
it runs and one more that registers; a second callback makes a list that a nested call
changes under the request. Three operations with a limit of two reach the refusal by the
limit and leave one to race the last disassociation; three joins put one before, one
inside and one after the critical section. `spawn_future` has no parameter: its three
parties are all there are. Two workers and three tasks let tasks be pushed between every
two steps of the driver's pop, and a fourth push puts a task back that has run. With three children, one fails first, one has read the old
disposition, and one is last. Two workers with local queues of one overflow, steal and
sleep with three tasks; a job of three indices and two chunks has a remainder, and a
participant that comes too late. Four items fill two blocks of two, and seven use both blocks
for a second round, with both thieves inside one block or in one each. Two inner loops are
what it takes for one to wait in the queue behind the other, and counts of two for an inner
loop to be connected again while the outer one goes on. A Task that awaits a Task has a
coroutine above and below; two awaits use a slot twice. A chain's neighbours interact through
one completion, one token and one claim, so pairs of the adaptors that store, bind, hop or
forward are what can go wrong, with the others alone and in what is lowered to them; a
job of two chunks has a first and a last failure, a job of none and of one are its edges.

**Bounds that the code does not have** are constants: `MaxRequests` (calls of
`request_stop` per thread), `MaxPushes` of `RunLoop`, `MaxSpurious` and `Plans` of the pool (spurious wakeups, which tasks
are submitted, who publishes jobs), the numbers of the pool's tasks and jobs and of joins, each of which is used
once, `Awaits` and `Tasks` of `Coroutine`, `Depth` and `Settings` of `Adaptors`.

**Fairness.** `WF` is put on the steps of threads inside a call of the library, on the return
of callback bodies, tasks and chunks, and on the end of associations: the operating system
schedules threads, and a body that does not return blocks its caller by contract. In `Adaptors` workers
look for queued work, in `Loops` and `Coroutine` children and awaited senders complete, as the
loop's and the coroutine's progress depends on them; that is assumed of them, not shown. Nothing else
forces user code to make a call, an operation to complete, or stop to be requested. Where a
spin lock or a mutex is taken, weak fairness of the taking step is weaker than a thread
that waits would need under contention without end; in these instances contention ends.
Starvation at a lock is therefore neither shown nor excluded.

**Memory.** All atomics are sequentially consistent in the models. The code uses weaker
orders throughout; whether those are enough is not asked here. Rounds of the block queue are
integers and do not wrap; the code's do after 2^32 laps.

**An exemption.** `CompletesAsDeclared` asks that a chain which claims to send its values on a
scheduler does so, unless an adaptor that turns an error or stopped into a value stands behind
the claim (`Recovers`): `upon_error` and `upon_stopped` pass the claim of their child on, which is
made for the child's own values and says nothing of those that they make.

**Deadlock** is checked everywhere. A system that has come to rest because users make no
more calls takes an explicit `Idle` or `Done` step, which is enabled in those states only.

## Findings

**`coroutine_slot`** (`coro/co2.hpp:303`). A completion takes itself to be inside its own
`start()` when `current_start.awaiter` is its awaiter. That is an address, and the awaiters of
one coroutine use one slot of the frame. Suppose an awaited operation completes on thread 2
while thread 1 has not left its `start()`: the coroutine goes on on thread 2 and awaits the
next operation, in the same slot. If thread 1, still inside the first `start()`, now completes
the second operation (it runs the trampoline's queue, say, or whatever else the sender's
`start` drives), the completion is recorded in thread 1's frame and thread 1 goes on with the
body, while thread 2 may still be in the second `start()`. The comment at lines 204-206 says that any
other completion than the own one inside `start` resumes the coroutine where it happens. With
`CompletesLater = FALSE` the rest holds, which is what `coroutine` shows.

**`forwarded_stop`** (`any_sender_of.hpp:226`, and `stop_when.hpp`, in the same way). An adaptor
forwards a stop request to a source in its own operation. A child that completes inside that
request drops the adaptor's callback inside the callback's body, which does not wait, as it
is on the same thread. If a `continues_on` above takes the completion to a scheduler, the
receiver is completed there and its owner destroys the operation, with the source, while the
first thread is still in the source's `request_stop()`, which then locks it again. What
`stop_token.hpp:105` says (only the notifying thread destroys the source during a request) is
true of direct uses and not of this composition. `NoUseAfterDestroy` of `adaptors` leaves this
one access to the finding: a `notify` that is still on a stack.

Read, and not checked by a run: when connecting the child of an `associate` throws
(`algorithms/associate.hpp`), the operation's association ends with the operation that was not
built, before the wrapped sender goes, although "the wrapped sender exists only while the
association does".

## Proofs

Each `..._proofs` module has an invariant `IInv` that is inductive, a lemma per action or per
conjunct that steps keep it, a theorem `Invariance == Spec => []IInv`, and the theorems that
follow from it. None of the properties that the runs check is inductive by itself: each speaks
of the end of a call, or of destruction, and what makes it true is spread over what other
threads may rely on in the middle of theirs. TLC has checked each `IInv` on the run's instance.
Nothing is assumed but what the modules' `ASSUME`s say of their constants, which is that
numbers are numbers, names of threads are not `None` (a thief not `Owner`), and sets of threads
that are counted are finite. The one exception is `CompletesLater = FALSE` in `Coroutine_proofs`,
which its theorems state as their hypothesis and the paragraph on them explains.

**`CountingScope_proofs`**, for every finite set of operations, every set of joins and every
limit: `TypeCorrectness` (the count stays between 0 and `max_associations`, so it cannot
run into the state bits), `SafeDestruction`, `JoinSafety`, `JoinIsKept`, and `Refinement`: `Spec`
implements `JoinableScope`. `IInv` adds what the code keeps in several places at once: the count
is the number of operations that hold an association (`CountInv`); the mutex is held by
exactly the join between its lock and its unlock (`MutexInv`); a waiting join is in `waiters`
or in the `list` taken from it, and that list is empty unless an operation is completing it
(`ListInv`); if a join waits, an association is still held or one operation is about to take
the waiters, and once the scope is joined that is the only one (`FinishInv`); once
`complete_joins` has completed a join, nobody is about to take waiters any more (`TakenInv`); and a
destroyed scope has none of it left (`DestroyInv`). `StepPromise` maps each step to one of `JoinableScope`
or to a stutter: `Decide` is a `Seal` when it finds the scope empty, the last `Disassociate` a
`Leave` that seals.

**`StopToken_proofs`**, for every set of threads and of callbacks, and any number of requests:
`NothingUsedAfterDestroy`, `ReachesEachOnce`, and the action property
`DestroyedStaysUntouched`. `IInv` says who holds the lock (`LockInv`); that one call makes the
request and runs one body at a time, and that the list is empty once it has returned
(`NotifierInv`); that who destroys the source leaves nobody inside (`SourceInv`); that each
listed callback is registered, is there once, and has not run (`ListInv`); of which callback
each call in progress may speak (`CallInv`); that a callback has one body on all stacks, and
that one whose callback is destroyed has been told so through `removed` (`BodyInv`); and when a
callback has run (`RunInv`).

**`RunLoop_proofs`**, for every set of workers and of tasks: `ReturnsSafely` and `InOrder`.
`IInv` says that a task is in one thread's hands exactly while that thread pushes it, and does
not wait on the list before (`ArgInv`), that workers schedule nothing once the operation has
completed (`WorkerInv`), that it completes once and the loop is told to finish after that
(`FinishInv`), that what has run is the beginning of what was pushed and no task waits at two
places (`OrderInv`), and where the list is (`ListInv`): outside the two functions `head`, links
and `tail` are those of the waiting tasks (`RestingInv`), between the two steps of `push_back`
the tail is one behind (`PushingInv`), between those of `pop_front` the head is one ahead
(`PoppingInv`). That no task waits twice is what makes a push's write to the last link spare
all others; that the mutex admits one thread is what lets each function start from
`RestingInv`.

**`WhenAll_proofs`**, for every number of children, of `when_all` and of `when_any`:
`SafeDestruction`, `Outcomes`, and the action property `CompletesOnce`. `IInv` says that
`remaining` is the number of children that have not arrived (`Counted`), how far `start` came
(`Started`), that a child completes on the stopper's thread only inside the stopper's one
request (`Inside`), who forwards (`Forwarding`), that one child arrives last and waits for the
callback (`LastOne`), and what the disposition, the error and the values tell of the children
that wrote them (`AllTags`, `AllErrors`; `AnyFirst` for `when_any`).

**`ThreadPool_proofs`**, for every number of workers, every finite set of clients, all sets of
tasks and jobs, every capacity, size and plan: `WakeupsKept` (`NoLostWakeup`) and `TasksKept`
(`InOnePlace`). `IInv` says to where calls return (`CallInv`); that a worker's mutex is held
by that worker between lock and unlock and by nobody else (`MutexInv`); that a worker
that blocks is known to sleep, or its notifier has yet to pass the mutex, and that a submission
it did not see is followed by a notification (`SleepInv`); that `sleepers` counts the workers
between their count and uncount (`SleepersInv`); that a task is in one place, which is said with
sets here (`TaskInv`) and with cardinalities in `InOnePlace`; that a worker which left has
nothing queued and nothing can come (`ExitInv`); and that a job is listed while it has chunks
(`ListInv`). Each action has a lemma that says what it does to one thread and one worker
(`...Effect`), and steps that have no part in an invariant are dealt with together
(`Calm`, `Tame`).

Its second part is about the bulk jobs: `DestructorDrains` (`Drained`),
`JobsComplete` (`JobCompletesLast`, with the type invariant in it) and `HelpFound`
(`JobFindsHelp`). `ChunksPartition` is about `chunk_bounds` alone: for every size and every
number of chunks the chunks are disjoint and cover the indices. `JobsInv` says that a job's
references are its participants and the list or the one who drops for it (`Referred`), that no
two participants hold the same chunk and one of them holds the one past the last while the
job is listed (`Claims`), and that the indices which have run are those of the chunks claimed
and not being run (`RanChunks`). For `JobFindsHelp`, `HelpInv` calls a worker committed when it
has looked at the list and was not notified since. While a job has chunks no worker commits
itself any more (`CommittedBefore`), so it is enough that the publisher finds a worker that is
not, or has passed only such workers in its scan (`Recruits`).

**`BwosQueue_proofs`**, for every finite set of thieves, every number of items and of blocks, and
blocks of every size: `ClaimsAreRead` (`ReadsItsClaim`), `AnswersTrue` (`AnswersAreTrue`),
`TakenOnce`, and `Refinement`: `Spec` implements `StealQueue`. The code keeps no record of which
blocks are in use; it can tell from the rounds of their counters, and the invariant says how.
`Round(b)` is the round of the owner's last visit to `b`, `Within(b)` that `b` lies between
`start` and `last`. A block within is granted, with its `steal` counter in that round; one outside
has nothing left and shows it with an index of `Size` in that round, which is what `is_writable`
looks for (`BlockInv`, with what holds in the middle of the owner's moves; `OwnerInv`, `FreshInv`:
this is `Control`, which thieves cannot disturb). `count` and the thieves that have claimed and
not counted yet are together what was claimed (`CountInv`), so `reclaim` waits for exactly these,
and what they claimed stays in its slot (`ThiefInv`). `Holds` says which slots have a queued item:
these are all queued items, once each, and their order is that of the slots and of the blocks'
rounds (`ItemInv`), so the owner's last slot has the newest. Each owner action has a lemma that
says what it does to one block (`...Effect`), and then one for `Control`, one for the counts and
claims, and one for the items (`SlotFilled`, `SlotTaken`, `SlotsKept`); thieves' steps that touch
no block are dealt with together (`ThiefQuiet`). TLC has checked `IInv` with two blocks of two,
three of one, and a single block of two.

**`Loops_proofs`**, for every set of threads, every number of loops, every count and depth limit:
`IterationsAlone` (`OneIterationAtATime`) and `TrampolinesSound` (`NestsAndQueues`), and
`TypeCorrect`. `IInv` is the types, `NestsAndQueues` itself, that a thread outside a trampoline is
at one completion at most (`Based`), and where each loop's iteration is (`Placed`): in one place
of a thread's stack, of a queue, or with its child, if the loop runs; in none if it does not. The
outer loop is harder than the others, because its place may be nowhere while its child waits for
the inner loops. `Staged` says how far its `start()` came: the loops that it has not started yet
are the ones still unstarted, and no second `start()` of it is about. The places of a loop are a
set of triples (thread, stack or queue, index), and each action has a lemma that says which
positions it adds, removes or moves up (`Positions...`). The links are followed by position too: a
task that is appended was not on the list, because its loop had its place elsewhere, so writing
its `next` breaks no link.

**`Coroutine_proofs`**, for every set of threads, every number of Tasks and of awaits, under
`CompletesLater = FALSE`: `ResumedOnce` (`RunsInOnePlace`), `DestroyedAtRest`
(`NoUseAfterDestroy`), the action property `DestroyedStaysUntouched`, and `TypeCorrect`. The
hypothesis says that a thread inside a `start()` completes nothing that the same coroutine awaits
later; it is a constant of the model, the run `coroutine` has it, and the finding `coroutine_slot`
shows that without it the theorem is false. `IInv` says which frames may lie on which
(`WellNested`: a body is resumed on a `start()`, a callback or an empty stack; a `start()` lies on
the body that awaits; its saved `current_start` is the next `start()` below; and a mark is the
number of its own operation); that a coroutine which runs and awaits nothing goes on at one place
and any other at none (`Places`); that the Tasks before a running one all run and await a Task
(`Awaited`), which is why the end of one finds the one before it waiting in its first operation;
and what the receiver's completion leaves (`Owned`). What an action does to one stack is a lemma
about sequences (`PushedBody`, `PushedStart`, `Marked`, `PoppedBody`, `Returned`), and then a
place is left, taken or kept (`PlaceLeft`, `PlaceTaken`, `PlaceKept`). TLC has checked `IInv` with
two Tasks on three threads and three Tasks on two.

The lemmas about `Append`, `Front`, `Tail`, `RemoveAt` and `\o` stand at the head of the proofs
that use them, after the invariant (three of them are needed for the list of `StopToken` and the
queues of `ThreadPool` alike).

**What only TLC checks, and why.** Liveness (`SyncWaitReturns`, `WorkCompletes` and the others)
needs fairness and `ENABLED`, which the prover does not have. `SpawnFuture` has no constants: its
390 states are all there are, so TLC's check of `NoUseAfterFree` and of `Future` is already for
every instance. `Adaptors` is a program that builds chains from a list of cases: what it checks is
about these cases (`Cases` of `MCAdaptors`), not about numbers that a proof could leave open, so
`NoUseAfterDestroy` and `CompletesAsDeclared` of chains stay with TLC. The refinement of `Future`
is TLC's for the same reason as `SpawnFuture`'s invariant.

## Not modelled

- `any_scheduler`, the storage of erased objects, `read_env`, the environments that `let` adds,
  copies and moves of an `associate` sender, a backend that replaces the default one: no
  step of theirs meets another thread's, or they are user code.
- A round of the block queue's counters that wraps: 2^32 laps are out of reach, and a narrower
  round would show a reuse that the code's width excludes.
- `co2` itself (frames, promises, their destruction) is taken as given.
- A source that is destroyed by one thread while another is inside a call of it, a scope
  that is used after its owner's last join without anything that keeps it alive, and a pool
  that is destroyed while a client is still inside `enqueue` are outside the contracts of
  those classes, so the models of those classes do not do it (`Adaptors` asks the first
  question again of compositions: see the findings). For the pool it is worth knowing:
  `enqueue` touches the worker after the push, when the task may have completed already.
- Exceptions other than those of functions, of stored results, and of connecting a second
  operation or the next iteration; allocation failure; everything that the compiler decides.

## Plan

The models cover every component that keeps state, and the safety of stop tokens, scopes,
`run_loop`, `when_all`, `when_any`, the thread pool and its work-stealing queue, the loops and the
coroutine bridge is proved. What could come next:

1. Memory orders: the block queue and the stop token with the orders that the code uses.
2. `Adaptors`: the invariants of a single adaptor for any child that keeps the receiver's contract, instead
   of chains of cases.
