# Formal models of asynqro

asynqro is a C++17 library of futures and of a task dispatcher. This directory
holds TLA+ modules translated from its source, TLC configurations that check
them on small instances, and proofs, checked by TLAPS, of what matters most.
File and line numbers below refer to `src/`, the root of the repository.

1. [The system](#1-the-system)
2. [The modules and the code](#2-the-modules-and-the-code)
3. [The runs](#3-the-runs)
4. [What the runs found](#4-what-the-runs-found)
5. [What is proved](#5-what-is-proved)
6. [What is not modelled](#6-what-is-not-modelled)
7. [Plan](#7-plan)

## 1. The system

| component | code | state | operations |
|---|---|---|---|
| Future, Promise | `include/asynqro/future.h` | `state` (an atomic word), `value`, two lists of callbacks, `mainLock`, per thread the last failure | `success`, `failure`, `onSuccess`, `onFailure`, `onComplete`, `wait`, `isCompleted`, `result` |
| CancelableFuture | `impl/cancelablefuture.h` | a promise it may fail | `cancel`, everything of Future |
| last failure | `impl/failure_handling.h`, `future.h` | a thread-local failure | set by `WithFailure`, consumed by the next `success` |
| morphisms | `future.h` | none of their own | `map`, `flatMap`, `filter`, `recover`, `andThen`, `zip`, ... |
| sequence | `future.h:559-604`, `:763-829` | the futures, the result so far, an iterator | goes over futures that complete while it does |
| TasksDispatcher | `src/tasksdispatcher.cpp` | a queue by priority, usage of each subpool, capacities, paused tags, which workers are available and bound, bindings of tags; `mainLock`, `poisoningStarted` | `insertTaskInfo`, `taskFinished`, `schedule`, every setting, `preHeatPool`, the destructor |
| Worker | `src/tasksdispatcher.cpp:493-570` | a list of tasks, a flag, `tasksLock`, `waitingLock`, a condition variable | `addTask`, `run`, `poisonPill`, destructor |
| TasksList | `impl/taskslist_p.h` | a map from priorities to lists, an iterator over it | `insert`, `erase`, `begin`, `++` |
| TaskRunner | `impl/tasksdispatcher.h:127-186` | a task, its promise | `run`: starts a task unless it is cancelled, fills the promise |
| SpinLock | `impl/spinlock.h` | an atomic flag; a holder that has the lock, waits for it or has given up, which the caller's flag makes it | `lock`, `tryLock`, `unlock`, `SpinLockHolder` |
| container traversal | `impl/containers_traverse.h`, `impl/containers_helpers.h` | none | `filter`, `map`, `reduce`, `flatten` over any container |
| tasks | `tasks.h` | none | `run`, `runAndForget`, `clusteredRun` |
| Trampoline, repeat | `tasks.h:225-241`, `repeat.h` | the value so far | `repeat`, `repeatForSequence` |

How they interact. A client calls `run`, which makes a TaskRunner and gives it
to the dispatcher. `insertTaskInfo` hands it to a worker at once or queues it
and calls `schedule()`. The worker's thread calls the TaskRunner, which fills
the promise, and that runs every callback of the future on the worker's thread:
callbacks register on other futures and submit tasks. Then the worker calls
`taskFinished`, and `schedule()` if its list is empty. The dispatcher and its
workers share nothing but calls; each future is shared by all threads that hold
it.

Where it is hard:

- **Interleavings.** The word `state` is read without the lock while a fill
  writes it; a fill takes the lists of callbacks while another thread files one;
  `onComplete` registers twice; `wait()` gives other threads the address of its
  locals.
- **State that is stale when used.** A task is handed over to the worker chosen
  for it after `mainLock` is released. A worker reads that its list is empty
  under its own lock and says so under the other one. `addCustomTag` and
  `preHeatPool` read the capacity before they take the lock.
- **The end.** The destructor of the dispatcher joins threads under the lock they
  need to finish. A holder that waits for it gives up once the dispatcher is being
  destroyed, and unlocks what it has not got.
- **Wake-ups.** A worker goes from one lock to another to sleep; `wait()` sleeps
  while its callback runs; `schedule()` gives out one task and relies on being
  called again.
- **Counters and sets that must agree.** Usage of subpools against tasks on
  workers; three records of bindings; available workers against those that
  wait; capacities that change while workers exist.

What makes each component correct:

- *Future*: resolved once; each callback called once, with the outcome, on
  every interleaving; no waiter left sleeping, none released too early; nobody
  refers to a `wait()` that has returned.
- *Dispatcher*: a task is at one place from submission to its end; subpools stay
  within their capacity; tasks of a bound tag are with one worker; nothing that
  could run is left in the queue when all is quiet; all tasks end.
- *TasksList*: the iterator meets every task in order of priority, and stays at a
  task or the end while lists empty and fill again.
- *Worker*: tasks run once in the order given; no wake-up is lost; it can be
  destroyed.
- *Destruction*: one thread has `mainLock`, those that give up on it included; the
  destructor, which keeps it while it joins workers, does not wait for a thread
  that waits for the lock.
- *Sequence, morphisms, TaskRunner*: every future that was returned is filled, a
  cancelled one stays cancelled, a last failure ends where it belongs; what an
  exception or a `WithFailure` in the middle of a container makes of the whole.
- *clusteredRun*: each element computed once, by one cluster; no cluster outlives
  the task whose data it uses.
- *Trampoline, repeat*: the first step that does not continue decides; what
  bounces arrives.

## 2. The modules and the code

| module | what it is |
|---|---|
| `Future` | one future and its promise, any number of threads and callbacks |
| `FutureContract` | what a future promises to its users: resolve once, deliver each callback once |
| `TasksList` | the map of lists by priority and the iterator of `schedule()` |
| `DispatcherQueue` | `Dispatcher` with its queue kept in a `TasksList` |
| `Dispatcher` | the dispatcher with its workers' lists and the steps of a worker it can tell apart |
| `Worker` | one worker, the threads that give it tasks, the one that destroys it |
| `SpinLock` | a flag and the holders that take it, wait for it and give up |
| `Shutdown` | `mainLock`, a `SpinLock`, around a `Worker`, up to the end of the dispatcher |
| `Callbacks` | many futures, the threads that fill them and their stacks of calls |
| `Containers` | vectors, sets and maps, and the loops over them |
| `Morphisms` | `map`, `filter`, `flatMap`, `mapFailure`, `recover`, `recoverWith`, `andThen`, the `inner...` morphisms and `zip` on top of `Callbacks` and `Containers` |
| `FutureSequence` | `sequence`, `sequenceWithFailures` on top of `Morphisms` |
| `TaskRunner` | `run`, `runAndForget`, `run` over a container, `cancel`, `Trampoline` on top of `FutureSequence` |
| `ClusteredRun` | `clusteredRun` on top of `TaskRunner` |
| `Repeat` | `repeat`, `repeatForSequence` on top of `TaskRunner` |
| `Combinators` | the composition of these: programs that call them, and what is to be true of all |
| `MCFuture`, `MCDispatcher`, `MCDispatcherQueue`, `MCWorker`, `MCShutdown`, `MCCombinators` | instances for TLC |
| `FutureProofs`, `DispatcherProofs`, `WorkerProofs`, `ShutdownProofs` | inductive invariants, theorems and their proofs |
| `DispatcherCountProofs`, on top of `DispatcherProofs` | the same for what the dispatcher counts, and for what it leaves in the queue |
| `DispatcherQueueProofs`, on top of both | the same for `TasksList` and the dispatcher's use of it |
| `CallProofs`, `CombinatorsProofs` | the same for `Combinators`: what each call turns into, and what follows of all calls |

**Steps.** A step is what other threads see as one. In `Dispatcher` everything
is under `mainLock`, so a critical section is one action that needs the lock to
be free, and only `schedule()` and `preHeatPool`, whose loops are modelled
iteration by iteration, hold it over several. What runs outside the lock is an
action of its own: `HandOver` (`addTask`, called after the lock is released),
`AddCustomTagRead`, `PreHeatRead` (arguments computed before the lock is taken)
and `Ran` (the worker's look at its list). In `Future`, `state` is read without
the lock, so a fill is four actions: `FillLock`, `FillValue`, `FillState`,
`FillTake`; a registration is one action under the lock. In `Worker` each lock
and unlock that another thread can observe is an action.

**Calls.** What is built from futures is built from callbacks, and a callback
runs on whichever thread fills the future, in the middle of what that thread was
doing. So `Callbacks` gives each thread a stack of calls, which are records, and
each module adds kinds of call and one action for each. A fill puts the
callbacks of the future on the stack; a registration on a filled future puts its
callback there. A future has a list for each outcome, as in the code, and a fill
empties both. A fill is one step here and four in `Future`, because
`FutureContract` says that is what others may rely on. The dispatcher below a
task is the set `queued`: a worker whose stack is empty takes any of it. That
each task is run, once, by a worker that does nothing else is what
`EveryTaskAtOnePlace` and `EveryTaskFinishes` check of `Dispatcher`; capacities
other than the number of workers are left to it. New futures are not created but
named in the call that returns them, and what a user's function does is part of
the call: it gives a value or a future, `WithFailure`, or throws, maybe after a
`WithFailure`. Where a value is to be returned `WithFailure` becomes `T()` and leaves
its failure with the thread; where a future is, it becomes one that has failed. `Places` are all
the places a call can be at: on a stack, in a list, in the queue.

**Programs.** `Init` of `Combinators` gives each thread of clients a sequence of
calls, one of the constant `Programs`. Of these it is assumed
(`ProgramsCallTheLibrary`) that they are calls of the library with what the types of
its parameters allow, that there are futures enough for those it makes, and that the
promise of a sequence and of each task that the library starts by itself is
nobody else's (`Private`), as it is never handed out. For every kind of call, `Answers` says
what its future is to be filled with as a function of the futures and functions
it is made from; it has no iteration, no callbacks and no threads, and is the
reference that `EachFromItsOwn` and `EveryAnswerGiven` compare with.

**Clients.** A client of `Dispatcher` is any thread that calls it. It stands
also for a task that submits tasks: the caller holds no lock of the library.

**The queue.** In `Dispatcher` the queue is the sequence of tasks that the loop of
`schedule()` meets, and `Enqueue` puts a task behind all of its priority or a
lower number. `TasksList` is what the code has: a map from priorities to lists,
in which a list that has become empty stays and has to be passed. In
`DispatcherQueue` each step that uses the queue does to the lists what the code
does there (`insert`, `begin`, `++`, `erase` with or without using the iterator it
returns), and `ListsAreTheQueue` says that the two agree.

**The end.** `Shutdown` has one worker, the clients that submit tasks to it and the
destructor. A client takes `mainLock` and gives the task to the worker after it has
released it; the worker takes `mainLock` in `taskFinished` and, when its list is
empty, again in `schedule()`; the destructor sets `poisoningStarted`, takes the
lock and, holding it, poisons the worker and joins its thread. What the dispatcher
does with its state under the lock is `Dispatcher`'s. Each step is one of `Worker`
together with what happens around it, or one with `mainLock` alone.

**Containers.** A container is a record that says which kind it is and has the
sequence, set or function. A set or map is gone over in an order that is fixed but
arbitrary, as it is for one object of the code; a map as pairs of key and value.
`add` is what the overloads of `containers::add` do: append, or insert, which
leaves an entry with the same key alone. What the user's function does for an
element is a table, and the loop goes on after a `WithFailure` and ends at an
exception, as the code does. What `run` over a container does for each element is
such a table too (`fns`), which stands for a function with or without the index. `zip` is a chain of `flatMap` and `map`, whose futures
on the way (`via`) are named in the call.

**Data.** A callback is an identity with a kind (`success`, `failure`,
`complete`, or the one of a `wait()`); what a `wait()`'s callback does to the
mutex, the condition variable and `canExit` is modelled step by step. A task has
a type, a tag and a priority. A pool is the pair of type and tag that
`packPoolInfo` packs. Bitsets are sets of workers; `firstSetBit` and `lastSetBit`
give the least and the greatest. A worker is `pc = "none"` until it is created;
"allWorkers" as the worker of a task means the one created for it.

**Abstract and detailed.** `Dispatcher` has of a worker its list and the points
where it touches the dispatcher; `Worker` has the rest. `DispatcherQueue`
implements `Dispatcher` and `Shutdown` implements `Worker`; both are proved
(section 5). `Future` implements `FutureContract` (property
`ImplementsContract`, its safety part proved): the outcome is the value once the state says completed,
what a callback wants follows from how it was registered, and delivered are the
callbacks that have been called.

**History variables.** `submitted`, `finished`, `calls`, `given` and `done`
record what happened and guard nothing, except that each task and each
callback is used once.

## 3. The runs

| run | instance | distinct states | asks |
|---|---|---|---|
| `Future` | 3 threads, 2 callbacks, a value and a failure, fair | 204 500 | all safety of Future, its contract, waiters are released, no deadlock |
| `FutureSpuriousLive` | 2 threads, 1 callback, spurious wake-ups | | shows finding 1 |
| `DispatcherTasks` | 2 clients, 2 workers, 5 intensive and bound tasks of 3 priorities, fair | 116 800 | no task lost or doubled; subpools; bindings; the lists; all tasks end |
| `DispatcherSettings` | 2 clients, 2 workers, 3 custom and bound tasks, every setting, symmetry | 412 000 | settings against scheduling |
| `DispatcherMigration` | 1 client, 3 tasks | | shows finding 2 |
| `DispatcherResume` | 1 client, 3 tasks, pause and resume | | shows finding 3 |
| `DispatcherPreHeat` | 2 clients, `setCapacity`, `preHeatPool`, fair | | shows finding 4 |
| `WorkerTasks` | 2 givers, 3 tasks, 2 idle loops, the dispatcher destroyed at any time, fair | 55 900 | order, wake-ups, usage; every task runs; `mainLock` and the end of the dispatcher |
| `WorkerPoison` | 1 giver, 1 task, fair | | shows finding 5 |
| `Combinators` | 331 programs on 2 clients, 3 workers, fair | 42 800 | every future filled, with its own answer; one iteration; clusters |
| `CombinatorsLeak` | 2 programs: `filter`, or `map`, and `andThenValue` | | shows finding 6 |
| `CombinatorsManagers` | 1 program of two `clusteredRun`, 2 workers, fair | | shows finding 7 |

What the properties say is written above each of them, in the module of the
component. The ones that say most:

- `NoCallbackLost`, `CalledOnceWithOutcome`: the race of a registration with a
  fill, from both sides. `ImplementsContract` says the same of every behaviour
  at once, and that each delivery comes.
- `NoDanglingWaiter`: `wait()` never returns while anybody has its callback.
- `WaitAnswersTruly`: whichever of the fill, the callback and a timeout comes first,
  `wait()` answers true only of a completed future, and false only when its sleep
  ended unasked.
- `UsageCountsInFlight`, `EveryTaskAtOnePlace`: counters and places, in every
  state, the ones between choosing a worker and handing over included.
- `BoundTasksOnTheirWorker`, `BindingsConsistent`: the three paths that give out
  bound tasks, and the three records of bindings.
- `UnboundPoolServed`: while no tag is bound the pool leaves no task waiting that
  could run. (With bound tags it does: finding 2.)
- `NoLostWakeup`: a worker that sleeps, or is past looking at its list, has
  nothing in it unless somebody is about to wake it.
- `ListsAreTheQueue`: the iterator of `schedule()`, in the middle of its loop, is
  where it belongs although `insert`, `erase` and lists that run empty change the
  map between two loops.
- `MainLockExclusive`, `DestructorGetsOn`: a holder that gives up and then unlocks
  lets nobody in; the thread the destructor joins is not one that waits for the
  destructor's lock. (The wake-up it may miss is finding 5, and is excepted.)
- `EachFromItsOwn`, `EveryAnswerGiven`: a future is filled with what was asked
  for it, not before it is decided, and it is when it is. A result that comes
  from another call, a failure that leaks from one task into the next and a
  callback that is forgotten all break one of them.
- `OneIteration`: the loop of a sequence is on one thread or in one callback.
- `ClustersWithinTheirManager`: as long as a cluster is queued or running, the
  task that owns its data waits for it, on every way that task can end.

**Bounds.** Three threads are enough for a future for one to fill, one to race
with it and one to wait: `t1` fills and cancels, `t3` registers and waits, `t2`
does both and also converts a `WithFailure`, so that both fills and both
registrations race. A list needs two callbacks for one to be ahead of another.
Two workers are the fewest for a choice, and for one bound and one free; with
`DefaultBoundCapacity = 1` a second tag must share. Five tasks give the two
intensive tasks a subpool of capacity 1, of different priority, and three bound
ones, two of them with the same tag, so that all of `InsertBound`,
`InsertDirect` and `InsertQueued` happen. Their three priorities give the map a
list ahead of and one behind the one that runs empty. Clients are alike, and so
are the two tasks of the same tag: which of each comes first is fixed
(`FirstClient`, `NamesInOrder`), where a symmetry set would not be sound under
fairness. Settings are called any number of times with the smallest values, the
largest and, for a tag, one that is to be raised to 1. In `Combinators` two
futures are filled in either order, by one thread or two, before, while and
after a container is gone over; containers are empty, in both orders, and hold
a future twice. A range of four elements with room for three clusters is cut
into three, two and one, with an element left over, and fails in each cluster
and in two at a time. The loops over containers meet no element, three, and one
twice; elements fail, throw, fail twice, and fail before another throws. A function
that is to return a future returns one, answers `WithFailure`, or throws; any may
throw after a `WithFailure`, with nothing behind it on the thread that would meet
finding 6. `run` over a container does a different thing for each element, as
with an index. Two
managers of `clusteredRun` have three workers, the fewest with which both
return (two are finding 7). `repeat` takes two steps, which is one hand-over; its
function has as many answers as its call has steps (the guard of `NextStep`).
Tasks of `WorkerTasks` are given in the order of their names (`TasksByNumber`),
which is all they differ in. `IdleLoops = 2` stands for `idleLoopsAmount`: what
the loop does depends only on whether it has been reached. Every action fires
in a passing run.

**What the bounds leave out.** `DispatcherTasks` has no custom task and
`DispatcherSettings` one bound tag: a sixth task in the one, and a second tag in the
other (2.9 million states), make instances too large to be checked in a few minutes.
So the part of `SubpoolsWithinCapacity` about tags does not arise in its run, the
part of `UnboundPoolServed` about a worker with two tasks cannot fail there, and
`BindingsConsistent` does not meet the search for the least bound worker. These rest on the theorems, which have any
number of tasks and tags: `SubpoolsKept`, `OneTaskPerUnboundWorker` and
`BindingsAgree` (section 5). Tags are paused and limited in
`DispatcherSettings` (`CustomTagsRespected`), and two tags share a worker in
`DispatcherTasks` (`BoundTasksOnTheirWorker`).

**Deadlock** is checked unless the run says otherwise. `MCSpec` of the instances
adds one stuttering step, enabled when all tasks have ended (when the
dispatcher is gone), the only way these may stop. `FutureSpuriousLive` and
`CombinatorsManagers` do not check it: that the system stops is what they show.

**Fairness** is what an operating system gives: a thread inside a call goes on.
Of clients nothing is assumed. In `Future` and `Dispatcher` weak fairness per
thread is enough, because each lock is taken finitely often in a behaviour of
finitely many tasks and callbacks. In `Combinators` it is the same, and a
worker that has nothing to do takes a task. In `Worker` and `Shutdown`, where
the run loop takes `tasksLock` again and again while it idles, fairness is
strong: a thread that wants a lock which is released over and over gets it in
the end. `EveryTaskFinishes` assumes that tasks end.

**Mutants.** Operators marked `Mutant` are changes a plausible bug would make:
a check not repeated under the lock, a counter not lowered, a lock released too
early. Each property of a passing run has one that TLC finds violated.

## 4. What the runs found

Findings 2, 3, 6 and 7 were reproduced with the library itself.

1. **An untimed `wait()` that is woken unasked never returns**
   (`future.h:200`, run `FutureSpuriousLive`). `waiter.wait(lock)` has no
   predicate. Woken without a notification, the waiter holds its mutex again and
   spins on `canExit`; the callback that would set it waits for the mutex.
2. **A task moved from a bound worker queues others behind it**
   (`tasksdispatcher.cpp:417`, run `DispatcherMigration`). When the worker chosen
   by `schedule()` is bound and a new one can be created, the new one takes the
   task but stays marked available, and the bound one is no longer. The next
   task goes behind the first although a worker idles.
3. **Resuming a tag gives out one task** (`tasksdispatcher.cpp:254`, run
   `DispatcherResume`). `schedule()` is called once and returns after one task
   that is not bound; the others wait until something else calls it.
4. **`preHeatPool` may never release `mainLock`** (`tasksdispatcher.cpp:274`, run
   `DispatcherPreHeat`). The number it counts up to is limited by a capacity
   read before the lock is taken. If `setCapacity` lowers it in between, no
   worker can be created and the loop does not end.
5. **A poison pill may be missed** (`tasksdispatcher.cpp:528`, run
   `WorkerPoison`). `poisoned` is set and the waiter notified between the
   worker's look at it and its sleep; the worker sleeps and the destructor's
   `join()` does not return.
6. **`filter` leaves a failure behind** (`future.h:340`, run `CombinatorsLeak`). A
   predicate that answers `WithFailure` becomes false and leaves its failure with
   the thread; `filter` rejects and does not ask for it. A function of `map`, or of
   any other of these, that throws after a `WithFailure` leaves it too: a future that
   is filled with a failure does not ask. The next future that is
   filled with a value on that thread fails with it, another's callback on the
   same future for one. `runAndForget` does not invalidate it either
   (`impl/tasksdispatcher.h:179`).
7. **Managers of `clusteredRun` fill their own subpool** (`tasks.h:212`, run
   `CombinatorsManagers`). The managing task waits, on a worker of the subpool, for
   clusters of the same subpool. As many calls at a time as it has slots leave none
   for a cluster, and none of them returns.

Two more were seen while modelling, without a run. The first was reproduced with the
library:

- `repeatForSequence` over a `std::list` runs beyond its end when the future of
  the last step is not filled at once: `++current` comes before the list moves into
  the callback, and the end of a list does not move with it (`repeat.h:177`).
  Positions stand for iterators in `Repeat`, as for a `std::vector`.
- `setCapacity` may reserve more for `allWorkers` than the constructor did
  (`tasksdispatcher.cpp:211`), which moves the vector, while another thread indexes
  it after it has released `mainLock` (lines 306, 313 and 422).

The programs of `Combinators` have no predicate that answers `WithFailure`, and
nothing that is filled with a value after a throw which left one: finding 6 is what
they would find again.

Finding 2 is why `UnboundPoolServed` is about the time before the first binding:
it says what the pool promises where that promise holds.

## 5. What is proved

All proofs are for any sets of threads, clients, workers, tasks, callbacks, tags
and values, under the assumptions named in the modules (`FutureAssumption`,
`DispatcherAssumption`, `WorkerAssumption`, `SubPoolIsNotEmpty`,
`ProgramsCallTheLibrary`): `None` is none of them, the capacities are ordered as the
constants of the code are, and programs call the library as section 2 says. Each module of proofs
rests on one inductive invariant (`IInv`, `LockInv`, `ListInv`), and what comes on top
of it has further ones, named below. They were checked with TLC before they were
proved.

**`FutureProofs`.** `FilledOnce`, `CompletedHasValue`, `TypeOK`. None is inductive
alone: that the state is not overwritten needs that whoever is at `FillValue` or
`FillState` holds the lock (`Locking`) and has seen the future not completed under
it (`Filling`); that the value is there when the state says so needs that `value`
is that thread's own (`Filling`).

Its second part is about the callbacks: `CalledOnceWithOutcome`, `NoCallbackLost`,
`NoDanglingWaiter`, and `FutureKeepsItsContract`: `Spec` implies the safety part of
`FutureContract`. They rest on `Delivery`, which follows a callback from its
registration to its call: what is in a list, on a thread's hands or with an
`onComplete` between its two registrations is of one thread (`Owning`), fits where
that thread is (`Phases`), is in the list of its side (`Filed`, `Filing`) and there
once (`Once`); and what was registered and not called is kept somewhere (`Kept`).
`CalledOnceWithOutcome` and `NoCallbackLost` are parts of it and not inductive
without the rest: that a callback is called once needs that it is not in a list and
on the fill's hands at a time, and that none is lost needs that the fill which
takes a list is yet to come when the list is not empty. `NoDanglingWaiter` needs
`Released` on top: a `wait()` that has returned has its callback called, for `wait()`
leaves only when the callback has set `canExit`. `WaitAnswersTruly` has an invariant
`Waiting`: a sleep that was notified belongs to a completed future, since a callback
only runs on one (`Calling`, `Releasing`) and it stays completed (`CompletedStays`);
a thread past its sleep knows how it ended; and a `wait()` in progress, which is of
one thread (`Owning`), has given no answer, so nothing puts it to sleep again
afterwards. For the contract
each step of `Future` is one of `Resolve`, `Register` and `Deliver` or changes nothing
of what the mapping sees: `FillState` is the resolve, and the delivery is
the call of the callback, not its removal from the list.

**`WorkerProofs`.** `TasksInOrder`, `NoLostWakeup`, `UsageSettles`, `TypeOK`. The
invariant says which steps hold which lock (`Locks`) and what the worker knows of
the list: while it holds `tasksLock` past `empty` the list is empty, and a task
that comes after it has let go brings somebody to wake it (`Waking`).
`UsageSettles` has an invariant of its own: the counter plus the givers that have
yet to count is the number of tasks that are there (by cardinality of the set of
givers, which is why `Givers` is finite).

**`DispatcherProofs`.** `WorkersWithinCapacity`, `LoopWorkerStaysFree`,
`BoundTasksOnTheirWorker`, `TypeOK`. `IInv` ties together who holds `mainLock`
(`Locked`), that the worker of `schedule()`'s loop is free (`Looping`), who has a
task in hand and for a worker that exists (`Handing`), which worker runs
something (`Working`), that workers exist in order (`Created`) and that bindings
are to bound workers (`Recorded`). `BoundTasksOnTheirWorker` needs `Placed` on
top: a binding once made is kept (`NextBindingKept`), and whatever a step adds to
a list, a hand or a running task is right for the binding of its tag
(`PlacedIsKept`, the one lemma that all steps go through).

**`DispatcherCountProofs`.** Each part has an invariant of its own on top of `IInv`.

- `BindingsConsistent`: `Counted`, which adds to it that the tags bound to a worker
  are finite in number, so that a step that moves one changes their number by one.
- `EveryTaskAtOnePlace`: `AtOne`. A place is the queue, a hand, a list or the task
  being run (`At`), and each place has a task once. Most steps take a task from one
  place and put it in another; `Moves` says which, and there is one lemma for each.
  `NextCounts` sums up what a step is to the counters: it gives out one task,
  ends one, or neither.
- `UsageCountsInFlight`: `Counting`, by cardinalities over `NextCounts`. The test
  for 0 in `taskFinished` needs it in turn: a task that ends is counted.
- `CustomTagsRespected`: no invariant but these; the steps that give out a task ask
  `HasRoom` of the counter, and the counter is right.
- `SubpoolsWithinCapacity`: for intensive tasks it holds whatever is set
  (`IntensiveWithinCapacity`). For a tag it is proved for `NewCapacities` and
  `NewTagCapacities` empty (`SubpoolsKept`), as in the run that checks it: a capacity
  that is lowered does not take back the tasks that are out, so the property is not
  true without the assumption. What is true then is `CustomTagsRespected`.
- `UnboundPoolServed`: that a worker has one task at a time and one that waits is
  available (`OneTaskPerUnboundWorker`, invariant `Loaded`) holds whatever is set.
  That nothing that could run is left in the queue is proved under `NothingSet`, that
  no capacity is set and no tag is paused; worker counts to pre-heat are arbitrary.
  It is finding 3 that makes it necessary: resuming a tag, or raising a limit, calls
  `schedule()` once at most. The invariant is `Served`: for every set of queued tasks
  that the workers and the limits allow to be given out together (`Givable`) there
  are as many threads in `schedule()` or on their way there. That there is one
  thread when there is such a task would not be inductive, because `schedule()`
  returns after the first task it gives out, and another may be left. `Skipped`
  is what the loop contributes: what it has passed by cannot be given out, since only
  the end of a task makes room, and that needs the lock.

**`ShutdownProofs`.** `WorkerImplemented`: `ShutdownSpec => Spec` of `Worker`,
because each step is one of `Worker`'s or changes nothing of it. So
`WorkerProofs` holds of a worker whose dispatcher is destroyed around it
(`WorkerKept`), and its types need not be proved again. `MainLockExclusive`
(`OneHolder`) and the types of what is added rest on an invariant that is
inductive together with `TypeOK`: the flag is up exactly when one holder is
`locked` (`MutualExclusion`), and the destructor, once it has begun to poison,
holds the lock or has returned (`DestructorHasLock`). A holder that gave up is
why `Unlock` has to ask: the mutant `UnlockAnyway` breaks it.

**`DispatcherQueueProofs`.** For `TasksList` alone, `IteratorStaysValid`: under any
sequence of `insert`, `begin`, `++` and `erase` the iterator is at an element or at
the end. It is inductive with the types of the lists; `++` and `erase` need that
`FirstKey` finds a list which is not empty (`FirstKeyFilled`), and that a set of
priorities has a least one, which is the well-foundedness of the naturals
(`Least`). For the dispatcher, `DispatcherImplemented`: `QueueSpec => Spec` of
`Dispatcher`. So its theorems hold with the lists, for one `BoundTasksStayInLists`.
`LoopIteratorValid`: the iterator's validity for any tasks and priorities, by the
same lemmas, one for each step. `ListsAreTheQueue`: the invariant
is `Aligned`, that there are offsets, one for each priority, at which the lists lie in
the queue (`Fits`), and with which the iterator is where the loop is (`Stands`). That
the queue is in order of priority follows from the offsets and is what makes
it inductive: an insertion moves the offsets of all later priorities up by one
(`InsertFits`), a removal moves them down (`EraseFits`), and the first list with
something in it is the one that the offset says (`NextList`), which is what
`begin`, `++` and `erase` need. The offsets are counts of tasks (`OffsetsCount`), so
the property can name them (`Before`).

**`CombinatorsProofs`**, on top of `CallProofs`. `IterationInOnePlace`
(`OneIteration`), `ClustersAreWaitedFor` (`ClustersWithinTheirManager`) and
`TypeCorrect`, for any number of threads, workers and futures, and any programs that
are as `ProgramsCallTheLibrary` says: containers of any length, functions that
answer in any way, callbacks on callbacks. Neither property is inductive, since a
call can turn into an iteration or a cluster from far away: the loop of a sequence
may be a call that a client has yet to make, a callback, a thread in the middle of
registering two callbacks, or one that a fill has just woken. The invariant is
`IInv`, of the calls at all their places (`Held`):

- `AllFine`: every call is one that the library makes, with futures, lengths and
  functions that fit (`Fine`). It gives the other parts their cases.
- `Custody`, of the futures whose promise one call alone has (`PrivateFutures`): what
  may fill one is a part of that call (`InParts`); what may fill it now is at one
  place (`OnePlace`) and nowhere once it is filled (`NotYet`). A loop that stops at
  a future that is not filled registers twice, for the value and for the failure,
  and only one of the two is called. `Guarding` says so: the callback for failures
  is either of no use, because the future has a value, or waits next to the one
  with the iteration. Without it the thread that fills the future between the two
  registrations would give the iteration a second place.
- `Managed`: for each cluster there is the call that started it, and when that has
  finished its own share it has a `wait` for this cluster's promise left to do, above
  the `conclude` that returns (`tasks.h:212`). The property says only that the
  manager is there; that it waits for *this* cluster is what keeps it there.

`CallProofs` has one lemma for each action, about the calls alone: which calls take
the place of the one that is made, and that they keep what the invariant says of it
(`Turns`). `CombinatorsProofs` moves them: there are few ways in which a step changes
places (`StepKinds`: calls on top of a stack, a callback filed, a task queued, a task
taken, a future filled with its callbacks woken), and each keeps the invariant for
whatever `Turns`. That clusters have promises of their own is what the library
guarantees by making them; that a range is not cut into more of them than were
made is arithmetic over `Capacity`, proved with the rest.

Only model-checked: `EachFromItsOwn`. That a sequence of futures is filled with the
sequence of their values, or `repeat` with what its steps make of the start, is
induction over the data, which is out of the prover's reach (section 2, `Answers`).
Liveness stays with TLC, because the prover has neither fairness nor `ENABLED`:
that each delivery comes (the other part of `ImplementsContract`), `WaitersReleased`,
`EveryTaskFinishes`, `MainLockReleased` and `EveryAnswerGiven`.

## 6. What is not modelled

- Destruction with several workers: the loop over them does to each what `Shutdown`
  does to one. Tasks that are queued, or given to a worker that is poisoned, are
  dropped there as in the code, and their futures are never filled. A client that
  has chosen a worker which is then deleted uses memory that is gone: undefined,
  and the client stays where it is (`HandOver`).
- `setIdleLoopsAmount`, which tunes how long a worker idles, and the
  getter `instantUsage`, which changes nothing. The pauses between two tries of a
  `SpinLock`.
- Failures of different types, which `mapFailure`, `zip` and tasks that return
  futures convert, are one kind of value here.
- Of the containers: the overloads for Qt's containers, multimaps, `reserve()`,
  `findIf`, which nothing in the library calls, and the loops with an index. Of
  these `run` over a container calls `map` (`tasks.h:143-146`); `runAll` has what it
  does there, a function for each element. In
  `sequence` containers are sequences: how iterators of a list or a map move is
  left out. A subpool for `clusteredRun` has room for one
  task at least (`SubPoolIsNotEmpty`): with `setBoundCapacity(0)` before any
  binding the code divides by zero (`tasks.h:181`).
- The throwing move of a value while a promise is filled: the mutant
  `FillValueLost` shows what `CompletedHasValue` would say of it.
- Allocations that fail. The code expects it where a callback is filed
  (`future.h:275-279`, `303-307`: another future, which has failed, is returned),
  where a container is copied or grows in `sequence` (`future.h:811-817`), where a
  task is queued (`tasksdispatcher.cpp:320-326`: it runs at once, with `mainLock`
  held), where a worker is made (lines 435 and 441-443: as if none were possible)
  and where it is given a task (line 520: the task is dropped and still counted as
  usage).
- `SimpleFuture`: aliases. The usage counter of futures: one counter of
  debug builds. Qt support, and Qt's event loop in `wait()`: compiled on request,
  and mostly Qt's own. Benchmarks, the docker image and the build files.
- Memory: that a list or a vector stays where it is while other threads use it.
  Workers are numbers here. `allWorkers` may move, when `setCapacity` reserves more
  than the constructor did (section 4); what a thread then does that indexes it
  outside the lock is undefined.

## 7. Plan

The order is by how much can go wrong.

| | module | what it models | what it is to show |
|---|---|---|---|
| done | `Future`, `Dispatcher`, `Worker` | the core | section 3 |
| done | `Callbacks` to `Combinators` | what is built on the core | section 3 |
| done | `ClusteredRun` | several managing tasks on one subpool | finding 7 |
| done | `TasksList`, `DispatcherQueue` | the map of lists with its iterator | it is the sequence `Dispatcher` uses |
| done | `SpinLock`, `Shutdown` | a lock that is given up, and the end of a dispatcher | mutual exclusion; the destructor gets on |
| done | `Containers`, `Morphisms` | traversal, inner morphisms, `andThen`, `zip` | the answers of `EachFromItsOwn` |
| done | `CallProofs`, `CombinatorsProofs` | any programs, threads and futures | one iteration; clusters are waited for |
| 1 | `Shutdown` | several workers, and what is left in the queue | which futures are never filled |
| 2 | `Combinators` | containers whose iterators do not survive a move | `repeat.h:177` |

Theorems to come: `EachFromItsOwn` for the calls whose answer is no iteration (`map`,
`recover`, `andThen`, ...). It needs that no failure is left with a thread between
two calls, which is true only of programs without finding 6.
