# xdispatch2: TLA+ specification, model checking and proofs

xdispatch2 is a C++ library in the style of Grand Central Dispatch: queues,
groups, timers, socket notifiers and signals over exchangeable backends.  This
directory specifies the *naive* backend, the one that is implemented in this
repository from mutexes, condition variables and atomics, and the parts of the
library core it is built with.  The modules are checked with TLC; the safety
properties are also proved with TLAPS, for any number of threads and operations.

`PROJECT.json` lists the components, the runs, the source lines every definition
stands for, the hazards, the findings and the theorems.

## 1. The system

### 1.1 Components

| Component (under `src/`) | State | Operations | Correct if |
|---|---|---|---|
| `naive_operation_queue.cpp`, the job list behind a serial queue | `m_jobs`, `m_is_attached`, `m_active_drain`, the notify operation | `attach`, `async`, `detach`, `drain`, destruction | jobs run one at a time, in order, each once, and the object outlives every raw `this` handed to the pool |
| `naive_serial_queue.cpp` | a reference to one operation queue | construction, `async`, `apply`, `after`, destruction | as above, for whoever drops the last reference, a job included |
| `naive_operation_queue_manager.cpp` | the set of live queues, one `manual_thread` | `attach`, `detach` posted to that thread | a queue stays registered until its detach operation has run |
| `naive_threadpool.cpp`, `naive_semaphore.cpp` | buckets of operations, a counting semaphore with waiters, `m_active_threads`, `m_idle_threads`, `m_max_threads` | `execute`, `schedule`, the worker loop, block scopes | no operation is stranded, permits and counters are exact |
| `lightweight_barrier.cpp` | one atomic pointer to a waiter object | `wait`, `wait(timeout)`, `complete`, `was_completed`, destruction | a one-shot event without lost wakeup and without use after free |
| `naive_group.cpp`, `naive_consumable.cpp`, `naive_operations.cpp` | a chain of consumables: counter and barrier each | `async`, `wait`, `notify` | a wait covers what was in the group, and returns |
| `cancelable.cpp`, `signals.cpp`, `signals.h`, `signals_barrier.h` | handler list and mutex per signal; tri-state, barrier and pending count per handler; the connections of a `connection_manager`; values and barrier of a `signal_barrier` | `connect`, emit, `disconnect`, `skip_all`, destruction; `reset_connections`; `wait` | no emit is lost, a disconnected handler is quiet, a barrier outlives its handler |
| `naive_timer.cpp` | `m_running`, interval, handler, cancelable | `resume`, `suspend`, `cancel`, the loop on the pool | every loop calls the handler, calls do not overlap, silent after `cancel`, freed when abandoned |
| `naive_socket_notifier.cpp` | resume counter, cookie, handler, cancelable | `resume`, `suspend`, `cancel`, the `select` loop | one current loop per notifier, and as for a timer |
| `waitable_queue.cpp` | list of operations, `m_active`, `m_completed` | `async`, `wait_for_one`, `wait_for_all`, `apply` | a wait never deadlocks and never returns early |
| `naive_manual_thread.cpp` | queued operations, `m_cancelled` | `execute`, `run`, `cancel` | nothing posted is lost, `cancel` ends `run` |
| `naive_parallel_queue.cpp` | none of its own | `async`, `apply`, `after` | every iteration is executed |
| `queue.cpp`, `group.cpp`, `backend.cpp`, ... (facade) | none | forward to the backend | |
| libdispatch backend, Qt's own timers, notifiers and pool, thread utilities, moodycamel queue | | | outside of this project, see 6 |

### 1.2 How they interact

A serial queue puts one *notify operation* on the threadpool whenever its list
becomes non-empty; a pool thread that executes it drains up to `kMaxOpsPerDrain`
jobs and leaves a new notify operation behind if there are more.  The queue's
mutex is released around every job, so jobs may submit to, share and drop their
own queue.  Dropping the last reference posts a *detach operation* behind the
jobs that are left; only when that has run does the manager's thread give up its
reference.  Groups, timers, notifiers and signals wrap operations before they
submit them to some queue; whoever waits does so on a `lightweight_barrier`.
Waiting pool threads announce themselves with a `block_scope`, which lets the
pool grow.

### 1.3 What is hard

Nearly everything happens between threads: state is read under a mutex and used
after it was released (`drain`), counters that belong together are separate
atomics (`schedule`, the semaphore), notifications are skipped because somebody
else is believed to be awake (`async_unsafe`, `semaphore::release`), objects are
freed by the thread that happens to drop the last reference, barriers live on the
stack of the waiting thread, timeouts race with the events they wait for (worker
expiry, `group::wait`).  Nothing is persisted and no messages leave the process,
so there is no crash recovery and no unreliable delivery.  `PROJECT.json` lists
the hazards by line, each with the properties that would catch it going wrong or
a note why none does yet.

## 2. Modules

| Module | Role |
|---|---|
| `SerialExecutor` | abstract: a FIFO that executes one entry at a time |
| `OperationQueue` | serial queue, its ownership and the queue manager |
| `ThreadPool` | threadpool and semaphore |
| `OneShotEvent` | abstract: an event that is set once, and calls that take effect at one instant |
| `LightweightBarrier` | the barrier, shared or local to the waiter |
| `Group` | group, consumables and `apply()` |
| `WaitableQueue` | the queue whose waiters execute what they wait for |
| `Signals` | one connection of a signal and its cancelable, also in a `connection_manager` or a `signal_barrier` |
| `EventSource` | timer, `after()` and socket notifier |
| `ManualThread` | the pool of one thread behind the main queue and the queue manager |
| `*Proofs` | the inductive invariant, lemmas and theorems about the module they are named after |
| `MC*` | instances for TLC |

Common conventions.  An action is one atomic access, or one critical section, as
each module's header says; between two actions of a thread any other thread may
run.  `pc` (and `cpc`, `exec`, `wpc`) say where a thread is; the labels are named
after what it does next.  A `Goto` moves it.  Operators whose comment starts with
"Mutant" are faulty variants of the definition that follows; they are not part of
the specification and show that the properties notice the fault.

**OperationQueue.**  `jobs` is `m_jobs`; a job being executed leaves a null
placeholder at its head, exactly as `std::move(m_jobs.front())` does.  One action
per critical section of `m_CS` and per step outside of it: `DrainBegin` /
`ProcessJob` / `ResetJob` / `DrainNext` are one turn of `drain()`'s loop.
`holders` are the owners of the `queue` (clients, and operations that captured
it), `queueRefs` the `shared_ptr`s to the `operation_queue` (the
`serial_queue_impl`, the attach operation posted to the manager, the manager's
set).  Whoever drops the last of either runs the destructor (`Detach`, `Release`,
`Destroy`) on its own thread, also in the middle of a drain.  The destructor's
polling loop is `Destroy` with its own repetition as a stuttering step.  Creation is
`MakeSerialQueue` (the constructor, with `Attach`) and `Create`, which hands the first
reference out.  `PickUp` stands for any `ithreadpool`: a pool executes the notify
operation on some thread, Qt's `ThreadProxy` always on the one that owns the event loop,
which is the same with a single worker.

**ThreadPool.**  `count`, `waiters`, `lock`, `signalled` are the semaphore;
`buckets` the moodycamel queues, of which there are four for the five priorities
(`Bucket`); `Async` submits through a global queue, which knows only four priorities
(`GlobalQueue`).  `execute()` is `Enqueue`,
`Release`, `NotifyOne` and the four steps of `schedule()`; a worker runs `Loop` to
`Finish`, with the wait of `semaphore::wait_acquire` spelled out (`Test`, `Enroll`,
`Predicate`, `Wake`, `Timeout`) because that is where wakeups get lost.  `Run`,
`NotifyThreadBlocked` and `Unblock` are the `block_scope` of an operation that waits for the operations in
`Needs`.  A worker object whose thread has ended can be spawned again.

**LightweightBarrier.**  `owner` is `m_owner`; the waiter object is named after the
thread that created it.  `SpuriousCas` says whether `compare_exchange_weak` may
fail on its own, as it may on LL/SC processors.  `scope` chooses between a shared
barrier and one on the stack of its only waiter, which is freed the moment
`wait()` returns.

**Group.**  Consumables are numbered along their chain.  `pos` and `target` walk a
waiter through it.  An operation is counted in, executed and counted out in the
steps of `group_impl::async` and `consuming_operation`.  `dry` and `late` are
history: which links ran empty, and which operations were added to such a link.
`program` chooses between the life of a group and one `apply()` on a queue, serial
or parallel, whose consumable is created with the count of all iterations
(`Apply`) before the first is queued (`ApplyAsync`).

**WaitableQueue.**  `operations`, `completed` and `active` are the members of
`waitable_queue_operation`, `posted` the copies of it on the inner queue, which may
be executed by several workers at a time or not at all.  `DrainOne`, `WakeDrain` and
`Finish` are `drain_one()`; `Loop` is the loop of `wait_for_one()` between two waits,
with the repeated calls of `wait_for_all()`, which keep the mutex, folded into it.
`expected` and `baseline` are history: what the wait that a thread is in has to see.

**Signals.**  A connection is made once: `connect()` returns a new one each time.
`cpc` is where a thread is in a call on the signal, `exec` where a worker is in an
invocation of the handler; a call made by the handler itself (`Inside`) disables
without waiting.  `usage` says what the program does: `owner`, it skips or destroys the
signal; `handler`, the handler emits, disconnects, skips or resets its manager, as the
tests of the repository do; in the other two the connection is a scoped one: owned by a
`connection_manager` (`manager`), which drops it with its own mutex (`managing`) held, or
by a `signal_barrier` (`barrier`), whose handler stores the values, disconnects itself
(`Raise`) and then completes the barrier (`Raised`), upon which the thread in
`BarrierWait` may destroy everything, `m_values` first (`BarrierDestroy`, `BarrierFree`).
A connection may be disconnected after its signal is gone; it has expired then.
`Reset` stands for `reset_connections()`, `~connection_manager` and
`reset_connections_with()`, also when a `QObject` drops its connections to the signal.

**EventSource.**  A timer, the timer a `queue::after()` or a `waitable_queue::after()`
makes for itself, and a socket notifier are one module because they share their
shape, with a constructor for each (`MakeTimer`, `MakeNotifier`; `After` starts the timers
that own themselves).  `resume()` puts a loop on the pool (`PostLoop`), the loop tests whether it
goes on (`TimerTest`, `NotifierTest`), queues an operation that calls the handler and
waits for it on a barrier of its own stack (`BarrierWait`).  That operation goes
through `Take`, `Enter`, `FinishCall`, `Complete` and `Leave`; it refers to the barrier
and to the cancelable of the source but owns neither.  `counter` is `m_running` of a
timer, which may become negative, or `m_resume_counter` of a notifier, which may not
but for `cancel()`.  The source is referenced by its owners, by its loops and, for
`after()`, by its own handler (`selfOwned`); `Keep` frees it with the last reference.
`SelectReturns` chooses an error or a ready socket at will, its timeout is a step of
the loop.

**ManualThread.**  `Test` is the unprotected test of `m_cancelled`, `Lock` the critical
section that swaps the batch or goes to sleep, `StartThread` and `Exec` the two ways into
`run()`, `Wake` and `WakeSpuriously` the end of
`m_cond.wait()`, which is not repeated.  `Destroy` and `Join` are `~thread`.

Refinement.  `OperationQueue` implements `SerialExecutor` (the placeholder is
hidden by the mapping), `WaitableQueue` its safety part, and `LightweightBarrier` implements `OneShotEvent`.  The
abstract specifications carry fairness: work queued is done, and a call on an
event that is set returns.  `Group`, `Signals` and `EventSource` use the barrier as the
one bit that `OneShotEvent` says it is.

## 3. Runs

| Run | Instance | What it shows |
|---|---|---|
| `operation_queue` | 2 clients, 2 workers, 3 jobs, 2 jobs per drain | `MutualExclusion`, `OneWakeup`, `NoUseAfterFree`, `NoSelfDestruction`, `NoDroppedJob`; every job is executed, in order (`ImplementsSerialExecutor`, `EveryJobIsExecuted`); a dropped queue is freed (`DroppedQueueIsFreed`) |
| `threadpool` | 2 clients, 3 workers, 2 operations of any priority, limit of 1 thread, one operation waits for the other | `PermitsMatchOperations`, `CountersExact`, `NoLostWakeup`, `EveryOperationIsExecuted` |
| `threadpool_assert` | 2 workers, 2 operations | the assertion of `schedule()` can fail (finding 1) |
| `barrier` | 3 threads, shared and local | `PreviousIsOwner`, `NoUseAfterFree`, `ImplementsOneShotEvent` |
| `group` | 2 operations or iterations, 1 waiting thread, 1 notification, 3 waits | `ResourcesExact`, `WaitCoversOperations`, `EveryWaitReturns` |
| `group_reuse` | 2 operations, 1 wait | a wait returns early on a group that ran empty before (finding 2) |
| `waitable_queue` | 2 users, 2 workers, 2 operations | `ImplementsSerialExecutor`, `WaitForAllCovers`, `WaitForOneWaits`, `EveryWaitReturns` |
| `signals` | 2 users, 2 workers, serial queue, 3 emits, 2 skips, both modes, four usages (below) | `NoMissedEmit`, `FirstDisconnectIsQuiet`, `EveryDisconnectReturns`; `BarrierOutlivesHandler`, `BarrierKeepsValues` |
| `signals_parallel` | the same on a parallel queue | an emit is missed (finding 3) |
| `event_source` | each program, 1 user, 2 workers, 2 loops, 4 calls | `CallsAreExclusive`, `FirstCancelIsQuiet`, `SourceOutlivesCalls`, `OneCurrentLoop`, `AbandonedSourceIsFreed`, `EveryResumeFires` |
| `event_source_release` | `after()` alone | the cancelable is used after its timer was freed (finding 4) |
| `manual_thread_cancel` | 2 operations, 2 calls of `run()` | a `cancel()` is lost (finding 5) |

### 3.1 Bounds, and why they are enough

For the safety properties the theorems of section 4 remove the bounds; the liveness
properties rest on them.

* `operation_queue`: `MaxOpsPerDrain = 2` with 3 jobs (and the detach operation)
  makes a drain end by budget, by an empty list and with jobs left; 2 clients can
  submit, share and drop against each other; 2 workers are what it takes to
  violate mutual exclusion.
* `threadpool`: with one thread as the limit and one blocking operation the pool
  grows, saturates and shrinks.  The real limit is twice the number of processors; a
  higher one is beyond TLC here and only postpones the same races, and the theorems
  hold for every limit.  3 workers are as many as 2 operations and one
  blocked thread can make it spawn at a time, so spawning is never held up by the
  bound.
* `barrier`: three threads allow the installer, a second waiter that meets it, and
  the completer, with every one of them also polling.
* `group`: two operations on different links, and three waits by two waiters, let a wait
  time out, leave its link behind and be covered by the next one.
* `waitable_queue`: two users can wait for each other's operations while two
  workers compete with them; two operations are one that is being executed and one
  that is queued behind it, also by `apply()`.
* `signals`: the usages are `{owner, handler}`, `{manager}`, `{manager, handler}` and
  `{barrier}`; a handler that may make calls need not make any, so smaller ones are
  included.  Three emits are what it takes for one to be running, one pending and
  one merged in a batch.  Connections of one signal share only the mutex; one
  connection with several copies is enough to race `disconnect`.
* `event_source`: the user and the handler both call the source, on a serial and on
  a parallel queue; four calls are resume, suspend, resume and cancel, the shortest
  way to two loops and their end.  A third loop takes two calls more and has nothing to meet that
  the second has not.  `Loops` bounds the loops that exist at a time: `resume()` is not enabled
  while it would need another.

`CHECK_DEADLOCK FALSE` is set everywhere because a finite program that uses the
library may simply come to its end.  Getting stuck halfway is what the liveness
properties exclude.

### 3.2 Fairness

Weak fairness of every thread's next step, where it has one: operating system
threads that can run do run, a notified thread wakes, and operations return.  The
application is not obliged to do anything (submit, drop, connect, emit, wait,
resume, cancel), and no socket has to become ready.
The inner queue of a `waitable_queue` is under no
obligation either: the class promises that waiting "cannot deadlock even on systems
heavily competing for CPU resources".  Timeouts may but need not happen in `ThreadPool` and `Group`, so that no progress
rests on a timeout; a finite timeout of the barrier is eventually reached, and so are
the timeout of `select()` and the end of a timer's sleep.
Mutexes need no strong fairness because calls that could keep one busy forever
are bounded (`MaxSkips`, `MaxEmits`, `MaxCalls`).

## 4. Proofs

Each `*Proofs` module defines an inductive invariant `IInv` as a conjunction of named
parts, proves that `Init` implies it and that every action keeps it (a lemma per action,
or per kind of action, with a step per part it can disturb), concludes
`Invariance == Spec => []IInv`, and derives the properties.  Every `IInv` was checked
with TLC on an instance before it was proved.

The proofs hold for every value of the constants that the named assumptions of the
modules allow.  These say that sets of different things are disjoint, that bounds are
numbers, and where something is counted that it is finite: the clients and workers of a
pool, the operations of a group, the workers of a signal and the loops of a source.  The
clients, workers and jobs of a serial queue, the threads at a barrier and the users and
operations of a waitable queue may be infinitely many.

### 4.1 `OperationQueueProofs`

From `ThreadsAssumption` (clients, workers and the manager are different
threads), `EntriesAssumption` (jobs, the detach operation and null differ) and
`BudgetAssumption` (a drain has a budget).  `Invariance` proves `Spec => []IInv`;
`TypeCorrectness`, `Exclusion`, `WakeupAccounting`, `MemorySafety`,
`DestructorPlacement` and `NothingDropped` follow from it.  `IInv` is

* `TypeOK`;
* `Wakeups`: if the list is empty there is no notify operation and no drain,
  otherwise exactly one of the two: `MutualExclusion` is not inductive without
  counting the wakeups that are still on the pool;
* `Placeholder`: the head of the list is null exactly while a worker is between
  two critical sections of its drain, and `remaining` never exceeds the list;
* `DetachIsLast`: the detach operation is only ever the last entry, after which
  nothing is submitted;
* `ManagerOrder`: attach precedes detach on its way through the manager's thread;
* `Ownership`: who may hold which reference in each phase of the teardown, and
  that the phase has only one thread in it;
* `Lifetime`: a queue in destruction is not drained by the destroying thread and
  has no executable job, a freed one has nothing left.

`Refinement` proves that every step is a step of `SerialExecutor` or a stutter.

### 4.2 `LightweightBarrierProofs`

From `OwnersAssumption`, for `~SpuriousCas`.  `IInv` consists of `TypeOK`,
`PreviousIsOwner` (a thread past the installation has the address every other
thread has), `CallsMatch`, `OwnerStays`, `TrueMeansCompleted` (nobody is told
"completed" before a `complete()` was called), `LocalBarrier` (only the owner of
a local barrier waits on it) and `NoUseAfterFree`.  `TypeCorrectness`, `MeetingPoint`,
`LocalLifetime` and `Refinement` follow.  The hypothesis is needed: with
`SpuriousCas = TRUE` in `MCLightweightBarrier.cfg` TLC finds `PreviousIsOwner` violated.

### 4.3 `ThreadPoolProofs`

From `PoolThreadsAssumption`, `MaxThreadsAssumption` and `NeedsAssumption`.  None of the counted properties is inductive
on its own: a permit is taken at one place and an operation at another, and a counter is
changed next to, not together with, what it counts.  `IInv` has

* `TypeOK`, `Places` (each kind of thread stays in its code) and `Busy` (who has an
  operation);
* `Bucketed`: an operation is in one bucket only, so that taking it makes the queued ones
  one less;
* `Locking`: `m_CS` is kept from the failed test to the last one before sleeping, and only
  sleepers are notified;
* `Ledger`: five equations that give the semaphore's count, its waiters, the idle and the
  active threads and the limit in terms of the numbers of threads at certain places;
* `Wakeups`, which is `NoLostWakeup` over the same numbers.  It rests on the equation for
  the waiters: a client that reads zero knows that nobody sleeps.

`NumberAfterGoto` says what a thread's move changes in such a number.  `Balance` asks of an
action that it changes the counters by as much, `Covered` that it takes no more from those
who are on the way to a permit than it takes permits; `MoveKeepsIInv` shows that this is
enough, and every action is an instance (`LoadMax`, which starts a thread, moves two).
`PermitAccounting`, `ThreadAccounting` and `WakeupsAreKept` state the properties of the
run.  `SearchFinds` adds that a worker with a permit never searches empty buckets ("There
has to be such operation as we acquired the semaphore") and `LimitIsRestored` that block
scopes give back what they added.

### 4.4 `GroupProofs`

From `OperationsAssumption` (finitely many), `MaxSwapsAssumption`, `WaitersAssumption`.
`IInv` has `TypeOK`, `ResourcesExact` and

* `Placed`: operations have a link that exists already, and the link of an `apply()` is
  used by nobody else, which makes its initial count right;
* `Dried`, `DryIsExecuted`: a barrier is completed behind the last resource only, and then
  everybody on that link is executed, or came late;
* `Awaited`, `Passed`: what a waiter expects lies on the links up to its target, and is
  executed on those it has behind it.

A waiter may leave a link for two reasons, no resources or a completed barrier; the first
is safe by `ResourcesExact`, the second by `DryIsExecuted`, up to late operations, which
are finding 2.  `CountsAreExact` and `WaitIsComplete` state the properties of the run.
`ApplyIsComplete` shows that for `apply()` the promise holds without exception, and
`NeverTerminates` that the assertion of `consume_resource()` holds.

### 4.5 `WaitableQueueProofs`

From `WaitableThreadsAssumption`.  `IInv` has `TypeOK`, `Exclusive` (`m_active` is exactly
whether some thread executes an operation), `Covered` (what a wait has to see is executed or
outstanding) and `Baselines` (as long as a `wait_for_one()` has seen nothing executed there
is no completion to take and something outstanding).  `StepKinds` sorts the actions into
those that submit, start or finish an operation and those that do not touch any, so that
`Refinement`, `WaitForAllIsComplete` and `WaitForOneIsCovered` treat four kinds of steps.

### 4.6 `SignalsProofs`

From `SignalThreadsAssumption`, `SignalWorkersAssumption`, `ModesAssumption`,
`UsagesAssumption` and `BoundsAssumption`; for serial and parallel queues, except that
`EveryEmitIsSeen` assumes `SerialQueue`, without which it is finding 3.  `IInv` has `TypeOK` and

* `Locking`, `Used`: who may be where, by mutex and usage, and who holds a mutex while
  it waits for the handler;
* `Scope`, `Cancelling`: the tri-state of the cancelable against the invocations inside of
  it, and what the first `disable()` has established when it returns;
* `Managed`, `Waited`, `Barrier`: the same for a connection in a `connection_manager`,
  whose mutex makes later callers wait for the first as long as the handler leaves the
  manager alone, and for a `signal_barrier`, whose handler disables itself before it
  completes the barrier;
* `Pending`: `m_pending` covers the queued invocations, those about to be queued and those
  about to be taken back, and on a serial queue is exactly their number;
* `Unseen`: an emit that no call has seen yet has one to come.

`QuietAfterDisconnect`, `BarrierLifetime`, `ValuesKept` and `EveryEmitIsSeen` follow, and
`DeadlockNeedsHandler`: a state of `Deadlocked` (section 5) is reached only by programs
whose handler makes calls while others skip or destroy the signal, or reset the manager.

### 4.7 `EventSourceProofs`

From `SourceThreadsAssumption`, `LoopsAssumption`, `ProgramsAssumption` and
`MaxCallsAssumption`, for timers, `after()` and notifiers on serial and parallel queues.
`IInv` has `TypeOK` and

* `Counts`, `Creation`: the counter and the cookie are bounded by the calls made, and
  nothing happens to the source of an `after()` before its only `resume()`;
* `Handover`: a loop that waits for its barrier has given it to exactly one operation,
  queued, executed or done.  This is what keeps the source alive below an operation that
  does not own it;
* `Scope`, `Cancelling`: as for signals;
* `Lifetime`: what was freed had no references;
* `Cookies`: a resumed notifier has exactly one loop with its cookie, another none.

`ExclusiveCalls`, `QuietAfterCancel`, `SourceLifetime` and `CurrentLoop` follow.

### 4.8 Model-checked only

The liveness properties (`EveryJobIsExecuted`, `DroppedQueueIsFreed`,
`EveryOperationIsExecuted`, the two of the name `EveryWaitReturns`,
`EveryDisconnectReturns`, `AbandonedSourceIsFreed`, `EveryResumeFires`) and the fair halves
of the refinements by `OperationQueue` and `LightweightBarrier`: they need fairness and
`ENABLED`, which are out of the prover's reach.  The safety halves are the two theorems
`Refinement`.  The findings are counterexamples and have nothing to prove; `ManualThread`
is there for its finding.

## 5. Findings

1. **`schedule()`'s assertion can fail** (`naive_threadpool.cpp:327`).  A worker is
   started before it is counted; it can be idle, and counted as such, before.
2. **A group that ran empty is not waited for any more** (`naive_consumable.cpp:73`):
   the barrier of a consumable is completed for good the first time its count drops
   to zero.
3. **Missed emits on a parallel queue** (`cancelable.cpp:55`): an invocation that
   overlaps another one is dropped, also in `single_updates` mode.
4. **A handler's operation may outlive its timer or notifier** (`naive_timer.cpp:111`):
   it completes the barrier of the loop inside of its `cancelable_scope`, and leaves the
   cancelable after that.  By then the loop can have ended and freed the source.
5. **A `cancel()` may be lost** (`naive_manual_thread.cpp:64`): `run()` tests the flag
   without the mutex and then waits without a predicate.  `~thread` hangs in `join()`.

Each is a run of its own that ends in a counterexample, and `PROJECT.json` quotes the
sentence of the repository it contradicts.  The passing runs state the strongest
form that does hold (`WaitCoversOperations` excludes late operations,
`FirstDisconnectIsQuiet` speaks of the call that did disable the handler,
`signals` uses a serial queue, `SourceOutlivesCalls` ends where the barrier is completed).

Met while modelling, and without a run of their own:

* `compare_exchange_weak` is used without a loop (`lightweight_barrier.cpp:109`): where
  it fails spuriously `wait()` dereferences null, see 4.2.
* `wait_for_all()` leaves `m_completed` alone if its operations are done already
  (`waitable_queue.cpp:109`); a later `wait_for_one()` takes them for its own.
* `skip_all()` and `~signal_p` wait for the handler with the signal's mutex held
  (`signals.cpp:189`, `219`), a `connection_manager` with its own (`signals.cpp:37`).  A
  handler that at that time emits, disconnects or skips, or resets the manager, waits for
  that mutex: both wait forever, although `signals.h:214` calls `disconnect()` "safe to be
  invoked recursively".  `Deadlocked` describes these states; without it
  `EveryDisconnectReturns` is violated for `{owner, handler}` and for `{manager, handler}`.
  With it the property says that nothing else keeps such a call from returning.
* A handler that resets its own manager, as `tests/signal_tests.cpp:118` does, only marks
  itself as disabled and gives the manager's mutex up: another thread's reset then finds
  nothing to wait for and returns while the handler is running.  `FirstDisconnectIsQuiet`
  therefore speaks of every reset only for managers the handler leaves alone.
* The second of two concurrent `disconnect()` or `cancel()` calls does not wait for the
  running handler (`cancelable.cpp:43`), hence "first" in the two properties.
* `skip_all()` disables handlers for good.  "When the signal gets emitted for the next
  time, new calls will be queued" (`signals.h:227`) is true, but the calls do not enter the
  handler.  `NoMissedEmit` is about handlers that are not disabled.
* The FIXME at `naive_socket_notifier.cpp:90` fears that a `resume()` right after a
  `suspend()` has two loops call the handler at the same time.  It cannot happen: the
  `suspend()` changes the cookie, so that the old loop ends at its next test
  (`OneCurrentLoop`), and should its last call still be under way, the cancelable keeps
  the two apart and drops the later one (`CallsAreExclusive`).
* A cancelled timer that is resumed loops without ever calling its handler, and a
  periodic timer whose last copy is dropped runs on.  `m_running` becomes negative if
  `suspend()` is called more often than `resume()`, which then takes as many calls to undo.
* On a parallel queue the call of a second loop may overlap that of the first and be
  dropped, so that `EveryResumeFires` speaks of serial queues.
* The loop of a notifier compares the result of `select()` with `EBADF`
  (`naive_socket_notifier.cpp:143`), which POSIX returns in `errno`: a closed socket is
  polled again and again.
* The timer of `waitable_queue::after()` is captured by its own handler and never freed.
* Two sources whose handlers cancel each other wait for each other.

## 6. Abstractions, and what is not modelled

* Memory is sequentially consistent.  The acquire, release and consume orders of
  the semaphore and of the counters are not examined.
* The moodycamel queue is a linearizable set: an enqueued operation is found by a
  search that starts afterwards.  Order within a bucket is not modelled, the pool promises none.
* Condition variables do not wake up spuriously where the code tests a predicate
  in a loop around the wait anyway.
* Operations return and do not throw; an exception ends in `std::terminate`.
* `~threadpool` is left out: the global pool is leaked on purpose.
* A signal is not used once its destruction has started, but for the `disconnect()` of a
  connection that has expired.  One that locked the expiring connection before would use
  the freed signal; the code does nothing about it and the model leaves it out.
* Connecting and adding the connection to its manager is one step.
* `group::notify()` waits for `milliseconds::max()`.  What the standard library makes of a
  deadline that overflows is not modelled: that wait has no timeout.
* An operation of a `waitable_queue` does not wait on that queue: it would wait for
  itself.
* A `signal_barrier` is constructed in one step.  In the code an emit during construction
  can find `m_connection` and `m_values` not yet constructed.  It may be destroyed at any
  time (`m_values` go before the connection does), but `BarrierOutlivesHandler` speaks of one whose `wait()` has returned true: after a
  wait that timed out the handler may already have given up the connection, so that the
  destructor does not wait for it.
* `latency()` of a timer has no effect in this backend.  `handler()` and `target_queue()`
  are called once, before the first `resume()`.
* A `delayed_operation` never has a consumable in this code base, so none is modelled.
* A parallel queue keeps its pool registered with the queue manager; that is left out,
  as is chaining of signals (`_synchronous_update`): the inner emit runs within the outer
  one, on the same thread, with the outer signal's mutex held.
* Not modelled at all: the libdispatch backend and Qt's pool, timers and notifiers (thin
  layers over libraries that are not in this repository), the operation wrappers of `operation.h`, the choice of
  a backend, names and priorities of threads, tracing, symbol lookup.

## 7. Plan

1. Proofs: what `ManualThread` keeps despite its finding (no operation posted is lost or
   executed twice).
2. Signals: chained signals and several handlers.
3. The destructor of a threadpool that a user created.
