----------------------------- MODULE ThreadPool -----------------------------
(***************************************************************************)
(* The naive backend's threadpool with the semaphore that counts its       *)
(* queued operations: clients execute() operations, workers acquire,       *)
(* search, run and expire, and operations that block let the pool grow.    *)
(*                                                                         *)
(* An action is one access to one of the shared atomics, or one critical   *)
(* section of the semaphore's m_CS.  The counters are sequentially         *)
(* consistent here; acquiring the semaphore is a single step because it is *)
(* one successful compare-and-swap (or one load of zero).  The pool is the *)
(* leaked global one, so that ~threadpool never runs.                      *)
(***************************************************************************)
EXTENDS Integers, FiniteSets

CONSTANTS
  Clients,      \* threads calling execute(), pool threads included
  Workers,      \* worker objects, each reused once its thread has ended
  Operations,   \* the operations that are submitted, each one once
  MaxThreads,   \* initial m_max_threads
  Needs,        \* the operations an operation waits for while it runs
  None

ASSUME MaxThreadsAssumption == MaxThreads \in Nat \ {0}
ASSUME NeedsAssumption == Needs \in [Operations -> SUBSET Operations]
ASSUME PoolThreadsAssumption ==
  /\ Clients \cap Workers = {}
  /\ None \notin Operations \cup Clients \cup Workers
  /\ IsFiniteSet(Clients) /\ IsFiniteSet(Workers)

Threads == Clients \cup Workers

\* queue_priority
Priorities == {"USER_INTERACTIVE", "USER_INITIATED", "UTILITY", "DEFAULT", "BACKGROUND"}

\* The buckets of the pool, 0..bucket_count-1 by falling priority.
Buckets == 0..3

\* The bucket execute() chooses for a priority.
Bucket(p) ==
  CASE p = "USER_INTERACTIVE" -> 0
    [] p = "USER_INITIATED" -> 1
    [] p \in {"UTILITY", "DEFAULT"} -> 2
    [] p = "BACKGROUND" -> 3

\* The priority of the queue that global_queue() returns: there are four of them.
GlobalQueue(p) == IF p = "DEFAULT" THEN "UTILITY" ELSE p

VARIABLES
  count,        \* semaphore::m_count
  waiters,      \* semaphore::m_waiters
  lock,         \* owner of semaphore::m_CS
  signalled,    \* waiting workers that were woken by m_cond
  buckets,      \* m_operations
  active,       \* m_active_threads
  idle,         \* m_idle_threads
  maxThreads,   \* m_max_threads
  pc,           \* where each thread is
  seen,         \* the value of m_active_threads loaded by schedule()
  op,           \* the operation a worker executes
  label,        \* the bucket a worker searches
  executed,     \* history: operations that were executed
  terminated    \* an assertion failed: std::terminate()

semaphoreVars == <<count, waiters, lock, signalled>>
counterVars   == <<active, idle, maxThreads>>
localVars     == <<seen, op, label>>
vars == <<semaphoreVars, counterVars, localVars, buckets, pc, executed, terminated>>

ClientPcs == {"idle", "release", "notify"}
SchedulePcs == {"loadActive", "loadIdle", "loadMax", "countThread"}
\* Workers that hold a permit of the semaphore and still owe it an operation.
PermitPcs == {"woken", "restore", "search"}
\* Workers counted by m_idle_threads.
IdlePcs == {"test", "enroll", "predicate", "waiting", "woken", "expired"}
\* Workers that left m_active_threads.
RetiredPcs == {"none", "recover", "restore"}
WorkerPcs == {"none", "loop", "markIdle", "retire", "recover", "restore", "search",
              "run", "blocked", "finish"} \cup IdlePcs

TypeOK ==
  /\ count \in Nat
  /\ waiters \in Nat
  /\ lock \in Workers \cup {None}
  /\ signalled \subseteq Workers
  /\ buckets \in [Buckets -> SUBSET Operations]
  /\ active \in Int
  /\ idle \in Nat
  /\ maxThreads \in Nat
  /\ pc \in [Threads -> ClientPcs \cup SchedulePcs \cup WorkerPcs]
  /\ seen \in [Threads -> Int]
  /\ op \in [Workers -> Operations \cup {None}]
  /\ label \in [Workers -> Buckets]
  /\ executed \subseteq Operations
  /\ terminated \in BOOLEAN

NewSemaphore ==
  /\ count = 0
  /\ waiters = 0
  /\ lock = None
  /\ signalled = {}

NewThreadpool ==
  /\ NewSemaphore
  /\ buckets = [b \in Buckets |-> {}]
  /\ active = 0
  /\ idle = 0
  /\ maxThreads = MaxThreads

\* global_threadpool() makes the one pool, without any worker.
Init ==
  /\ NewThreadpool
  /\ pc = [t \in Threads |-> IF t \in Clients THEN "idle" ELSE "none"]
  /\ seen = [t \in Threads |-> 0]
  /\ op = [w \in Workers |-> None]
  /\ label = [w \in Workers |-> 0]
  /\ executed = {}
  /\ terminated = FALSE

\* Thread t is about to take step l; a terminated process takes none.
At(t, l) == ~terminated /\ pc[t] = l

Goto(t, l) == pc' = [pc EXCEPT ![t] = l]

Queued == UNION {buckets[b] : b \in Buckets}
Submitted == (Queued \cup executed \cup {op[w] : w \in Workers}) \ {None}

-----------------------------------------------------------------------------
(* The semaphore *)

\* try_acquire(): one permit if there is one, and where to go in either case.
TryAcquire(t, success, failure) ==
  IF count > 0
  THEN count' = count - 1 /\ Goto(t, success)
  ELSE UNCHANGED count /\ Goto(t, failure)

-----------------------------------------------------------------------------
(* execute() and schedule() *)

\* execute() puts the operation into the bucket of its priority ...
Enqueue(c, o, p) ==
  /\ At(c, "idle")
  /\ o \notin Submitted
  /\ buckets' = [buckets EXCEPT ![Bucket(p)] = @ \cup {o}]
  /\ Goto(c, "release")
  /\ UNCHANGED <<semaphoreVars, counterVars, localVars, executed, terminated>>

\* ... adds a permit ...
Release(c) ==
  /\ At(c, "release")
  /\ count' = count + 1
  /\ Goto(c, "notify")
  /\ UNCHANGED <<waiters, lock, signalled, counterVars, localVars, buckets,
                 executed, terminated>>

\* ... and wakes one worker if it sees waiters.
NotifyOne(c) ==
  /\ At(c, "notify")
  /\ \/ waiters = 0 /\ UNCHANGED signalled
     \/ /\ waiters # 0
        /\ lock = None
        /\ LET asleep == {w \in Workers : pc[w] = "waiting"} \ signalled
           IN  \/ asleep = {} /\ UNCHANGED signalled
               \/ \E w \in asleep : signalled' = signalled \cup {w}
  /\ Goto(c, "loadActive")
  /\ UNCHANGED <<count, waiters, lock, counterVars, localVars, buckets, executed,
                 terminated>>

\* async() of the parallel queue that is the global one for p, which calls execute() with
\* the priority it was created with.
Async(c, o, p) == Enqueue(c, o, GlobalQueue(p))

\* schedule() loads the two counters one after the other ...
LoadActive(t) ==
  /\ At(t, "loadActive")
  /\ seen' = [seen EXCEPT ![t] = active]
  /\ Goto(t, "loadIdle")
  /\ UNCHANGED <<semaphoreVars, counterVars, op, label, buckets, executed,
                 terminated>>

\* Where a thread continues once schedule() has returned.
Scheduled(t) == IF t \in Clients THEN "idle" ELSE "blocked"

\* ... asserts their relation, and is done if some worker is idle.
LoadIdle(t) ==
  /\ At(t, "loadIdle")
  /\ terminated' = ~(seen[t] >= 0 /\ idle >= 0 /\ idle <= seen[t])
  /\ Goto(t, IF idle > 0 THEN Scheduled(t) ELSE "loadMax")
  /\ UNCHANGED <<semaphoreVars, counterVars, localVars, buckets, executed>>

\* The constructor of a worker: its thread starts to run at once.
Spawn(t, w) ==
  /\ pc[w] = "none"
  /\ pc' = [pc EXCEPT ![w] = "loop", ![t] = "countThread"]

\* Below the limit a worker is created ...
LoadMax(t) ==
  /\ At(t, "loadMax")
  /\ IF seen[t] < maxThreads
       THEN \E w \in Workers : Spawn(t, w)
       ELSE Goto(t, Scheduled(t))
  /\ UNCHANGED <<semaphoreVars, counterVars, localVars, buckets, executed,
                 terminated>>

\* ... and is counted afterwards.
CountThread(t) ==
  /\ At(t, "countThread")
  /\ active' = active + 1
  /\ Goto(t, Scheduled(t))
  /\ UNCHANGED <<semaphoreVars, idle, maxThreads, localVars, buckets, executed,
                 terminated>>

ScheduleStep(t) ==
  LoadActive(t) \/ LoadIdle(t) \/ LoadMax(t) \/ CountThread(t)

-----------------------------------------------------------------------------
(* worker::run() *)

\* The fast path: try_acquire() and then spin_acquire().
Loop(w) ==
  /\ At(w, "loop")
  /\ TryAcquire(w, "search", "markIdle")
  /\ UNCHANGED <<waiters, lock, signalled, counterVars, localVars, buckets,
                 executed, terminated>>

MarkIdle(w) ==
  /\ At(w, "markIdle")
  /\ idle' = idle + 1
  /\ Goto(w, "test")
  /\ UNCHANGED <<semaphoreVars, active, maxThreads, localVars, buckets, executed,
                 terminated>>

\* wait_acquire() tests again with m_CS held ...
Test(w) ==
  /\ At(w, "test")
  /\ lock = None
  /\ TryAcquire(w, "woken", "enroll")
  /\ lock' = IF count > 0 THEN None ELSE w
  /\ UNCHANGED <<waiters, signalled, counterVars, localVars, buckets, executed,
                 terminated>>

\* ... makes itself known to release() ...
Enroll(w) ==
  /\ At(w, "enroll")
  /\ waiters' = waiters + 1
  /\ Goto(w, "predicate")
  /\ UNCHANGED <<count, lock, signalled, counterVars, localVars, buckets,
                 executed, terminated>>

\* Mutants of the wait: sleeping without a test after enrolling; leaving the
\* waiter_scope before going to sleep.
PredicateSkipsTest(w) ==
  /\ At(w, "predicate")
  /\ Goto(w, "waiting")
  /\ lock' = None
  /\ UNCHANGED <<count, waiters, signalled, counterVars, localVars, buckets,
                 executed, terminated>>

PredicateLeavesScope(w) ==
  /\ At(w, "predicate")
  /\ TryAcquire(w, "woken", "waiting")
  /\ waiters' = waiters - 1
  /\ lock' = None
  /\ UNCHANGED <<signalled, counterVars, localVars, buckets, executed, terminated>>

\* ... and tests a last time before it sleeps, giving up m_CS.
Predicate(w) ==
  /\ At(w, "predicate")
  /\ TryAcquire(w, "woken", "waiting")
  /\ waiters' = IF count > 0 THEN waiters - 1 ELSE waiters
  /\ lock' = None
  /\ UNCHANGED <<signalled, counterVars, localVars, buckets, executed, terminated>>

\* A notified (or spuriously woken) worker runs the predicate with m_CS held.
Wake(w) ==
  /\ At(w, "waiting")
  /\ lock = None
  /\ TryAcquire(w, "woken", "waiting")
  /\ waiters' = IF count > 0 THEN waiters - 1 ELSE waiters
  /\ signalled' = signalled \ {w}
  /\ UNCHANGED <<lock, counterVars, localVars, buckets, executed, terminated>>

\* wait_for() reaches its timeout; the predicate decides.
Timeout(w) ==
  /\ At(w, "waiting")
  /\ lock = None
  /\ TryAcquire(w, "woken", "expired")
  /\ waiters' = waiters - 1
  /\ signalled' = signalled \ {w}
  /\ UNCHANGED <<lock, counterVars, localVars, buckets, executed, terminated>>

\* Both outcomes of wait_acquire() leave m_idle_threads ...
LeaveIdle(w) ==
  /\ At(w, "woken") \/ At(w, "expired")
  /\ idle' = idle - 1
  /\ Goto(w, IF pc[w] = "woken" THEN "search" ELSE "retire")
  /\ UNCHANGED <<semaphoreVars, active, maxThreads, localVars, buckets, executed,
                 terminated>>

\* ... a worker that timed out also m_active_threads ...
Retire(w) ==
  /\ At(w, "retire")
  /\ active' = active - 1
  /\ Goto(w, "recover")
  /\ UNCHANGED <<semaphoreVars, idle, maxThreads, localVars, buckets, executed,
                 terminated>>

\* Mutants of the recovery: none at all; ending although a permit was taken.
RecoverGivesUp(w) ==
  /\ At(w, "recover")
  /\ Goto(w, "none")
  /\ UNCHANGED <<semaphoreVars, counterVars, localVars, buckets, executed,
                 terminated>>

RecoverDropsPermit(w) ==
  /\ At(w, "recover")
  /\ TryAcquire(w, "none", "none")
  /\ UNCHANGED <<waiters, lock, signalled, counterVars, localVars, buckets,
                 executed, terminated>>

\* ... but it looks for work a last time before its thread ends ...
Recover(w) ==
  /\ At(w, "recover")
  /\ TryAcquire(w, "restore", "none")
  /\ UNCHANGED <<waiters, lock, signalled, counterVars, localVars, buckets,
                 executed, terminated>>

\* Mutant: the recovered worker is not counted again.
RestoreForgetsCount(w) ==
  /\ At(w, "restore")
  /\ Goto(w, "search")
  /\ UNCHANGED <<semaphoreVars, counterVars, localVars, buckets, executed,
                 terminated>>

\* ... and stays if it found some.
Restore(w) ==
  /\ At(w, "restore")
  /\ active' = active + 1
  /\ Goto(w, "search")
  /\ UNCHANGED <<semaphoreVars, idle, maxThreads, localVars, buckets, executed,
                 terminated>>

\* Search the buckets round and round, from the highest priority.
Search(w) ==
  /\ At(w, "search")
  /\ IF buckets[label[w]] # {}
       THEN \E o \in buckets[label[w]] :
              /\ buckets' = [buckets EXCEPT ![label[w]] = @ \ {o}]
              /\ op' = [op EXCEPT ![w] = o]
              /\ label' = [label EXCEPT ![w] = 0]
              /\ Goto(w, "run")
       ELSE /\ label' = [label EXCEPT ![w] = IF @ + 1 \in Buckets THEN @ + 1 ELSE 0]
            /\ UNCHANGED <<buckets, op, pc>>
  /\ UNCHANGED <<semaphoreVars, counterVars, seen, executed, terminated>>

\* What a block_scope adds to the limit while a thread waits in it.
BlockScope(n) == maxThreads' = maxThreads + n

\* notify_thread_blocked(): raises the limit and goes on to schedule().
NotifyThreadBlocked(w) == BlockScope(1) /\ Goto(w, "loadActive")

\* run_with_threadpool(): the pool is current() while the operation is executed, so that
\* a block_scope, which it enters if it has to wait for others, finds it.
Run(w) ==
  /\ At(w, "run")
  /\ IF Needs[op[w]] = {}
       THEN Goto(w, "finish") /\ UNCHANGED maxThreads
       ELSE NotifyThreadBlocked(w)
  /\ UNCHANGED <<semaphoreVars, active, idle, localVars, buckets, executed,
                 terminated>>

\* What the operation waits for has happened: it leaves its block_scope.
Unblock(w) ==
  /\ At(w, "blocked")
  /\ Needs[op[w]] \subseteq executed
  /\ BlockScope(-1)
  /\ Goto(w, "finish")
  /\ UNCHANGED <<semaphoreVars, active, idle, localVars, buckets, executed,
                 terminated>>

Finish(w) ==
  /\ At(w, "finish")
  /\ executed' = executed \cup {op[w]}
  /\ op' = [op EXCEPT ![w] = None]
  /\ Goto(w, "loop")
  /\ UNCHANGED <<semaphoreVars, counterVars, seen, label, buckets, terminated>>

WorkerStep(w) ==
  \/ Loop(w) \/ MarkIdle(w) \/ Test(w) \/ Enroll(w) \/ Predicate(w)
  \/ LeaveIdle(w) \/ Retire(w) \/ Recover(w) \/ Restore(w)
  \/ Search(w) \/ Run(w) \/ Unblock(w) \/ Finish(w)

ClientStep(c) == Release(c) \/ NotifyOne(c)

Next ==
  \/ \E c \in Clients, o \in Operations, p \in Priorities : Enqueue(c, o, p) \/ Async(c, o, p)
  \/ \E c \in Clients : ClientStep(c)
  \/ \E t \in Threads : ScheduleStep(t)
  \/ \E w \in Workers : WorkerStep(w) \/ Wake(w) \/ Timeout(w)

Spec == Init /\ [][Next]_vars

\* Every thread that can run does, a notified worker wakes up and operations
\* come to their end.  A timeout may, but need not, happen.
Fairness ==
  /\ \A c \in Clients : WF_vars(ClientStep(c) \/ ScheduleStep(c))
  /\ \A w \in Workers : WF_vars(WorkerStep(w) \/ ScheduleStep(w))
  /\ \A w \in Workers : WF_vars(w \in signalled /\ Wake(w))

FairSpec == Spec /\ Fairness

-----------------------------------------------------------------------------
(* Properties *)

\* "There has to be such operation as we acquired the semaphore": every permit,
\* free or held by a searching worker, stands for an operation in a bucket, and
\* only an execute() between its enqueue and its release() is ahead of that.
PermitsMatchOperations ==
  Cardinality(Queued) =
      count + Cardinality({w \in Workers : pc[w] \in PermitPcs})
            + Cardinality({c \in Clients : pc[c] = "release"})

\* Once the two counters are not about to be updated they are exact: no path
\* through waking, expiring, recovering or spawning leaks a thread or an idle
\* mark, from which schedule() would conclude wrongly for the rest of the
\* program.
CountersExact ==
  /\ idle = Cardinality({w \in Workers : pc[w] \in IdlePcs})
  /\ active + Cardinality({t \in Threads : pc[t] = "countThread"}) =
       Cardinality({w \in Workers : pc[w] \notin RetiredPcs})

\* While a worker sleeps without having been notified, every free permit has
\* someone on the way to it: a notified sleeper, a client that is about to
\* notify, or a worker that is about to try.  Testing m_waiters outside of m_CS
\* never leaves work to a busy pool while a thread that could do it sleeps.
NoLostWakeup ==
  LET trying == {w \in Workers : pc[w] \in
                   {"loop", "markIdle", "test", "enroll", "predicate",
                    "expired", "retire", "recover"}}
  IN  (\E w \in Workers \ signalled : pc[w] = "waiting") =>
        count <= Cardinality(signalled)
                 + Cardinality({c \in Clients : pc[c] = "notify"})
                 + Cardinality(trying)

\* Every operation that was submitted is executed, if what it waits for was
\* submitted as well: neither a worker's expiry nor a blocked pool strands it.
EveryOperationIsExecuted ==
  \A o \in Operations :
    ({o} \cup Needs[o]) \subseteq Submitted ~> (o \in executed \/ terminated)

\* The assertion of schedule(): "We must never have more idle than active
\* threads", nor a negative number of either.
SchedulerAssertionHolds == ~terminated
=============================================================================
