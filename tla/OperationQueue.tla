--------------------------- MODULE OperationQueue ---------------------------
(***************************************************************************)
(* The naive backend's serial queue: one naive::operation_queue, the       *)
(* serial_queue_impl that owns it, the notify operations it puts on its    *)
(* threadpool and the operation_queue_manager thread that keeps it alive.  *)
(*                                                                         *)
(* An action is one critical section of operation_queue::m_CS, or one step *)
(* a thread takes between two of them.  drain() gives the mutex up around  *)
(* every job, so a drain is a sequence of actions of the draining worker.  *)
(***************************************************************************)
EXTENDS Naturals, Sequences, FiniteSets

CONSTANTS
  Clients,          \* threads of the application
  Workers,          \* threads of the threadpool the queue drains on
  Manager,          \* the thread of the operation_queue_manager
  Jobs,             \* operations the application submits, each one once
  DetachOp,         \* the operation queued by detach()
  Null,             \* a null operation_ptr: the placeholder of the active job
  MaxOpsPerDrain    \* kMaxOpsPerDrain

ASSUME ThreadsAssumption ==
  /\ Clients \cap Workers = {}
  /\ Manager \notin Clients \cup Workers

ASSUME EntriesAssumption ==
  /\ DetachOp \notin Jobs
  /\ Null \notin Jobs \cup {DetachOp}

ASSUME BudgetAssumption == MaxOpsPerDrain \in Nat \ {0}

Threads == Clients \cup Workers \cup {Manager}
Entries == Jobs \cup {DetachOp}

VARIABLES
  jobs,         \* m_jobs; its head is Null while that job is being executed
  attached,     \* m_is_attached
  activeDrain,  \* m_active_drain
  notifyOp,     \* m_notify_operation # nullptr
  pending,      \* copies of m_notify_operation queued on the threadpool
  pc,           \* where each thread is
  job,          \* drain()'s local job, per worker
  remaining,    \* drain()'s local remaining, per worker
  holders,      \* clients and operations holding a reference to the queue
  queueRefs,    \* shared_ptrs to the operation_queue
  mgrOps,       \* m_queued_ops of the manager's thread
  mgrBatch,     \* active_ops of the manager's thread
  life,         \* the operation_queue: "none", "alive" or "dead" (freed)
  submitted,    \* history: the jobs that were passed to async()
  done          \* history: the entries that were executed, in order

queueVars == <<jobs, attached, activeDrain, notifyOp, pending, life>>
drainVars == <<job, remaining>>
refVars   == <<holders, queueRefs>>
mgrVars   == <<mgrOps, mgrBatch>>
histVars  == <<submitted, done>>
vars == <<queueVars, pc, drainVars, refVars, mgrVars, histVars>>

\* A worker between taking the notify operation and leaving drain() ...
Draining == {"enter", "run", "reset", "detach", "release", "destroy", "relock"}
\* ... and one that has taken its job off the list and given up m_CS, until the end of
\* the inverse_lock_guard takes it again.
Busy == Draining \ {"enter"}

TypeOK ==
  /\ jobs \in Seq(Entries \cup {Null})
  /\ attached \in BOOLEAN
  /\ activeDrain \in BOOLEAN
  /\ notifyOp \in BOOLEAN
  /\ pending \in Nat
  /\ pc \in [Threads -> Draining \cup {"idle"}]
  /\ job \in [Workers -> Entries \cup {Null}]
  /\ remaining \in [Workers -> 0..MaxOpsPerDrain]
  /\ holders \subseteq Clients \cup Jobs
  /\ queueRefs \subseteq {"owner", "attachOp", "registered"}
  /\ mgrOps \in Seq({"attach", "detach"})
  /\ mgrBatch \in Seq({"attach", "detach"})
  /\ life \in {"none", "alive", "dead"}
  /\ submitted \subseteq Jobs
  /\ done \in Seq(Entries)

\* The queue manager is made once and never destroyed.
NewManager ==
  /\ mgrOps = <<>>
  /\ mgrBatch = <<>>

Init ==
  /\ NewManager
  /\ jobs = <<>>
  /\ attached = FALSE
  /\ activeDrain = FALSE
  /\ notifyOp = FALSE
  /\ pending = 0
  /\ pc = [t \in Threads |-> "idle"]
  /\ job = [w \in Workers |-> Null]
  /\ remaining = [w \in Workers |-> 0]
  /\ holders = {}
  /\ queueRefs = {}
  /\ life = "none"
  /\ submitted = {}
  /\ done = <<>>

Goto(t, l) == pc' = [pc EXCEPT ![t] = l]

\* Where a thread continues once the operation it was part of is over.
Continue(t) ==
  CASE t \in Workers -> "relock"
    [] t = Manager   -> "run"
    [] OTHER         -> "idle"

-----------------------------------------------------------------------------
(* The queue's critical sections *)

\* notify_unsafe(): a queue under destruction drops the notification.
NotifyUnsafe == pending' = IF notifyOp THEN pending + 1 ELSE pending

\* Mutants of async_unsafe(): a wakeup per job; a job queued at the front.
AsyncUnsafeAlwaysNotifies(e) ==
  /\ jobs' = Append(jobs, e)
  /\ IF attached THEN NotifyUnsafe ELSE UNCHANGED pending

AsyncUnsafePushesFront(e) ==
  /\ jobs' = IF jobs # <<>> /\ Head(jobs) = Null
               THEN <<Null, e>> \o Tail(jobs) ELSE <<e>> \o jobs
  /\ IF jobs = <<>> /\ attached THEN NotifyUnsafe ELSE UNCHANGED pending

\* async_unsafe(): only the first job of an idle queue wakes the threadpool.
AsyncUnsafe(e) ==
  /\ jobs' = Append(jobs, e)
  /\ IF jobs = <<>> /\ attached THEN NotifyUnsafe ELSE UNCHANGED pending

\* attach(): an operation for the manager takes a reference along.
Attach ==
  /\ attached' = TRUE
  /\ mgrOps' = Append(mgrOps, "attach")
  /\ queueRefs' = {"owner", "attachOp"}

\* serial_queue_impl's constructor: makes the operation_queue, which can notify the
\* pool from then on, and attaches it.
MakeSerialQueue ==
  /\ life' = "alive"
  /\ notifyOp' = TRUE
  /\ Attach

\* create_serial_queue() hands the first reference out.
Create(c) ==
  /\ life = "none"
  /\ MakeSerialQueue
  /\ holders' = {c}
  /\ UNCHANGED <<jobs, activeDrain, pending, pc, drainVars, mgrBatch, histVars>>

\* The operations being executed right now.
Active == {job[w] : w \in {v \in Workers : pc[v] = "run"}}

\* Who can use the queue now: a client, or an operation while it is executed.
Users == holders \cap (Clients \cup Active)

\* async() of a job that may capture a reference to the queue itself.
Async(u, j) ==
  /\ u \in Users
  /\ j \in Jobs \ submitted
  /\ submitted' = submitted \cup {j}
  /\ AsyncUnsafe(j)
  /\ holders' \in {holders, holders \cup {j}}
  /\ UNCHANGED <<attached, activeDrain, notifyOp, life, pc, drainVars,
                 queueRefs, mgrVars, done>>

\* A user hands a copy of the queue to a client.
Share(u, c) ==
  /\ u \in Users
  /\ c \notin holders
  /\ holders' = holders \cup {c}
  /\ UNCHANGED <<queueVars, pc, drainVars, queueRefs, mgrVars, histVars>>

\* Thread t drops h's reference; the last one runs ~serial_queue_impl.
DropReference(t, h, next) ==
  /\ holders' = holders \ {h}
  /\ Goto(t, IF h \in holders /\ holders = {h} THEN "detach" ELSE next)

Drop(c) ==
  /\ c \in holders
  /\ DropReference(c, c, "idle")
  /\ UNCHANGED <<queueVars, drainVars, queueRefs, mgrVars, histVars>>

\* Mutants of detach(): always the short cut of an empty queue; the detach
\* operation queued ahead of what is still waiting.
DetachSkipsBarrier(t) ==
  /\ pc[t] = "detach"
  /\ mgrOps' = Append(mgrOps, "detach")
  /\ attached' = FALSE
  /\ Goto(t, "release")
  /\ UNCHANGED <<jobs, pending, activeDrain, notifyOp, life, drainVars, refVars,
                 mgrBatch, histVars>>

DetachJumpsQueue(t) ==
  /\ pc[t] = "detach"
  /\ IF jobs = <<>>
       THEN mgrOps' = Append(mgrOps, "detach") /\ UNCHANGED jobs
       ELSE jobs' = <<Head(jobs), DetachOp>> \o Tail(jobs) /\ UNCHANGED mgrOps
  /\ attached' = FALSE
  /\ Goto(t, "release")
  /\ UNCHANGED <<pending, activeDrain, notifyOp, life, drainVars, refVars,
                 mgrBatch, histVars>>

\* detach(), on whatever thread dropped the last reference.
Detach(t) ==
  /\ pc[t] = "detach"
  /\ IF jobs = <<>>
       THEN mgrOps' = Append(mgrOps, "detach") /\ UNCHANGED <<jobs, pending>>
       ELSE AsyncUnsafe(DetachOp) /\ UNCHANGED mgrOps
  /\ attached' = FALSE
  /\ Goto(t, "release")
  /\ UNCHANGED <<activeDrain, notifyOp, life, drainVars, refVars, mgrBatch,
                 histVars>>

\* Thread t drops shared_ptr r; the last one runs ~operation_queue.
ReleaseQueue(t, r, next) ==
  /\ queueRefs' = queueRefs \ {r}
  /\ Goto(t, IF r \in queueRefs /\ queueRefs = {r} THEN "destroy" ELSE next)

\* ~serial_queue_impl destroys its member m_queue after detach() returned.
Release(t) ==
  /\ pc[t] = "release"
  /\ ReleaseQueue(t, "owner", Continue(t))
  /\ UNCHANGED <<queueVars, drainVars, holders, mgrVars, histVars>>

\* Mutant: ~operation_queue does not wait for the end of a drain.
DestroyDoesNotWait(t) ==
  /\ pc[t] = "destroy"
  /\ notifyOp' = FALSE
  /\ life' = "dead"
  /\ Goto(t, Continue(t))
  /\ UNCHANGED <<jobs, attached, activeDrain, pending, drainVars, refVars,
                 mgrVars, histVars>>

\* One round of the loop of ~operation_queue.
Destroy(t) ==
  /\ pc[t] = "destroy"
  /\ notifyOp' = FALSE
  /\ IF activeDrain
       THEN UNCHANGED <<life, pc>>
       ELSE /\ life' = "dead"
            /\ Goto(t, Continue(t))
  /\ UNCHANGED <<jobs, attached, activeDrain, pending, drainVars, refVars,
                 mgrVars, histVars>>

-----------------------------------------------------------------------------
(* The threadpool and drain() *)

\* A thread takes a notify operation from its ithreadpool: any worker of a threadpool,
\* the one whose event loop gets the posted event with Qt's ThreadProxy.
PickUp(w) ==
  /\ pc[w] = "idle"
  /\ pending > 0
  /\ pending' = pending - 1
  /\ Goto(w, "enter")
  /\ UNCHANGED <<jobs, attached, activeDrain, notifyOp, life, drainVars,
                 refVars, mgrVars, histVars>>

\* Mutant of drain()'s loop: it ends without waking the pool for the jobs it
\* left behind.
DrainLoopForgetsYield(w, list, left) ==
  IF left # 0
  THEN /\ job' = [job EXCEPT ![w] = Head(list)]
       /\ jobs' = <<Null>> \o Tail(list)
       /\ remaining' = [remaining EXCEPT ![w] = left]
       /\ activeDrain' = TRUE
       /\ Goto(w, IF Head(list) = Null THEN "relock" ELSE "run")
       /\ UNCHANGED pending
  ELSE /\ jobs' = list
       /\ remaining' = [remaining EXCEPT ![w] = 0]
       /\ activeDrain' = FALSE
       /\ Goto(w, "idle")
       /\ UNCHANGED <<job, pending>>

\* The loop head of drain() with m_CS held: take the next job off the list,
\* leaving a placeholder, or end the drain and yield to the others.
DrainLoop(w, list, left) ==
  IF left # 0
  THEN /\ job' = [job EXCEPT ![w] = Head(list)]
       /\ jobs' = <<Null>> \o Tail(list)
       /\ remaining' = [remaining EXCEPT ![w] = left]
       /\ activeDrain' = TRUE
       /\ Goto(w, IF Head(list) = Null THEN "relock" ELSE "run")
       /\ UNCHANGED pending
  ELSE /\ jobs' = list
       /\ IF list # <<>> THEN NotifyUnsafe ELSE UNCHANGED pending
       /\ remaining' = [remaining EXCEPT ![w] = 0]
       /\ activeDrain' = FALSE
       /\ Goto(w, "idle")
       /\ UNCHANGED job

\* Mutant: an unsigned minimum gone wrong, the budget exceeds the list.
DrainBeginIgnoresSize(w) ==
  /\ pc[w] = "enter"
  /\ DrainLoop(w, jobs, MaxOpsPerDrain + 1)
  /\ UNCHANGED <<attached, notifyOp, life, refVars, mgrVars, histVars>>

\* drain() up to its first job.
DrainBegin(w) ==
  /\ pc[w] = "enter"
  /\ DrainLoop(w, jobs, IF Len(jobs) < MaxOpsPerDrain THEN Len(jobs)
                                                      ELSE MaxOpsPerDrain)
  /\ UNCHANGED <<attached, notifyOp, life, refVars, mgrVars, histVars>>

\* Mutant: the detach operation does not reach the queue manager.
ProcessJobForgetsDetach(w) ==
  /\ pc[w] = "run"
  /\ done' = Append(done, job[w])
  /\ Goto(w, "reset")
  /\ UNCHANGED <<queueVars, drainVars, refVars, mgrVars, submitted>>

\* process_job() returns.  The detach operation posts to the queue manager.
ProcessJob(w) ==
  /\ pc[w] = "run"
  /\ done' = Append(done, job[w])
  /\ mgrOps' = IF job[w] = DetachOp THEN Append(mgrOps, "detach") ELSE mgrOps
  /\ Goto(w, "reset")
  /\ UNCHANGED <<queueVars, drainVars, refVars, mgrBatch, submitted>>

\* job.reset(), outside of m_CS: frees the operation and what it captured.
ResetJob(w) ==
  /\ pc[w] = "reset"
  /\ job' = [job EXCEPT ![w] = Null]
  /\ DropReference(w, job[w], "relock")
  /\ UNCHANGED <<queueVars, remaining, queueRefs, mgrVars, histVars>>

\* ~deferred_pop with m_CS held again, then the loop head.
DrainNext(w) ==
  /\ pc[w] = "relock"
  /\ DrainLoop(w, Tail(jobs), remaining[w] - 1)
  /\ UNCHANGED <<attached, notifyOp, life, refVars, mgrVars, histVars>>

-----------------------------------------------------------------------------
(* The operation_queue_manager's thread *)

\* run() takes over everything that was posted to it.
ManagerSwap ==
  /\ pc[Manager] = "idle"
  /\ mgrOps # <<>>
  /\ mgrBatch' = mgrOps
  /\ mgrOps' = <<>>
  /\ Goto(Manager, "run")
  /\ UNCHANGED <<queueVars, drainVars, refVars, histVars>>

\* run() executes one posted operation: attach registers the queue, detach
\* unregisters it.  The operations are freed only at the end of the batch.
ManagerExecute ==
  /\ pc[Manager] = "run"
  /\ mgrBatch # <<>>
  /\ mgrBatch' = Tail(mgrBatch)
  /\ IF Head(mgrBatch) = "attach"
       THEN queueRefs' = queueRefs \cup {"registered"} /\ UNCHANGED pc
       ELSE ReleaseQueue(Manager, "registered", "run")
  /\ UNCHANGED <<queueVars, drainVars, holders, mgrOps, histVars>>

\* The end of the batch frees the attach operation and the queue it captured.
ManagerFree ==
  /\ pc[Manager] = "run"
  /\ mgrBatch = <<>>
  /\ ReleaseQueue(Manager, "attachOp", "idle")
  /\ UNCHANGED <<queueVars, drainVars, holders, mgrVars, histVars>>

-----------------------------------------------------------------------------
ClientNext(c) ==
  \/ Create(c)
  \/ Drop(c)
  \/ \E u \in Clients \cup Jobs : Share(u, c)

DrainNextStep(w) ==
  DrainBegin(w) \/ ProcessJob(w) \/ ResetJob(w) \/ DrainNext(w)

TeardownStep(t) == Detach(t) \/ Release(t) \/ Destroy(t)

ManagerStep == ManagerSwap \/ ManagerExecute \/ ManagerFree

Next ==
  \/ \E c \in Clients : ClientNext(c)
  \/ \E u \in Clients \cup Jobs, j \in Jobs : Async(u, j)
  \/ \E w \in Workers : PickUp(w) \/ DrainNextStep(w)
  \/ \E t \in Threads : TeardownStep(t)
  \/ ManagerStep

Spec == Init /\ [][Next]_vars

\* Threads that have something to do get to run and operations terminate;
\* the threadpool serves what is queued on it.  Nobody is obliged to create,
\* use or drop a queue.
Fairness ==
  /\ WF_vars(\E w \in Workers : PickUp(w))
  /\ \A w \in Workers : WF_vars(DrainNextStep(w))
  /\ \A t \in Threads : WF_vars(TeardownStep(t))
  /\ WF_vars(ManagerStep)

FairSpec == Spec /\ Fairness

-----------------------------------------------------------------------------
(* Properties *)

\* No two pool threads are ever inside drain() of the same queue, with one of
\* them possibly still on its way in: the operations of a serial queue never
\* overlap although every wakeup may land on a different thread.
MutualExclusion ==
  \A v, w \in Workers :
    pc[v] \in Draining /\ pc[w] \in Draining => v = w

\* A job on the list is always backed by exactly one wakeup: a notify operation
\* on the pool or a worker in drain(); an empty list has none of either.
\* Skipping the notify in async_unsafe() hence never strands a job.
OneWakeup ==
  LET drains == {w \in Workers : pc[w] \in Draining}
  IN  pending + Cardinality(drains) = IF jobs = <<>> THEN 0 ELSE 1

\* drain() and detach() run on a raw `this`: once the operation_queue has been
\* freed no notify operation is left on the pool, no worker is in drain(), no
\* thread is in ~serial_queue_impl and nobody holds the queue.
NoUseAfterFree ==
  life = "dead" =>
    /\ pending = 0
    /\ \A w \in Workers : pc[w] \notin Draining
    /\ \A t \in Threads : pc[t] \notin {"detach", "release", "destroy"}
    /\ holders = {} /\ queueRefs = {}

\* ~operation_queue never runs on the worker that is draining that very queue,
\* where its wait for the end of the drain would never return.
NoSelfDestruction == \A w \in Workers : pc[w] # "destroy"

\* Once ~operation_queue has revoked the notify operation nothing executable is
\* left on the list, so that no dropped notification can lose an operation.
NoDroppedJob ==
  life = "alive" /\ ~notifyOp => \A i \in 1..Len(jobs) : jobs[i] = Null

\* The one-at-a-time FIFO promise, by refinement: the placeholder is no entry.
Queued ==
  IF jobs # <<>> /\ Head(jobs) = Null THEN Tail(jobs) ELSE jobs

Executor == INSTANCE SerialExecutor
  WITH queued <- Queued, running <- Active, done <- done

\* The queue implements SerialExecutor: it executes what was submitted one at a
\* time, in the order of submission, and gets every entry done.
ImplementsSerialExecutor == Executor!FairSpec

\* Every submitted operation is executed, also when the queue is dropped by
\* its last user before, or while, it runs.
EveryJobIsExecuted ==
  \A j \in Jobs :
    j \in submitted ~> \E i \in 1..Len(done) : done[i] = j

\* Once the last user has dropped the queue it is eventually freed.
DroppedQueueIsFreed == (life # "none" /\ holders = {}) ~> life = "dead"
=============================================================================
