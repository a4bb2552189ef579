-------------------------- MODULE ThreadPoolProofs --------------------------
(***************************************************************************)
(* Proofs about ThreadPool for any number of clients, workers, operations  *)
(* and buckets, any initial limit, and whatever operations wait for.       *)
(***************************************************************************)
EXTENDS ThreadPool, FiniteSetTheorems, TLAPS

USE DEF semaphoreVars, counterVars, localVars

-----------------------------------------------------------------------------
(* The inductive invariant *)

\* Workers inside of an operation that blocks, and of any operation.
BlockPcs == SchedulePcs \cup {"blocked"}
BusyPcs == BlockPcs \cup {"run", "finish"}
\* Workers that are counted by m_active_threads, and those by m_waiters.
ActivePcs == (WorkerPcs \cup SchedulePcs) \ RetiredPcs
EnrolledPcs == {"predicate", "waiting"}
\* Workers that are about to try the semaphore.
TryingPcs == {"loop", "markIdle", "test", "enroll", "predicate", "expired", "retire", "recover"}

\* Each kind of thread stays in its own code; both call schedule().
Places ==
  /\ \A c \in Clients : pc[c] \in ClientPcs \cup SchedulePcs
  /\ \A w \in Workers : pc[w] \in WorkerPcs \cup SchedulePcs

Busy == \A w \in Workers : op[w] # None <=> pc[w] \in BusyPcs

\* An operation waits in one bucket only, and only finitely many do.
Bucketed ==
  /\ \A a, b \in Buckets : a # b => buckets[a] \cap buckets[b] = {}
  /\ IsFiniteSet(Queued)

\* m_CS is kept between enrolling and the last test before going to sleep, and
\* m_cond wakes sleepers.
Locking ==
  /\ \A w \in Workers : lock = w <=> pc[w] \in {"enroll", "predicate"}
  /\ \A w \in signalled : pc[w] = "waiting"

\* How many threads of T are at a place of P, by the program counters f.
Number(f, T, P) == Cardinality({t \in T : f[t] \in P})

\* The five counters account for where the threads are: permits for queued
\* operations, idle marks, active threads but for those about to be counted, one
\* waiter for every waiter_scope and one more thread for every block_scope.
Ledger ==
  /\ Cardinality(Queued) =
       count + Number(pc, Workers, PermitPcs) + Number(pc, Clients, {"release"})
  /\ idle = Number(pc, Workers, IdlePcs)
  /\ active = Number(pc, Workers, ActivePcs) - Number(pc, Threads, {"countThread"})
  /\ waiters = Number(pc, Workers, EnrolledPcs)
  /\ maxThreads = MaxThreads + Number(pc, Workers, BlockPcs)

Asleep == {w \in Workers \ signalled : pc[w] = "waiting"}

\* Sleepers that nobody has notified leave every free permit to somebody else.
Wakeups ==
  Asleep # {} =>
    count <= Cardinality(signalled) + Number(pc, Clients, {"notify"})
             + Number(pc, Workers, TryingPcs)

IInv == TypeOK /\ Places /\ Busy /\ Bucketed /\ Locking /\ Ledger /\ Wakeups

-----------------------------------------------------------------------------
(* Counting threads *)

LEMMA FinitelyManyThreads ==
  /\ IsFiniteSet(Clients) /\ IsFiniteSet(Workers) /\ IsFiniteSet(Threads)
  /\ Clients \subseteq Threads /\ Workers \subseteq Threads
  BY PoolThreadsAssumption, FS_Union DEF Threads

LEMMA NumberType ==
  ASSUME NEW T, IsFiniteSet(T), NEW f, NEW P
  PROVE  Number(f, T, P) \in Nat
  <1>1. {t \in T : f[t] \in P} \in SUBSET T
    OBVIOUS
  <1> QED
    BY <1>1, FS_Subset, FS_CardinalityType DEF Number

\* Places of P that thread t has if it is of T and at l.
Counts(t, l, T, P) == IF t \in T /\ l \in P THEN 1 ELSE 0

\* A single thread t that moves to l changes the number at P by what it counts.
LEMMA NumberAfterMove ==
  ASSUME NEW T, IsFiniteSet(T), NEW t, NEW l, NEW P, NEW f, NEW g,
         \A u \in T : g[u] = IF u = t THEN l ELSE f[u]
  PROVE  Number(g, T, P) = Number(f, T, P) + Counts(t, l, T, P) - Counts(t, f[t], T, P)
  <1> DEFINE A == {u \in T : f[u] \in P}
             B == {u \in T : g[u] \in P}
  <1>2. A \in SUBSET T /\ B \in SUBSET T
    OBVIOUS
  <1>3. IsFiniteSet(A) /\ Cardinality(A) \in Nat
    BY <1>2, FS_Subset, FS_CardinalityType
  <1>4. Number(f, T, P) = Cardinality(A) /\ Number(g, T, P) = Cardinality(B)
    BY DEF Number
  <1>5. CASE t \in T /\ l \in P /\ f[t] \notin P
    <2>1. B = A \cup {t} /\ t \notin A
      BY <1>5
    <2>2. Cardinality(B) = Cardinality(A) + 1
      BY <1>3, <2>1, FS_AddElement
    <2> QED
      BY <1>3, <1>4, <1>5, <2>2 DEF Counts
  <1>6. CASE t \in T /\ l \notin P /\ f[t] \in P
    <2>1. B = A \ {t} /\ t \in A
      BY <1>6
    <2> HIDE DEF A, B
    <2>2. Cardinality(B) = Cardinality(A) - 1
      BY <1>3, <2>1, FS_RemoveElement
    <2> QED
      BY <1>3, <1>4, <1>6, <2>2 DEF Counts
  <1>7. CASE t \notin T \/ (l \in P <=> f[t] \in P)
    <2>1. B = A
      BY <1>7
    <2>2. Counts(t, l, T, P) = Counts(t, f[t], T, P) /\ Counts(t, l, T, P) \in {0, 1}
      BY <1>7 DEF Counts
    <2> HIDE DEF A, B
    <2> QED
      BY <1>3, <1>4, <2>1, <2>2
  <1> QED
    BY <1>5, <1>6, <1>7

\* What changes in the number of threads of T at P when t goes to l.
Change(t, l, T, P) == Counts(t, l, T, P) - Counts(t, pc[t], T, P)

LEMMA ChangeType == \A t, l, T, P : Change(t, l, T, P) \in Int
  BY DEF Change, Counts

LEMMA NumberAfterGoto ==
  ASSUME IInv, NEW t \in Threads, NEW l, Goto(t, l),
         NEW T \in {Clients, Workers, Threads}, NEW P
  PROVE  /\ Number(pc', T, P) = Number(pc, T, P) + Change(t, l, T, P)
         /\ Number(pc', T, P) \in Nat /\ Number(pc, T, P) \in Nat
         /\ Change(t, l, T, P) \in Int
  <1>1. T \in SUBSET Threads /\ IsFiniteSet(T)
    BY FinitelyManyThreads
  <1>2. \A u \in Threads : pc'[u] = IF u = t THEN l ELSE pc[u]
    BY DEF Goto, IInv, TypeOK
  <1>3. \A u \in T : pc'[u] = IF u = t THEN l ELSE pc[u]
    BY <1>1, <1>2
  <1>4. Number(pc', T, P)
           = Number(pc, T, P) + Counts(t, l, T, P) - Counts(t, pc[t], T, P)
    BY <1>1, <1>3, NumberAfterMove
  <1>5. Number(pc', T, P) \in Nat /\ Number(pc, T, P) \in Nat
    BY <1>1, NumberType
  <1>6. Counts(t, l, T, P) \in Int /\ Counts(t, pc[t], T, P) \in Int
    BY DEF Counts
  <1> QED
    BY <1>4, <1>5, <1>6 DEF Change

-----------------------------------------------------------------------------
(* The ledger *)

\* The counters change by what the move of thread t to l changes.
Balance(t, l) ==
  /\ Cardinality(Queued)' = Cardinality(Queued) + (count' - count)
       + Change(t, l, Workers, PermitPcs) + Change(t, l, Clients, {"release"})
  /\ idle' = idle + Change(t, l, Workers, IdlePcs)
  /\ active' = active + Change(t, l, Workers, ActivePcs)
                      - Change(t, l, Threads, {"countThread"})
  /\ waiters' = waiters + Change(t, l, Workers, EnrolledPcs)
  /\ maxThreads' = maxThreads + Change(t, l, Workers, BlockPcs)

LEMMA BalanceKeepsLedger ==
  ASSUME IInv, NEW t \in Threads, NEW l, Goto(t, l), count' \in Nat, Balance(t, l)
  PROVE  /\ Ledger'
         /\ active' \in Int /\ idle' \in Nat /\ waiters' \in Nat /\ maxThreads' \in Nat
  <1>1. /\ count \in Nat /\ MaxThreads \in Nat /\ Ledger
    BY MaxThreadsAssumption DEF IInv, TypeOK
  <1>2. idle' = Number(pc', Workers, IdlePcs) /\ idle' \in Nat
    BY <1>1, NumberAfterGoto DEF Ledger, Balance
  <1>3. waiters' = Number(pc', Workers, EnrolledPcs) /\ waiters' \in Nat
    BY <1>1, NumberAfterGoto DEF Ledger, Balance
  <1>4. maxThreads' = MaxThreads + Number(pc', Workers, BlockPcs) /\ maxThreads' \in Nat
    BY <1>1, NumberAfterGoto DEF Ledger, Balance
  <1>5. /\ active' = Number(pc', Workers, ActivePcs) - Number(pc', Threads, {"countThread"})
        /\ active' \in Int
    BY <1>1, NumberAfterGoto DEF Ledger, Balance
  <1>6. Cardinality(Queued)'
          = count' + Number(pc', Workers, PermitPcs) + Number(pc', Clients, {"release"})
    BY <1>1, NumberAfterGoto DEF Ledger, Balance
  <1> QED
    BY <1>2, <1>3, <1>4, <1>5, <1>6 DEF Ledger

\* No sleeper is left alone: there is no free permit, nobody sleeps, or the move
\* of t to l takes no more from those who are on the way to the permits than it
\* takes permits.
Covered(t, l) ==
  \/ count' = 0
  \/ Asleep' = {}
  \/ /\ Asleep' # {} => Asleep # {}
     /\ count' - count <= Cardinality(signalled)' - Cardinality(signalled)
          + Change(t, l, Clients, {"notify"}) + Change(t, l, Workers, TryingPcs)

LEMMA CoveredKeepsWakeups ==
  ASSUME IInv, NEW t \in Threads, NEW l, Goto(t, l), count' \in Nat,
         signalled' \subseteq Workers, Covered(t, l)
  PROVE  Wakeups'
  <1>1. /\ Cardinality(signalled)' \in Nat /\ Cardinality(signalled) \in Nat
        /\ count \in Nat /\ Wakeups
    BY FinitelyManyThreads, FS_Subset, FS_CardinalityType DEF IInv, TypeOK
  <1>2. SUFFICES ASSUME Asleep' # {}
                 PROVE  count' <= Cardinality(signalled)' + Number(pc', Clients, {"notify"})
                                  + Number(pc', Workers, TryingPcs)
    BY DEF Wakeups
  <1>3. CASE count' = 0
    BY <1>1, <1>3, NumberAfterGoto
  <1>4. CASE Asleep # {} /\ count' - count <= Cardinality(signalled)' - Cardinality(signalled)
          + Change(t, l, Clients, {"notify"}) + Change(t, l, Workers, TryingPcs)
    BY <1>1, <1>4, NumberAfterGoto DEF Wakeups
  <1> QED
    BY <1>2, <1>3, <1>4 DEF Covered
-----------------------------------------------------------------------------
(* Moves of a single thread, and quiet ones that leave the lock, the sleepers, *)
(* the buckets and the operations as they are                                  *)

\* One thread moves: what is left to show when the counters are in balance.
LEMMA MoveKeepsIInv ==
  ASSUME IInv, NEW t \in Threads, NEW l, Goto(t, l),
         t \in Clients => l \in ClientPcs \cup SchedulePcs,
         t \in Workers => l \in WorkerPcs \cup SchedulePcs,
         lock' \in Workers \cup {None}, signalled' \subseteq Workers,
         buckets' \in [Buckets -> SUBSET Operations],
         op' \in [Workers -> Operations \cup {None}], label' \in [Workers -> Buckets],
         executed' \subseteq Operations,
         seen' \in [Threads -> Int], terminated' \in BOOLEAN, count' \in Nat,
         Balance(t, l), Covered(t, l), Busy', Bucketed', Locking'
  PROVE  IInv'
  <1>1. /\ Ledger'
        /\ active' \in Int /\ idle' \in Nat /\ waiters' \in Nat /\ maxThreads' \in Nat
    BY BalanceKeepsLedger
  <1>2. pc' \in [Threads -> ClientPcs \cup SchedulePcs \cup WorkerPcs]
    BY DEF IInv, TypeOK, Goto, Threads
  <1>3. TypeOK'
    BY <1>1, <1>2 DEF TypeOK
  <1>4. Places'
    BY FinitelyManyThreads DEF IInv, TypeOK, Places, Goto
  <1>5. Wakeups'
    BY CoveredKeepsWakeups
  <1> QED
    BY <1>1, <1>3, <1>4, <1>5 DEF IInv

LEMMA QuietMoveKeepsIInv ==
  ASSUME IInv, NEW t \in Threads, NEW l, Goto(t, l),
         t \in Clients => l \in ClientPcs \cup SchedulePcs,
         t \in Workers => /\ l \in WorkerPcs \cup SchedulePcs
                          /\ pc[t] \in BusyPcs <=> l \in BusyPcs,
         pc[t] \notin {"enroll", "predicate", "waiting"},
         l \notin {"enroll", "predicate", "waiting"},
         UNCHANGED <<lock, signalled, buckets, op, label, executed>>,
         seen' \in [Threads -> Int], terminated' \in BOOLEAN, count' \in Nat,
         Balance(t, l), Covered(t, l)
  PROVE  IInv'
  <1>1. \A u \in Threads : pc'[u] = IF u = t THEN l ELSE pc[u]
    BY DEF IInv, TypeOK, Goto
  <1>2. /\ lock' \in Workers \cup {None} /\ signalled' \subseteq Workers
        /\ buckets' \in [Buckets -> SUBSET Operations]
        /\ op' \in [Workers -> Operations \cup {None}] /\ label' \in [Workers -> Buckets]
        /\ executed' \subseteq Operations
    BY DEF IInv, TypeOK
  <1>3. Busy'
    BY <1>1, FinitelyManyThreads DEF IInv, Busy
  <1>4. Bucketed'
    BY DEF IInv, Bucketed, Queued
  <1>5. Locking'
    BY <1>1, FinitelyManyThreads DEF IInv, TypeOK, Locking
  <1> QED
    BY <1>2, <1>3, <1>4, <1>5, MoveKeepsIInv

\* What a worker's move changes, where the places are known.
LEMMA WorkerChange ==
  ASSUME NEW w \in Workers, NEW l
  PROVE  \A P : /\ Change(w, l, Clients, P) = 0
                /\ Change(w, l, Workers, P) =
                     (IF l \in P THEN 1 ELSE 0) - (IF pc[w] \in P THEN 1 ELSE 0)
                /\ Change(w, l, Threads, P) =
                     (IF l \in P THEN 1 ELSE 0) - (IF pc[w] \in P THEN 1 ELSE 0)
  BY PoolThreadsAssumption DEF Change, Counts, Threads

LEMMA ClientChange ==
  ASSUME NEW c \in Clients, NEW l
  PROVE  \A P : /\ Change(c, l, Workers, P) = 0
                /\ Change(c, l, Clients, P) =
                     (IF l \in P THEN 1 ELSE 0) - (IF pc[c] \in P THEN 1 ELSE 0)
                /\ Change(c, l, Threads, P) =
                     (IF l \in P THEN 1 ELSE 0) - (IF pc[c] \in P THEN 1 ELSE 0)
  BY PoolThreadsAssumption DEF Change, Counts, Threads
-----------------------------------------------------------------------------
(* Steps of workers that are quiet moves *)

Gain(w, l, P) == (IF l \in P THEN 1 ELSE 0) - (IF pc[w] \in P THEN 1 ELSE 0)

LEMMA QuietWorkerKeepsIInv ==
  ASSUME IInv, NEW w \in Workers, NEW l \in WorkerPcs \cup SchedulePcs, Goto(w, l),
         pc[w] \in BusyPcs <=> l \in BusyPcs,
         pc[w] \notin {"enroll", "predicate", "waiting"},
         l \notin {"enroll", "predicate", "waiting"},
         UNCHANGED <<waiters, lock, signalled, buckets, op, label, executed>>,
         seen' \in [Threads -> Int], terminated' \in BOOLEAN, count' \in Nat,
         count' = count - Gain(w, l, PermitPcs),
         idle' = idle + Gain(w, l, IdlePcs),
         active' = active + Gain(w, l, ActivePcs) - Gain(w, l, {"countThread"}),
         maxThreads' = maxThreads + Gain(w, l, BlockPcs),
         count' = 0 \/ count' - count <= Gain(w, l, TryingPcs)
  PROVE  IInv'
  <1>1. /\ count \in Nat /\ idle \in Nat /\ active \in Int /\ waiters \in Nat
        /\ maxThreads \in Nat /\ w \in Threads /\ w \notin Clients
    BY PoolThreadsAssumption DEF IInv, TypeOK, Threads
  <1>2. \A P : /\ Change(w, l, Workers, P) = Gain(w, l, P)
               /\ Change(w, l, Threads, P) = Gain(w, l, P)
               /\ Change(w, l, Clients, P) = 0 /\ Gain(w, l, P) \in Int
    BY WorkerChange DEF Gain
  <1>3. Gain(w, l, EnrolledPcs) = 0
    BY DEF Gain, EnrolledPcs
  <1>4. Cardinality(Queued)' = Cardinality(Queued) /\ Cardinality(Queued) \in Nat
    BY FS_CardinalityType DEF Queued, IInv, Bucketed
  <1>5. Balance(w, l)
    BY <1>1, <1>2, <1>3, <1>4 DEF Balance
  <1>6. Asleep' \subseteq Asleep /\ Cardinality(signalled) \in Nat
    BY FinitelyManyThreads, FS_Subset, FS_CardinalityType DEF Asleep, Goto, IInv, TypeOK
  <1>7. Covered(w, l)
    BY <1>1, <1>2, <1>6 DEF Covered
  <1> QED
    BY <1>1, <1>5, <1>7, QuietMoveKeepsIInv

LEMMA LoopKeepsIInv ==
  ASSUME IInv, NEW w \in Workers, Loop(w)
  PROVE  IInv'
  <1>1. /\ pc[w] = "loop" /\ count \in Nat /\ idle \in Nat /\ active \in Int /\ maxThreads \in Nat
        /\ UNCHANGED <<waiters, lock, signalled, counterVars, localVars, buckets, executed>>
        /\ seen' \in [Threads -> Int] /\ terminated' \in BOOLEAN
    BY DEF Loop, At, IInv, TypeOK
  <1>2. CASE count > 0
    <2>1. Goto(w, "search") /\ count' = count - 1
      BY <1>2 DEF Loop, TryAcquire
    <2> QED
      BY <1>1, <1>2, <2>1, QuietWorkerKeepsIInv
      DEF Gain, PermitPcs, IdlePcs, ActivePcs, RetiredPcs, BlockPcs, BusyPcs, TryingPcs,
          WorkerPcs, SchedulePcs
  <1>3. CASE count = 0
    <2>1. Goto(w, "markIdle") /\ count' = count /\ count' = 0
      BY <1>3 DEF Loop, TryAcquire
    <2>2. /\ Gain(w, "markIdle", PermitPcs) = 0 /\ Gain(w, "markIdle", IdlePcs) = 0
          /\ Gain(w, "markIdle", ActivePcs) = 0 /\ Gain(w, "markIdle", {"countThread"}) = 0
          /\ Gain(w, "markIdle", BlockPcs) = 0
      BY <1>1 DEF Gain, PermitPcs, IdlePcs, ActivePcs, RetiredPcs, BlockPcs, BusyPcs, TryingPcs,
                  WorkerPcs, SchedulePcs
    <2> QED
      BY <1>1, <2>1, <2>2, QuietWorkerKeepsIInv DEF BusyPcs, BlockPcs, WorkerPcs, SchedulePcs
  <1> QED
    BY <1>1, <1>2, <1>3

LEMMA RecoverKeepsIInv ==
  ASSUME IInv, NEW w \in Workers, Recover(w)
  PROVE  IInv'
  <1>1. /\ pc[w] = "recover" /\ count \in Nat /\ idle \in Nat /\ active \in Int /\ maxThreads \in Nat
        /\ UNCHANGED <<waiters, lock, signalled, counterVars, localVars, buckets, executed>>
        /\ seen' \in [Threads -> Int] /\ terminated' \in BOOLEAN
    BY DEF Recover, At, IInv, TypeOK
  <1>2. CASE count > 0
    <2>1. Goto(w, "restore") /\ count' = count - 1
      BY <1>2 DEF Recover, TryAcquire
    <2> QED
      BY <1>1, <1>2, <2>1, QuietWorkerKeepsIInv
      DEF Gain, PermitPcs, IdlePcs, ActivePcs, RetiredPcs, BlockPcs, BusyPcs, TryingPcs,
          WorkerPcs, SchedulePcs
  <1>3. CASE count = 0
    <2>1. Goto(w, "none") /\ count' = count /\ count' = 0
      BY <1>3 DEF Recover, TryAcquire
    <2>2. /\ Gain(w, "none", PermitPcs) = 0 /\ Gain(w, "none", IdlePcs) = 0
          /\ Gain(w, "none", ActivePcs) = 0 /\ Gain(w, "none", {"countThread"}) = 0
          /\ Gain(w, "none", BlockPcs) = 0
      BY <1>1 DEF Gain, PermitPcs, IdlePcs, ActivePcs, RetiredPcs, BlockPcs, BusyPcs, TryingPcs,
                  WorkerPcs, SchedulePcs
    <2> QED
      BY <1>1, <2>1, <2>2, QuietWorkerKeepsIInv DEF BusyPcs, BlockPcs, WorkerPcs, SchedulePcs
  <1> QED
    BY <1>1, <1>2, <1>3

LEMMA MarkIdleKeepsIInv ==
  ASSUME IInv, NEW w \in Workers, MarkIdle(w)
  PROVE  IInv'
  <1>1. /\ pc[w] = "markIdle" /\ count \in Nat /\ idle \in Nat /\ active \in Int /\ maxThreads \in Nat
        /\ seen' \in [Threads -> Int] /\ terminated' \in BOOLEAN
    BY DEF MarkIdle, At, IInv, TypeOK
  <1> QED
    BY <1>1, QuietWorkerKeepsIInv
    DEF MarkIdle, Gain, PermitPcs, IdlePcs, ActivePcs, RetiredPcs, BlockPcs, BusyPcs, TryingPcs,
        WorkerPcs, SchedulePcs

LEMMA RetireKeepsIInv ==
  ASSUME IInv, NEW w \in Workers, Retire(w)
  PROVE  IInv'
  <1>1. /\ pc[w] = "retire" /\ count \in Nat /\ idle \in Nat /\ active \in Int /\ maxThreads \in Nat
        /\ seen' \in [Threads -> Int] /\ terminated' \in BOOLEAN
    BY DEF Retire, At, IInv, TypeOK
  <1> QED
    BY <1>1, QuietWorkerKeepsIInv
    DEF Retire, Gain, PermitPcs, IdlePcs, ActivePcs, RetiredPcs, BlockPcs, BusyPcs, TryingPcs,
        WorkerPcs, SchedulePcs

LEMMA RestoreKeepsIInv ==
  ASSUME IInv, NEW w \in Workers, Restore(w)
  PROVE  IInv'
  <1>1. /\ pc[w] = "restore" /\ count \in Nat /\ idle \in Nat /\ active \in Int /\ maxThreads \in Nat
        /\ seen' \in [Threads -> Int] /\ terminated' \in BOOLEAN
    BY DEF Restore, At, IInv, TypeOK
  <1> QED
    BY <1>1, QuietWorkerKeepsIInv
    DEF Restore, Gain, PermitPcs, IdlePcs, ActivePcs, RetiredPcs, BlockPcs, BusyPcs, TryingPcs,
        WorkerPcs, SchedulePcs

LEMMA LeaveIdleKeepsIInv ==
  ASSUME IInv, NEW w \in Workers, LeaveIdle(w)
  PROVE  IInv'
  <1>1. /\ count \in Nat /\ idle \in Nat /\ active \in Int /\ maxThreads \in Nat
        /\ seen' \in [Threads -> Int] /\ terminated' \in BOOLEAN
    BY DEF LeaveIdle, IInv, TypeOK
  <1>2. CASE pc[w] = "woken"
    <2>1. Goto(w, "search")
      BY <1>2 DEF LeaveIdle
    <2> QED
      BY <1>1, <1>2, <2>1, QuietWorkerKeepsIInv
      DEF LeaveIdle, Gain, PermitPcs, IdlePcs, ActivePcs, RetiredPcs, BlockPcs, BusyPcs, TryingPcs,
          WorkerPcs, SchedulePcs
  <1>3. CASE pc[w] = "expired"
    <2>1. Goto(w, "retire")
      BY <1>3 DEF LeaveIdle
    <2> QED
      BY <1>1, <1>3, <2>1, QuietWorkerKeepsIInv
      DEF LeaveIdle, Gain, PermitPcs, IdlePcs, ActivePcs, RetiredPcs, BlockPcs, BusyPcs, TryingPcs,
          WorkerPcs, SchedulePcs
  <1> QED
    BY <1>2, <1>3 DEF LeaveIdle, At

LEMMA RunKeepsIInv ==
  ASSUME IInv, NEW w \in Workers, Run(w)
  PROVE  IInv'
  <1>1. /\ pc[w] = "run" /\ count \in Nat /\ idle \in Nat /\ active \in Int /\ maxThreads \in Nat
        /\ seen' \in [Threads -> Int] /\ terminated' \in BOOLEAN
    BY DEF Run, At, IInv, TypeOK
  <1>2. CASE Needs[op[w]] = {}
    <2>1. Goto(w, "finish") /\ maxThreads' = maxThreads
      BY <1>2 DEF Run
    <2> QED
      BY <1>1, <2>1, QuietWorkerKeepsIInv
      DEF Run, Gain, PermitPcs, IdlePcs, ActivePcs, RetiredPcs, BlockPcs, BusyPcs, TryingPcs,
          WorkerPcs, SchedulePcs
  <1>3. CASE Needs[op[w]] # {}
    <2>1. Goto(w, "loadActive") /\ maxThreads' = maxThreads + 1
      BY <1>3 DEF Run, NotifyThreadBlocked, BlockScope
    <2> QED
      BY <1>1, <2>1, QuietWorkerKeepsIInv
      DEF Run, Gain, PermitPcs, IdlePcs, ActivePcs, RetiredPcs, BlockPcs, BusyPcs, TryingPcs,
          WorkerPcs, SchedulePcs
  <1> QED
    BY <1>2, <1>3

LEMMA UnblockKeepsIInv ==
  ASSUME IInv, NEW w \in Workers, Unblock(w)
  PROVE  IInv'
  <1>1. /\ pc[w] = "blocked" /\ count \in Nat /\ idle \in Nat /\ active \in Int
        /\ maxThreads \in Nat
        /\ seen' \in [Threads -> Int] /\ terminated' \in BOOLEAN
    BY DEF Unblock, At, IInv, TypeOK
  <1>2. Goto(w, "finish") /\ maxThreads' = maxThreads - 1
    BY <1>1 DEF Unblock, BlockScope
  <1> QED
    BY <1>1, <1>2, QuietWorkerKeepsIInv
    DEF Unblock, Gain, PermitPcs, IdlePcs, ActivePcs, RetiredPcs, BlockPcs, BusyPcs, TryingPcs,
        WorkerPcs, SchedulePcs
-----------------------------------------------------------------------------
(* Steps of clients *)

LEMMA ClientFacts ==
  ASSUME IInv, NEW c \in Clients, NEW l
  PROVE  /\ c \in Threads /\ c \notin Workers
         /\ pc[c] \notin {"enroll", "predicate", "waiting"}
         /\ \A P : /\ Change(c, l, Clients, P) = Gain(c, l, P)
                   /\ Change(c, l, Threads, P) = Gain(c, l, P)
                   /\ Change(c, l, Workers, P) = 0 /\ Gain(c, l, P) \in Int
  <1>1. c \in Threads /\ c \notin Workers
    BY PoolThreadsAssumption DEF Threads
  <1>2. pc[c] \notin {"enroll", "predicate", "waiting"}
    BY DEF IInv, Places, ClientPcs, SchedulePcs
  <1> QED
    BY <1>1, <1>2, ClientChange DEF Gain

LEMMA Amounts ==
  ASSUME IInv
  PROVE  /\ count \in Nat /\ idle \in Nat /\ active \in Int /\ waiters \in Nat
         /\ maxThreads \in Nat /\ Cardinality(Queued) \in Nat /\ Cardinality(signalled) \in Nat
         /\ IsFiniteSet(signalled)
  <1>1. IsFiniteSet(signalled)
    BY FinitelyManyThreads, FS_Subset DEF IInv, TypeOK
  <1> QED
    BY <1>1, FS_CardinalityType DEF IInv, TypeOK, Bucketed

LEMMA QuietClientKeepsIInv ==
  ASSUME IInv, NEW c \in Clients, NEW l \in ClientPcs \cup SchedulePcs, Goto(c, l),
         UNCHANGED <<idle, maxThreads, waiters, lock, signalled, buckets, op, label, executed>>,
         seen' \in [Threads -> Int], terminated' \in BOOLEAN, count' \in Nat,
         count' = count - Gain(c, l, {"release"}),
         active' = active - Gain(c, l, {"countThread"}),
         Asleep = {} \/ count' - count <= Gain(c, l, {"notify"})
  PROVE  IInv'
  <1>1. l \notin {"enroll", "predicate", "waiting"}
    BY DEF ClientPcs, SchedulePcs
  <1>2. Cardinality(Queued)' = Cardinality(Queued)
    BY DEF Queued
  <1>3. Balance(c, l)
    BY <1>2, ClientFacts, Amounts DEF Balance
  <1>4. Asleep' \subseteq Asleep
    BY <1>1 DEF Asleep, Goto, IInv, TypeOK
  <1>5. Covered(c, l)
    BY <1>4, ClientFacts, Amounts DEF Covered
  <1> QED
    BY <1>1, <1>3, <1>5, ClientFacts, QuietMoveKeepsIInv

\* The buckets after an operation was put into one of them.
LEMMA BucketsAfterEnqueue ==
  ASSUME IInv, NEW o \in Operations, NEW b \in Buckets, o \notin Queued,
         buckets' = [buckets EXCEPT ![b] = @ \cup {o}]
  PROVE  /\ buckets' \in [Buckets -> SUBSET Operations] /\ Bucketed'
         /\ Cardinality(Queued)' = Cardinality(Queued) + 1
  <1>1. buckets' \in [Buckets -> SUBSET Operations]
    BY DEF IInv, TypeOK
  <1>2. /\ buckets'[b] = buckets[b] \cup {o}
        /\ \A a \in Buckets : a # b => buckets'[a] = buckets[a]
        /\ \A a \in Buckets : o \notin buckets[a]
    BY DEF IInv, TypeOK, Queued
  <1>3. Queued' = Queued \cup {o}
    BY <1>2 DEF Queued
  <1>4. IsFiniteSet(Queued)
    BY DEF IInv, Bucketed
  <1>5. IsFiniteSet(Queued)' /\ Cardinality(Queued)' = Cardinality(Queued) + 1
    BY <1>3, <1>4, FS_AddElement
  <1>6. \A a, d \in Buckets : a # d => buckets'[a] \cap buckets'[d] = {}
    BY <1>2 DEF IInv, Bucketed
  <1> QED
    BY <1>1, <1>5, <1>6 DEF Bucketed

\* The buckets after an operation was taken from one of them.
LEMMA BucketsAfterTake ==
  ASSUME IInv, NEW b \in Buckets, NEW o \in buckets[b],
         buckets' = [buckets EXCEPT ![b] = @ \ {o}]
  PROVE  /\ buckets' \in [Buckets -> SUBSET Operations] /\ Bucketed'
         /\ Cardinality(Queued)' = Cardinality(Queued) - 1
  <1>1. buckets' \in [Buckets -> SUBSET Operations]
    BY DEF IInv, TypeOK
  <1>2. /\ buckets'[b] = buckets[b] \ {o}
        /\ \A a \in Buckets : a # b => buckets'[a] = buckets[a]
    BY DEF IInv, TypeOK
  <1>3. \A a \in Buckets : a # b => o \notin buckets[a]
    BY DEF IInv, Bucketed
  <1>4. Queued' = Queued \ {o} /\ o \in Queued
    BY <1>2, <1>3 DEF Queued
  <1>5. IsFiniteSet(Queued)
    BY DEF IInv, Bucketed
  <1>6. IsFiniteSet(Queued)' /\ Cardinality(Queued)' = Cardinality(Queued) - 1
    BY <1>4, <1>5, FS_RemoveElement
  <1>7. \A a, d \in Buckets : a # d => buckets'[a] \cap buckets'[d] = {}
    BY <1>2 DEF IInv, Bucketed
  <1> QED
    BY <1>1, <1>6, <1>7 DEF Bucketed

\* Every priority has a bucket, also that of a global queue.
LEMMA BucketOfPriority ==
  \A p \in Priorities : Bucket(p) \in Buckets /\ GlobalQueue(p) \in Priorities
  BY DEF Priorities, Buckets, Bucket, GlobalQueue

LEMMA EnqueueKeepsIInv ==
  ASSUME IInv, NEW c \in Clients, NEW o \in Operations, NEW p \in Priorities, Enqueue(c, o, p)
  PROVE  IInv'
  <1> DEFINE b == Bucket(p)
  <1>0. b \in Buckets
    BY BucketOfPriority
  <1> HIDE DEF b
  <1>1. /\ pc[c] = "idle" /\ Goto(c, "release") /\ o \notin Queued
        /\ buckets' = [buckets EXCEPT ![b] = @ \cup {o}]
        /\ UNCHANGED <<semaphoreVars, counterVars, localVars, executed, terminated>>
    BY PoolThreadsAssumption DEF Enqueue, At, Submitted, b
  <1>2. /\ buckets' \in [Buckets -> SUBSET Operations] /\ Bucketed'
        /\ Cardinality(Queued)' = Cardinality(Queued) + 1
    BY <1>0, <1>1, BucketsAfterEnqueue
  <1>3. \A u \in Threads : pc'[u] = IF u = c THEN "release" ELSE pc[u]
    BY <1>1 DEF IInv, TypeOK, Goto
  <1>4. /\ lock' \in Workers \cup {None} /\ signalled' \subseteq Workers
        /\ op' \in [Workers -> Operations \cup {None}] /\ label' \in [Workers -> Buckets]
        /\ executed' \subseteq Operations /\ seen' \in [Threads -> Int]
        /\ terminated' \in BOOLEAN /\ count' \in Nat
    BY <1>1 DEF IInv, TypeOK
  <1>5. \A w \in Workers : pc'[w] = pc[w]
    BY <1>3, FinitelyManyThreads, ClientFacts
  <1>6. Busy'
    BY <1>1, <1>5 DEF IInv, Busy
  <1>7. Locking'
    BY <1>1, <1>5 DEF IInv, TypeOK, Locking
  <1>8. /\ Gain(c, "release", {"release"}) = 1 /\ Gain(c, "release", {"countThread"}) = 0
        /\ Gain(c, "release", {"notify"}) = 0
    BY <1>1 DEF Gain
  <1>9. Balance(c, "release")
    BY <1>1, <1>2, <1>8, ClientFacts, Amounts DEF Balance
  <1>10. Asleep' = Asleep
    BY <1>1, <1>5 DEF Asleep
  <1>11. Covered(c, "release")
    BY <1>1, <1>8, <1>10, ClientFacts, Amounts DEF Covered
  <1>12. "release" \in ClientPcs
    BY DEF ClientPcs
  <1> QED
    BY <1>1, <1>2, <1>4, <1>6, <1>7, <1>9, <1>11, <1>12, ClientFacts, MoveKeepsIInv

LEMMA ReleaseKeepsIInv ==
  ASSUME IInv, NEW c \in Clients, Release(c)
  PROVE  IInv'
  <1>1. /\ pc[c] = "release" /\ Goto(c, "notify") /\ count' = count + 1
        /\ seen' \in [Threads -> Int] /\ terminated' \in BOOLEAN
    BY DEF Release, At, IInv, TypeOK
  <1> QED
    BY <1>1, Amounts, QuietClientKeepsIInv DEF Release, Gain, ClientPcs

\* m_waiters is zero only if no worker sleeps; otherwise one that does is woken.
LEMMA NotifyOneKeepsIInv ==
  ASSUME IInv, NEW c \in Clients, NotifyOne(c)
  PROVE  IInv'
  <1>1. /\ pc[c] = "notify" /\ Goto(c, "loadActive")
        /\ UNCHANGED <<count, waiters, lock, counterVars, localVars, buckets, executed>>
        /\ seen' \in [Threads -> Int] /\ terminated' \in BOOLEAN
    BY DEF NotifyOne, At, IInv, TypeOK
  <1>2. "loadActive" \in SchedulePcs
    BY DEF SchedulePcs
  <1>3. /\ Gain(c, "loadActive", {"release"}) = 0 /\ Gain(c, "loadActive", {"notify"}) = -1
        /\ Gain(c, "loadActive", {"countThread"}) = 0
    BY <1>1 DEF Gain
  <1>4. waiters = 0 => Asleep = {}
    <2> DEFINE E == {w \in Workers : pc[w] \in EnrolledPcs}
    <2>1. IsFiniteSet(E) /\ waiters = Cardinality(E)
      BY FinitelyManyThreads, FS_Subset DEF IInv, Ledger, Number
    <2>2. waiters = 0 => E = {}
      BY <2>1, FS_EmptySet
    <2> QED
      BY <2>2 DEF Asleep, EnrolledPcs
  <1>5. CASE Asleep = {} /\ signalled' = signalled
    BY <1>1, <1>2, <1>3, <1>5, Amounts, QuietClientKeepsIInv
  <1>6. ASSUME NEW w \in Asleep, signalled' = signalled \cup {w}
        PROVE  IInv'
    <2>1. /\ signalled' \subseteq Workers /\ pc[w] = "waiting" /\ w \in Workers
          /\ w \notin signalled
      BY <1>6 DEF Asleep, IInv, TypeOK
    <2>2. Cardinality(signalled)' = Cardinality(signalled) + 1
      BY <1>6, <2>1, Amounts, FS_AddElement
    <2>3. \A u \in Threads : pc'[u] = IF u = c THEN "loadActive" ELSE pc[u]
      BY <1>1 DEF IInv, TypeOK, Goto
    <2>4. \A v \in Workers : pc'[v] = pc[v]
      BY <2>3, FinitelyManyThreads, ClientFacts
    <2>5. Busy'
      BY <1>1, <2>4 DEF IInv, Busy
    <2>6. Locking'
      BY <1>1, <1>6, <2>1, <2>4 DEF IInv, TypeOK, Locking
    <2>7. Bucketed' /\ Cardinality(Queued)' = Cardinality(Queued)
      BY <1>1 DEF IInv, Bucketed, Queued
    <2>8. Balance(c, "loadActive")
      BY <1>1, <1>3, <2>7, ClientFacts, Amounts DEF Balance
    <2>9. Asleep' \subseteq Asleep
      BY <1>6, <2>4 DEF Asleep
    <2>10. Covered(c, "loadActive")
      BY <1>1, <1>3, <2>2, <2>9, ClientFacts, Amounts DEF Covered
    <2>11. /\ lock' \in Workers \cup {None} /\ buckets' \in [Buckets -> SUBSET Operations]
           /\ op' \in [Workers -> Operations \cup {None}] /\ label' \in [Workers -> Buckets]
           /\ executed' \subseteq Operations /\ count' \in Nat
      BY <1>1 DEF IInv, TypeOK
    <2> QED
      BY <1>1, <1>2, <2>1, <2>5, <2>6, <2>7, <2>8, <2>10, <2>11, ClientFacts, MoveKeepsIInv
  <1>7. {w \in Workers : pc[w] = "waiting"} \ signalled = Asleep
    BY DEF Asleep
  <1> QED
    BY <1>4, <1>5, <1>6, <1>7 DEF NotifyOne
-----------------------------------------------------------------------------
(* schedule(), by a client or by a worker that blocks *)

\* A step of schedule() that starts no thread; m_active_threads changes when it
\* leaves the place where the thread is counted.
LEMMA ScheduleMoveKeepsIInv ==
  ASSUME IInv, NEW t \in Threads, pc[t] \in SchedulePcs,
         NEW l \in {"loadIdle", "loadMax", Scheduled(t)}, Goto(t, l),
         UNCHANGED <<semaphoreVars, idle, maxThreads, buckets, op, label, executed>>,
         seen' \in [Threads -> Int], terminated' \in BOOLEAN,
         active' = active + (IF pc[t] = "countThread" THEN 1 ELSE 0)
  PROVE  IInv'
  <1>1. CASE t \in Clients
    <2>1. l \in {"loadIdle", "loadMax", "idle"}
      BY <1>1 DEF Scheduled
    <2>2. /\ Gain(t, l, {"release"}) = 0 /\ Gain(t, l, {"notify"}) = 0
          /\ Gain(t, l, {"countThread"}) = -(IF pc[t] = "countThread" THEN 1 ELSE 0)
      BY <2>1 DEF Gain, SchedulePcs
    <2>3. l \in ClientPcs \cup SchedulePcs
      BY <2>1 DEF ClientPcs, SchedulePcs
    <2>4. active' = active - Gain(t, l, {"countThread"})
      BY <2>2, Amounts
    <2> QED
      BY <1>1, <2>2, <2>3, <2>4, Amounts, QuietClientKeepsIInv
  <1>2. CASE t \in Workers
    <2>1. l \in {"loadIdle", "loadMax", "blocked"}
      BY <1>2, PoolThreadsAssumption DEF Scheduled
    <2>2. /\ Gain(t, l, PermitPcs) = 0 /\ Gain(t, l, IdlePcs) = 0 /\ Gain(t, l, BlockPcs) = 0
          /\ Gain(t, l, ActivePcs) = 0 /\ Gain(t, l, TryingPcs) = 0
      BY <2>1 DEF Gain, PermitPcs, IdlePcs, ActivePcs, RetiredPcs, BlockPcs, TryingPcs,
                  WorkerPcs, SchedulePcs
    <2>3. Gain(t, l, {"countThread"}) = -(IF pc[t] = "countThread" THEN 1 ELSE 0)
      BY <2>1 DEF Gain
    <2>4. /\ l \in WorkerPcs \cup SchedulePcs /\ l \in BusyPcs /\ pc[t] \in BusyPcs
          /\ l \notin {"enroll", "predicate", "waiting"}
          /\ pc[t] \notin {"enroll", "predicate", "waiting"}
      BY <2>1 DEF WorkerPcs, SchedulePcs, BusyPcs, BlockPcs
    <2>5. active' = active + Gain(t, l, ActivePcs) - Gain(t, l, {"countThread"})
      BY <2>2, <2>3, Amounts
    <2> QED
      BY <1>2, <2>2, <2>4, <2>5, Amounts, QuietWorkerKeepsIInv
  <1> QED
    BY <1>1, <1>2 DEF Threads

\* Thread t has started the thread of worker w.
Spawned(t, w) == pc' = [pc EXCEPT ![w] = "loop", ![t] = "countThread"]

\* The new worker w is one more that is active and about to try, and t is about
\* to count it.
LEMMA SpawnNumbers ==
  ASSUME IInv, NEW t \in Threads, NEW w \in Workers, pc[t] = "loadMax", pc[w] = "none",
         Spawned(t, w)
  PROVE  /\ \A P \in {PermitPcs, IdlePcs, EnrolledPcs, BlockPcs} :
              Number(pc', Workers, P) = Number(pc, Workers, P)
         /\ \A P \in {{"release"}, {"notify"}} :
              Number(pc', Clients, P) = Number(pc, Clients, P)
         /\ Number(pc', Workers, ActivePcs) = Number(pc, Workers, ActivePcs) + 1
         /\ Number(pc', Workers, TryingPcs) = Number(pc, Workers, TryingPcs) + 1
         /\ Number(pc', Threads, {"countThread"}) = Number(pc, Threads, {"countThread"}) + 1
  <1>1. PICK f : f = [u \in Threads |-> IF u = w THEN "loop" ELSE pc[u]]
    OBVIOUS
  <1>2. \A u \in Threads : f[u] = IF u = w THEN "loop" ELSE pc[u]
    BY <1>1
  <1>3. /\ \A u \in Threads : pc'[u] = IF u = t THEN "countThread" ELSE f[u]
        /\ f[t] = "loadMax" /\ w # t /\ w \in Threads
    BY <1>2, FinitelyManyThreads DEF Spawned, IInv, TypeOK
  <1>4. ASSUME NEW T \in SUBSET Threads, IsFiniteSet(T), NEW P
        PROVE  /\ Counts(w, "loop", T, P) = Counts(w, "none", T, P)
                  /\ Counts(t, "countThread", T, P) = Counts(t, "loadMax", T, P)
                    => Number(pc', T, P) = Number(pc, T, P)
               /\ Counts(w, "loop", T, P) = 1 /\ Counts(w, "none", T, P) = 0
                  /\ Counts(t, "countThread", T, P) = Counts(t, "loadMax", T, P)
                    => Number(pc', T, P) = Number(pc, T, P) + 1
               /\ Counts(w, "loop", T, P) = 0 /\ Counts(w, "none", T, P) = 0
                  /\ Counts(t, "countThread", T, P) = 1 /\ Counts(t, "loadMax", T, P) = 0
                    => Number(pc', T, P) = Number(pc, T, P) + 1
    <2>1. \A u \in T : f[u] = IF u = w THEN "loop" ELSE pc[u]
      BY <1>2
    <2>2. \A u \in T : pc'[u] = IF u = t THEN "countThread" ELSE f[u]
      BY <1>3
    <2>3. Number(f, T, P) = Number(pc, T, P) + Counts(w, "loop", T, P) - Counts(w, "none", T, P)
      BY <1>4, <2>1, NumberAfterMove
    <2>4. Number(pc', T, P)
            = Number(f, T, P) + Counts(t, "countThread", T, P) - Counts(t, "loadMax", T, P)
      BY <1>3, <1>4, <2>2, NumberAfterMove
    <2>5. /\ Counts(w, "loop", T, P) \in Int /\ Counts(w, "none", T, P) \in Int
          /\ Counts(t, "countThread", T, P) \in Int /\ Counts(t, "loadMax", T, P) \in Int
      BY DEF Counts
    <2>6. Number(pc, T, P) \in Nat
      BY <1>4, NumberType
    <2> QED
      BY <2>3, <2>4, <2>5, <2>6
  <1>5. ASSUME NEW P \in {PermitPcs, IdlePcs, EnrolledPcs, BlockPcs}
        PROVE  /\ Counts(w, "loop", Workers, P) = Counts(w, "none", Workers, P)
               /\ Counts(t, "countThread", Workers, P) = Counts(t, "loadMax", Workers, P)
    BY <1>5 DEF Counts, PermitPcs, IdlePcs, EnrolledPcs, BlockPcs, SchedulePcs
  <1>6. ASSUME NEW P \in {{"release"}, {"notify"}}
        PROVE  /\ Counts(w, "loop", Clients, P) = Counts(w, "none", Clients, P)
               /\ Counts(t, "countThread", Clients, P) = Counts(t, "loadMax", Clients, P)
    BY <1>6 DEF Counts
  <1>7. ASSUME NEW P \in {ActivePcs, TryingPcs}
        PROVE  /\ Counts(w, "loop", Workers, P) = 1 /\ Counts(w, "none", Workers, P) = 0
               /\ Counts(t, "countThread", Workers, P) = Counts(t, "loadMax", Workers, P)
    BY <1>7 DEF Counts, ActivePcs, RetiredPcs, TryingPcs, WorkerPcs, SchedulePcs
  <1>8. LET P == {"countThread"}
        IN  /\ Counts(w, "loop", Threads, P) = 0 /\ Counts(w, "none", Threads, P) = 0
            /\ Counts(t, "countThread", Threads, P) = 1 /\ Counts(t, "loadMax", Threads, P) = 0
    BY DEF Counts
  <1>9. \A P \in {PermitPcs, IdlePcs, EnrolledPcs, BlockPcs} :
          Number(pc', Workers, P) = Number(pc, Workers, P)
    BY <1>4, <1>5, FinitelyManyThreads
  <1>10. \A P \in {{"release"}, {"notify"}} :
          Number(pc', Clients, P) = Number(pc, Clients, P)
    BY <1>4, <1>6, FinitelyManyThreads
  <1>11. \A P \in {ActivePcs, TryingPcs} :
          Number(pc', Workers, P) = Number(pc, Workers, P) + 1
    BY <1>4, <1>7, FinitelyManyThreads
  <1>12. Number(pc', Threads, {"countThread"}) = Number(pc, Threads, {"countThread"}) + 1
    BY <1>4, <1>8, FinitelyManyThreads
  <1> QED
    BY <1>9, <1>10, <1>11, <1>12

LEMMA SpawnKeepsIInv ==
  ASSUME IInv, NEW t \in Threads, NEW w \in Workers, pc[t] = "loadMax", pc[w] = "none",
         Spawned(t, w),
         UNCHANGED <<semaphoreVars, counterVars, localVars, buckets, executed, terminated>>
  PROVE  IInv'
  <1>1. \A u \in Threads : pc'[u] = IF u = t THEN "countThread" ELSE IF u = w THEN "loop" ELSE pc[u]
    BY FinitelyManyThreads DEF Spawned, IInv, TypeOK
  <1>2. pc' \in [Threads -> ClientPcs \cup SchedulePcs \cup WorkerPcs]
    BY DEF Spawned, IInv, TypeOK, SchedulePcs, WorkerPcs
  <1>3. TypeOK'
    BY <1>2 DEF IInv, TypeOK
  <1>4. Places'
    BY <1>1, FinitelyManyThreads, PoolThreadsAssumption DEF IInv, Places, SchedulePcs, WorkerPcs
  <1>5. Busy'
    <2>1. \A v \in Workers : pc'[v] \in BusyPcs <=> pc[v] \in BusyPcs
      BY <1>1, FinitelyManyThreads DEF BusyPcs, BlockPcs, SchedulePcs
    <2> QED
      BY <2>1 DEF IInv, Busy
  <1>6. Bucketed'
    BY DEF IInv, Bucketed, Queued
  <1>7. Locking'
    BY <1>1, FinitelyManyThreads DEF IInv, TypeOK, Locking
  <1>8. /\ Number(pc, Workers, ActivePcs) \in Nat /\ Number(pc, Threads, {"countThread"}) \in Nat
        /\ Number(pc, Clients, {"notify"}) \in Nat /\ Number(pc, Workers, TryingPcs) \in Nat
    BY FinitelyManyThreads, NumberType
  <1>9. Ledger'
    <2>1. Cardinality(Queued)' = Cardinality(Queued)
      BY DEF Queued
    <2>2. active = Number(pc, Workers, ActivePcs) + 1 - (Number(pc, Threads, {"countThread"}) + 1)
      BY <1>8 DEF IInv, Ledger
    <2>3. Cardinality(Queued)' = count' + Number(pc', Workers, PermitPcs)
                                       + Number(pc', Clients, {"release"})
      BY <2>1, SpawnNumbers DEF IInv, Ledger
    <2>4. active' = Number(pc', Workers, ActivePcs) - Number(pc', Threads, {"countThread"})
      <3>1. /\ Number(pc', Workers, ActivePcs) = Number(pc, Workers, ActivePcs) + 1
            /\ Number(pc', Threads, {"countThread"}) = Number(pc, Threads, {"countThread"}) + 1
            /\ active' = active
        BY SpawnNumbers
      <3> QED
        BY <1>8, <2>2, <3>1
    <2>5. /\ idle' = Number(pc', Workers, IdlePcs)
          /\ waiters' = Number(pc', Workers, EnrolledPcs)
          /\ maxThreads' = MaxThreads + Number(pc', Workers, BlockPcs)
      BY SpawnNumbers DEF IInv, Ledger
    <2> QED
      BY <2>3, <2>4, <2>5 DEF Ledger
  <1>10. Wakeups'
    <2>1. Asleep' = Asleep
      <3>1. \A v \in Workers : pc'[v] = "waiting" <=> pc[v] = "waiting"
        BY <1>1, FinitelyManyThreads
      <3> QED
        BY <3>1 DEF Asleep
    <2>2. Asleep # {} => count <= Cardinality(signalled) + Number(pc, Clients, {"notify"})
                                  + (Number(pc, Workers, TryingPcs) + 1)
      BY <1>8, Amounts DEF IInv, Wakeups
    <2> QED
      BY <2>1, <2>2, SpawnNumbers DEF Wakeups
  <1> QED
    BY <1>3, <1>4, <1>5, <1>6, <1>7, <1>9, <1>10 DEF IInv

LEMMA ScheduleStepKeepsIInv ==
  ASSUME IInv, NEW t \in Threads, ScheduleStep(t)
  PROVE  IInv'
  <1>1. /\ seen \in [Threads -> Int] /\ terminated \in BOOLEAN /\ active \in Int
    BY DEF IInv, TypeOK
  <1>2. CASE LoadActive(t)
    <2>1. pc[t] = "loadActive" /\ "loadActive" \in SchedulePcs /\ Goto(t, "loadIdle")
      BY <1>2 DEF LoadActive, At, SchedulePcs
    <2>2. seen' \in [Threads -> Int] /\ terminated' \in BOOLEAN /\ active' = active
      BY <1>1, <1>2 DEF LoadActive
    <2> QED
      BY <1>1, <1>2, <2>1, <2>2, ScheduleMoveKeepsIInv DEF LoadActive
  <1>3. CASE LoadIdle(t)
    <2>1. pc[t] = "loadIdle" /\ "loadIdle" \in SchedulePcs
      BY <1>3 DEF LoadIdle, At, SchedulePcs
    <2>2. PICK l \in {"loadMax", Scheduled(t)} : Goto(t, l)
      BY <1>3 DEF LoadIdle
    <2>3. terminated' \in BOOLEAN
      BY <1>3, Zenon DEF LoadIdle
    <2>4. seen' \in [Threads -> Int] /\ active' = active
      BY <1>1, <1>3 DEF LoadIdle
    <2> QED
      BY <1>1, <1>3, <2>1, <2>2, <2>3, <2>4, ScheduleMoveKeepsIInv DEF LoadIdle
  <1>4. CASE LoadMax(t)
    <2>1. pc[t] = "loadMax" /\ "loadMax" \in SchedulePcs
      BY <1>4 DEF LoadMax, At, SchedulePcs
    <2>2. CASE seen[t] < maxThreads
      BY <1>4, <2>1, <2>2, SpawnKeepsIInv DEF LoadMax, Spawn, Spawned
    <2>3. CASE ~(seen[t] < maxThreads)
      <3>1. Goto(t, Scheduled(t)) /\ seen' \in [Threads -> Int] /\ terminated' \in BOOLEAN
        BY <1>1, <1>4, <2>3 DEF LoadMax
      <3>2. active' = active
        BY <1>4 DEF LoadMax
      <3> QED
        BY <1>1, <1>4, <2>1, <3>1, <3>2, ScheduleMoveKeepsIInv DEF LoadMax
    <2> QED
      BY <2>2, <2>3
  <1>5. CASE CountThread(t)
    <2>1. pc[t] = "countThread" /\ "countThread" \in SchedulePcs /\ Goto(t, Scheduled(t))
      BY <1>5 DEF CountThread, At, SchedulePcs
    <2>2. seen' \in [Threads -> Int] /\ terminated' \in BOOLEAN /\ active' = active + 1
      BY <1>1, <1>5 DEF CountThread
    <2> QED
      BY <1>1, <1>5, <2>1, <2>2, ScheduleMoveKeepsIInv DEF CountThread
  <1> QED
    BY <1>2, <1>3, <1>4, <1>5 DEF ScheduleStep
-----------------------------------------------------------------------------
(* wait_acquire() *)

\* A worker stays in wait_acquire(), with a permit if it goes to "woken".
LEMMA WaitMoveKeepsIInv ==
  ASSUME IInv, NEW w \in Workers, pc[w] \in {"test", "enroll", "predicate", "waiting"},
         NEW l \in IdlePcs, Goto(w, l),
         UNCHANGED <<counterVars, localVars, buckets, executed, terminated>>,
         lock' \in Workers \cup {None}, signalled' \subseteq Workers, Locking',
         waiters' = waiters + Gain(w, l, EnrolledPcs),
         count' \in Nat, count' = IF l = "woken" THEN count - 1 ELSE count, Covered(w, l)
  PROVE  IInv'
  <1>1. w \in Threads /\ w \notin Clients /\ l \in WorkerPcs
    BY PoolThreadsAssumption DEF Threads, WorkerPcs
  <1>2. \A P : /\ Change(w, l, Workers, P) = Gain(w, l, P)
               /\ Change(w, l, Threads, P) = Gain(w, l, P)
               /\ Change(w, l, Clients, P) = 0 /\ Gain(w, l, P) \in Int
    BY WorkerChange DEF Gain
  <1>3. /\ Gain(w, l, IdlePcs) = 0 /\ Gain(w, l, ActivePcs) = 0
        /\ Gain(w, l, BlockPcs) = 0 /\ Gain(w, l, {"countThread"}) = 0
    BY DEF Gain, IdlePcs, ActivePcs, RetiredPcs, BlockPcs, WorkerPcs, SchedulePcs
  <1>4. Gain(w, l, PermitPcs) = IF l = "woken" THEN 1 ELSE 0
    BY DEF Gain, PermitPcs, IdlePcs
  <1>5. Cardinality(Queued)' = Cardinality(Queued) /\ Bucketed'
    BY DEF Queued, IInv, Bucketed
  <1>6. Balance(w, l)
    BY <1>2, <1>3, <1>4, <1>5, Amounts DEF Balance
  <1>7. Busy'
    <2>1. \A v \in Workers : pc'[v] \in BusyPcs <=> pc[v] \in BusyPcs
      BY FinitelyManyThreads DEF IInv, TypeOK, Goto, BusyPcs, BlockPcs, SchedulePcs, IdlePcs
    <2> QED
      BY <2>1 DEF IInv, Busy
  <1>8. /\ buckets' \in [Buckets -> SUBSET Operations]
        /\ op' \in [Workers -> Operations \cup {None}] /\ label' \in [Workers -> Buckets]
        /\ executed' \subseteq Operations /\ seen' \in [Threads -> Int]
        /\ terminated' \in BOOLEAN
    BY DEF IInv, TypeOK
  <1> QED
    BY <1>1, <1>5, <1>6, <1>7, <1>8, MoveKeepsIInv

\* Whoever takes a permit was trying, or was the only one to be notified with it.
LEMMA AcquiredIsCovered ==
  ASSUME IInv, NEW w \in Workers, pc[w] \in {"test", "predicate", "waiting"},
         Goto(w, "woken"), count' = count - 1,
         \/ signalled' = signalled
         \/ pc[w] = "waiting" /\ signalled' = signalled \ {w}
  PROVE  Covered(w, "woken")
  <1>1. /\ Change(w, "woken", Clients, {"notify"}) = 0
        /\ Change(w, "woken", Workers, TryingPcs) = IF pc[w] = "waiting" THEN 0 ELSE -1
    BY WorkerChange DEF TryingPcs
  <1>2. Asleep' \subseteq Asleep
    BY FinitelyManyThreads DEF Asleep, Goto, IInv, TypeOK
  <1>3. CASE signalled' = signalled
    BY <1>1, <1>2, <1>3, Amounts DEF Covered
  <1>4. CASE pc[w] = "waiting" /\ signalled' = signalled \ {w}
    <2>1. Cardinality(signalled \ {w}) \in {Cardinality(signalled), Cardinality(signalled) - 1}
      BY Amounts, FS_RemoveElement
    <2> QED
      BY <1>1, <1>2, <1>4, <2>1, Amounts DEF Covered
  <1> QED
    BY <1>3, <1>4

\* Where the threads are after a move of worker w.
LEMMA WorkersAfterGoto ==
  ASSUME IInv, NEW w \in Workers, NEW l, Goto(w, l)
  PROVE  /\ \A v \in Workers : pc'[v] = IF v = w THEN l ELSE pc[v]
         /\ lock \in Workers \cup {None} /\ None \notin Workers
         /\ signalled \subseteq Workers /\ Locking
  BY PoolThreadsAssumption, FinitelyManyThreads DEF IInv, TypeOK, Goto

LEMMA TestKeepsIInv ==
  ASSUME IInv, NEW w \in Workers, Test(w)
  PROVE  IInv'
  <1>1. /\ pc[w] = "test" /\ lock = None
        /\ UNCHANGED <<waiters, signalled, counterVars, localVars, buckets, executed, terminated>>
    BY DEF Test, At
  <1>2. CASE count > 0
    <2>1. Goto(w, "woken") /\ count' = count - 1 /\ lock' = None /\ count' \in Nat
      BY <1>2, Amounts DEF Test, TryAcquire
    <2>2. Locking'
      BY <1>1, <2>1, WorkersAfterGoto DEF Locking
    <2>3. Gain(w, "woken", EnrolledPcs) = 0 /\ "woken" \in IdlePcs
      BY <1>1 DEF Gain, EnrolledPcs, IdlePcs
    <2>4. Covered(w, "woken")
      BY <1>1, <2>1, AcquiredIsCovered
    <2> QED
      BY <1>1, <2>1, <2>2, <2>3, <2>4, Amounts, WorkersAfterGoto, WaitMoveKeepsIInv
  <1>3. CASE count = 0
    <2>1. Goto(w, "enroll") /\ count' = count /\ lock' = w
      BY <1>3 DEF Test, TryAcquire
    <2>2. Locking'
      BY <1>1, <2>1, WorkersAfterGoto DEF Locking
    <2>3. Gain(w, "enroll", EnrolledPcs) = 0 /\ "enroll" \in IdlePcs
      BY <1>1 DEF Gain, EnrolledPcs, IdlePcs
    <2>4. Covered(w, "enroll")
      BY <1>3, <2>1 DEF Covered
    <2> QED
      BY <1>1, <2>1, <2>2, <2>3, <2>4, Amounts, WorkersAfterGoto, WaitMoveKeepsIInv
  <1> QED
    BY <1>2, <1>3, Amounts

LEMMA EnrollKeepsIInv ==
  ASSUME IInv, NEW w \in Workers, Enroll(w)
  PROVE  IInv'
  <1>1. /\ pc[w] = "enroll" /\ Goto(w, "predicate") /\ waiters' = waiters + 1
        /\ UNCHANGED <<count, lock, signalled, counterVars, localVars, buckets, executed,
                       terminated>>
    BY DEF Enroll, At
  <1>2. Locking'
    BY <1>1, WorkersAfterGoto DEF Locking
  <1>3. Gain(w, "predicate", EnrolledPcs) = 1 /\ "predicate" \in IdlePcs
    BY <1>1 DEF Gain, EnrolledPcs, IdlePcs
  <1>4. Asleep' \subseteq Asleep
    BY <1>1, WorkersAfterGoto DEF Asleep
  <1>5. /\ Change(w, "predicate", Clients, {"notify"}) = 0
        /\ Change(w, "predicate", Workers, TryingPcs) = 0
    BY <1>1, WorkerChange DEF TryingPcs
  <1>6. Covered(w, "predicate")
    BY <1>1, <1>4, <1>5, Amounts DEF Covered
  <1> QED
    BY <1>1, <1>2, <1>3, <1>6, Amounts, WorkersAfterGoto, WaitMoveKeepsIInv

\* The last test before sleeping: only without a permit does the worker sleep.
LEMMA PredicateKeepsIInv ==
  ASSUME IInv, NEW w \in Workers, Predicate(w)
  PROVE  IInv'
  <1>1. /\ pc[w] = "predicate" /\ lock' = None
        /\ UNCHANGED <<signalled, counterVars, localVars, buckets, executed, terminated>>
    BY DEF Predicate, At
  <1>2. CASE count > 0
    <2>1. /\ Goto(w, "woken") /\ count' = count - 1 /\ waiters' = waiters - 1 /\ count' \in Nat
      BY <1>2, Amounts DEF Predicate, TryAcquire
    <2>2. Locking'
      BY <1>1, <2>1, WorkersAfterGoto DEF Locking
    <2>3. Gain(w, "woken", EnrolledPcs) = -1 /\ "woken" \in IdlePcs
      BY <1>1 DEF Gain, EnrolledPcs, IdlePcs
    <2>4. Covered(w, "woken")
      BY <1>1, <2>1, AcquiredIsCovered
    <2> QED
      BY <1>1, <2>1, <2>2, <2>3, <2>4, Amounts, WorkersAfterGoto, WaitMoveKeepsIInv
  <1>3. CASE count = 0
    <2>1. Goto(w, "waiting") /\ count' = count /\ waiters' = waiters
      BY <1>3 DEF Predicate, TryAcquire
    <2>2. Locking'
      BY <1>1, <2>1, WorkersAfterGoto DEF Locking
    <2>3. Gain(w, "waiting", EnrolledPcs) = 0 /\ "waiting" \in IdlePcs
      BY <1>1 DEF Gain, EnrolledPcs, IdlePcs
    <2>4. Covered(w, "waiting")
      BY <1>3, <2>1 DEF Covered
    <2> QED
      BY <1>1, <2>1, <2>2, <2>3, <2>4, Amounts, WorkersAfterGoto, WaitMoveKeepsIInv
  <1> QED
    BY <1>2, <1>3, Amounts

\* Woken by m_cond, spuriously or by the timeout: the predicate decides.
LEMMA WakeKeepsIInv ==
  ASSUME IInv, NEW w \in Workers, Wake(w) \/ Timeout(w)
  PROVE  IInv'
  <1>1. /\ pc[w] = "waiting" /\ lock = None /\ lock' = None /\ signalled' = signalled \ {w}
        /\ UNCHANGED <<counterVars, localVars, buckets, executed, terminated>>
    BY DEF Wake, Timeout, At
  <1>2. signalled' \subseteq Workers
    BY <1>1 DEF IInv, TypeOK
  <1>3. CASE count > 0
    <2>1. /\ Goto(w, "woken") /\ count' = count - 1 /\ waiters' = waiters - 1 /\ count' \in Nat
      BY <1>3, Amounts DEF Wake, Timeout, TryAcquire
    <2>2. Locking'
      BY <1>1, <2>1, WorkersAfterGoto DEF Locking
    <2>3. Gain(w, "woken", EnrolledPcs) = -1 /\ "woken" \in IdlePcs
      BY <1>1 DEF Gain, EnrolledPcs, IdlePcs
    <2>4. Covered(w, "woken")
      BY <1>1, <2>1, AcquiredIsCovered
    <2> QED
      BY <1>1, <1>2, <2>1, <2>2, <2>3, <2>4, Amounts, WaitMoveKeepsIInv
  <1>4. CASE count = 0 /\ Wake(w)
    <2>1. Goto(w, "waiting") /\ count' = count /\ waiters' = waiters
      BY <1>4 DEF Wake, TryAcquire
    <2>2. Locking'
      BY <1>1, <2>1, WorkersAfterGoto DEF Locking
    <2>3. Gain(w, "waiting", EnrolledPcs) = 0 /\ "waiting" \in IdlePcs
      BY <1>1 DEF Gain, EnrolledPcs, IdlePcs
    <2>4. Covered(w, "waiting")
      BY <1>4, <2>1 DEF Covered
    <2> QED
      BY <1>1, <1>2, <2>1, <2>2, <2>3, <2>4, Amounts, WaitMoveKeepsIInv
  <1>5. CASE count = 0 /\ Timeout(w)
    <2>1. Goto(w, "expired") /\ count' = count /\ waiters' = waiters - 1
      BY <1>5 DEF Timeout, TryAcquire
    <2>2. Locking'
      BY <1>1, <2>1, WorkersAfterGoto DEF Locking
    <2>3. Gain(w, "expired", EnrolledPcs) = -1 /\ "expired" \in IdlePcs
      BY <1>1 DEF Gain, EnrolledPcs, IdlePcs
    <2>4. Covered(w, "expired")
      BY <1>5, <2>1 DEF Covered
    <2> QED
      BY <1>1, <1>2, <2>1, <2>2, <2>3, <2>4, Amounts, WaitMoveKeepsIInv
  <1> QED
    BY <1>3, <1>4, <1>5, Amounts
-----------------------------------------------------------------------------
(* Searching an operation and being done with it *)

\* The next bucket to search, and the first one.
LEMMA NextBucket == 0 \in Buckets /\ \A b \in Buckets : b \in Int
  BY DEF Buckets

LEMMA SearchKeepsIInv ==
  ASSUME IInv, NEW w \in Workers, Search(w)
  PROVE  IInv'
  <1>1. /\ pc[w] = "search" /\ label[w] \in Buckets
        /\ UNCHANGED <<semaphoreVars, counterVars, seen, executed, terminated>>
    BY DEF Search, At, IInv, TypeOK
  <1>2. CASE buckets[label[w]] = {}
    <2>1. /\ label' = [label EXCEPT ![w] = IF @ + 1 \in Buckets THEN @ + 1 ELSE 0]
          /\ UNCHANGED <<buckets, op, pc>>
      BY <1>2 DEF Search
    <2>2. label' \in [Workers -> Buckets]
      BY <2>1, NextBucket DEF IInv, TypeOK
    <2>3. TypeOK'
      BY <1>1, <2>1, <2>2 DEF IInv, TypeOK
    <2>4. Places' /\ Busy' /\ Bucketed' /\ Locking'
      BY <1>1, <2>1 DEF IInv, Places, Busy, Bucketed, Locking, Queued
    <2>5. Ledger' /\ Wakeups'
      BY <1>1, <2>1 DEF IInv, Ledger, Wakeups, Asleep, Queued, Number
    <2> QED
      BY <2>3, <2>4, <2>5 DEF IInv
  <1>3. ASSUME NEW o \in buckets[label[w]],
               buckets' = [buckets EXCEPT ![label[w]] = @ \ {o}],
               op' = [op EXCEPT ![w] = o], label' = [label EXCEPT ![w] = 0], Goto(w, "run")
        PROVE  IInv'
    <2>1. /\ buckets' \in [Buckets -> SUBSET Operations] /\ Bucketed'
          /\ Cardinality(Queued)' = Cardinality(Queued) - 1
      BY <1>1, <1>3, BucketsAfterTake
    <2>2. o \in Operations /\ o # None
      BY <1>1, <1>3, PoolThreadsAssumption DEF IInv, TypeOK
    <2>3. op' \in [Workers -> Operations \cup {None}] /\ label' \in [Workers -> Buckets]
      BY <1>3, <2>2, NextBucket DEF IInv, TypeOK
    <2>4. /\ \A v \in Workers : pc'[v] = IF v = w THEN "run" ELSE pc[v]
          /\ \A v \in Workers : op'[v] = IF v = w THEN o ELSE op[v]
      BY <1>3, WorkersAfterGoto DEF IInv, TypeOK
    <2>5. Busy'
      BY <2>2, <2>4 DEF IInv, Busy, BusyPcs
    <2>6. Locking'
      BY <1>1, <2>4, <1>3, WorkersAfterGoto DEF Locking
    <2>7. /\ Gain(w, "run", PermitPcs) = -1 /\ Gain(w, "run", IdlePcs) = 0
          /\ Gain(w, "run", ActivePcs) = 0 /\ Gain(w, "run", {"countThread"}) = 0
          /\ Gain(w, "run", EnrolledPcs) = 0 /\ Gain(w, "run", BlockPcs) = 0
          /\ Gain(w, "run", TryingPcs) = 0
      BY <1>1 DEF Gain, PermitPcs, IdlePcs, ActivePcs, RetiredPcs, EnrolledPcs, BlockPcs,
                  TryingPcs, WorkerPcs, SchedulePcs
    <2>8. \A P : /\ Change(w, "run", Workers, P) = Gain(w, "run", P)
                 /\ Change(w, "run", Threads, P) = Gain(w, "run", P)
                 /\ Change(w, "run", Clients, P) = 0
      BY WorkerChange DEF Gain
    <2>9. Balance(w, "run")
      BY <1>1, <2>1, <2>7, <2>8, Amounts DEF Balance
    <2>10. Asleep' \subseteq Asleep
      BY <1>1, <2>4 DEF Asleep
    <2>11. Covered(w, "run")
      BY <1>1, <2>7, <2>8, <2>10, Amounts DEF Covered
    <2>12. /\ lock' \in Workers \cup {None} /\ signalled' \subseteq Workers
           /\ executed' \subseteq Operations /\ seen' \in [Threads -> Int]
           /\ terminated' \in BOOLEAN /\ count' \in Nat
      BY <1>1 DEF IInv, TypeOK
    <2>13. w \in Threads /\ w \notin Clients /\ "run" \in WorkerPcs
      BY PoolThreadsAssumption DEF Threads, WorkerPcs
    <2> QED
      BY <1>3, <2>1, <2>3, <2>5, <2>6, <2>9, <2>11, <2>12, <2>13, MoveKeepsIInv
  <1> QED
    BY <1>2, <1>3 DEF Search

LEMMA FinishKeepsIInv ==
  ASSUME IInv, NEW w \in Workers, Finish(w)
  PROVE  IInv'
  <1>1. /\ pc[w] = "finish" /\ Goto(w, "loop") /\ op' = [op EXCEPT ![w] = None]
        /\ executed' = executed \cup {op[w]}
        /\ UNCHANGED <<semaphoreVars, counterVars, seen, label, buckets, terminated>>
    BY DEF Finish, At
  <1>2. op[w] \in Operations
    BY <1>1 DEF IInv, TypeOK, Busy, BusyPcs
  <1>3. op' \in [Workers -> Operations \cup {None}] /\ executed' \subseteq Operations
    BY <1>1, <1>2 DEF IInv, TypeOK
  <1>4. /\ \A v \in Workers : pc'[v] = IF v = w THEN "loop" ELSE pc[v]
        /\ \A v \in Workers : op'[v] = IF v = w THEN None ELSE op[v]
    BY <1>1, WorkersAfterGoto DEF IInv, TypeOK
  <1>5. Busy'
    BY <1>4 DEF IInv, Busy, BusyPcs, BlockPcs, SchedulePcs
  <1>6. Locking'
    BY <1>1, <1>4, WorkersAfterGoto DEF Locking
  <1>7. /\ Gain(w, "loop", PermitPcs) = 0 /\ Gain(w, "loop", IdlePcs) = 0
        /\ Gain(w, "loop", ActivePcs) = 0 /\ Gain(w, "loop", {"countThread"}) = 0
        /\ Gain(w, "loop", EnrolledPcs) = 0 /\ Gain(w, "loop", BlockPcs) = 0
        /\ Gain(w, "loop", TryingPcs) = 1
    BY <1>1 DEF Gain, PermitPcs, IdlePcs, ActivePcs, RetiredPcs, EnrolledPcs, BlockPcs,
                TryingPcs, WorkerPcs, SchedulePcs
  <1>8. \A P : /\ Change(w, "loop", Workers, P) = Gain(w, "loop", P)
               /\ Change(w, "loop", Threads, P) = Gain(w, "loop", P)
               /\ Change(w, "loop", Clients, P) = 0
    BY WorkerChange DEF Gain
  <1>9. Cardinality(Queued)' = Cardinality(Queued) /\ Bucketed'
    BY <1>1 DEF Queued, IInv, Bucketed
  <1>10. Balance(w, "loop")
    BY <1>1, <1>7, <1>8, <1>9, Amounts DEF Balance
  <1>11. Asleep' \subseteq Asleep
    BY <1>1, <1>4 DEF Asleep
  <1>12. Covered(w, "loop")
    BY <1>1, <1>7, <1>8, <1>11, Amounts DEF Covered
  <1>13. /\ lock' \in Workers \cup {None} /\ signalled' \subseteq Workers
         /\ buckets' \in [Buckets -> SUBSET Operations] /\ label' \in [Workers -> Buckets]
         /\ seen' \in [Threads -> Int] /\ terminated' \in BOOLEAN /\ count' \in Nat
    BY <1>1 DEF IInv, TypeOK
  <1>14. w \in Threads /\ w \notin Clients /\ "loop" \in WorkerPcs
    BY PoolThreadsAssumption DEF Threads, WorkerPcs
  <1> QED
    BY <1>1, <1>3, <1>5, <1>6, <1>9, <1>10, <1>12, <1>13, <1>14, MoveKeepsIInv

-----------------------------------------------------------------------------
(* The theorems *)

LEMMA Initially == Init => IInv
  <1> SUFFICES ASSUME Init PROVE IInv
    OBVIOUS
  <1>1. /\ \A c \in Clients : c \in Threads /\ pc[c] = "idle"
        /\ \A w \in Workers : w \in Threads /\ pc[w] = "none"
        /\ \A t \in Threads : pc[t] \in {"idle", "none"}
        /\ pc \in [Threads -> {"idle", "none"}]
    BY PoolThreadsAssumption DEF Init, NewThreadpool, NewSemaphore, Threads
  <1>2. \A P \in {PermitPcs, IdlePcs, ActivePcs, EnrolledPcs, BlockPcs, TryingPcs} :
          {w \in Workers : pc[w] \in P} = {}
    BY <1>1 DEF PermitPcs, IdlePcs, ActivePcs, RetiredPcs, EnrolledPcs, BlockPcs, TryingPcs,
                SchedulePcs
  <1>3. /\ {c \in Clients : pc[c] \in {"release"}} = {}
        /\ {t \in Threads : pc[t] \in {"countThread"}} = {}
    BY <1>1
  <1>4. Queued = {}
    BY DEF Init, NewThreadpool, NewSemaphore, Queued
  <1>5. MaxThreads \in Nat
    BY MaxThreadsAssumption
  <1>6. TypeOK
    <2>1. /\ count \in Nat /\ waiters \in Nat /\ active \in Int /\ idle \in Nat
          /\ maxThreads \in Nat
      BY <1>5 DEF Init, NewThreadpool, NewSemaphore
    <2>2. pc \in [Threads -> ClientPcs \cup SchedulePcs \cup WorkerPcs]
      BY <1>1 DEF ClientPcs, WorkerPcs
    <2> QED
      BY <2>1, <2>2, NextBucket DEF TypeOK, Init, NewThreadpool, NewSemaphore
  <1>7. Places
    BY <1>1 DEF Places, ClientPcs, WorkerPcs
  <1>8. Busy
    BY <1>1 DEF Init, NewThreadpool, NewSemaphore, Busy, BusyPcs, BlockPcs, SchedulePcs
  <1>9. Bucketed
    BY <1>4, FS_EmptySet DEF Init, NewThreadpool, NewSemaphore, Bucketed
  <1>10. Locking
    BY <1>1, PoolThreadsAssumption DEF Init, NewThreadpool, NewSemaphore, Locking
  <1>11. Ledger
    <2>1. \A P \in {PermitPcs, IdlePcs, ActivePcs, EnrolledPcs, BlockPcs, TryingPcs} :
            Number(pc, Workers, P) = 0
      BY <1>2, FS_EmptySet DEF Number
    <2>2. Number(pc, Clients, {"release"}) = 0 /\ Number(pc, Threads, {"countThread"}) = 0
      BY <1>3, FS_EmptySet DEF Number
    <2>3. Cardinality(Queued) = 0
      BY <1>4, FS_EmptySet
    <2> QED
      BY <1>5, <2>1, <2>2, <2>3 DEF Init, NewThreadpool, NewSemaphore, Ledger
  <1>12. Wakeups
    BY <1>1 DEF Wakeups, Asleep
  <1> QED
    BY <1>6, <1>7, <1>8, <1>9, <1>10, <1>11, <1>12 DEF IInv

LEMMA StepKeepsIInv ==
  ASSUME IInv, [Next]_vars
  PROVE  IInv'
  <1>1. ASSUME NEW c \in Clients, ClientStep(c) PROVE IInv'
    BY <1>1, ReleaseKeepsIInv, NotifyOneKeepsIInv DEF ClientStep
  <1>2. ASSUME NEW w \in Workers, WorkerStep(w) PROVE IInv'
    BY <1>2, LoopKeepsIInv, MarkIdleKeepsIInv, TestKeepsIInv, EnrollKeepsIInv,
       PredicateKeepsIInv, LeaveIdleKeepsIInv, RetireKeepsIInv, RecoverKeepsIInv,
       RestoreKeepsIInv, SearchKeepsIInv, RunKeepsIInv, UnblockKeepsIInv, FinishKeepsIInv
    DEF WorkerStep
  <1>3. CASE UNCHANGED vars
    <2>1. TypeOK' /\ Places' /\ Busy' /\ Bucketed' /\ Locking'
      BY <1>3 DEF vars, IInv, TypeOK, Places, Busy, Bucketed, Locking, Queued
    <2>2. Ledger' /\ Wakeups'
      BY <1>3 DEF vars, IInv, Ledger, Wakeups, Asleep, Queued, Number
    <2> QED
      BY <2>1, <2>2 DEF IInv
  <1>4. ASSUME NEW c \in Clients, NEW o \in Operations, NEW p \in Priorities,
               Enqueue(c, o, p) \/ Async(c, o, p)
        PROVE  IInv'
    BY <1>4, EnqueueKeepsIInv, BucketOfPriority DEF Async
  <1> QED
    BY <1>1, <1>2, <1>3, <1>4, ScheduleStepKeepsIInv, WakeKeepsIInv DEF Next

\* The inductive invariant of the threadpool holds in every reachable state.
THEOREM Invariance == Spec => []IInv
  BY Initially, StepKeepsIInv, PTL DEF Spec

\* The variables keep their types: the permits, the waiters, the idle threads and
\* the limit never become negative.
THEOREM TypeCorrectness == Spec => []TypeOK
  BY Invariance, PTL DEF IInv

\* Every permit of the semaphore stands for an operation in a bucket.
THEOREM PermitAccounting == Spec => []PermitsMatchOperations
  <1>1. IInv => PermitsMatchOperations
    <2>1. {c \in Clients : pc[c] \in {"release"}} = {c \in Clients : pc[c] = "release"}
      OBVIOUS
    <2> QED
      BY <2>1 DEF IInv, Ledger, Number, PermitsMatchOperations
  <1> QED
    BY <1>1, Invariance, PTL

\* m_idle_threads and m_active_threads are exact, but for threads that were
\* started and are about to be counted.
THEOREM ThreadAccounting == Spec => []CountersExact
  <1>1. IInv => CountersExact
    <2> SUFFICES ASSUME IInv PROVE CountersExact
      OBVIOUS
    <2>1. {t \in Threads : pc[t] \in {"countThread"}} = {t \in Threads : pc[t] = "countThread"}
      OBVIOUS
    <2>2. {w \in Workers : pc[w] \in ActivePcs} = {w \in Workers : pc[w] \notin RetiredPcs}
      BY DEF IInv, Places, ActivePcs
    <2>3. /\ Number(pc, Workers, ActivePcs) \in Nat
          /\ Number(pc, Threads, {"countThread"}) \in Nat
      BY FinitelyManyThreads, NumberType
    <2>4. active + Number(pc, Threads, {"countThread"}) = Number(pc, Workers, ActivePcs)
      BY <2>3 DEF IInv, Ledger
    <2> QED
      BY <2>1, <2>2, <2>4 DEF IInv, Ledger, Number, CountersExact
  <1> QED
    BY <1>1, Invariance, PTL

\* No worker sleeps on unnoticed while there is a free permit that nobody is on
\* the way to, although release() looks at m_waiters without holding m_CS.
THEOREM WakeupsAreKept == Spec => []NoLostWakeup
  <1>1. IInv => NoLostWakeup
    <2>1. {c \in Clients : pc[c] \in {"notify"}} = {c \in Clients : pc[c] = "notify"}
      OBVIOUS
    <2>2. (\E w \in Workers \ signalled : pc[w] = "waiting") => Asleep # {}
      BY DEF Asleep
    <2> QED
      BY <2>1, <2>2 DEF IInv, Wakeups, Number, TryingPcs, NoLostWakeup
  <1> QED
    BY <1>1, Invariance, PTL

\* While a worker owes the semaphore an operation there is one in the buckets.
PermitHoldersFindWork ==
  (\E w \in Workers : pc[w] \in PermitPcs) => Queued # {}

\* "There has to be such operation as we acquired the semaphore": the search of a
\* worker never goes round in empty buckets.
THEOREM SearchFinds == Spec => []PermitHoldersFindWork
  <1>1. IInv => PermitHoldersFindWork
    <2> SUFFICES ASSUME IInv, NEW w \in Workers, pc[w] \in PermitPcs
                 PROVE  Queued # {}
      BY DEF PermitHoldersFindWork
    <2> DEFINE H == {v \in Workers : pc[v] \in PermitPcs}
    <2>1. IsFiniteSet(H) /\ H # {} /\ Number(pc, Workers, PermitPcs) = Cardinality(H)
      BY FinitelyManyThreads, FS_Subset DEF Number
    <2>2. Number(pc, Workers, PermitPcs) # 0
      BY <2>1, FS_EmptySet
    <2>3. Number(pc, Workers, PermitPcs) \in Nat /\ Number(pc, Clients, {"release"}) \in Nat
      BY FinitelyManyThreads, NumberType
    <2>4. Cardinality(Queued) # 0
      BY <2>2, <2>3, Amounts DEF IInv, Ledger
    <2> QED
      BY <2>4, FS_EmptySet
  <1> QED
    BY <1>1, Invariance, PTL

\* The limit is the configured one, plus one for each thread inside a block_scope.
LimitExact == maxThreads = MaxThreads + Cardinality({w \in Workers : pc[w] \in BlockPcs})

\* Blocking operations give back what they added to m_max_threads, however their
\* block_scopes overlap.
THEOREM LimitIsRestored == Spec => []LimitExact
  <1>1. IInv => LimitExact
    BY DEF IInv, Ledger, Number, LimitExact
  <1> QED
    BY <1>1, Invariance, PTL
=============================================================================
