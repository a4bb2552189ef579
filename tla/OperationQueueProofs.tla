------------------------ MODULE OperationQueueProofs ------------------------
(***************************************************************************)
(* Proofs about OperationQueue for any number of clients, workers and jobs *)
(* and any drain budget.                                                   *)
(***************************************************************************)
EXTENDS OperationQueue, SequenceTheorems, FiniteSetTheorems, TLAPS

-----------------------------------------------------------------------------
(* The inductive invariant *)

Drains(w) == pc[w] \in Draining
Leaving == {"detach", "release", "destroy"}

\* The wakeup of a non-empty list is unique, and so is the drain it causes.
Wakeups ==
  /\ pending \in {0, 1}
  /\ pending = 1 => \A w \in Workers : ~Drains(w)
  /\ MutualExclusion
  /\ (jobs = <<>>) <=> (pending = 0 /\ \A w \in Workers : ~Drains(w))
  /\ activeDrain <=> \E w \in Workers : pc[w] \in Busy

\* Only the head of the list can be a placeholder, and only during a drain.
Placeholder ==
  /\ \A w \in Workers :
       /\ pc[w] \in Busy => Head(jobs) = Null /\ remaining[w] \in 1..Len(jobs)
       /\ pc[w] \in {"run", "reset"} => job[w] # Null
  /\ \A i \in 1..Len(jobs) : jobs[i] = Null => i = 1 /\ activeDrain

\* Where the detach operation is: at the end of the list, ...
InJobs == \E i \in 1..Len(jobs) : jobs[i] = DetachOp
\* ... being executed, ...
InDrain == \E w \in Workers : pc[w] = "run" /\ job[w] = DetachOp
\* ... or passed on to the manager.
Sealed == ~attached /\ ~InJobs /\ ~InDrain

OnlyPlaceholder == \A i \in 1..Len(jobs) : jobs[i] = Null

DetachIsLast ==
  /\ attached => ~InJobs /\ ~InDrain
  /\ \A i \in 1..Len(jobs) : jobs[i] = DetachOp => i = Len(jobs)
  /\ InDrain => ~InJobs /\ OnlyPlaceholder
  /\ Sealed => OnlyPlaceholder

Posts(s) == {s[i] : i \in 1..Len(s)}
MgrShapes ==
  {<<>>, <<"attach">>, <<"detach">>, <<"attach", "detach">>}
AttachPending == "attach" \in Posts(mgrOps) \cup Posts(mgrBatch)
DetachPending == "detach" \in Posts(mgrOps) \cup Posts(mgrBatch)

\* The manager registers the queue once and unregisters it once, last.
ManagerOrder ==
  /\ mgrOps \in MgrShapes /\ mgrBatch \in MgrShapes
  /\ "attach" \in Posts(mgrOps) => mgrBatch = <<>> /\ pc[Manager] = "idle"
  /\ ~("detach" \in Posts(mgrOps) /\ "detach" \in Posts(mgrBatch))
  /\ pc[Manager] = "idle" => mgrBatch = <<>>
  /\ pc[Manager] \in {"idle", "run", "destroy"}
  /\ DetachPending => Sealed
  /\ AttachPending => "attachOp" \in queueRefs /\ "registered" \notin queueRefs
  /\ life = "alive" /\ ~AttachPending /\ "registered" \notin queueRefs
       => Sealed /\ ~DetachPending
  /\ life = "alive" /\ Sealed /\ ~DetachPending
       => "registered" \notin queueRefs /\ ~AttachPending

\* Who may still use, detach, release or destroy the operation_queue.
Ownership ==
  /\ holders # {} =>
       /\ life = "alive" /\ attached /\ notifyOp /\ "owner" \in queueRefs
       /\ \A t \in Threads : pc[t] \notin Leaving
  /\ \A t \in Threads :
       /\ pc[t] \in Leaving =>
            /\ life = "alive" /\ holders = {}
            /\ \A u \in Threads : pc[u] \in Leaving => u = t
       /\ pc[t] = "detach" => attached /\ notifyOp /\ "owner" \in queueRefs
       /\ pc[t] = "release" => ~attached /\ notifyOp /\ "owner" \in queueRefs
       /\ pc[t] = "destroy" => ~attached /\ queueRefs = {}
  /\ \A c \in Clients : pc[c] \in Leaving \cup {"idle"}
  /\ \A w \in Workers : pc[w] = "release" => InJobs
  /\ NoSelfDestruction

Lifetime ==
  /\ life = "alive" /\ ~notifyOp => \E t \in Threads : pc[t] = "destroy"
  /\ life = "alive" /\ "owner" \notin queueRefs => ~attached
  /\ life # "alive" => /\ queueRefs = {} /\ jobs = <<>>
                       /\ mgrOps = <<>> /\ mgrBatch = <<>>
  /\ life = "none" => ~attached /\ pc[Manager] = "idle"

IInv ==
  /\ TypeOK
  /\ Wakeups
  /\ Placeholder
  /\ DetachIsLast
  /\ ManagerOrder
  /\ Ownership
  /\ Lifetime

-----------------------------------------------------------------------------
(* Facts about the two lists *)

\* Queueing at the end of m_jobs keeps what is on it (push_back).
LEMMA AppendFacts ==
  ASSUME NEW S, NEW s \in Seq(S), NEW e \in S
  PROVE  /\ Append(s, e) \in Seq(S)
         /\ Append(s, e) # <<>>
         /\ Len(Append(s, e)) = Len(s) + 1
         /\ \A i \in 1..Len(s) : Append(s, e)[i] = s[i]
         /\ Append(s, e)[Len(s) + 1] = e
         /\ s # <<>> => Head(Append(s, e)) = Head(s)
  BY AppendProperties, EmptySeq

\* Removing the front of m_jobs shifts the others (pop_front).
LEMMA TailFacts ==
  ASSUME NEW S, NEW s \in Seq(S), s # <<>>
  PROVE  /\ Tail(s) \in Seq(S)
         /\ Len(s) \in Nat \ {0}
         /\ Len(Tail(s)) = Len(s) - 1
         /\ \A i \in 1..Len(Tail(s)) : Tail(s)[i] = s[i + 1]
         /\ Head(s) = s[1]
         /\ Head(s) \in S
  OBVIOUS

\* Swapping the front of m_jobs out leaves the placeholder in its place.
LEMMA SwapFacts ==
  ASSUME NEW S, NEW s \in Seq(S), s # <<>>, NEW n \in S
  PROVE  /\ <<n>> \o Tail(s) \in Seq(S)
         /\ <<n>> \o Tail(s) # <<>>
         /\ Len(<<n>> \o Tail(s)) = Len(s)
         /\ Head(<<n>> \o Tail(s)) = n
         /\ (<<n>> \o Tail(s))[1] = n
         /\ \A i \in 2..Len(s) : (<<n>> \o Tail(s))[i] = s[i]
  OBVIOUS

\* The placeholder hides exactly the entry that was swapped out.
LEMMA SwapTail ==
  ASSUME NEW S, NEW s \in Seq(S), s # <<>>, NEW n \in S
  PROVE  Tail(<<n>> \o Tail(s)) = Tail(s)
  <1> DEFINE r == <<n>> \o Tail(s)
             a == Tail(r)
             b == Tail(s)
  <1>1. /\ r \in Seq(S) /\ r # <<>> /\ Len(r) = Len(s)
        /\ \A i \in 2..Len(s) : r[i] = s[i]
    BY SwapFacts
  <1>2. /\ b \in Seq(S) /\ Len(b) = Len(s) - 1 /\ Len(s) \in Nat \ {0}
        /\ \A i \in 1..Len(b) : b[i] = s[i + 1]
    BY TailFacts
  <1> HIDE DEF r
  <1>3. /\ a \in Seq(S) /\ Len(a) = Len(s) - 1
        /\ \A i \in 1..Len(a) : a[i] = r[i + 1]
    BY <1>1, TailFacts
  <1> HIDE DEF a, b
  <1>4. \A i \in 1..Len(a) : a[i] = b[i]
    BY <1>1, <1>2, <1>3
  <1>5. a = b
    BY <1>2, <1>3, <1>4, SeqEqual
  <1> QED
    BY <1>5 DEF a, b, r

\* What the manager's thread can have been asked to do.
LEMMA PostsFacts ==
  /\ Posts(<<>>) = {}
  /\ Posts(<<"attach">>) = {"attach"}
  /\ Posts(<<"detach">>) = {"detach"}
  /\ Posts(<<"attach", "detach">>) = {"attach", "detach"}
  BY DEF Posts

\* How the posted operations are queued and taken.
LEMMA ShapeFacts ==
  /\ Append(<<>>, "attach") = <<"attach">>
  /\ Append(<<>>, "detach") = <<"detach">>
  /\ Append(<<"attach">>, "detach") = <<"attach", "detach">>
  /\ Tail(<<"attach">>) = <<>> /\ Head(<<"attach">>) = "attach"
  /\ Tail(<<"detach">>) = <<>> /\ Head(<<"detach">>) = "detach"
  /\ Tail(<<"attach", "detach">>) = <<"detach">>
  /\ Head(<<"attach", "detach">>) = "attach"
  <1>1. Append(<<>>, "attach") = <<"attach">>
    OBVIOUS
  <1>2. Append(<<>>, "detach") = <<"detach">>
    OBVIOUS
  <1>3. Append(<<"attach">>, "detach") = <<"attach", "detach">>
    <2> DEFINE S == {"attach", "detach"}
               a == Append(<<"attach">>, "detach")
               b == <<"attach", "detach">>
    <2>1. /\ a \in Seq(S) /\ Len(a) = 2 /\ a[1] = "attach" /\ a[2] = "detach"
      OBVIOUS
    <2>2. /\ b \in Seq(S) /\ Len(b) = 2 /\ b[1] = "attach" /\ b[2] = "detach"
      OBVIOUS
    <2> HIDE DEF a, b
    <2>3. a = b
      BY <2>1, <2>2, SeqEqual
    <2> QED
      BY <2>3 DEF a, b
  <1>4. Tail(<<"attach">>) = <<>> /\ Head(<<"attach">>) = "attach"
    OBVIOUS
  <1>5. Tail(<<"detach">>) = <<>> /\ Head(<<"detach">>) = "detach"
    OBVIOUS
  <1>6. Tail(<<"attach", "detach">>) = <<"detach">>
    OBVIOUS
  <1>7. Head(<<"attach", "detach">>) = "attach"
    OBVIOUS
  <1> QED
    BY <1>1, <1>2, <1>3, <1>4, <1>5, <1>6, <1>7

\* Before the queue is created IInv holds.
LEMMA InitEstablishes == Init => IInv
  <1> SUFFICES ASSUME Init PROVE IInv
    OBVIOUS
  <1> USE DEF Init, NewManager, Threads, Entries
  <1>1. TypeOK
    <2>1. jobs \in Seq(Entries \cup {Null}) /\ done \in Seq(Entries)
      OBVIOUS
    <2>2. mgrOps \in Seq({"attach", "detach"}) /\ mgrBatch \in Seq({"attach", "detach"})
      OBVIOUS
    <2>3. pc \in [Threads -> Draining \cup {"idle"}]
      OBVIOUS
    <2>4. /\ job \in [Workers -> Entries \cup {Null}]
          /\ remaining \in [Workers -> 0..MaxOpsPerDrain]
      BY BudgetAssumption
    <2> QED
      BY <2>1, <2>2, <2>3, <2>4 DEF TypeOK
  <1>2. Wakeups
    BY ThreadsAssumption DEF Wakeups, Drains, Draining, Busy, MutualExclusion
  <1>3. Placeholder
    BY DEF Placeholder, Busy, Draining
  <1>4. DetachIsLast
    BY DEF DetachIsLast, InJobs, InDrain, Sealed, OnlyPlaceholder
  <1>5. ManagerOrder
    BY PostsFacts DEF ManagerOrder, MgrShapes, AttachPending, DetachPending
  <1>6. Ownership
    BY DEF Ownership, Leaving, NoSelfDestruction
  <1>7. Lifetime
    BY DEF Lifetime
  <1> QED
    BY <1>1, <1>2, <1>3, <1>4, <1>5, <1>6, <1>7 DEF IInv

-----------------------------------------------------------------------------
(* The actions *)

\* Handing out a copy of the queue keeps IInv.
LEMMA SharePreserves ==
  ASSUME IInv, NEW u \in Clients \cup Jobs, NEW c \in Clients, Share(u, c)
  PROVE  IInv'
  <1> USE DEF IInv, Share, Users, Goto, queueVars, drainVars, refVars,
              mgrVars, histVars
  <1>1. TypeOK'
    BY DEF TypeOK, Threads, Entries, Draining
  <1>2. Wakeups'
    BY DEF TypeOK, Wakeups, Drains, MutualExclusion, Draining, Busy, Threads
  <1>3. Placeholder'
    BY DEF TypeOK, Placeholder, Draining, Busy, Threads
  <1>4. DetachIsLast'
    BY DEF TypeOK, DetachIsLast, InJobs, InDrain, Sealed, OnlyPlaceholder,
           Threads
  <1>5. ManagerOrder'
    BY DEF TypeOK, ManagerOrder, AttachPending, DetachPending, Sealed, InJobs,
           InDrain, Threads
  <1>6. Ownership'
    BY DEF TypeOK, Ownership, Leaving, NoSelfDestruction, InJobs, Threads
  <1>7. Lifetime'
    BY DEF TypeOK, Lifetime, Threads
  <1> QED
    BY <1>1, <1>2, <1>3, <1>4, <1>5, <1>6, <1>7

\* Dropping a reference keeps IInv; the last one starts ~serial_queue_impl.
LEMMA DropPreserves ==
  ASSUME IInv, NEW c \in Clients, Drop(c)
  PROVE  IInv'
  <1> USE DEF IInv, Drop, DropReference, Goto, queueVars, drainVars, refVars,
              mgrVars, histVars
  <1>1. TypeOK'
    BY DEF TypeOK, Threads, Entries, Draining
  <1>2. Wakeups'
    BY ThreadsAssumption
    DEF TypeOK, Wakeups, Drains, MutualExclusion, Draining, Busy, Threads
  <1>3. Placeholder'
    BY ThreadsAssumption DEF TypeOK, Placeholder, Draining, Busy, Threads
  <1>4. DetachIsLast'
    BY DEF TypeOK, DetachIsLast, InJobs, InDrain, Sealed, OnlyPlaceholder,
           Threads
  <1>5. ManagerOrder'
    BY ThreadsAssumption
    DEF TypeOK, ManagerOrder, AttachPending, DetachPending, Sealed, InJobs,
        InDrain, Threads, Ownership, Leaving
  <1>6. Ownership'
    BY DEF TypeOK, Ownership, Leaving, NoSelfDestruction, InJobs, Threads
  <1>7. Lifetime'
    BY ThreadsAssumption
    DEF TypeOK, Lifetime, Threads, Ownership, Leaving, NoSelfDestruction
  <1> QED
    BY <1>1, <1>2, <1>3, <1>4, <1>5, <1>6, <1>7

\* Creating and attaching the queue establishes its ownership chain.
LEMMA CreatePreserves ==
  ASSUME IInv, NEW c \in Clients, Create(c)
  PROVE  IInv'
  <1> USE DEF IInv, Create, MakeSerialQueue, Attach, Goto, queueVars, drainVars, refVars, mgrVars,
              histVars
  <1>1. TypeOK'
    BY DEF TypeOK, Threads, Entries, Draining
  <1>2. Wakeups'
    BY DEF TypeOK, Wakeups, Drains, MutualExclusion, Draining, Busy, Threads
  <1>3. Placeholder'
    BY DEF TypeOK, Placeholder, Draining, Busy, Threads
  <1>4. DetachIsLast'
    BY ThreadsAssumption
    DEF TypeOK, DetachIsLast, InJobs, InDrain, Sealed, OnlyPlaceholder,
        Threads, Lifetime, Wakeups, Drains, Draining
  <1>5. ManagerOrder'
    BY PostsFacts, ShapeFacts
    DEF TypeOK, ManagerOrder, AttachPending, DetachPending, Sealed, InJobs,
        InDrain, Threads, Lifetime, MgrShapes
  <1>6. Ownership'
    BY DEF TypeOK, Ownership, Leaving, NoSelfDestruction, InJobs, Threads,
           Lifetime
  <1>7. Lifetime'
    BY DEF TypeOK, Lifetime, Threads
  <1> QED
    BY <1>1, <1>2, <1>3, <1>4, <1>5, <1>6, <1>7

\* async() keeps IInv: it wakes the pool exactly when the list was empty.
LEMMA AsyncPreserves ==
  ASSUME IInv, NEW u \in Clients \cup Jobs, NEW j \in Jobs, Async(u, j)
  PROVE  IInv'
  <1> USE DEF IInv, Async, Users, AsyncUnsafe, NotifyUnsafe, Goto, queueVars,
              drainVars, refVars, mgrVars, histVars
  <1>1. TypeOK'
    BY DEF TypeOK, Threads, Entries, Draining
  <1>2. Wakeups'
    <2>1. jobs' # <<>> /\ pc' = pc /\ activeDrain' = activeDrain
      BY AppendFacts DEF TypeOK, Entries
    <2>2. CASE jobs = <<>>
      <3>1. attached /\ notifyOp
        BY DEF Users, Ownership
      <3>2. pending = 0 /\ pending' = 1
        BY <2>2, <3>1 DEF Wakeups
      <3> QED
        BY <2>1, <2>2, <3>2 DEF Wakeups, Drains, MutualExclusion
    <2>3. CASE jobs # <<>>
      BY <2>1, <2>3 DEF Wakeups, Drains, MutualExclusion
    <2> QED
      BY <2>2, <2>3
  <1>3. Placeholder'
    BY AppendFacts, EntriesAssumption
    DEF TypeOK, Placeholder, Draining, Busy, Threads, Entries, Wakeups, Drains
  <1>4. DetachIsLast'
    BY AppendFacts, EntriesAssumption
    DEF TypeOK, DetachIsLast, InJobs, InDrain, Sealed, OnlyPlaceholder,
        Threads, Entries, Ownership
  <1>5. ManagerOrder'
    BY AppendFacts, EntriesAssumption
    DEF TypeOK, ManagerOrder, AttachPending, DetachPending, Sealed, InJobs,
        InDrain, Threads, Entries, Ownership, DetachIsLast
  <1>6. Ownership'
    BY AppendFacts, EntriesAssumption
    DEF TypeOK, Ownership, Leaving, NoSelfDestruction, InJobs, Threads,
        Entries
  <1>7. Lifetime'
    BY DEF TypeOK, Lifetime, Threads, Ownership, Leaving, NoSelfDestruction
  <1> QED
    BY <1>1, <1>2, <1>3, <1>4, <1>5, <1>6, <1>7

\* detach() seals the list: behind the detach operation nothing follows.
LEMMA DetachPreserves ==
  ASSUME IInv, NEW t \in Threads, Detach(t)
  PROVE  IInv'
  <1> USE DEF IInv, Detach, AsyncUnsafe, NotifyUnsafe, Goto, queueVars,
              drainVars, refVars, mgrVars, histVars
  <1>1. TypeOK'
    <2>1. jobs' \in Seq(Entries \cup {Null})
      <3>1. Append(jobs, DetachOp) \in Seq(Entries \cup {Null})
        BY AppendProperties DEF TypeOK, Entries
      <3> QED
        BY <3>1 DEF TypeOK
    <2>2. mgrOps' \in Seq({"attach", "detach"})
      <3>1. Append(mgrOps, "detach") \in Seq({"attach", "detach"})
        BY AppendProperties DEF TypeOK
      <3> QED
        BY <3>1 DEF TypeOK
    <2>3. pc' \in [Threads -> Draining \cup {"idle"}]
      BY DEF TypeOK, Draining
    <2>4. pending' = pending \/ pending' = pending + 1
      OBVIOUS
    <2> QED
      BY <2>1, <2>2, <2>3, <2>4 DEF TypeOK
  <1>2. Wakeups'
    BY ThreadsAssumption, AppendFacts
    DEF TypeOK, Wakeups, Drains, MutualExclusion, Draining, Busy, Threads,
        Entries
  <1>3. Placeholder'
    <2>1. /\ \A w \in Workers : pc'[w] \in Busy <=> pc[w] \in Busy
          /\ \A w \in Workers : pc'[w] \in {"run", "reset"} => pc'[w] = pc[w]
          /\ activeDrain' = activeDrain /\ job' = job /\ remaining' = remaining
      BY ThreadsAssumption DEF TypeOK, Threads, Busy, Draining
    <2>2. CASE jobs = <<>>
      BY <2>1, <2>2 DEF Placeholder
    <2>3. CASE jobs # <<>>
      <3>1. jobs' = Append(jobs, DetachOp)
        BY <2>3
      <3>2. /\ Len(jobs') = Len(jobs) + 1
            /\ Head(jobs') = Head(jobs)
            /\ \A i \in 1..Len(jobs) : jobs'[i] = jobs[i]
            /\ jobs'[Len(jobs) + 1] # Null
        BY <2>3, <3>1, AppendFacts, EntriesAssumption DEF TypeOK, Entries
      <3>3. Len(jobs) \in Nat
        BY DEF TypeOK
      <3> QED
        BY <2>1, <3>2, <3>3 DEF Placeholder
    <2> QED
      BY <2>2, <2>3
  <1>4. DetachIsLast'
    <2>1. /\ attached /\ ~attached' /\ ~InJobs /\ ~InDrain
      BY DEF Ownership, DetachIsLast
    <2>2. ~InDrain'
      BY <2>1, ThreadsAssumption DEF TypeOK, Threads, InDrain
    <2>3. CASE jobs = <<>>
      BY <2>1, <2>2, <2>3 DEF DetachIsLast, InJobs, Sealed, OnlyPlaceholder
    <2>4. CASE jobs # <<>>
      <3>1. jobs' = Append(jobs, DetachOp) /\ Len(jobs) \in Nat
        BY <2>4 DEF TypeOK
      <3>2. /\ Len(jobs') = Len(jobs) + 1
            /\ \A i \in 1..Len(jobs) : jobs'[i] = jobs[i]
            /\ jobs'[Len(jobs) + 1] = DetachOp
        BY <3>1, AppendFacts DEF TypeOK, Entries
      <3> QED
        BY <2>1, <2>2, <3>1, <3>2 DEF DetachIsLast, InJobs, Sealed
    <2> QED
      BY <2>3, <2>4
  <1>5. ManagerOrder'
    <2>1. /\ attached /\ ~attached' /\ ~InJobs /\ ~InDrain /\ life = "alive"
          /\ ~Sealed /\ ~DetachPending
      BY DEF Ownership, Leaving, DetachIsLast, Sealed, ManagerOrder
    <2>2. ~InDrain'
      BY <2>1, ThreadsAssumption DEF TypeOK, Threads, InDrain
    <2>3. pc'[Manager] = pc[Manager]
      BY DEF TypeOK, Threads, ManagerOrder
    <2>4. CASE jobs = <<>>
      <3>1. mgrOps \in {<<>>, <<"attach">>} /\ mgrBatch \in {<<>>, <<"attach">>}
        BY <2>1, PostsFacts DEF ManagerOrder, MgrShapes, DetachPending
      <3>2. /\ mgrOps' \in {<<"detach">>, <<"attach", "detach">>}
            /\ Posts(mgrOps') = Posts(mgrOps) \cup {"detach"}
        BY <2>4, <3>1, PostsFacts, ShapeFacts
      <3>3. Sealed'
        BY <2>1, <2>2, <2>4 DEF Sealed, InJobs
      <3> QED
        BY <2>1, <2>3, <3>1, <3>2, <3>3, PostsFacts
        DEF ManagerOrder, MgrShapes, AttachPending, DetachPending
    <2>5. CASE jobs # <<>>
      <3>1. InJobs'
        <4>1. /\ Len(jobs') = Len(jobs) + 1
              /\ jobs'[Len(jobs) + 1] = DetachOp
              /\ Len(jobs) \in Nat
          BY <2>5, AppendFacts DEF TypeOK, Entries
        <4> QED
          BY <4>1 DEF InJobs
      <3> QED
        BY <2>1, <2>3, <2>5, <3>1
        DEF ManagerOrder, Sealed, AttachPending, DetachPending
    <2> QED
      BY <2>4, <2>5
  <1>6. Ownership'
    BY ThreadsAssumption, AppendFacts
    DEF TypeOK, Ownership, Leaving, NoSelfDestruction, InJobs, Threads,
        Entries, Wakeups, Drains, Draining
  <1>7. Lifetime'
    BY ThreadsAssumption
    DEF TypeOK, Lifetime, Threads, Ownership, Leaving, NoSelfDestruction
  <1> QED
    BY <1>1, <1>2, <1>3, <1>4, <1>5, <1>6, <1>7

\* Releasing m_queue never starts ~operation_queue on a draining worker.
LEMMA ReleasePreserves ==
  ASSUME IInv, NEW t \in Threads, Release(t)
  PROVE  IInv'
  <1> USE DEF IInv, Release, ReleaseQueue, Continue, Goto, queueVars,
              drainVars, refVars, mgrVars, histVars
  <1>1. TypeOK'
    BY DEF TypeOK, Threads, Entries, Draining
  <1>2. Wakeups'
    BY ThreadsAssumption
    DEF TypeOK, Wakeups, Drains, MutualExclusion, Draining, Busy, Threads,
        Ownership, ManagerOrder, AttachPending, Sealed, InJobs,
        NoSelfDestruction, Leaving
  <1>3. Placeholder'
    BY ThreadsAssumption
    DEF TypeOK, Placeholder, Draining, Busy, Threads, Ownership, Leaving
  <1>4. DetachIsLast'
    BY ThreadsAssumption
    DEF TypeOK, DetachIsLast, InJobs, InDrain, Sealed, OnlyPlaceholder,
        Threads
  <1>5. ManagerOrder'
    BY ThreadsAssumption
    DEF TypeOK, ManagerOrder, AttachPending, DetachPending, Sealed, InJobs,
        InDrain, Threads, Ownership, Leaving, NoSelfDestruction
  <1>6. Ownership'
    BY ThreadsAssumption
    DEF TypeOK, Ownership, Leaving, NoSelfDestruction, InJobs, Threads,
        ManagerOrder, AttachPending, Sealed, InDrain
  <1>7. Lifetime'
    BY ThreadsAssumption
    DEF TypeOK, Lifetime, Threads, Ownership, Leaving, NoSelfDestruction
  <1> QED
    BY <1>1, <1>2, <1>3, <1>4, <1>5, <1>6, <1>7

\* ~operation_queue frees the queue only once the list is empty.
LEMMA DestroyPreserves ==
  ASSUME IInv, NEW t \in Threads, Destroy(t)
  PROVE  IInv'
  <1> USE DEF IInv, Destroy, Continue, Goto, queueVars, drainVars, refVars,
              mgrVars, histVars
  <1>1. TypeOK'
    BY DEF TypeOK, Threads, Entries, Draining
  <1>2. Wakeups'
    BY ThreadsAssumption
    DEF TypeOK, Wakeups, Drains, MutualExclusion, Draining, Busy, Threads,
        Ownership, Leaving, NoSelfDestruction
  <1>3. Placeholder'
    BY ThreadsAssumption
    DEF TypeOK, Placeholder, Draining, Busy, Threads, Ownership, Leaving,
        NoSelfDestruction
  <1>4. DetachIsLast'
    BY ThreadsAssumption
    DEF TypeOK, DetachIsLast, InJobs, InDrain, Sealed, OnlyPlaceholder,
        Threads, Ownership, Leaving, NoSelfDestruction
  <1>5. ManagerOrder'
    BY ThreadsAssumption
    DEF TypeOK, ManagerOrder, AttachPending, DetachPending, Sealed, InJobs,
        InDrain, Threads, Ownership, Leaving, NoSelfDestruction
  <1>6. Ownership'
    <2>1. /\ t \notin Workers /\ pc[t] = "destroy"
          /\ ~attached /\ holders = {} /\ queueRefs = {}
          /\ \A u \in Threads : pc[u] \in Leaving => u = t
      BY DEF Ownership, NoSelfDestruction, Leaving, Threads
    <2>2. CASE activeDrain
      BY <2>1, <2>2 DEF Ownership, NoSelfDestruction, Leaving, InJobs
    <2>3. CASE ~activeDrain
      <3>1. pc' = [pc EXCEPT ![t] = Continue(t)] /\ Continue(t) \in {"idle", "run"}
        BY <2>1, <2>3, ThreadsAssumption DEF Continue, Threads
      <3>2. t \in Clients => Continue(t) = "idle"
        BY <2>1, ThreadsAssumption DEF Continue
      <3>3. \A u \in Threads : pc'[u] \notin Leaving
        BY <2>1, <3>1 DEF TypeOK, Leaving
      <3> QED
        BY <2>1, <3>1, <3>2, <3>3, ThreadsAssumption
        DEF TypeOK, Ownership, NoSelfDestruction, Leaving, Threads
    <2> QED
      BY <2>2, <2>3
  <1>7. Lifetime'
    <2>1. /\ t \notin Workers /\ pc[t] = "destroy" /\ life = "alive"
          /\ ~attached /\ queueRefs = {}
      BY DEF Ownership, NoSelfDestruction, Leaving, Threads
    <2>2. CASE activeDrain
      BY <2>1, <2>2 DEF Lifetime
    <2>3. CASE ~activeDrain
      <3>1. Sealed /\ ~DetachPending /\ ~AttachPending
        BY <2>1 DEF ManagerOrder
      <3>2. mgrOps = <<>> /\ mgrBatch = <<>>
        BY <3>1, PostsFacts
        DEF ManagerOrder, MgrShapes, DetachPending, AttachPending
      <3>3. jobs = <<>>
        <4>1. Len(jobs) \in Nat /\ \A i \in 1..Len(jobs) : FALSE
          BY <2>3, <3>1 DEF TypeOK, DetachIsLast, OnlyPlaceholder, Placeholder
        <4>2. Len(jobs) = 0
          BY <4>1
        <4> QED
          BY <4>2, EmptySeq DEF TypeOK
      <3> QED
        BY <2>1, <2>3, <3>2, <3>3 DEF Lifetime
    <2> QED
      BY <2>2, <2>3
  <1> QED
    BY <1>1, <1>2, <1>3, <1>4, <1>5, <1>6, <1>7

\* Moving the wakeup from the pool to a worker keeps it unique.
LEMMA PickUpPreserves ==
  ASSUME IInv, NEW w \in Workers, PickUp(w)
  PROVE  IInv'
  <1> USE DEF IInv, PickUp, Goto, queueVars, drainVars, refVars, mgrVars,
              histVars
  <1>1. TypeOK'
    BY DEF TypeOK, Threads, Entries, Draining
  <1>2. Wakeups'
    BY DEF TypeOK, Wakeups, Drains, MutualExclusion, Draining, Busy, Threads
  <1>3. Placeholder'
    BY DEF TypeOK, Placeholder, Draining, Busy, Threads
  <1>4. DetachIsLast'
    BY DEF TypeOK, DetachIsLast, InJobs, InDrain, Sealed, OnlyPlaceholder,
           Threads
  <1>5. ManagerOrder'
    BY ThreadsAssumption
    DEF TypeOK, ManagerOrder, AttachPending, DetachPending, Sealed, InJobs,
        InDrain, Threads
  <1>6. Ownership'
    BY ThreadsAssumption
    DEF TypeOK, Ownership, Leaving, NoSelfDestruction, InJobs, Threads
  <1>7. Lifetime'
    BY ThreadsAssumption DEF TypeOK, Lifetime, Threads
  <1> QED
    BY <1>1, <1>2, <1>3, <1>4, <1>5, <1>6, <1>7

\* Executing an entry keeps IInv; the detach operation moves on.
LEMMA ProcessJobPreserves ==
  ASSUME IInv, NEW w \in Workers, ProcessJob(w)
  PROVE  IInv'
  <1> USE DEF IInv, ProcessJob, Goto, queueVars, drainVars, refVars, mgrVars,
              histVars
  <1>1. TypeOK'
    BY AppendFacts DEF TypeOK, Threads, Entries, Draining, Placeholder
  <1>2. Wakeups'
    BY DEF TypeOK, Wakeups, Drains, MutualExclusion, Draining, Busy, Threads
  <1>3. Placeholder'
    BY DEF TypeOK, Placeholder, Draining, Busy, Threads
  <1>4. DetachIsLast'
    BY ThreadsAssumption
    DEF TypeOK, DetachIsLast, InJobs, InDrain, Sealed, OnlyPlaceholder,
        Threads
  <1>5. ManagerOrder'
    BY ThreadsAssumption, PostsFacts, ShapeFacts
    DEF TypeOK, ManagerOrder, AttachPending, DetachPending, Sealed, InJobs,
        InDrain, Threads, MgrShapes, DetachIsLast, Wakeups, MutualExclusion,
        Draining, Drains, Lifetime
  <1>6. Ownership'
    BY ThreadsAssumption
    DEF TypeOK, Ownership, Leaving, NoSelfDestruction, InJobs, Threads
  <1>7. Lifetime'
    BY ThreadsAssumption
    DEF TypeOK, Lifetime, Threads, Wakeups, Drains, Draining
  <1> QED
    BY <1>1, <1>2, <1>3, <1>4, <1>5, <1>6, <1>7

\* Freeing an operation keeps IInv, also if it held the last reference.
LEMMA ResetJobPreserves ==
  ASSUME IInv, NEW w \in Workers, ResetJob(w)
  PROVE  IInv'
  <1> USE DEF IInv, ResetJob, DropReference, Goto, queueVars, drainVars,
              refVars, mgrVars, histVars
  <1>1. TypeOK'
    BY DEF TypeOK, Threads, Entries, Draining
  <1>2. Wakeups'
    BY DEF TypeOK, Wakeups, Drains, MutualExclusion, Draining, Busy, Threads
  <1>3. Placeholder'
    BY DEF TypeOK, Placeholder, Draining, Busy, Threads
  <1>4. DetachIsLast'
    BY DEF TypeOK, DetachIsLast, InJobs, InDrain, Sealed, OnlyPlaceholder,
           Threads
  <1>5. ManagerOrder'
    BY DEF TypeOK, ManagerOrder, AttachPending, DetachPending, Sealed, InJobs,
           InDrain, Threads
  <1>6. Ownership'
    BY DEF TypeOK, Ownership, Leaving, NoSelfDestruction, InJobs, Threads
  <1>7. Lifetime'
    BY DEF TypeOK, Lifetime, Threads
  <1> QED
    BY <1>1, <1>2, <1>3, <1>4, <1>5, <1>6, <1>7

\* Taking over the posted operations keeps their order.
LEMMA ManagerSwapPreserves ==
  ASSUME IInv, ManagerSwap
  PROVE  IInv'
  <1> USE DEF IInv, ManagerSwap, Goto, queueVars, drainVars, refVars, mgrVars,
              histVars
  <1>1. TypeOK'
    BY DEF TypeOK, Threads, Entries, Draining
  <1>2. Wakeups'
    BY ThreadsAssumption
    DEF TypeOK, Wakeups, Drains, MutualExclusion, Draining, Busy, Threads
  <1>3. Placeholder'
    BY ThreadsAssumption DEF TypeOK, Placeholder, Draining, Busy, Threads
  <1>4. DetachIsLast'
    BY ThreadsAssumption
    DEF TypeOK, DetachIsLast, InJobs, InDrain, Sealed, OnlyPlaceholder,
        Threads
  <1>5. ManagerOrder'
    BY ThreadsAssumption, PostsFacts
    DEF TypeOK, ManagerOrder, AttachPending, DetachPending, Sealed, InJobs,
        InDrain, Threads, MgrShapes
  <1>6. Ownership'
    BY ThreadsAssumption
    DEF TypeOK, Ownership, Leaving, NoSelfDestruction, InJobs, Threads
  <1>7. Lifetime'
    BY DEF TypeOK, Lifetime, Threads
  <1> QED
    BY <1>1, <1>2, <1>3, <1>4, <1>5, <1>6, <1>7

\* Registering precedes unregistering, which seals the queue for good.
LEMMA ManagerExecutePreserves ==
  ASSUME IInv, ManagerExecute
  PROVE  IInv'
  <1> USE DEF IInv, ManagerExecute, ReleaseQueue, Goto, queueVars, drainVars,
              refVars, mgrVars, histVars
  <1>1. TypeOK'
    <2>1. mgrBatch' \in {<<>>, <<"detach">>}
      BY ShapeFacts DEF ManagerOrder, MgrShapes
    <2>2. mgrBatch' \in Seq({"attach", "detach"})
      <3>1. /\ <<>> \in Seq({"attach", "detach"})
            /\ <<"detach">> \in Seq({"attach", "detach"})
        OBVIOUS
      <3> QED
        BY <2>1, <3>1
    <2>3. queueRefs' \subseteq {"owner", "attachOp", "registered"}
      BY DEF TypeOK
    <2>4. pc' \in [Threads -> Draining \cup {"idle"}]
      BY DEF TypeOK, Draining
    <2> QED
      BY <2>2, <2>3, <2>4 DEF TypeOK
  <1>2. Wakeups'
    <2>1. UNCHANGED <<pending, jobs, activeDrain>>
      OBVIOUS
    <2>2. \A v \in Workers : pc'[v] = pc[v]
      BY ThreadsAssumption DEF TypeOK, Threads
    <2>3. \A v \in Workers : Drains(v)' <=> Drains(v)
      BY <2>2 DEF Drains
    <2>4. Wakeups
      OBVIOUS
    <2>5. MutualExclusion'
      BY <2>2, <2>4 DEF Wakeups, MutualExclusion
    <2> HIDE DEF IInv, ManagerExecute
    <2> QED
      BY <2>1, <2>2, <2>3, <2>4, <2>5 DEF Wakeups
  <1>3. Placeholder'
    BY ThreadsAssumption DEF TypeOK, Placeholder, Draining, Busy, Threads
  <1>4. DetachIsLast'
    BY ThreadsAssumption
    DEF TypeOK, DetachIsLast, InJobs, InDrain, Sealed, OnlyPlaceholder,
        Threads
  <1>5. ManagerOrder'
    <2>1. UNCHANGED <<attached, jobs, life, mgrOps, InDrain>>
      BY ThreadsAssumption DEF TypeOK, Threads, InDrain
    <2>2. pc'[Manager] \in {"run", "destroy"}
      BY DEF TypeOK, Threads
    <2>3. life = "alive"
      BY DEF Lifetime, TypeOK
    <2>4. (Sealed' <=> Sealed) /\ "attach" \notin Posts(mgrOps)
      BY <2>1 DEF Sealed, InJobs, ManagerOrder
    <2>5. CASE Head(mgrBatch) = "attach"
      <3>1. /\ mgrBatch' \in {<<>>, <<"detach">>}
            /\ Posts(mgrBatch) = {"attach"} \cup Posts(mgrBatch')
            /\ "attach" \notin Posts(mgrBatch')
        BY <2>5, PostsFacts, ShapeFacts DEF ManagerOrder, MgrShapes
      <3>2. ~AttachPending' /\ AttachPending /\ (DetachPending' <=> DetachPending)
        BY <2>1, <2>4, <3>1 DEF AttachPending, DetachPending
      <3>3. ~(Sealed /\ ~DetachPending)
        BY <3>2, <2>3 DEF ManagerOrder
      <3> QED
        BY <2>1, <2>2, <2>3, <2>4, <2>5, <3>1, <3>2, <3>3
        DEF ManagerOrder, MgrShapes
    <2>6. CASE Head(mgrBatch) # "attach"
      <3>1. mgrBatch = <<"detach">> /\ mgrBatch' = <<>>
        BY <2>6, ShapeFacts DEF ManagerOrder, MgrShapes
      <3>2. /\ DetachPending /\ ~AttachPending /\ Sealed
            /\ "detach" \notin Posts(mgrOps)
        BY <2>4, <3>1, PostsFacts
        DEF ManagerOrder, AttachPending, DetachPending
      <3>3. ~AttachPending' /\ ~DetachPending'
        BY <2>1, <2>4, <3>1, <3>2, PostsFacts DEF AttachPending, DetachPending
      <3>4. "registered" \notin queueRefs'
        BY <2>6
      <3> QED
        BY <2>1, <2>2, <2>4, <3>1, <3>2, <3>3, <3>4 DEF ManagerOrder, MgrShapes
    <2> QED
      BY <2>5, <2>6
  <1>6. Ownership'
    <2>1. life = "alive"
      BY DEF Lifetime, TypeOK
    <2>2. CASE Head(mgrBatch) = "attach"
      <3>1. queueRefs # {} /\ pc' = pc
        BY <2>2, PostsFacts, ShapeFacts
        DEF ManagerOrder, MgrShapes, AttachPending
      <3> QED
        BY <2>2, <3>1 DEF Ownership, NoSelfDestruction, Leaving, InJobs
    <2>3. CASE Head(mgrBatch) # "attach"
      <3>1. mgrBatch = <<"detach">>
        BY <2>3, ShapeFacts DEF ManagerOrder, MgrShapes
      <3>2. Sealed
        BY <3>1, PostsFacts DEF ManagerOrder, DetachPending
      <3>3. ~attached /\ holders = {}
        BY <3>2 DEF Sealed, Ownership
      <3>4. \A u \in Threads : pc[u] \in Leaving => "owner" \in queueRefs
        BY <2>1, <3>1, PostsFacts
        DEF Ownership, Leaving, ManagerOrder, AttachPending, DetachPending
      <3> QED
        BY <2>1, <2>3, <3>3, <3>4, ThreadsAssumption
        DEF TypeOK, Ownership, NoSelfDestruction, Leaving, InJobs, Threads
    <2> QED
      BY <2>2, <2>3
  <1>7. Lifetime'
    BY ShapeFacts DEF TypeOK, Lifetime, Threads
  <1> QED
    BY <1>1, <1>2, <1>3, <1>4, <1>5, <1>6, <1>7

\* Freeing the attach operation keeps IInv.
LEMMA ManagerFreePreserves ==
  ASSUME IInv, ManagerFree
  PROVE  IInv'
  <1> USE DEF IInv, ManagerFree, ReleaseQueue, Goto, queueVars, drainVars,
              refVars, mgrVars, histVars
  <1>1. TypeOK'
    BY DEF TypeOK, Threads, Entries, Draining
  <1>2. Wakeups'
    BY ThreadsAssumption
    DEF TypeOK, Wakeups, Drains, MutualExclusion, Draining, Busy, Threads
  <1>3. Placeholder'
    BY ThreadsAssumption DEF TypeOK, Placeholder, Draining, Busy, Threads
  <1>4. DetachIsLast'
    BY ThreadsAssumption
    DEF TypeOK, DetachIsLast, InJobs, InDrain, Sealed, OnlyPlaceholder,
        Threads
  <1>5. ManagerOrder'
    BY ThreadsAssumption, PostsFacts
    DEF TypeOK, ManagerOrder, AttachPending, DetachPending, Sealed, InJobs,
        InDrain, Threads, MgrShapes
  <1>6. Ownership'
    BY ThreadsAssumption, PostsFacts
    DEF TypeOK, Ownership, Leaving, NoSelfDestruction, InJobs, Threads,
        ManagerOrder, MgrShapes, AttachPending, DetachPending, Sealed,
        Lifetime
  <1>7. Lifetime'
    BY DEF TypeOK, Lifetime, Threads
  <1> QED
    BY <1>1, <1>2, <1>3, <1>4, <1>5, <1>6, <1>7

\* The entries that drain() finds behind the placeholder, m_CS being held.
DrainList(w, list) ==
  /\ list \in Seq(Entries)
  /\ \/ pc[w] = "enter" /\ list = jobs
     \/ pc[w] = "relock" /\ list = Tail(jobs)

\* A worker about to take or to pop a job is the only one, and every entry it
\* has not taken yet is backed by a live notify operation.
LEMMA DrainListFacts ==
  ASSUME IInv, NEW w \in Workers, NEW list, DrainList(w, list)
  PROVE  /\ \A v \in Workers : v # w => ~Drains(v)
         /\ pending = 0 /\ ~InDrain /\ life = "alive"
         /\ Len(list) \in Nat
         /\ \A i \in 1..Len(list) : list[i] # Null
         /\ \A i \in 1..Len(list) : list[i] = DetachOp => i = Len(list)
         /\ InJobs <=> \E i \in 1..Len(list) : list[i] = DetachOp
         /\ Sealed => list = <<>>
         /\ list # <<>> => notifyOp
  <1> USE DEF IInv
  <1>1. pc[w] \in Draining /\ list \in Seq(Entries)
    BY DEF DrainList, Draining
  <1>2. \A v \in Workers : v # w => ~Drains(v)
    BY <1>1 DEF Wakeups, MutualExclusion, Drains
  <1>3. pending = 0 /\ jobs # <<>>
    BY <1>1 DEF Wakeups, Drains
  <1>4. life = "alive"
    BY <1>3 DEF Lifetime
  <1>5. ~InDrain
    BY <1>2 DEF InDrain, Drains, Draining, DrainList
  <1>6. Len(list) \in Nat /\ \A i \in 1..Len(list) : list[i] \in Entries
    BY <1>1, ElementOfSeq, LenProperties
  <1>7. \A i \in 1..Len(list) : list[i] # Null
    BY <1>6, EntriesAssumption DEF Entries
  <1>8. \/ list = jobs
        \/ /\ Len(jobs) = Len(list) + 1
           /\ jobs[1] = Null
           /\ \A i \in 1..Len(list) : list[i] = jobs[i + 1]
    <2>1. CASE pc[w] = "relock" /\ list = Tail(jobs)
      <3>1. Head(jobs) = Null
        BY <2>1 DEF Placeholder, Busy, Draining
      <3>2. /\ Len(Tail(jobs)) = Len(jobs) - 1 /\ Len(jobs) \in Nat \ {0}
            /\ \A i \in 1..Len(Tail(jobs)) : Tail(jobs)[i] = jobs[i + 1]
            /\ Head(jobs) = jobs[1]
        BY <1>3, TailFacts DEF TypeOK
      <3>3. Len(list) = Len(jobs) - 1 /\ \A i \in 1..Len(list) : list[i] = jobs[i + 1]
        BY <2>1, <3>2, Zenon
      <3> QED
        BY <3>1, <3>2, <3>3
    <2> QED
      BY <2>1 DEF DrainList
  <1>9. /\ \A i \in 1..Len(list) : list[i] = DetachOp => i = Len(list)
        /\ InJobs <=> \E i \in 1..Len(list) : list[i] = DetachOp
    <2>1. CASE list = jobs
      BY <2>1 DEF DetachIsLast, InJobs
    <2>2. CASE /\ Len(jobs) = Len(list) + 1
               /\ jobs[1] = Null
               /\ \A i \in 1..Len(list) : list[i] = jobs[i + 1]
      <3>1. \A i \in 1..Len(list) : i + 1 \in 1..Len(jobs)
        BY <1>6, <2>2
      <3>2. \A i \in 1..Len(jobs) : i # 1 => i - 1 \in 1..Len(list) /\ (i - 1) + 1 = i
        BY <1>6, <2>2
      <3>3. \A i \in 1..Len(list) : list[i] = DetachOp => i = Len(list)
        BY <1>6, <2>2, <3>1 DEF DetachIsLast
      <3>4. InJobs => \E i \in 1..Len(list) : list[i] = DetachOp
        <4> SUFFICES ASSUME NEW k \in 1..Len(jobs), jobs[k] = DetachOp
                     PROVE  list[k - 1] = DetachOp /\ k - 1 \in 1..Len(list)
          BY DEF InJobs
        <4>1. k # 1
          BY <2>2, EntriesAssumption
        <4> QED
          BY <2>2, <3>2, <4>1
      <3>5. (\E i \in 1..Len(list) : list[i] = DetachOp) => InJobs
        BY <2>2, <3>1 DEF InJobs
      <3> QED
        BY <3>3, <3>4, <3>5
    <2> QED
      BY <1>8, <2>1, <2>2
  <1>10. OnlyPlaceholder => list = <<>>
    <2> SUFFICES ASSUME OnlyPlaceholder PROVE Len(list) = 0
      BY <1>1, EmptySeq
    <2>1. CASE list = jobs
      BY <1>6, <1>7, <2>1 DEF OnlyPlaceholder
    <2>2. CASE /\ Len(jobs) = Len(list) + 1
               /\ \A i \in 1..Len(list) : list[i] = jobs[i + 1]
      <3>1. \A i \in 1..Len(list) : i + 1 \in 1..Len(jobs)
        BY <1>6, <2>2
      <3> QED
        BY <1>6, <1>7, <2>2, <3>1 DEF OnlyPlaceholder
    <2> QED
      BY <1>8, <2>1, <2>2
  <1>11. Sealed => list = <<>>
    BY <1>10 DEF DetachIsLast
  <1>12. ASSUME ~notifyOp PROVE list = <<>>
    <2>1. queueRefs = {}
      BY <1>4, <1>12 DEF Lifetime, Ownership
    <2>2. Sealed
      BY <1>4, <2>1 DEF ManagerOrder
    <2> QED
      BY <1>11, <2>2
  <1> QED
    BY <1>2, <1>3, <1>4, <1>5, <1>6, <1>7, <1>9, <1>11, <1>12

\* One turn of drain()'s loop that takes a job.
LEMMA DrainTakes ==
  ASSUME IInv, NEW w \in Workers, NEW list, DrainList(w, list),
         NEW left \in 1..MaxOpsPerDrain, left <= Len(list),
         DrainLoop(w, list, left),
         UNCHANGED <<attached, notifyOp, life, refVars, mgrVars, histVars>>
  PROVE  IInv'
  <1> DEFINE S == Entries \cup {Null}
  <1> USE DEF IInv, refVars, mgrVars, histVars
  <1>1. /\ \A v \in Workers : v # w => ~Drains(v)
        /\ pending = 0 /\ ~InDrain /\ life = "alive"
        /\ Len(list) \in Nat
        /\ \A i \in 1..Len(list) : list[i] # Null
        /\ \A i \in 1..Len(list) : list[i] = DetachOp => i = Len(list)
        /\ InJobs <=> \E i \in 1..Len(list) : list[i] = DetachOp
        /\ Sealed => list = <<>>
    BY DrainListFacts
  <1>2. list # <<>> /\ list \in Seq(Entries)
    BY EmptySeq, BudgetAssumption DEF DrainList
  <1>3. Head(list) = list[1] /\ Head(list) \in Entries /\ Head(list) # Null
    BY <1>2, TailFacts, EntriesAssumption DEF Entries
  <1>4. /\ job' = [job EXCEPT ![w] = Head(list)]
        /\ jobs' = <<Null>> \o Tail(list)
        /\ remaining' = [remaining EXCEPT ![w] = left]
        /\ activeDrain' = TRUE
        /\ pc' = [pc EXCEPT ![w] = "run"]
        /\ pending' = pending
    BY <1>3, BudgetAssumption DEF DrainLoop, Goto
  <1>5. /\ jobs' \in Seq(S) /\ jobs' # <<>>
        /\ Len(jobs') = Len(list) /\ Head(jobs') = Null /\ jobs'[1] = Null
        /\ \A i \in 2..Len(list) : jobs'[i] = list[i]
    <2>1. list \in Seq(S) /\ Null \in S
      BY <1>2, SeqMonotonic
    <2> QED
      BY <1>2, <1>4, <2>1, SwapFacts
  <1>6. /\ pc'[w] = "run" /\ \A t \in Threads : t # w => pc'[t] = pc[t]
        /\ job'[w] = Head(list)
        /\ pc[w] \in {"enter", "relock"} /\ w \in Threads
    BY <1>4 DEF TypeOK, Threads, DrainList
  <1>7. InDrain' <=> list[1] = DetachOp
    BY <1>1, <1>3, <1>6 DEF InDrain, Drains, Draining, Threads
  <1>8. InJobs' <=> \E i \in 2..Len(list) : list[i] = DetachOp
    BY <1>1, <1>5, EntriesAssumption DEF InJobs
  <1>9. ~Sealed /\ ~Sealed'
    BY <1>1, <1>2, <1>7, <1>8 DEF Sealed
  <1>10. TypeOK'
    <2>1. job' \in [Workers -> S] /\ remaining' \in [Workers -> 0..MaxOpsPerDrain]
      BY <1>3, <1>4, BudgetAssumption DEF TypeOK
    <2>2. pc' \in [Threads -> Draining \cup {"idle"}]
      BY <1>4, <1>6 DEF TypeOK, Draining
    <2> QED
      BY <1>4, <1>5, <2>1, <2>2 DEF TypeOK
  <1>11. Wakeups'
    <2>1. \A v \in Workers : Drains(v)' <=> v = w
      BY <1>1, <1>6 DEF Drains, Draining, Threads
    <2>2. pc'[w] \in Busy
      BY <1>6 DEF Busy, Draining
    <2>3. MutualExclusion'
      BY <2>1 DEF MutualExclusion, Drains
    <2>4. activeDrain' /\ \E v \in Workers : pc'[v] \in Busy
      BY <1>4, <2>2
    <2>5. pending' = 0 /\ jobs' # <<>> /\ ~\A v \in Workers : ~Drains(v)'
      BY <1>1, <1>4, <1>5, <2>1, Zenon
    <2> QED
      BY <2>3, <2>4, <2>5 DEF Wakeups
  <1>12. Placeholder'
    <2>1. \A v \in Workers : v # w => pc'[v] \notin Draining
      BY <1>1, <1>6 DEF Drains, Threads
    <2>2. remaining'[w] = left /\ left \in 1..Len(jobs')
      <3>1. remaining'[w] = left
        BY <1>4 DEF TypeOK
      <3>2. left \in 1..Len(jobs')
        BY <1>1, <1>5
      <3> QED
        BY <3>1, <3>2
    <2>3. \A i \in 1..Len(jobs') : jobs'[i] = Null => i = 1
      BY <1>1, <1>5
    <2> QED
      BY <1>3, <1>4, <1>5, <1>6, <2>1, <2>2, <2>3
      DEF Placeholder, Draining, Busy
  <1>13. DetachIsLast'
    <2>1. \A i \in 1..Len(jobs') : jobs'[i] = DetachOp => i = Len(jobs')
      BY <1>1, <1>5, EntriesAssumption
    <2>2. InDrain' => Len(jobs') = 1
      BY <1>1, <1>2, <1>5, <1>7, EmptySeq
    <2>3. InDrain' => ~InJobs' /\ OnlyPlaceholder'
      BY <1>5, <2>2, EntriesAssumption DEF InJobs, OnlyPlaceholder
    <2>4. attached' => ~InJobs' /\ ~InDrain'
      BY <1>1, <1>2, <1>7, <1>8, EmptySeq DEF DetachIsLast
    <2> QED
      BY <1>9, <2>1, <2>3, <2>4 DEF DetachIsLast
  <1>14. ManagerOrder'
    BY <1>6, <1>9, ThreadsAssumption
    DEF ManagerOrder, AttachPending, DetachPending, Threads
  <1>15. Ownership'
    <2>1. \A t \in Threads : pc'[t] \in Leaving => pc'[t] = pc[t]
      BY <1>6 DEF Leaving
    <2>2. \A c \in Clients : pc'[c] = pc[c]
      BY <1>6, ThreadsAssumption DEF Threads
    <2>3. \A v \in Workers : pc'[v] \notin {"release", "destroy"}
      BY <1>1, <1>6 DEF Drains, Draining, Threads
    <2> QED
      BY <2>1, <2>2, <2>3 DEF Ownership, NoSelfDestruction, Leaving
  <1>16. Lifetime'
    BY <1>1, <1>6 DEF Lifetime
  <1> QED
    BY <1>10, <1>11, <1>12, <1>13, <1>14, <1>15, <1>16

\* The end of a drain: what is left on the list gets a wakeup of its own.
LEMMA DrainEnds ==
  ASSUME IInv, NEW w \in Workers, NEW list, DrainList(w, list),
         DrainLoop(w, list, 0),
         UNCHANGED <<attached, notifyOp, life, refVars, mgrVars, histVars>>
  PROVE  IInv'
  <1> USE DEF IInv, refVars, mgrVars, histVars
  <1>1. /\ \A v \in Workers : v # w => ~Drains(v)
        /\ pending = 0 /\ ~InDrain /\ life = "alive"
        /\ Len(list) \in Nat
        /\ \A i \in 1..Len(list) : list[i] # Null
        /\ \A i \in 1..Len(list) : list[i] = DetachOp => i = Len(list)
        /\ InJobs <=> \E i \in 1..Len(list) : list[i] = DetachOp
        /\ Sealed => list = <<>>
        /\ list # <<>> => notifyOp
    BY DrainListFacts
  <1>2. /\ jobs' = list /\ job' = job
        /\ remaining' = [remaining EXCEPT ![w] = 0]
        /\ activeDrain' = FALSE
        /\ pc' = [pc EXCEPT ![w] = "idle"]
        /\ pending' = IF list = <<>> THEN 0 ELSE 1
    BY <1>1 DEF DrainLoop, Goto, NotifyUnsafe
  <1>3. /\ pc'[w] = "idle" /\ \A t \in Threads : t # w => pc'[t] = pc[t]
        /\ pc[w] \in {"enter", "relock"} /\ w \in Threads
    BY <1>2 DEF TypeOK, Threads, DrainList
  <1>4. \A v \in Workers : ~Drains(v)'
    BY <1>1, <1>3 DEF Drains, Draining, Threads
  <1>5. ~InDrain' /\ (InJobs' <=> InJobs) /\ (Sealed' <=> Sealed)
    <2>1. ~InDrain'
      BY <1>4 DEF InDrain, Drains, Draining
    <2>2. InJobs' <=> InJobs
      BY <1>1, <1>2 DEF InJobs
    <2> QED
      BY <1>1, <2>1, <2>2 DEF Sealed
  <1>6. TypeOK'
    <2>1. jobs' \in Seq(Entries \cup {Null})
      BY <1>2, SeqMonotonic DEF DrainList
    <2>2. remaining' \in [Workers -> 0..MaxOpsPerDrain]
      BY <1>2, BudgetAssumption DEF TypeOK
    <2>3. pc' \in [Threads -> Draining \cup {"idle"}]
      BY <1>2 DEF TypeOK
    <2> QED
      BY <1>2, <2>1, <2>2, <2>3 DEF TypeOK
  <1>7. Wakeups'
    BY <1>2, <1>4 DEF Wakeups, Drains, MutualExclusion, Draining, Busy
  <1>8. Placeholder'
    BY <1>1, <1>2, <1>4 DEF Placeholder, Drains, Draining, Busy
  <1>9. DetachIsLast'
    BY <1>1, <1>2, <1>5, EmptySeq DEF DetachIsLast, OnlyPlaceholder
  <1>10. ManagerOrder'
    BY <1>3, <1>5, ThreadsAssumption
    DEF ManagerOrder, AttachPending, DetachPending, Threads
  <1>11. Ownership'
    <2>1. \A t \in Threads : pc'[t] \in Leaving => pc'[t] = pc[t]
      BY <1>3 DEF Leaving
    <2>2. \A c \in Clients : pc'[c] = pc[c]
      BY <1>3, ThreadsAssumption DEF Threads
    <2>3. \A v \in Workers : pc'[v] \notin {"release", "destroy"}
      BY <1>4 DEF Drains, Draining
    <2> QED
      BY <2>1, <2>2, <2>3 DEF Ownership, NoSelfDestruction, Leaving
  <1>12. Lifetime'
    BY <1>1, <1>3 DEF Lifetime
  <1> QED
    BY <1>6, <1>7, <1>8, <1>9, <1>10, <1>11, <1>12

\* A drain that enters finds entries only ...
LEMMA DrainBeginList ==
  ASSUME IInv, NEW w \in Workers, DrainBegin(w)
  PROVE  DrainList(w, jobs) /\ jobs # <<>>
  <1>1. jobs # <<>> /\ ~activeDrain /\ jobs \in Seq(Entries \cup {Null})
    BY DEF IInv, TypeOK, Wakeups, MutualExclusion, Drains, DrainBegin, Draining,
           Busy
  <1>2. \A i \in 1..Len(jobs) : jobs[i] \in Entries
    BY <1>1, ElementOfSeq DEF IInv, Placeholder
  <1>3. jobs \in Seq(Entries)
    BY <1>1, <1>2, LenProperties
  <1> QED
    BY <1>1, <1>3 DEF DrainList, DrainBegin

\* ... and so does a drain that pops its placeholder.
LEMMA DrainNextList ==
  ASSUME IInv, NEW w \in Workers, DrainNext(w)
  PROVE  /\ DrainList(w, Tail(jobs))
         /\ remaining[w] - 1 \in 0..MaxOpsPerDrain
         /\ remaining[w] - 1 <= Len(Tail(jobs))
  <1>1. /\ jobs # <<>> /\ jobs \in Seq(Entries \cup {Null})
        /\ remaining[w] \in 1..Len(jobs) /\ remaining[w] \in 0..MaxOpsPerDrain
    BY DEF IInv, TypeOK, Wakeups, Drains, Placeholder, DrainNext, Draining, Busy
  <1>2. /\ Tail(jobs) \in Seq(Entries \cup {Null})
        /\ Len(Tail(jobs)) = Len(jobs) - 1 /\ Len(jobs) \in Nat \ {0}
        /\ \A i \in 1..Len(Tail(jobs)) : Tail(jobs)[i] = jobs[i + 1]
    BY <1>1, TailFacts
  <1>3. \A i \in 1..Len(Tail(jobs)) : Tail(jobs)[i] \in Entries
    <2>1. \A i \in 1..Len(Tail(jobs)) : i + 1 \in 1..Len(jobs) /\ i + 1 # 1
      BY <1>2
    <2>2. \A i \in 1..Len(Tail(jobs)) : Tail(jobs)[i] # Null
      BY <1>2, <2>1 DEF IInv, Placeholder
    <2> QED
      BY <1>2, <2>2, ElementOfSeq
  <1>4. Tail(jobs) \in Seq(Entries)
    <2> DEFINE tail == Tail(jobs)
    <2>1. tail \in [1..Len(tail) -> Entries] /\ Len(tail) \in Nat
      BY <1>2, <1>3, LenProperties
    <2> HIDE DEF tail
    <2>2. tail \in Seq(Entries)
      BY <2>1, SeqDef
    <2> QED
      BY <2>2 DEF tail
  <1>5. DrainList(w, Tail(jobs))
    BY <1>4 DEF DrainList, DrainNext
  <1>6. /\ remaining[w] - 1 \in 0..MaxOpsPerDrain
        /\ remaining[w] - 1 <= Len(Tail(jobs))
    BY <1>1, <1>2, BudgetAssumption
  <1> QED
    BY <1>5, <1>6

\* The first critical section of drain() keeps IInv.
LEMMA DrainBeginPreserves ==
  ASSUME IInv, NEW w \in Workers, DrainBegin(w)
  PROVE  IInv'
  <1> DEFINE left == IF Len(jobs) < MaxOpsPerDrain THEN Len(jobs)
                                                   ELSE MaxOpsPerDrain
  <1>1. DrainList(w, jobs) /\ jobs # <<>>
    BY DrainBeginList
  <1>2. left \in 1..MaxOpsPerDrain /\ left <= Len(jobs)
    BY <1>1, EmptySeq, BudgetAssumption DEF IInv, TypeOK
  <1>3. DrainLoop(w, jobs, left)
    BY DEF DrainBegin
  <1> HIDE DEF left
  <1> QED
    BY <1>1, <1>2, <1>3, DrainTakes DEF DrainBegin

\* The later critical sections of drain() keep IInv.
LEMMA DrainNextPreserves ==
  ASSUME IInv, NEW w \in Workers, DrainNext(w)
  PROVE  IInv'
  <1> DEFINE left == remaining[w] - 1
  <1>1. /\ DrainList(w, Tail(jobs))
        /\ left \in 0..MaxOpsPerDrain
        /\ left <= Len(Tail(jobs))
    BY DrainNextList
  <1>2. DrainLoop(w, Tail(jobs), left)
    BY DEF DrainNext
  <1> HIDE DEF left
  <1>3. CASE left = 0
    BY <1>1, <1>2, <1>3, DrainEnds DEF DrainNext
  <1>4. CASE left # 0
    <2>1. left \in 1..MaxOpsPerDrain
      BY <1>1, <1>4, BudgetAssumption
    <2> QED
      BY <1>1, <1>2, <2>1, DrainTakes DEF DrainNext
  <1> QED
    BY <1>3, <1>4

-----------------------------------------------------------------------------
(* The theorems *)

\* Every step keeps IInv ...
LEMMA NextPreserves ==
  ASSUME IInv, Next
  PROVE  IInv'
  <1>1. ASSUME NEW c \in Clients, ClientNext(c) PROVE IInv'
    BY <1>1, CreatePreserves, DropPreserves, SharePreserves DEF ClientNext
  <1>2. ASSUME NEW u \in Clients \cup Jobs, NEW j \in Jobs, Async(u, j)
        PROVE  IInv'
    BY <1>2, AsyncPreserves
  <1>3. ASSUME NEW w \in Workers, PickUp(w) \/ DrainNextStep(w) PROVE IInv'
    BY <1>3, PickUpPreserves, DrainBeginPreserves, ProcessJobPreserves,
       ResetJobPreserves, DrainNextPreserves
    DEF DrainNextStep
  <1>4. ASSUME NEW t \in Threads, TeardownStep(t) PROVE IInv'
    BY <1>4, DetachPreserves, ReleasePreserves, DestroyPreserves
    DEF TeardownStep
  <1>5. ASSUME ManagerStep PROVE IInv'
    BY <1>5, ManagerSwapPreserves, ManagerExecutePreserves,
           ManagerFreePreserves
    DEF ManagerStep
  <1> QED
    BY <1>1, <1>2, <1>3, <1>4, <1>5 DEF Next

\* ... and so does a step of something else.
LEMMA StutterPreserves ==
  ASSUME IInv, UNCHANGED vars
  PROVE  IInv'
  <1> USE DEF vars, queueVars, drainVars, refVars, mgrVars, histVars
  <1>1. TypeOK'
    BY DEF IInv, TypeOK
  <1>2. Wakeups' /\ Placeholder'
    BY DEF IInv, Wakeups, Drains, MutualExclusion, Placeholder
  <1>3. DetachIsLast'
    BY DEF IInv, DetachIsLast, InJobs, InDrain, Sealed, OnlyPlaceholder
  <1>4. ManagerOrder'
    BY DEF IInv, ManagerOrder, AttachPending, DetachPending, Sealed, InJobs,
           InDrain
  <1>5. Ownership' /\ Lifetime'
    BY DEF IInv, Ownership, NoSelfDestruction, InJobs, Lifetime
  <1> QED
    BY <1>1, <1>2, <1>3, <1>4, <1>5 DEF IInv

\* IInv holds in every state the queue, its pool and its manager can reach.
THEOREM Invariance == Spec => []IInv
  <1>1. Init => IInv
    BY InitEstablishes
  <1>2. IInv /\ [Next]_vars => IInv'
    BY NextPreserves, StutterPreserves
  <1> QED
    BY <1>1, <1>2, PTL DEF Spec

\* The variables keep their types; in particular drain() never counts its
\* budget below zero and never pops an empty list (the assertions of
\* deferred_pop).
THEOREM TypeCorrectness == Spec => []TypeOK
  BY Invariance, PTL DEF IInv

\* Operations of one serial queue never overlap, for any number of pool threads.
THEOREM Exclusion == Spec => []MutualExclusion
  <1>1. IInv => MutualExclusion
    BY DEF IInv, Wakeups
  <1> QED
    BY <1>1, Invariance, PTL

\* A non-empty list has exactly one wakeup, an empty one none.
THEOREM WakeupAccounting == Spec => []OneWakeup
  <1>1. ASSUME IInv PROVE OneWakeup
    <2> DEFINE drains == {w \in Workers : pc[w] \in Draining}
    <2>1. CASE drains = {}
      <3>1. Cardinality(drains) = 0
        BY <2>1, FS_EmptySet
      <3>2. \A w \in Workers : ~Drains(w)
        BY <2>1 DEF Drains
      <3>3. pending = IF jobs = <<>> THEN 0 ELSE 1
        BY <1>1, <3>2 DEF IInv, Wakeups
      <3> QED
        BY <3>1, <3>3 DEF OneWakeup
    <2>2. CASE drains # {}
      <3>1. PICK w \in drains : TRUE
        BY <2>2
      <3>2. drains = {w}
        BY <1>1, <3>1 DEF IInv, Wakeups, MutualExclusion
      <3>3. Cardinality(drains) = 1
        BY <3>2, FS_Singleton
      <3>4. pending = 0 /\ jobs # <<>>
        BY <1>1, <3>1 DEF IInv, Wakeups, Drains
      <3> QED
        BY <3>3, <3>4 DEF OneWakeup
    <2> QED
      BY <2>1, <2>2
  <1> QED
    BY <1>1, Invariance, PTL

\* No thread touches an operation_queue that was freed.
THEOREM MemorySafety == Spec => []NoUseAfterFree
  <1>1. ASSUME IInv, life = "dead"
        PROVE  /\ pending = 0
               /\ \A w \in Workers : pc[w] \notin Draining
               /\ \A t \in Threads : pc[t] \notin {"detach", "release", "destroy"}
               /\ holders = {} /\ queueRefs = {}
    <2>1. jobs = <<>> /\ queueRefs = {}
      BY <1>1 DEF IInv, Lifetime
    <2>2. pending = 0 /\ \A w \in Workers : pc[w] \notin Draining
      BY <1>1, <2>1 DEF IInv, Wakeups, Drains
    <2>3. holders = {} /\ \A t \in Threads : pc[t] \notin Leaving
      BY <1>1 DEF IInv, Ownership
    <2> QED
      BY <2>1, <2>2, <2>3 DEF Leaving
  <1>2. IInv => NoUseAfterFree
    BY <1>1 DEF NoUseAfterFree
  <1> QED
    BY <1>2, Invariance, PTL

\* The destructor's wait for the end of a drain is never on the drain itself.
THEOREM DestructorPlacement == Spec => []NoSelfDestruction
  <1>1. IInv => NoSelfDestruction
    BY DEF IInv, Ownership
  <1> QED
    BY <1>1, Invariance, PTL

\* Revoking the notify operation in the destructor loses no operation.
THEOREM NothingDropped == Spec => []NoDroppedJob
  <1>1. ASSUME IInv, life = "alive", ~notifyOp
        PROVE  \A i \in 1..Len(jobs) : jobs[i] = Null
    <2>1. queueRefs = {}
      BY <1>1 DEF IInv, Lifetime, Ownership
    <2>2. Sealed
      BY <1>1, <2>1 DEF IInv, ManagerOrder
    <2> QED
      BY <1>1, <2>2 DEF IInv, DetachIsLast, OnlyPlaceholder
  <1>2. IInv => NoDroppedJob
    BY <1>1 DEF NoDroppedJob
  <1> QED
    BY <1>2, Invariance, PTL

-----------------------------------------------------------------------------
(* The queue implements SerialExecutor (its safety part) *)

ExecutorStutters == UNCHANGED <<Queued, Active, done>>

\* Steps that touch neither the list nor a job being executed are invisible.
LEMMA Invisible ==
  ASSUME IInv, UNCHANGED <<jobs, done>>,
         \A w \in Workers : \/ pc[w] # "run" /\ pc'[w] # "run"
                            \/ pc'[w] = pc[w] /\ job'[w] = job[w]
  PROVE  ExecutorStutters
  <1>1. Active' = Active
    BY DEF Active
  <1> QED
    BY <1>1 DEF ExecutorStutters, Queued

\* async_unsafe() submits its operation to the executor.
LEMMA SubmitStep ==
  ASSUME IInv, NEW e \in Entries, jobs' = Append(jobs, e),
         Active' = Active, done' = done
  PROVE  Executor!Submit(e)
  <1> DEFINE S == Entries \cup {Null}
  <1>1. jobs \in Seq(S) /\ e \in S /\ e # Null
    BY EntriesAssumption DEF IInv, TypeOK, Entries
  <1>2. CASE jobs = <<>>
    <2>1. jobs' # <<>> /\ Head(jobs') = e
      BY <1>1, <1>2
    <2> QED
      BY <1>1, <1>2, <2>1 DEF Queued, Executor!Submit
  <1>3. CASE jobs # <<>>
    <2>1. jobs' # <<>> /\ Head(jobs') = Head(jobs)
      BY <1>1, <1>3, AppendFacts
    <2>2. Tail(jobs') = Append(Tail(jobs), e)
      <3> DEFINE a == Tail(Append(jobs, e))
                 b == Append(Tail(jobs), e)
      <3>1. /\ Tail(jobs) \in Seq(S) /\ Len(Tail(jobs)) = Len(jobs) - 1
            /\ \A i \in 1..Len(Tail(jobs)) : Tail(jobs)[i] = jobs[i + 1]
            /\ Len(jobs) \in Nat \ {0}
        BY <1>1, <1>3, TailFacts
      <3>2. /\ Append(jobs, e) \in Seq(S) /\ Append(jobs, e) # <<>>
            /\ Len(Append(jobs, e)) = Len(jobs) + 1
            /\ \A i \in 1..Len(jobs) : Append(jobs, e)[i] = jobs[i]
            /\ Append(jobs, e)[Len(jobs) + 1] = e
        BY <1>1, AppendFacts
      <3>3. /\ a \in Seq(S) /\ Len(a) = Len(jobs)
            /\ \A i \in 1..Len(a) : a[i] = Append(jobs, e)[i + 1]
        BY <3>1, <3>2, TailFacts
      <3>4. /\ b \in Seq(S) /\ Len(b) = Len(jobs)
            /\ \A i \in 1..(Len(jobs) - 1) : b[i] = Tail(jobs)[i]
            /\ b[Len(jobs)] = e
        BY <1>1, <3>1, AppendProperties
      <3> HIDE DEF a, b
      <3>5. ASSUME NEW i \in 1..Len(jobs) PROVE a[i] = b[i]
        <4>1. a[i] = Append(jobs, e)[i + 1]
          BY <3>3
        <4>2. CASE i = Len(jobs)
          BY <3>2, <3>4, <4>1, <4>2
        <4>3. CASE i # Len(jobs)
          <5> Len(jobs) \in Nat
            BY <3>1
          <5>1. i \in 1..(Len(jobs) - 1) /\ i + 1 \in 1..Len(jobs)
            BY <4>3
          <5>2. b[i] = jobs[i + 1]
            BY <3>1, <3>4, <5>1
          <5> QED
            BY <3>2, <4>1, <5>1, <5>2
        <4> QED
          BY <4>2, <4>3
      <3>6. a = b
        BY <3>3, <3>4, <3>5, SeqEqual
      <3> QED
        BY <3>6 DEF a, b
    <2> QED
      BY <1>3, <2>1, <2>2 DEF Queued, Executor!Submit
  <1> QED
    BY <1>2, <1>3

\* A turn of drain()'s loop starts the oldest entry or leaves them as they are.
LEMMA DrainStep ==
  ASSUME IInv, NEW w \in Workers, NEW list, DrainList(w, list),
         NEW left \in Nat, left <= Len(list), DrainLoop(w, list, left),
         done' = done
  PROVE  Executor!Start \/ ExecutorStutters
  <1>1. /\ \A v \in Workers : v # w => ~Drains(v)
        /\ Len(list) \in Nat
        /\ \A i \in 1..Len(list) : list[i] # Null
    BY DrainListFacts
  <1>2. pc[w] \in {"enter", "relock"} /\ list \in Seq(Entries)
    BY DEF DrainList
  <1>3. list # <<>> => Head(list) # Null
    BY <1>1, <1>2, TailFacts, EntriesAssumption DEF Entries
  <1>4. Queued = list
    <2>1. CASE pc[w] = "enter" /\ list = jobs
      BY <1>3, <2>1 DEF Queued
    <2>2. CASE pc[w] = "relock" /\ list = Tail(jobs)
      <3>1. jobs # <<>> /\ Head(jobs) = Null
        BY <2>2 DEF IInv, Wakeups, Placeholder, Drains, Draining, Busy
      <3> QED
        BY <2>2, <3>1, Zenon DEF Queued
    <2> QED
      BY <2>1, <2>2 DEF DrainList
  <1>5. \A v \in Workers : pc[v] # "run"
    BY <1>1, <1>2 DEF Drains, Draining
  <1>6. Active = {}
    BY <1>5 DEF Active
  <1>7. CASE left = 0
    <2>1. jobs' = list /\ \A v \in Workers : pc'[v] # "run"
      BY <1>5, <1>7 DEF DrainLoop, Goto, IInv, TypeOK, Threads
    <2>2. Active' = {} /\ Queued' = list
      BY <1>3, <2>1 DEF Active, Queued
    <2> QED
      BY <1>4, <1>6, <2>2 DEF ExecutorStutters
  <1>8. CASE left # 0
    <2>1. list # <<>>
      BY <1>1, <1>8, EmptySeq
    <2>2. /\ job' = [job EXCEPT ![w] = Head(list)]
          /\ jobs' = <<Null>> \o Tail(list)
          /\ pc' = [pc EXCEPT ![w] = "run"]
      BY <1>3, <1>8, <2>1 DEF DrainLoop, Goto
    <2>3. /\ pc'[w] = "run" /\ job'[w] = Head(list)
          /\ \A v \in Workers : v # w => pc'[v] # "run"
      BY <1>5, <2>2 DEF IInv, TypeOK, Threads
    <2>4. Active' = {Head(list)}
      BY <2>3 DEF Active
    <2>5. Queued' = Tail(list)
      <3> DEFINE S == Entries \cup {Null}
      <3>1. list \in Seq(S) /\ Null \in S
        BY <1>2, SeqMonotonic
      <3>2. jobs' # <<>> /\ Head(jobs') = Null
        BY <2>1, <2>2, <3>1, SwapFacts
      <3>3. Tail(jobs') = Tail(list)
        BY <2>1, <2>2, <3>1, SwapTail
      <3> QED
        BY <3>2, <3>3 DEF Queued
    <2> QED
      BY <1>4, <1>6, <2>1, <2>4, <2>5 DEF Executor!Start
  <1> QED
    BY <1>7, <1>8

\* Every step of the queue is a step of the executor or invisible to it.
LEMMA StepSimulation ==
  ASSUME IInv, Next
  PROVE  Executor!Next \/ ExecutorStutters
  <1> USE DEF Goto, queueVars, drainVars, refVars, mgrVars, histVars
  <1>1. ASSUME NEW c \in Clients, ClientNext(c) PROVE ExecutorStutters
    <2>1. /\ UNCHANGED <<jobs, done, job>>
          /\ \A w \in Workers : pc'[w] = pc[w]
      BY <1>1, ThreadsAssumption
      DEF ClientNext, Create, MakeSerialQueue, Attach, Drop, DropReference, Share, IInv, TypeOK,
         Threads
    <2> QED
      BY <2>1, Invisible
  <1>2. ASSUME NEW u \in Clients \cup Jobs, NEW j \in Jobs, Async(u, j)
        PROVE  Executor!Next
    <2>1. jobs' = Append(jobs, j) /\ UNCHANGED <<pc, job, done>> /\ j \in Entries
      BY <1>2 DEF Async, AsyncUnsafe, Entries
    <2>2. Active' = Active
      BY <2>1 DEF Active
    <2> QED
      BY <2>1, <2>2, SubmitStep DEF Executor!Next
  <1>3. ASSUME NEW w \in Workers, PickUp(w) PROVE ExecutorStutters
    <2>1. /\ UNCHANGED <<jobs, done, job>>
          /\ pc[w] = "idle" /\ pc'[w] = "enter"
          /\ \A v \in Workers : v # w => pc'[v] = pc[v]
      BY <1>3 DEF PickUp, IInv, TypeOK, Threads
    <2> QED
      BY <2>1, Invisible
  <1>4. ASSUME NEW w \in Workers, DrainBegin(w)
        PROVE  Executor!Next \/ ExecutorStutters
    <2> DEFINE left == IF Len(jobs) < MaxOpsPerDrain THEN Len(jobs)
                                                     ELSE MaxOpsPerDrain
    <2>1. DrainList(w, jobs)
      BY <1>4, DrainBeginList
    <2>2. left \in Nat /\ left <= Len(jobs)
      BY BudgetAssumption DEF IInv, TypeOK
    <2>3. DrainLoop(w, jobs, left) /\ done' = done
      BY <1>4 DEF DrainBegin
    <2> HIDE DEF left
    <2> QED
      BY <2>1, <2>2, <2>3, DrainStep DEF Executor!Next
  <1>5. ASSUME NEW w \in Workers, DrainNext(w)
        PROVE  Executor!Next \/ ExecutorStutters
    <2>1. /\ DrainList(w, Tail(jobs))
          /\ remaining[w] - 1 \in Nat /\ remaining[w] - 1 <= Len(Tail(jobs))
      BY <1>5, DrainNextList, BudgetAssumption
    <2>2. DrainLoop(w, Tail(jobs), remaining[w] - 1) /\ done' = done
      BY <1>5 DEF DrainNext
    <2> QED
      BY <2>1, <2>2, DrainStep DEF Executor!Next
  <1>6. ASSUME NEW w \in Workers, ProcessJob(w) PROVE Executor!Next
    <2>1. /\ pc[w] = "run" /\ pc'[w] = "reset"
          /\ \A v \in Workers : v # w => pc[v] # "run" /\ pc'[v] # "run"
      BY <1>6 DEF ProcessJob, IInv, TypeOK, Threads, Wakeups, MutualExclusion,
                  Draining
    <2>2. Active = {job[w]} /\ Active' = {}
      BY <2>1 DEF Active
    <2>3. job[w] \in Entries
      BY <2>1 DEF IInv, TypeOK, Placeholder
    <2>4. Queued' = Queued /\ done' = Append(done, job[w])
      BY <1>6 DEF ProcessJob, Queued
    <2> QED
      BY <2>2, <2>3, <2>4 DEF Executor!Next, Executor!Finish
  <1>7. ASSUME NEW w \in Workers, ResetJob(w) PROVE ExecutorStutters
    <2>1. /\ UNCHANGED <<jobs, done>>
          /\ pc[w] = "reset" /\ pc'[w] # "run"
          /\ \A v \in Workers : v # w => pc'[v] = pc[v] /\ job'[v] = job[v]
      BY <1>7 DEF ResetJob, DropReference, IInv, TypeOK, Threads
    <2> QED
      BY <2>1, Invisible
  <1>8. ASSUME NEW t \in Threads, Detach(t)
        PROVE  Executor!Next \/ ExecutorStutters
    <2>1. /\ UNCHANGED <<done, job>>
          /\ \A w \in Workers : \/ pc[w] # "run" /\ pc'[w] # "run"
                                \/ pc'[w] = pc[w] /\ job'[w] = job[w]
      BY <1>8 DEF Detach, IInv, TypeOK, Threads
    <2>2. CASE jobs = <<>>
      BY <1>8, <2>1, <2>2, Invisible DEF Detach
    <2>3. CASE jobs # <<>>
      <3>1. Active' = Active
        BY <2>1 DEF Active
      <3>2. jobs' = Append(jobs, DetachOp) /\ DetachOp \in Entries
        BY <1>8, <2>3 DEF Detach, AsyncUnsafe, Entries
      <3> QED
        BY <2>1, <3>1, <3>2, SubmitStep DEF Executor!Next
    <2> QED
      BY <2>2, <2>3
  <1>9. ASSUME NEW t \in Threads, Release(t) \/ Destroy(t)
        PROVE  ExecutorStutters
    <2>1. UNCHANGED <<jobs, done, job>> /\ pc[t] # "run"
      BY <1>9 DEF Release, Destroy
    <2>2. \A w \in Workers : w # t => pc'[w] = pc[w]
      BY <1>9 DEF Release, Destroy, ReleaseQueue, IInv, TypeOK, Threads
    <2>3. t \in Workers => Continue(t) = "relock"
      BY ThreadsAssumption DEF Continue
    <2>4. t \in Workers => pc'[t] # "run"
      BY <1>9, <2>1, <2>3 DEF Release, Destroy, ReleaseQueue, IInv, TypeOK, Threads
    <2> QED
      BY <2>1, <2>2, <2>4, Invisible
  <1>10. ASSUME ManagerStep PROVE ExecutorStutters
    <2>1. /\ UNCHANGED <<jobs, done, job>>
          /\ \A w \in Workers : pc'[w] = pc[w]
      BY <1>10, ThreadsAssumption
      DEF ManagerStep, ManagerSwap, ManagerExecute, ManagerFree, ReleaseQueue,
          IInv, TypeOK, Threads
    <2> QED
      BY <2>1, Invisible
  <1> QED
    BY <1>1, <1>2, <1>3, <1>4, <1>5, <1>6, <1>7, <1>8, <1>9, <1>10
    DEF Next, DrainNextStep, TeardownStep

\* The safety half of ImplementsSerialExecutor: one entry at a time, each one
\* once, in the order of submission, whatever thread executes it.
THEOREM Refinement == Spec => Executor!Spec
  <1>1. Init => Executor!Init
    <2> SUFFICES ASSUME Init PROVE Executor!Init
      OBVIOUS
    <2>1. Active = {}
      BY DEF Init, Active, Threads
    <2> QED
      BY <2>1 DEF Init, Executor!Init, Queued
  <1>2. IInv /\ [Next]_vars => [Executor!Next]_Executor!vars
    <2>1. ASSUME UNCHANGED vars PROVE ExecutorStutters
      BY <2>1 DEF ExecutorStutters, Queued, Active, vars, queueVars, drainVars,
                  histVars
    <2> QED
      BY <2>1, StepSimulation DEF ExecutorStutters, Executor!vars
  <1> QED
    BY <1>1, <1>2, Invariance, PTL DEF Spec, Executor!Spec
=============================================================================
