---------------------------- MODULE GroupProofs -----------------------------
(***************************************************************************)
(* Proofs about Group for any finite number of operations, and any number  *)
(* of threads, notifications and consumables.                              *)
(***************************************************************************)
EXTENDS Group, FiniteSetTheorems, TLAPS

USE DEF opVars, waiterVars, chainVars

-----------------------------------------------------------------------------
(* The inductive invariant *)

\* Operations consume from links that are there already; apply() gives its
\* iterations a link of their own, which counts them before any is queued.
Placed ==
  /\ \A o \in Operations : link[o] <= current
  /\ program = "apply" =>
       /\ \A o \in Operations : pc[o] # "loaded" /\ (pc[o] # "new" => link[o] < current)
       /\ \A k \in dry : k < current
       /\ late = {}

\* A barrier is completed behind the last resource only.
Dried ==
  /\ \A o \in Operations : pc[o] = "last" => link[o] \in dry
  /\ \A k \in Links : completed[k] => k \in dry

Counting == {"new", "loaded"}   \* operations that were not counted yet

\* All operations of a link that has run empty are executed, late ones excepted.
DryIsExecuted ==
  \A o \in Operations : pc[o] \notin Counting /\ link[o] \in dry => o \in Executed \cup late

Waiting(w) == wpc[w] \in {"apply", "check", "block"}

\* The operations a waiter has to see executed were counted, and none is beyond
\* the last link it waits for ...
Awaited ==
  \A w \in Waiters :
    /\ pos[w] <= target[w]
    /\ \A o \in expected[w] :
         /\ pc[o] \notin Counting
         /\ Waiting(w) => link[o] <= target[w]

\* ... and those of the links it has behind it are executed.
Passed ==
  \A w \in Waiters :
    Waiting(w) => \A o \in expected[w] : link[o] < pos[w] => o \in Executed \cup late

IInv ==
  /\ TypeOK /\ ResourcesExact /\ Placed /\ Dried /\ DryIsExecuted
  /\ Awaited /\ Passed /\ WaitCoversOperations

-----------------------------------------------------------------------------
(* Counting the operations of a link *)

\* The operations that still have to consume from link k.
Holders(k) == {o \in Counted : link[o] = k}

LEMMA FiniteHolders ==
  \A k : IsFiniteSet(Holders(k)) /\ Cardinality(Holders(k)) \in Nat
  <1>1. \A k : Holders(k) \in SUBSET Operations
    BY DEF Holders, Counted
  <1> QED
    BY <1>1, OperationsAssumption, FS_Subset, FS_CardinalityType

\* Only a link without holders has no resources left, and with a single one left
\* its last holder is alone.
LEMMA Holding ==
  ASSUME IInv
  PROVE  /\ \A o \in Counted : resources[link[o]] > 0
         /\ \A k \in Links : resources[k] = 0 => Holders(k) = {}
         /\ \A o \in Counted : resources[link[o]] = 1 => Holders(link[o]) = {o}
  <1>1. \A k \in Links : resources[k] = Cardinality(Holders(k))
    BY DEF IInv, ResourcesExact, Holders
  <1>2. \A k \in Links : resources[k] = 0 <=> Holders(k) = {}
    BY <1>1, FiniteHolders, FS_EmptySet
  <1>3. \A o \in Counted : link[o] \in Links /\ o \in Holders(link[o])
    BY DEF IInv, TypeOK, Counted, Holders
  <1>4. \A o \in Counted : resources[link[o]] > 0
    BY <1>1, <1>2, <1>3, FiniteHolders
  <1>5. ASSUME NEW o \in Counted, resources[link[o]] = 1
        PROVE  Holders(link[o]) = {o}
    <2>1. Cardinality(Holders(link[o])) = 1
      BY <1>1, <1>3, <1>5
    <2>2. \E x : Holders(link[o]) = {x}
      BY <2>1, FiniteHolders, FS_Singleton
    <2> QED
      BY <2>2, <1>3
  <1> QED
    BY <1>2, <1>4, <1>5

\* Steps that neither count nor consume leave every link its holders.
LEMMA SameHolders ==
  ASSUME IInv, Counted' = Counted, resources' = resources,
         \A o \in Counted : link'[o] = link[o]
  PROVE  ResourcesExact'
  BY DEF IInv, ResourcesExact

\* One more holder of a link, counted.
LEMMA OneMoreHolder ==
  ASSUME IInv, NEW o \in Operations, o \notin Counted, link' = link,
         Counted' = Counted \cup {o},
         resources' = [resources EXCEPT ![link[o]] = @ + 1]
  PROVE  ResourcesExact' /\ resources' \in [Links -> Nat]
  <1>1. /\ \A k \in Links : resources[k] = Cardinality(Holders(k)) /\ resources[k] \in Nat
        /\ link[o] \in Links /\ resources \in [Links -> Nat]
    BY DEF IInv, TypeOK, ResourcesExact, Holders
  <1>2. ASSUME NEW k \in Links PROVE resources'[k] = Cardinality(Holders(k)')
    <2>1. CASE k = link[o]
      <3>1. Holders(k)' = Holders(k) \cup {o} /\ o \notin Holders(k)
        BY <2>1 DEF Holders
      <3>2. Cardinality(Holders(k) \cup {o}) = Cardinality(Holders(k)) + 1
        BY <3>1, FiniteHolders, FS_AddElement
      <3> QED
        BY <1>1, <2>1, <3>1, <3>2
    <2>2. CASE k # link[o]
      <3>1. Holders(k)' = Holders(k)
        BY <2>2 DEF Holders
      <3> QED
        BY <1>1, <2>2, <3>1
    <2> QED
      BY <2>1, <2>2
  <1>3. resources' \in [Links -> Nat]
    BY <1>1
  <1> QED
    BY <1>2, <1>3 DEF ResourcesExact, Holders

\* One holder of a link less.
LEMMA OneHolderLess ==
  ASSUME IInv, NEW o \in Counted, link' = link,
         Counted' = Counted \ {o},
         resources' = [resources EXCEPT ![link[o]] = @ - 1]
  PROVE  ResourcesExact' /\ resources' \in [Links -> Nat]
  <1>1. /\ \A k \in Links : resources[k] = Cardinality(Holders(k)) /\ resources[k] \in Nat
        /\ link[o] \in Links /\ resources \in [Links -> Nat]
    BY DEF IInv, TypeOK, ResourcesExact, Holders, Counted
  <1>2. ASSUME NEW k \in Links PROVE resources'[k] = Cardinality(Holders(k)')
    <2>1. CASE k = link[o]
      <3>1. Holders(k)' = Holders(k) \ {o} /\ o \in Holders(k)
        BY <2>1 DEF Holders
      <3>2. Cardinality(Holders(k) \ {o}) = Cardinality(Holders(k)) - 1
        BY <3>1, FiniteHolders, FS_RemoveElement
      <3> QED
        BY <1>1, <2>1, <3>1, <3>2
    <2>2. CASE k # link[o]
      <3>1. Holders(k)' = Holders(k)
        BY <2>2 DEF Holders
      <3> QED
        BY <1>1, <2>2, <3>1
    <2> QED
      BY <2>1, <2>2
  <1>3. resources[link[o]] > 0
    BY Holding
  <1>4. resources' \in [Links -> Nat]
    BY <1>1, <1>3
  <1> QED
    BY <1>2, <1>4 DEF ResourcesExact, Holders

\* The iterations of an apply() are the holders of its fresh link.
LEMMA FreshHolders ==
  ASSUME IInv, NEW w \in Threads, NEW is \in SUBSET Operations, Apply(w, is)
  PROVE  ResourcesExact' /\ resources' \in [Links -> Nat]
  <1>1. /\ \A k \in Links : resources[k] = Cardinality(Holders(k)) /\ resources[k] \in Nat
        /\ current \in Links /\ resources \in [Links -> Nat]
    BY DEF IInv, TypeOK, ResourcesExact, Holders
  <1>2. IsFiniteSet(is) /\ Cardinality(is) \in Nat
    BY OperationsAssumption, FS_Subset, FS_CardinalityType
  <1>3. \A o \in Counted : link[o] # current /\ o \notin is
    <2>1. ASSUME NEW o \in Counted PROVE link[o] < current /\ pc[o] # "new"
      BY DEF Apply, IInv, Placed, Counted
    <2>2. \A o \in Counted : link[o] \in Int
      BY MaxSwapsAssumption DEF IInv, TypeOK, Links, Counted
    <2>3. current \in Int
      BY MaxSwapsAssumption DEF IInv, TypeOK, Links
    <2>4. \A o \in is : pc[o] = "new"
      BY DEF Apply
    <2> QED
      BY <2>1, <2>2, <2>3, <2>4
  <1>4. Counted' = Counted \cup is
    BY DEF Apply, Counted, IInv, TypeOK
  <1>5. \A o \in Operations : link'[o] = IF o \in is THEN current ELSE link[o]
    BY DEF Apply
  <1>6. ASSUME NEW k \in Links PROVE resources'[k] = Cardinality(Holders(k)')
    <2>1. CASE k = current
      <3>1. Holders(k)' = is
        BY <2>1, <1>3, <1>4, <1>5 DEF Holders, Counted
      <3> QED
        BY <1>1, <2>1, <3>1 DEF Apply
    <2>2. CASE k # current
      <3>1. Holders(k)' = Holders(k)
        BY <2>2, <1>3, <1>4, <1>5 DEF Holders, Counted
      <3> QED
        BY <1>1, <2>2, <3>1 DEF Apply
    <2> QED
      BY <2>1, <2>2
  <1>7. resources' \in [Links -> Nat]
    BY <1>1, <1>2 DEF Apply
  <1> QED
    BY <1>6, <1>7 DEF ResourcesExact, Holders
-----------------------------------------------------------------------------
(* Steps of operations *)

\* Operations do not come back, so that what a waiter knows of them stays true.
Forward ==
  /\ Executed \subseteq Executed' /\ late \subseteq late'
  /\ \A o \in Operations : pc[o] \notin Counting => pc'[o] \notin Counting /\ link'[o] = link[o]

LEMMA ForwardKeepsWaiters ==
  ASSUME IInv, Forward, UNCHANGED waiterVars
  PROVE  Awaited' /\ Passed' /\ WaitCoversOperations'
  <1>1. \A w \in Waiters : expected[w] \subseteq Operations
    BY DEF IInv, TypeOK
  <1>2. \A w \in Waiters : \A o \in expected[w] : pc[o] \notin Counting
    BY DEF IInv, Awaited
  <1>3. \A w \in Waiters : \A o \in expected[w] : pc'[o] \notin Counting /\ link'[o] = link[o]
    BY <1>1, <1>2 DEF Forward
  <1>4. Awaited'
    BY <1>3 DEF IInv, Awaited, Waiting
  <1>5. Passed'
    BY <1>3 DEF IInv, Passed, Waiting, Forward
  <1>6. WaitCoversOperations'
    BY DEF IInv, WaitCoversOperations, Forward
  <1> QED
    BY <1>4, <1>5, <1>6

LEMMA LoadConsumableKeepsIInv ==
  ASSUME IInv, NEW o \in Operations, LoadConsumable(o)
  PROVE  IInv'
  <1> USE DEF LoadConsumable, Goto
  <1>1. pc \in [Operations -> Pcs] /\ link \in [Operations -> Links] /\ current \in Links
    BY DEF IInv, TypeOK
  <1>2. TypeOK'
    BY <1>1 DEF IInv, TypeOK, Pcs
  <1>3. Counted' = Counted /\ Executed' = Executed
    BY <1>1 DEF Counted, Executed
  <1>4. ResourcesExact'
    BY <1>1, <1>3, SameHolders DEF Counted
  <1>5. Placed'
    <2>1. current <= current
      BY <1>1, MaxSwapsAssumption DEF Links
    <2> QED
      BY <1>1, <2>1 DEF IInv, Placed
  <1>6. Dried'
    BY <1>1 DEF IInv, Dried
  <1>7. DryIsExecuted'
    BY <1>1, <1>3 DEF IInv, DryIsExecuted, Counting
  <1>8. Forward
    BY <1>1, <1>3 DEF Forward, Counting
  <1> QED
    BY <1>2, <1>4, <1>5, <1>6, <1>7, <1>8, ForwardKeepsWaiters DEF IInv

LEMMA AddResourceKeepsIInv ==
  ASSUME IInv, NEW o \in Operations, AddResource(o)
  PROVE  IInv'
  <1> USE DEF AddResource, Goto
  <1>1. pc \in [Operations -> Pcs]
    BY DEF IInv, TypeOK
  <1>2. Counted' = Counted \cup {o} /\ o \notin Counted /\ Executed' = Executed
    BY <1>1 DEF Counted, Executed
  <1>3. ResourcesExact' /\ resources' \in [Links -> Nat]
    BY <1>2, OneMoreHolder
  <1>4. late' \subseteq Operations /\ pc' \in [Operations -> Pcs]
    BY <1>1 DEF IInv, TypeOK, Pcs
  <1>5. TypeOK'
    BY <1>3, <1>4 DEF IInv, TypeOK
  <1>6. Placed'
    BY <1>1 DEF IInv, Placed
  <1>7. Dried'
    BY <1>1 DEF IInv, Dried
  <1>8. DryIsExecuted'
    BY <1>1, <1>2 DEF IInv, DryIsExecuted, Counting
  <1>9. Forward
    BY <1>1, <1>2 DEF Forward, Counting
  <1> QED
    BY <1>3, <1>5, <1>6, <1>7, <1>8, <1>9, ForwardKeepsWaiters DEF IInv

LEMMA ExecuteKeepsIInv ==
  ASSUME IInv, NEW o \in Operations, Execute(o) \/ AssertResource(o)
  PROVE  IInv'
  <1> USE DEF Execute, AssertResource, Goto
  <1>1. /\ pc \in [Operations -> Pcs]
        /\ UNCHANGED <<chainVars, link, dry, late, waiterVars>>
    BY DEF IInv, TypeOK
  <1>2. PICK l \in {"executed", "asserted"} :
          pc[o] \in {"queued", "executed"} /\ pc' = [pc EXCEPT ![o] = l]
    OBVIOUS
  <1> HIDE DEF Execute, AssertResource
  <1>3. TypeOK'
    BY <1>1, <1>2 DEF IInv, TypeOK, Pcs
  <1>4. Counted' = Counted /\ Executed \subseteq Executed'
    BY <1>1, <1>2 DEF Counted, Executed
  <1>5. ResourcesExact'
    BY <1>1, <1>4, SameHolders
  <1>6. Placed'
    BY <1>1, <1>2 DEF IInv, Placed
  <1>7. Dried'
    BY <1>1, <1>2 DEF IInv, Dried
  <1>8. DryIsExecuted'
    BY <1>1, <1>2, <1>4 DEF IInv, DryIsExecuted, Counting
  <1>9. Forward
    BY <1>1, <1>2, <1>4 DEF Forward, Counting
  <1> QED
    BY <1>1, <1>3, <1>5, <1>6, <1>7, <1>8, <1>9, ForwardKeepsWaiters DEF IInv

\* The last holder of a link finds everybody else executed.
LEMMA ConsumeKeepsIInv ==
  ASSUME IInv, NEW o \in Operations, Consume(o)
  PROVE  IInv'
  <1> USE DEF Consume, Goto
  <1>1. pc \in [Operations -> Pcs] /\ link \in [Operations -> Links]
    BY DEF IInv, TypeOK
  <1>2. Counted' = Counted \ {o} /\ o \in Counted /\ Executed' = Executed /\ o \in Executed
    BY <1>1 DEF Counted, Executed
  <1>3. ResourcesExact' /\ resources' \in [Links -> Nat]
    BY <1>2, OneHolderLess
  <1>4. dry' \subseteq Links /\ pc' \in [Operations -> Pcs]
    BY <1>1 DEF IInv, TypeOK, Pcs
  <1>5. TypeOK'
    BY <1>3, <1>4 DEF IInv, TypeOK
  <1>6. Placed'
    BY <1>1 DEF IInv, Placed
  <1>7. Dried'
    BY <1>1 DEF IInv, Dried
  <1>8. DryIsExecuted'
    <2>1. CASE resources[link[o]] = 1
      <3>1. Holders(link[o]) = {o}
        BY <1>2, <2>1, Holding
      <3>2. \A p \in Operations : pc[p] \notin Counting /\ link[p] = link[o] => p \in Executed
        BY <1>1, <1>2, <3>1 DEF Holders, Counted, Counting, Executed, Pcs
      <3>3. \A p \in Operations : pc'[p] \notin Counting => pc[p] \notin Counting
        BY <1>1 DEF Counting
      <3> QED
        BY <1>2, <2>1, <3>2, <3>3 DEF IInv, DryIsExecuted
    <2>2. CASE resources[link[o]] # 1
      BY <1>1, <1>2, <2>2 DEF IInv, DryIsExecuted, Counting
    <2> QED
      BY <2>1, <2>2
  <1>9. Forward
    BY <1>1, <1>2 DEF Forward, Counting
  <1> QED
    BY <1>3, <1>5, <1>6, <1>7, <1>8, <1>9, ForwardKeepsWaiters DEF IInv

LEMMA CompleteBarrierKeepsIInv ==
  ASSUME IInv, NEW o \in Operations, CompleteBarrier(o)
  PROVE  IInv'
  <1> USE DEF CompleteBarrier, Goto
  <1>1. /\ pc \in [Operations -> Pcs] /\ link \in [Operations -> Links]
        /\ completed \in [Links -> BOOLEAN]
    BY DEF IInv, TypeOK
  <1>2. completed' \in [Links -> BOOLEAN] /\ pc' \in [Operations -> Pcs]
    BY <1>1 DEF Pcs
  <1>3. TypeOK'
    BY <1>2 DEF IInv, TypeOK
  <1>4. Counted' = Counted /\ Executed' = Executed
    BY <1>1 DEF Counted, Executed
  <1>5. ResourcesExact'
    BY <1>4, SameHolders
  <1>6. Placed'
    BY <1>1 DEF IInv, Placed
  <1>7. Dried'
    BY <1>1 DEF IInv, Dried
  <1>8. DryIsExecuted'
    BY <1>1, <1>4 DEF IInv, DryIsExecuted, Counting
  <1>9. Forward
    BY <1>1, <1>4 DEF Forward, Counting
  <1> QED
    BY <1>3, <1>5, <1>6, <1>7, <1>8, <1>9, ForwardKeepsWaiters DEF IInv
-----------------------------------------------------------------------------
(* Steps of waiters *)

\* Waiting changes nothing about operations and their links.
LEMMA WaitersKeepChain ==
  ASSUME IInv, UNCHANGED <<chainVars, opVars>>
  PROVE  ResourcesExact' /\ Placed' /\ Dried' /\ DryIsExecuted'
  BY DEF IInv, ResourcesExact, Placed, Dried, DryIsExecuted, Counted, Executed

\* A waiter that only goes on inside of its call, or leaves it, has nothing to show.
LEMMA WGotoKeepsIInv ==
  ASSUME IInv, NEW w \in Waiters,
         NEW l \in {"idle", "posted", "apply", "check", "block", "notify", "notified"},
         WGoto(w, l), ~Waiting(w) => l \notin {"apply", "check", "block"},
         UNCHANGED <<chainVars, opVars, timed, pos, target, outcome, expected>>
  PROVE  IInv'
  <1>1. TypeOK'
    BY DEF IInv, TypeOK, WGoto
  <1>2. \A v \in Waiters : Waiting(v)' => Waiting(v)
    BY DEF IInv, TypeOK, WGoto, Waiting
  <1>3. Awaited' /\ Passed' /\ WaitCoversOperations'
    BY <1>2 DEF IInv, Awaited, Passed, WaitCoversOperations, Executed
  <1> QED
    BY <1>1, <1>3, WaitersKeepChain DEF IInv

LEMMA SwapKeepsIInv ==
  ASSUME IInv, NEW w \in Waiters, NEW t \in BOOLEAN, Swap(w, t)
  PROVE  IInv'
  <1> USE DEF Swap, WGoto
  <1>1. /\ current \in Int /\ current \in Links /\ current + 1 \in Links /\ 0 \in Links
        /\ 0 <= current
    BY MaxSwapsAssumption DEF IInv, TypeOK, Links
  <1>2. InGroup \subseteq Operations
    BY DEF InGroup, Executed
  <1>3. /\ pos' \in [Waiters -> Links] /\ target' \in [Waiters -> Links]
        /\ timed' \in [Waiters -> BOOLEAN] /\ expected' \in [Waiters -> SUBSET Operations]
    BY <1>1, <1>2 DEF IInv, TypeOK
  <1>4. TypeOK'
    BY <1>1, <1>3 DEF IInv, TypeOK
  <1>5. \A o \in Operations : link[o] \in Int /\ link[o] >= 0 /\ link[o] <= current
    BY MaxSwapsAssumption DEF IInv, TypeOK, Links, Placed
  <1>6. ResourcesExact' /\ Dried' /\ DryIsExecuted'
    BY DEF IInv, ResourcesExact, Dried, DryIsExecuted, Counted, Executed
  <1>7. Placed'
    BY <1>1, <1>5 DEF IInv, Placed
  <1>8. /\ \A v \in Waiters : v # w =>
             /\ pos'[v] = pos[v] /\ target'[v] = target[v] /\ expected'[v] = expected[v]
             /\ outcome'[v] = outcome[v] /\ wpc'[v] = wpc[v]
        /\ pos'[w] = 0 /\ target'[w] = current /\ expected'[w] = InGroup
        /\ outcome'[w] = "none"
    BY DEF IInv, TypeOK
  <1>9. \A o \in InGroup : pc[o] \notin Counting
    BY DEF InGroup, Executed, Counting
  <1>10. Awaited'
    BY <1>1, <1>2, <1>5, <1>8, <1>9 DEF IInv, Awaited, Waiting
  <1>11. Passed'
    BY <1>2, <1>5, <1>8 DEF IInv, Passed, Waiting, Executed
  <1>12. WaitCoversOperations'
    BY <1>8 DEF IInv, WaitCoversOperations, Executed
  <1> QED
    BY <1>4, <1>6, <1>7, <1>10, <1>11, <1>12 DEF IInv

\* A wait() may return true only if it has seen what it has to.
LEMMA WaitReturnsKeepsIInv ==
  ASSUME IInv, NEW w \in Waiters, NEW value \in {"true", "false"}, WaitReturns(w, value),
         UNCHANGED <<chainVars, opVars, expected>>,
         value = "true" => expected[w] \ late \subseteq Executed
  PROVE  IInv'
  <1> USE DEF WaitReturns, WGoto
  <1>1. 0 \in Links
    BY MaxSwapsAssumption DEF Links
  <1>2. TypeOK'
    BY <1>1 DEF IInv, TypeOK
  <1>3. /\ \A v \in Waiters : v # w =>
             /\ pos'[v] = pos[v] /\ target'[v] = target[v]
             /\ outcome'[v] = outcome[v] /\ wpc'[v] = wpc[v]
        /\ pos'[w] = 0 /\ target'[w] = 0 /\ outcome'[w] = value
        /\ wpc'[w] \in {"notify", "idle"}
    BY DEF IInv, TypeOK
  <1>4. Awaited'
    BY <1>3 DEF IInv, Awaited, Waiting
  <1>5. Passed'
    BY <1>3 DEF IInv, Passed, Waiting, Executed
  <1>6. WaitCoversOperations'
    BY <1>3 DEF IInv, WaitCoversOperations, Executed
  <1> QED
    BY <1>2, <1>4, <1>5, <1>6, WaitersKeepChain DEF IInv

\* A waiter goes on to the next link when all operations of its link are executed.
LEMMA AdvanceKeepsIInv ==
  ASSUME IInv, NEW w \in Waiters, wpc[w] \in {"check", "block"}, Advance(w),
         UNCHANGED <<chainVars, opVars, expected>>,
         \A o \in expected[w] : link[o] = pos[w] => o \in Executed \cup late
  PROVE  IInv'
  <1>1. /\ pos[w] \in Int /\ target[w] \in Int /\ pos[w] <= target[w] /\ pos[w] \in Links
        /\ target[w] \in Links /\ expected[w] \subseteq Operations
    BY MaxSwapsAssumption DEF IInv, TypeOK, Awaited, Links
  <1>2. \A o \in expected[w] : link[o] \in Int /\ link[o] <= target[w]
    BY <1>1, MaxSwapsAssumption DEF IInv, TypeOK, Links, Awaited, Waiting
  <1>3. \A o \in expected[w] : link[o] < pos[w] => o \in Executed \cup late
    BY DEF IInv, Passed, Waiting
  <1>4. CASE pos[w] = target[w]
    <2>1. expected[w] \ late \subseteq Executed
      BY <1>1, <1>2, <1>3, <1>4
    <2> QED
      BY <1>4, <2>1, WaitReturnsKeepsIInv DEF Advance
  <1>5. CASE pos[w] # target[w]
    <2>1. /\ pos' = [pos EXCEPT ![w] = @ + 1] /\ wpc' = [wpc EXCEPT ![w] = "check"]
          /\ UNCHANGED <<timed, target, outcome>>
      BY <1>5 DEF Advance, WGoto
    <2>2. pos[w] + 1 \in Links /\ pos[w] + 1 <= target[w]
      BY <1>1, <1>5, MaxSwapsAssumption DEF Links
    <2>3. TypeOK'
      BY <2>1, <2>2 DEF IInv, TypeOK
    <2>4. /\ \A v \in Waiters : v # w => pos'[v] = pos[v] /\ wpc'[v] = wpc[v]
          /\ pos'[w] = pos[w] + 1 /\ Waiting(w)
      BY <2>1 DEF IInv, TypeOK, Waiting
    <2>5. Awaited'
      BY <2>1, <2>2, <2>4 DEF IInv, Awaited, Waiting
    <2>6. \A o \in expected[w] : link[o] < pos[w] + 1 => o \in Executed \cup late
      BY <1>1, <1>2, <1>3
    <2>7. Passed'
      BY <2>1, <2>4, <2>6 DEF IInv, Passed, Waiting, Executed
    <2>8. WaitCoversOperations'
      BY <2>1 DEF IInv, WaitCoversOperations, Executed
    <2> QED
      BY <2>3, <2>5, <2>7, <2>8, WaitersKeepChain DEF IInv
  <1> QED
    BY <1>4, <1>5

LEMMA WaitStepKeepsIInv ==
  ASSUME IInv, NEW w \in Waiters, WaitStep(w)
  PROVE  IInv'
  <1>1. pos[w] \in Links /\ \A o \in expected[w] : o \in Operations /\ pc[o] \notin Counting
    BY DEF IInv, TypeOK, Awaited
  <1>2. CASE CheckResources(w)
    <2>1. CASE resources[pos[w]] = 0
      <3>1. Holders(pos[w]) = {}
        BY <1>1, <2>1, Holding
      <3>2. \A o \in expected[w] : link[o] = pos[w] => o \in Executed
        BY <1>1, <3>1 DEF Holders, Counted, Counting, Executed, IInv, TypeOK, Pcs
      <3> QED
        BY <1>2, <2>1, <3>2, AdvanceKeepsIInv DEF CheckResources
    <2>2. CASE resources[pos[w]] # 0
      BY <1>2, <2>2, WGotoKeepsIInv DEF CheckResources, Waiting
    <2> QED
      BY <2>1, <2>2
  <1>3. CASE BarrierWait(w)
    <2>1. pos[w] \in dry
      BY <1>1, <1>3 DEF BarrierWait, IInv, Dried
    <2>2. \A o \in expected[w] : link[o] = pos[w] => o \in Executed \cup late
      BY <1>1, <2>1 DEF IInv, DryIsExecuted
    <2> QED
      BY <1>3, <2>2, AdvanceKeepsIInv DEF BarrierWait
  <1> QED
    BY <1>2, <1>3 DEF WaitStep

-----------------------------------------------------------------------------
(* apply() *)

LEMMA ApplyKeepsIInv ==
  ASSUME IInv, NEW w \in Threads, NEW is \in SUBSET Operations, Apply(w, is)
  PROVE  IInv'
  <1>1. ResourcesExact' /\ resources' \in [Links -> Nat]
    BY FreshHolders
  <1>2. w \in Waiters
    BY DEF Waiters
  <1> USE DEF Apply, WGoto
  <1>3. current \in Int /\ current \in Links /\ current + 1 \in Links /\ 0 \in Links
    BY MaxSwapsAssumption DEF IInv, TypeOK, Links
  <1>4. /\ \A o \in Operations : link[o] \in Int /\ link[o] >= 0 /\ link[o] <= current
        /\ \A k \in dry : k \in Int /\ k < current
    BY MaxSwapsAssumption DEF IInv, TypeOK, Links, Placed
  <1>5. pc' \in [Operations -> Pcs] /\ link' \in [Operations -> Links]
    BY <1>3 DEF IInv, TypeOK, Pcs
  <1>6. /\ pos' \in [Waiters -> Links] /\ target' \in [Waiters -> Links]
        /\ expected' \in [Waiters -> SUBSET Operations]
    BY <1>3 DEF IInv, TypeOK
  <1>7. TypeOK'
    BY <1>1, <1>3, <1>5, <1>6 DEF IInv, TypeOK
  <1>8. /\ \A o \in is : pc[o] = "new" /\ pc'[o] = "reserved" /\ link'[o] = current
        /\ \A o \in Operations \ is : pc'[o] = pc[o] /\ link'[o] = link[o]
    OBVIOUS
  <1>9. Executed' = Executed
    BY <1>8 DEF Executed
  <1>10. Placed'
    BY <1>3, <1>4, <1>8 DEF IInv, Placed
  <1>11. Dried'
    BY <1>8 DEF IInv, Dried
  <1>12. DryIsExecuted'
    BY <1>3, <1>4, <1>8, <1>9 DEF IInv, DryIsExecuted
  <1>13. /\ \A v \in Waiters : v # w =>
             /\ pos'[v] = pos[v] /\ target'[v] = target[v] /\ expected'[v] = expected[v]
             /\ outcome'[v] = outcome[v] /\ wpc'[v] = wpc[v]
        /\ pos'[w] = current /\ target'[w] = current /\ expected'[w] = is
        /\ outcome'[w] = "none"
    BY <1>2 DEF IInv, TypeOK
  <1>14. \A v \in Waiters : \A o \in expected[v] : o \in Operations \ is
    BY <1>8 DEF IInv, TypeOK, Awaited, Counting
  <1>15. Awaited'
    BY <1>3, <1>8, <1>13, <1>14 DEF IInv, Awaited, Waiting, Counting
  <1>16. Passed'
    <2>1. \A o \in is : ~(link'[o] < pos'[w])
      BY <1>3, <1>8, <1>13
    <2>2. \A o \in expected'[w] : ~(link'[o] < pos'[w])
      BY <1>13, <2>1
    <2>3. \A v \in Waiters : v # w =>
            /\ Waiting(v)' <=> Waiting(v)
            /\ expected'[v] = expected[v] /\ pos'[v] = pos[v]
            /\ \A o \in expected[v] : link'[o] = link[o]
      BY <1>8, <1>13, <1>14 DEF Waiting
    <2>4. late' = late
      OBVIOUS
    <2>5. Passed
      BY DEF IInv
    <2> QED
      BY <1>9, <2>2, <2>3, <2>4, <2>5 DEF Passed
  <1>17. WaitCoversOperations'
    BY <1>9, <1>13 DEF IInv, WaitCoversOperations
  <1> QED
    BY <1>1, <1>7, <1>10, <1>11, <1>12, <1>15, <1>16, <1>17 DEF IInv

LEMMA ApplyAsyncKeepsIInv ==
  ASSUME IInv, NEW w \in Threads, NEW o \in Operations, ApplyAsync(w, o)
  PROVE  IInv'
  <1> USE DEF ApplyAsync, Goto
  <1>1. pc \in [Operations -> Pcs]
    BY DEF IInv, TypeOK
  <1>2. TypeOK'
    BY <1>1 DEF IInv, TypeOK, Pcs
  <1>3. Counted' = Counted /\ Executed' = Executed
    BY <1>1 DEF Counted, Executed
  <1>4. ResourcesExact'
    BY <1>3, SameHolders
  <1>5. Placed'
    BY <1>1 DEF IInv, Placed
  <1>6. Dried'
    BY <1>1 DEF IInv, Dried
  <1>7. DryIsExecuted'
    BY <1>1, <1>3 DEF IInv, DryIsExecuted, Counting
  <1>8. Forward
    BY <1>1, <1>3 DEF Forward, Counting
  <1> QED
    BY <1>2, <1>4, <1>5, <1>6, <1>7, <1>8, ForwardKeepsWaiters DEF IInv

-----------------------------------------------------------------------------
(* The theorems *)

LEMMA Initially == Init => IInv
  <1> SUFFICES ASSUME Init PROVE IInv
    OBVIOUS
  <1> USE DEF Init, NewGroup, NewConsumables
  <1>1. 0 \in Links /\ 0 \in Nat
    BY MaxSwapsAssumption DEF Links
  <1>2. TypeOK
    BY <1>1 DEF TypeOK, Pcs
  <1>3. \A k \in Links : {o \in Counted : link[o] = k} = {}
    BY DEF Counted
  <1>4. ResourcesExact
    BY <1>3, FS_EmptySet DEF ResourcesExact
  <1> QED
    BY <1>2, <1>4 DEF IInv, Placed, Dried, DryIsExecuted, Awaited, Passed,
                      WaitCoversOperations, Waiting, Counting

LEMMA StepKeepsIInv ==
  ASSUME IInv, [Next]_vars
  PROVE  IInv'
  <1> USE DEF Waiters
  <1>1. ASSUME NEW o \in Operations, LoadConsumable(o) \/ AddResource(o) \/ ConsumeStep(o)
        PROVE  IInv'
    BY <1>1, LoadConsumableKeepsIInv, AddResourceKeepsIInv, ExecuteKeepsIInv,
       ConsumeKeepsIInv, CompleteBarrierKeepsIInv DEF ConsumeStep
  <1>2. ASSUME NEW t \in Threads, Swap(t, FALSE) \/ Swap(t, TRUE) \/ WaitStep(t)
        PROVE  IInv'
    BY <1>2, SwapKeepsIInv, WaitStepKeepsIInv
  <1>3. ASSUME NEW t \in Threads, ApplyStep(t)
        PROVE  IInv'
    <2>1. CASE ApplyWait(t)
      BY <2>1, WGotoKeepsIInv DEF ApplyWait, Waiting
    <2> QED
      BY <1>3, <2>1, ApplyAsyncKeepsIInv DEF ApplyStep
  <1>4. ASSUME NEW t \in Threads, NEW is \in SUBSET Operations, Apply(t, is)
        PROVE  IInv'
    BY <1>4, ApplyKeepsIInv
  <1>5. ASSUME NEW n \in Notifies, Notify(n) \/ NotifyStep(n)
        PROVE  IInv'
    <2>1. CASE Notify(n) \/ QueueNotification(n)
      BY <2>1, WGotoKeepsIInv DEF Notify, QueueNotification
    <2> QED
      BY <1>5, <2>1, SwapKeepsIInv, WaitStepKeepsIInv DEF NotifyStep
  <1>6. ASSUME NEW w \in Waiters, BarrierTimeout(w)
        PROVE  IInv'
    BY <1>6, WaitReturnsKeepsIInv DEF BarrierTimeout
  <1>7. CASE UNCHANGED vars
    <2>1. Forward
      BY <1>7 DEF vars, Forward, Executed
    <2>2. TypeOK'
      BY <1>7 DEF vars, IInv, TypeOK
    <2> QED
      BY <1>7, <2>1, <2>2, ForwardKeepsWaiters, WaitersKeepChain DEF vars, IInv
  <1> QED
    BY <1>1, <1>2, <1>3, <1>4, <1>5, <1>6, <1>7 DEF Next

\* The inductive invariant of the group and of apply() holds in every reachable
\* state.
THEOREM Invariance == Spec => []IInv
  BY Initially, StepKeepsIInv, PTL DEF Spec

\* The variables keep their types: no resource counter becomes negative, and no
\* waiter walks off the chain.
THEOREM TypeCorrectness == Spec => []TypeOK
  BY Invariance, PTL DEF IInv

\* The count of every consumable is the number of operations that still have to
\* consume from it, whichever threads add, consume and swap.
THEOREM CountsAreExact == Spec => []ResourcesExact
  BY Invariance, PTL DEF IInv

\* A wait() that returned true has seen what was in the group executed, except
\* for operations added to a link that had run empty.
THEOREM WaitIsComplete == Spec => []WaitCoversOperations
  BY Invariance, PTL DEF IInv

\* When apply() returns all its iterations are executed, without exception.
ApplyCoversIterations == program = "apply" => WaitCoversAllOperations

\* apply() makes its iterations known to the consumable before it queues the
\* first, so that none of them can be late.
THEOREM ApplyIsComplete == Spec => []ApplyCoversIterations
  <1>1. IInv => ApplyCoversIterations
    BY DEF IInv, Placed, WaitCoversOperations, ApplyCoversIterations, WaitCoversAllOperations
  <1> QED
    BY <1>1, Invariance, PTL

\* The operation that is about to pass, or has passed, the assertion of
\* consume_resource() finds a resource.
AssertionHolds ==
  \A o \in Operations : pc[o] \in {"executed", "asserted"} => resources[link[o]] > 0

\* consume_resource() never terminates the program: its assertion holds, also
\* between the assertion and the decrement behind it.
THEOREM NeverTerminates == Spec => []AssertionHolds
  <1>1. IInv => AssertionHolds
    BY Holding DEF AssertionHolds, Counted
  <1> QED
    BY <1>1, Invariance, PTL
=============================================================================
