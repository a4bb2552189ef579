---------------------- MODULE LightweightBarrierProofs ----------------------
(***************************************************************************)
(* Proofs about LightweightBarrier for any number of threads, on machines  *)
(* whose compare_exchange_weak fails for a reason only.                    *)
(***************************************************************************)
EXTENDS LightweightBarrier, TLAPS

-----------------------------------------------------------------------------
(* The inductive invariant *)

WaitPcs == {"load", "install", "lock", "sleep"}
CompletePcs == {"set", "notify"}

\* The steps of a call are steps of that call.
CallsMatch ==
  \A t \in Threads :
    /\ pc[t] = "idle" <=> call[t] = "none"
    /\ pc[t] \in WaitPcs <=> call[t] \in {"wait", "timedWait"}
    /\ pc[t] \in {"poll", "test"} <=> call[t] = "poll"
    /\ pc[t] \in CompletePcs <=> call[t] = "complete"

\* A waiter object, once installed, stays: it is what was_completed() tests.
OwnerStays ==
  /\ \A t \in Threads : pc[t] = "test" => owner \in Threads
  /\ done => owner \in Threads

\* A thread that waited with success did so behind a completion.
TrueMeansCompleted == \A t \in Threads : result[t] => WasCompleted

\* A local barrier: one thread waits on it, one other completes it, and it is
\* still in complete() until the barrier shows the completion.
LocalBarrier ==
  scope # NoOwner =>
    /\ pc[scope] \in WaitPcs \cup {"idle"}
    /\ \A t \in Threads : t # scope => pc[t] \in CompletePcs \cup {"idle"}
    /\ \A t \in Threads : pc[t] \in CompletePcs => completers = {t} /\ ~WasCompleted
    /\ completers = {} => ~WasCompleted
    /\ freed => pc[scope] = "idle" /\ result[scope]

IInv ==
  /\ TypeOK
  /\ PreviousIsOwner
  /\ CallsMatch
  /\ OwnerStays
  /\ TrueMeansCompleted
  /\ LocalBarrier
  /\ NoUseAfterFree

LEMMA Initially == Init => IInv
  BY OwnersAssumption
  DEF Init, IInv, TypeOK, PreviousIsOwner, CallsMatch, OwnerStays, TrueMeansCompleted,
      LocalBarrier, NoUseAfterFree, WasCompleted, Pcs, Calls, WaitPcs, CompletePcs

\* Without spurious failures the exchange succeeds exactly on an unowned barrier.
LEMMA StrongExchange ==
  ASSUME ~SpuriousCas, TypeOK, NEW t \in Threads, NEW value, CompareExchange(t, value)
  PROVE  /\ owner' = IF owner # NoOwner THEN owner ELSE value
         /\ previous' = [previous EXCEPT ![t] = owner']
  BY DEF CompareExchange

\* A call that returns a truth value keeps the results well typed.
LEMMA ResultType ==
  ASSUME TypeOK, NEW t \in Threads, NEW value \in BOOLEAN, Return(t, value)
  PROVE  result' \in [Threads -> BOOLEAN]
  BY DEF TypeOK, Return

-----------------------------------------------------------------------------
(* One lemma per step *)

LEMMA StartKeepsIInv ==
  ASSUME IInv, NEW t \in Threads, StartStep(t)
  PROVE  IInv'
  <1> USE DEF StartStep, Start, Goto, objectVars, waiterVars
  <1>1. TypeOK'
    BY DEF IInv, TypeOK, Pcs, Calls
  <1>2. PreviousIsOwner' /\ OwnerStays' /\ TrueMeansCompleted' /\ NoUseAfterFree'
    BY DEF IInv, TypeOK, PreviousIsOwner, OwnerStays, TrueMeansCompleted, WasCompleted,
           NoUseAfterFree
  <1>3. CallsMatch'
    BY DEF IInv, TypeOK, CallsMatch, WaitPcs, CompletePcs
  <1>4. LocalBarrier'
    BY OwnersAssumption
    DEF IInv, TypeOK, CallsMatch, LocalBarrier, WasCompleted, WaitPcs, CompletePcs
  <1> QED
    BY <1>1, <1>2, <1>3, <1>4 DEF IInv

LEMMA CallKeepsIInv ==
  ASSUME ~SpuriousCas, IInv, NEW t \in Threads, CallStep(t)
  PROVE  IInv'
  <1>r. \A value \in BOOLEAN : Return(t, value) => result' \in [Threads -> BOOLEAN]
    BY ResultType DEF IInv
  <1>s. (UNCHANGED result) => result' \in [Threads -> BOOLEAN]
    BY DEF IInv, TypeOK
  <1> USE DEF Goto, End, Return, objectVars, waiterVars, historyVars
  <1>a. ~freed /\ ~freed'
    BY DEF CallStep, Load, Install, Lock, Wake, Timeout, Complete, Notify, Poll, TestFlag,
           IInv, NoUseAfterFree
  <1>b. NoUseAfterFree'
    BY <1>a DEF NoUseAfterFree
  <1>1. CASE Load(t)
    <2>1. TypeOK'
      BY <1>1, OwnersAssumption DEF Load, IInv, TypeOK, Pcs, Calls
    <2>2. PreviousIsOwner'
      BY <1>1, OwnersAssumption DEF Load, IInv, TypeOK, PreviousIsOwner
    <2>3. CallsMatch'
      BY <1>1, OwnersAssumption
      DEF Load, IInv, TypeOK, CallsMatch, WaitPcs, CompletePcs
    <2>4. OwnerStays' /\ TrueMeansCompleted'
      BY <1>1, OwnersAssumption
      DEF Load, IInv, TypeOK, PreviousIsOwner, OwnerStays, TrueMeansCompleted, WasCompleted
    <2>5. LocalBarrier'
      BY <1>1, <1>a, OwnersAssumption
      DEF Load, IInv, TypeOK, PreviousIsOwner, OwnerStays, LocalBarrier, WasCompleted,
          WaitPcs, CompletePcs
    <2> QED
      BY <1>b, <2>1, <2>2, <2>3, <2>4, <2>5 DEF IInv
  <1>2. CASE Install(t)
    <2>1. /\ owner' = IF owner # NoOwner THEN owner ELSE t
          /\ previous' = [previous EXCEPT ![t] = owner']
      BY <1>2, StrongExchange DEF Install, IInv
    <2>2. TypeOK'
      BY <1>2, <2>1, OwnersAssumption DEF Install, IInv, TypeOK, Pcs, Calls
    <2>3. PreviousIsOwner'
      BY <1>2, <2>1, OwnersAssumption DEF Install, IInv, TypeOK, PreviousIsOwner
    <2>4. CallsMatch'
      BY <1>2, <2>1, OwnersAssumption
      DEF Install, IInv, TypeOK, CallsMatch, WaitPcs, CompletePcs
    <2>5. OwnerStays' /\ TrueMeansCompleted'
      BY <1>2, <2>1, OwnersAssumption
      DEF Install, IInv, TypeOK, PreviousIsOwner, OwnerStays, TrueMeansCompleted, WasCompleted
    <2>6. LocalBarrier'
      BY <1>2, <2>1, <1>a, OwnersAssumption
      DEF Install, IInv, TypeOK, PreviousIsOwner, OwnerStays, LocalBarrier, WasCompleted,
          WaitPcs, CompletePcs
    <2> QED
      BY <1>b, <2>2, <2>3, <2>4, <2>5, <2>6 DEF IInv
  <1>3. CASE Lock(t) \/ Wake(t) \/ Timeout(t)
    <2>1. TypeOK'
      <3>1. result' \in [Threads -> BOOLEAN]
        BY <1>3, <1>r, <1>s DEF Lock, Wake, Timeout, IInv, TypeOK
      <3> QED
        BY <1>3, <3>1, OwnersAssumption DEF Lock, Wake, Timeout, IInv, TypeOK, Pcs, Calls
    <2>2. PreviousIsOwner'
      BY <1>3, OwnersAssumption DEF Lock, Wake, Timeout, IInv, TypeOK, PreviousIsOwner
    <2>3. CallsMatch'
      BY <1>3, OwnersAssumption
      DEF Lock, Wake, Timeout, IInv, TypeOK, CallsMatch, WaitPcs, CompletePcs
    <2>4. OwnerStays' /\ TrueMeansCompleted'
      BY <1>3, OwnersAssumption
      DEF Lock, Wake, Timeout, IInv, TypeOK, PreviousIsOwner, OwnerStays, TrueMeansCompleted, WasCompleted
    <2>5. LocalBarrier'
      BY <1>3, <1>a, OwnersAssumption
      DEF Lock, Wake, Timeout, IInv, TypeOK, PreviousIsOwner, OwnerStays, LocalBarrier, WasCompleted,
          WaitPcs, CompletePcs
    <2> QED
      BY <1>b, <2>1, <2>2, <2>3, <2>4, <2>5 DEF IInv
  <1>4. CASE Complete(t)
    <2>1. /\ owner' = IF owner # NoOwner THEN owner ELSE Completed
          /\ previous' = [previous EXCEPT ![t] = owner']
      BY <1>4, StrongExchange DEF Complete, IInv
    <2>2. TypeOK'
      BY <1>4, <2>1, OwnersAssumption DEF Complete, IInv, TypeOK, Pcs, Calls
    <2>3. PreviousIsOwner'
      BY <1>4, <2>1, OwnersAssumption DEF Complete, IInv, TypeOK, PreviousIsOwner
    <2>4. CallsMatch'
      BY <1>4, <2>1, OwnersAssumption
      DEF Complete, IInv, TypeOK, CallsMatch, WaitPcs, CompletePcs
    <2>5. OwnerStays' /\ TrueMeansCompleted'
      BY <1>4, <2>1, OwnersAssumption
      DEF Complete, IInv, TypeOK, PreviousIsOwner, OwnerStays, TrueMeansCompleted, WasCompleted
    <2>6. LocalBarrier'
      BY <1>4, <2>1, <1>a, OwnersAssumption
      DEF Complete, IInv, TypeOK, PreviousIsOwner, OwnerStays, LocalBarrier, WasCompleted,
          WaitPcs, CompletePcs
    <2> QED
      BY <1>b, <2>2, <2>3, <2>4, <2>5, <2>6 DEF IInv
  <1>5. CASE Notify(t)
    <2>1. TypeOK'
      BY <1>5, OwnersAssumption DEF Notify, IInv, TypeOK, Pcs, Calls
    <2>2. PreviousIsOwner'
      BY <1>5, OwnersAssumption DEF Notify, IInv, TypeOK, PreviousIsOwner
    <2>3. CallsMatch'
      BY <1>5, OwnersAssumption
      DEF Notify, IInv, TypeOK, CallsMatch, WaitPcs, CompletePcs
    <2>4. OwnerStays' /\ TrueMeansCompleted'
      BY <1>5, OwnersAssumption
      DEF Notify, IInv, TypeOK, PreviousIsOwner, OwnerStays, TrueMeansCompleted, WasCompleted
    <2>5. LocalBarrier'
      BY <1>5, <1>a, OwnersAssumption
      DEF Notify, IInv, TypeOK, PreviousIsOwner, OwnerStays, LocalBarrier, WasCompleted,
          WaitPcs, CompletePcs
    <2> QED
      BY <1>b, <2>1, <2>2, <2>3, <2>4, <2>5 DEF IInv
  <1>6. CASE Poll(t) \/ TestFlag(t)
    <2>1. TypeOK'
      <3>1. result' \in [Threads -> BOOLEAN]
        BY <1>6, <1>r, <1>s DEF Poll, TestFlag, IInv, TypeOK
      <3> QED
        BY <1>6, <3>1, OwnersAssumption DEF Poll, TestFlag, IInv, TypeOK, Pcs, Calls
    <2>2. PreviousIsOwner'
      BY <1>6, OwnersAssumption DEF Poll, TestFlag, IInv, TypeOK, PreviousIsOwner
    <2>3. CallsMatch'
      BY <1>6, OwnersAssumption
      DEF Poll, TestFlag, IInv, TypeOK, CallsMatch, WaitPcs, CompletePcs
    <2>4. OwnerStays' /\ TrueMeansCompleted'
      BY <1>6, OwnersAssumption
      DEF Poll, TestFlag, IInv, TypeOK, PreviousIsOwner, OwnerStays, TrueMeansCompleted, WasCompleted
    <2>5. LocalBarrier'
      BY <1>6, <1>a, OwnersAssumption
      DEF Poll, TestFlag, IInv, TypeOK, PreviousIsOwner, OwnerStays, LocalBarrier, WasCompleted,
          WaitPcs, CompletePcs
    <2> QED
      BY <1>b, <2>1, <2>2, <2>3, <2>4, <2>5 DEF IInv
  <1> QED
    BY <1>1, <1>2, <1>3, <1>4, <1>5, <1>6 DEF CallStep

LEMMA DestroyKeepsIInv ==
  ASSUME IInv, NEW t \in Threads, Destroy(t)
  PROVE  IInv'
  <1> USE DEF Destroy, historyVars
  <1>1. NoUseAfterFree'
    <2>1. CASE scope = NoOwner
      BY <2>1 DEF NoUseAfterFree
    <2>2. CASE scope # NoOwner
      BY <2>2 DEF IInv, TypeOK, NoUseAfterFree, TrueMeansCompleted, LocalBarrier, WasCompleted
    <2> QED
      BY <2>1, <2>2
  <1> QED
    BY <1>1 DEF IInv, TypeOK, PreviousIsOwner, CallsMatch, OwnerStays, TrueMeansCompleted,
                LocalBarrier, WasCompleted

\* The inductive invariant holds in every reachable state.
THEOREM Invariance == ~SpuriousCas /\ Spec => []IInv
  <1>1. ASSUME ~SpuriousCas, IInv, [Next]_vars PROVE IInv'
    <2>1. CASE UNCHANGED vars
      BY <1>1, <2>1
      DEF IInv, TypeOK, PreviousIsOwner, CallsMatch, OwnerStays, TrueMeansCompleted,
          LocalBarrier, NoUseAfterFree, WasCompleted, vars, objectVars, waiterVars, historyVars
    <2> QED
      BY <1>1, <2>1, StartKeepsIInv, CallKeepsIInv, DestroyKeepsIInv DEF Next
  <1>2. CASE SpuriousCas
    BY <1>2
  <1>3. CASE ~SpuriousCas
    <2>1. IInv /\ [Next]_vars => IInv'
      BY <1>1, <1>3
    <2> QED
      BY <2>1, Initially, PTL DEF Spec
  <1> QED
    BY <1>2, <1>3

\* The variables of the barrier keep their types.
THEOREM TypeCorrectness == ~SpuriousCas /\ Spec => []TypeOK
  BY Invariance, PTL DEF IInv

\* Every thread that waits on, or completes, an owned barrier meets the others
\* at the same waiter object.
THEOREM MeetingPoint == ~SpuriousCas /\ Spec => []PreviousIsOwner
  BY Invariance, PTL DEF IInv

\* A local barrier can be freed as soon as wait() has returned.
THEOREM LocalLifetime == ~SpuriousCas /\ Spec => []NoUseAfterFree
  BY Invariance, PTL DEF IInv

-----------------------------------------------------------------------------
(* Refinement *)

LEMMA StepSimulation ==
  ASSUME ~SpuriousCas, IInv, [Next]_vars
  PROVE  [Event!Next]_Event!vars
  <1> USE DEF Event!Next, Event!vars
  <1>1. CASE UNCHANGED vars
    BY <1>1 DEF vars, objectVars, waiterVars, WasCompleted
  <1>2. ASSUME NEW t \in Threads, StartStep(t) PROVE \E c \in Event!Calls : Event!Start(t, c)
    BY <1>2 DEF StartStep, Start, Event!Start, Event!Calls, WasCompleted, objectVars, waiterVars
  <1>3. ASSUME NEW t \in Threads, Load(t) \/ Lock(t) \/ Wake(t) \/ Timeout(t)
        PROVE  Event!Return(t) \/ UNCHANGED Event!vars
    <2>a. UNCHANGED <<owner, done>> /\ pc[t] \in WaitPcs
      BY <1>3 DEF Load, Lock, Wake, Timeout, objectVars, waiterVars, WaitPcs
    <2>b. UNCHANGED WasCompleted
      BY <2>a DEF WasCompleted
    <2>c. call[t] \in {"wait", "timedWait"}
      BY <2>a DEF IInv, CallsMatch
    <2>2. CASE UNCHANGED <<call, result>>
      BY <2>b, <2>c, <2>2
    <2>3. CASE WasCompleted /\ Return(t, TRUE)
      <3>1. WasCompleted = TRUE
        BY <2>3 DEF WasCompleted
      <3> QED
        BY <2>b, <2>c, <2>3, <3>1 DEF Return, End, Event!Return
    <2>4. CASE Timeout(t)
      <3>1. WasCompleted = done
        BY <2>4, OwnersAssumption DEF Timeout, WasCompleted, IInv, TypeOK, PreviousIsOwner
      <3> QED
        BY <2>b, <2>c, <2>4, <3>1 DEF Timeout, Return, End, Event!Return
    <2> QED
      BY <1>3, <2>2, <2>3, <2>4 DEF Load, Lock, Wake, WasCompleted
  <1>4. ASSUME NEW t \in Threads, Install(t)
        PROVE  Event!Return(t) \/ UNCHANGED Event!vars
    <2>1. /\ owner' = IF owner # NoOwner THEN owner ELSE t
          /\ previous' = [previous EXCEPT ![t] = owner']
      BY <1>4, StrongExchange DEF Install, IInv
    <2> QED
      BY <1>4, <2>1, OwnersAssumption
      DEF Install, Return, End, Event!Return, WasCompleted, IInv, TypeOK, CallsMatch, WaitPcs
  <1>5. ASSUME NEW t \in Threads, Complete(t)
        PROVE  Event!Complete(t) \/ UNCHANGED Event!vars
    <2>1. /\ owner' = IF owner # NoOwner THEN owner ELSE Completed
          /\ previous' = [previous EXCEPT ![t] = owner']
      BY <1>5, StrongExchange DEF Complete, IInv
    <2> QED
      BY <1>5, <2>1, OwnersAssumption
      DEF Complete, End, Event!Complete, WasCompleted, IInv, TypeOK, CallsMatch, CompletePcs
  <1>6. ASSUME NEW t \in Threads, Notify(t) PROVE Event!Complete(t)
    BY <1>6
    DEF Notify, End, Event!Complete, WasCompleted, IInv, TypeOK, CallsMatch, CompletePcs
  <1>7. ASSUME NEW t \in Threads, Poll(t) \/ TestFlag(t)
        PROVE  Event!Return(t) \/ UNCHANGED Event!vars
    BY <1>7, OwnersAssumption
    DEF Poll, TestFlag, Return, End, Event!Return, WasCompleted, objectVars, waiterVars,
        IInv, TypeOK, CallsMatch, OwnerStays
  <1>8. ASSUME NEW t \in Threads, Destroy(t) PROVE UNCHANGED Event!vars
    BY <1>8 DEF Destroy, WasCompleted
  <1> QED
    BY <1>1, <1>2, <1>3, <1>4, <1>5, <1>6, <1>7, <1>8 DEF Next, CallStep

\* The safety half of ImplementsOneShotEvent: every call takes effect at one
\* instant, and a completion is never lost or taken back.
THEOREM Refinement == ~SpuriousCas /\ Spec => Event!Spec
  <1>1. Init => Event!Init
    BY OwnersAssumption DEF Init, Event!Init, WasCompleted
  <1>2. CASE SpuriousCas
    BY <1>2
  <1>3. CASE ~SpuriousCas
    <2>1. IInv /\ [Next]_vars => [Event!Next]_Event!vars
      BY <1>3, StepSimulation
    <2>2. Spec => []IInv
      BY <1>3, Invariance
    <2> QED
      BY <1>1, <2>1, <2>2, PTL DEF Spec, Event!Spec
  <1> QED
    BY <1>2, <1>3
=============================================================================
