-------------------------------- MODULE Group -------------------------------
(***************************************************************************)
(* The naive backend's group, the apply() of its queues and the            *)
(* consumables both count with.  wait() swaps a fresh consumable in, so    *)
(* that the consumables of a group form a chain in the order of their      *)
(* creation; they are numbered along it here.  apply() makes a consumable  *)
(* of its own, without a chain.  The lightweight_barrier of a consumable   *)
(* is the event it implements (see OneShotEvent): one bit.                 *)
(*                                                                         *)
(* An action is one access to m_consumable, to a resource counter or to a  *)
(* barrier.  The queues execute what is queued on them in some order.      *)
(***************************************************************************)
EXTENDS Integers, FiniteSets

CONSTANTS
  Programs,     \* what is used: subset of {"group", "apply"}
  Operations,   \* operations submitted through group::async(), each one once,
                \* or iterations of an apply()
  Threads,      \* threads that call wait() or apply()
  Notifies,     \* calls of notify(): each posts an operation that calls wait()
  MaxSwaps      \* bound: how often wait() or apply() is called

ASSUME GroupProgramsAssumption == Programs \subseteq {"group", "apply"}
ASSUME MaxSwapsAssumption == MaxSwaps \in Nat \ {0}
ASSUME WaitersAssumption == Threads \cap Notifies = {}
ASSUME OperationsAssumption == IsFiniteSet(Operations)

Waiters == Threads \cup Notifies
Links == 0..MaxSwaps

VARIABLES
  program,      \* is a group used, or are queues
  current,      \* m_consumable: the last link of the chain, or the next of apply()
  resources,    \* m_resources of each link
  completed,    \* m_barrier of each link
  pc,           \* where the submission or the execution of an operation is
  link,         \* the consumable an operation consumes
  wpc,          \* where a waiter is
  timed,        \* does it wait with a timeout
  pos, target,  \* the link it is waiting for, and the last it has to wait for
  outcome,      \* what its last wait() returned: "none", "true" or "false"
  expected,     \* history: the operations in the group when it called wait()
  dry,          \* history: the links whose last resource was consumed once
  late          \* history: the operations added to such a link

opVars == <<pc, link, dry, late>>
waiterVars == <<wpc, timed, pos, target, outcome, expected>>
chainVars == <<program, current, resources, completed>>
vars == <<chainVars, opVars, waiterVars>>

Pcs == {"new", "loaded", "reserved", "queued", "executed", "asserted", "last", "done"}
Executed == {o \in Operations : pc[o] \in {"executed", "asserted", "last", "done"}}
\* Operations that are counted by the consumable they were given.
Counted == {o \in Operations : pc[o] \in {"reserved", "queued", "executed", "asserted"}}
\* Operations whose async() has returned.
InGroup == {o \in Operations : pc[o] = "queued"} \cup Executed

TypeOK ==
  /\ program \in Programs
  /\ current \in Links
  /\ resources \in [Links -> Nat]
  /\ completed \in [Links -> BOOLEAN]
  /\ pc \in [Operations -> Pcs]
  /\ link \in [Operations -> Links]
  /\ wpc \in [Waiters -> {"idle", "posted", "apply", "check", "block", "notify", "notified"}]
  /\ timed \in [Waiters -> BOOLEAN]
  /\ pos \in [Waiters -> Links] /\ target \in [Waiters -> Links]
  /\ outcome \in [Waiters -> {"none", "true", "false"}]
  /\ expected \in [Waiters -> SUBSET Operations]
  /\ dry \subseteq Links /\ late \subseteq Operations

\* Every consumable is made without resources, whether or not it is used yet.
NewConsumables ==
  /\ resources = [k \in Links |-> 0]
  /\ completed = [k \in Links |-> FALSE]

\* A group starts with a consumable that has no preceeding one.
NewGroup ==
  /\ current = 0
  /\ NewConsumables

Init ==
  /\ program \in Programs
  /\ NewGroup
  /\ pc = [o \in Operations |-> "new"]
  /\ link = [o \in Operations |-> 0]
  /\ wpc = [w \in Waiters |-> "idle"]
  /\ timed = [w \in Waiters |-> FALSE]
  /\ pos = [w \in Waiters |-> 0]
  /\ target = [w \in Waiters |-> 0]
  /\ outcome = [w \in Waiters |-> "none"]
  /\ expected = [w \in Waiters |-> {}]
  /\ dry = {}
  /\ late = {}

Goto(o, l) == pc' = [pc EXCEPT ![o] = l]

-----------------------------------------------------------------------------
(* async() and the consuming_operation it queues *)

\* async() loads the current consumable ...
LoadConsumable(o) ==
  /\ program = "group"
  /\ pc[o] = "new"
  /\ link' = [link EXCEPT ![o] = current]
  /\ Goto(o, "loaded")
  /\ UNCHANGED <<chainVars, dry, late, waiterVars>>

\* Mutant: an operation that is not counted.
AddResourceForgotten(o) ==
  /\ pc[o] = "loaded"
  /\ Goto(o, "queued")
  /\ UNCHANGED <<chainVars, link, dry, late, waiterVars>>

\* ... counts the operation in, even if a wait() has swapped it meanwhile, and
\* then puts it on its queue, which nobody can tell from one step.
AddResource(o) ==
  /\ pc[o] = "loaded"
  /\ resources' = [resources EXCEPT ![link[o]] = @ + 1]
  /\ late' = IF link[o] \in dry THEN late \cup {o} ELSE late
  /\ Goto(o, "queued")
  /\ UNCHANGED <<program, current, completed, link, dry, waiterVars>>

\* A queue executes the operation ...
Execute(o) ==
  /\ pc[o] = "queued"
  /\ Goto(o, "executed")
  /\ UNCHANGED <<chainVars, link, dry, late, waiterVars>>

\* ... consume_resource() asserts that there is a resource ...
AssertResource(o) ==
  /\ pc[o] = "executed"
  /\ resources[link[o]] > 0     \* else std::terminate()
  /\ Goto(o, "asserted")
  /\ UNCHANGED <<chainVars, link, dry, late, waiterVars>>

\* Mutants: two resources are taken for one; the barrier is completed only
\* behind the last resource.
ConsumeTwice(o) ==
  /\ pc[o] = "asserted"
  /\ resources' = [resources EXCEPT ![link[o]] = @ - 2]
  /\ Goto(o, IF resources[link[o]] = 1 THEN "last" ELSE "done")
  /\ dry' = IF resources[link[o]] = 1 THEN dry \cup {link[o]} ELSE dry
  /\ UNCHANGED <<program, current, completed, link, late, waiterVars>>

ConsumeBehindLast(o) ==
  /\ pc[o] = "asserted"
  /\ resources' = [resources EXCEPT ![link[o]] = @ - 1]
  /\ Goto(o, IF resources[link[o]] = 0 THEN "last" ELSE "done")
  /\ dry' = IF resources[link[o]] = 1 THEN dry \cup {link[o]} ELSE dry
  /\ UNCHANGED <<program, current, completed, link, late, waiterVars>>

\* ... takes it ...
Consume(o) ==
  /\ pc[o] = "asserted"
  /\ resources' = [resources EXCEPT ![link[o]] = @ - 1]
  /\ Goto(o, IF resources[link[o]] = 1 THEN "last" ELSE "done")
  /\ dry' = IF resources[link[o]] = 1 THEN dry \cup {link[o]} ELSE dry
  /\ UNCHANGED <<program, current, completed, link, late, waiterVars>>

\* ... and completes the barrier if it was the last one.
CompleteBarrier(o) ==
  /\ pc[o] = "last"
  /\ completed' = [completed EXCEPT ![link[o]] = TRUE]
  /\ Goto(o, "done")
  /\ UNCHANGED <<program, current, resources, link, dry, late, waiterVars>>

-----------------------------------------------------------------------------
(* wait() and notify() *)

WGoto(w, l) == wpc' = [wpc EXCEPT ![w] = l]

\* notify() posts an operation that waits to the threadpool.
Notify(n) ==
  /\ program = "group"
  /\ wpc[n] = "idle"
  /\ WGoto(n, "posted")
  /\ UNCHANGED <<chainVars, opVars, timed, pos, target, outcome, expected>>

\* Mutant: the fresh consumable does not wait for its predecessors.
SwapWithoutChain(w, t) ==
  /\ program = "group"
  /\ wpc[w] = IF w \in Notifies THEN "posted" ELSE "idle"
  /\ current < MaxSwaps
  /\ current' = current + 1
  /\ timed' = [timed EXCEPT ![w] = t]
  /\ pos' = [pos EXCEPT ![w] = current]
  /\ target' = [target EXCEPT ![w] = current]
  /\ expected' = [expected EXCEPT ![w] = InGroup]
  /\ outcome' = [outcome EXCEPT ![w] = "none"]
  /\ WGoto(w, "check")
  /\ UNCHANGED <<program, resources, completed, opVars>>

\* wait() swaps a fresh consumable in, chained to the old one, and starts to
\* wait for the old one: wait_for_consumed() descends to the first link.
Swap(w, t) ==
  /\ program = "group"
  /\ wpc[w] = IF w \in Notifies THEN "posted" ELSE "idle"
  /\ current < MaxSwaps
  /\ current' = current + 1
  /\ timed' = [timed EXCEPT ![w] = t]
  /\ pos' = [pos EXCEPT ![w] = 0]
  /\ target' = [target EXCEPT ![w] = current]
  /\ expected' = [expected EXCEPT ![w] = InGroup]
  /\ outcome' = [outcome EXCEPT ![w] = "none"]
  /\ WGoto(w, "check")
  /\ UNCHANGED <<program, resources, completed, opVars>>

\* wait() returns; the operation of notify() goes on whatever it returned.
WaitReturns(w, value) ==
  /\ outcome' = [outcome EXCEPT ![w] = value]
  /\ WGoto(w, IF w \in Notifies THEN "notify" ELSE "idle")
  /\ timed' = [timed EXCEPT ![w] = FALSE]
  /\ pos' = [pos EXCEPT ![w] = 0]
  /\ target' = [target EXCEPT ![w] = 0]

\* The link at pos is consumed: go on with the one behind it, or be done.
Advance(w) ==
  IF pos[w] = target[w]
  THEN WaitReturns(w, "true")
  ELSE /\ pos' = [pos EXCEPT ![w] = @ + 1]
       /\ WGoto(w, "check")
       /\ UNCHANGED <<timed, target, outcome>>

\* A link without resources is consumed, completed or not.
CheckResources(w) ==
  /\ wpc[w] = "check"
  /\ IF resources[pos[w]] = 0
       THEN Advance(w)
       ELSE WGoto(w, "block") /\ UNCHANGED <<timed, pos, target, outcome>>
  /\ UNCHANGED <<chainVars, opVars, expected>>

\* m_barrier.wait() of the link.
BarrierWait(w) ==
  /\ wpc[w] = "block"
  /\ completed[pos[w]]
  /\ Advance(w)
  /\ UNCHANGED <<chainVars, opVars, expected>>

\* The timeout of a timed wait.  notify() waits for milliseconds::max(), which
\* overflows when a deadline is computed from it and may time out as well.
BarrierTimeout(w) ==
  /\ wpc[w] = "block"
  /\ timed[w]
  /\ ~completed[pos[w]]
  /\ WaitReturns(w, "false")
  /\ UNCHANGED <<chainVars, opVars, expected>>

\* The operation posted by notify() queues the notification.
QueueNotification(n) ==
  /\ wpc[n] = "notify"
  /\ WGoto(n, "notified")
  /\ UNCHANGED <<chainVars, opVars, timed, pos, target, outcome, expected>>

-----------------------------------------------------------------------------
(* apply() of a serial or a parallel queue *)

\* apply() makes a consumable that counts its iterations is from the start ...
Apply(w, is) ==
  /\ program = "apply"
  /\ wpc[w] = "idle"
  /\ current < MaxSwaps
  /\ \A o \in is : pc[o] = "new"
  /\ current' = current + 1
  /\ resources' = [resources EXCEPT ![current] = Cardinality(is)]
  /\ pc' = [o \in Operations |-> IF o \in is THEN "reserved" ELSE pc[o]]
  /\ link' = [o \in Operations |-> IF o \in is THEN current ELSE link[o]]
  /\ pos' = [pos EXCEPT ![w] = current]
  /\ target' = [target EXCEPT ![w] = current]
  /\ expected' = [expected EXCEPT ![w] = is]
  /\ outcome' = [outcome EXCEPT ![w] = "none"]
  /\ WGoto(w, "apply")
  /\ UNCHANGED <<program, completed, dry, late, timed>>

\* ... queues them one by one; the first are executed meanwhile ...
ApplyAsync(w, o) ==
  /\ wpc[w] = "apply"
  /\ o \in expected[w] /\ pc[o] = "reserved"
  /\ Goto(o, "queued")
  /\ UNCHANGED <<chainVars, link, dry, late, waiterVars>>

\* ... and waits for them with wait_for_consumed(), without a timeout.
ApplyWait(w) ==
  /\ wpc[w] = "apply"
  /\ \A o \in expected[w] : pc[o] # "reserved"
  /\ WGoto(w, "check")
  /\ UNCHANGED <<chainVars, opVars, timed, pos, target, outcome, expected>>

-----------------------------------------------------------------------------
ConsumeStep(o) == Execute(o) \/ AssertResource(o) \/ Consume(o) \/ CompleteBarrier(o)
WaitStep(w) == CheckResources(w) \/ BarrierWait(w)
ApplyStep(w) == ApplyWait(w) \/ \E o \in Operations : ApplyAsync(w, o)
NotifyStep(n) == Swap(n, TRUE) \/ WaitStep(n) \/ QueueNotification(n)

Next ==
  \/ \E o \in Operations : LoadConsumable(o) \/ AddResource(o) \/ ConsumeStep(o)
  \/ \E t \in Threads : Swap(t, FALSE) \/ Swap(t, TRUE) \/ WaitStep(t) \/ ApplyStep(t)
  \/ \E t \in Threads : \E is \in SUBSET Operations : Apply(t, is)
  \/ \E n \in Notifies : Notify(n) \/ NotifyStep(n)
  \/ \E w \in Waiters : BarrierTimeout(w)

Spec == Init /\ [][Next]_vars

\* The queues execute what is queued on them and threads that can run do.
\* Nobody has to use the group, and no timeout has to be reached.
Fairness ==
  /\ \A o \in Operations : WF_vars(AddResource(o) \/ ConsumeStep(o))
  /\ \A t \in Threads : WF_vars(WaitStep(t) \/ ApplyStep(t))
  /\ \A n \in Notifies : WF_vars(NotifyStep(n))

FairSpec == Spec /\ Fairness

-----------------------------------------------------------------------------
(* Properties *)

\* The count of a link is the number of operations that still have to consume
\* from it, so that the assertion of consume_resource() holds although the
\* count is added to, taken from and swapped out by different threads.
ResourcesExact ==
  \A k \in Links :
    resources[k] = Cardinality({o \in Counted : link[o] = k})

\* A wait() that returned true has seen every operation that was in the group
\* when it was called executed, also those that an earlier wait() timed out on,
\* provided the operation was not added to a link that had already run empty.
\* When apply() returns all its iterations are executed, although the first ones
\* are executed while others are yet to be queued.
WaitCoversOperations ==
  \A w \in Waiters : outcome[w] = "true" => expected[w] \ late \subseteq Executed

\* "true if all operations were executed": the promise of group::wait().
WaitCoversAllOperations ==
  \A w \in Waiters : outcome[w] = "true" => expected[w] \subseteq Executed

\* Every wait() and every apply() returns once the operations it waits for are
\* executed, and every notification is queued: no completion of a barrier is lost
\* to a waiter that has read a stale count, and no link of the chain holds it up
\* forever.
EveryWaitReturns ==
  \A w \in Waiters : wpc[w] \in {"apply", "check", "block"} ~> wpc[w] \in {"idle", "notified"}
=============================================================================
