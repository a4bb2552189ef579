------------------------- MODULE LightweightBarrier -------------------------
(***************************************************************************)
(* lightweight_barrier: an atomic pointer that is null, the address of the *)
(* one waiter object (mutex, condition variable, flag) which the first     *)
(* thread to wait has installed, or a marker for "completed".              *)
(*                                                                         *)
(* An action is one access to m_owner or one critical section of the       *)
(* waiter's mutex.  A barrier is either shared by reference counting, as   *)
(* in consumable and cancelable, or a local of a single waiting thread     *)
(* which frees it as soon as its wait() has returned, as in the timer and  *)
(* the socket_notifier.                                                    *)
(***************************************************************************)
CONSTANTS
  Threads,
  NoOwner,      \* kNoOwner
  Completed,    \* kCompleted
  SpuriousCas   \* can compare_exchange_weak fail on this processor for no reason

ASSUME OwnersAssumption ==
  /\ NoOwner \notin Threads
  /\ Completed \notin Threads
  /\ NoOwner # Completed

ASSUME SpuriousCasAssumption == SpuriousCas \in BOOLEAN

VARIABLES
  owner,        \* m_owner: the waiter object is named after its creator
  done,         \* m_done of the waiter object
  pc,           \* where each thread is
  call,         \* the call it is in
  previous,     \* the local of wait() and complete()
  signalled,    \* sleeping threads that were notified
  result,       \* what a thread's last wait() or was_completed() returned
  scope,        \* the only waiter of a local barrier, or NoOwner if shared
  completers,   \* history: the threads that called complete()
  freed         \* ~lightweight_barrier has run

waiterVars == <<done, signalled>>
objectVars == <<owner, waiterVars, freed>>
historyVars == <<scope, completers>>
vars == <<objectVars, historyVars, pc, call, previous, result>>

Calls == {"wait", "timedWait", "poll", "complete"}
Pcs == {"idle", "load", "install", "lock", "sleep", "poll", "test", "set", "notify"}

TypeOK ==
  /\ owner \in Threads \cup {NoOwner, Completed}
  /\ done \in BOOLEAN
  /\ pc \in [Threads -> Pcs]
  /\ call \in [Threads -> Calls \cup {"none"}]
  /\ previous \in [Threads -> Threads \cup {NoOwner, Completed}]
  /\ signalled \subseteq Threads
  /\ result \in [Threads -> BOOLEAN]
  /\ scope \in Threads \cup {NoOwner}
  /\ completers \subseteq Threads
  /\ freed \in BOOLEAN

Init ==
  /\ owner = NoOwner
  /\ done = FALSE
  /\ pc = [t \in Threads |-> "idle"]
  /\ call = [t \in Threads |-> "none"]
  /\ previous = [t \in Threads |-> NoOwner]
  /\ signalled = {}
  /\ result = [t \in Threads |-> FALSE]
  /\ scope \in Threads \cup {NoOwner}
  /\ completers = {}
  /\ freed = FALSE

Goto(t, l) == pc' = [pc EXCEPT ![t] = l]

\* The call of thread t returns, with or without a value.
End(t) == Goto(t, "idle") /\ call' = [call EXCEPT ![t] = "none"]

Return(t, value) == End(t) /\ result' = [result EXCEPT ![t] = value]

\* Thread t calls c.  A local barrier has one wait() and one complete().
Start(t, c, l) ==
  /\ call[t] = "none"
  /\ ~freed
  /\ scope = NoOwner \/ (IF t = scope THEN c = "wait" /\ ~result[t]
                                      ELSE c = "complete" /\ completers = {})
  /\ call' = [call EXCEPT ![t] = c]
  /\ Goto(t, l)
  /\ completers' = IF c = "complete" THEN completers \cup {t} ELSE completers
  /\ UNCHANGED <<objectVars, scope, previous, result>>

\* compare_exchange_weak(previous, value), with previous at kNoOwner before.
\* It fails if somebody was first, or on some processors for no reason.
CompareExchange(t, value) ==
  \E fails \in {owner # NoOwner, SpuriousCas \/ owner # NoOwner} :
    /\ owner' = IF fails THEN owner ELSE value
    /\ previous' = [previous EXCEPT ![t] = owner']

-----------------------------------------------------------------------------
(* wait() *)

\* The early exit of a completed barrier.
Load(t) ==
  /\ pc[t] = "load"
  /\ IF owner = Completed
       THEN Return(t, TRUE)
       ELSE Goto(t, "install") /\ UNCHANGED <<call, result>>
  /\ UNCHANGED <<objectVars, historyVars, previous>>

\* Mutant: a plain store instead of the compare-and-swap.
InstallOverwrites(t) ==
  /\ pc[t] = "install"
  /\ owner' = t
  /\ previous' = [previous EXCEPT ![t] = t]
  /\ Goto(t, "lock")
  /\ UNCHANGED <<done, signalled, freed, historyVars, call, result>>

\* Become the owner, or use the waiter object of the thread that was first.
Install(t) ==
  /\ pc[t] = "install"
  /\ CompareExchange(t, t)
  /\ IF previous'[t] = Completed
       THEN Return(t, TRUE)
       ELSE Goto(t, "lock") /\ UNCHANGED <<call, result>>
  /\ UNCHANGED <<done, signalled, freed, historyVars>>

\* waiter::wait() tests the flag and goes to sleep in one critical section.
Lock(t) ==
  /\ pc[t] = "lock"
  /\ previous[t] # NoOwner      \* else the process crashes here
  /\ IF done
       THEN Return(t, TRUE)
       ELSE Goto(t, "sleep") /\ UNCHANGED <<call, result>>
  /\ UNCHANGED <<objectVars, historyVars, previous>>

\* A notified thread wakes up and tests the flag again.
Wake(t) ==
  /\ pc[t] = "sleep"
  /\ t \in signalled
  /\ signalled' = signalled \ {t}
  /\ IF done THEN Return(t, TRUE) ELSE UNCHANGED <<pc, call, result>>
  /\ UNCHANGED <<owner, done, freed, historyVars, previous>>

\* wait_for() reaches its timeout; the flag decides.
Timeout(t) ==
  /\ pc[t] = "sleep"
  /\ call[t] = "timedWait"
  /\ signalled' = signalled \ {t}
  /\ Return(t, done)
  /\ UNCHANGED <<owner, done, freed, historyVars, previous>>

-----------------------------------------------------------------------------
(* complete() *)

\* Mark an unowned barrier as completed, or find its waiter object.
Complete(t) ==
  /\ pc[t] = "set"
  /\ CompareExchange(t, Completed)
  /\ IF previous'[t] \in {Completed, NoOwner}
       THEN End(t)
       ELSE Goto(t, "notify") /\ UNCHANGED call
  /\ UNCHANGED <<done, signalled, freed, historyVars, result>>

\* Mutants of waiter::complete(): the notification left for after the unlock;
\* only one of the sleeping threads is notified.
NotifyUnlocked(t) ==
  /\ pc[t] = "notify"
  /\ \/ ~done /\ done' = TRUE /\ UNCHANGED <<signalled, pc, call>>
     \/ /\ done
        /\ signalled' = {u \in Threads : pc[u] = "sleep"}
        /\ End(t)
        /\ UNCHANGED done
  /\ UNCHANGED <<owner, freed, historyVars, previous, result>>

NotifyOne(t) ==
  /\ pc[t] = "notify"
  /\ done' = TRUE
  /\ LET asleep == {u \in Threads : pc[u] = "sleep"} \ signalled
     IN  \/ asleep = {} /\ UNCHANGED signalled
         \/ \E u \in asleep : signalled' = signalled \cup {u}
  /\ End(t)
  /\ UNCHANGED <<owner, freed, historyVars, previous, result>>

\* waiter::complete() sets the flag and notifies everybody with the mutex held.
Notify(t) ==
  /\ pc[t] = "notify"
  /\ done' = TRUE
  /\ signalled' = {u \in Threads : pc[u] = "sleep"}
  /\ End(t)
  /\ UNCHANGED <<owner, freed, historyVars, previous, result>>

-----------------------------------------------------------------------------
(* was_completed() and the destructor *)

\* Mutant: the pointer itself taken for the answer.
PollReturnsPointer(t) ==
  /\ pc[t] = "poll"
  /\ Return(t, owner)
  /\ UNCHANGED <<objectVars, historyVars, previous>>

Poll(t) ==
  /\ pc[t] = "poll"
  /\ IF owner \in {Completed, NoOwner}
       THEN Return(t, owner = Completed)
       ELSE Goto(t, "test") /\ UNCHANGED <<call, result>>
  /\ UNCHANGED <<objectVars, historyVars, previous>>

TestFlag(t) ==
  /\ pc[t] = "test"
  /\ Return(t, done)
  /\ UNCHANGED <<objectVars, historyVars, previous>>

\* A local barrier goes out of scope behind the wait() of its thread; the last
\* reference to a shared one is dropped by a thread that is in no call.
Destroy(t) ==
  /\ ~freed
  /\ IF scope = NoOwner
       THEN \A u \in Threads : pc[u] = "idle"
       ELSE t = scope /\ pc[t] = "idle" /\ result[t]
  /\ freed' = TRUE
  /\ UNCHANGED <<owner, done, signalled, historyVars, pc, call, previous, result>>

-----------------------------------------------------------------------------
StartStep(t) ==
  \/ Start(t, "wait", "load")
  \/ Start(t, "timedWait", "load")
  \/ Start(t, "poll", "poll")
  \/ Start(t, "complete", "set")

CallStep(t) ==
  \/ Load(t) \/ Install(t) \/ Lock(t) \/ Wake(t) \/ Timeout(t)
  \/ Complete(t) \/ Notify(t)
  \/ Poll(t) \/ TestFlag(t)

Next == \E t \in Threads : StartStep(t) \/ CallStep(t) \/ Destroy(t)

Spec == Init /\ [][Next]_vars

\* A thread that can go on does; a finite timeout is reached.
Fairness == \A t \in Threads : WF_vars(CallStep(t))

FairSpec == Spec /\ Fairness

-----------------------------------------------------------------------------
(* Properties *)

\* The comment in wait(): after a failed exchange "previous holds the barrier
\* obtained from compare_exchange_weak above", or that of the thread itself, and
\* is the object that complete() finds: everybody meets at the same one.
PreviousIsOwner ==
  \A t \in Threads :
    pc[t] \in {"lock", "sleep", "notify"} => previous[t] \in Threads /\ previous[t] = owner

\* No thread is inside a call on a barrier that was freed: with a local barrier
\* complete() is done with it by the time wait() returns.
NoUseAfterFree == freed => \A t \in Threads : pc[t] = "idle"

\* The two places that record the completion.
WasCompleted == owner = Completed \/ done

Event == INSTANCE OneShotEvent WITH set <- WasCompleted

\* The barrier implements OneShotEvent: its calls take effect atomically, no
\* completion is lost and every thread that waits for one is woken by it.
ImplementsOneShotEvent == Event!FairSpec
=============================================================================
