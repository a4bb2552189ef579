---------------------------- MODULE ManualThread ----------------------------
(***************************************************************************)
(* manual_thread, the pool of one thread behind the main queue and the     *)
(* queue manager, and naive::thread, which runs it on a thread of its own  *)
(* and ends it in its destructor.  OperationQueue uses its batches; here   *)
(* it is about cancel(), which races run().                                *)
(*                                                                         *)
(* A critical section of m_CS is one action.  run() tests m_cancelled      *)
(* without the mutex and sleeps on m_cond without a predicate.             *)
(***************************************************************************)
EXTENDS Naturals, Sequences

CONSTANTS
  Operations,   \* operations given to execute(), each one once
  MaxRuns       \* bound: how often run() is called

VARIABLES
  queued,       \* m_queued_ops
  submitted,    \* the operations that were given to execute()
  cancelled,    \* m_cancelled
  pc,           \* where the thread is in run()
  active,       \* active_ops: what is left of its batch
  runs,         \* how often run() was called
  owner         \* where the owner is: "using" it, "joining" it in ~thread or "gone"

threadVars == <<queued, submitted, cancelled>>
runVars == <<pc, active, runs>>
vars == <<threadVars, runVars, owner>>

Init ==
  /\ queued = <<>>
  /\ submitted = {}
  /\ cancelled = FALSE
  /\ pc = "ended"
  /\ active = <<>>
  /\ runs = 0
  /\ owner = "using"

\* m_cond.notify_all(): who sleeps has to take the mutex next.
NotifyAll == pc' = IF pc = "asleep" THEN "woken" ELSE pc

Execute(o) ==
  /\ owner = "using"
  /\ o \notin submitted
  /\ submitted' = submitted \cup {o}
  /\ queued' = Append(queued, o)
  /\ NotifyAll
  /\ UNCHANGED <<cancelled, active, runs, owner>>

\* cancel(), by the owner or by an operation.
Cancel ==
  /\ owner = "using"
  /\ pc # "ended"
  /\ cancelled' = TRUE
  /\ NotifyAll
  /\ UNCHANGED <<queued, submitted, active, runs, owner>>

\* ~thread: cancel(), then join().
Destroy ==
  /\ owner = "using"
  /\ runs > 0
  /\ cancelled' = TRUE
  /\ NotifyAll
  /\ owner' = "joining"
  /\ UNCHANGED <<queued, submitted, active, runs>>

Join ==
  /\ owner = "joining"
  /\ pc = "ended"
  /\ owner' = "gone"
  /\ UNCHANGED <<threadVars, runVars>>

-----------------------------------------------------------------------------
(* run() *)

\* run() is called ...
Run ==
  /\ owner = "using"
  /\ pc = "ended"
  /\ runs < MaxRuns
  /\ runs' = runs + 1
  /\ pc' = "test"
  /\ UNCHANGED <<threadVars, active, owner>>

\* ... by a new naive::thread, first of all ...
StartThread == runs = 0 /\ Run

\* ... or, for the main queue, by exec(), as often as the application likes.
Exec == Run

\* while (!m_cancelled), without the mutex.
Test ==
  /\ pc = "test"
  /\ pc' = IF cancelled THEN "reset" ELSE "lock"
  /\ UNCHANGED <<threadVars, active, runs, owner>>

\* The batch is swapped out.
Swap ==
  /\ active' = queued
  /\ queued' = <<>>
  /\ pc' = "execute"

\* Under the mutex: sleep if there is nothing to do, whatever m_cancelled is.
Lock ==
  /\ pc = "lock"
  /\ IF queued = <<>> THEN pc' = "asleep" /\ UNCHANGED <<queued, active>> ELSE Swap
  /\ UNCHANGED <<submitted, cancelled, runs, owner>>

Wake ==
  /\ pc = "woken"
  /\ Swap
  /\ UNCHANGED <<submitted, cancelled, runs, owner>>

\* m_cond.wait() may return without a reason.
WakeSpuriously ==
  /\ pc = "asleep"
  /\ Swap
  /\ UNCHANGED <<submitted, cancelled, runs, owner>>

\* The next operation of the batch, or the end of it.
ExecuteNext ==
  /\ pc = "execute"
  /\ IF active = <<>>
       THEN pc' = "test" /\ UNCHANGED active
       ELSE active' = Tail(active) /\ UNCHANGED pc
  /\ UNCHANGED <<threadVars, runs, owner>>

\* m_cancelled = false, for the next run().
Reset ==
  /\ pc = "reset"
  /\ cancelled' = FALSE
  /\ pc' = "ended"
  /\ UNCHANGED <<queued, submitted, active, runs, owner>>

-----------------------------------------------------------------------------
ThreadStep == Test \/ Lock \/ Wake \/ ExecuteNext \/ Reset

Next ==
  \/ \E o \in Operations : Execute(o)
  \/ Cancel \/ Destroy \/ Join
  \/ StartThread \/ Exec \/ ThreadStep \/ WakeSpuriously

Spec == Init /\ [][Next]_vars

\* The thread runs when it can; condition variables need not wake up without a reason.
FairSpec == Spec /\ WF_vars(ThreadStep) /\ WF_vars(Join)

\* "Signals an active call to drain() that it should return on the next possible
\* occassion": a run() that is cancelled returns.
CancelEndsRun == cancelled /\ pc # "ended" ~> pc = "ended"
=============================================================================
