---------------------------- MODULE OneShotEvent ----------------------------
(***************************************************************************)
(* What a lightweight_barrier promises: an event that is set once and for  *)
(* all.  Every call takes effect at one instant between its start and its  *)
(* return: complete() sets the event, a wait without timeout returns only  *)
(* once it is set, and every other call returns whether it is set.         *)
(***************************************************************************)
CONSTANT Threads

VARIABLES
  set,          \* the event has happened
  call,         \* the call each thread is in, or "none"
  result        \* what its last wait() or was_completed() returned

vars == <<set, call, result>>

Calls == {"wait", "timedWait", "poll", "complete"}

Init ==
  /\ set = FALSE
  /\ call = [t \in Threads |-> "none"]
  /\ result = [t \in Threads |-> FALSE]

Start(t, c) ==
  /\ call[t] = "none"
  /\ call' = [call EXCEPT ![t] = c]
  /\ UNCHANGED <<set, result>>

Complete(t) ==
  /\ call[t] = "complete"
  /\ set' = TRUE
  /\ call' = [call EXCEPT ![t] = "none"]
  /\ UNCHANGED result

Return(t) ==
  /\ call[t] \in {"wait", "timedWait", "poll"}
  /\ call[t] = "wait" => set
  /\ result' = [result EXCEPT ![t] = set]
  /\ call' = [call EXCEPT ![t] = "none"]
  /\ UNCHANGED set

Next ==
  \E t \in Threads :
    \/ \E c \in Calls : Start(t, c)
    \/ Complete(t)
    \/ Return(t)

Spec == Init /\ [][Next]_vars

\* complete() and was_completed() do not block, a timeout is reached, and a
\* thread that waits for a set event is woken.
Fairness == \A t \in Threads : WF_vars(Complete(t) \/ Return(t))

FairSpec == Spec /\ Fairness
=============================================================================
