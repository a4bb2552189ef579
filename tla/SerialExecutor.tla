--------------------------- MODULE SerialExecutor ---------------------------
(***************************************************************************)
(* What a serial queue promises its users, whatever threads and wakeups    *)
(* are behind it: the entries are executed one at a time, each exactly     *)
(* once, in the order in which they were submitted, and none is forgotten. *)
(***************************************************************************)
EXTENDS Sequences

CONSTANT Entries        \* what can be submitted

VARIABLES
  queued,               \* submitted and not yet started, oldest first
  running,              \* the entries being executed right now
  done                  \* the entries that have completed, oldest first

vars == <<queued, running, done>>

Init ==
  /\ queued = <<>>
  /\ running = {}
  /\ done = <<>>

Submit(e) ==
  /\ queued' = Append(queued, e)
  /\ UNCHANGED <<running, done>>

Start ==
  /\ running = {}
  /\ queued # <<>>
  /\ running' = {Head(queued)}
  /\ queued' = Tail(queued)
  /\ UNCHANGED done

Finish(e) ==
  /\ running = {e}
  /\ running' = {}
  /\ done' = Append(done, e)
  /\ UNCHANGED queued

Next ==
  \/ \E e \in Entries : Submit(e) \/ Finish(e)
  \/ Start

Spec == Init /\ [][Next]_vars

\* The entries themselves terminate and the executor keeps serving them.
Fairness == WF_vars(Start) /\ WF_vars(\E e \in Entries : Finish(e))

FairSpec == Spec /\ Fairness
=============================================================================
