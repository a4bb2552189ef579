---------------------------- MODULE WaitableQueue ---------------------------
(***************************************************************************)
(* waitable_queue: a list of operations that is worked off by one shared   *)
(* waitable_queue_operation.  async() puts that operation on the inner     *)
(* queue once per operation; whoever waits executes operations itself if   *)
(* nobody else does.  The inner queue may execute its copies in parallel,  *)
(* late, or never.                                                         *)
(*                                                                         *)
(* An action is one critical section of m_CS.                              *)
(***************************************************************************)
EXTENDS Integers, Sequences, FiniteSets

CONSTANTS
  Users,        \* threads that submit and wait
  Workers,      \* threads of the inner queue
  Operations,   \* operations that are submitted, each one once
  None

ASSUME WaitableThreadsAssumption == Users \cap Workers = {} /\ None \notin Operations

Threads == Users \cup Workers

VARIABLES
  operations,   \* m_operations
  completed,    \* m_completed
  active,       \* m_active
  posted,       \* copies of the worker operation on the inner queue
  pc,           \* where each thread is
  call,         \* the call a user is in
  todo,         \* the iterations apply() has yet to submit
  op,           \* drain_one()'s local op
  signalled,    \* sleeping threads that were notified
  done,         \* history: the operations that were executed, in order
  expected,     \* history: what the wait_for_all() a thread is in has to cover
  baseline      \* history: the completions its wait_for_one() has to see

queueVars == <<operations, completed, active, signalled>>
localVars == <<call, todo, op>>
waitVars == <<expected, baseline>>
historyVars == <<done, waitVars>>
vars == <<queueVars, posted, pc, localVars, historyVars>>

TypeOK ==
  /\ operations \in Seq(Operations)
  /\ completed \in Nat
  /\ active \in BOOLEAN
  /\ posted \in Nat
  /\ pc \in [Threads -> {"idle", "apply", "all", "one", "sleepOne", "drain", "sleepDrain",
                         "run"}]
  /\ call \in [Threads -> {"none", "one", "all"}]
  /\ todo \in [Threads -> SUBSET Operations]
  /\ op \in [Threads -> Operations \cup {None}]
  /\ signalled \subseteq Threads
  /\ done \in Seq(Operations)
  /\ expected \in [Threads -> SUBSET Operations]
  /\ baseline \in [Threads -> Nat]

NewOperation ==
  /\ operations = <<>>
  /\ completed = 0
  /\ active = FALSE

\* A waitable_queue over an inner queue that holds nothing of it yet.
Init ==
  /\ NewOperation
  /\ posted = 0
  /\ pc = [t \in Threads |-> "idle"]
  /\ call = [t \in Threads |-> "none"]
  /\ todo = [t \in Threads |-> {}]
  /\ op = [t \in Threads |-> None]
  /\ signalled = {}
  /\ done = <<>>
  /\ expected = [t \in Threads |-> {}]
  /\ baseline = [t \in Threads |-> 0]

Goto(t, l) == pc' = [pc EXCEPT ![t] = l]

Elements(s) == {s[i] : i \in 1..Len(s)}
Active == {op[t] : t \in Threads} \ {None}
Outstanding == Elements(operations) \cup Active
Submitted == Outstanding \cup Elements(done) \cup UNION {todo[t] : t \in Threads}

\* Mutant: only one sleeping thread is notified.
NotifyOne ==
  LET asleep == {t \in Threads : pc[t] \in {"sleepOne", "sleepDrain"}}
  IN  IF asleep = {} THEN UNCHANGED signalled
                     ELSE \E t \in asleep : signalled' = signalled \cup {t}

\* notify_all()
NotifyAll == signalled' = {t \in Threads : pc[t] \in {"sleepOne", "sleepDrain"}}

-----------------------------------------------------------------------------
(* async() and apply() *)

\* add_one() and the copy on the inner queue, which nobody can tell from one
\* step: a copy that is not there yet is one that is not executed yet.
Add(o) ==
  /\ operations' = Append(operations, o)
  /\ posted' = posted + 1

\* async(), of a user or of an operation that is being executed.
Async(t, o) ==
  /\ (t \in Users /\ pc[t] = "idle") \/ pc[t] = "run"
  /\ o \in Operations \ Submitted
  /\ Add(o)
  /\ UNCHANGED <<completed, active, signalled, pc, localVars, historyVars>>

\* apply() is called with some iterations ...
Apply(t, iterations) ==
  /\ pc[t] = "idle"
  /\ iterations # {} /\ iterations \subseteq Operations \ Submitted
  /\ todo' = [todo EXCEPT ![t] = iterations]
  /\ Goto(t, "apply")
  /\ UNCHANGED <<queueVars, posted, call, op, historyVars>>

\* ... which it submits one after the other before it waits for all.
ApplyAsync(t) ==
  /\ pc[t] = "apply"
  /\ \E o \in todo[t] :
       /\ todo' = [todo EXCEPT ![t] = @ \ {o}]
       /\ Add(o)
       /\ IF todo[t] = {o}
            THEN /\ Goto(t, "all")
                 /\ call' = [call EXCEPT ![t] = "all"]
                 /\ expected' = [expected EXCEPT ![t] = Outstanding \cup {o}]
            ELSE UNCHANGED <<pc, call, expected>>
  /\ UNCHANGED <<completed, active, signalled, op, done, baseline>>

-----------------------------------------------------------------------------
(* drain_one() *)

\* drain_one() returns: to the inner queue, or to the wait it was called from.
EndDrain(t) == Goto(t, IF t \in Workers THEN "idle" ELSE "one")

\* The inner queue executes a copy of the worker operation.
PickUp(w) ==
  /\ pc[w] = "idle"
  /\ posted > 0
  /\ posted' = posted - 1
  /\ Goto(w, "drain")
  /\ UNCHANGED <<queueVars, localVars, historyVars>>

\* With m_CS held and nobody active: take the next operation, if there is one.
TakeOne(t) ==
  IF operations # <<>>
  THEN /\ active' = TRUE
       /\ op' = [op EXCEPT ![t] = Head(operations)]
       /\ operations' = Tail(operations)
       /\ Goto(t, "run")
       /\ signalled' = signalled \ {t}
  ELSE /\ NotifyAll
       /\ EndDrain(t)
       /\ UNCHANGED <<active, op, operations>>

\* Mutant: the operation does not wait for a parallel execution.
DrainOneInParallel(t) ==
  /\ pc[t] = "drain"
  /\ TakeOne(t)
  /\ UNCHANGED <<completed, posted, call, todo, historyVars>>

DrainOne(t) ==
  /\ pc[t] = "drain"
  /\ IF active
       THEN Goto(t, "sleepDrain") /\ UNCHANGED <<queueVars, op>>
       ELSE TakeOne(t) /\ UNCHANGED completed
  /\ UNCHANGED <<posted, call, todo, historyVars>>

\* A notified thread looks again, and may be late.
WakeDrain(t) ==
  /\ pc[t] = "sleepDrain"
  /\ t \in signalled
  /\ IF active
       THEN signalled' = signalled \ {t} /\ UNCHANGED <<operations, active, op, pc>>
       ELSE TakeOne(t)
  /\ UNCHANGED <<completed, posted, call, todo, historyVars>>

\* The operation has been executed and m_CS is taken again.
Finish(t) ==
  /\ pc[t] = "run"
  /\ done' = Append(done, op[t])
  /\ op' = [op EXCEPT ![t] = None]
  /\ completed' = completed + 1
  /\ active' = FALSE
  /\ NotifyAll
  /\ EndDrain(t)
  /\ UNCHANGED <<operations, posted, call, todo, waitVars>>

-----------------------------------------------------------------------------
(* Waiting *)

Nothing == ~active /\ operations = <<>>

\* A wait is over, and with it what it had to see.
Return(t) ==
  /\ Goto(t, "idle")
  /\ call' = [call EXCEPT ![t] = "none"]
  /\ expected' = [expected EXCEPT ![t] = {}]
  /\ baseline' = [baseline EXCEPT ![t] = 0]

\* Nothing to take: wait for the active operation, or execute one here.
Block(t) ==
  /\ Goto(t, IF active THEN "sleepOne" ELSE "drain")
  /\ UNCHANGED <<call, waitVars>>

\* wait_for_one() is called.
WaitForOne(u) ==
  /\ pc[u] = "idle"
  /\ Goto(u, "one")
  /\ call' = [call EXCEPT ![u] = "one"]
  /\ baseline' = [baseline EXCEPT ![u] =
       IF completed = 0 /\ ~Nothing THEN Len(done) + 1 ELSE 0]
  /\ UNCHANGED <<queueVars, posted, todo, op, done, expected>>

\* Mutant: an empty list is taken for nothing to wait for.
LoopForgetsActive(t) ==
  IF call[t] = "one"
  THEN \/ completed # 0 /\ completed' = completed - 1 /\ Return(t)
       \/ completed = 0 /\ operations = <<>> /\ UNCHANGED completed /\ Return(t)
       \/ completed = 0 /\ operations # <<>> /\ UNCHANGED completed /\ Block(t)
  ELSE IF Nothing
       THEN completed' = (IF completed = 0 THEN 0 ELSE completed - 1) /\ Return(t)
       ELSE completed' = 0 /\ Block(t)

\* Mutant: the loop is left, instead of the call, when there is nothing.
LoopBreaks(t) ==
  IF call[t] = "one"
  THEN \/ (completed # 0 \/ Nothing) /\ completed' = completed - 1 /\ Return(t)
       \/ completed = 0 /\ ~Nothing /\ UNCHANGED completed /\ Block(t)
  ELSE IF Nothing
       THEN completed' = completed - 1 /\ Return(t)
       ELSE completed' = 0 /\ Block(t)

\* The loop of wait_for_one() up to where it gives m_CS up.  wait_for_all()
\* calls it again until no completion is left to be taken.
Loop(t) ==
  IF call[t] = "one"
  THEN \/ completed # 0 /\ completed' = completed - 1 /\ Return(t)
       \/ completed = 0 /\ Nothing /\ UNCHANGED completed /\ Return(t)
       \/ completed = 0 /\ ~Nothing /\ UNCHANGED completed /\ Block(t)
  ELSE IF Nothing
       THEN completed' = (IF completed = 0 THEN 0 ELSE completed - 1) /\ Return(t)
       ELSE completed' = 0 /\ Block(t)

WaitLoop(t) ==
  /\ pc[t] = "one"
  /\ Loop(t)
  /\ UNCHANGED <<operations, active, signalled, posted, todo, op, done>>

\* A notified thread looks again, and may be late.
WakeOne(t) ==
  /\ pc[t] = "sleepOne"
  /\ t \in signalled
  /\ signalled' = signalled \ {t}
  /\ IF active THEN UNCHANGED <<completed, pc, call, waitVars>> ELSE Loop(t)
  /\ UNCHANGED <<operations, active, posted, todo, op, done>>

\* wait_for_all() is called ...
WaitForAll(u) ==
  /\ pc[u] = "idle"
  /\ Goto(u, "all")
  /\ call' = [call EXCEPT ![u] = "all"]
  /\ expected' = [expected EXCEPT ![u] = Outstanding]
  /\ UNCHANGED <<queueVars, posted, todo, op, done, baseline>>

\* Mutant: an operation that is being executed is not waited for.
AllLoopForgetsActive(t) ==
  /\ pc[t] = "all"
  /\ IF operations = <<>>
       THEN Return(t) /\ UNCHANGED completed
       ELSE completed' = 0 /\ Block(t)
  /\ UNCHANGED <<operations, active, signalled, posted, todo, op, done>>

\* ... and, unless there is nothing to wait for, takes all completions and goes
\* on like wait_for_one().
AllLoop(t) ==
  /\ pc[t] = "all"
  /\ IF Nothing
       THEN Return(t) /\ UNCHANGED completed
       ELSE completed' = 0 /\ Block(t)
  /\ UNCHANGED <<operations, active, signalled, posted, todo, op, done>>

-----------------------------------------------------------------------------
CallStep(t) ==
  \/ ApplyAsync(t) \/ DrainOne(t) \/ WakeDrain(t) \/ Finish(t)
  \/ WaitLoop(t) \/ WakeOne(t) \/ AllLoop(t)

Next ==
  \/ \E u \in Users : WaitForOne(u) \/ WaitForAll(u)
  \/ \E u \in Users, iterations \in SUBSET Operations : Apply(u, iterations)
  \/ \E t \in Threads, o \in Operations : Async(t, o)
  \/ \E t \in Threads : CallStep(t)
  \/ \E w \in Workers : PickUp(w)

Spec == Init /\ [][Next]_vars

\* Threads that can run do and operations return.  The inner queue need not
\* execute anything: "it cannot deadlock even on systems heavily competing for
\* CPU resources".
Fairness == \A t \in Threads : WF_vars(CallStep(t))

FairSpec == Spec /\ Fairness

-----------------------------------------------------------------------------
(* Properties *)

\* Whoever executes them, the inner queue's threads in parallel or the waiting
\* threads, the operations are executed one at a time, each once and in the
\* order of their submission.
Executor == INSTANCE SerialExecutor
  WITH Entries <- Operations, queued <- operations, running <- Active, done <- done

ImplementsSerialExecutor == Executor!Spec

Returns(u, c) == call[u] = c /\ call'[u] = "none"

\* wait_for_all() and apply() return with every operation executed that was
\* queued or being executed when they started to wait, although other waiters
\* take the completions they look at.
WaitForAllCovers ==
  [][\A u \in Users : Returns(u, "all") => expected[u] \subseteq Elements(done)]_vars

\* A wait_for_one() that finds no completion to take, and something to wait for,
\* returns only after one more operation was executed.
WaitForOneWaits ==
  [][\A u \in Users : Returns(u, "one") => Len(done) >= baseline[u]]_vars

\* Every wait returns although the inner queue may never execute anything and
\* several threads wait for each other's operations.
EveryWaitReturns ==
  \A u \in Users : call[u] # "none" ~> call[u] = "none"
=============================================================================
