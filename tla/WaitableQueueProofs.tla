------------------------- MODULE WaitableQueueProofs ------------------------
(***************************************************************************)
(* Proofs about WaitableQueue for any number of users, threads of the      *)
(* inner queue and operations.                                             *)
(***************************************************************************)
EXTENDS WaitableQueue, TLAPS

USE DEF queueVars, localVars, waitVars, historyVars

-----------------------------------------------------------------------------
(* The inductive invariant *)

\* m_active tells whether a thread is executing an operation; no two are.
Exclusive ==
  /\ \A t \in Threads : pc[t] = "run" <=> op[t] # None
  /\ \A s, t \in Threads : pc[s] = "run" /\ pc[t] = "run" => s = t
  /\ active <=> \E t \in Threads : pc[t] = "run"

\* What a wait_for_all() has to cover has been executed or is still outstanding.
Covered == \A t \in Threads : expected[t] \subseteq Outstanding \cup Elements(done)

\* Until the operation that a wait_for_one() needs has been executed there is no
\* completion to take, and something to wait for.
Baselines ==
  \A t \in Threads :
    \/ baseline[t] <= Len(done)
    \/ baseline[t] = Len(done) + 1 /\ completed = 0 /\ ~Nothing

IInv == TypeOK /\ Exclusive /\ Covered /\ Baselines

-----------------------------------------------------------------------------
(* Facts about the lists and the operation being executed *)

\* Submitting an operation adds it to the list.
LEMMA AppendFacts ==
  ASSUME NEW s \in Seq(Operations), NEW o \in Operations
  PROVE  /\ Append(s, o) \in Seq(Operations) /\ Append(s, o) # <<>>
         /\ Len(s) \in Nat /\ Len(Append(s, o)) = Len(s) + 1
         /\ Elements(Append(s, o)) = Elements(s) \cup {o}
  <1>1. /\ Append(s, o) \in Seq(Operations) /\ Append(s, o) # <<>>
        /\ Len(s) \in Nat /\ Len(Append(s, o)) = Len(s) + 1
        /\ \A i \in 1..Len(s) : Append(s, o)[i] = s[i]
        /\ Append(s, o)[Len(s) + 1] = o
    OBVIOUS
  <1>2. \A i \in 1..Len(Append(s, o)) : i \in 1..Len(s) \/ i = Len(s) + 1
    BY <1>1
  <1>3. Elements(Append(s, o)) \subseteq Elements(s) \cup {o}
    BY <1>1, <1>2 DEF Elements
  <1>4. \A i \in 1..Len(s) : i \in 1..Len(Append(s, o))
    BY <1>1
  <1>5. Len(s) + 1 \in 1..Len(Append(s, o))
    BY <1>1
  <1>6. Elements(s) \cup {o} \subseteq Elements(Append(s, o))
    BY <1>1, <1>4, <1>5 DEF Elements
  <1> QED
    BY <1>1, <1>3, <1>6

\* Taking the first operation leaves the others.
LEMMA TailFacts ==
  ASSUME NEW s \in Seq(Operations), s # <<>>
  PROVE  /\ Tail(s) \in Seq(Operations)
         /\ Head(s) \in Operations
         /\ Elements(s) \subseteq Elements(Tail(s)) \cup {Head(s)}
  <1>1. /\ Tail(s) \in Seq(Operations) /\ Head(s) \in Operations /\ Head(s) = s[1]
        /\ Len(s) \in Nat \ {0} /\ Len(Tail(s)) = Len(s) - 1
        /\ \A i \in 1..Len(Tail(s)) : Tail(s)[i] = s[i + 1]
    OBVIOUS
  <1>2. ASSUME NEW i \in 1..Len(s), i # 1 PROVE s[i] \in Elements(Tail(s))
    <2>1. i - 1 \in 1..Len(Tail(s)) /\ Tail(s)[i - 1] = s[i]
      BY <1>1, <1>2
    <2> QED
      BY <2>1 DEF Elements
  <1> QED
    BY <1>1, <1>2 DEF Elements

\* The operations being executed, seen from m_active and from the thread.
LEMMA ActiveFacts ==
  ASSUME TypeOK, Exclusive
  PROVE  /\ ~active => Active = {}
         /\ \A t \in Threads : pc[t] = "run" => Active = {op[t]} /\ op[t] \in Operations
  BY DEF TypeOK, Exclusive, Active

-----------------------------------------------------------------------------
(* What a step does to the operations *)

\* The operations stay where they are, ...
Quiet ==
  /\ operations' = operations /\ op' = op /\ done' = done /\ active' = active
  /\ \A t \in Threads : pc'[t] = "run" <=> pc[t] = "run"

\* ... one is submitted, ...
Submits(o) ==
  /\ operations' = Append(operations, o) /\ op' = op /\ done' = done /\ active' = active
  /\ completed' = completed
  /\ \A t \in Threads : pc'[t] = "run" <=> pc[t] = "run"

\* ... the next one is taken by a thread that finds nobody active, ...
Starts(t) ==
  /\ ~active /\ operations # <<>>
  /\ operations' = Tail(operations) /\ active' = TRUE /\ done' = done
  /\ op' = [op EXCEPT ![t] = Head(operations)]
  /\ pc' = [pc EXCEPT ![t] = "run"]
  /\ completed' = completed /\ waitVars' = waitVars

\* ... or it has been executed.
Finishes(t) ==
  /\ pc[t] = "run" /\ pc'[t] # "run"
  /\ \A s \in Threads : s # t => pc'[s] = pc[s]
  /\ operations' = operations /\ active' = FALSE /\ done' = Append(done, op[t])
  /\ op' = [op EXCEPT ![t] = None]
  /\ completed' = completed + 1 /\ waitVars' = waitVars

\* drain_one() takes an operation or finds none.
LEMMA TakeOneSteps ==
  ASSUME TypeOK, ~active, NEW t \in Threads, pc[t] # "run", TakeOne(t), UNCHANGED <<completed, historyVars>>
  PROVE  Quiet \/ Starts(t)
  <1>1. CASE operations # <<>>
    BY <1>1 DEF TakeOne, Starts, Goto
  <1>2. CASE operations = <<>>
    BY <1>2 DEF TakeOne, EndDrain, Quiet, Goto, TypeOK
  <1> QED
    BY <1>1, <1>2

\* A wait only moves its own thread on.
LEMMA LoopIsQuiet ==
  ASSUME TypeOK, NEW t \in Threads, pc[t] # "run", Return(t) \/ Block(t),
         UNCHANGED <<operations, op, done, active>>
  PROVE  Quiet
  BY DEF Return, Block, Goto, Quiet, TypeOK

\* These are all the steps there are.
LEMMA StepKinds ==
  ASSUME TypeOK, Next
  PROVE  \/ Quiet
         \/ \E o \in Operations : Submits(o)
         \/ \E t \in Threads : Starts(t) \/ Finishes(t)
  <1>1. ASSUME NEW t \in Threads, NEW o \in Operations, Async(t, o) PROVE Submits(o)
    BY <1>1 DEF Async, Add, Submits
  <1>2. ASSUME NEW t \in Threads, ApplyAsync(t) PROVE \E o \in Operations : Submits(o)
    <2>1. PICK o \in todo[t] : ApplyAsync(t)!2!(o)
      BY <1>2 DEF ApplyAsync
    <2>2. o \in Operations
      BY <2>1 DEF TypeOK
    <2>3. Submits(o)
      BY <1>2, <2>1 DEF ApplyAsync, Add, Submits, Goto, TypeOK
    <2> QED
      BY <2>2, <2>3
  <1>3. ASSUME NEW t \in Threads, DrainOne(t) \/ WakeDrain(t) PROVE Quiet \/ Starts(t)
    <2>1. CASE active
      BY <1>3, <2>1 DEF DrainOne, WakeDrain, Goto, Quiet, TypeOK
    <2>2. CASE ~active
      <3>1. TakeOne(t) /\ pc[t] # "run" /\ UNCHANGED <<completed, historyVars>>
        BY <1>3, <2>2 DEF DrainOne, WakeDrain
      <3> QED
        BY <2>2, <3>1, TakeOneSteps
    <2> QED
      BY <2>1, <2>2
  <1>4. ASSUME NEW t \in Threads, Finish(t) PROVE Finishes(t)
    BY <1>4 DEF Finish, EndDrain, Goto, Finishes, TypeOK
  <1>5. ASSUME NEW t \in Threads, WaitLoop(t) \/ AllLoop(t) PROVE Quiet
    BY <1>5, LoopIsQuiet DEF WaitLoop, AllLoop, Loop
  <1>6. ASSUME NEW t \in Threads, WakeOne(t) PROVE Quiet
    <2>1. CASE active
      BY <1>6, <2>1 DEF WakeOne, Quiet
    <2>2. CASE ~active
      BY <1>6, <2>2, LoopIsQuiet DEF WakeOne, Loop
    <2> QED
      BY <2>1, <2>2
  <1>7. ASSUME NEW u \in Users, WaitForOne(u) \/ WaitForAll(u) PROVE Quiet
    BY <1>7 DEF WaitForOne, WaitForAll, Goto, Quiet, TypeOK, Threads
  <1>8. ASSUME NEW u \in Users, NEW iterations \in SUBSET Operations, Apply(u, iterations)
        PROVE  Quiet
    BY <1>8 DEF Apply, Goto, Quiet, TypeOK, Threads
  <1>9. ASSUME NEW w \in Workers, PickUp(w) PROVE Quiet
    BY <1>9 DEF PickUp, Goto, Quiet, TypeOK, Threads
  <1> QED
    BY <1>1, <1>2, <1>3, <1>4, <1>5, <1>6, <1>7, <1>8, <1>9 DEF Next, CallStep

-----------------------------------------------------------------------------
(* Every step keeps the parts of the invariant *)

\* An operation is only taken when nobody is active, and m_active is reset by who
\* set it.
LEMMA ExclusiveKept == ASSUME TypeOK, Exclusive, Next PROVE Exclusive'
  <1> USE WaitableThreadsAssumption DEF TypeOK, Exclusive
  <1>1. CASE Quiet \/ \E o \in Operations : Submits(o)
    BY <1>1 DEF Quiet, Submits
  <1>2. ASSUME NEW t \in Threads, Starts(t) PROVE Exclusive'
    <2>1. Head(operations) # None
      BY <1>2, TailFacts DEF Starts
    <2> QED
      BY <1>2, <2>1 DEF Starts
  <1>3. ASSUME NEW t \in Threads, Finishes(t) PROVE Exclusive'
    BY <1>3 DEF Finishes
  <1> QED
    BY <1>1, <1>2, <1>3, StepKinds

\* No operation is ever lost.
LEMMA NothingLost ==
  ASSUME TypeOK, Exclusive, Next
  PROVE  Outstanding \cup Elements(done) \subseteq Outstanding' \cup Elements(done')
  <1>1. CASE Quiet
    BY <1>1 DEF Quiet, Outstanding, Active
  <1>2. ASSUME NEW o \in Operations, Submits(o)
        PROVE  Outstanding \cup Elements(done) \subseteq Outstanding' \cup Elements(done')
    <2>1. Elements(operations') = Elements(operations) \cup {o}
      BY <1>2, AppendFacts DEF Submits, TypeOK
    <2> QED
      BY <1>2, <2>1 DEF Submits, Outstanding, Active
  <1>3. ASSUME NEW t \in Threads, Starts(t)
        PROVE  Outstanding \cup Elements(done) \subseteq Outstanding' \cup Elements(done')
    <2>1. Active = {}
      BY <1>3, ActiveFacts DEF Starts
    <2>2. Head(operations) \in Active'
      <3>1. op'[t] = Head(operations) /\ Head(operations) # None
        BY <1>3, TailFacts, WaitableThreadsAssumption DEF Starts, TypeOK
      <3> QED
        BY <3>1 DEF Active
    <2>3. Elements(operations) \subseteq Elements(operations') \cup {Head(operations)}
      BY <1>3, TailFacts DEF Starts, TypeOK
    <2> QED
      BY <1>3, <2>1, <2>2, <2>3 DEF Starts, Outstanding
  <1>4. ASSUME NEW t \in Threads, Finishes(t)
        PROVE  Outstanding \cup Elements(done) \subseteq Outstanding' \cup Elements(done')
    <2>1. Active = {op[t]} /\ op[t] \in Operations
      BY <1>4, ActiveFacts DEF Finishes
    <2>2. Elements(done') = Elements(done) \cup {op[t]}
      BY <1>4, <2>1, AppendFacts DEF Finishes, TypeOK
    <2> QED
      BY <1>4, <2>1, <2>2 DEF Finishes, Outstanding
  <1> QED
    BY <1>1, <1>2, <1>3, <1>4, StepKinds

\* A wait_for_all() starts with what is outstanding at that moment.
LEMMA CoveredKept == ASSUME TypeOK, Exclusive, Covered, Next PROVE Covered'
  <1> DEFINE All == Outstanding \cup Elements(done)
  <1>1. All \subseteq Outstanding' \cup Elements(done')
    BY NothingLost
  <1>2. ASSUME \A t \in Threads : expected'[t] \subseteq expected[t]
                               \/ expected'[t] \subseteq Outstanding' \cup Elements(done')
        PROVE  Covered'
    BY <1>1, <1>2 DEF Covered
  <1>3. ASSUME NEW u \in Users, WaitForAll(u) PROVE Covered'
    <2>1. \A t \in Threads : expected'[t] = expected[t] \/ expected'[t] = Outstanding
      BY <1>3 DEF WaitForAll, TypeOK, Threads
    <2> QED
      BY <1>1, <1>2, <2>1
  <1>4. ASSUME NEW t \in Threads, ApplyAsync(t) PROVE Covered'
    <2>1. PICK o \in todo[t] : ApplyAsync(t)!2!(o)
      BY <1>4 DEF ApplyAsync
    <2>2. o \in Operations
      BY <2>1 DEF TypeOK
    <2>3. Elements(operations') = Elements(operations) \cup {o}
      BY <2>1, <2>2, AppendFacts DEF Add, TypeOK
    <2>4. \A s \in Threads : expected'[s] = expected[s] \/ expected'[s] = Outstanding \cup {o}
      BY <1>4, <2>1 DEF ApplyAsync, TypeOK
    <2>5. Outstanding \cup {o} \subseteq Outstanding'
      BY <1>4, <2>3 DEF ApplyAsync, Outstanding, Active
    <2> QED
      BY <1>2, <2>4, <2>5
  <1>5. ASSUME NEW t \in Threads, WaitLoop(t) \/ AllLoop(t) \/ WakeOne(t) PROVE Covered'
    <2>1. expected' = [expected EXCEPT ![t] = {}] \/ expected' = expected
      BY <1>5 DEF WaitLoop, AllLoop, WakeOne, Loop, Return, Block
    <2> QED
      BY <1>2, <2>1 DEF TypeOK
  <1>6. ASSUME NEW t \in Threads, DrainOne(t) \/ WakeDrain(t) \/ Finish(t) PROVE Covered'
    BY <1>2, <1>6 DEF DrainOne, WakeDrain, Finish
  <1>7. ASSUME NEW t \in Threads, NEW o \in Operations, Async(t, o) PROVE Covered'
    BY <1>2, <1>7 DEF Async
  <1>8. ASSUME NEW u \in Users, WaitForOne(u) PROVE Covered'
    BY <1>2, <1>8 DEF WaitForOne
  <1>9. ASSUME NEW u \in Users, NEW iterations \in SUBSET Operations, Apply(u, iterations)
        PROVE  Covered'
    BY <1>2, <1>9 DEF Apply
  <1>10. ASSUME NEW w \in Workers, PickUp(w) PROVE Covered'
    BY <1>2, <1>10 DEF PickUp
  <1> QED
    BY <1>3, <1>4, <1>5, <1>6, <1>7, <1>8, <1>9, <1>10 DEF Next, CallStep

\* Before the next operation has been executed there is neither a completion nor
\* an empty and idle queue.
LEMMA NoEarlyCompletion ==
  ASSUME TypeOK, Next, completed = 0, ~Nothing
  PROVE  (done' = done /\ completed' = 0 /\ ~Nothing') \/ \E t \in Threads : Finishes(t)
  <1>1. CASE Quiet
    <2>1. completed' = 0
      <3>1. ASSUME NEW t \in Threads, CallStep(t) PROVE completed' = 0 \/ Finish(t)
        BY <3>1 DEF CallStep, ApplyAsync, DrainOne, WakeDrain, WaitLoop, WakeOne, AllLoop, Loop
      <3>2. ASSUME NEW t \in Threads, Finish(t) PROVE FALSE
        BY <1>1, <3>2 DEF Finish, EndDrain, Goto, Quiet, TypeOK
      <3> QED
        BY <3>1, <3>2 DEF Next, WaitForOne, WaitForAll, Apply, Async, PickUp
    <2> QED
      BY <1>1, <2>1 DEF Quiet, Nothing
  <1>2. ASSUME NEW o \in Operations, Submits(o) PROVE done' = done /\ completed' = 0 /\ ~Nothing'
    BY <1>2, AppendFacts DEF Submits, Nothing, TypeOK
  <1>3. ASSUME NEW t \in Threads, Starts(t) PROVE done' = done /\ completed' = 0 /\ ~Nothing'
    BY <1>3 DEF Starts, Nothing
  <1> QED
    BY <1>1, <1>2, <1>3, StepKinds

\* A wait_for_one() notes what it has to see when it starts, and forgets it when it
\* returns.
LEMMA BaselineSteps ==
  ASSUME TypeOK, Next, NEW t \in Threads
  PROVE  \/ baseline'[t] \in {baseline[t], 0}
         \/ /\ baseline'[t] = Len(done) + 1 /\ done' = done
            /\ completed' = 0 /\ completed = 0 /\ ~Nothing
  <1> USE DEF TypeOK, Threads
  <1>1. ASSUME NEW u \in Users, WaitForOne(u)
        PROVE  \/ baseline'[t] \in {baseline[t], 0}
               \/ /\ baseline'[t] = Len(done) + 1 /\ done' = done
                  /\ completed' = 0 /\ completed = 0 /\ ~Nothing
    BY <1>1 DEF WaitForOne
  <1>2. ASSUME NEW s \in Threads, WaitLoop(s) \/ AllLoop(s) \/ WakeOne(s)
        PROVE  baseline'[t] \in {baseline[t], 0}
    <2>1. baseline' = [baseline EXCEPT ![s] = 0] \/ baseline' = baseline
      BY <1>2 DEF WaitLoop, AllLoop, WakeOne, Loop, Return, Block
    <2> QED
      BY <2>1
  <1> QED
    BY <1>1, <1>2 DEF Next, CallStep, WaitForAll, Apply, Async, PickUp, ApplyAsync, DrainOne,
                      WakeDrain, Finish

LEMMA BaselinesKept == ASSUME TypeOK, Exclusive, Baselines, Next PROVE Baselines'
  <1> SUFFICES ASSUME NEW t \in Threads
               PROVE  \/ baseline'[t] <= Len(done')
                      \/ baseline'[t] = Len(done') + 1 /\ completed' = 0 /\ ~Nothing'
    BY DEF Baselines
  <1>1. Len(done) \in Nat /\ baseline[t] \in Nat
    BY DEF TypeOK
  <1>2. CASE \E s \in Threads : Finishes(s)
    <2>1. PICK s \in Threads : Finishes(s)
      BY <1>2
    <2>2. op[s] \in Operations
      BY <2>1, ActiveFacts DEF Finishes
    <2>3. Len(done') = Len(done) + 1 /\ baseline' = baseline
      BY <2>1, <2>2, AppendFacts DEF Finishes, TypeOK
    <2> QED
      BY <1>1, <2>3 DEF Baselines
  <1>3. CASE ~\E s \in Threads : Finishes(s)
    <2>1. done' = done
      BY <1>3, StepKinds DEF Quiet, Submits, Starts
    <2>2. CASE completed = 0 /\ ~Nothing
      BY <1>1, <1>3, <2>1, <2>2, NoEarlyCompletion, BaselineSteps DEF Baselines
    <2>3. CASE ~(completed = 0 /\ ~Nothing)
      BY <1>1, <2>1, <2>3, BaselineSteps DEF Baselines
    <2> QED
      BY <2>2, <2>3
  <1> QED
    BY <1>2, <1>3

\* The types are kept.
LEMMA TypeKept == ASSUME TypeOK, Exclusive, Next PROVE TypeOK'
  <1> DEFINE
        Lists == operations' \in Seq(Operations) /\ done' \in Seq(Operations)
                 /\ op' \in [Threads -> Operations \cup {None}] /\ active' \in BOOLEAN
        States == /\ pc' \in [Threads -> {"idle", "apply", "all", "one", "sleepOne", "drain",
                                          "sleepDrain", "run"}]
                  /\ call' \in [Threads -> {"none", "one", "all"}]
                  /\ signalled' \subseteq Threads
        Counts == completed' \in Nat /\ posted' \in Nat
        Locals == /\ todo' \in [Threads -> SUBSET Operations]
                  /\ expected' \in [Threads -> SUBSET Operations]
                  /\ baseline' \in [Threads -> Nat]
  <1> USE DEF TypeOK
  <1>1. Lists
    <2>1. CASE Quiet
      BY <2>1 DEF Quiet
    <2>2. ASSUME NEW o \in Operations, Submits(o) PROVE Lists
      BY <2>2, AppendFacts DEF Submits
    <2>3. ASSUME NEW t \in Threads, Starts(t) PROVE Lists
      <3>1. active' \in BOOLEAN
        BY <2>3, Zenon DEF Starts
      <3> QED
        BY <2>3, <3>1, TailFacts DEF Starts
    <2>4. ASSUME NEW t \in Threads, Finishes(t) PROVE Lists
      <3>1. active' \in BOOLEAN
        BY <2>4, Zenon DEF Finishes
      <3>2. op[t] \in Operations
        BY <2>4, ActiveFacts DEF Finishes
      <3> QED
        BY <2>4, <3>1, <3>2, AppendFacts DEF Finishes
    <2> QED
      BY <2>1, <2>2, <2>3, <2>4, StepKinds
  <1>2. Outstanding \subseteq Operations
    BY DEF Outstanding, Active, Elements
  <1>3. ASSUME NEW t \in Threads, NEW o \in Operations, Async(t, o) PROVE States /\ Counts /\ Locals
    BY <1>3 DEF Async, Add
  <1>4. ASSUME NEW t \in Threads, ApplyAsync(t) PROVE States /\ Counts /\ Locals
    <2>1. PICK o \in todo[t] : ApplyAsync(t)!2!(o)
      BY <1>4 DEF ApplyAsync
    <2>2. o \in Operations /\ Outstanding \cup {o} \in SUBSET Operations
      BY <1>2, <2>1
    <2>3. States
      <3>1. CASE todo[t] = {o}
        <4>1. /\ pc' = [pc EXCEPT ![t] = "all"] /\ call' = [call EXCEPT ![t] = "all"]
              /\ signalled' = signalled
          BY <1>4, <2>1, <3>1 DEF ApplyAsync, Goto
        <4> QED
          BY <4>1
      <3>2. CASE todo[t] # {o}
        BY <1>4, <2>1, <3>2 DEF ApplyAsync
      <3> QED
        BY <3>1, <3>2
    <2>4. Counts
      BY <1>4, <2>1 DEF ApplyAsync, Add
    <2>5. Locals
      <3>1. todo' = [todo EXCEPT ![t] = @ \ {o}] /\ baseline' = baseline
        BY <1>4, <2>1 DEF ApplyAsync
      <3>2. expected' = expected \/ expected' = [expected EXCEPT ![t] = Outstanding \cup {o}]
        BY <2>1
      <3>3. expected' \in [Threads -> SUBSET Operations]
        BY <2>2, <3>2
      <3>4. todo[t] \ {o} \in SUBSET Operations
        OBVIOUS
      <3>5. todo' \in [Threads -> SUBSET Operations]
        BY <3>1, <3>4
      <3> QED
        BY <3>1, <3>3, <3>5
    <2> QED
      BY <2>3, <2>4, <2>5
  <1>5. ASSUME NEW t \in Threads, DrainOne(t) \/ WakeDrain(t) PROVE States /\ Counts /\ Locals
    <2>1. Counts /\ Locals
      BY <1>5 DEF DrainOne, WakeDrain
    <2>2. States
      BY <1>5 DEF DrainOne, WakeDrain, TakeOne, NotifyAll, EndDrain, Goto
    <2> QED
      BY <2>1, <2>2
  <1>6. ASSUME NEW t \in Threads, Finish(t) PROVE States /\ Counts /\ Locals
    BY <1>6 DEF Finish, NotifyAll, EndDrain, Goto
  <1>7. ASSUME NEW t \in Threads, WaitLoop(t) \/ AllLoop(t) \/ WakeOne(t)
        PROVE  States /\ Counts /\ Locals
    <2>1. \/ Return(t) \/ Block(t)
          \/ UNCHANGED <<pc, call, waitVars>>
      BY <1>7 DEF WaitLoop, AllLoop, WakeOne, Loop
    <2>2. Counts
      BY <1>7 DEF WaitLoop, AllLoop, WakeOne, Loop
    <2>3. todo' = todo /\ signalled' \subseteq Threads
      BY <1>7 DEF WaitLoop, AllLoop, WakeOne
    <2>4. States
      BY <2>1, <2>3 DEF Return, Block, Goto
    <2>5. Locals
      <3>1. CASE Return(t)
        BY <2>3, <3>1 DEF Return
      <3>2. CASE UNCHANGED waitVars
        BY <2>3, <3>2
      <3> QED
        BY <2>1, <3>1, <3>2 DEF Block
    <2> QED
      BY <2>2, <2>4, <2>5
  <1>8. ASSUME NEW u \in Users, WaitForOne(u) PROVE States /\ Counts /\ Locals
    <2>1. Len(done) + 1 \in Nat
      OBVIOUS
    <2> QED
      BY <1>8, <2>1 DEF WaitForOne, Goto
  <1>9. ASSUME NEW u \in Users, WaitForAll(u) PROVE States /\ Counts /\ Locals
    BY <1>2, <1>9 DEF WaitForAll, Goto
  <1>10. ASSUME NEW u \in Users, NEW iterations \in SUBSET Operations, Apply(u, iterations)
         PROVE  States /\ Counts /\ Locals
    BY <1>10 DEF Apply, Goto
  <1>11. ASSUME NEW w \in Workers, PickUp(w) PROVE States /\ Counts /\ Locals
    <2>1. Counts
      BY <1>11 DEF PickUp
    <2> QED
      BY <1>11, <2>1 DEF PickUp, Goto
  <1>12. States /\ Counts /\ Locals
    BY <1>3, <1>4, <1>5, <1>6, <1>7, <1>8, <1>9, <1>10, <1>11 DEF Next, CallStep
  <1> QED
    BY <1>1, <1>12

-----------------------------------------------------------------------------
(* The theorems *)

\* The invariant holds for a new queue, and every critical section keeps it.
THEOREM Invariance == Spec => []IInv
  <1>1. Init => IInv
    <2> SUFFICES ASSUME Init PROVE IInv
      OBVIOUS
    <2>1. TypeOK
      <3>1. operations \in Seq(Operations) /\ done \in Seq(Operations)
        BY DEF Init, NewOperation
      <3>2. active \in BOOLEAN
        BY Zenon DEF Init, NewOperation
      <3>3. completed \in Nat /\ posted \in Nat /\ baseline \in [Threads -> Nat]
        BY DEF Init, NewOperation
      <3> QED
        BY <3>1, <3>2, <3>3 DEF Init, NewOperation, TypeOK
    <2>2. Exclusive
      BY DEF Init, NewOperation, Exclusive
    <2>3. Covered /\ Baselines
      BY DEF Init, NewOperation, Covered, Baselines
    <2> QED
      BY <2>1, <2>2, <2>3 DEF IInv
  <1>2. IInv /\ [Next]_vars => IInv'
    <2> SUFFICES ASSUME IInv, [Next]_vars PROVE IInv'
      OBVIOUS
    <2>1. CASE Next
      BY <2>1, TypeKept, ExclusiveKept, CoveredKept, BaselinesKept DEF IInv
    <2>2. CASE UNCHANGED vars
      BY <2>2 DEF vars, IInv, TypeOK, Exclusive, Covered, Outstanding, Active, Baselines, Nothing
    <2> QED
      BY <2>1, <2>2
  <1> QED
    BY <1>1, <1>2, PTL DEF Spec

\* The lists, counters and states keep their types, whoever submits, waits and
\* executes.
THEOREM TypeCorrectness == Spec => []TypeOK
  BY Invariance, PTL DEF IInv

\* The threads of the inner queue and the waiting ones together execute the
\* operations one at a time, each once and in order: every step is one of the
\* abstract executor, or none of its business.
THEOREM Refinement == Spec => ImplementsSerialExecutor
  <1>1. Init => Executor!Init
    BY DEF Init, NewOperation, Executor!Init, Active
  <1>2. ASSUME IInv, Next PROVE Executor!Next \/ UNCHANGED <<operations, Active, done>>
    <2>1. CASE Quiet
      BY <2>1 DEF Quiet, Active
    <2>2. ASSUME NEW o \in Operations, Submits(o) PROVE Executor!Submit(o)
      BY <2>2 DEF Submits, Executor!Submit, Active
    <2>3. ASSUME NEW t \in Threads, Starts(t) PROVE Executor!Start
      <3>1. Active = {}
        BY <1>2, <2>3, ActiveFacts DEF Starts, IInv
      <3>2. pc'[t] = "run" /\ op'[t] = Head(operations)
        BY <1>2, <2>3 DEF Starts, IInv, TypeOK
      <3>3. TypeOK' /\ Exclusive'
        BY <1>2, TypeKept, ExclusiveKept DEF IInv
      <3>4. Active' = {Head(operations)}
        BY <3>2, <3>3 DEF TypeOK, Exclusive, Active
      <3> QED
        BY <2>3, <3>1, <3>4 DEF Starts, Executor!Start
    <2>4. ASSUME NEW t \in Threads, Finishes(t) PROVE \E o \in Operations : Executor!Finish(o)
      <3>1. Active = {op[t]} /\ op[t] \in Operations
        BY <1>2, <2>4, ActiveFacts DEF Finishes, IInv
      <3>2. TypeOK' /\ Exclusive'
        BY <1>2, TypeKept, ExclusiveKept DEF IInv
      <3>3. Active' = {}
        BY <2>4, <3>2 DEF Finishes, TypeOK, Exclusive, Active
      <3>4. Executor!Finish(op[t])
        BY <2>4, <3>1, <3>3 DEF Finishes, Executor!Finish
      <3> QED
        BY <3>1, <3>4
    <2>5. TypeOK
      BY <1>2 DEF IInv
    <2> QED
      BY <1>2, <2>1, <2>2, <2>3, <2>4, <2>5, StepKinds DEF Executor!Next
  <1>3. IInv /\ [Next]_vars => [Executor!Next]_Executor!vars
    <2>1. ASSUME UNCHANGED vars PROVE UNCHANGED <<operations, Active, done>>
      BY <2>1 DEF vars, Active
    <2> QED
      BY <1>2, <2>1 DEF Executor!vars
  <1> QED
    BY <1>1, <1>3, Invariance, PTL DEF Spec, ImplementsSerialExecutor, Executor!Spec

\* A wait_for_all() or apply() returns only when the queue is empty and idle, so
\* everything it had to cover has been executed.
THEOREM WaitForAllIsComplete == Spec => WaitForAllCovers
  <1>1. ASSUME IInv, Next, NEW u \in Users, Returns(u, "all")
        PROVE  expected[u] \subseteq Elements(done)
    <2>1. u \in Threads /\ call[u] = "all" /\ call'[u] = "none"
      BY <1>1 DEF Returns, Threads
    <2>2. Nothing
      <3>1. ASSUME NEW t \in Threads, WaitLoop(t) \/ AllLoop(t) \/ WakeOne(t) PROVE Nothing
        <4>1. t = u
          BY <1>1, <2>1, <3>1 DEF WaitLoop, AllLoop, WakeOne, Loop, Return, Block, IInv, TypeOK
        <4> QED
          BY <2>1, <3>1, <4>1 DEF WaitLoop, AllLoop, WakeOne, Loop, Block
      <3>2. ASSUME NEW t \in Threads, ApplyAsync(t) PROVE FALSE
        BY <1>1, <2>1, <3>2 DEF ApplyAsync, IInv, TypeOK
      <3>3. ASSUME NEW v \in Users, WaitForOne(v) \/ WaitForAll(v) PROVE FALSE
        BY <1>1, <2>1, <3>3 DEF WaitForOne, WaitForAll, IInv, TypeOK, Threads
      <3> QED
        BY <1>1, <2>1, <3>1, <3>2, <3>3
           DEF Next, CallStep, Apply, Async, PickUp, DrainOne, WakeDrain, Finish
    <2>3. Outstanding = {}
      <3>1. Active = {} /\ operations = <<>>
        BY <1>1, <2>2, ActiveFacts DEF Nothing, IInv
      <3> QED
        BY <3>1 DEF Outstanding, Elements
    <2> QED
      BY <1>1, <2>1, <2>3 DEF IInv, Covered
  <1>2. IInv /\ [Next]_vars
          => [\A u \in Users : Returns(u, "all") => expected[u] \subseteq Elements(done)]_vars
    BY <1>1
  <1> QED
    BY <1>2, Invariance, PTL DEF Spec, WaitForAllCovers

\* A wait_for_one() that had something to wait for returns when it finds a
\* completion or an empty and idle queue: an operation has been executed by then.
THEOREM WaitForOneIsCovered == Spec => WaitForOneWaits
  <1>1. ASSUME IInv, Next, NEW u \in Users, Returns(u, "one")
        PROVE  Len(done) >= baseline[u]
    <2>1. u \in Threads /\ call[u] = "one" /\ call'[u] = "none"
      BY <1>1 DEF Returns, Threads
    <2>2. completed # 0 \/ Nothing
      <3>1. ASSUME NEW t \in Threads, WaitLoop(t) \/ AllLoop(t) \/ WakeOne(t)
            PROVE  completed # 0 \/ Nothing
        <4>1. t = u
          BY <1>1, <2>1, <3>1 DEF WaitLoop, AllLoop, WakeOne, Loop, Return, Block, IInv, TypeOK
        <4> QED
          BY <2>1, <3>1, <4>1 DEF WaitLoop, AllLoop, WakeOne, Loop, Block
      <3>2. ASSUME NEW t \in Threads, ApplyAsync(t) PROVE FALSE
        BY <1>1, <2>1, <3>2 DEF ApplyAsync, IInv, TypeOK
      <3>3. ASSUME NEW v \in Users, WaitForOne(v) \/ WaitForAll(v) PROVE FALSE
        BY <1>1, <2>1, <3>3 DEF WaitForOne, WaitForAll, IInv, TypeOK, Threads
      <3> QED
        BY <1>1, <2>1, <3>1, <3>2, <3>3
           DEF Next, CallStep, Apply, Async, PickUp, DrainOne, WakeDrain, Finish
    <2>3. Len(done) \in Nat /\ baseline[u] \in Nat
      BY <1>1, <2>1 DEF IInv, TypeOK
    <2> QED
      BY <1>1, <2>1, <2>2, <2>3 DEF IInv, Baselines
  <1>2. IInv /\ [Next]_vars => [\A u \in Users : Returns(u, "one") => Len(done) >= baseline[u]]_vars
    BY <1>1
  <1> QED
    BY <1>2, Invariance, PTL DEF Spec, WaitForOneWaits

=============================================================================
