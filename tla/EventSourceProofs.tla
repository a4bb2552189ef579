-------------------------- MODULE EventSourceProofs -------------------------
(***************************************************************************)
(* Proofs about EventSource: the safety of timers, delayed operations and  *)
(* notifiers for any number of users, workers, loops and calls.            *)
(***************************************************************************)
EXTENDS EventSource, FiniteSetTheorems, FunctionTheorems, TLAPS

USE DEF configVars, timerVars, notifierVars, cancelableVars, ownerVars, loopVars, execVars,
        historyVars

-----------------------------------------------------------------------------
(* The inductive invariant *)

Serving == {"call", "skip", "complete"}           \* the barrier is not completed yet
InScope == {"call", "complete", "leave", "signal"} \* within the cancelable_scope
Idle == \A l \in Loops : loop[l] = "idle"

\* Every change of the counter and of the cookie is one of the calls, and no loop
\* has a cookie of the future.
Counts ==
  /\ -calls <= counter /\ counter <= calls
  /\ cookie <= calls
  /\ \A l \in Loops : pass[l] <= cookie

\* The users of a source made by after() have no copy of it, and before its only
\* resume() nothing happens to it.
Creation ==
  /\ OneOff => owners = {}
  /\ OneOff /\ calls = 0 => selfOwned /\ Idle

\* A loop that waits for its barrier has handed it to one operation, which is
\* queued, executed or done; no other loop has.
Queued(l) == \E i \in 1..Len(queue) : queue[i] = l
Served(l) == \E w \in Workers : exec[w] \in Serving /\ serves[w] = l
Handover ==
  /\ \A i \in 1..Len(queue) : loop[queue[i]] = "wait"
  /\ \A i, j \in 1..Len(queue) : queue[i] = queue[j] => i = j
  /\ \A w \in Workers : exec[w] \in Serving => serves[w] \in Loops /\ loop[serves[w]] = "wait"
  /\ \A v, w \in Workers :
       exec[v] \in Serving /\ exec[w] \in Serving /\ serves[v] = serves[w] => v = w
  /\ \A l \in done : loop[l] = "wait"
  /\ \A l \in Loops : ~(Queued(l) /\ Served(l)) /\ ~(l \in done /\ (Queued(l) \/ Served(l)))

\* One operation at a time is within the scope; who disables the cancelable is
\* told when the last one has left it.
Scope ==
  /\ \A v, w \in Workers : exec[v] \in InScope /\ exec[w] \in InScope => v = w
  /\ active = "enabled" => \A w \in Workers : exec[w] \notin InScope
  /\ active = "running" => \A w \in Workers : exec[w] # "signal"
  /\ completed => active = "disabled" /\ \A w \in Workers : exec[w] \notin InScope

\* Workers cancel the source from inside of the handler and do not wait.  The first
\* to disable it waits for the handler, or has returned and left it quiet.
Cancelling ==
  /\ \A w \in Workers : cpc[w] # "idle" => exec[w] = "call" /\ cpc[w] = "disable"
  /\ returned # {} => active = "disabled"
  /\ first # None => active = "disabled" /\ (first \in returned \/ cpc[first] = "wait")
  /\ first \in returned => \A w \in Workers : exec[w] \notin InScope

\* What was freed had no reference left.
Lifetime == ~alive => owners = {} /\ ~selfOwned /\ Idle

\* The loop of a resumed notifier is the only one with the current cookie.
Current(l) == loop[l] # "idle" /\ pass[l] = cookie
Cookies ==
  program = "notifier" =>
    /\ counter > 0 => \E l \in Loops : Current(l)
    /\ counter <= 0 => \A l \in Loops : ~Current(l)
    /\ \A k, l \in Loops : Current(k) /\ Current(l) => k = l

IInv ==
  /\ TypeOK
  /\ Counts
  /\ Creation
  /\ Handover
  /\ Scope
  /\ Cancelling
  /\ Lifetime
  /\ Cookies

-----------------------------------------------------------------------------
(* Facts about the operations on the target queue *)

\* Queueing the operation of a loop keeps the others in their places.
LEMMA AppendFacts ==
  ASSUME NEW s \in Seq(Loops), NEW l \in Loops
  PROVE  /\ Append(s, l) \in Seq(Loops)
         /\ Len(s) \in Nat
         /\ Len(Append(s, l)) = Len(s) + 1
         /\ \A i \in 1..Len(s) : Append(s, l)[i] = s[i]
         /\ Append(s, l)[Len(s) + 1] = l
  OBVIOUS

\* Taking the first operation off the queue moves the others up.
LEMMA TailFacts ==
  ASSUME NEW s \in Seq(Loops), s # <<>>
  PROVE  /\ Tail(s) \in Seq(Loops)
         /\ Len(s) \in Nat \ {0}
         /\ Len(Tail(s)) = Len(s) - 1
         /\ \A i \in 1..Len(Tail(s)) : Tail(s)[i] = s[i + 1]
         /\ Head(s) = s[1]
         /\ Head(s) \in Loops
  OBVIOUS

\* No more operations are queued than there are loops if each loop has one.
LEMMA QueueBound ==
  ASSUME NEW s \in Seq(Loops), \A i, j \in 1..Len(s) : s[i] = s[j] => i = j
  PROVE  Len(s) <= Cardinality(Loops)
  <1>1. Len(s) \in Nat /\ s \in [1..Len(s) -> Loops]
    OBVIOUS
  <1>2. s \in Injection(1..Len(s), Loops)
    BY <1>1, Fun_IsInj
  <1>3. Cardinality(1..Len(s)) <= Cardinality(Loops)
    BY <1>2, FS_Injection, LoopsAssumption
  <1>4. Cardinality(1..Len(s)) = Len(s)
    BY <1>1, FS_Interval
  <1> QED
    BY <1>3, <1>4

-----------------------------------------------------------------------------
(* The invariant holds initially *)

\* A new source is suspended, enabled and owned.
LEMMA Initially == Init => IInv
  <1> SUFFICES ASSUME Init PROVE IInv
    OBVIOUS
  <1>1. Cardinality(Loops) \in Nat
    BY LoopsAssumption, FS_CardinalityType
  <1>2. TypeOK
    <2>1. /\ counter \in -MaxCalls..MaxCalls /\ cookie \in 0..MaxCalls /\ calls \in 0..MaxCalls
          /\ fired \in 0..2 /\ interval \in 0..1
          /\ period \in [Loops -> 0..1] /\ pass \in [Loops -> 0..MaxCalls]
      <3>1. interval \in {0, 1}
        BY Zenon DEF Init, Make, MakeTimer, MakeNotifier
      <3> QED
        BY <3>1, MaxCallsAssumption DEF Init, Suspended
    <2>2. queue \in Seq(Loops) /\ Len(queue) <= Cardinality(Loops)
      BY <1>1 DEF Init
    <2>3. serial \in BOOLEAN /\ selfOwned \in BOOLEAN /\ completed \in BOOLEAN /\ alive \in BOOLEAN
      <3>1. selfOwned \in BOOLEAN
        <4>1. selfOwned = (program \in {"after", "waitable_after"})
          BY Zenon DEF Init, Make, OneOff
        <4> QED
          BY ONLY <4>1, SMT
      <3>2. serial \in BOOLEAN
        BY DEF Init, Make, MakeTimer, MakeNotifier
      <3> QED
        BY <3>1, <3>2 DEF Init, Make, Suspended
    <2>4. /\ program \in Programs /\ active \in {"disabled", "enabled", "running"}
          /\ owners \subseteq Users /\ done \subseteq Loops
          /\ loop \in [Loops -> {"idle", "delay", "select", "queue", "wait", "sleep"}]
          /\ exec \in [Workers -> {"idle", "call", "skip", "complete", "leave", "signal"}]
          /\ serves \in [Workers -> Loops \cup {None}]
          /\ cpc \in [Callers -> {"idle", "disable", "wait"}]
          /\ first \in Callers \cup {None} /\ returned \subseteq Callers
      BY DEF Init, Make, Suspended
    <2> QED
      BY <2>1, <2>2, <2>3, <2>4 DEF TypeOK
  <1>3. Counts /\ Creation
    BY DEF Init, Make, Suspended, Counts, Creation, Idle
  <1>4. Handover
    BY DEF Init, Make, Suspended, Handover, Serving, Queued, Served
  <1>5. Scope /\ Lifetime /\ Cookies
    BY DEF Init, Make, Suspended, Scope, InScope, Lifetime, Cookies, Current, Idle
  <1>6. Cancelling
    BY DEF Init, Make, Suspended, Cancelling, Callers
  <1> QED
    BY <1>2, <1>3, <1>4, <1>5, <1>6 DEF IInv

-----------------------------------------------------------------------------
(* Every step keeps the parts of the invariant *)

\* A source does not change its kind.
LEMMA ProgramKept == Next => program' = program
  BY DEF Next, TimerCall, NotifierCall, SetInterval, TimerResume, TimerSuspend, TimerCancel,
         NotifierResume,
         NotifierSuspend, NotifierCancel, CancelStep, Disable, DisableWait, Drop,
         After, CreateAndDispatch, WaitableAfter, StartOneOff, LoopStep, TimerTest,
         NotifierTest, SelectReturns, QueueHandler,
         BarrierWait, ExecStep, Enter, FinishCall, Complete, Leave, Signal, ResetTimer

\* resume(), suspend() and cancel() are what changes the counter and the cookie; a
\* loop that is started copies the cookie.
LEMMA CountsKept == ASSUME TypeOK, Counts, Next PROVE Counts'
  <1> USE MaxCallsAssumption DEF TypeOK, Counts
  <1>1. ASSUME NEW c \in Callers, TimerResume(c) PROVE Counts'
    <2>1. CASE UNCHANGED loopVars
      BY <1>1, <2>1 DEF TimerResume, CountCall
    <2>2. CASE PostLoop
      BY <1>1, <2>2 DEF TimerResume, CountCall, PostLoop
    <2> QED
      BY <1>1, <2>1, <2>2 DEF TimerResume
  <1>2. ASSUME NEW c \in Callers, NotifierResume(c) PROVE Counts'
    <2>1. CASE UNCHANGED loopVars
      BY <1>2, <2>1 DEF NotifierResume, CountCall
    <2>2. CASE PostLoop
      BY <1>2, <2>2 DEF NotifierResume, CountCall, PostLoop
    <2> QED
      BY <1>2, <2>1, <2>2 DEF NotifierResume
  <1>3. ASSUME After PROVE Counts'
    BY <1>3 DEF After, CreateAndDispatch, WaitableAfter, StartOneOff, PostLoop
  <1>4. ASSUME NEW c \in Callers, TimerSuspend(c) \/ TimerCancel(c) PROVE Counts'
    BY <1>4 DEF TimerSuspend, TimerCancel, CountCall
  <1>5. ASSUME NEW c \in Callers, NotifierSuspend(c) PROVE Counts'
    BY <1>5 DEF NotifierSuspend, CountCall
  <1>6. ASSUME NEW c \in Callers, NotifierCancel(c) PROVE Counts'
    BY <1>6 DEF NotifierCancel, CountCall
  <1>7. ASSUME NEW c \in Callers, SetInterval(c) \/ CancelStep(c) PROVE Counts'
    BY <1>7 DEF SetInterval, CancelStep, Disable, DisableWait
  <1>8. ASSUME NEW u \in Users, Drop(u) PROVE Counts'
    BY <1>8 DEF Drop
  <1>9. ASSUME NEW l \in Loops, NEW res \in {-1, 0, 1}, LoopStep(l) \/ SelectReturns(l, res)
        PROVE  Counts'
    BY <1>9 DEF LoopStep, TimerTest, NotifierTest, SelectReturns, QueueHandler, BarrierWait
  <1>10. ASSUME NEW w \in Workers, ExecStep(w) PROVE Counts'
    <2>1. CASE TimerCancel(w)
      BY <1>4, <2>1 DEF Callers
    <2> QED
      BY <1>10, <2>1 DEF ExecStep, Enter, FinishCall, Complete, Leave, Signal, ResetTimer
  <1> QED
    BY <1>1, <1>2, <1>3, <1>4, <1>5, <1>6, <1>7, <1>8, <1>9, <1>10 DEF Next, TimerCall, NotifierCall

\* A worker that is inside of the handler serves a loop that waits for it, so the
\* source was resumed before.
LEMMA InsideIsServing ==
  ASSUME TypeOK, Handover, NEW w \in Workers, exec[w] = "call"
  PROVE  serves[w] \in Loops /\ loop[serves[w]] = "wait"
  BY DEF TypeOK, Handover, Serving

\* Owners are only ever dropped, and a source made by after() is touched by nobody
\* before its timer is started.
LEMMA CreationKept == ASSUME TypeOK, Counts, Creation, Handover, Next PROVE Creation'
  <1> USE MaxCallsAssumption DEF TypeOK, Creation, Idle
  <1>1. OneOff' = OneOff
    BY ProgramKept DEF OneOff
  <1>2. ASSUME NEW c \in Callers,
               \/ SetInterval(c) \/ TimerResume(c) \/ TimerSuspend(c) \/ TimerCancel(c)
               \/ NotifierResume(c) \/ NotifierSuspend(c) \/ NotifierCancel(c) \/ CancelStep(c)
        PROVE  Creation'
    BY <1>1, <1>2 DEF SetInterval, TimerResume, TimerSuspend, TimerCancel, NotifierResume,
           NotifierSuspend, NotifierCancel, CancelStep, Disable, DisableWait, CountCall, OneOff
  <1>3. ASSUME NEW u \in Users, Drop(u) PROVE Creation'
    BY <1>1, <1>3 DEF Drop
  <1>4. ASSUME After PROVE Creation'
    BY <1>1, <1>4 DEF After, CreateAndDispatch, WaitableAfter, StartOneOff, OneOff
  <1>5. ASSUME NEW l \in Loops, NEW res \in {-1, 0, 1}, LoopStep(l) \/ SelectReturns(l, res)
        PROVE  Creation'
    BY <1>1, <1>5 DEF LoopStep, TimerTest, NotifierTest, SelectReturns, QueueHandler, BarrierWait
  <1>6. ASSUME NEW w \in Workers, ExecStep(w) PROVE Creation'
    <2>1. CASE TimerCancel(w)
      BY <1>2, <2>1 DEF Callers
    <2>2. CASE ResetTimer(w)
      <3>1. ~Idle
        BY <2>2, InsideIsServing DEF ResetTimer
      <3> QED
        BY <1>1, <2>2, <3>1 DEF ResetTimer
    <2> QED
      BY <1>1, <1>6, <2>1, <2>2 DEF ExecStep, Enter, FinishCall, Complete, Leave, Signal
  <1> QED
    BY <1>2, <1>3, <1>4, <1>5, <1>6 DEF Next, TimerCall, NotifierCall

\* A loop that waits goes on waiting and no operation is handed over.
HandoverSteady ==
  /\ queue' = queue /\ done' = done
  /\ \A w \in Workers : exec'[w] \in Serving <=> exec[w] \in Serving
  /\ \A w \in Workers : exec[w] \in Serving => serves'[w] = serves[w]
  /\ \A l \in Loops : loop[l] = "wait" => loop'[l] = "wait"

LEMMA HandoverSteadyKept == ASSUME TypeOK, Handover, HandoverSteady PROVE Handover'
  <1>1. \A l \in Loops : (Queued(l)' <=> Queued(l)) /\ (Served(l)' <=> Served(l))
    BY DEF HandoverSteady, Queued, Served
  <1>2. \A i \in 1..Len(queue) : queue[i] \in Loops
    BY DEF TypeOK
  <1> QED
    BY <1>1, <1>2 DEF TypeOK, Handover, HandoverSteady

\* A loop queues its operation once, a worker takes it off, serves it and completes
\* the barrier: the operation is passed on and never doubled.
LEMMA HandoverKept == ASSUME TypeOK, Handover, Next PROVE Handover'
  <1>0. /\ \A i \in 1..Len(queue) : queue[i] \in Loops
        /\ Len(queue) \in Nat
    BY DEF TypeOK
  <1>1. ASSUME NEW l \in Loops, QueueHandler(l) PROVE Handover'
    <2> DEFINE n == Len(queue)
    <2>1. /\ loop' = [loop EXCEPT ![l] = "wait"] /\ loop[l] = "queue"
          /\ queue' = Append(queue, l)
          /\ exec' = exec /\ serves' = serves /\ done' = done
      BY <1>1 DEF QueueHandler, LoopGoto
    <2>2. /\ Len(queue') = n + 1
          /\ \A i \in 1..n : queue'[i] = queue[i]
          /\ queue'[n + 1] = l
      BY <2>1, AppendFacts DEF TypeOK
    <2>3. ~Queued(l) /\ ~Served(l) /\ l \notin done
      BY <2>1 DEF Queued, Served, Handover
    <2>4. \A i \in 1..Len(queue') : i \in 1..n \/ i = n + 1
      BY <1>0, <2>2
    <2>5. \A k \in Loops : Queued(k)' => Queued(k) \/ k = l
      BY <1>0, <2>2, <2>4 DEF Queued
    <2>6. \A k \in Loops : Served(k)' <=> Served(k)
      BY <2>1 DEF Served
    <2>7. \A i \in 1..Len(queue') : loop'[queue'[i]] = "wait"
      BY <1>0, <2>1, <2>2, <2>4 DEF TypeOK, Handover
    <2>8. \A i, j \in 1..Len(queue') : queue'[i] = queue'[j] => i = j
      BY <1>0, <2>2, <2>3, <2>4 DEF Handover, Queued
    <2>9. \A w \in Workers : exec'[w] \in Serving => serves'[w] \in Loops /\ loop'[serves'[w]] = "wait"
      BY <2>1 DEF TypeOK, Handover
    <2>10. \A k \in done' : loop'[k] = "wait"
      BY <2>1 DEF TypeOK, Handover
    <2>11. \A k \in Loops : ~(Queued(k)' /\ Served(k)') /\ ~(k \in done' /\ (Queued(k)' \/ Served(k)'))
      BY <2>1, <2>3, <2>5, <2>6 DEF Handover
    <2> QED
      BY <2>1, <2>7, <2>8, <2>9, <2>10, <2>11 DEF Handover
  <1>2. ASSUME NEW w \in Workers, Enter(w) PROVE Handover'
    <2> DEFINE m == Len(queue')
               h == queue[1]
    <2>1. /\ queue # <<>> /\ queue' = Tail(queue)
          /\ serves' = [serves EXCEPT ![w] = Head(queue)]
          /\ exec[w] = "idle"
          /\ exec' = [exec EXCEPT ![w] = "call"] \/ exec' = [exec EXCEPT ![w] = "skip"]
          /\ loop' = loop /\ done' = done
      BY <1>2 DEF Enter, Take, ExecGoto
    <2>2. /\ m \in Nat /\ Len(queue) = m + 1 /\ h \in Loops /\ Head(queue) = h
          /\ \A i \in 1..m : queue'[i] = queue[i + 1]
      BY <2>1, TailFacts DEF TypeOK
    <2>3. \A i \in 1..m : i + 1 \in 1..Len(queue) /\ queue'[i] \in Loops /\ queue'[i] # h
      <3> TAKE i \in 1..m
      <3>1. i + 1 \in 1..Len(queue) /\ 1 \in 1..Len(queue) /\ i + 1 # 1
        BY <2>2
      <3> QED
        BY <1>0, <2>2, <3>1 DEF Handover
    <2>4. Queued(h) /\ loop[h] = "wait"
      BY <2>2 DEF Queued, Handover
    <2>5. ~Served(h) /\ h \notin done
      BY <2>2, <2>4 DEF Handover
    <2>6. \A k \in Loops : Queued(k)' => Queued(k) /\ k # h
      BY <2>2, <2>3 DEF Queued
    <2>7. \A v \in Workers :
            exec'[v] \in Serving =>
              \/ v # w /\ exec[v] \in Serving /\ serves'[v] = serves[v]
              \/ v = w /\ serves'[v] = h
      BY <2>1, <2>2 DEF TypeOK, Serving
    <2>8. \A k \in Loops : Served(k)' => Served(k) \/ k = h
      BY <2>7 DEF Served
    <2>9. \A i \in 1..m : loop'[queue'[i]] = "wait"
      BY <2>1, <2>2, <2>3 DEF Handover
    <2>10. \A i, j \in 1..m : queue'[i] = queue'[j] => i = j
      <3> SUFFICES ASSUME NEW i \in 1..m, NEW j \in 1..m, queue'[i] = queue'[j] PROVE i = j
        OBVIOUS
      <3>1. i + 1 = j + 1
        BY <2>2, <2>3 DEF Handover
      <3> QED
        BY <2>2, <3>1
    <2>11. \A v \in Workers : exec'[v] \in Serving => serves'[v] \in Loops /\ loop'[serves'[v]] = "wait"
      BY <2>1, <2>2, <2>4, <2>7 DEF Handover
    <2>12. \A u, v \in Workers :
             exec'[u] \in Serving /\ exec'[v] \in Serving /\ serves'[u] = serves'[v] => u = v
      BY <2>5, <2>7 DEF Handover, Served
    <2>13. \A k \in Loops : ~(Queued(k)' /\ Served(k)') /\ ~(k \in done' /\ (Queued(k)' \/ Served(k)'))
      BY <2>1, <2>5, <2>6, <2>8 DEF Handover
    <2> QED
      BY <2>1, <2>9, <2>10, <2>11, <2>12, <2>13 DEF Handover
  <1>3. ASSUME NEW w \in Workers, Complete(w) PROVE Handover'
    <2>1. /\ exec[w] \in Serving /\ exec' = [exec EXCEPT ![w] = exec'[w]] /\ exec'[w] \notin Serving
          /\ serves' = [serves EXCEPT ![w] = None]
          /\ done' = done \cup {serves[w]} /\ queue' = queue /\ loop' = loop
      BY <1>3 DEF Complete, ExecGoto, TypeOK, Serving
    <2>2. serves[w] \in Loops /\ loop[serves[w]] = "wait" /\ Served(serves[w])
      BY <2>1 DEF Handover, Served
    <2>3. \A v \in Workers : exec'[v] \in Serving => v # w /\ exec[v] \in Serving /\ serves'[v] = serves[v]
      BY <2>1 DEF TypeOK
    <2>4. \A k \in Loops : (Queued(k)' <=> Queued(k)) /\ (Served(k)' => Served(k) /\ k # serves[w])
      BY <2>1, <2>2, <2>3 DEF Queued, Served, Handover
    <2>5. \A k \in Loops : ~(Queued(k)' /\ Served(k)') /\ ~(k \in done' /\ (Queued(k)' \/ Served(k)'))
      BY <2>1, <2>2, <2>4 DEF Handover
    <2> QED
      BY <2>1, <2>2, <2>3, <2>5 DEF Handover
  <1>4. ASSUME NEW l \in Loops, BarrierWait(l) PROVE Handover'
    <2>1. /\ l \in done /\ done' = done \ {l} /\ queue' = queue /\ exec' = exec /\ serves' = serves
          /\ \A k \in Loops : k # l => loop'[k] = loop[k]
      BY <1>4 DEF BarrierWait, LoopGoto, EndLoop, TypeOK
    <2>2. ~Queued(l) /\ ~Served(l)
      BY <2>1 DEF Handover
    <2>3. \A k \in Loops : (Queued(k)' <=> Queued(k)) /\ (Served(k)' <=> Served(k))
      BY <2>1 DEF Queued, Served
    <2>4. \A i \in 1..Len(queue) : queue[i] # l
      BY <2>2 DEF Queued
    <2>5. \A w \in Workers : exec[w] \in Serving => serves[w] # l
      BY <2>2 DEF Served
    <2> QED
      BY <1>0, <2>1, <2>3, <2>4, <2>5 DEF Handover, TypeOK
  <1>5. ASSUME NEW c \in Callers,
               \/ SetInterval(c) \/ TimerResume(c) \/ TimerSuspend(c) \/ TimerCancel(c)
               \/ NotifierResume(c) \/ NotifierSuspend(c) \/ NotifierCancel(c) \/ CancelStep(c)
        PROVE  HandoverSteady
    BY <1>5 DEF HandoverSteady, SetInterval, TimerResume, TimerSuspend, TimerCancel, NotifierResume,
           NotifierSuspend, NotifierCancel, CancelStep, Disable, DisableWait, PostLoop, LoopGoto,
           TypeOK
  <1>6. ASSUME After \/ \E u \in Users : Drop(u) PROVE HandoverSteady
    BY <1>6 DEF HandoverSteady, After, CreateAndDispatch, WaitableAfter, StartOneOff,
       PostLoop, LoopGoto, Drop, TypeOK
  <1>7. ASSUME NEW l \in Loops, NEW res \in {-1, 0, 1},
               TimerTest(l) \/ NotifierTest(l) \/ SelectReturns(l, res)
        PROVE  HandoverSteady
    BY <1>7 DEF HandoverSteady, TimerTest, NotifierTest, SelectReturns, EndLoop, LoopGoto, TypeOK
  <1>8. ASSUME NEW w \in Workers, FinishCall(w) \/ Leave(w) \/ Signal(w) \/ ResetTimer(w)
        PROVE  HandoverSteady
    BY <1>8 DEF HandoverSteady, FinishCall, Leave, Signal, ResetTimer, ExecGoto, Serving, TypeOK
  <1>9. ASSUME NEW w \in Workers, TimerCancel(w) PROVE HandoverSteady
    BY <1>5, <1>9 DEF Callers
  <1> QED
    BY <1>1, <1>2, <1>3, <1>4, <1>5, <1>6, <1>7, <1>8, <1>9, HandoverSteadyKept
       DEF Next, TimerCall, NotifierCall, LoopStep, ExecStep

\* Who enters the scope found it enabled, so nobody was within; who leaves it when
\* it was disabled completes the barrier after that.
LEMMA ScopeKept == ASSUME TypeOK, Scope, Next PROVE Scope'
  <1> USE DEF TypeOK, Scope, InScope, ExecGoto
  <1>1. ASSUME NEW c \in Callers, Disable(c) PROVE Scope'
    BY <1>1 DEF Disable
  <1>2. ASSUME NEW w \in Workers, Enter(w) PROVE Scope'
    <2>1. CASE active = "enabled"
      BY <1>2, <2>1 DEF Enter, Take
    <2>2. CASE active # "enabled"
      <3>1. exec' = [exec EXCEPT ![w] = "skip"] /\ active' = active /\ completed' = completed
        BY <1>2, <2>2 DEF Enter
      <3>2. \A v \in Workers : exec'[v] = exec[v] \/ exec'[v] = "skip"
        BY <3>1
      <3> HIDE DEF TypeOK
      <3> QED
        BY <3>1, <3>2
    <2> QED
      BY <2>1, <2>2
  <1>3. ASSUME NEW w \in Workers, FinishCall(w) PROVE Scope'
    BY <1>3 DEF FinishCall
  <1>4. ASSUME NEW w \in Workers, Complete(w) PROVE Scope'
    BY <1>4 DEF Complete
  <1>5. ASSUME NEW w \in Workers, Leave(w) PROVE Scope'
    <2>1. CASE active = "running"
      BY <1>5, <2>1 DEF Leave
    <2>2. CASE active # "running"
      <3>1. /\ exec' = [exec EXCEPT ![w] = "signal"] /\ active' = active /\ completed' = completed
            /\ exec[w] = "leave"
        BY <1>5, <2>2 DEF Leave
      <3>2. \A v \in Workers : exec'[v] \in InScope => exec[v] \in InScope
        BY <3>1
      <3> HIDE DEF TypeOK, InScope
      <3> QED
        BY <2>2, <3>1, <3>2
    <2> QED
      BY <2>1, <2>2
  <1>6. ASSUME NEW w \in Workers, Signal(w) PROVE Scope'
    BY <1>6 DEF Signal
  <1>7. ASSUME NEW c \in Callers,
               \/ SetInterval(c) \/ TimerResume(c) \/ TimerSuspend(c) \/ TimerCancel(c)
               \/ NotifierResume(c) \/ NotifierSuspend(c) \/ NotifierCancel(c) \/ DisableWait(c)
        PROVE  Scope'
    BY <1>7 DEF SetInterval, TimerResume, TimerSuspend, TimerCancel, NotifierResume,
           NotifierSuspend, NotifierCancel, DisableWait
  <1>8. ASSUME After \/ \E u \in Users : Drop(u) PROVE Scope'
    BY <1>8 DEF After, CreateAndDispatch, WaitableAfter, StartOneOff, Drop
  <1>9. ASSUME NEW l \in Loops, NEW res \in {-1, 0, 1}, LoopStep(l) \/ SelectReturns(l, res)
        PROVE  Scope'
    BY <1>9 DEF LoopStep, TimerTest, NotifierTest, SelectReturns, QueueHandler, BarrierWait
  <1>10. ASSUME NEW w \in Workers, ResetTimer(w) PROVE Scope'
    BY <1>10 DEF ResetTimer
  <1>11. ASSUME NEW w \in Workers, TimerCancel(w) PROVE Scope'
    BY <1>7, <1>11 DEF Callers
  <1> QED
    BY <1>1, <1>2, <1>3, <1>4, <1>5, <1>6, <1>7, <1>8, <1>9, <1>10, <1>11
       DEF Next, TimerCall, NotifierCall, ExecStep, CancelStep

\* The first cancel() from outside either finds nobody within the scope or waits
\* for the barrier; nobody enters a scope that was disabled.
LEMMA CancellingKept == ASSUME TypeOK, Scope, Cancelling, Next PROVE Cancelling'
  <1> USE SourceThreadsAssumption DEF TypeOK, Cancelling, Callers
  <1>1. ASSUME NEW c \in Callers, TimerCancel(c) \/ NotifierCancel(c) PROVE Cancelling'
    <2>1. c \in Workers => exec[c] = "call"
      BY <1>1 DEF TimerCancel, NotifierCancel, MayCall, Inside
    <2>2. /\ cpc[c] = "idle" /\ cpc' = [cpc EXCEPT ![c] = "disable"]
          /\ exec' = exec /\ active' = active /\ first' = first /\ returned' = returned
      BY <1>1 DEF TimerCancel, NotifierCancel, MayCall, Goto
    <2> QED
      BY <2>1, <2>2
  <1>2. ASSUME NEW c \in Callers, Disable(c) PROVE Cancelling'
    <2>1. Inside(c) <=> c \in Workers
      BY <1>2 DEF Disable, Inside
    <2>2. exec' = exec /\ active' = "disabled" /\ cpc[c] = "disable"
      BY <1>2 DEF Disable
    <2>3. CASE active = "running" /\ c \notin Workers
      BY <1>2, <2>1, <2>2, <2>3 DEF Disable, Goto
    <2>4. CASE active = "enabled" /\ c \notin Workers
      BY <1>2, <2>1, <2>2, <2>4 DEF Disable, CancelReturns, Goto, Scope
    <2>5. CASE active = "disabled" /\ c \notin Workers
      BY <1>2, <2>1, <2>2, <2>5 DEF Disable, CancelReturns, Goto
    <2>6. CASE c \in Workers
      BY <1>2, <2>1, <2>2, <2>6 DEF Disable, CancelReturns, Goto
    <2> QED
      BY <2>3, <2>4, <2>5, <2>6
  <1>3. ASSUME NEW c \in Callers, DisableWait(c) PROVE Cancelling'
    <2>1. c \notin Workers /\ ~Inside(c)
      BY <1>3 DEF DisableWait, Inside
    <2>2. /\ \A w \in Workers : exec[w] \notin InScope
          /\ active = "disabled"
      BY <1>3 DEF DisableWait, Scope
    <2> QED
      BY <1>3, <2>1, <2>2 DEF DisableWait, CancelReturns, Goto
  <1>4. ASSUME NEW w \in Workers, Enter(w) PROVE Cancelling'
    BY <1>4 DEF Enter, Take, ExecGoto, InScope
  <1>5. ASSUME NEW w \in Workers, FinishCall(w) PROVE Cancelling'
    BY <1>5 DEF FinishCall, ExecGoto, InScope
  <1>6. ASSUME NEW w \in Workers, Complete(w) PROVE Cancelling'
    BY <1>6 DEF Complete, ExecGoto, InScope
  <1>7. ASSUME NEW w \in Workers, Leave(w) \/ Signal(w) PROVE Cancelling'
    BY <1>7 DEF Leave, Signal, ExecGoto, InScope
  <1>8. ASSUME NEW c \in Callers,
               \/ SetInterval(c) \/ TimerResume(c) \/ TimerSuspend(c)
               \/ NotifierResume(c) \/ NotifierSuspend(c)
        PROVE  Cancelling'
    BY <1>8 DEF SetInterval, TimerResume, TimerSuspend, NotifierResume, NotifierSuspend
  <1>9. ASSUME After \/ \E u \in Users : Drop(u) PROVE Cancelling'
    BY <1>9 DEF After, CreateAndDispatch, WaitableAfter, StartOneOff, Drop
  <1>10. ASSUME NEW l \in Loops, NEW res \in {-1, 0, 1}, LoopStep(l) \/ SelectReturns(l, res)
         PROVE  Cancelling'
    BY <1>10 DEF LoopStep, TimerTest, NotifierTest, SelectReturns, QueueHandler, BarrierWait
  <1>11. ASSUME NEW w \in Workers, ResetTimer(w) PROVE Cancelling'
    BY <1>11 DEF ResetTimer
  <1> QED
    BY <1>1, <1>2, <1>3, <1>4, <1>5, <1>6, <1>7, <1>8, <1>9, <1>10, <1>11
       DEF Next, TimerCall, NotifierCall, ExecStep, CancelStep

\* Who starts a loop has a reference to the source: an owner, a loop that waits for
\* the handler, or the handler itself.
LEMMA LifetimeKept == ASSUME TypeOK, Creation, Handover, Lifetime, Next PROVE Lifetime'
  <1> USE DEF TypeOK, Lifetime, Idle
  <1>1. ASSUME NEW c \in Callers, MayCall(c) PROVE alive
    BY <1>1, InsideIsServing DEF MayCall, Inside
  <1>2. ASSUME NEW c \in Callers,
               \/ SetInterval(c) \/ TimerResume(c) \/ TimerSuspend(c) \/ TimerCancel(c)
               \/ NotifierResume(c) \/ NotifierSuspend(c) \/ NotifierCancel(c)
               \/ CancelStep(c)
        PROVE  Lifetime'
    <2>1. CASE TimerResume(c)
      BY <1>1, <2>1 DEF TimerResume
    <2>2. CASE NotifierResume(c)
      BY <1>1, <2>2 DEF NotifierResume
    <2> QED
      BY <1>2, <2>1, <2>2 DEF SetInterval, TimerSuspend, TimerCancel, NotifierSuspend,
         NotifierCancel, CancelStep, Disable, DisableWait
  <1>3. ASSUME NEW u \in Users, Drop(u) PROVE Lifetime'
    BY <1>3 DEF Drop, Keep, Referenced
  <1>4. ASSUME After PROVE Lifetime'
    BY <1>4 DEF After, CreateAndDispatch, WaitableAfter, StartOneOff, OneOff, Creation
  <1>5. ASSUME NEW l \in Loops, NEW res \in {-1, 0, 1}, LoopStep(l) \/ SelectReturns(l, res)
        PROVE  Lifetime'
    <2>1. alive /\ owners' = owners /\ selfOwned' = selfOwned
      BY <1>5 DEF LoopStep, TimerTest, NotifierTest, SelectReturns, QueueHandler, BarrierWait
    <2>2. alive' = alive \/ Keep(owners, selfOwned, loop')
      BY <1>5 DEF LoopStep, TimerTest, NotifierTest, SelectReturns, QueueHandler, BarrierWait,
                  EndLoop
    <2> QED
      BY <2>1, <2>2 DEF Keep, Referenced
  <1>6. ASSUME NEW w \in Workers, ExecStep(w) PROVE Lifetime'
    <2>1. CASE TimerCancel(w)
      BY <1>2, <2>1 DEF Callers
    <2>2. CASE ResetTimer(w)
      BY <2>2 DEF ResetTimer, Keep, Referenced
    <2> QED
      BY <1>6, <2>1, <2>2 DEF ExecStep, Enter, FinishCall, Complete, Leave, Signal
  <1> QED
    BY <1>2, <1>3, <1>4, <1>5, <1>6 DEF Next, TimerCall, NotifierCall

\* A resume() that starts a loop finds no loop with the current cookie; a new cookie
\* leaves all loops behind; a loop with the current cookie does not end.
LEMMA CookiesKept == ASSUME TypeOK, Counts, Cookies, Next PROVE Cookies'
  <1> SUFFICES ASSUME program = "notifier" PROVE Cookies'
    BY ProgramKept DEF Cookies
  <1>1. ASSUME counter' = counter, \A l \in Loops : Current(l)' <=> Current(l) PROVE Cookies'
    BY <1>1, ProgramKept DEF Cookies
  <1>2. ASSUME cookie' = cookie + 1, counter' \in {0, -1}, loop' = loop, pass' = pass PROVE Cookies'
    <2>1. \A l \in Loops : ~Current(l)'
      BY <1>2 DEF Current, TypeOK, Counts
    <2> QED
      BY <1>2, <2>1 DEF Cookies
  <1>3. ASSUME NEW c \in Callers, NotifierResume(c) PROVE Cookies'
    <2>1. CASE counter = 0
      <3>1. PICK k \in Loops : /\ loop[k] = "idle"
                               /\ loop' = [loop EXCEPT ![k] = "delay"]
                               /\ pass' = [pass EXCEPT ![k] = cookie]
        BY <1>3, <2>1 DEF NotifierResume, PostLoop, LoopGoto
      <3>2. counter' = 1 /\ cookie' = cookie
        BY <1>3, <2>1 DEF NotifierResume
      <3>3. \A l \in Loops : ~Current(l)
        BY <2>1 DEF Cookies
      <3>4. \A l \in Loops : Current(l)' <=> l = k
        BY <3>1, <3>2, <3>3 DEF Current, TypeOK
      <3> QED
        BY <3>2, <3>4 DEF Cookies
    <2>2. CASE counter # 0
      <3>1. /\ \A l \in Loops : Current(l)' <=> Current(l)
            /\ counter' > 0 <=> counter > 0
            /\ counter' <= 0 <=> counter <= 0
        BY <1>3, <2>2, MaxCallsAssumption DEF NotifierResume, Current, TypeOK
      <3> QED
        BY <3>1 DEF Cookies
    <2> QED
      BY <2>1, <2>2
  <1>4. ASSUME NEW c \in Callers, NotifierSuspend(c) PROVE Cookies'
    <2>1. CASE counter = 1
      BY <1>2, <1>4, <2>1 DEF NotifierSuspend
    <2>2. CASE counter # 1
      <3>1. /\ \A l \in Loops : Current(l)' <=> Current(l)
            /\ counter' > 0 <=> counter > 0
            /\ counter' <= 0 <=> counter <= 0
        BY <1>4, <2>2, MaxCallsAssumption DEF NotifierSuspend, Current, TypeOK
      <3> QED
        BY <3>1 DEF Cookies
    <2> QED
      BY <2>1, <2>2
  <1>5. ASSUME NEW c \in Callers, NotifierCancel(c) PROVE Cookies'
    BY <1>2, <1>5 DEF NotifierCancel
  <1>6. ASSUME NEW c \in Callers,
               \/ SetInterval(c) \/ TimerResume(c) \/ TimerSuspend(c) \/ TimerCancel(c)
               \/ CancelStep(c)
        PROVE  Cookies'
    <2>1. CancelStep(c)
      BY <1>6 DEF SetInterval, TimerResume, TimerSuspend, TimerCancel
    <2> QED
      BY <1>1, <2>1 DEF CancelStep, Disable, DisableWait, Current
  <1>7. ASSUME After \/ \E u \in Users : Drop(u) PROVE Cookies'
    BY <1>1, <1>7 DEF After, CreateAndDispatch, WaitableAfter, StartOneOff, OneOff, Drop, Current
  <1>8. ASSUME NEW l \in Loops, NEW res \in {-1, 0, 1}, LoopStep(l) \/ SelectReturns(l, res)
        PROVE  Cookies'
    <2>1. counter' = counter /\ cookie' = cookie /\ pass' = pass
      BY <1>8 DEF LoopStep, TimerTest, NotifierTest, SelectReturns, QueueHandler, BarrierWait
    <2>2. \A k \in Loops : k # l => loop'[k] = loop[k]
      BY <1>8 DEF LoopStep, TimerTest, NotifierTest, SelectReturns, QueueHandler, BarrierWait,
                  EndLoop, LoopGoto, TypeOK
    <2>3. loop[l] # "idle" /\ (loop'[l] # "idle" \/ pass[l] # cookie)
      <3>1. CASE NotifierTest(l)
        BY <3>1 DEF NotifierTest, LoopGoto, TypeOK
      <3>2. CASE SelectReturns(l, res) \/ SelectReturns(l, 0)
        BY <3>2 DEF SelectReturns, EBADF, LoopGoto, TypeOK
      <3>3. CASE QueueHandler(l) \/ BarrierWait(l)
        BY <3>3 DEF QueueHandler, BarrierWait, LoopGoto, TypeOK
      <3> QED
        BY <1>8, <3>1, <3>2, <3>3 DEF LoopStep, TimerTest
    <2> QED
      BY <1>1, <2>1, <2>2, <2>3 DEF Current
  <1>9. ASSUME NEW w \in Workers, ExecStep(w) PROVE Cookies'
    BY <1>1, <1>9 DEF ExecStep, Enter, FinishCall, Complete, Leave, Signal, ResetTimer,
                      TimerCancel, Current
  <1> QED
    BY <1>3, <1>4, <1>5, <1>6, <1>7, <1>8, <1>9 DEF Next, TimerCall, NotifierCall

\* The counters stay within the number of calls, and the queue within that of the
\* loops.
LEMMA TypeKept == ASSUME IInv, Next PROVE TypeOK'
  <1> DEFINE Numbers == /\ calls' \in 0..MaxCalls
                        /\ counter' \in -MaxCalls..MaxCalls /\ cookie' \in 0..MaxCalls
                        /\ interval' \in 0..1 /\ fired' \in 0..2
             Flags == /\ serial' \in BOOLEAN /\ completed' \in BOOLEAN
                      /\ selfOwned' \in BOOLEAN /\ alive' \in BOOLEAN
                      /\ active' \in {"disabled", "enabled", "running"}
             Sets == /\ owners' \subseteq Users /\ done' \subseteq Loops
                     /\ first' \in Callers \cup {None} /\ returned' \subseteq Callers
             LoopState ==
               /\ loop' \in [Loops -> {"idle", "delay", "select", "queue", "wait", "sleep"}]
               /\ period' \in [Loops -> 0..1] /\ pass' \in [Loops -> 0..MaxCalls]
             ThreadState ==
               /\ queue' \in Seq(Loops)
               /\ exec' \in [Workers -> {"idle", "call", "skip", "complete", "leave", "signal"}]
               /\ serves' \in [Workers -> Loops \cup {None}]
               /\ cpc' \in [Callers -> {"idle", "disable", "wait"}]
             Rest == Numbers /\ Flags /\ Sets /\ LoopState /\ ThreadState
  <1> USE MaxCallsAssumption DEF IInv, TypeOK
  <1>1. ASSUME PostLoop PROVE LoopState
    BY <1>1 DEF PostLoop, LoopGoto
  <1>2. ASSUME NEW c \in Callers,
               \/ SetInterval(c) \/ TimerSuspend(c) \/ TimerCancel(c)
               \/ NotifierSuspend(c) \/ NotifierCancel(c)
        PROVE  Rest
    <2>1. Numbers
      <3>1. CASE SetInterval(c)
        BY <3>1 DEF SetInterval
      <3>2. CASE TimerSuspend(c) \/ TimerCancel(c)
        BY <3>2 DEF TimerSuspend, TimerCancel, CountCall, Counts
      <3>3. CASE NotifierSuspend(c)
        BY <3>3 DEF NotifierSuspend, CountCall, Counts
      <3>4. CASE NotifierCancel(c)
        BY <3>4 DEF NotifierCancel, CountCall, Counts
      <3> QED
        BY <1>2, <3>1, <3>2, <3>3, <3>4
    <2>2. Flags /\ Sets
      BY <1>2 DEF SetInterval, TimerSuspend, TimerCancel, NotifierSuspend, NotifierCancel
    <2>3. LoopState /\ ThreadState
      BY <1>2 DEF SetInterval, TimerSuspend, TimerCancel, NotifierSuspend, NotifierCancel, Goto
    <2> QED
      BY <2>1, <2>2, <2>3
  <1>3. ASSUME NEW c \in Callers, TimerResume(c) \/ NotifierResume(c) PROVE Rest
    <2>1. Numbers
      BY <1>3 DEF TimerResume, NotifierResume, CountCall, Counts
    <2>2. Flags /\ Sets /\ ThreadState
      BY <1>3 DEF TimerResume, NotifierResume
    <2>3. LoopState
      BY <1>1, <1>3 DEF TimerResume, NotifierResume
    <2> QED
      BY <2>1, <2>2, <2>3
  <1>4. ASSUME After PROVE Rest
    <2>1. Numbers /\ Flags /\ Sets /\ ThreadState
      BY <1>4 DEF After, CreateAndDispatch, WaitableAfter, StartOneOff, OneOff
    <2> QED
      BY <1>1, <1>4, <2>1 DEF After, CreateAndDispatch, WaitableAfter, StartOneOff, OneOff
  <1>5. ASSUME NEW c \in Callers, Disable(c) \/ DisableWait(c) PROVE Rest
    <2>1. Numbers /\ Flags /\ LoopState
      BY <1>5 DEF Disable, DisableWait
    <2>2. Sets
      BY <1>5 DEF Disable, DisableWait, CancelReturns
    <2>3. ThreadState
      BY <1>5 DEF Disable, DisableWait, CancelReturns, Goto
    <2> QED
      BY <2>1, <2>2, <2>3
  <1>6. ASSUME NEW u \in Users, Drop(u) PROVE Rest
    <2>1. alive' \in BOOLEAN
      BY <1>6 DEF Drop, Keep
    <2> QED
      BY <1>6, <2>1 DEF Drop
  <1>7. ASSUME NEW l \in Loops, NEW res \in {-1, 0, 1}, LoopStep(l) \/ SelectReturns(l, res)
        PROVE  Rest
    <2>1. alive' \in BOOLEAN
      BY <1>7 DEF LoopStep, TimerTest, NotifierTest, SelectReturns, QueueHandler, BarrierWait,
                  EndLoop, Keep
    <2>2. Numbers /\ Flags /\ Sets
      BY <1>7, <2>1 DEF LoopStep, TimerTest, NotifierTest, SelectReturns, QueueHandler, BarrierWait
    <2>3. LoopState
      BY <1>7 DEF LoopStep, TimerTest, NotifierTest, SelectReturns, QueueHandler, BarrierWait,
                  EndLoop, LoopGoto
    <2>4. ThreadState
      <3>1. CASE QueueHandler(l)
        <4>1. Append(queue, l) \in Seq(Loops)
          BY AppendFacts
        <4> QED
          BY <3>1, <4>1 DEF QueueHandler
      <3> QED
        BY <1>7, <3>1 DEF LoopStep, TimerTest, NotifierTest, SelectReturns, BarrierWait
    <2> QED
      BY <2>2, <2>3, <2>4
  <1>8. ASSUME NEW w \in Workers, Enter(w) PROVE Rest
    <2>1. Numbers /\ Flags /\ Sets /\ LoopState
      BY <1>8 DEF Enter
    <2>2. ThreadState
      <3>1. queue # <<>> /\ queue' = Tail(queue) /\ serves' = [serves EXCEPT ![w] = Head(queue)]
        BY <1>8 DEF Enter, Take
      <3>2. Tail(queue) \in Seq(Loops) /\ Head(queue) \in Loops
        BY <3>1, TailFacts
      <3>3. queue' \in Seq(Loops) /\ serves' \in [Workers -> Loops \cup {None}]
        BY <3>1, <3>2
      <3>4. exec' \in [Workers -> {"idle", "call", "skip", "complete", "leave", "signal"}]
        BY <1>8 DEF Enter, ExecGoto
      <3>5. cpc' = cpc
        BY <1>8 DEF Enter
      <3> QED
        BY <3>3, <3>4, <3>5
    <2> QED
      BY <2>1, <2>2
  <1>9. ASSUME NEW w \in Workers, FinishCall(w) \/ Leave(w) \/ Signal(w) PROVE Rest
    <2>1. Numbers /\ Sets /\ LoopState
      BY <1>9 DEF FinishCall, Leave, Signal
    <2>2. completed' \in BOOLEAN
      BY <1>9, Zenon DEF FinishCall, Leave, Signal
    <2>3. Flags
      BY <1>9, <2>2 DEF FinishCall, Leave, Signal
    <2>4. ThreadState
      BY <1>9 DEF FinishCall, Leave, Signal, ExecGoto
    <2> QED
      BY <2>1, <2>3, <2>4
  <1>10. ASSUME NEW w \in Workers, Complete(w) PROVE Rest
    <2>1. serves[w] \in Loops
      BY <1>10 DEF Complete, Handover, Serving
    <2>2. Numbers /\ Flags /\ Sets /\ LoopState
      BY <1>10, <2>1 DEF Complete
    <2>3. ThreadState
      BY <1>10 DEF Complete, ExecGoto
    <2> QED
      BY <2>2, <2>3
  <1>11. ASSUME NEW w \in Workers, ResetTimer(w) PROVE Rest
    <2>1. alive' \in BOOLEAN
      BY <1>11 DEF ResetTimer, Keep
    <2>2. selfOwned' \in BOOLEAN
      BY <1>11, Zenon DEF ResetTimer
    <2> QED
      BY <1>11, <2>1, <2>2 DEF ResetTimer
  <1>12. ASSUME NEW w \in Workers, TimerCancel(w) PROVE Rest
    BY <1>2, <1>12 DEF Callers
  <1>13. Rest
    BY <1>2, <1>3, <1>4, <1>5, <1>6, <1>7, <1>8, <1>9, <1>10, <1>11, <1>12
       DEF Next, TimerCall, NotifierCall, ExecStep, CancelStep
  <1>14. Len(queue') <= Cardinality(Loops)
    BY <1>13, HandoverKept, QueueBound DEF Handover
  <1>15. program' \in Programs
    BY ProgramKept
  <1> QED
    BY <1>13, <1>14, <1>15

-----------------------------------------------------------------------------
(* The theorems *)

\* The invariant is inductive: the threads, loops and operations of a source keep
\* it from one access to the shared state to the next.
THEOREM Invariance == Spec => []IInv
  <1>1. Init => IInv
    BY Initially
  <1>2. IInv /\ [Next]_vars => IInv'
    <2> SUFFICES ASSUME IInv, [Next]_vars PROVE IInv'
      OBVIOUS
    <2>1. CASE Next
      BY <2>1, CountsKept, CreationKept, HandoverKept, ScopeKept, CancellingKept, LifetimeKept,
         CookiesKept, TypeKept DEF IInv
    <2>2. CASE UNCHANGED vars
      BY <2>2 DEF vars, IInv, TypeOK, Counts, Creation, OneOff, Idle, Handover, Queued, Served,
                  Scope, Cancelling, Lifetime, Cookies, Current
    <2> QED
      BY <2>1, <2>2
  <1> QED
    BY <1>1, <1>2, PTL DEF Spec

\* Whatever the threads that use a source do, its counters, states and lists keep
\* their types and bounds.
THEOREM TypeCorrectness == Spec => []TypeOK
  BY Invariance, PTL DEF IInv

\* A set whose members are all the same has at most one.
LEMMA AtMostOne ==
  ASSUME NEW S, \A x, y \in S : x = y
  PROVE  Cardinality(S) \in {0, 1}
  <1>1. CASE S = {}
    BY <1>1, FS_EmptySet
  <1>2. CASE S # {}
    <2>1. PICK x \in S : S = {x}
      BY <1>2
    <2> QED
      BY <2>1, FS_Singleton
  <1> QED
    BY <1>1, <1>2

\* The cancelable keeps the calls of the handler apart, for any number of loops that
\* queue it and of threads that execute it.
THEOREM ExclusiveCalls == Spec => []CallsAreExclusive
  <1>1. IInv => CallsAreExclusive
    <2> SUFFICES ASSUME IInv PROVE CallsAreExclusive
      OBVIOUS
    <2> DEFINE S == {w \in Workers : exec[w] = "call"}
    <2>1. \A v, w \in S : v = w
      BY DEF IInv, Scope, InScope
    <2>2. Cardinality(S) \in {0, 1}
      BY <2>1, AtMostOne
    <2> QED
      BY <2>2 DEF CallsAreExclusive
  <1> QED
    BY <1>1, Invariance, PTL

\* After the cancel() that disabled the source has returned, no thread is inside of
\* the handler.
THEOREM QuietAfterCancel == Spec => []FirstCancelIsQuiet
  <1>1. IInv => FirstCancelIsQuiet
    BY DEF IInv, Cancelling, InScope, FirstCancelIsQuiet
  <1> QED
    BY <1>1, Invariance, PTL

\* The loop that waits for the barrier keeps the source for the operation it queued.
THEOREM SourceLifetime == Spec => []SourceOutlivesCalls
  <1>1. IInv => SourceOutlivesCalls
    <2> SUFFICES ASSUME IInv, queue # <<>> \/ \E w \in Workers : exec[w] \in {"call", "complete"}
                 PROVE  alive
      BY DEF SourceOutlivesCalls
    <2>1. \E l \in Loops : loop[l] = "wait"
      <3>1. CASE queue # <<>>
        <4>1. 1 \in 1..Len(queue) /\ queue[1] \in Loops
          BY <3>1, TailFacts DEF IInv, TypeOK
        <4> QED
          BY <4>1 DEF IInv, Handover
      <3>2. CASE \E w \in Workers : exec[w] \in {"call", "complete"}
        BY <3>2 DEF IInv, Handover, Serving
      <3> QED
        BY <3>1, <3>2
    <2> QED
      BY <2>1 DEF IInv, Lifetime, Idle, TypeOK
  <1> QED
    BY <1>1, Invariance, PTL

\* Suspending and resuming a notifier leaves one loop in charge of the socket, or
\* none, however many loops of former cookies have not noticed yet.
THEOREM CurrentLoop == Spec => []OneCurrentLoop
  <1>1. IInv => OneCurrentLoop
    <2> SUFFICES ASSUME IInv, program = "notifier"
                 PROVE  Cardinality({l \in Loops : Current(l)}) = IF counter > 0 THEN 1 ELSE 0
      BY DEF OneCurrentLoop, Current
    <2>1. counter \in Int
      BY MaxCallsAssumption DEF IInv, TypeOK
    <2>2. CASE counter > 0
      <3>1. PICK l \in Loops : Current(l)
        BY <2>2 DEF IInv, Cookies
      <3>2. {k \in Loops : Current(k)} = {l}
        BY <3>1 DEF IInv, Cookies
      <3> QED
        BY <2>2, <3>2, FS_Singleton
    <2>3. CASE counter <= 0
      <3>1. {k \in Loops : Current(k)} = {}
        BY <2>3 DEF IInv, Cookies
      <3> QED
        BY <2>1, <2>3, <3>1, FS_EmptySet
    <2> QED
      BY <2>1, <2>2, <2>3
  <1> QED
    BY <1>1, Invariance, PTL

=============================================================================
