----------------------------- MODULE EventSource ----------------------------
(***************************************************************************)
(* The event sources of the naive backend: timer_impl, with the            *)
(* delayed_operation that queue::after() makes of it or the handler of     *)
(* waitable_queue::after(), and socket_notifier_impl.  Both borrow a       *)
(* thread of the pool for a loop that queues the handler, waits for it on  *)
(* a barrier of its own stack and goes round; both count resume() and      *)
(* suspend(), and both call the handler within a cancelable.               *)
(*                                                                         *)
(* A critical section of m_CS is one action: none of them blocks.  Between *)
(* them, each access to the cancelable and each step around a barrier is   *)
(* an action of its own.  Barriers are events (see OneShotEvent).  Sleeps  *)
(* take no time but may last as long as others please; select() returns    *)
(* after its timeout at the latest.                                        *)
(***************************************************************************)
EXTENDS Integers, Sequences, FiniteSets

CONSTANTS
  Users,        \* threads that own a copy of the source
  Workers,      \* threads that execute what is put on the target queue
  Loops,        \* bound: pool threads that run a loop of the source at a time
  None,
  Programs,     \* kinds of sources to consider
  MaxCalls      \* bound: how often resume(), suspend() and cancel() are called

ASSUME SourceThreadsAssumption == Users \cap Workers = {} /\ None \notin Users \cup Workers
ASSUME LoopsAssumption == IsFiniteSet(Loops) /\ None \notin Loops
ASSUME ProgramsAssumption ==
  Programs \subseteq {"timer", "after", "waitable_after", "notifier"}
ASSUME MaxCallsAssumption == MaxCalls \in Nat \ {0}

Callers == Users \cup Workers

EBADF == 9      \* what the loop of a notifier compares the result of select() with

VARIABLES
  program,      \* the kind of source
  serial,       \* is the target queue a serial one
  interval,     \* m_interval: 0 for a singleshot timer
  counter,      \* m_running or m_resume_counter
  cookie,       \* m_worker_cookie
  active,       \* m_cancelable.m_active
  completed,    \* m_cancelable.m_barrier
  owners,       \* users that own a copy of the source
  selfOwned,    \* the handler owns the timer: delayed_operation::m_timer
  alive,        \* the implementation has not been freed
  loop,         \* where a loop is
  period,       \* its copy of the interval
  pass,         \* its copy of the cookie
  done,         \* loops whose barrier is completed
  queue,        \* loops whose handler operation is on the target queue
  exec, serves, \* where a worker is in a handler operation, and for which loop
  cpc,          \* where a thread is in cancel()
  calls,        \* how often the source was resumed, suspended or cancelled
  fired,        \* history: how often the delayed operation was executed
  first,        \* history: who disabled the source
  returned      \* history: who returned from cancel(), from outside of the handler

configVars == <<program, serial, interval>>
timerVars == <<interval, counter>>
notifierVars == <<counter, cookie>>
cancelableVars == <<active, completed>>
ownerVars == <<owners, selfOwned, alive>>
loopVars == <<loop, period, pass>>
execVars == <<exec, serves>>
historyVars == <<fired, first, returned>>
vars == <<program, serial, timerVars, cookie, cancelableVars, ownerVars, loopVars, done, queue, execVars, cpc,
          calls, historyVars>>

TypeOK ==
  /\ program \in Programs /\ serial \in BOOLEAN /\ interval \in 0..1
  /\ counter \in -MaxCalls..MaxCalls /\ cookie \in 0..MaxCalls
  /\ active \in {"disabled", "enabled", "running"} /\ completed \in BOOLEAN
  /\ owners \subseteq Users /\ selfOwned \in BOOLEAN /\ alive \in BOOLEAN
  /\ loop \in [Loops -> {"idle", "delay", "select", "queue", "wait", "sleep"}]
  /\ period \in [Loops -> 0..1] /\ pass \in [Loops -> 0..MaxCalls]
  /\ done \subseteq Loops
  /\ queue \in Seq(Loops) /\ Len(queue) <= Cardinality(Loops)
  /\ exec \in [Workers -> {"idle", "call", "skip", "complete", "leave", "signal"}]
  /\ serves \in [Workers -> Loops \cup {None}]
  /\ cpc \in [Callers -> {"idle", "disable", "wait"}]
  /\ calls \in 0..MaxCalls
  /\ fired \in 0..2
  /\ first \in Callers \cup {None} /\ returned \subseteq Callers

\* A singleshot timer that is owned by its own handler only: made by after().
OneOff == program \in {"after", "waitable_after"}

\* A timer is made for a target queue and may get an interval.  after() makes singleshot
\* ones; the operations of a waitable_queue are executed one at a time.
MakeTimer ==
  /\ serial \in (IF program = "waitable_after" THEN {TRUE} ELSE BOOLEAN)
  /\ interval \in (IF program = "timer" THEN {0, 1} ELSE {0})

\* A socket_notifier has a target queue only.
MakeNotifier == serial \in BOOLEAN /\ interval = 0

\* The user makes a source and hands copies of it around; the timer of after() is its
\* own handler's.
Make ==
  /\ program \in Programs
  /\ IF program = "notifier" THEN MakeNotifier ELSE MakeTimer
  /\ owners = (IF OneOff THEN {} ELSE Users)
  /\ selfOwned = OneOff
  /\ alive = TRUE

\* The implementation is constructed suspended.
Suspended ==
  /\ counter = 0
  /\ cookie = 0
  /\ active = "enabled"
  /\ completed = FALSE

Init ==
  /\ Make
  /\ Suspended
  /\ loop = [l \in Loops |-> "idle"]
  /\ period = [l \in Loops |-> 0]
  /\ pass = [l \in Loops |-> 0]
  /\ done = {}
  /\ queue = <<>>
  /\ exec = [w \in Workers |-> "idle"]
  /\ serves = [w \in Workers |-> None]
  /\ cpc = [c \in Callers |-> "idle"]
  /\ calls = 0
  /\ fired = 0
  /\ first = None
  /\ returned = {}

LoopGoto(l, s) == loop' = [loop EXCEPT ![l] = s]
Goto(c, s) == cpc' = [cpc EXCEPT ![c] = s]
ExecGoto(w, s) == exec' = [exec EXCEPT ![w] = s]

\* The thread is inside of the handler: the cancelable is in its current_c.
Inside(c) == c \in Workers /\ exec[c] = "call"

\* Who may use the source: its owners, and its handler.
MayCall(c) ==
  /\ cpc[c] = "idle"
  /\ c \in owners \/ (Inside(c) /\ ~OneOff)

\* Mutant: a loop that has captured a plain this.
ReferencedByOwners(os, self, lp) == os # {} \/ self

\* The owners os, the handler (self) or a loop of lp hold a shared_ptr to the
\* implementation.
Referenced(os, self, lp) == os # {} \/ self \/ \E l \in Loops : lp[l] # "idle"

\* Giving up the last reference frees the implementation.
Keep(os, self, lp) == alive' = (alive /\ Referenced(os, self, lp))

-----------------------------------------------------------------------------
(* Using a timer *)

\* The loop is put on the threadpool, with its own reference.
PostLoop ==
  \E l \in Loops :
    /\ loop[l] = "idle"
    /\ LoopGoto(l, "delay")
    /\ pass' = [pass EXCEPT ![l] = cookie]
    /\ UNCHANGED period

CountCall == calls < MaxCalls /\ calls' = calls + 1

\* interval(), handler() and target_queue() replace what the next round copies.
SetInterval(c) ==
  /\ program = "timer"
  /\ MayCall(c)
  /\ interval' = 1 - interval
  /\ UNCHANGED <<program, serial, notifierVars, cancelableVars, ownerVars, loopVars, done, queue, execVars,
                 cpc, calls, historyVars>>

\* resume() of a timer: only the first of several starts a loop.
TimerResume(c) ==
  /\ program = "timer"
  /\ MayCall(c)
  /\ CountCall
  /\ counter' = counter + 1
  /\ IF counter + 1 = 1 THEN PostLoop ELSE UNCHANGED loopVars
  /\ UNCHANGED <<configVars, cookie, cancelableVars, ownerVars, done, queue, execVars, cpc,
                 historyVars>>

\* Mutant: a suspend() that counts twice.
TimerSuspendTwice(c) ==
  /\ program = "timer"
  /\ MayCall(c)
  /\ CountCall
  /\ counter' = counter - 2
  /\ UNCHANGED <<configVars, cookie, cancelableVars, ownerVars, loopVars, done, queue, execVars,
                 cpc, historyVars>>

\* suspend() of a timer counts without a look at the sign.
TimerSuspend(c) ==
  /\ program = "timer"
  /\ MayCall(c)
  /\ CountCall
  /\ counter' = counter - 1
  /\ UNCHANGED <<configVars, cookie, cancelableVars, ownerVars, loopVars, done, queue, execVars,
                 cpc, historyVars>>

\* after() starts the timer it has made ...
StartOneOff ==
  /\ calls = 0
  /\ calls' = 1
  /\ counter' = 1
  /\ PostLoop
  /\ UNCHANGED <<configVars, cookie, cancelableVars, ownerVars, done, queue, execVars, cpc,
                 historyVars>>

\* ... with a delayed_operation that owns it as its handler ...
CreateAndDispatch == program = "after" /\ StartOneOff

\* ... or, on a waitable_queue, with a handler that has captured it.
WaitableAfter == program = "waitable_after" /\ StartOneOff

After == CreateAndDispatch \/ WaitableAfter

-----------------------------------------------------------------------------
(* Using a notifier *)

\* resume() of a notifier has no effect once it was cancelled.
NotifierResume(c) ==
  /\ program = "notifier"
  /\ MayCall(c)
  /\ CountCall
  /\ counter' = IF counter < 0 THEN counter ELSE counter + 1
  /\ IF counter = 0 THEN PostLoop ELSE UNCHANGED loopVars
  /\ UNCHANGED <<configVars, cookie, cancelableVars, ownerVars, done, queue, execVars, cpc,
                 historyVars>>

\* Mutant: the loop that was started before is not told to end.
NotifierSuspendKeepsCookie(c) ==
  /\ program = "notifier"
  /\ MayCall(c)
  /\ CountCall
  /\ counter' = IF counter > 0 THEN counter - 1 ELSE counter
  /\ UNCHANGED <<configVars, cookie, cancelableVars, ownerVars, loopVars, done, queue, execVars,
                 cpc, historyVars>>

\* suspend() of a notifier: with a new cookie the running loop has to end.
NotifierSuspend(c) ==
  /\ program = "notifier"
  /\ MayCall(c)
  /\ CountCall
  /\ counter' = IF counter > 0 THEN counter - 1 ELSE counter
  /\ cookie' = IF counter = 1 THEN cookie + 1 ELSE cookie
  /\ UNCHANGED <<configVars, cancelableVars, ownerVars, loopVars, done, queue, execVars, cpc,
                 historyVars>>

-----------------------------------------------------------------------------
(* Cancelling, and giving up, either of them *)

\* cancel() of a timer stops the loops ...
TimerCancel(c) ==
  /\ program # "notifier"
  /\ MayCall(c) \/ (Inside(c) /\ cpc[c] = "idle" /\ selfOwned /\ active = "running")
  /\ CountCall
  /\ counter' = 0
  /\ Goto(c, "disable")
  /\ UNCHANGED <<configVars, cookie, cancelableVars, ownerVars, loopVars, done, queue, execVars,
                 historyVars>>

\* ... and so does cancel() of a notifier, for good ...
NotifierCancel(c) ==
  /\ program = "notifier"
  /\ MayCall(c)
  /\ CountCall
  /\ counter' = -1
  /\ cookie' = cookie + 1
  /\ Goto(c, "disable")
  /\ UNCHANGED <<configVars, cancelableVars, ownerVars, loopVars, done, queue, execVars,
                 historyVars>>

CancelReturns(c) ==
  /\ Goto(c, "idle")
  /\ returned' = IF Inside(c) THEN returned ELSE returned \cup {c}

\* Mutant: a running handler is not waited for.
DisableNoWait(c) ==
  /\ cpc[c] = "disable"
  /\ active' = "disabled"
  /\ first' = IF active # "disabled" /\ ~Inside(c) THEN c ELSE first
  /\ CancelReturns(c)
  /\ UNCHANGED <<configVars, notifierVars, completed, ownerVars, loopVars, done, queue, execVars,
                 calls, fired>>

\* ... then disable the handler, and wait for it unless they are inside of it.
Disable(c) ==
  /\ cpc[c] = "disable"
  /\ active' = "disabled"
  /\ first' = IF active # "disabled" /\ ~Inside(c) THEN c ELSE first
  /\ IF active = "running" /\ ~Inside(c)
       THEN Goto(c, "wait") /\ UNCHANGED returned
       ELSE CancelReturns(c)
  /\ UNCHANGED <<configVars, notifierVars, completed, ownerVars, loopVars, done, queue, execVars,
                 calls, fired>>

DisableWait(c) ==
  /\ cpc[c] = "wait"
  /\ completed
  /\ CancelReturns(c)
  /\ UNCHANGED <<configVars, notifierVars, cancelableVars, ownerVars, loopVars, done, queue,
                 execVars, calls, fired, first>>

\* A user gives its copy of the source up.
Drop(u) ==
  /\ u \in owners
  /\ cpc[u] = "idle"
  /\ owners' = owners \ {u}
  /\ Keep(owners', selfOwned, loop)
  /\ UNCHANGED <<configVars, notifierVars, cancelableVars, selfOwned, loopVars, done, queue,
                 execVars, cpc, calls, historyVars>>

\* Mutant: the delayed operation keeps its timer.
ResetTimerForgotten(w) == FALSE

\* The delayed operation gives its cancelled timer up: m_timer.reset().
ResetTimer(w) ==
  /\ program = "after"
  /\ exec[w] = "call" /\ cpc[w] = "idle"
  /\ selfOwned /\ active = "disabled"
  /\ selfOwned' = FALSE
  /\ Keep(owners, FALSE, loop)
  /\ UNCHANGED <<configVars, notifierVars, cancelableVars, owners, loopVars, done, queue, execVars,
                 cpc, calls, historyVars>>

-----------------------------------------------------------------------------
(* The loops *)

\* A loop ends and gives its reference up.
EndLoop(l) == LoopGoto(l, "idle") /\ Keep(owners, selfOwned, loop')

\* Mutant: a timer that was resumed once is not running yet.
TimerTestOffByOne(l) ==
  /\ program # "notifier"
  /\ loop[l] \in {"delay", "sleep"}
  /\ IF counter > 1
       THEN LoopGoto(l, "queue") /\ period' = [period EXCEPT ![l] = interval] /\ UNCHANGED alive
       ELSE EndLoop(l) /\ UNCHANGED period
  /\ UNCHANGED <<configVars, notifierVars, cancelableVars, owners, selfOwned, pass, done, queue,
                 execVars, cpc, calls, historyVars>>

\* A timer has slept for the delay or the interval: it looks whether it is still
\* wanted and copies what it needs for the next round.
TimerTest(l) ==
  /\ program # "notifier"
  /\ loop[l] \in {"delay", "sleep"}
  /\ IF counter > 0
       THEN LoopGoto(l, "queue") /\ period' = [period EXCEPT ![l] = interval] /\ UNCHANGED alive
       ELSE EndLoop(l) /\ UNCHANGED period
  /\ UNCHANGED <<configVars, notifierVars, cancelableVars, owners, selfOwned, pass, done, queue,
                 execVars, cpc, calls, historyVars>>

\* A notifier goes into select() as long as its cookie is the current one.
NotifierTest(l) ==
  /\ program = "notifier"
  /\ loop[l] \in {"delay", "sleep"}
  /\ IF pass[l] = cookie
       THEN LoopGoto(l, "select") /\ UNCHANGED alive
       ELSE EndLoop(l)
  /\ UNCHANGED <<configVars, notifierVars, cancelableVars, owners, selfOwned, period, pass, done,
                 queue, execVars, cpc, calls, historyVars>>

\* select() returns the number of ready sockets, 0 after its timeout or -1, also
\* for a socket that was closed: the comparison with EBADF is never true.
SelectReturns(l, res) ==
  /\ loop[l] = "select"
  /\ \/ /\ pass[l] # cookie \/ res = EBADF
        /\ EndLoop(l)
     \/ /\ pass[l] = cookie /\ res # EBADF
        /\ IF res > 0 THEN LoopGoto(l, "queue") ELSE UNCHANGED loop
        /\ UNCHANGED alive
  /\ UNCHANGED <<configVars, notifierVars, cancelableVars, owners, selfOwned, period, pass, done,
                 queue, execVars, cpc, calls, historyVars>>

\* The handler operation is queued; it refers to the cancelable and to a barrier
\* on the stack of the loop.
QueueHandler(l) ==
  /\ loop[l] = "queue"
  /\ queue' = Append(queue, l)
  /\ LoopGoto(l, "wait")
  /\ UNCHANGED <<configVars, notifierVars, cancelableVars, ownerVars, period, pass, done, execVars,
                 cpc, calls, historyVars>>

\* barrier.wait() returns: a singleshot timer ends, others go round.
BarrierWait(l) ==
  /\ loop[l] = "wait"
  /\ l \in done
  /\ done' = done \ {l}
  /\ IF program = "notifier" \/ period[l] > 0
       THEN LoopGoto(l, "sleep") /\ UNCHANGED alive
       ELSE EndLoop(l)
  /\ UNCHANGED <<configVars, notifierVars, cancelableVars, owners, selfOwned, period, pass, queue,
                 execVars, cpc, calls, historyVars>>

-----------------------------------------------------------------------------
(* The handler operation on the target queue *)

\* The target queue hands the next operation to a thread.
Take(w) ==
  /\ exec[w] = "idle"
  /\ queue # <<>>
  /\ serial => \A v \in Workers : exec[v] = "idle"
  /\ queue' = Tail(queue)
  /\ serves' = [serves EXCEPT ![w] = Head(queue)]

\* Mutant: two calls of the handler at a time.
EnterTwice(w) ==
  /\ Take(w)
  /\ IF active # "disabled"
       THEN active' = "running" /\ ExecGoto(w, "call")
            /\ fired' = IF OneOff /\ fired < 2 THEN fired + 1 ELSE fired
       ELSE ExecGoto(w, "skip") /\ UNCHANGED <<active, fired>>
  /\ UNCHANGED <<configVars, notifierVars, completed, ownerVars, loopVars, done, cpc, calls, first,
                 returned>>

\* The scope is entered if the source is enabled and the handler not running.
Enter(w) ==
  /\ Take(w)
  /\ IF active = "enabled"
       THEN active' = "running" /\ ExecGoto(w, "call")
            /\ fired' = IF OneOff /\ fired < 2 THEN fired + 1 ELSE fired
       ELSE ExecGoto(w, "skip") /\ UNCHANGED <<active, fired>>
  /\ UNCHANGED <<configVars, notifierVars, completed, ownerVars, loopVars, done, cpc, calls, first,
                 returned>>

\* The handler returns; a delayed operation has given its timer up by then, that of
\* a waitable_queue has cancelled it, but keeps it.
FinishCall(w) ==
  /\ exec[w] = "call" /\ cpc[w] = "idle"
  /\ selfOwned => program = "waitable_after" /\ active = "disabled"
  /\ ExecGoto(w, "complete")
  /\ UNCHANGED <<configVars, notifierVars, cancelableVars, ownerVars, loopVars, done, queue, serves,
                 cpc, calls, historyVars>>

\* barrier.complete(), still within the scope ...
Complete(w) ==
  /\ exec[w] \in {"complete", "skip"}
  /\ done' = done \cup {serves[w]}
  /\ serves' = [serves EXCEPT ![w] = None]
  /\ ExecGoto(w, IF exec[w] = "skip" THEN "idle" ELSE "leave")
  /\ UNCHANGED <<configVars, notifierVars, cancelableVars, ownerVars, loopVars, queue, cpc, calls,
                 historyVars>>

\* ... which is left at the very end ...
Leave(w) ==
  /\ exec[w] = "leave"
  /\ IF active = "running"
       THEN active' = "enabled" /\ ExecGoto(w, "idle")
       ELSE ExecGoto(w, "signal") /\ UNCHANGED active
  /\ UNCHANGED <<configVars, notifierVars, completed, ownerVars, loopVars, done, queue, serves, cpc,
                 calls, historyVars>>

\* ... and wakes who cancelled the source meanwhile.
Signal(w) ==
  /\ exec[w] = "signal"
  /\ completed' = TRUE
  /\ ExecGoto(w, "idle")
  /\ UNCHANGED <<configVars, notifierVars, active, ownerVars, loopVars, done, queue, serves, cpc,
                 calls, historyVars>>

-----------------------------------------------------------------------------
LoopStep(l) ==
  TimerTest(l) \/ NotifierTest(l) \/ SelectReturns(l, 0) \/ QueueHandler(l) \/ BarrierWait(l)

ExecStep(w) ==
  \/ Enter(w) \/ FinishCall(w) \/ Complete(w) \/ Leave(w) \/ Signal(w)
  \/ ResetTimer(w) \/ (selfOwned /\ TimerCancel(w))

CancelStep(c) == Disable(c) \/ DisableWait(c)

\* The calls a timer and a socket_notifier forward to their implementation.
TimerCall(c) == SetInterval(c) \/ TimerResume(c) \/ TimerSuspend(c) \/ TimerCancel(c)

NotifierCall(c) == NotifierResume(c) \/ NotifierSuspend(c) \/ NotifierCancel(c)

Next ==
  \/ \E c \in Callers : TimerCall(c) \/ NotifierCall(c) \/ CancelStep(c)
  \/ \E u \in Users : Drop(u)
  \/ After
  \/ \E l \in Loops : LoopStep(l) \/ \E res \in {-1, 1} : SelectReturns(l, res)
  \/ \E w \in Workers : ExecStep(w)

Spec == Init /\ [][Next]_vars

\* The pool and the target queue execute what they are given, sleeps and select()
\* end, threads that can run do and handlers return.  Nobody has to use the source
\* and no socket has to become ready.
Fairness ==
  /\ WF_vars(After)
  /\ \A l \in Loops : WF_vars(LoopStep(l))
  /\ \A w \in Workers : WF_vars(ExecStep(w))
  /\ \A c \in Callers : WF_vars(CancelStep(c))

FairSpec == Spec /\ Fairness

-----------------------------------------------------------------------------
(* Properties *)

\* The handler is never called by two threads at a time, also when a suspend()
\* and a resume() have left two loops behind and the target queue is parallel.
CallsAreExclusive == Cardinality({w \in Workers : exec[w] = "call"}) <= 1

\* Once the cancel() that disabled the source has returned the handler is neither
\* being called nor called again, whatever loops, queued operations and later
\* resume() calls there are.
FirstCancelIsQuiet == first \in returned => \A w \in Workers : exec[w] # "call"

\* What the handler operation refers to exists until it completes its barrier,
\* although it has no reference of its own: the loop that waits for it has.
SourceOutlivesCalls ==
  queue # <<>> \/ (\E w \in Workers : exec[w] \in {"call", "complete"}) => alive

\* "cancel and release the timer hence breaking the circular ownership and ensuring
\* a clean destruction sequence": the cancelable is not touched after it was freed.
NoUseAfterFree == \A w \in Workers : exec[w] \in {"leave", "signal"} => alive

\* A resumed notifier has exactly one loop with the current cookie, one that is
\* suspended or cancelled none, whatever loops of former cookies are still around.
OneCurrentLoop ==
  program = "notifier" =>
    Cardinality({l \in Loops : loop[l] # "idle" /\ pass[l] = cookie})
      = IF counter > 0 THEN 1 ELSE 0

\* A stopped source that nobody owns is freed, though it owns itself through its
\* loops and its handler, unless the handler resumes it once more; a delayed
\* operation has then been executed once.  The timer of waitable_queue::after() is
\* never freed: its handler captures it and nothing breaks the cycle.
AbandonedSourceIsFreed ==
  owners = {} /\ counter <= 0 /\ program # "waitable_after" ~>
    counter > 0 \/ (~alive /\ (program = "after" => fired = 1))

\* On a serial queue every loop a timer starts comes to call the handler, unless
\* the timer is stopped before: the call is not taken for one that overlaps.
EveryResumeFires ==
  \A l \in Loops :
    serial /\ program # "notifier" /\ loop[l] = "delay" ~>
      counter <= 0 \/ active = "disabled" \/ \E w \in Workers : exec[w] = "call" /\ serves[w] = l
=============================================================================
