------------------------------- MODULE Signals ------------------------------
(***************************************************************************)
(* A signal with one connection: the signal_p and its mutex, the           *)
(* connection_handler with its cancelable and its count of pending calls,  *)
(* and the invocations an emit puts on the handler's queue.  Connections   *)
(* of one signal share nothing but the mutex.  The connection is used as a *)
(* copy per thread, or is the one scoped_connection of a connection_manager*)
(* or of a signal_barrier, whose handler ends it.  Chained signals         *)
(* (_synchronous_update) are left out.                                     *)
(*                                                                         *)
(* An action is one access to an atomic, or the acquisition of m_CS with   *)
(* what follows up to the next access.  The barrier of the cancelable is   *)
(* the event it implements (see OneShotEvent): one bit.                    *)
(***************************************************************************)
EXTENDS Integers, Sequences, FiniteSets

CONSTANTS
  Users,        \* threads that use the signal from outside of its handler
  Workers,      \* threads that execute what is queued for the handler
  None,
  SerialQueue,  \* is the handler's queue a serial one; that of a barrier never is
  Modes,        \* notification modes to consider
  Usages,       \* who uses the signal: does its owner skip or destroy it, does the handler
                \* make calls, is the connection that of a manager or of a barrier
  MaxEmits,     \* bound: how often the signal is emitted
  MaxSkips      \* bound: how often skip_all() is called

ASSUME SignalThreadsAssumption == Users \cap Workers = {} /\ None \notin Users \cup Workers
ASSUME SignalWorkersAssumption == IsFiniteSet(Workers)
ASSUME ModesAssumption == Modes \subseteq {"single_updates", "batch_updates"}
ASSUME UsagesAssumption ==
  Usages \subseteq (SUBSET {"owner", "handler"})
                   \cup {{"manager"}, {"manager", "handler"}, {"barrier"}}
ASSUME BoundsAssumption == MaxEmits \in Nat \ {0} /\ MaxSkips \in Nat

Threads == Users \cup Workers

VARIABLES
  mode, usage,  \* how the handler was connected; how the program uses the signal
  lock,         \* owner of signal_p::m_CS
  connected,    \* the handler is in m_handlers
  copies,       \* owners of a copy of the connection: threads, or who has the scoped one
  managing,     \* owner of connection_manager::m_CS
  active,       \* cancelable::m_active
  completed,    \* cancelable::m_barrier
  pending,      \* connection_handler::m_pending
  before,       \* emit's local pending
  queue,        \* invocations on the handler's queue, as numbers of emits
  cpc,          \* where a thread is in a call on the signal
  exec, inv,    \* where a worker is in an invocation, and which one
  destroyed,    \* ~signal_p has started
  barrier,      \* the signal_barrier: "none", "built", "destroyed" (without its m_values) or "freed"
  value,        \* m_values of it: the emit they are from
  raised,       \* its m_barrier
  waited,       \* its wait() has returned true
  emits, skips, \* how often the signal was emitted, and skip_all() called
  unseen,       \* history: emits without a call of the handler behind them
  first,        \* history: the thread that disabled the running or idle handler
  returned      \* history: threads that disabled it from outside and returned

setup == <<mode, usage>>
managerVars == <<managing>>
connectionVars == <<copies, managerVars>>
signalVars == <<lock, connected, connectionVars, destroyed, skips>>
barrierVars == <<barrier, value, raised, waited>>
handlerVars == <<active, completed, pending>>
workerVars == <<exec, inv>>
emitVars == <<before, queue, emits>>
historyVars == <<unseen, first, returned>>
vars == <<setup, signalVars, barrierVars, handlerVars, workerVars, emitVars, historyVars, cpc>>

TypeOK ==
  /\ mode \in Modes /\ usage \in Usages
  /\ lock \in Threads \cup {None}
  /\ connected \in BOOLEAN
  /\ copies \subseteq Threads /\ managing \in Threads \cup {None}
  /\ barrier \in {"none", "built", "destroyed", "freed"}
  /\ value \in 0..MaxEmits /\ raised \in BOOLEAN /\ waited \in BOOLEAN
  /\ active \in {"disabled", "enabled", "running"}
  /\ completed \in BOOLEAN
  /\ pending \in Nat /\ before \in Nat
  /\ queue \in Seq(1..MaxEmits)
  /\ cpc \in [Threads -> {"idle", "emit", "count", "queue", "reset", "disconnect",
                          "skipAll", "disable", "wait"}]
  /\ exec \in [Workers -> {"idle", "enter", "count", "call", "raise", "leave",
                           "complete"}]
  /\ inv \in [Workers -> 0..MaxEmits]
  /\ destroyed \in BOOLEAN
  /\ emits \in 0..MaxEmits /\ skips \in 0..MaxSkips
  /\ unseen \subseteq 1..MaxEmits
  /\ first \in Threads \cup {None}
  /\ returned \subseteq Threads

Init ==
  /\ mode \in Modes
  /\ usage \in Usages
  /\ lock = None
  /\ connected = FALSE
  /\ copies = {}
  /\ managing = None
  /\ barrier = "none"
  /\ value = 0
  /\ raised = FALSE
  /\ waited = FALSE
  /\ active = "enabled"
  /\ completed = FALSE
  /\ pending = 0
  /\ before = 0
  /\ queue = <<>>
  /\ cpc = [t \in Threads |-> "idle"]
  /\ exec = [w \in Workers |-> "idle"]
  /\ inv = [w \in Workers |-> 0]
  /\ destroyed = FALSE
  /\ emits = 0
  /\ skips = 0
  /\ unseen = {}
  /\ first = None
  /\ returned = {}

Goto(t, l) == cpc' = [cpc EXCEPT ![t] = l]
ExecGoto(w, l) == exec' = [exec EXCEPT ![w] = l]

\* The thread is inside the handler: the cancelable is in its current_c.
Inside(t) == t \in Workers /\ exec[t] \in {"call", "raise"}

\* The only connection is a scoped_connection.
Scoped == "manager" \in usage \/ usage = {"barrier"}

\* Whether thread t may start a call: the handler only makes calls if the usage
\* says so.
Allowed(t) ==
  /\ cpc[t] = "idle"
  /\ t \in Users \/ (Inside(t) /\ "handler" \in usage)

\* signal_p::connect(): the handler is added to m_handlers.
PushHandler == connected' = TRUE

\* Copies of the connection are handed around, or the one there is goes to the
\* connection_manager (operator+=) or to the m_connection of a signal_barrier.
AddConnection(u) == copies' = IF Scoped THEN {u} ELSE Threads

\* connect(), once, and what is done with the connection it returns: programs that use
\* it, or reset the manager, before that is done are left out, and so are emits while a
\* barrier is built.
Connect(u) ==
  /\ Allowed(u)
  /\ ~destroyed
  /\ lock = None
  /\ ~connected /\ copies = {} /\ first = None /\ emits = 0 /\ barrier = "none"
  /\ \A t \in Threads : cpc[t] # "disable"      \* nor was it disconnected just now
  /\ PushHandler
  /\ AddConnection(u)
  /\ barrier' = IF usage = {"barrier"} THEN "built" ELSE "none"
  /\ UNCHANGED <<setup, lock, managing, destroyed, skips, value, raised, waited, handlerVars,
                 workerVars, emitVars, historyVars, cpc>>

-----------------------------------------------------------------------------
(* Emitting *)

\* operator() is called ...
Emit(t) ==
  /\ Allowed(t)
  /\ ~destroyed
  /\ emits < MaxEmits
  /\ connected
  /\ Goto(t, "emit")
  /\ UNCHANGED <<setup, signalVars, barrierVars, handlerVars, workerVars, emitVars, historyVars>>

\* ... takes m_CS and visits the handler if it is connected ...
EmitLock(t) ==
  /\ cpc[t] = "emit"
  /\ lock = None
  /\ IF connected /\ emits < MaxEmits
       THEN lock' = t /\ emits' = emits + 1 /\ Goto(t, "count")
       ELSE Goto(t, "idle") /\ UNCHANGED <<lock, emits>>
  /\ UNCHANGED <<setup, connected, connectionVars, barrierVars, destroyed, skips, handlerVars, workerVars, before,
                 queue, historyVars>>

\* ... counts a pending call ...
EmitCount(t) ==
  /\ cpc[t] = "count"
  /\ before' = pending
  /\ pending' = pending + 1
  /\ unseen' = unseen \cup {emits}
  /\ Goto(t, "queue")
  /\ UNCHANGED <<setup, signalVars, barrierVars, active, completed, workerVars, queue, emits, first,
                 returned>>

\* Mutants: a skipped update stays counted, or is taken back twice.
EmitQueueKeepsCount(t) ==
  /\ cpc[t] = "queue"
  /\ IF mode = "single_updates" \/ before < 1
       THEN queue' = Append(queue, emits)
       ELSE UNCHANGED queue
  /\ lock' = None
  /\ before' = 0
  /\ Goto(t, "idle")
  /\ UNCHANGED <<setup, connected, connectionVars, barrierVars, destroyed, skips, handlerVars, workerVars, emits,
                 historyVars>>

EmitQueueDecrementsTwice(t) ==
  /\ cpc[t] = "queue"
  /\ IF mode = "single_updates" \/ before < 1
       THEN queue' = Append(queue, emits) /\ UNCHANGED pending
       ELSE pending' = pending - 2 /\ UNCHANGED queue
  /\ lock' = None
  /\ before' = 0
  /\ Goto(t, "idle")
  /\ UNCHANGED <<setup, connected, connectionVars, barrierVars, destroyed, skips, active, completed, workerVars,
                 emits, historyVars>>

\* ... and queues it, unless a batch already has one pending.
EmitQueue(t) ==
  /\ cpc[t] = "queue"
  /\ IF mode = "single_updates" \/ before < 1
       THEN queue' = Append(queue, emits) /\ UNCHANGED pending
       ELSE pending' = pending - 1 /\ UNCHANGED queue
  /\ lock' = None
  /\ before' = 0
  /\ Goto(t, "idle")
  /\ UNCHANGED <<setup, connected, connectionVars, barrierVars, destroyed, skips, active, completed, workerVars,
                 emits, historyVars>>

-----------------------------------------------------------------------------
(* The invocation on the handler's queue *)

\* The queue hands an invocation to a thread; a serial one only if none runs.
Take(w) ==
  /\ exec[w] = "idle"
  /\ queue # <<>>
  /\ SerialQueue /\ usage # {"barrier"} => \A v \in Workers : exec[v] = "idle"
  /\ inv' = [inv EXCEPT ![w] = Head(queue)]
  /\ queue' = Tail(queue)
  /\ ExecGoto(w, "enter")
  /\ UNCHANGED <<setup, signalVars, barrierVars, handlerVars, before, emits, historyVars, cpc>>

\* Worker w is done with its invocation.
EndInvocation(w) == ExecGoto(w, "idle") /\ inv' = [inv EXCEPT ![w] = 0]

\* enter() of the cancelable_scope: a handler that is not enabled, because it
\* is disabled or because it is being called right now, is not called.
Enter(w) ==
  /\ exec[w] = "enter"
  /\ IF active = "enabled"
       THEN active' = "running" /\ ExecGoto(w, "count") /\ UNCHANGED inv
       ELSE UNCHANGED active /\ EndInvocation(w)
  /\ UNCHANGED <<setup, signalVars, barrierVars, completed, pending, emitVars, historyVars, cpc>>

\* The pending call is over the moment the handler is called.
Count(w) ==
  /\ exec[w] = "count"
  /\ pending' = pending - 1
  /\ unseen' = IF mode = "batch_updates" THEN {} ELSE unseen \ {inv[w]}
  /\ ExecGoto(w, "call")
  /\ UNCHANGED <<setup, signalVars, barrierVars, active, completed, inv, emitVars, first, returned, cpc>>

\* The handler returns.
FinishCall(w) ==
  /\ exec[w] = "call"
  /\ usage # {"barrier"}
  /\ cpc[w] = "idle"
  /\ ExecGoto(w, "leave")
  /\ UNCHANGED <<setup, signalVars, barrierVars, handlerVars, inv, emitVars, historyVars, cpc>>

\* Mutant of leave(): the barrier of a handler disabled meanwhile is forgotten.
LeaveSilently(w) ==
  /\ exec[w] = "leave"
  /\ active' = IF active = "running" THEN "enabled" ELSE active
  /\ EndInvocation(w)
  /\ UNCHANGED <<setup, signalVars, barrierVars, completed, pending, emitVars, historyVars, cpc>>

\* leave(): back to enabled ...
Leave(w) ==
  /\ exec[w] = "leave"
  /\ IF active = "running"
       THEN active' = "enabled" /\ EndInvocation(w)
       ELSE ExecGoto(w, "complete") /\ UNCHANGED <<active, inv>>
  /\ UNCHANGED <<setup, signalVars, barrierVars, completed, pending, emitVars, historyVars, cpc>>

\* ... or wake who disabled it in the meantime.
Complete(w) ==
  /\ exec[w] = "complete"
  /\ completed' = TRUE
  /\ EndInvocation(w)
  /\ UNCHANGED <<setup, signalVars, barrierVars, active, pending, emitVars, historyVars, cpc>>

-----------------------------------------------------------------------------
(* Disconnecting *)

\* m_id.lock() finds the handler: the signal, an invocation or another
\* disconnect() still refers to it.
Alive ==
  \/ connected \/ queue # <<>>
  \/ \E w \in Workers : exec[w] # "idle"
  \/ \E t \in Threads : cpc[t] \in {"disconnect", "disable", "wait"}

\* disconnect() of a copy of the connection is called.  It does nothing if the handler
\* is gone, also after ~signal_p.  A call that finds the handler alive after ~signal_p
\* uses a mutex that is destroyed: it is not among the programs considered ...
Disconnect(t) ==
  /\ Allowed(t)
  /\ ~Scoped
  /\ t \in copies
  /\ Alive => ~destroyed
  /\ copies' = copies \ {t}
  /\ Goto(t, IF Alive THEN "disconnect" ELSE "idle")
  /\ UNCHANGED <<setup, lock, connected, managing, barrierVars, destroyed, skips, handlerVars, workerVars, emitVars,
                 historyVars>>

\* ... and removes the handler with m_CS held; the connection used is empty then.
DisconnectLock(t) ==
  /\ cpc[t] = "disconnect"
  /\ lock = None
  /\ connected' = FALSE
  /\ copies' = IF Scoped THEN {} ELSE copies
  /\ Goto(t, "disable")
  /\ UNCHANGED <<setup, lock, managing, barrierVars, destroyed, skips, handlerVars, workerVars, emitVars,
                 historyVars>>

\* skip_all(), or ~signal_p if d, is called; nobody is using a signal that is
\* destroyed, though its handler may be running ...
SkipAll(t, d) ==
  /\ Allowed(t)
  /\ ~destroyed
  /\ "owner" \in usage
  /\ IF d THEN \A v \in Threads : cpc[v] = "idle" ELSE skips < MaxSkips
  /\ destroyed' = d
  /\ skips' = IF d THEN skips ELSE skips + 1
  /\ Goto(t, "skipAll")
  /\ UNCHANGED <<setup, lock, connected, connectionVars, barrierVars, handlerVars, workerVars, emitVars,
                 historyVars>>

\* ... and disables what is connected, holding m_CS all the while.
SkipAllLock(t) ==
  /\ cpc[t] = "skipAll"
  /\ lock = None
  /\ IF connected
       THEN lock' = t /\ Goto(t, "disable")
       ELSE UNCHANGED lock /\ Goto(t, "idle")
  /\ UNCHANGED <<setup, connected, connectionVars, barrierVars, destroyed, skips, handlerVars, workerVars, emitVars,
                 historyVars>>

\* disable() has returned: skip_all(), ~signal_p, which clears the list first, and a
\* connection_manager give their mutex up, disconnect() just returns.
EndDisable(t) ==
  /\ Goto(t, "idle")
  /\ lock' = IF lock = t THEN None ELSE lock
  /\ connected' = (connected /\ ~(destroyed /\ lock = t))
  /\ managing' = IF managing = t THEN None ELSE managing
  /\ returned' = IF Inside(t) THEN returned ELSE returned \cup {t}

\* Mutant of disable(): it does not wait for a running handler.
DisableNoWait(t) ==
  /\ cpc[t] = "disable"
  /\ active' = "disabled"
  /\ first' = IF active # "disabled" /\ ~Inside(t) THEN t ELSE first
  /\ EndDisable(t)
  /\ UNCHANGED <<setup, copies, barrierVars, destroyed, skips, completed, pending, workerVars,
                 emitVars, unseen>>

\* disable(): a handler that is running is waited for, but for the call that
\* the thread itself is in.
Disable(t) ==
  /\ cpc[t] = "disable"
  /\ active' = "disabled"
  /\ first' = IF active # "disabled" /\ ~Inside(t) THEN t ELSE first
  /\ IF active = "running" /\ ~Inside(t)
       THEN Goto(t, "wait") /\ UNCHANGED <<lock, connected, managing, returned>>
       ELSE EndDisable(t)
  /\ UNCHANGED <<setup, copies, barrierVars, destroyed, skips, completed, pending, workerVars,
                 emitVars, unseen>>

\* m_barrier.wait()
DisableWait(t) ==
  /\ cpc[t] = "wait"
  /\ completed
  /\ EndDisable(t)
  /\ UNCHANGED <<setup, copies, barrierVars, destroyed, skips, handlerVars, workerVars, emitVars,
                 unseen, first>>

-----------------------------------------------------------------------------
(* The owners of a scoped_connection *)

\* ~scoped_connection: disconnect(), which does nothing for an empty connection.
DestroyScoped(t) == Goto(t, IF copies # {} /\ Alive THEN "disconnect" ELSE "idle")

\* reset_connections() of the connection_manager, its destructor or, for this signal,
\* reset_connections_with() is called; that of an empty one nobody else is resetting is
\* left out ...
Reset(t) ==
  /\ "manager" \in usage
  /\ Allowed(t)
  /\ copies # {} \/ managing # None
  /\ Goto(t, "reset")
  /\ UNCHANGED <<setup, signalVars, barrierVars, handlerVars, workerVars, emitVars, historyVars>>

\* ... and destroys what it has, here the one connection and thus all that are
\* connected to the signal, holding its own mutex all the while.
ResetLock(t) ==
  /\ cpc[t] = "reset"
  /\ managing = None
  /\ DestroyScoped(t)
  /\ IF cpc'[t] = "idle"
       THEN returned' = (IF Inside(t) THEN returned ELSE returned \cup {t}) /\ UNCHANGED managing
       ELSE managing' = t /\ UNCHANGED returned
  /\ UNCHANGED <<setup, lock, connected, copies, destroyed, skips, barrierVars, handlerVars,
                 workerVars, emitVars, unseen, first>>

\* Mutants: the barrier is completed before the connection is given up; or the
\* connection is kept.
RaiseCompletesFirst(w) ==
  /\ usage = {"barrier"}
  /\ exec[w] = "call"
  /\ value' = inv[w]
  /\ raised' = TRUE
  /\ ExecGoto(w, "raise")
  /\ DestroyScoped(w)
  /\ UNCHANGED <<setup, signalVars, barrier, waited, handlerVars, inv, emitVars, historyVars>>

RaiseKeepsConnection(w) ==
  /\ usage = {"barrier"}
  /\ exec[w] = "call"
  /\ value' = inv[w]
  /\ ExecGoto(w, "raise")
  /\ UNCHANGED <<setup, signalVars, barrier, raised, waited, handlerVars, inv, emitVars, historyVars,
                 cpc>>

\* The handler of a signal_barrier stores what was emitted, disconnects itself ...
Raise(w) ==
  /\ usage = {"barrier"}
  /\ exec[w] = "call"
  /\ value' = inv[w]
  /\ ExecGoto(w, "raise")
  /\ DestroyScoped(w)
  /\ UNCHANGED <<setup, signalVars, barrier, raised, waited, handlerVars, inv, emitVars, historyVars>>

\* ... and completes the barrier.
Raised(w) ==
  /\ exec[w] = "raise"
  /\ cpc[w] = "idle"
  /\ raised' = TRUE
  /\ ExecGoto(w, "leave")
  /\ UNCHANGED <<setup, signalVars, barrier, value, waited, handlerVars, inv, emitVars, historyVars,
                 cpc>>

\* wait() returns true.  One that times out changes nothing.
BarrierWait(u) ==
  /\ barrier = "built"
  /\ cpc[u] = "idle"
  /\ raised
  /\ waited' = TRUE
  /\ UNCHANGED <<setup, signalVars, barrier, value, raised, handlerVars, workerVars, emitVars,
                 historyVars, cpc>>

\* ~signal_barrier destroys its members in the reverse order of their declaration:
\* m_values, then m_connection, which waits for a running handler ...
BarrierDestroy(u) ==
  /\ barrier = "built"
  /\ cpc[u] = "idle"
  /\ barrier' = "destroyed"
  /\ DestroyScoped(u)
  /\ UNCHANGED <<setup, signalVars, value, raised, waited, handlerVars, workerVars, emitVars,
                 historyVars>>

\* ... and then m_barrier.
BarrierFree ==
  /\ barrier = "destroyed"
  /\ \A u \in Users : cpc[u] \notin {"disconnect", "disable", "wait"}
  /\ barrier' = "freed"
  /\ UNCHANGED <<setup, signalVars, value, raised, waited, handlerVars, workerVars, emitVars,
                 historyVars, cpc>>

-----------------------------------------------------------------------------
CallStep(t) ==
  \/ EmitLock(t) \/ EmitCount(t) \/ EmitQueue(t)
  \/ ResetLock(t) \/ DisconnectLock(t) \/ SkipAllLock(t) \/ Disable(t) \/ DisableWait(t)

InvocationStep(w) ==
  \/ Take(w) \/ Enter(w) \/ Count(w) \/ FinishCall(w) \/ Leave(w) \/ Complete(w)
  \/ Raise(w) \/ Raised(w)

Next ==
  \/ \E u \in Users : Connect(u) \/ BarrierWait(u) \/ BarrierDestroy(u)
  \/ BarrierFree
  \/ \E t \in Threads : Emit(t) \/ Disconnect(t) \/ Reset(t) \/ CallStep(t)
  \/ \E t \in Threads, d \in BOOLEAN : SkipAll(t, d)
  \/ \E w \in Workers : InvocationStep(w)

Spec == Init /\ [][Next]_vars

\* Threads that can run do, the queue executes what it is given and handlers
\* return.  Nobody is obliged to use the signal.
Fairness ==
  /\ \A t \in Threads : WF_vars(CallStep(t))
  /\ \A w \in Workers : WF_vars(InvocationStep(w))

FairSpec == Spec /\ Fairness

-----------------------------------------------------------------------------
(* Properties *)

Calling(w) == exec[w] \in {"count", "call", "raise"}

\* Each emit of a signal with an active handler is followed by a call of it, its own
\* one or, in a batch, one that starts after it: at rest nothing is left unseen.
\* "Use this if [...] each signal emit are important and must never be missed".
\* A signal_barrier is content with one of them.  A handler that was disabled sees
\* nothing any more, connected or not: skip_all() disables it for good, although "when
\* the signal gets emitted for the next time, new calls will be queued".
NoMissedEmit ==
  /\ usage # {"barrier"}
  /\ active # "disabled"
  /\ queue = <<>>
  /\ \A w \in Workers : exec[w] = "idle"
  /\ \A t \in Threads : cpc[t] \notin {"count", "queue"}
  => unseen = {}

\* When the call that disabled the handler from outside of it has returned, it is not
\* being called and will not be, whatever was queued.  The same holds after any reset
\* of a connection_manager whose handlers leave the manager alone.  Where the handler
\* resets its manager it only marks itself as disabled: another reset then finds
\* nothing to wait for and may return while that call of the handler goes on.
FirstDisconnectIsQuiet ==
  first \in returned \/ (usage = {"manager"} /\ returned # {}) =>
    \A w \in Workers : ~Calling(w)

\* A signal_barrier may be destroyed once its wait() has returned true: from the moment
\* m_values are gone the handler that ended the wait does not use a member any more,
\* nor is it called again.
BarrierOutlivesHandler ==
  waited /\ barrier \in {"destroyed", "freed"} =>
    \A w \in Workers : exec[w] \notin {"call", "raise"}

\* "Further raises of the signal will leave the values unchanged": no later emit,
\* and none that was queued or running at the same time, replaces the values, until
\* the barrier is destroyed.
BarrierKeepsValues == [][raised /\ barrier = "built" => value' = value]_vars

\* A thread that waits for the handler to return has a mutex that the handler waits
\* for: skip_all() or ~signal_p has m_CS, or a reset that of the connection_manager.
Deadlocked ==
  \E t \in Threads, w \in Workers :
    /\ cpc[t] = "wait"
    /\ Inside(w)
    /\ \/ lock = t /\ cpc[w] \in {"emit", "disconnect", "skipAll"}
       \/ managing = t /\ cpc[w] = "reset"

\* Every disconnect(), reset, skip_all() and ~signal_p returns, whether it is called from
\* outside or from the handler ("safe to be invoked recursively"): who waits for a
\* running handler is woken when it leaves.  One thing stops them: somebody else skips,
\* destroys or resets at the same time and holds a mutex the handler asks for.
EveryDisconnectReturns ==
  \A t \in Threads :
    cpc[t] \in {"reset", "disconnect", "skipAll", "disable", "wait"} ~>
      cpc[t] = "idle" \/ Deadlocked
=============================================================================
