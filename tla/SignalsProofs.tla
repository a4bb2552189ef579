---------------------------- MODULE SignalsProofs ---------------------------
(***************************************************************************)
(* Proofs about Signals for any number of users, workers, emits and        *)
(* skip_all() calls, whatever the usage of the signal.                     *)
(***************************************************************************)
EXTENDS Signals, FiniteSetTheorems, TLAPS

USE DEF setup, connectionVars, managerVars, signalVars, barrierVars, handlerVars, workerVars,
   emitVars,
        historyVars

-----------------------------------------------------------------------------
(* The inductive invariant *)

InScope == {"count", "call", "raise", "leave", "complete"} \* within the cancelable_scope
Opening == {w \in Workers : exec[w] \in {"enter", "count"}} \* has taken a pending call
Adding == \E t \in Threads : cpc[t] = "queue"               \* has counted a pending call
Serial == SerialQueue /\ usage # {"barrier"}

\* Who counts or queues an invocation has m_CS.
Locking == \A t \in Threads : cpc[t] \in {"count", "queue"} => lock = t /\ emits # 0

\* Only a manager is reset, only the owner of the signal skips or destroys it and has
\* m_CS while it does, and the handler makes no call unless that is its usage.
Used ==
  /\ destroyed => "owner" \in usage
  /\ \A t \in Threads :
       /\ cpc[t] = "reset" \/ managing = t => "manager" \in usage
       /\ cpc[t] = "skipAll" \/ (lock = t /\ cpc[t] \in {"disable", "wait"}) => "owner" \in usage
  /\ \A w \in Workers : cpc[w] # "idle" => "handler" \in usage \/ usage = {"barrier"}

\* One invocation at a time is within the scope; who disables the cancelable is
\* told when the last one has left it.
Scope ==
  /\ \A v, w \in Workers : exec[v] \in InScope /\ exec[w] \in InScope => v = w
  /\ active = "enabled" => \A w \in Workers : exec[w] \notin InScope
  /\ active = "running" =>
       /\ \E w \in Workers : exec[w] \in InScope
       /\ \A w \in Workers : exec[w] # "complete"
  /\ completed => active = "disabled" /\ \A w \in Workers : exec[w] \notin InScope

\* Workers use the signal from inside of the handler and do not wait.  The first to
\* disable the handler waits for it, or has returned and left it quiet.
Cancelling ==
  /\ \A w \in Workers : cpc[w] # "idle" => Inside(w) /\ cpc[w] # "wait"
  /\ returned # {} => active = "disabled"
  /\ first # None => active = "disabled" /\ (first \in returned \/ cpc[first] = "wait")
  /\ first \in returned => \A w \in Workers : exec[w] \notin InScope

\* Who resets a connection_manager holds its mutex: when it is free and the connection
\* is gone, the handler was disabled.
Managed ==
  "manager" \in usage =>
    /\ copies = {} <=> ~connected
    /\ \A t \in Threads : cpc[t] \in {"disconnect", "disable", "wait"} => managing = t
    /\ \A t \in Threads : copies = {} /\ cpc[t] # "idle" => managing # None \/ active = "disabled"

\* If the handler leaves its manager alone, that mutex makes those who reset it wait
\* for the first.
Waited ==
  usage = {"manager"} =>
    /\ active = "disabled" => first # None
    /\ returned # {} => first \in returned
    /\ \A t \in Threads : copies = {} /\ cpc[t] # "idle" => managing # None \/ first \in returned

\* The handler of a signal_barrier gives the connection up before it completes the
\* barrier, so it has disabled itself by then.
Barrier ==
  /\ usage # {"barrier"} =>
       barrier = "none" /\ ~raised /\ ~waited /\ \A w \in Workers : exec[w] # "raise"
  /\ usage = {"barrier"} =>
       \A w \in Workers : \/ cpc[w] = "idle"
                          \/ exec[w] = "raise" /\ cpc[w] \in {"disconnect", "disable"}
  /\ usage = {"barrier"} /\ barrier = "none" =>
       /\ ~connected /\ queue = <<>> /\ ~raised /\ ~waited
       /\ \A t \in Threads : cpc[t] = "idle"
       /\ \A w \in Workers : exec[w] = "idle"
  /\ barrier = "built" =>
       /\ \A u \in Users : cpc[u] \notin {"disconnect", "disable", "wait"}
       /\ copies = {} =>
            /\ active = "disabled" \/ \E w \in Workers : exec[w] = "raise" /\ cpc[w] = "disable"
            /\ \A w \in Workers : exec[w] \notin {"count", "call"}
       /\ \A w \in Workers : exec[w] = "raise" /\ cpc[w] = "idle" => active = "disabled"
       /\ raised => active = "disabled" /\ \A w \in Workers : ~Calling(w)
  /\ waited => active = "disabled" /\ \A w \in Workers : ~Calling(w)

\* Every pending call is counted.  On a serial queue, until the handler is disabled,
\* nothing else is: no invocation is taken for one that overlaps.
Booked == Len(queue) + Cardinality(Opening) + (IF Adding THEN 1 ELSE 0)
Pending ==
  /\ Booked <= pending
  /\ Serial /\ active # "disabled" => pending = Booked

\* On a serial queue an emit that was not seen yet has a call to come.
Unseen ==
  Serial =>
    /\ \A v, w \in Workers : exec[v] # "idle" /\ exec[w] # "idle" => v = w
    /\ active # "disabled" /\ mode = "single_updates" =>
         \A e \in unseen :
           \/ \E i \in 1..Len(queue) : queue[i] = e
           \/ \E w \in Opening : inv[w] = e
           \/ Adding /\ e = emits
    /\ active # "disabled" /\ mode = "batch_updates" /\ unseen # {} =>
         queue # <<>> \/ Opening # {} \/ (Adding /\ before < 1)

IInv ==
  /\ TypeOK
  /\ Locking
  /\ Used
  /\ Scope
  /\ Cancelling
  /\ Managed
  /\ Waited
  /\ Barrier
  /\ Pending
  /\ Unseen

-----------------------------------------------------------------------------
(* Every step keeps the parts of the invariant *)

\* The handler stays connected in one way and the signal is used in one way.
LEMMA SetupKept == Next => usage' = usage /\ mode' = mode
  BY DEF Next, Reset, BarrierWait, BarrierDestroy, BarrierFree, Connect, PushHandler,
     AddConnection, SkipAll, Emit, Disconnect,
         CallStep, EmitLock, EmitCount, EmitQueue, ResetLock, DisconnectLock, SkipAllLock, Disable,
         DisableWait, InvocationStep, Take, Enter, Count, FinishCall, Leave, Complete, Raise, Raised

\* m_CS is taken to count and queue an invocation and given up afterwards.
LEMMA LockingKept == ASSUME TypeOK, Locking, Next PROVE Locking'
  <1> USE BoundsAssumption DEF TypeOK, Locking, Goto, Threads
  <1>1. ASSUME NEW t \in Threads, EmitLock(t) PROVE Locking'
    BY <1>1, SignalThreadsAssumption DEF EmitLock
  <1>2. ASSUME NEW t \in Threads, EmitCount(t) \/ EmitQueue(t) PROVE Locking'
    BY <1>2 DEF EmitCount, EmitQueue
  <1>3. ASSUME NEW t \in Threads, SkipAllLock(t) PROVE Locking'
    BY <1>3, SignalThreadsAssumption DEF SkipAllLock
  <1>4. ASSUME NEW t \in Threads, Disable(t) \/ DisableWait(t) PROVE Locking'
    BY <1>4 DEF Disable, DisableWait, EndDisable
  <1>5. ASSUME NEW t \in Threads, Emit(t) \/ Disconnect(t) \/ ResetLock(t) \/ DisconnectLock(t)
        PROVE  Locking'
    BY <1>5 DEF Emit, Disconnect, ResetLock, DisconnectLock, DestroyScoped
  <1>6. ASSUME NEW u \in Threads, NEW d \in BOOLEAN,
               \/ Reset(u) \/ BarrierWait(u) \/ BarrierDestroy(u) \/ Connect(u) \/ SkipAll(u, d)
        PROVE  Locking'
    BY <1>6 DEF Reset, BarrierWait, BarrierDestroy, Connect, PushHandler, AddConnection, SkipAll,
       DestroyScoped
  <1>7. ASSUME NEW w \in Workers, InvocationStep(w) PROVE Locking'
    BY <1>7 DEF InvocationStep, Take, Enter, Count, FinishCall, Leave, Complete, Raise, Raised,
                DestroyScoped
  <1>8. ASSUME BarrierFree PROVE Locking'
    BY <1>8 DEF BarrierFree
  <1> QED
    BY <1>1, <1>2, <1>3, <1>4, <1>5, <1>6, <1>7, <1>8 DEF Next, CallStep

\* A thread keeps to the usage of the signal from one call to the next.
LEMMA UsedKept == ASSUME TypeOK, Used, Next PROVE Used'
  <1> USE SignalThreadsAssumption, SetupKept DEF TypeOK, Used, Goto, Threads
  <1>1. ASSUME NEW t \in Threads, EmitLock(t) \/ EmitCount(t) \/ EmitQueue(t) PROVE Used'
    BY <1>1 DEF EmitLock, EmitCount, EmitQueue
  <1>2. ASSUME NEW t \in Threads, SkipAllLock(t) PROVE Used'
    BY <1>2 DEF SkipAllLock
  <1>3. ASSUME NEW t \in Threads, Disable(t) \/ DisableWait(t) PROVE Used'
    <2>1. /\ UNCHANGED destroyed
          /\ \A s \in Threads : lock' = s => lock = s
          /\ \A s \in Threads : managing' = s => managing = s
      BY <1>3 DEF Disable, DisableWait, EndDisable
    <2>2. /\ cpc[t] \in {"disable", "wait"} /\ cpc' = [cpc EXCEPT ![t] = cpc'[t]]
          /\ cpc'[t] \in {"wait", "idle"}
      BY <1>3 DEF Disable, DisableWait, EndDisable
    <2> QED
      BY <2>1, <2>2
  <1>4. ASSUME NEW t \in Threads, ResetLock(t) \/ DisconnectLock(t) PROVE Used'
    BY <1>4 DEF ResetLock, DisconnectLock, DestroyScoped
  <1>5. ASSUME NEW t \in Threads, NEW d \in BOOLEAN,
               Emit(t) \/ Disconnect(t) \/ Reset(t) \/ SkipAll(t, d)
        PROVE  Used'
    BY <1>5 DEF Emit, Disconnect, Reset, SkipAll, Allowed
  <1>6. ASSUME NEW u \in Users, BarrierWait(u) \/ BarrierDestroy(u) \/ Connect(u) PROVE Used'
    BY <1>6 DEF BarrierWait, BarrierDestroy, Connect, PushHandler, AddConnection, DestroyScoped
  <1>7. ASSUME NEW w \in Workers, InvocationStep(w) PROVE Used'
    BY <1>7 DEF InvocationStep, Take, Enter, Count, FinishCall, Leave, Complete, Raise, Raised,
                DestroyScoped
  <1>8. ASSUME BarrierFree PROVE Used'
    BY <1>8 DEF BarrierFree
  <1> QED
    BY <1>1, <1>2, <1>3, <1>4, <1>5, <1>6, <1>7, <1>8 DEF Next, CallStep

\* Who enters the scope found it enabled, so nobody was within; who leaves it when
\* it was disabled completes the barrier after that.
LEMMA ScopeKept == ASSUME TypeOK, Scope, Next PROVE Scope'
  <1> USE DEF TypeOK, Scope, InScope, ExecGoto
  <1>1. ASSUME NEW t \in Threads, Disable(t) PROVE Scope'
    BY <1>1 DEF Disable
  <1>2. ASSUME NEW w \in Workers, Enter(w) PROVE Scope'
    <2>1. CASE active = "enabled"
      BY <1>2, <2>1 DEF Enter
    <2>2. CASE active # "enabled"
      BY <1>2, <2>2 DEF Enter, EndInvocation
    <2> QED
      BY <2>1, <2>2
  <1>3. ASSUME NEW w \in Workers, Count(w) \/ FinishCall(w) PROVE Scope'
    <2>1. /\ exec[w] \in InScope /\ exec'[w] \in InScope /\ exec'[w] # "complete"
          /\ \A v \in Workers : v # w => exec'[v] = exec[v]
          /\ active' = active /\ completed' = completed
      BY <1>3 DEF Count, FinishCall
    <2>2. \A v \in Workers : exec'[v] \in InScope <=> exec[v] \in InScope
      BY <2>1
    <2> HIDE DEF InScope
    <2> QED
      BY <2>1, <2>2
  <1>4. ASSUME NEW w \in Workers, Raise(w) \/ Raised(w) PROVE Scope'
    BY <1>4 DEF Raise, Raised
  <1>5. ASSUME NEW w \in Workers, Leave(w) PROVE Scope'
    <2>1. CASE active = "running"
      BY <1>5, <2>1 DEF Leave, EndInvocation
    <2>2. CASE active # "running"
      BY <1>5, <2>2 DEF Leave
    <2> QED
      BY <2>1, <2>2
  <1>6. ASSUME NEW w \in Workers, Complete(w) PROVE Scope'
    BY <1>6 DEF Complete, EndInvocation
  <1>7. ASSUME NEW w \in Workers, Take(w) PROVE Scope'
    BY <1>7 DEF Take
  <1>8. ASSUME NEW t \in Threads,
               \/ Emit(t) \/ Disconnect(t) \/ EmitLock(t) \/ EmitCount(t) \/ EmitQueue(t)
               \/ ResetLock(t) \/ DisconnectLock(t) \/ SkipAllLock(t) \/ DisableWait(t)
        PROVE  Scope'
    BY <1>8 DEF Emit, Disconnect, EmitLock, EmitCount, EmitQueue, ResetLock, DisconnectLock,
                SkipAllLock, DisableWait
  <1>9. ASSUME NEW u \in Threads, NEW d \in BOOLEAN,
               \/ Reset(u) \/ BarrierWait(u) \/ BarrierDestroy(u) \/ Connect(u) \/ SkipAll(u, d)
        PROVE  Scope'
    BY <1>9 DEF Reset, BarrierWait, BarrierDestroy, Connect, PushHandler, AddConnection, SkipAll
  <1>10. ASSUME BarrierFree PROVE Scope'
    BY <1>10 DEF BarrierFree
  <1> QED
    BY <1>1, <1>2, <1>3, <1>4, <1>5, <1>6, <1>7, <1>8, <1>9, <1>10
       DEF Next, CallStep, InvocationStep, Threads

\* The first disable() from outside either finds nobody within the scope or waits
\* for the barrier; nobody enters a scope that was disabled.
LEMMA CancellingKept ==
  ASSUME TypeOK, Used, Scope, Cancelling, Managed, Barrier, Next
  PROVE  Cancelling'
  <1> USE SignalThreadsAssumption DEF TypeOK, Cancelling, Threads
  <1>1. ASSUME NEW t \in Threads, Disable(t) PROVE Cancelling'
    <2>1. Inside(t) <=> t \in Workers
      BY <1>1 DEF Disable, Inside
    <2>2. exec' = exec /\ active' = "disabled" /\ cpc[t] = "disable"
      BY <1>1 DEF Disable
    <2>3. CASE active = "running" /\ t \notin Workers
      BY <1>1, <2>1, <2>2, <2>3 DEF Disable, Goto, Inside
    <2>4. CASE active = "enabled" /\ t \notin Workers
      BY <1>1, <2>1, <2>2, <2>4 DEF Disable, EndDisable, Goto, Inside, Scope
    <2>5. CASE active = "disabled" /\ t \notin Workers
      BY <1>1, <2>1, <2>2, <2>5 DEF Disable, EndDisable, Goto, Inside
    <2>6. CASE t \in Workers
      BY <1>1, <2>1, <2>2, <2>6 DEF Disable, EndDisable, Goto, Inside
    <2> QED
      BY <2>3, <2>4, <2>5, <2>6
  <1>2. ASSUME NEW t \in Threads, DisableWait(t) PROVE Cancelling'
    <2>1. t \notin Workers /\ ~Inside(t)
      BY <1>2 DEF DisableWait, Inside
    <2>2. /\ \A w \in Workers : exec[w] \notin InScope
          /\ active = "disabled"
      BY <1>2 DEF DisableWait, Scope
    <2> QED
      BY <1>2, <2>1, <2>2 DEF DisableWait, EndDisable, Goto, Inside
  <1>3. ASSUME NEW t \in Threads, ResetLock(t) PROVE Cancelling'
    <2>1. "manager" \in usage /\ cpc[t] = "reset" /\ (Inside(t) <=> t \in Workers)
      BY <1>3 DEF ResetLock, Used, Inside
    <2>2. /\ exec' = exec /\ active' = active /\ first' = first
          /\ cpc' = [cpc EXCEPT ![t] = cpc'[t]] /\ cpc'[t] \in {"disconnect", "idle"}
      BY <1>3 DEF ResetLock, DestroyScoped, Goto
    <2>3. CASE cpc'[t] # "idle" \/ t \in Workers
      <3>1. returned' = returned
        BY <1>3, <2>1, <2>3 DEF ResetLock
      <3> QED
        BY <2>1, <2>2, <3>1 DEF Inside
    <2>4. CASE cpc'[t] = "idle" /\ t \notin Workers
      <3>1. copies = {} /\ managing = None
        BY <1>3, <2>1, <2>4 DEF ResetLock, DestroyScoped, Goto, Alive, Managed
      <3>2. active = "disabled"
        BY <2>1, <3>1 DEF Managed
      <3>3. returned' = returned \cup {t}
        BY <1>3, <2>1, <2>4 DEF ResetLock
      <3>4. first \in returned' => first \in returned
        BY <2>1, <3>3
      <3> QED
        BY <2>1, <2>2, <3>2, <3>3, <3>4 DEF Inside
    <2> QED
      BY <2>2, <2>3, <2>4
  <1>4. ASSUME NEW t \in Threads,
               \/ Emit(t) \/ Disconnect(t) \/ EmitLock(t) \/ EmitCount(t) \/ EmitQueue(t)
               \/ DisconnectLock(t) \/ SkipAllLock(t) \/ Reset(t)
               \/ (\E d \in BOOLEAN : SkipAll(t, d))
        PROVE  Cancelling'
    <2>1. exec' = exec /\ active' = active /\ first' = first /\ returned' = returned
      BY <1>4 DEF Emit, Disconnect, EmitLock, EmitCount, EmitQueue, DisconnectLock, SkipAllLock,
                  Reset, SkipAll
    <2>2. t \in Workers => Inside(t)
      BY <1>4 DEF Emit, Disconnect, EmitLock, EmitCount, EmitQueue, DisconnectLock, SkipAllLock,
                  Reset, SkipAll, Allowed
    <2>3. /\ cpc' = [cpc EXCEPT ![t] = cpc'[t]]
          /\ cpc[t] # "wait"
          /\ cpc'[t] # "wait"
      <3>1. CASE \/ Emit(t) \/ Disconnect(t) \/ Reset(t) \/ (\E d \in BOOLEAN : SkipAll(t, d))
        BY <3>1 DEF Emit, Disconnect, Reset, SkipAll, Allowed, Goto
      <3>2. CASE EmitLock(t) \/ EmitCount(t) \/ EmitQueue(t)
        BY <3>2 DEF EmitLock, EmitCount, EmitQueue, Goto
      <3>3. CASE DisconnectLock(t) \/ SkipAllLock(t)
        BY <3>3 DEF DisconnectLock, SkipAllLock, Goto
      <3> QED
        BY <1>4, <3>1, <3>2, <3>3
    <2> QED
      BY <2>1, <2>2, <2>3 DEF Inside
  <1>5. ASSUME NEW u \in Users, BarrierWait(u) \/ BarrierDestroy(u) \/ Connect(u)
        PROVE  Cancelling'
    <2>1. /\ exec' = exec /\ active' = active /\ first' = first /\ returned' = returned
          /\ cpc' = cpc \/ (cpc[u] = "idle" /\ cpc' = [cpc EXCEPT ![u] = cpc'[u]])
      BY <1>5 DEF BarrierWait, BarrierDestroy, Connect, PushHandler, AddConnection, Allowed,
         DestroyScoped, Goto
    <2> QED
      BY <2>1 DEF Inside
  <1>6. ASSUME BarrierFree PROVE Cancelling'
    BY <1>6 DEF BarrierFree, Inside
  <1>7. ASSUME NEW w \in Workers,
               \/ Take(w) \/ Enter(w) \/ Count(w) \/ Leave(w) \/ Complete(w)
        PROVE  Cancelling'
    <2>1. /\ UNCHANGED <<cpc, first, returned>> /\ exec[w] \notin {"call", "raise"}
          /\ \A v \in Workers : v # w => exec'[v] = exec[v]
      BY <1>7 DEF Take, Enter, Count, Leave, Complete, EndInvocation, ExecGoto
    <2>2. active = "disabled" => active' = "disabled"
      BY <1>7 DEF Take, Enter, Count, Leave, Complete
    <2>3. active = "disabled" /\ exec'[w] \in InScope => exec[w] \in InScope
      <3>1. CASE Take(w)
        BY <3>1 DEF Take, ExecGoto, InScope
      <3>2. CASE Enter(w)
        BY <3>2 DEF Enter, EndInvocation, ExecGoto, InScope
      <3>3. CASE Count(w) \/ Leave(w) \/ Complete(w)
        BY <3>3 DEF Count, Leave, Complete, InScope
      <3> QED
        BY <1>7, <3>1, <3>2, <3>3
    <2>4. \A v \in Workers : Inside(v) => Inside(v)'
      BY <2>1 DEF Inside
    <2>5. \A v \in Workers : cpc'[v] # "idle" => Inside(v)' /\ cpc'[v] # "wait"
      BY <2>1, <2>4
    <2>6. /\ returned' # {} => active' = "disabled"
          /\ first' # None => active' = "disabled" /\ (first' \in returned' \/ cpc'[first'] = "wait")
      BY <2>1, <2>2
    <2>7. first' \in returned' => \A v \in Workers : exec'[v] \notin InScope
      BY <2>1, <2>2, <2>3
    <2> QED
      BY <2>5, <2>6, <2>7
  <1>9. ASSUME NEW w \in Workers, FinishCall(w) \/ Raised(w) PROVE Cancelling'
    BY <1>9 DEF FinishCall, Raised, ExecGoto, InScope, Inside
  <1>10. ASSUME NEW w \in Workers, Raise(w) PROVE Cancelling'
    <2>1. /\ active' = active /\ first' = first /\ returned' = returned
          /\ exec[w] = "call" /\ exec' = [exec EXCEPT ![w] = "raise"]
          /\ cpc' = [cpc EXCEPT ![w] = cpc'[w]] /\ cpc'[w] \in {"disconnect", "idle"}
      BY <1>10 DEF Raise, DestroyScoped, ExecGoto, Goto
    <2> QED
      BY <2>1 DEF InScope, Inside
  <1> QED
    BY <1>1, <1>2, <1>3, <1>4, <1>5, <1>6, <1>7, <1>9, <1>10
       DEF Next, CallStep, InvocationStep

\* The mutex of the manager is taken to disconnect and given up when the handler was
\* disabled.
LEMMA ManagedKept ==
  ASSUME TypeOK, Used, Scope, Managed, Barrier, Next
  PROVE  Managed'
  <1> SUFFICES ASSUME "manager" \in usage PROVE Managed'
    BY SetupKept DEF Managed
  <1> USE SignalThreadsAssumption, SetupKept DEF TypeOK, Managed, Threads
  <1>0. /\ Scoped /\ "owner" \notin usage /\ usage # {"barrier"} /\ ~destroyed /\ barrier = "none"
    <2>1. usage = {"manager"} \/ usage = {"manager", "handler"}
      <3>1. usage \in Usages
        OBVIOUS
      <3>2. ~(usage \subseteq {"owner", "handler"})
        OBVIOUS
      <3>3. \/ usage \in SUBSET {"owner", "handler"}
            \/ usage \in {{"manager"}, {"manager", "handler"}, {"barrier"}}
        BY <3>1, UsagesAssumption
      <3>4. usage # {"barrier"}
        OBVIOUS
      <3> QED
        BY <3>2, <3>3, <3>4
    <2>2. "owner" \notin usage
      BY <2>1
    <2> QED
      BY <2>1, <2>2 DEF Scoped, Barrier, Used
  <1>1. ASSUME NEW t \in Threads, Disable(t) \/ DisableWait(t) PROVE Managed'
    <2>1. managing = t /\ (active' = "disabled" \/ active' = active)
      BY <1>1 DEF Disable, DisableWait
    <2>2. copies' = copies /\ connected' = connected
      BY <1>0, <1>1 DEF Disable, DisableWait, EndDisable
    <2>3. CASE cpc' = [cpc EXCEPT ![t] = "wait"] /\ managing' = managing
      BY <2>1, <2>2, <2>3
    <2>4. CASE cpc' = [cpc EXCEPT ![t] = "idle"] /\ managing' = None /\ active' = "disabled"
      <3>1. \A s \in Threads : cpc'[s] \notin {"disconnect", "disable", "wait"}
        BY <2>1, <2>4
      <3> QED
        BY <2>2, <2>4, <3>1
    <2> QED
      BY <1>1, <2>1, <2>3, <2>4 DEF Disable, DisableWait, EndDisable, Goto, Scope
  <1>3. ASSUME NEW t \in Threads, ResetLock(t) PROVE Managed'
    <2>1. cpc[t] = "reset" /\ managing = None
      BY <1>3 DEF ResetLock
    <2>2. /\ active' = active /\ copies' = copies /\ connected' = connected
          /\ cpc' = [cpc EXCEPT ![t] = cpc'[t]] /\ cpc'[t] \in {"disconnect", "idle"}
          /\ managing' = IF cpc'[t] = "idle" THEN managing ELSE t
      BY <1>3 DEF ResetLock, DestroyScoped, Goto
    <2> QED
      BY <2>1, <2>2
  <1>4. ASSUME NEW t \in Threads, DisconnectLock(t) PROVE Managed'
    BY <1>0, <1>4 DEF DisconnectLock, Goto
  <1>5. ASSUME NEW t \in Threads, Emit(t) \/ EmitLock(t) \/ EmitCount(t) \/ EmitQueue(t)
        PROVE  Managed'
    <2>1. /\ active' = active /\ managing' = managing
          /\ copies' = copies /\ connected' = connected
      BY <1>5 DEF Emit, EmitLock, EmitCount, EmitQueue
    <2>2. /\ cpc' = [cpc EXCEPT ![t] = cpc'[t]]
          /\ cpc'[t] \in {"idle", "emit", "count", "queue"}
          /\ cpc[t] # "idle" \/ connected
      BY <1>5 DEF Emit, EmitLock, EmitCount, EmitQueue, Goto
    <2> QED
      BY <2>1, <2>2
  <1>6. ASSUME NEW t \in Threads, Disconnect(t) \/ SkipAllLock(t) PROVE FALSE
    BY <1>0, <1>6 DEF Disconnect, SkipAllLock, Used
  <1>7. ASSUME NEW u \in Users, Connect(u) PROVE Managed'
    BY <1>0, <1>7 DEF Connect, PushHandler, AddConnection
  <1>8. ASSUME NEW t \in Threads, Reset(t) PROVE Managed'
    BY <1>8 DEF Reset, Goto, Allowed
  <1>9. ASSUME NEW u \in Threads, NEW d \in BOOLEAN,
               BarrierWait(u) \/ BarrierDestroy(u) \/ SkipAll(u, d)
        PROVE  FALSE
    BY <1>0, <1>9 DEF BarrierWait, BarrierDestroy, SkipAll
  <1>10. ASSUME BarrierFree PROVE FALSE
    BY <1>0, <1>10 DEF BarrierFree
  <1>11. ASSUME NEW w \in Workers, InvocationStep(w) PROVE Managed'
    <2>1. /\ active' = "disabled" <=> active = "disabled"
          /\ managing' = managing /\ copies' = copies /\ connected' = connected /\ cpc' = cpc
      BY <1>0, <1>11 DEF InvocationStep, Take, Enter, Count, FinishCall, Leave, Complete, Raise,
                         Raised, Barrier
    <2> QED
      BY <2>1
  <1> QED
    BY <1>1, <1>3, <1>4, <1>5, <1>6, <1>7, <1>8, <1>9, <1>10, <1>11 DEF Next, CallStep

\* Who finds no connection left in a manager its handler leaves alone finds the mutex
\* free only after the one that disconnected the handler has returned.
LEMMA WaitedKept ==
  ASSUME TypeOK, Used, Scope, Cancelling, Managed, Waited, Barrier, Next
  PROVE  Waited'
  <1> SUFFICES ASSUME usage = {"manager"} PROVE Waited'
    BY SetupKept DEF Waited
  <1> USE SignalThreadsAssumption, SetupKept DEF TypeOK, Managed, Waited, Threads
  <1>0. /\ Scoped /\ "handler" \notin usage /\ "owner" \notin usage /\ usage # {"barrier"}
        /\ barrier = "none" /\ \A w \in Workers : cpc[w] = "idle"
    BY DEF Scoped, Barrier, Used
  <1>1. ASSUME NEW t \in Threads, Disable(t) PROVE Waited'
    <2>1. t \notin Workers /\ ~Inside(t) /\ managing = t
      BY <1>0, <1>1 DEF Disable, Inside
    <2>2. /\ active' = "disabled" /\ cpc[t] = "disable" /\ copies' = copies
          /\ first' = IF active # "disabled" THEN t ELSE first
      BY <1>1, <2>1 DEF Disable
    <2>3. CASE active = "running"
      <3>1. /\ cpc' = [cpc EXCEPT ![t] = "wait"] /\ managing' = managing /\ returned' = returned
        BY <1>1, <2>1, <2>3 DEF Disable, Goto
      <3>2. returned = {} /\ first = None
        BY <2>3 DEF Cancelling
      <3> QED
        BY <2>1, <2>2, <2>3, <3>1, <3>2
    <2>4. CASE active # "running"
      <3>1. returned' = returned \cup {t}
        BY <1>1, <2>1, <2>4 DEF Disable, EndDisable
      <3>2. first' \in returned'
        BY <2>1, <2>2, <2>4, <3>1 DEF Cancelling
      <3> QED
        BY <2>1, <2>2, <3>2
    <2> QED
      BY <2>3, <2>4
  <1>2. ASSUME NEW t \in Threads, DisableWait(t) PROVE Waited'
    <2>1. t \notin Workers /\ ~Inside(t) /\ managing = t /\ active = "disabled" /\ first # None
      BY <1>0, <1>2 DEF DisableWait, Inside, Scope
    <2>2. /\ active' = active /\ cpc[t] = "wait" /\ first' = first
          /\ returned' = returned \cup {t}
      BY <1>2, <2>1 DEF DisableWait, EndDisable
    <2>3. first \in returned'
      BY <2>1, <2>2 DEF Cancelling
    <2> QED
      BY <2>1, <2>2, <2>3
  <1>3. ASSUME NEW t \in Threads, ResetLock(t) PROVE Waited'
    <2>1. t \notin Workers /\ ~Inside(t) /\ cpc[t] = "reset" /\ managing = None
      BY <1>0, <1>3 DEF ResetLock, Inside
    <2>2. /\ active' = active /\ first' = first /\ copies' = copies
          /\ cpc' = [cpc EXCEPT ![t] = cpc'[t]] /\ cpc'[t] \in {"disconnect", "idle"}
      BY <1>3 DEF ResetLock, DestroyScoped, Goto
    <2>3. CASE cpc'[t] = "disconnect"
      BY <1>3, <2>1, <2>2, <2>3 DEF ResetLock
    <2>4. CASE cpc'[t] = "idle"
      <3>1. copies = {}
        BY <1>3, <2>4 DEF ResetLock, DestroyScoped, Goto, Alive
      <3>2. first \in returned /\ returned' = returned \cup {t} /\ managing' = managing
        BY <1>3, <2>1, <2>4, <3>1 DEF ResetLock
      <3> QED
        BY <2>1, <2>2, <2>4, <3>2
    <2> QED
      BY <2>2, <2>3, <2>4
  <1>4. ASSUME NEW t \in Threads, DisconnectLock(t) PROVE Waited'
    BY <1>0, <1>4 DEF DisconnectLock, Goto
  <1>5. ASSUME NEW t \in Threads, Emit(t) \/ EmitLock(t) \/ EmitCount(t) \/ EmitQueue(t)
        PROVE  Waited'
    <2>1. /\ active' = active /\ first' = first /\ returned' = returned /\ managing' = managing
          /\ copies' = copies
      BY <1>5 DEF Emit, EmitLock, EmitCount, EmitQueue
    <2>2. /\ cpc' = [cpc EXCEPT ![t] = cpc'[t]]
          /\ cpc[t] # "idle" \/ connected
      BY <1>5 DEF Emit, EmitLock, EmitCount, EmitQueue, Goto
    <2> QED
      BY <2>1, <2>2
  <1>6. ASSUME NEW t \in Threads, Disconnect(t) \/ SkipAllLock(t) PROVE FALSE
    BY <1>0, <1>6 DEF Disconnect, SkipAllLock, Used
  <1>7. ASSUME NEW u \in Users, Connect(u) PROVE Waited'
    BY <1>0, <1>7 DEF Connect, PushHandler, AddConnection
  <1>8. ASSUME NEW t \in Threads, Reset(t) PROVE Waited'
    BY <1>8 DEF Reset, Goto, Allowed
  <1>9. ASSUME NEW u \in Threads, NEW d \in BOOLEAN,
               BarrierWait(u) \/ BarrierDestroy(u) \/ SkipAll(u, d)
        PROVE  FALSE
    BY <1>0, <1>9 DEF BarrierWait, BarrierDestroy, SkipAll
  <1>10. ASSUME BarrierFree PROVE FALSE
    BY <1>0, <1>10 DEF BarrierFree
  <1>11. ASSUME NEW w \in Workers, InvocationStep(w) PROVE Waited'
    <2>1. /\ active' = "disabled" <=> active = "disabled"
          /\ first' = first /\ returned' = returned /\ managing' = managing
          /\ copies' = copies /\ cpc' = cpc
      BY <1>0, <1>11 DEF InvocationStep, Take, Enter, Count, FinishCall, Leave, Complete, Raise,
                         Raised, Barrier
    <2> QED
      BY <2>1
  <1> QED
    BY <1>1, <1>2, <1>3, <1>4, <1>5, <1>6, <1>7, <1>8, <1>9, <1>10, <1>11 DEF Next, CallStep

\* In a program with no signal_barrier there is nothing to keep.
LEMMA NoBarrierKept ==
  ASSUME TypeOK, Barrier, usage # {"barrier"}, Next
  PROVE  Barrier'
  <1>1. barrier' = "none" /\ raised' = raised /\ waited' = waited
    BY DEF Next, Reset, BarrierWait, BarrierDestroy, BarrierFree, Connect, PushHandler,
       AddConnection, SkipAll, Emit,
           Disconnect, CallStep, EmitLock, EmitCount, EmitQueue, ResetLock, DisconnectLock,
           SkipAllLock, Disable, DisableWait, InvocationStep, Take, Enter, Count, FinishCall, Leave,
           Complete, Raise, Raised, Barrier
  <1>2. \A w \in Workers : exec'[w] # "raise"
    <2>1. ASSUME NEW w \in Workers, InvocationStep(w) PROVE \A v \in Workers : exec'[v] # "raise"
      BY <2>1 DEF InvocationStep, Take, Enter, Count, FinishCall, Leave, Complete, Raise, Raised,
                  EndInvocation, ExecGoto, Barrier, TypeOK
    <2> QED
      BY <2>1 DEF Next, Reset, BarrierWait, BarrierDestroy, BarrierFree, Connect, PushHandler,
         AddConnection, SkipAll, Emit,
           Disconnect, CallStep, EmitLock, EmitCount, EmitQueue, ResetLock, DisconnectLock,
           SkipAllLock, Disable, DisableWait, Barrier
  <1> QED
    BY <1>1, <1>2, SetupKept DEF Barrier

\* The first call of a barrier's handler disconnects and disables it before the
\* barrier is completed; no other call is in its way as long as the barrier exists.
LEMMA BarrierKept ==
  ASSUME TypeOK, Used, Scope, Cancelling, Barrier, Next
  PROVE  Barrier'
  <1> SUFFICES ASSUME usage = {"barrier"} PROVE Barrier'
    BY NoBarrierKept
  <1> USE SignalThreadsAssumption, SetupKept DEF TypeOK, Barrier, Threads
  <1>0. /\ Scoped /\ "handler" \notin usage /\ "owner" \notin usage /\ "manager" \notin usage
        /\ ~destroyed /\ \A t \in Threads : cpc[t] \notin {"reset", "skipAll"}
    BY DEF Scoped, Used
  <1>1. ASSUME NEW t \in Threads, Disable(t) PROVE Barrier'
    <2>1. /\ active' = "disabled" /\ exec' = exec /\ cpc[t] = "disable"
          /\ copies' = copies /\ connected' = connected /\ queue' = queue
          /\ barrier' = barrier /\ raised' = raised /\ waited' = waited
      BY <1>0, <1>1 DEF Disable, EndDisable
    <2>2. t \in Workers => Inside(t)
      BY <2>1 DEF Inside
    <2>3. /\ cpc' = [cpc EXCEPT ![t] = cpc'[t]] /\ cpc'[t] \in {"idle", "wait"}
          /\ t \in Workers => cpc'[t] = "idle"
      BY <1>1, <2>2 DEF Disable, EndDisable, Goto
    <2> QED
      BY <2>1, <2>3 DEF Calling
  <1>2. ASSUME NEW t \in Threads, DisableWait(t) PROVE Barrier'
    <2>1. /\ UNCHANGED <<active, exec, copies, connected, queue, barrier, raised, waited>>
          /\ cpc[t] = "wait" /\ cpc' = [cpc EXCEPT ![t] = "idle"]
      BY <1>0, <1>2 DEF DisableWait, EndDisable, Goto
    <2> QED
      BY <2>1 DEF Calling
  <1>3. ASSUME NEW t \in Threads, DisconnectLock(t) PROVE Barrier'
    <2>1. /\ UNCHANGED <<active, exec, queue, barrier, raised, waited>>
          /\ connected' = FALSE /\ copies' = {}
          /\ cpc[t] = "disconnect" /\ cpc' = [cpc EXCEPT ![t] = "disable"]
      BY <1>0, <1>3 DEF DisconnectLock, Goto
    <2>2. barrier = "built" =>
            /\ t \in Workers /\ exec[t] = "raise"
            /\ \A w \in Workers : exec[w] \notin {"count", "call"}
      BY <2>1 DEF Scope, InScope
    <2> QED
      BY <2>1, <2>2 DEF Calling
  <1>4. ASSUME NEW t \in Threads, Emit(t) \/ EmitLock(t) \/ EmitCount(t) \/ EmitQueue(t)
        PROVE  Barrier'
    <2>1. UNCHANGED <<active, exec, copies, connected, barrier, raised, waited>>
      BY <1>4 DEF Emit, EmitLock, EmitCount, EmitQueue
    <2>2. /\ cpc' = [cpc EXCEPT ![t] = cpc'[t]] /\ t \notin Workers
          /\ cpc'[t] \in {"idle", "emit", "count", "queue"}
          /\ cpc[t] # "idle" \/ connected
      <3>1. CASE Emit(t)
        BY <1>0, <3>1 DEF Emit, Goto, Allowed, Inside
      <3>2. CASE EmitLock(t)
        BY <3>2 DEF EmitLock, Goto
      <3>3. CASE EmitCount(t)
        BY <3>3 DEF EmitCount, Goto
      <3>4. CASE EmitQueue(t)
        BY <3>4 DEF EmitQueue, Goto
      <3> QED
        BY <1>4, <3>1, <3>2, <3>3, <3>4
    <2>3. barrier # "none"
      BY <2>2
    <2> QED
      BY <2>1, <2>2, <2>3 DEF Calling
  <1>5. ASSUME NEW t \in Threads, Disconnect(t) \/ SkipAllLock(t) \/ ResetLock(t) PROVE FALSE
    BY <1>0, <1>5 DEF Disconnect, SkipAllLock, ResetLock
  <1>6. ASSUME NEW u \in Users, Connect(u) PROVE Barrier'
    <2>1. /\ UNCHANGED <<active, exec, queue, cpc, raised, waited>>
          /\ barrier = "none" /\ barrier' = "built" /\ copies' = {u}
      BY <1>0, <1>6 DEF Connect, PushHandler, AddConnection
    <2> QED
      BY <2>1 DEF Calling
  <1>7. ASSUME NEW u \in Users, BarrierDestroy(u) PROVE Barrier'
    <2>1. /\ UNCHANGED <<active, exec, waited>> /\ barrier' = "destroyed"
          /\ cpc' = [cpc EXCEPT ![u] = cpc'[u]] /\ u \notin Workers
      BY <1>7 DEF BarrierDestroy, DestroyScoped, Goto
    <2> QED
      BY <2>1 DEF Calling
  <1>8. ASSUME NEW u \in Users, BarrierWait(u) PROVE Barrier'
    BY <1>8 DEF BarrierWait, Calling
  <1>9. ASSUME BarrierFree PROVE Barrier'
    BY <1>9 DEF BarrierFree, Calling
  <1>10. ASSUME NEW t \in Threads, NEW d \in BOOLEAN, Reset(t) \/ SkipAll(t, d) PROVE FALSE
    BY <1>0, <1>10 DEF Reset, SkipAll
  <1>11. ASSUME NEW w \in Workers, Take(w) PROVE Barrier'
    <2>1. /\ UNCHANGED <<active, copies, connected, cpc, barrier, raised, waited>>
          /\ queue # <<>> /\ exec' = [exec EXCEPT ![w] = "enter"] /\ exec[w] = "idle"
      BY <1>11 DEF Take, ExecGoto
    <2> QED
      BY <2>1 DEF Calling
  <1>12. ASSUME NEW w \in Workers, Enter(w) PROVE Barrier'
    <2>1. /\ UNCHANGED <<copies, connected, cpc, barrier, raised, waited, queue>>
          /\ exec[w] = "enter" /\ exec' = [exec EXCEPT ![w] = exec'[w]]
      BY <1>12 DEF Enter, EndInvocation, ExecGoto
    <2>2. CASE active = "enabled"
      <3>1. active' = "running" /\ exec'[w] = "count"
        BY <1>12, <2>2 DEF Enter, ExecGoto
      <3>2. ~waited /\ (barrier = "built" => copies # {} /\ ~raised)
        BY <2>2 DEF Scope, InScope
      <3>3. \A v \in Workers : exec[v] # "raise"
        BY <2>2 DEF Scope, InScope
      <3> QED
        BY <2>1, <3>1, <3>2, <3>3 DEF Calling
    <2>3. CASE active # "enabled"
      <3>1. active' = active /\ exec'[w] = "idle"
        BY <1>12, <2>3 DEF Enter, EndInvocation, ExecGoto
      <3> QED
        BY <2>1, <3>1 DEF Calling
    <2> QED
      BY <2>2, <2>3
  <1>13. ASSUME NEW w \in Workers, Count(w) PROVE Barrier'
    <2>1. /\ UNCHANGED <<active, copies, connected, cpc, barrier, raised, waited, queue>>
          /\ exec[w] = "count" /\ exec' = [exec EXCEPT ![w] = "call"]
      BY <1>13 DEF Count, ExecGoto
    <2> QED
      BY <2>1 DEF Calling
  <1>14. ASSUME NEW w \in Workers, FinishCall(w) PROVE FALSE
    BY <1>14 DEF FinishCall
  <1>15. ASSUME NEW w \in Workers, Leave(w) PROVE Barrier'
    <2>1. /\ UNCHANGED <<copies, connected, cpc, barrier, raised, waited, queue>>
          /\ exec[w] = "leave" /\ exec' = [exec EXCEPT ![w] = exec'[w]]
          /\ exec'[w] \in {"idle", "complete"}
          /\ active' = "disabled" <=> active = "disabled"
      BY <1>15 DEF Leave, EndInvocation, ExecGoto
    <2>2. \A v \in Workers : exec[v] # "raise"
      BY <2>1 DEF Scope, InScope
    <2> QED
      BY <2>1, <2>2 DEF Calling
  <1>16. ASSUME NEW w \in Workers, Complete(w) PROVE Barrier'
    <2>1. /\ UNCHANGED <<active, copies, connected, cpc, barrier, raised, waited, queue>>
          /\ exec[w] = "complete" /\ exec' = [exec EXCEPT ![w] = "idle"]
      BY <1>16 DEF Complete, EndInvocation, ExecGoto
    <2> QED
      BY <2>1 DEF Calling
  <1>17. ASSUME NEW w \in Workers, Raise(w) PROVE Barrier'
    <2>1. /\ UNCHANGED <<active, copies, connected, barrier, raised, waited, queue>>
          /\ exec[w] = "call" /\ exec' = [exec EXCEPT ![w] = "raise"]
          /\ cpc' = [cpc EXCEPT ![w] = cpc'[w]] /\ cpc'[w] \in {"disconnect", "idle"}
          /\ copies # {} => cpc'[w] = "disconnect"
      BY <1>17 DEF Raise, ExecGoto, DestroyScoped, Goto, Alive
    <2>2. barrier # "none" /\ ~waited /\ (barrier = "built" => copies # {} /\ ~raised)
      BY <2>1 DEF Calling
    <2>3. \A v \in Workers : exec[v] # "raise"
      BY <2>1 DEF Scope, InScope
    <2> QED
      BY <2>1, <2>2, <2>3 DEF Calling
  <1>18. ASSUME NEW w \in Workers, Raised(w) PROVE Barrier'
    <2>1. /\ UNCHANGED <<active, copies, connected, cpc, barrier, waited, queue>>
          /\ exec[w] = "raise" /\ exec' = [exec EXCEPT ![w] = "leave"] /\ cpc[w] = "idle"
      BY <1>18 DEF Raised, ExecGoto
    <2>2. \A v \in Workers : exec'[v] \notin {"count", "call", "raise"}
      BY <2>1 DEF Scope, InScope
    <2>3. barrier # "none" /\ (barrier = "built" => active = "disabled")
      BY <2>1
    <2> QED
      BY <2>1, <2>2, <2>3 DEF Calling
  <1> QED
    BY <1>1, <1>2, <1>3, <1>4, <1>5, <1>6, <1>7, <1>8, <1>9, <1>10, <1>11, <1>12, <1>13, <1>14,
       <1>15, <1>16, <1>17, <1>18
       DEF Next, CallStep, InvocationStep

-----------------------------------------------------------------------------
(* The pending calls *)

\* Queueing an invocation keeps those before it.
LEMMA AppendFacts ==
  ASSUME NEW S, NEW s \in Seq(S), NEW e \in S
  PROVE  /\ Append(s, e) \in Seq(S) /\ Append(s, e) # <<>>
         /\ Len(s) \in Nat /\ Len(Append(s, e)) = Len(s) + 1
         /\ \A i \in 1..Len(s) : i \in 1..Len(Append(s, e)) /\ Append(s, e)[i] = s[i]
         /\ Len(s) + 1 \in 1..Len(Append(s, e)) /\ Append(s, e)[Len(s) + 1] = e
  <1>1. /\ Append(s, e) \in Seq(S) /\ Append(s, e) # <<>>
        /\ Len(s) \in Nat /\ Len(Append(s, e)) = Len(s) + 1
        /\ \A i \in 1..Len(s) : Append(s, e)[i] = s[i]
        /\ Append(s, e)[Len(s) + 1] = e
    OBVIOUS
  <1> QED
    BY <1>1

\* Taking the first invocation keeps the others.
LEMMA TailFacts ==
  ASSUME NEW S, NEW s \in Seq(S), s # <<>>
  PROVE  /\ Tail(s) \in Seq(S) /\ Head(s) \in S
         /\ Len(s) \in Nat \ {0} /\ Len(Tail(s)) = Len(s) - 1
         /\ \A i \in 1..Len(s) : \/ s[i] = Head(s)
                                 \/ i - 1 \in 1..Len(Tail(s)) /\ Tail(s)[i - 1] = s[i]
  <1>1. /\ Tail(s) \in Seq(S) /\ Head(s) \in S /\ Head(s) = s[1]
        /\ Len(s) \in Nat \ {0} /\ Len(Tail(s)) = Len(s) - 1
        /\ \A i \in 1..Len(Tail(s)) : Tail(s)[i] = s[i + 1]
    OBVIOUS
  <1>2. ASSUME NEW i \in 1..Len(s), i # 1
        PROVE  i - 1 \in 1..Len(Tail(s)) /\ Tail(s)[i - 1] = s[i]
    BY <1>1, <1>2
  <1> QED
    BY <1>1, <1>2

\* The invocations that are about to begin can be counted.
LEMMA OpeningFinite ==
  IsFiniteSet(Opening) /\ Cardinality(Opening) \in Nat
  <1>1. Opening \subseteq Workers
    BY DEF Opening
  <1> QED
    BY <1>1, SignalWorkersAssumption, FS_Subset, FS_CardinalityType

\* One more has begun.
LEMMA OpeningGrows ==
  ASSUME NEW w \in Workers, w \notin Opening, Opening' = Opening \cup {w}
  PROVE  Cardinality(Opening') = Cardinality(Opening) + 1
  BY OpeningFinite, FS_AddElement

\* One less is about to begin.
LEMMA OpeningShrinks ==
  ASSUME NEW w \in Workers, w \in Opening, Opening' = Opening \ {w}
  PROVE  Cardinality(Opening') = Cardinality(Opening) - 1 /\ Cardinality(Opening) >= 1
  <1>1. Cardinality(Opening \ {w}) = Cardinality(Opening) - 1
    BY OpeningFinite, FS_RemoveElement
  <1>2. Cardinality(Opening \ {w}) \in Nat
    BY OpeningFinite, FS_RemoveElement, FS_CardinalityType
  <1> QED
    BY <1>1, <1>2, OpeningFinite

\* Who starts to queue an invocation is the only one: it has m_CS.
LEMMA AddingAlone ==
  ASSUME TypeOK, Locking, NEW t \in Threads, cpc[t] \in {"count", "queue"}
  PROVE  \A s \in Threads : s # t => cpc[s] \notin {"count", "queue"}
  BY DEF TypeOK, Locking

\* Calls that are neither counted nor taken do not change the account.
LEMMA PendingSteady ==
  ASSUME Pending, UNCHANGED <<queue, pending>>, Opening' = Opening, Adding' = Adding,
         usage' = usage, active' # "disabled" => active # "disabled"
  PROVE  Pending'
  BY DEF Pending, Booked, Serial

\* An emit counts its call before it queues it, and an invocation takes it back when
\* the handler is called.
LEMMA PendingKept ==
  ASSUME TypeOK, Locking, Scope, Barrier, Pending, Unseen, Next
  PROVE  Pending'
  <1>0. Len(queue) \in Nat /\ Cardinality(Opening) \in Nat /\ pending \in Nat
    BY OpeningFinite DEF TypeOK
  <1>1. ASSUME NEW t \in Threads, EmitCount(t) PROVE Pending'
    <2>1. /\ cpc[t] = "count" /\ cpc' = [cpc EXCEPT ![t] = "queue"]
          /\ pending' = pending + 1
          /\ UNCHANGED <<queue, exec, active, usage>>
      BY <1>1 DEF EmitCount, Goto
    <2>2. ~Adding /\ Adding'
      BY <2>1, AddingAlone DEF Adding, TypeOK
    <2>3. Opening' = Opening
      BY <2>1 DEF Opening
    <2>4. Booked' = Booked + 1 /\ Booked \in Nat
      BY <1>0, <2>1, <2>2, <2>3 DEF Booked
    <2> QED
      BY <1>0, <2>1, <2>4 DEF Pending, Serial
  <1>2. ASSUME NEW t \in Threads, EmitQueue(t) PROVE Pending'
    <2>1. /\ cpc[t] = "queue" /\ cpc' = [cpc EXCEPT ![t] = "idle"]
          /\ UNCHANGED <<exec, active, usage>>
      BY <1>2 DEF EmitQueue, Goto
    <2>2. Adding /\ ~Adding'
      BY <2>1, AddingAlone DEF Adding, TypeOK
    <2>3. Opening' = Opening
      BY <2>1 DEF Opening
    <2>4. CASE queue' = Append(queue, emits) /\ pending' = pending
      <3>1. Len(queue') = Len(queue) + 1
        BY <2>4 DEF TypeOK
      <3>2. Booked' = Booked /\ Booked \in Nat
        BY <1>0, <2>2, <2>3, <3>1 DEF Booked
      <3> QED
        BY <2>1, <2>4, <3>2 DEF Pending, Serial
    <2>5. CASE queue' = queue /\ pending' = pending - 1
      <3>1. Booked' = Booked - 1 /\ Booked \in Nat
        BY <1>0, <2>2, <2>3, <2>5 DEF Booked
      <3> QED
        BY <1>0, <2>1, <2>5, <3>1 DEF Pending, Serial
    <2> QED
      BY <1>2, <2>4, <2>5 DEF EmitQueue
  <1>3. ASSUME NEW w \in Workers, Take(w) PROVE Pending'
    <2>1. /\ exec[w] = "idle" /\ exec' = [exec EXCEPT ![w] = "enter"]
          /\ queue # <<>> /\ queue' = Tail(queue)
          /\ UNCHANGED <<pending, active, usage, cpc>>
      BY <1>3 DEF Take, ExecGoto
    <2>2. Len(queue') = Len(queue) - 1
      BY <2>1, TailFacts DEF TypeOK
    <2>3. w \notin Opening /\ Opening' = Opening \cup {w}
      BY <2>1 DEF Opening, TypeOK
    <2>4. Cardinality(Opening') = Cardinality(Opening) + 1
      BY <2>3, OpeningGrows
    <2>5. Adding' = Adding
      BY <2>1 DEF Adding
    <2>6. Booked' = Booked
      BY <1>0, <2>2, <2>4, <2>5 DEF Booked
    <2> QED
      BY <2>1, <2>6 DEF Pending, Serial
  <1>4. ASSUME NEW w \in Workers, Enter(w) PROVE Pending'
    <2>1. /\ exec[w] = "enter" /\ UNCHANGED <<pending, queue, usage, cpc>>
      BY <1>4 DEF Enter
    <2>2. Adding' = Adding
      BY <2>1 DEF Adding
    <2>3. CASE active = "enabled"
      <3>1. exec' = [exec EXCEPT ![w] = "count"]
        BY <1>4, <2>3 DEF Enter, ExecGoto
      <3>2. Opening' = Opening
        BY <2>1, <3>1 DEF Opening, TypeOK
      <3> QED
        BY <2>1, <2>2, <2>3, <3>2, PendingSteady
    <2>4. CASE active # "enabled"
      <3>1. exec' = [exec EXCEPT ![w] = "idle"] /\ active' = active
        BY <1>4, <2>4 DEF Enter, EndInvocation, ExecGoto
      <3>2. w \in Opening /\ Opening' = Opening \ {w}
        BY <2>1, <3>1 DEF Opening, TypeOK
      <3>3. Cardinality(Opening') = Cardinality(Opening) - 1
        BY <3>2, OpeningShrinks
      <3>4. Booked' = Booked - 1 /\ Booked \in Nat
        BY <1>0, <2>1, <2>2, <3>3 DEF Booked
      <3>5. ~Serial \/ active = "disabled"
        BY <2>1, <2>4 DEF Unseen, Scope, InScope, TypeOK
      <3> QED
        BY <1>0, <2>1, <3>1, <3>4, <3>5 DEF Pending, Serial
    <2> QED
      BY <2>3, <2>4
  <1>5. ASSUME NEW w \in Workers, Count(w) PROVE Pending'
    <2>1. /\ exec[w] = "count" /\ exec' = [exec EXCEPT ![w] = "call"]
          /\ pending' = pending - 1
          /\ UNCHANGED <<queue, active, usage, cpc>>
      BY <1>5 DEF Count, ExecGoto
    <2>2. w \in Opening /\ Opening' = Opening \ {w}
      BY <2>1 DEF Opening, TypeOK
    <2>3. Cardinality(Opening') = Cardinality(Opening) - 1
      BY <2>2, OpeningShrinks
    <2>4. Adding' = Adding
      BY <2>1 DEF Adding
    <2>5. Booked' = Booked - 1 /\ Booked \in Nat
      BY <1>0, <2>1, <2>3, <2>4 DEF Booked
    <2> QED
      BY <1>0, <2>1, <2>5 DEF Pending, Serial
  <1>6. ASSUME NEW w \in Workers,
               FinishCall(w) \/ Leave(w) \/ Complete(w) \/ Raise(w) \/ Raised(w)
        PROVE  Pending'
    <2>1. /\ UNCHANGED <<queue, pending, usage>>
          /\ active' # "disabled" => active # "disabled"
      BY <1>6 DEF FinishCall, Leave, Complete, Raise, Raised
    <2>2. /\ exec[w] \notin {"enter", "count"} /\ exec'[w] \notin {"enter", "count"}
          /\ \A v \in Workers : v # w => exec'[v] = exec[v]
      BY <1>6 DEF FinishCall, Leave, Complete, Raise, Raised, EndInvocation, ExecGoto, TypeOK
    <2>3. \A t \in Threads : cpc'[t] = "queue" <=> cpc[t] = "queue"
      BY <1>6 DEF FinishCall, Leave, Complete, Raise, Raised, DestroyScoped, Goto, TypeOK, Barrier,
                  Threads
    <2>4. Opening' = Opening /\ Adding' = Adding
      BY <2>2, <2>3 DEF Opening, Adding
    <2> QED
      BY <2>1, <2>4, PendingSteady
  <1>7. ASSUME NEW t \in Threads,
               \/ Emit(t) \/ Disconnect(t) \/ EmitLock(t) \/ ResetLock(t) \/ DisconnectLock(t)
               \/ SkipAllLock(t) \/ Disable(t) \/ DisableWait(t)
        PROVE  Pending'
    <2>1. /\ UNCHANGED <<queue, pending, usage, exec>>
          /\ active' # "disabled" => active # "disabled"
      BY <1>7 DEF Emit, Disconnect, EmitLock, ResetLock, DisconnectLock, SkipAllLock, Disable,
                  DisableWait
    <2>2. \A s \in Threads : cpc'[s] = "queue" <=> cpc[s] = "queue"
      BY <1>7 DEF Emit, Disconnect, EmitLock, ResetLock, DisconnectLock, SkipAllLock, Disable,
                  DisableWait, EndDisable, DestroyScoped, Goto, Allowed, TypeOK
    <2>3. Opening' = Opening /\ Adding' = Adding
      BY <2>1, <2>2 DEF Opening, Adding
    <2> QED
      BY <2>1, <2>3, PendingSteady
  <1>8. ASSUME NEW u \in Threads, NEW d \in BOOLEAN,
               \/ Reset(u) \/ BarrierWait(u) \/ BarrierDestroy(u) \/ Connect(u) \/ SkipAll(u, d)
        PROVE  Pending'
    <2>1. UNCHANGED <<queue, pending, usage, exec, active>>
      BY <1>8 DEF Reset, BarrierWait, BarrierDestroy, Connect, PushHandler, AddConnection, SkipAll
    <2>2. \A s \in Threads : cpc'[s] = "queue" <=> cpc[s] = "queue"
      BY <1>8 DEF Reset, BarrierWait, BarrierDestroy, Connect, PushHandler, AddConnection,
         SkipAll, DestroyScoped, Goto,
                  Allowed, TypeOK
    <2>3. Opening' = Opening /\ Adding' = Adding
      BY <2>1, <2>2 DEF Opening, Adding
    <2> QED
      BY <2>1, <2>3, PendingSteady
  <1>9. ASSUME BarrierFree PROVE Pending'
    BY <1>9, PendingSteady DEF BarrierFree, Opening, Adding
  <1> QED
    BY <1>1, <1>2, <1>3, <1>4, <1>5, <1>6, <1>7, <1>8, <1>9
       DEF Next, CallStep, InvocationStep, Threads

\* A skipped update is covered by the pending call that made it superfluous; an
\* invocation is not skipped unless the handler was disabled.
LEMMA UnseenKept ==
  ASSUME TypeOK, Locking, Scope, Barrier, Pending, Unseen, Next
  PROVE  Unseen'
  <1> SUFFICES ASSUME Serial PROVE Unseen'
    BY SetupKept DEF Unseen, Serial
  <1> DEFINE Alone == \A v, w \in Workers : exec[v] # "idle" /\ exec[w] # "idle" => v = w
             ToSee(e) == \/ \E i \in 1..Len(queue) : queue[i] = e
                         \/ \E w \in Opening : inv[w] = e
                         \/ Adding /\ e = emits
             Singles == active # "disabled" /\ mode = "single_updates" => \A e \in unseen : ToSee(e)
             Batch == active # "disabled" /\ mode = "batch_updates" /\ unseen # {} =>
                        queue # <<>> \/ Opening # {} \/ (Adding /\ before < 1)
  <1>a. Alone /\ Singles /\ Batch
    BY DEF Unseen
  <1>b. SUFFICES Alone' /\ Singles' /\ Batch'
    BY DEF Unseen
  <1>c. Len(queue) \in Nat /\ Cardinality(Opening) \in Nat
    BY OpeningFinite DEF TypeOK
  <1> HIDE DEF Alone, Singles, Batch
  <1>1. ASSUME NEW t \in Threads, EmitCount(t) PROVE Alone' /\ Singles' /\ Batch'
    <2>1. /\ cpc[t] = "count" /\ cpc' = [cpc EXCEPT ![t] = "queue"]
          /\ before' = pending /\ unseen' = unseen \cup {emits}
          /\ UNCHANGED <<queue, exec, inv, active, usage, mode, emits>>
      BY <1>1 DEF EmitCount, Goto
    <2>2. ~Adding /\ Adding'
      BY <2>1, AddingAlone DEF Adding, TypeOK
    <2>3. Opening' = Opening
      BY <2>1 DEF Opening
    <2>4. Alone'
      BY <1>a, <2>1 DEF Alone
    <2>5. Singles'
      BY <1>a, <2>1, <2>2, <2>3 DEF Singles
    <2>6. active # "disabled" /\ pending >= 1 => queue # <<>> \/ Opening # {}
      <3>1. queue = <<>> => Len(queue) = 0
        OBVIOUS
      <3>2. Opening = {} => Cardinality(Opening) = 0
        BY FS_EmptySet
      <3> QED
        BY <2>2, <3>1, <3>2 DEF Pending, Booked
    <2>7. Batch'
      BY <2>1, <2>2, <2>3, <2>6 DEF Batch, TypeOK
    <2> QED
      BY <2>4, <2>5, <2>7
  <1>2. ASSUME NEW t \in Threads, EmitQueue(t) PROVE Alone' /\ Singles' /\ Batch'
    <2>1. /\ cpc[t] = "queue" /\ cpc' = [cpc EXCEPT ![t] = "idle"]
          /\ UNCHANGED <<exec, inv, active, usage, mode, emits, unseen>>
      BY <1>2 DEF EmitQueue, Goto
    <2>2. Adding /\ ~Adding' /\ emits \in 1..MaxEmits
      BY <2>1, AddingAlone, BoundsAssumption DEF Adding, TypeOK, Locking
    <2>3. Opening' = Opening
      BY <2>1 DEF Opening
    <2>4. Alone'
      BY <1>a, <2>1 DEF Alone
    <2>5. CASE queue' = Append(queue, emits)
      <3>1. /\ queue' # <<>> /\ Len(queue) + 1 \in 1..Len(queue') /\ queue'[Len(queue) + 1] = emits
            /\ \A i \in 1..Len(queue) : i \in 1..Len(queue') /\ queue'[i] = queue[i]
        BY <2>2, <2>5, AppendFacts DEF TypeOK
      <3>2. Singles'
        BY <1>a, <2>1, <2>3, <3>1 DEF Singles
      <3>3. Batch'
        BY <3>1 DEF Batch
      <3> QED
        BY <2>4, <3>2, <3>3
    <2>6. CASE queue' = queue /\ ~(mode = "single_updates" \/ before < 1)
      BY <1>a, <2>1, <2>2, <2>3, <2>4, <2>6 DEF Singles, Batch
    <2> QED
      BY <1>2, <2>5, <2>6 DEF EmitQueue
  <1>3. ASSUME NEW w \in Workers, Take(w) PROVE Alone' /\ Singles' /\ Batch'
    <2>1. /\ \A v \in Workers : exec[v] = "idle"
          /\ exec' = [exec EXCEPT ![w] = "enter"] /\ inv' = [inv EXCEPT ![w] = Head(queue)]
          /\ queue # <<>> /\ queue' = Tail(queue)
          /\ UNCHANGED <<unseen, active, mode, cpc, emits, before>>
      BY <1>3 DEF Take, ExecGoto, Serial
    <2>2. Alone'
      BY <2>1 DEF Alone, TypeOK
    <2>3. Opening = {} /\ w \in Opening' /\ inv'[w] = Head(queue)
      BY <2>1 DEF Opening, TypeOK
    <2>4. \A i \in 1..Len(queue) : \/ queue[i] = inv'[w]
                                   \/ \E k \in 1..Len(queue') : queue'[k] = queue[i]
      <3>1. queue \in Seq(1..MaxEmits)
        BY DEF TypeOK
      <3>2. \A i \in 1..Len(queue) : \/ queue[i] = Head(queue)
                                     \/ /\ i - 1 \in 1..Len(Tail(queue))
                                        /\ Tail(queue)[i - 1] = queue[i]
        BY <2>1, <3>1, TailFacts
      <3> QED
        BY <2>1, <2>3, <3>2
    <2>5. Adding' = Adding
      BY <2>1 DEF Adding
    <2>6. Singles'
      <3> SUFFICES ASSUME active' # "disabled", mode' = "single_updates", NEW e \in unseen'
                   PROVE  ToSee(e)'
        BY DEF Singles
      <3>1. ToSee(e)
        BY <1>a, <2>1 DEF Singles
      <3>2. CASE \E i \in 1..Len(queue) : queue[i] = e
        BY <2>3, <2>4, <3>2
      <3>3. CASE Adding /\ e = emits
        BY <2>1, <2>5, <3>3
      <3> QED
        BY <2>3, <3>1, <3>2, <3>3
    <2>7. Batch'
      BY <2>3 DEF Batch
    <2> QED
      BY <2>2, <2>6, <2>7
  <1>4. ASSUME NEW w \in Workers, Enter(w) PROVE Alone' /\ Singles' /\ Batch'
    <2>1. /\ exec[w] = "enter" /\ exec' = [exec EXCEPT ![w] = exec'[w]]
          /\ UNCHANGED <<queue, unseen, mode, cpc, emits, before>>
      BY <1>4 DEF Enter, EndInvocation, ExecGoto
    <2>2. Alone'
      BY <1>a, <2>1 DEF Alone, TypeOK
    <2>3. CASE active = "enabled"
      <3>1. exec' = [exec EXCEPT ![w] = "count"] /\ inv' = inv
        BY <1>4, <2>3 DEF Enter, ExecGoto
      <3>2. Opening' = Opening /\ Adding' = Adding
        BY <2>1, <3>1 DEF Opening, Adding, TypeOK
      <3> QED
        BY <1>a, <2>1, <2>2, <2>3, <3>1, <3>2 DEF Singles, Batch
    <2>4. CASE active # "enabled"
      <3>1. active' = "disabled"
        BY <1>4, <1>a, <2>1, <2>4 DEF Enter, Alone, Scope, InScope, TypeOK
      <3> QED
        BY <2>2, <3>1 DEF Singles, Batch
    <2> QED
      BY <2>3, <2>4
  <1>5. ASSUME NEW w \in Workers, Count(w) PROVE Alone' /\ Singles' /\ Batch'
    <2>1. /\ exec[w] = "count" /\ exec' = [exec EXCEPT ![w] = "call"]
          /\ unseen' = IF mode = "batch_updates" THEN {} ELSE unseen \ {inv[w]}
          /\ UNCHANGED <<queue, active, mode, cpc, emits, before, inv>>
      BY <1>5 DEF Count, ExecGoto
    <2>2. Alone'
      BY <1>a, <2>1 DEF Alone, TypeOK
    <2>3. Opening' = Opening \ {w} /\ Adding' = Adding
      BY <2>1 DEF Opening, Adding, TypeOK
    <2>4. Singles'
      BY <1>a, <2>1, <2>3 DEF Singles
    <2>5. Batch'
      BY <2>1 DEF Batch
    <2> QED
      BY <2>2, <2>4, <2>5
  <1>6. ASSUME UNCHANGED <<queue, unseen, mode, emits, before>>,
               active' # "disabled" => active # "disabled",
               Opening' = Opening, \A w \in Opening : inv'[w] = inv[w], Adding' = Adding
        PROVE  Singles' /\ Batch'
    BY <1>a, <1>6 DEF Singles, Batch
  <1>7. ASSUME NEW w \in Workers, FinishCall(w) \/ Leave(w) \/ Complete(w) \/ Raise(w) \/ Raised(w)
        PROVE  Alone' /\ Singles' /\ Batch'
    <2>1. /\ UNCHANGED <<queue, unseen, mode, emits, before, cpc>>
          /\ active' # "disabled" => active # "disabled"
      BY <1>7 DEF FinishCall, Leave, Complete, Raise, Raised, Serial, Barrier
    <2>2. /\ exec[w] \notin {"idle", "enter", "count"} /\ exec'[w] \notin {"enter", "count"}
          /\ \A v \in Workers : v # w => exec'[v] = exec[v] /\ inv'[v] = inv[v]
      BY <1>7 DEF FinishCall, Leave, Complete, Raise, Raised, EndInvocation, ExecGoto, TypeOK
    <2>3. Alone'
      BY <1>a, <2>2 DEF Alone
    <2>4. Opening' = Opening /\ Adding' = Adding /\ \A v \in Opening : inv'[v] = inv[v]
      BY <2>1, <2>2 DEF Opening, Adding
    <2> QED
      BY <1>6, <2>1, <2>3, <2>4
  <1>8. ASSUME NEW t \in Threads, EmitLock(t) PROVE Alone' /\ Singles' /\ Batch'
    <2>1. /\ UNCHANGED <<queue, unseen, mode, active, before, exec, inv>>
          /\ lock = None
          /\ \A s \in Threads : cpc'[s] = "queue" <=> cpc[s] = "queue"
      BY <1>8 DEF EmitLock, Goto, TypeOK
    <2>2. ~Adding /\ ~Adding'
      BY <2>1, SignalThreadsAssumption DEF Adding, Locking, Threads
    <2>3. Opening' = Opening
      BY <2>1 DEF Opening
    <2> QED
      BY <1>a, <2>1, <2>2, <2>3 DEF Alone, Singles, Batch
  <1>9. ASSUME NEW t \in Threads,
               \/ Emit(t) \/ Disconnect(t) \/ ResetLock(t) \/ DisconnectLock(t)
               \/ SkipAllLock(t) \/ Disable(t) \/ DisableWait(t)
        PROVE  Alone' /\ Singles' /\ Batch'
    <2>1. /\ UNCHANGED <<queue, unseen, mode, emits, before, exec, inv>>
          /\ active' # "disabled" => active # "disabled"
      BY <1>9 DEF Emit, Disconnect, ResetLock, DisconnectLock, SkipAllLock, Disable, DisableWait
    <2>2. \A s \in Threads : cpc'[s] = "queue" <=> cpc[s] = "queue"
      BY <1>9 DEF Emit, Disconnect, ResetLock, DisconnectLock, SkipAllLock, Disable,
                  DisableWait, EndDisable, DestroyScoped, Goto, Allowed, TypeOK
    <2>3. Opening' = Opening /\ Adding' = Adding
      BY <2>1, <2>2 DEF Opening, Adding
    <2>4. Alone'
      BY <1>a, <2>1 DEF Alone
    <2> QED
      BY <1>6, <2>1, <2>3, <2>4
  <1>10. ASSUME NEW u \in Threads, NEW d \in BOOLEAN,
                \/ Reset(u) \/ BarrierWait(u) \/ BarrierDestroy(u) \/ Connect(u) \/ SkipAll(u, d)
         PROVE  Alone' /\ Singles' /\ Batch'
    <2>1. UNCHANGED <<queue, unseen, mode, emits, before, exec, inv, active>>
      BY <1>10 DEF Reset, BarrierWait, BarrierDestroy, Connect, PushHandler, AddConnection, SkipAll
    <2>2. \A s \in Threads : cpc'[s] = "queue" <=> cpc[s] = "queue"
      BY <1>10 DEF Reset, BarrierWait, BarrierDestroy, Connect, PushHandler, AddConnection,
         SkipAll, DestroyScoped, Goto,
                   Allowed, TypeOK
    <2>3. Opening' = Opening /\ Adding' = Adding
      BY <2>1, <2>2 DEF Opening, Adding
    <2>4. Alone'
      BY <1>a, <2>1 DEF Alone
    <2> QED
      BY <1>6, <2>1, <2>3, <2>4
  <1>11. ASSUME BarrierFree PROVE Alone' /\ Singles' /\ Batch'
    BY <1>6, <1>11, <1>a DEF BarrierFree, Opening, Adding, Alone
  <1> QED
    BY <1>1, <1>2, <1>3, <1>4, <1>5, <1>7, <1>8, <1>9, <1>10, <1>11
       DEF Next, CallStep, InvocationStep, Threads

-----------------------------------------------------------------------------
(* Types *)

\* An invocation ends without a trace.
LEMMA EndTypes ==
  ASSUME TypeOK, NEW w \in Workers, EndInvocation(w)
  PROVE  /\ inv' \in [Workers -> 0..MaxEmits]
         /\ exec' \in [Workers -> {"idle", "enter", "count", "call", "raise", "leave", "complete"}]
  <1>1. 0 \in 0..MaxEmits
    BY BoundsAssumption
  <1> QED
    BY <1>1 DEF TypeOK, EndInvocation, ExecGoto

\* The count of pending calls does not fall below zero: who takes a call back has
\* counted it.
LEMMA TypeKept == ASSUME IInv, Next PROVE TypeOK'
  <1> DEFINE
        Counts == /\ pending' \in Nat /\ before' \in Nat /\ value' \in 0..MaxEmits
                  /\ emits' \in 0..MaxEmits /\ skips' \in 0..MaxSkips
                  /\ unseen' \subseteq 1..MaxEmits
        Flags == /\ connected' \in BOOLEAN /\ raised' \in BOOLEAN /\ waited' \in BOOLEAN
                 /\ completed' \in BOOLEAN /\ destroyed' \in BOOLEAN
                 /\ barrier' \in {"none", "built", "destroyed", "freed"}
                 /\ active' \in {"disabled", "enabled", "running"}
        Owners == /\ lock' \in Threads \cup {None} /\ managing' \in Threads \cup {None}
                  /\ copies' \subseteq Threads
                  /\ first' \in Threads \cup {None} /\ returned' \subseteq Threads
        Calls == cpc' \in [Threads -> {"idle", "emit", "count", "queue", "reset", "disconnect",
                                       "skipAll", "disable", "wait"}]
        Invocations ==
          /\ queue' \in Seq(1..MaxEmits) /\ inv' \in [Workers -> 0..MaxEmits]
          /\ exec' \in [Workers -> {"idle", "enter", "count", "call", "raise", "leave", "complete"}]
        Rest == Counts /\ Flags /\ Owners /\ Calls /\ Invocations
  <1> USE BoundsAssumption DEF IInv, TypeOK
  <1>1. ASSUME NEW t \in Threads, cpc[t] \in {"count", "queue"} PROVE emits \in 1..MaxEmits
    BY <1>1 DEF Locking
  <1>2. ASSUME NEW t \in Threads, Emit(t) \/ Disconnect(t) PROVE Rest
    <2>1. Counts /\ Flags /\ Owners /\ Invocations
      <3>1. Counts
        BY <1>2 DEF Emit, Disconnect
      <3>2. Flags
        BY <1>2 DEF Emit, Disconnect
      <3>3. Owners
        BY <1>2 DEF Emit, Disconnect
      <3>4. Invocations
        BY <1>2 DEF Emit, Disconnect
      <3> QED
        BY <3>1, <3>2, <3>3, <3>4
    <2>2. Calls
      BY <1>2 DEF Emit, Disconnect, Goto
    <2> QED
      BY <2>1, <2>2
  <1>3. ASSUME NEW t \in Threads, EmitLock(t) PROVE Rest
    <2>1. Counts /\ Flags /\ Owners /\ Invocations
      <3>1. Counts
        BY <1>3 DEF EmitLock
      <3>2. Flags
        BY <1>3 DEF EmitLock
      <3>3. Owners
        BY <1>3 DEF EmitLock
      <3>4. Invocations
        BY <1>3 DEF EmitLock
      <3> QED
        BY <3>1, <3>2, <3>3, <3>4
    <2>2. Calls
      BY <1>3 DEF EmitLock, Goto
    <2> QED
      BY <2>1, <2>2
  <1>4. ASSUME NEW t \in Threads, EmitCount(t) PROVE Rest
    <2>1. Counts
      BY <1>1, <1>4 DEF EmitCount
    <2>2. Flags /\ Owners /\ Invocations
      <3>1. Flags
        BY <1>4 DEF EmitCount
      <3>2. Owners
        BY <1>4 DEF EmitCount
      <3>3. Invocations
        BY <1>4 DEF EmitCount
      <3> QED
        BY <3>1, <3>2, <3>3
    <2>3. Calls
      BY <1>4 DEF EmitCount, Goto
    <2> QED
      BY <2>1, <2>2, <2>3
  <1>5. ASSUME NEW t \in Threads, EmitQueue(t) PROVE Rest
    <2>1. pending - 1 \in Nat
      <3>1. Adding
        BY <1>5 DEF EmitQueue, Adding
      <3> QED
        BY <3>1, OpeningFinite DEF Pending, Booked
    <2>2. Counts
      BY <1>5, <2>1 DEF EmitQueue
    <2>3. Flags /\ Owners
      BY <1>5 DEF EmitQueue
    <2>4. Append(queue, emits) \in Seq(1..MaxEmits)
      BY <1>1, <1>5, AppendFacts DEF EmitQueue
    <2>5. Invocations
      BY <1>5, <2>4 DEF EmitQueue
    <2>6. Calls
      BY <1>5 DEF EmitQueue, Goto
    <2> QED
      BY <2>2, <2>3, <2>5, <2>6
  <1>6. ASSUME NEW t \in Threads, ResetLock(t) PROVE Rest
    <2>2. Counts /\ Flags /\ Owners /\ Invocations
      <3>1. Counts
        BY <1>6 DEF ResetLock
      <3>2. Flags
        BY <1>6 DEF ResetLock
      <3>3. Owners
        BY <1>6 DEF ResetLock
      <3>4. Invocations
        BY <1>6 DEF ResetLock
      <3> QED
        BY <3>1, <3>2, <3>3, <3>4
    <2>3. Calls
      BY <1>6 DEF ResetLock, DestroyScoped, Goto
    <2> QED
      BY <2>2, <2>3
  <1>7. ASSUME NEW t \in Threads, DisconnectLock(t) \/ SkipAllLock(t) PROVE Rest
    <2>1. connected' \in BOOLEAN
      BY <1>7, Zenon DEF DisconnectLock, SkipAllLock
    <2>2. Counts /\ Flags /\ Owners /\ Invocations
      <3>1. Counts
        BY <1>7, <2>1 DEF DisconnectLock, SkipAllLock
      <3>2. Flags
        BY <1>7, <2>1 DEF DisconnectLock, SkipAllLock
      <3>3. Owners
        BY <1>7, <2>1 DEF DisconnectLock, SkipAllLock
      <3>4. Invocations
        BY <1>7, <2>1 DEF DisconnectLock, SkipAllLock
      <3> QED
        BY <3>1, <3>2, <3>3, <3>4
    <2>3. Calls
      BY <1>7 DEF DisconnectLock, SkipAllLock, Goto
    <2> QED
      BY <2>2, <2>3
  <1>8. ASSUME NEW t \in Threads, Disable(t) \/ DisableWait(t) PROVE Rest
    <2>1. Counts /\ Flags /\ Invocations
      <3>1. Counts
        BY <1>8 DEF Disable, DisableWait
      <3>2. Flags
        <4>1. connected' \in BOOLEAN
          BY <1>8, Zenon DEF Disable, DisableWait, EndDisable
        <4> QED
          BY <1>8, <4>1 DEF Disable, DisableWait
      <3>3. Invocations
        BY <1>8 DEF Disable, DisableWait
      <3> QED
        BY <3>1, <3>2, <3>3
    <2>2. Owners
      BY <1>8 DEF Disable, DisableWait, EndDisable
    <2>3. Calls
      BY <1>8 DEF Disable, DisableWait, EndDisable, Goto
    <2> QED
      BY <2>1, <2>2, <2>3
  <1>9. ASSUME NEW u \in Threads, Reset(u) \/ BarrierDestroy(u) PROVE Rest
    <2>1. Counts /\ Flags /\ Owners /\ Invocations
      <3>1. Counts
        BY <1>9 DEF Reset, BarrierDestroy
      <3>2. Flags
        BY <1>9 DEF Reset, BarrierDestroy
      <3>3. Owners
        BY <1>9 DEF Reset, BarrierDestroy
      <3>4. Invocations
        BY <1>9 DEF Reset, BarrierDestroy
      <3> QED
        BY <3>1, <3>2, <3>3, <3>4
    <2>2. Calls
      BY <1>9 DEF Reset, BarrierDestroy, DestroyScoped, Goto
    <2> QED
      BY <2>1, <2>2
  <1>10. ASSUME NEW u \in Users, Connect(u) \/ BarrierWait(u) PROVE Rest
    <2>1. connected' \in BOOLEAN /\ waited' \in BOOLEAN
      BY <1>10, Zenon DEF Connect, PushHandler, AddConnection, BarrierWait
    <2>2. copies' \subseteq Threads
      BY <1>10 DEF Connect, PushHandler, AddConnection, BarrierWait, Threads
    <2>3. barrier' \in {"none", "built", "destroyed", "freed"}
      BY <1>10 DEF Connect, PushHandler, AddConnection, BarrierWait
    <2> QED
      BY <1>10, <2>1, <2>2, <2>3 DEF Connect, PushHandler, AddConnection, BarrierWait
  <1>11. ASSUME NEW u \in Threads, NEW d \in BOOLEAN, SkipAll(u, d) PROVE Rest
    <2>1. Counts /\ Flags /\ Owners /\ Invocations
      <3>1. Counts
        BY <1>11 DEF SkipAll
      <3>2. Flags
        BY <1>11 DEF SkipAll
      <3>3. Owners
        BY <1>11 DEF SkipAll
      <3>4. Invocations
        BY <1>11 DEF SkipAll
      <3> QED
        BY <3>1, <3>2, <3>3, <3>4
    <2>2. Calls
      BY <1>11 DEF SkipAll, Goto
    <2> QED
      BY <2>1, <2>2
  <1>12. ASSUME BarrierFree PROVE Rest
    BY <1>12 DEF BarrierFree
  <1>13. ASSUME NEW w \in Workers, Take(w) PROVE Rest
    <2>1. Head(queue) \in 1..MaxEmits /\ Tail(queue) \in Seq(1..MaxEmits)
      BY <1>13, TailFacts DEF Take
    <2>2. Invocations
      BY <1>13, <2>1 DEF Take, ExecGoto
    <2> QED
      BY <1>13, <2>2 DEF Take
  <1>14. ASSUME NEW w \in Workers, Enter(w) \/ Leave(w) PROVE Rest
    <2>1. Counts /\ Flags /\ Owners /\ Calls
      <3>1. Counts
        BY <1>14 DEF Enter, Leave
      <3>2. Flags
        BY <1>14 DEF Enter, Leave
      <3>3. Owners
        BY <1>14 DEF Enter, Leave
      <3>4. Calls
        BY <1>14 DEF Enter, Leave
      <3> QED
        BY <3>1, <3>2, <3>3, <3>4
    <2>2. Invocations
      <3>1. CASE EndInvocation(w)
        BY <1>14, <3>1, EndTypes DEF Enter, Leave
      <3>2. CASE inv' = inv /\ (ExecGoto(w, "count") \/ ExecGoto(w, "complete"))
        BY <1>14, <3>2 DEF Enter, Leave, ExecGoto
      <3> QED
        BY <1>14, <3>1, <3>2 DEF Enter, Leave
    <2> QED
      BY <2>1, <2>2
  <1>15. ASSUME NEW w \in Workers, Count(w) PROVE Rest
    <2>1. pending - 1 \in Nat
      <3>1. Opening # {}
        BY <1>15 DEF Count, Opening
      <3>2. Cardinality(Opening) # 0
        BY <3>1, OpeningFinite, FS_EmptySet
      <3> QED
        BY <3>2, OpeningFinite DEF Pending, Booked
    <2>2. Counts
      BY <1>15, <2>1 DEF Count
    <2>3. Flags /\ Owners /\ Calls
      <3>1. Flags
        BY <1>15 DEF Count
      <3>2. Owners
        BY <1>15 DEF Count
      <3>3. Calls
        BY <1>15 DEF Count
      <3> QED
        BY <3>1, <3>2, <3>3
    <2>4. Invocations
      BY <1>15 DEF Count, ExecGoto
    <2> QED
      BY <2>2, <2>3, <2>4
  <1>16. ASSUME NEW w \in Workers, FinishCall(w) PROVE Rest
    BY <1>16 DEF FinishCall, ExecGoto
  <1>17. ASSUME NEW w \in Workers, Complete(w) \/ Raised(w) PROVE Rest
    <2>1. completed' \in BOOLEAN /\ raised' \in BOOLEAN
      BY <1>17, Zenon DEF Complete, Raised
    <2>2. Counts /\ Flags /\ Owners /\ Calls
      <3>1. Counts
        BY <1>17, <2>1 DEF Complete, Raised
      <3>2. Flags
        BY <1>17, <2>1 DEF Complete, Raised
      <3>3. Owners
        BY <1>17, <2>1 DEF Complete, Raised
      <3>4. Calls
        BY <1>17, <2>1 DEF Complete, Raised
      <3> QED
        BY <3>1, <3>2, <3>3, <3>4
    <2>3. Invocations
      <3>1. CASE Complete(w)
        BY <3>1, EndTypes DEF Complete
      <3>2. CASE Raised(w)
        BY <3>2 DEF Raised, ExecGoto
      <3> QED
        BY <1>17, <3>1, <3>2
    <2> QED
      BY <2>2, <2>3
  <1>18. ASSUME NEW w \in Workers, Raise(w) PROVE Rest
    <2>1. Counts /\ Flags /\ Owners
      <3>1. Counts
        BY <1>18 DEF Raise
      <3>2. Flags
        BY <1>18 DEF Raise
      <3>3. Owners
        BY <1>18 DEF Raise
      <3> QED
        BY <3>1, <3>2, <3>3
    <2>2. Calls
      BY <1>18 DEF Raise, DestroyScoped, Goto, Threads
    <2>3. Invocations
      BY <1>18 DEF Raise, ExecGoto
    <2> QED
      BY <2>1, <2>2, <2>3
  <1>19. Rest
    BY <1>2, <1>3, <1>4, <1>5, <1>6, <1>7, <1>8, <1>9, <1>10, <1>11, <1>12, <1>13, <1>14, <1>15,
       <1>16, <1>17, <1>18
       DEF Next, CallStep, InvocationStep, Threads
  <1> QED
    BY <1>19, SetupKept

-----------------------------------------------------------------------------
(* The theorems *)

\* Before anything is connected the invariant holds.
LEMMA Initially == Init => IInv
  <1> SUFFICES ASSUME Init PROVE IInv
    OBVIOUS
  <1>1. TypeOK
    <2>1. queue \in Seq(1..MaxEmits)
      BY DEF Init
    <2>2. /\ connected \in BOOLEAN /\ raised \in BOOLEAN /\ waited \in BOOLEAN
          /\ completed \in BOOLEAN /\ destroyed \in BOOLEAN
      BY Zenon DEF Init
    <2>3. /\ value \in 0..MaxEmits /\ emits \in 0..MaxEmits /\ skips \in 0..MaxSkips
          /\ pending \in Nat /\ before \in Nat /\ inv \in [Workers -> 0..MaxEmits]
      BY BoundsAssumption DEF Init
    <2> QED
      BY <2>1, <2>2, <2>3 DEF Init, TypeOK
  <1>2. Locking /\ Used
    BY SignalThreadsAssumption DEF Init, Locking, Used, Threads
  <1>3. Scope
    BY DEF Init, Scope, InScope
  <1>4. Cancelling
    BY DEF Init, Cancelling, Threads
  <1>5. Managed /\ Waited
    BY DEF Init, Managed, Waited, Threads
  <1>6. Barrier
    BY DEF Init, Barrier, Threads
  <1>7. Pending
    <2>1. Opening = {} /\ ~Adding
      BY DEF Init, Opening, Adding
    <2>2. Booked = 0
      BY <2>1, FS_EmptySet DEF Init, Booked
    <2> QED
      BY <2>2 DEF Init, Pending
  <1>8. Unseen
    BY DEF Init, Unseen
  <1> QED
    BY <1>1, <1>2, <1>3, <1>4, <1>5, <1>6, <1>7, <1>8 DEF IInv

\* The invariant is inductive, whatever the usage of the signal.
THEOREM Invariance == Spec => []IInv
  <1>1. IInv /\ [Next]_vars => IInv'
    <2> SUFFICES ASSUME IInv, [Next]_vars PROVE IInv'
      OBVIOUS
    <2>1. CASE Next
      BY <2>1, TypeKept, LockingKept, UsedKept, ScopeKept, CancellingKept, ManagedKept, WaitedKept,
         BarrierKept, PendingKept, UnseenKept DEF IInv
    <2>2. CASE UNCHANGED vars
      BY <2>2 DEF vars, IInv, TypeOK, Locking, Used, Scope, Cancelling, Inside, Managed, Waited,
                  Barrier, Calling, Pending, Booked, Serial, Unseen, Opening, Adding
    <2> QED
      BY <2>1, <2>2
  <1> QED
    BY <1>1, Initially, PTL DEF Spec

\* Types are kept; in particular m_pending never falls below zero, although skipped
\* and executed calls are taken back by different threads.
THEOREM TypeCorrectness == Spec => []TypeOK
  BY Invariance, PTL DEF IInv

\* No thread is in the handler once the call that disabled it from outside has returned,
\* or any reset of a connection_manager that the handler leaves alone.
THEOREM QuietAfterDisconnect == Spec => []FirstDisconnectIsQuiet
  <1>1. IInv => FirstDisconnectIsQuiet
    BY DEF IInv, Cancelling, Waited, InScope, Calling, FirstDisconnectIsQuiet
  <1> QED
    BY <1>1, Invariance, PTL

\* Threads wait for each other over disconnect(), skip_all(), ~signal_p and resets only
\* in programs in which the handler makes such a call itself, or emits, and the owner
\* skips or destroys the signal or somebody resets the manager.
THEOREM DeadlockNeedsHandler ==
  Spec => [](Deadlocked => "handler" \in usage /\ ("owner" \in usage \/ "manager" \in usage))
  <1>1. ASSUME IInv, Deadlocked
        PROVE  "handler" \in usage /\ ("owner" \in usage \/ "manager" \in usage)
    <2>1. PICK t \in Threads, w \in Workers :
            /\ cpc[t] = "wait" /\ cpc[w] # "idle"
            /\ lock = t \/ managing = t
      BY <1>1 DEF Deadlocked
    <2>2. "owner" \in usage \/ "manager" \in usage
      BY <1>1, <2>1 DEF IInv, Used
    <2> QED
      BY <1>1, <2>1, <2>2 DEF IInv, Used
  <1> QED
    BY <1>1, Invariance, PTL

\* The handler of a signal_barrier is through with it when wait() returns true.
THEOREM BarrierLifetime == Spec => []BarrierOutlivesHandler
  <1>1. IInv => BarrierOutlivesHandler
    BY DEF IInv, Barrier, Calling, BarrierOutlivesHandler
  <1> QED
    BY <1>1, Invariance, PTL

\* The values of a signal_barrier are those of the first call of its handler.
THEOREM ValuesKept == Spec => BarrierKeepsValues
  <1>1. ASSUME IInv, Next, raised, barrier = "built" PROVE value' = value
    <2>1. ASSUME NEW w \in Workers, Raise(w) PROVE FALSE
      BY <1>1, <2>1 DEF Raise, IInv, Barrier, Calling
    <2> QED
      BY <1>1, <2>1
         DEF Next, Reset, BarrierWait, BarrierDestroy, BarrierFree, Connect, PushHandler,
            AddConnection, SkipAll, Emit,
             Disconnect, CallStep, EmitLock, EmitCount, EmitQueue, ResetLock, DisconnectLock,
             SkipAllLock, Disable, DisableWait, InvocationStep, Take, Enter, Count, FinishCall,
             Leave, Complete, Raised
  <1>2. IInv /\ [Next]_vars => [raised /\ barrier = "built" => value' = value]_vars
    BY <1>1
  <1> QED
    BY <1>2, Invariance, PTL DEF Spec, BarrierKeepsValues

\* On a serial queue no emit is missed: neither mode skips an update that no later
\* call of the handler sees.
THEOREM EveryEmitIsSeen ==
  ASSUME SerialQueue PROVE Spec => []NoMissedEmit
  <1>1. IInv => NoMissedEmit
    <2> SUFFICES ASSUME IInv, usage # {"barrier"}, active # "disabled", queue = <<>>,
                        \A w \in Workers : exec[w] = "idle",
                        \A t \in Threads : cpc[t] \notin {"count", "queue"}
                 PROVE  unseen = {}
      BY DEF NoMissedEmit
    <2>1. Opening = {} /\ ~Adding /\ Serial /\ Len(queue) = 0
      BY DEF Opening, Adding, Serial
    <2>2. mode \in {"single_updates", "batch_updates"}
      BY ModesAssumption DEF IInv, TypeOK
    <2> QED
      BY <2>1, <2>2 DEF IInv, Unseen
  <1> QED
    BY <1>1, Invariance, PTL

=============================================================================
