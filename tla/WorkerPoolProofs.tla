------------------------- MODULE WorkerPoolProofs -------------------------
(***************************************************************************)
(* Theorems about WorkerPool, for any numbers of threads, fibers, clients  *)
(* and yields and any batch size.  The work is in SchedulerProofs: here a  *)
(* step of the pool is shown to be one of the steps treated there.         *)
(***************************************************************************)
EXTENDS WorkerPool, SchedulerProofs

\* A step of the pool is a step of Scheduler, and idle() returns only when
\* stopping() holds.
LEMMA PoolNext ==
    ASSUME [Next]_vars, Control
    PROVE  (SchedNext /\ IdleEndsWhenQuiet) \/ UNCHANGED schedVars
<1>0. ControlType
  BY DEF Control
<1>1. ASSUME NEW t \in Threads, IdleCheck(t), stopping PROVE IdleOver(t) /\ IdleEndsWhenQuiet
  BY <1>1 DEF IdleCheck, IdleOver, IdlePcs, IdleEndsWhenQuiet
<1>2. ASSUME NEW t \in Threads, IdleCheck(t), ~stopping PROVE IdleInside(t) /\ IdleEndsWhenQuiet
  BY <1>2 DEF IdleCheck, IdleInside, IdlePcs, Goto, IdleEndsWhenQuiet
<1>3. ASSUME NEW t \in Threads, IdleWake(t) PROVE IdleOver(t) /\ IdleEndsWhenQuiet
  <2>1. IdleOver(t)
    BY <1>3 DEF IdleWake, IdleOver, IdlePcs
  <2>2. idleFiber' = [idleFiber EXCEPT ![t] = "HOLD"]
    BY <1>3 DEF IdleWake, IdleReturn
  <2>3. IdleEndsWhenQuiet
    BY <1>0, <2>2 DEF IdleEndsWhenQuiet, ControlType
  <2> QED BY <2>1, <2>3
<1>4. ASSUME NEW t \in Threads, ThreadStep(t) \/ TickleReturn(t) PROVE IdleEndsWhenQuiet
  <2>1. CASE Kill(t)
    <3>1. /\ pc[t] = "take"
          /\ idleFiber' = idleFiber \/ idleFiber' = [idleFiber EXCEPT ![t] = "TERM"]
      BY <2>1 DEF Kill
    <3> QED BY <1>0, <3>1 DEF IdleEndsWhenQuiet, ControlType, IdlePcs
  <2>2. CASE ~Kill(t)
    <3>1. idleFiber' = idleFiber
      <4>1. CASE Take(t) \/ Spin(t) \/ IdleCall(t) \/ Exit(t) \/ RunNext(t) \/ TickleReturn(t)
        BY <4>1 DEF Take, Spin, IdleCall, Exit, RunNext, TickleReturn
      <4>2. CASE SwitchOut(t) \/ FiberReturn(t) \/ FiberWait(t)
        BY <4>2 DEF SwitchOut, FiberReturn, FiberWait, Back
      <4>3. CASE (\E g \in Fibers : FiberSchedule(t, g))
                   \/ \E target \in Threads \cup {AnyThread} : FiberYield(t, target)
        BY <4>3 DEF FiberSchedule, FiberYield, threadVars
      <4> QED BY <1>4, <2>2, <4>1, <4>2, <4>3 DEF ThreadStep
    <3> QED BY <3>1 DEF IdleEndsWhenQuiet
  <2> QED BY <2>1, <2>2
<1>5. ASSUME OutsideStep \/ StopTickled \/ (\E c \in Clients : ClientTickled(c)) PROVE IdleEndsWhenQuiet
  <2>1. idleFiber' = idleFiber
    BY <1>5 DEF OutsideStep, ClientPush, ThreadCount, StopBegin, StopSwap, StopJoin, Start, StopTickled,
                ClientTickled, threadVars
  <2> QED BY <2>1 DEF IdleEndsWhenQuiet
<1>6. ASSUME NEW t \in Threads, PoolThread(t) PROVE SchedNext /\ IdleEndsWhenQuiet
  <2>1. ThreadStep(t) \/ TickleReturn(t) \/ IdleCheck(t) \/ IdleWake(t)
    BY <1>6 DEF PoolThread, ThreadTickle
  <2> QED BY <1>1, <1>2, <1>3, <1>4, <2>1 DEF SchedNext
<1>7. ASSUME OutsideStep \/ (\E c \in Clients : ClientTickle(c)) \/ StopTickle
      PROVE  SchedNext /\ IdleEndsWhenQuiet
  BY <1>5, <1>7 DEF SchedNext, ClientTickle, StopTickle
<1>8. ASSUME Stopped \/ UNCHANGED vars PROVE UNCHANGED schedVars
  BY <1>8 DEF Stopped, vars
<1> QED BY <1>6, <1>7, <1>8 DEF Next

\* The control of run(), whatever the fibers wait for.
THEOREM PoolControl == Spec => []Control
<1>1. PoolInit => Control
  BY InitControl DEF PoolInit
<1>2. Control /\ [Next]_vars => Control'
  BY PoolNext, ControlStep, SchedStutter
<1> QED BY <1>1, <1>2, PTL DEF Spec

\* m_activeThreadCount, which stopping() trusts, counts the threads with work in
\* hand, however many wake-ups a fiber awaits and however the pool is resized.
THEOREM PoolActiveCountExact == Spec => []ActiveCountExact
  BY PoolControl, ControlCounts, PTL

-----------------------------------------------------------------------------
(***************************************************************************)
(* From here on a fiber that gives up its thread awaits one schedule(), as *)
(* with every primitive of fibersynchronization.                           *)
(***************************************************************************)
PoolFibers == Control /\ FiberInv /\ NoLostWakeup

\* Every fiber is owed exactly what is coming to it from the queue, the batches and the
\* clients' promises, and executes on one thread at most.
THEOREM PoolFibersInvariant ==
    ASSUME MaxWakeups = 1 PROVE Spec => []PoolFibers
<1>1. PoolInit => PoolFibers
  BY InitControl, InitFiber DEF PoolInit, PoolFibers
<1>2. PoolFibers /\ [Next]_vars => PoolFibers'
  <2>1. SUFFICES ASSUME PoolFibers, [Next]_vars PROVE PoolFibers'
    OBVIOUS
  <2>2. Control /\ FiberInv /\ NoLostWakeup
    BY <2>1 DEF PoolFibers
  <2>3. CASE SchedNext
    <3>1. Control' /\ FiberInv' /\ \A f \in Fibers : Balanced(f)
      BY <2>2, <2>3, ControlStep, FiberStep
    <3>2. NoLostWakeup'
      BY <2>2, <3>1, BalanceKept
    <3> QED BY <3>1, <3>2 DEF PoolFibers
  <2>4. CASE UNCHANGED schedVars
    BY <2>2, <2>4, SchedStutter DEF PoolFibers
  <2> QED BY <2>1, <2>2, <2>3, <2>4, PoolNext
<1> QED BY <1>1, <1>2, PTL DEF Spec

\* The assertion of Fiber::yieldTo never fails.
THEOREM PoolNoDoubleRun == ASSUME MaxWakeups = 1 PROVE Spec => []NoDoubleRun
<1>1. PoolFibers => NoDoubleRun
  BY FiberRuns DEF PoolFibers
<1> QED BY <1>1, PoolFibersInvariant, PTL

\* No fiber executes on two threads, and exactly the EXEC fibers execute.
THEOREM PoolOneThreadPerFiber == ASSUME MaxWakeups = 1 PROVE Spec => []OneThreadPerFiber
<1>1. PoolFibers => OneThreadPerFiber
  BY FiberRuns DEF PoolFibers
<1> QED BY <1>1, PoolFibersInvariant, PTL

\* No schedule() is lost or doubled between the queue, the batches and the fiber.
THEOREM PoolNoLostWakeup == ASSUME MaxWakeups = 1 PROVE Spec => []NoLostWakeup
<1>1. PoolFibers => NoLostWakeup
  BY DEF PoolFibers
<1> QED BY <1>1, PoolFibersInvariant, PTL

-----------------------------------------------------------------------------
(***************************************************************************)
(* stop(), for a pool that is used as the code means it to be (Careful).   *)
(***************************************************************************)
PoolStops == PoolFibers /\ PoolInv /\ EndedWhenQuiet

\* A thread whose idle() has ended is in a pool that stopped and drained.
THEOREM PoolStopsInvariant ==
    ASSUME MaxWakeups = 1, Careful PROVE Spec => []PoolStops
<1>1. PoolInit => PoolStops
  BY InitControl, InitFiber, InitPool DEF PoolInit, PoolFibers, PoolStops
<1>2. PoolStops /\ PoolFibers' /\ [Next]_vars => PoolStops'
  <2>1. SUFFICES ASSUME PoolStops, PoolFibers', [Next]_vars PROVE PoolStops'
    OBVIOUS
  <2>2. Control /\ PoolInv /\ EndedWhenQuiet
    BY <2>1 DEF PoolFibers, PoolStops
  <2>3. CASE SchedNext /\ IdleEndsWhenQuiet
    BY <2>1, <2>2, <2>3, PoolStep, EndedStep DEF PoolStops
  <2>4. CASE UNCHANGED schedVars
    BY <2>1, <2>2, <2>4, SchedStutter DEF PoolStops
  <2> QED BY <2>1, <2>2, <2>3, <2>4, PoolNext
<1> QED BY <1>1, <1>2, PoolFibersInvariant, PTL DEF Spec

\* stop() returns only when no fiber is scheduled, in a batch or executing, and no
\* thread is idle: every thread it joined had seen stopping() hold.
THEOREM PoolStopDrains ==
    ASSUME MaxWakeups = 1, Careful PROVE Spec => []StopDrains
<1>1. PoolStops => StopDrains
  BY PoolDrains DEF PoolStops, PoolFibers
<1> QED BY <1>1, PoolStopsInvariant, PTL

\* Type correctness.
THEOREM PoolTypeOK == ASSUME MaxWakeups = 1 PROVE Spec => []TypeOK
<1>1. PoolInit => m_semaphore \in 0..MaxPosts
  BY PostsAssumption DEF PoolInit
<1>2. m_semaphore \in 0..MaxPosts /\ [Next]_vars => (m_semaphore \in 0..MaxPosts)'
  <2>1. SUFFICES ASSUME m_semaphore \in 0..MaxPosts, [Next]_vars PROVE m_semaphore' \in 0..MaxPosts
    OBVIOUS
  <2>2. notify => m_semaphore' \in 0..MaxPosts
    BY <2>1, PostsAssumption DEF notify
  <2>3. ASSUME NEW t \in Threads, PoolThread(t) PROVE m_semaphore' \in 0..MaxPosts
    <3>1. m_semaphore' = m_semaphore \/ notify \/ (m_semaphore > 0 /\ m_semaphore' = m_semaphore - 1)
      BY <2>3 DEF PoolThread, ThreadTickle, IdleCheck, IdleWake
    <3> QED BY <2>1, <2>2, <3>1, PostsAssumption
  <2> QED BY <2>1, <2>2, <2>3 DEF Next, ClientTickle, StopTickle, Stopped, vars
<1>3. PoolFibers /\ m_semaphore \in 0..MaxPosts => TypeOK
  BY ControlTypes DEF PoolFibers, FiberInv, TypeOK
<1> QED BY <1>1, <1>2, <1>3, PoolFibersInvariant, PTL DEF Spec
=============================================================================
