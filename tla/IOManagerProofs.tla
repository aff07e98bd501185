-------------------------- MODULE IOManagerProofs --------------------------
(***************************************************************************)
(* Theorems about IOManager, for any threads, fibers, clients and slots.   *)
(* Most steps are those that SchedulerProofs treats; here are the ones     *)
(* that register, trigger and cancel events.                               *)
(***************************************************************************)
EXTENDS IOManager, SchedulerProofs

Triggers == [slot : Slots, fiber : Fibers]

\* A trigger is in progress only while its thread processes events.
IOType ==
    /\ context \in [Slots -> Fibers \cup {None}]
    /\ trigger \in [Threads -> Triggers \cup {NoTrigger}]
    /\ \A t \in Threads : trigger[t] # NoTrigger => pc[t] = "process"

IOControl == Control /\ IOType /\ PendingCountExact

Waiting(f) == {s \in Slots : context[s] = f}
Triggered(f) == {t \in Threads : trigger[t] # NoTrigger /\ trigger[t].fiber = f}

IOFibers == IOControl /\ FiberInv /\ IONoLostWakeup

\* The vector has the size that was asked for: no thread kills itself off.
NeverSuperfluous == stopper \notin {"join", "stopped"} => Cardinality(m_threads) = m_threadCount

\* Of the threads of the pool, the last whose idle() ends has seen that there is
\* nothing to do and that no event is pending, and both are still so.  The others
\* may have been overtaken: stopping() reads m_pendingEventCount after it has let go
\* of m_mutex, and in between another thread may schedule the fiber of an event.
Ending == \A t \in Pool : idleFiber[t] = "TERM" \/ pc[t] = "pending"
Ended == \A t \in Pool : idleFiber[t] = "TERM"

LastOneKnows ==
    /\ \A t \in Threads : pc[t] \in IdlePcs => idleFiber[t] # "TERM"
    /\ Ending => stopping
    /\ Ended => m_pendingEventCount = 0

IOStops == IOFibers /\ PoolInv /\ NeverSuperfluous /\ LastOneKnows

-----------------------------------------------------------------------------
(* The steps that Scheduler does not have.                                 *)

\* The control of run() does not notice that an idle loop or a canceller schedules.
LEMMA PushedStep ==
    ASSUME Control, NEW g \in Fibers, Push(Entry(g, AnyThread)),
           UNCHANGED <<m_activeThreadCount, m_idleThreadCount, m_stopping, threadVars, fiberVars,
                       client, poolVars>>
    PROVE  /\ Control' /\ PoolInv' = PoolInv
           /\ \A f \in Fibers : Coming(f)' = IF f = g THEN Coming(f) + 1 ELSE Coming(f)
<1>1. /\ ControlType /\ Entry(g, AnyThread) \in Entries /\ Entry(g, AnyThread).fiber = g
      /\ m_fibers' = Append(m_fibers, Entry(g, AnyThread))
  BY EntryType DEF Control, Push
<1>2. Control'
  <2>1. ControlType'
    BY <1>1 DEF ControlType, threadVars, fiberVars, poolVars
  <2>2. \A t \in Threads : InHand(t)'
    BY DEF Control, InHand, threadVars
  <2>3. Active' = Active /\ IdleThreads' = IdleThreads
    BY DEF Active, IdleThreads, threadVars
  <2> QED BY <2>1, <2>2, <2>3 DEF Control
<1>3. PoolInv' = PoolInv
  BY DEF PoolInv, Pool, threadVars, poolVars
<1>4. ASSUME NEW f \in Fibers PROVE Coming(f)' = IF f = g THEN Coming(f) + 1 ELSE Coming(f)
  <2>1. Coming(f)' = wakers[f] + Cardinality(EntriesOf(f, m_fibers')) + Cardinality(InBatches(f))
    BY DEF Coming, InBatches, EntriesOf, threadVars, fiberVars
  <2>2. Cardinality(EntriesOf(f, m_fibers'))
          = IF g = f THEN Cardinality(EntriesOf(f, m_fibers)) + 1 ELSE Cardinality(EntriesOf(f, m_fibers))
    BY <1>1, PushedOne
  <2>3. /\ wakers[f] \in Nat /\ Cardinality(EntriesOf(f, m_fibers)) \in Nat
        /\ Cardinality(InBatches(f)) \in Nat
    BY <1>1, ComingNat DEF CountsAreNat
  <2>4. CASE f = g
    BY <2>1, <2>2, <2>3, <2>4 DEF Coming
  <2>5. CASE f # g
    BY <2>1, <2>2, <2>3, <2>5 DEF Coming
  <2> QED BY <2>4, <2>5
<1> QED BY <1>2, <1>3, <1>4

\* A fiber gives up its thread to wait for an event.
LEMMA WaitIOStep ==
    ASSUME Control, NEW t \in Threads, NEW s \in Slots, FiberWaitIO(t, s)
    PROVE  Control' /\ (PoolInv => PoolInv') /\ \A f : Coming(f)' = Coming(f)
<1>1. /\ pc[t] = "fiber" /\ pc' = [pc EXCEPT ![t] = "leave"]
      /\ yields[cur[t]] < MaxYields /\ yields' = [yields EXCEPT ![cur[t]] = @ + 1]
      /\ UNCHANGED <<queueVars, batch, isActive, dontIdle, idleFiber, cur, state, wakers, client, poolVars>>
  BY DEF FiberWaitIO, Goto
<1>2. ControlType /\ (\A u \in Threads : InHand(u)) /\ cur[t] \in Fibers
  BY <1>1 DEF Control, InHand
<1>3. ControlType'
  BY <1>1, <1>2, WakeupAssumption DEF ControlType, queueVars, poolVars
<1>4. \A u \in Threads : pc'[u] = IF u = t THEN "leave" ELSE pc[u]
  BY <1>1, <1>2 DEF ControlType
<1>5. Control'
  <2>1. \A u \in Threads : InHand(u)'
    BY <1>1, <1>2, <1>4 DEF InHand
  <2>2. Active' = Active /\ IdleThreads' = IdleThreads
    BY <1>1, <1>4 DEF Active, IdleThreads, IdlePcs
  <2> QED BY <1>1, <1>3, <2>1, <2>2 DEF Control, queueVars
<1>6. ASSUME PoolInv PROVE PoolInv'
  <2>1. Pool' = Pool /\ Pool \subseteq Threads /\ UNCHANGED <<m_stopping, stopper, m_threadCount, m_threads, joining>>
    BY <1>1, <1>2 DEF Pool, poolVars, queueVars, ControlType
  <2>2. t \in Pool /\ stopper # "stopped"
    BY <1>1, <1>6 DEF PoolInv, Pool
  <2> QED BY <1>1, <1>4, <1>6, <2>1, <2>2 DEF PoolInv
<1>7. \A f : Coming(f)' = Coming(f)
  BY <1>1, ComingSame DEF queueVars
<1> QED BY <1>5, <1>6, <1>7

-----------------------------------------------------------------------------
(***************************************************************************)
(* The steps of IOManager: those of Scheduler, which leave registrations   *)
(* and triggers alone; those that change nothing of Scheduler; and those   *)
(* that push an entry or give up a thread for an event.                    *)
(***************************************************************************)

\* How a thread of the pool gets into "pending", out of "process" and out of idle().
IdleOrder ==
    \A t \in Threads :
        /\ pc[t] = "process" => pc'[t] = "process" \/ trigger[t] = NoTrigger
        /\ pc[t] # "pending" /\ pc'[t] = "pending" => stopping
        /\ pc'[t] \in IdlePcs => idleFiber'[t] # "TERM" \/ (pc[t] \in IdlePcs /\ idleFiber'[t] = idleFiber[t])
        /\ idleFiber[t] # "TERM" /\ idleFiber'[t] = "TERM"
              => (pc[t] = "pending" /\ m_pendingEventCount = 0) \/ Superfluous

SchedPart == SchedNext /\ IdleOrder /\ UNCHANGED <<context, m_pendingEventCount, trigger>>

IOPart ==
    /\ UNCHANGED schedVars
    /\ \/ UNCHANGED <<context, m_pendingEventCount, trigger>>
       \/ \E t \in Threads, s \in Slots : ProcessEvent(t, s)

PushPart ==
    \/ \E t \in Threads : TriggerSchedule(t)
    \/ \E t \in Threads, s \in Slots : FiberCancel(t, s)

WaitPart == \E t \in Threads, s \in Slots : FiberWaitIO(t, s)

\* A step of IOManager is a step of Scheduler, a step of idle() that leaves Scheduler's
\* state alone but for the idle count, or one of the four that schedule or register.
LEMMA IONext ==
    ASSUME [Next]_vars, Control
    PROVE  SchedPart \/ IOPart \/ PushPart \/ WaitPart
<1>0. ControlType
  BY DEF Control
\* One thread moves; its idle fiber stays as it is.
<1>1. ASSUME NEW t \in Threads, pc[t] # "process", idleFiber' = idleFiber,
             \E to : /\ pc' = [pc EXCEPT ![t] = to]
                     /\ to = "pending" => stopping
                     /\ to \in IdlePcs => idleFiber[t] # "TERM" \/ pc[t] \in IdlePcs
      PROVE  IdleOrder
  <2>1. PICK to : /\ pc' = [pc EXCEPT ![t] = to]
                  /\ to = "pending" => stopping
                  /\ to \in IdlePcs => idleFiber[t] # "TERM" \/ pc[t] \in IdlePcs
    BY <1>1
  <2>2. \A u \in Threads : pc'[u] = IF u = t THEN to ELSE pc[u]
    BY <1>0, <2>1 DEF ControlType
  <2> QED BY <1>1, <2>1, <2>2 DEF IdleOrder
<1>2. ASSUME UNCHANGED <<pc, idleFiber>> PROVE IdleOrder
  BY <1>2 DEF IdleOrder
<1>3. ASSUME NEW t \in Threads, ThreadStep(t) \/ TickleReturn(t) PROVE IdleOrder
  <2>1. CASE Kill(t)
    <3>1. /\ pc[t] = "take" /\ Superfluous
          /\ \E to \in {"exitTickle", "exit", "aborted"} : pc' = [pc EXCEPT ![t] = to]
          /\ \/ idleFiber' = idleFiber
             \/ idleFiber' = [idleFiber EXCEPT ![t] = "TERM"]
      BY <2>1 DEF Kill, Goto
    <3> QED BY <1>0, <3>1 DEF IdleOrder, IdlePcs, ControlType
  <2>2. CASE Take(t)
    <3>1. /\ pc[t] = "take" /\ idleFiber' = idleFiber
          /\ \E to \in {"tickle", "dispatch"} : pc' = [pc EXCEPT ![t] = to]
      BY <2>2 DEF Take, Goto
    <3> QED BY <1>1, <3>1 DEF IdlePcs
  <2>3. CASE Spin(t) \/ Exit(t) \/ RunNext(t) \/ TickleReturn(t)
    <3>1. /\ pc[t] \in {"dispatch", "tickle", "exitTickle"} /\ idleFiber' = idleFiber
          /\ \E to \in {"take", "exitTickle", "exit", "dispatch", "leave", "fiber"} : pc' = [pc EXCEPT ![t] = to]
      BY <2>3 DEF Spin, Exit, RunNext, TickleReturn, Goto
    <3> QED BY <1>1, <3>1 DEF IdlePcs
  <2>4. CASE IdleCall(t)
    <3>1. /\ pc[t] = "dispatch" /\ idleFiber[t] # "TERM" /\ idleFiber' = idleFiber
          /\ \E to \in {"idle"} : pc' = [pc EXCEPT ![t] = to]
      BY <2>4 DEF IdleCall, Goto
    <3> QED BY <1>1, <3>1
  <2>5. CASE SwitchOut(t) \/ FiberReturn(t) \/ FiberWait(t)
               \/ \E target \in Threads \cup {AnyThread} : FiberYield(t, target)
    <3>1. /\ pc[t] \in {"fiber", "leave"} /\ idleFiber' = idleFiber
          /\ \E to \in {"take", "dispatch", "leave"} : pc' = [pc EXCEPT ![t] = to]
      BY <2>5 DEF SwitchOut, FiberReturn, Back, FiberWait, FiberYield, Goto
    <3> QED BY <1>1, <3>1 DEF IdlePcs
  <2>6. CASE \E g \in Fibers : FiberSchedule(t, g)
    BY <1>2, <2>6 DEF FiberSchedule, threadVars
  <2> QED BY <1>3, <2>1, <2>2, <2>3, <2>4, <2>5, <2>6 DEF ThreadStep
<1>4. ASSUME OutsideStep \/ StopTickled \/ (\E c \in Clients : ClientTickled(c)) PROVE IdleOrder
  <2>1. idleFiber' = idleFiber /\ \A t \in Threads : pc'[t] = pc[t] \/ (pc[t] = "none" /\ pc'[t] = "take")
    <3>1. CASE (\E n \in Sizes : ThreadCount(n)) \/ Start
      BY <3>1 DEF ThreadCount, Start
    <3>2. CASE (\E c \in Clients, f \in Fibers : ClientPush(c, f)) \/ StopBegin \/ StopSwap \/ StopJoin
                 \/ StopTickled \/ (\E c \in Clients : ClientTickled(c))
      BY <3>2 DEF ClientPush, StopBegin, StopSwap, StopJoin, StopTickled, ClientTickled, threadVars
    <3> QED BY <1>4, <3>1, <3>2 DEF OutsideStep
  <2> QED BY <2>1 DEF IdleOrder, IdlePcs
<1>5. ASSUME NEW t \in Threads, IdleCheck(t) PROVE SchedPart
  <2>1. /\ pc[t] = "idle" /\ idleFiber' = idleFiber
        /\ \E to \in {"pending", "wait"} : pc' = [pc EXCEPT ![t] = to] /\ (to = "pending" => stopping)
    BY <1>5 DEF IdleCheck, Goto
  <2>2. IdleOrder
    BY <1>1, <2>1 DEF IdlePcs
  <2>3. IdleInside(t)
    BY <1>5 DEF IdleCheck, IdleInside, IdlePcs, Goto
  <2> QED BY <1>5, <2>2, <2>3 DEF SchedPart, SchedNext, IdleCheck, ioVars
<1>6. ASSUME NEW t \in Threads, IdleCheckPending(t) PROVE SchedPart
  <2>1. CASE m_pendingEventCount = 0
    <3>1. pc[t] = "pending" /\ IdleReturn(t, TRUE)
      BY <1>6, <2>1 DEF IdleCheckPending
    <3>2. IdleOver(t)
      BY <3>1 DEF IdleOver, IdlePcs
    <3>3. pc' = [pc EXCEPT ![t] = "take"] /\ idleFiber' = [idleFiber EXCEPT ![t] = "TERM"]
      BY <3>1 DEF IdleReturn, Goto
    <3>4. IdleOrder
      BY <1>0, <2>1, <3>1, <3>3 DEF IdleOrder, IdlePcs, ControlType
    <3> QED BY <1>6, <3>2, <3>4 DEF SchedPart, SchedNext, IdleCheckPending, ioVars
  <2>2. CASE m_pendingEventCount # 0
    <3>1. /\ pc[t] = "pending" /\ idleFiber' = idleFiber
          /\ \E to \in {"wait"} : pc' = [pc EXCEPT ![t] = to]
      BY <1>6, <2>2 DEF IdleCheckPending, Goto
    <3>2. IdleOrder
      BY <1>1, <3>1 DEF IdlePcs
    <3>3. IdleInside(t)
      BY <1>6, <2>2 DEF IdleCheckPending, IdleInside, IdlePcs, Goto
    <3> QED BY <1>6, <3>2, <3>3 DEF SchedPart, SchedNext, IdleCheckPending, ioVars
  <2> QED BY <2>1, <2>2
<1>7. ASSUME NEW t \in Threads, NEW S \in SUBSET Registered, EpollWait(t, S) PROVE SchedPart
  <2>1. /\ pc[t] = "wait" /\ idleFiber' = idleFiber
        /\ \E to \in {"process"} : pc' = [pc EXCEPT ![t] = to]
    BY <1>7 DEF EpollWait, Goto
  <2>2. IdleOrder
    BY <1>1, <2>1 DEF IdlePcs
  <2>3. IdleInside(t)
    BY <1>7 DEF EpollWait, IdleInside, IdlePcs, Goto
  <2> QED BY <1>7, <2>2, <2>3 DEF SchedPart, SchedNext, EpollWait
<1>8. ASSUME NEW t \in Threads, IdleYield(t) PROVE SchedPart
  <2>1. IdleOver(t)
    BY <1>8 DEF IdleYield, IdleOver, IdlePcs
  <2>2. /\ pc[t] = "process" /\ trigger[t] = NoTrigger
        /\ pc' = [pc EXCEPT ![t] = "take"] /\ idleFiber' = [idleFiber EXCEPT ![t] = "HOLD"]
    BY <1>8 DEF IdleYield, IdleReturn, Goto
  <2>3. IdleOrder
    BY <1>0, <2>2 DEF IdleOrder, IdlePcs, ControlType
  <2> QED BY <1>8, <2>1, <2>3 DEF SchedPart, SchedNext, IdleYield, ioVars
<1>9. ASSUME NEW t \in Threads, IOThread(t) PROVE SchedPart \/ IOPart \/ PushPart \/ WaitPart
  <2>1. CASE ThreadStep(t) /\ UNCHANGED ioVars
    BY <1>3, <2>1 DEF SchedPart, SchedNext, ioVars
  <2>2. CASE ThreadTickle(t)
    BY <1>3, <2>2 DEF SchedPart, SchedNext, ThreadTickle, tickle
  <2>3. CASE ProcessTickle(t) \/ \E s \in Slots : ProcessStale(t, s)
    BY <2>3 DEF IOPart, ProcessTickle, ProcessStale
  <2>4. CASE \E s \in Slots : ProcessEvent(t, s)
    BY <2>4 DEF IOPart, ProcessEvent
  <2>5. CASE TriggerSchedule(t) \/ \E s \in Slots : FiberCancel(t, s)
    BY <2>5 DEF PushPart
  <2>6. CASE \E s \in Slots : FiberWaitIO(t, s)
    BY <2>6 DEF WaitPart
  <2> QED BY <1>5, <1>6, <1>7, <1>8, <1>9, <2>1, <2>2, <2>3, <2>4, <2>5, <2>6 DEF IOThread, IdleStep
<1>10. ASSUME OutsideStep /\ UNCHANGED ioVars PROVE SchedPart
  BY <1>4, <1>10 DEF SchedPart, SchedNext, ioVars
<1>11. ASSUME (\E c \in Clients : ClientTickle(c)) \/ StopTickle PROVE SchedPart
  BY <1>4, <1>11 DEF SchedPart, SchedNext, ClientTickle, StopTickle, tickle
<1>12. ASSUME Stopped \/ UNCHANGED vars PROVE IOPart
  BY <1>12 DEF IOPart, Stopped, vars, ioVars
<1> QED BY <1>9, <1>10, <1>11, <1>12 DEF Next

-----------------------------------------------------------------------------
(* The pending-event count.                                                *)

\* There are finitely many registrations and finitely many triggers.
LEMMA IOFinite ==
    /\ IsFiniteSet(Registered) /\ Cardinality(Registered) \in Nat
    /\ \A f : /\ IsFiniteSet(Waiting(f)) /\ Cardinality(Waiting(f)) \in Nat
              /\ IsFiniteSet(Triggered(f)) /\ Cardinality(Triggered(f)) \in Nat
<1>1. IsFiniteSet(Registered) /\ Cardinality(Registered) \in Nat
  <2>1. Registered \in SUBSET Slots
    BY DEF Registered
  <2> QED BY <2>1, SlotAssumption, FS_Subset, FS_CardinalityType
<1>2. ASSUME NEW f PROVE IsFiniteSet(Waiting(f)) /\ Cardinality(Waiting(f)) \in Nat
  <2>1. Waiting(f) \in SUBSET Slots
    BY DEF Waiting
  <2> QED BY <2>1, SlotAssumption, FS_Subset, FS_CardinalityType
<1>3. ASSUME NEW f PROVE IsFiniteSet(Triggered(f)) /\ Cardinality(Triggered(f)) \in Nat
  <2>1. Triggered(f) \in SUBSET Threads
    BY DEF Triggered
  <2> QED BY <2>1, ThreadAssumption, FS_Subset, FS_CardinalityType
<1> QED BY <1>1, <1>2, <1>3

\* A registration is taken back, by the idle loop or by a fiber that cancels it.
LEMMA TakenBack ==
    ASSUME context \in [Slots -> Fibers \cup {None}], NEW s \in Slots, context[s] # None,
           context' = [context EXCEPT ![s] = None]
    PROVE  /\ context' \in [Slots -> Fibers \cup {None}]
           /\ Cardinality(Registered') = Cardinality(Registered) - 1
           /\ \A f \in Fibers : Cardinality(Waiting(f)') = IF context[s] = f THEN Cardinality(Waiting(f)) - 1
                                                                           ELSE Cardinality(Waiting(f))
<1>1. context' \in [Slots -> Fibers \cup {None}] /\ \A r \in Slots : context'[r] = IF r = s THEN None ELSE context[r]
  OBVIOUS
<1>2. Registered' = Registered \ {s} /\ s \in Registered
  BY <1>1 DEF Registered
<1>3. Cardinality(Registered') = Cardinality(Registered) - 1
  BY <1>2, IOFinite, CountOneLess
<1>4. ASSUME NEW f \in Fibers, context[s] = f PROVE Cardinality(Waiting(f)') = Cardinality(Waiting(f)) - 1
  <2>1. Waiting(f)' = Waiting(f) \ {s} /\ s \in Waiting(f)
    BY <1>1, <1>4, ThreadAssumption DEF Waiting
  <2> QED BY <2>1, IOFinite, CountOneLess
<1>5. ASSUME NEW f \in Fibers, context[s] # f PROVE Cardinality(Waiting(f)') = Cardinality(Waiting(f))
  <2>1. Waiting(f)' = Waiting(f)
    BY <1>1, <1>5, ThreadAssumption DEF Waiting
  <2> QED BY <2>1
<1> QED BY <1>1, <1>3, <1>4, <1>5

\* A registration adds one.
LEMMA Register ==
    ASSUME context \in [Slots -> Fibers \cup {None}], NEW s \in Slots, context[s] = None, NEW g \in Fibers,
           context' = [context EXCEPT ![s] = g]
    PROVE  /\ context' \in [Slots -> Fibers \cup {None}]
           /\ Cardinality(Registered') = Cardinality(Registered) + 1
           /\ \A f \in Fibers : Cardinality(Waiting(f)') = IF f = g THEN Cardinality(Waiting(f)) + 1
                                                                  ELSE Cardinality(Waiting(f))
<1>1. context' \in [Slots -> Fibers \cup {None}] /\ \A r \in Slots : context'[r] = IF r = s THEN g ELSE context[r]
  OBVIOUS
<1>2. Registered' = Registered \cup {s} /\ s \notin Registered
  BY <1>1, ThreadAssumption DEF Registered
<1>3. Cardinality(Registered') = Cardinality(Registered) + 1
  BY <1>2, IOFinite, CountOneMore
<1>4. Cardinality(Waiting(g)') = Cardinality(Waiting(g)) + 1
  <2>1. Waiting(g)' = Waiting(g) \cup {s} /\ s \notin Waiting(g)
    BY <1>1, ThreadAssumption DEF Waiting
  <2> QED BY <2>1, IOFinite, CountOneMore
<1>5. ASSUME NEW f \in Fibers, f # g PROVE Cardinality(Waiting(f)') = Cardinality(Waiting(f))
  <2>1. Waiting(f)' = Waiting(f)
    BY <1>1, <1>5, ThreadAssumption DEF Waiting
  <2> QED BY <2>1
<1> QED BY <1>1, <1>3, <1>4, <1>5

\* The value for "no trigger" is no trigger.
LEMMA NoTriggerIsNone == NoTrigger \notin Triggers
<1>1. SUFFICES ASSUME NEW x \in Triggers, x = NoTrigger PROVE FALSE
  OBVIOUS
<1>2. DOMAIN x = {"slot", "fiber"} /\ DOMAIN NoTrigger = {}
  <2>1. DOMAIN x = {"slot", "fiber"}
    BY DEF Triggers
  <2>2. DOMAIN NoTrigger = {}
    BY DEF NoTrigger
  <2> QED BY <2>1, <2>2
<1> QED BY <1>1, <1>2

\* What the steps that Scheduler does not have leave behind.
LEMMA EventTaken ==
    ASSUME IOControl, NEW t \in Threads, NEW s \in Slots, ProcessEvent(t, s)
    PROVE  /\ IOControl' /\ UNCHANGED schedVars /\ context[s] \in Fibers
           /\ \A f \in Fibers :
                /\ Cardinality(Waiting(f)') = IF context[s] = f THEN Cardinality(Waiting(f)) - 1
                                                               ELSE Cardinality(Waiting(f))
                /\ Cardinality(Triggered(f)') = IF context[s] = f THEN Cardinality(Triggered(f)) + 1
                                                                 ELSE Cardinality(Triggered(f))
<1>1. /\ pc[t] = "process" /\ trigger[t] = NoTrigger /\ context[s] # None
      /\ context' = [context EXCEPT ![s] = None]
      /\ m_pendingEventCount' = m_pendingEventCount - 1
      /\ trigger' = [trigger EXCEPT ![t] = [slot |-> s, fiber |-> context[s]]]
      /\ UNCHANGED schedVars
  BY DEF ProcessEvent
<1>2. IOType /\ context[s] \in Fibers
  BY <1>1 DEF IOControl, IOType
<1>3. PICK g \in Fibers : g = context[s]
  BY <1>2
<1>4. /\ context' \in [Slots -> Fibers \cup {None}]
      /\ Cardinality(Registered') = Cardinality(Registered) - 1
      /\ \A f \in Fibers : Cardinality(Waiting(f)') = IF context[s] = f THEN Cardinality(Waiting(f)) - 1
                                                                      ELSE Cardinality(Waiting(f))
  BY <1>1, <1>2, TakenBack DEF IOType
<1>5. [slot |-> s, fiber |-> g] \in Triggers /\ [slot |-> s, fiber |-> g] # NoTrigger
  BY NoTriggerIsNone DEF Triggers
<1>6. /\ trigger' \in [Threads -> Triggers \cup {NoTrigger}]
      /\ \A u \in Threads : trigger'[u] = IF u = t THEN [slot |-> s, fiber |-> g] ELSE trigger[u]
  BY <1>1, <1>2, <1>3, <1>5 DEF IOType
<1>7. Control'
  BY <1>1, SchedStutter DEF IOControl
<1>8. pc' = pc
  BY <1>1 DEF schedVars, threadVars
<1>9. IOType'
  BY <1>1, <1>2, <1>4, <1>6, <1>8 DEF IOType
<1>10. PendingCountExact'
  BY <1>1, <1>4 DEF IOControl, PendingCountExact
<1>11. Triggered(g)' = Triggered(g) \cup {t} /\ t \notin Triggered(g)
  BY <1>1, <1>5, <1>6 DEF Triggered
<1>12. \A f \in Fibers \ {g} : Triggered(f)' = Triggered(f)
  BY <1>1, <1>6 DEF Triggered
<1>13. Cardinality(Triggered(g)') = Cardinality(Triggered(g)) + 1
  BY <1>11, IOFinite, CountOneMore
<1> QED BY <1>1, <1>2, <1>3, <1>4, <1>7, <1>9, <1>10, <1>12, <1>13 DEF IOControl

\* The idle loop schedules the fiber of the event it has taken.
LEMMA TriggerScheduled ==
    ASSUME IOControl, NEW t \in Threads, TriggerSchedule(t)
    PROVE  /\ IOControl' /\ PoolInv' = PoolInv /\ UNCHANGED <<threadVars, fiberVars>>
           /\ \E g \in Fibers : \A f \in Fibers :
                /\ Cardinality(Waiting(f)') = Cardinality(Waiting(f))
                /\ Cardinality(Triggered(f)') = IF f = g THEN Cardinality(Triggered(f)) - 1
                                                         ELSE Cardinality(Triggered(f))
                /\ Coming(f)' = IF f = g THEN Coming(f) + 1 ELSE Coming(f)
<1>1. /\ pc[t] = "process" /\ trigger[t] # NoTrigger
      /\ Push(Entry(trigger[t].fiber, AnyThread))
      /\ trigger' = [trigger EXCEPT ![t] = NoTrigger]
      /\ UNCHANGED <<m_activeThreadCount, m_idleThreadCount, m_stopping, threadVars, fiberVars,
                     client, poolVars, context, m_pendingEventCount>>
  BY DEF TriggerSchedule
<1>2. PICK g \in Fibers : g = trigger[t].fiber
  BY <1>1 DEF IOControl, IOType, Triggers
<1>3. /\ Control' /\ PoolInv' = PoolInv
      /\ \A f \in Fibers : Coming(f)' = IF f = g THEN Coming(f) + 1 ELSE Coming(f)
  BY <1>1, <1>2, PushedStep DEF IOControl
<1>4. /\ trigger' \in [Threads -> Triggers \cup {NoTrigger}]
      /\ \A u \in Threads : trigger'[u] = IF u = t THEN NoTrigger ELSE trigger[u]
  BY <1>1 DEF IOControl, IOType
<1>5. IOType' /\ PendingCountExact'
  BY <1>1, <1>4 DEF IOControl, IOType, PendingCountExact, Registered, threadVars
<1>6. Triggered(g)' = Triggered(g) \ {t} /\ t \in Triggered(g)
  BY <1>1, <1>2, <1>4 DEF Triggered
<1>7. \A f \in Fibers \ {g} : Triggered(f)' = Triggered(f)
  BY <1>1, <1>2, <1>4 DEF Triggered
<1>8. Cardinality(Triggered(g)') = Cardinality(Triggered(g)) - 1
  BY <1>6, IOFinite, CountOneLess
<1>9. \A f \in Fibers : Waiting(f)' = Waiting(f)
  BY <1>1 DEF Waiting
<1>10. \A f \in Fibers :
                /\ Cardinality(Waiting(f)') = Cardinality(Waiting(f))
                /\ Cardinality(Triggered(f)') = IF f = g THEN Cardinality(Triggered(f)) - 1
                                                         ELSE Cardinality(Triggered(f))
                /\ Coming(f)' = IF f = g THEN Coming(f) + 1 ELSE Coming(f)
  BY <1>3, <1>7, <1>8, <1>9
<1> QED BY <1>1, <1>3, <1>5, <1>10 DEF IOControl

\* cancelEvent() takes the registration and schedules its fiber, in one critical section.
LEMMA Cancelled ==
    ASSUME IOControl, NEW t \in Threads, NEW s \in Slots, FiberCancel(t, s)
    PROVE  /\ IOControl' /\ PoolInv' = PoolInv /\ UNCHANGED <<threadVars, fiberVars>>
           /\ \E g \in Fibers : \A f \in Fibers :
                /\ Cardinality(Waiting(f)') = IF f = g THEN Cardinality(Waiting(f)) - 1
                                                       ELSE Cardinality(Waiting(f))
                /\ Cardinality(Triggered(f)') = Cardinality(Triggered(f))
                /\ Coming(f)' = IF f = g THEN Coming(f) + 1 ELSE Coming(f)
<1>1. /\ context[s] # None /\ context' = [context EXCEPT ![s] = None]
      /\ m_pendingEventCount' = m_pendingEventCount - 1
      /\ Push(Entry(context[s], AnyThread))
      /\ UNCHANGED <<m_activeThreadCount, m_idleThreadCount, m_stopping, threadVars, fiberVars,
                     client, poolVars, trigger>>
  BY DEF FiberCancel
<1>2. PICK g \in Fibers : g = context[s]
  BY <1>1 DEF IOControl, IOType
<1>3. /\ Control' /\ PoolInv' = PoolInv
      /\ \A f \in Fibers : Coming(f)' = IF f = g THEN Coming(f) + 1 ELSE Coming(f)
  BY <1>1, <1>2, PushedStep DEF IOControl
<1>4. /\ context' \in [Slots -> Fibers \cup {None}]
      /\ Cardinality(Registered') = Cardinality(Registered) - 1
      /\ \A f \in Fibers : Cardinality(Waiting(f)') = IF context[s] = f THEN Cardinality(Waiting(f)) - 1
                                                                      ELSE Cardinality(Waiting(f))
  BY <1>1, TakenBack DEF IOControl, IOType
<1>5. IOType' /\ PendingCountExact'
  BY <1>1, <1>4 DEF IOControl, IOType, PendingCountExact, threadVars
<1>6. \A f \in Fibers : Triggered(f)' = Triggered(f)
  BY <1>1 DEF Triggered
<1>7. \A f \in Fibers :
                /\ Cardinality(Waiting(f)') = IF f = g THEN Cardinality(Waiting(f)) - 1
                                                       ELSE Cardinality(Waiting(f))
                /\ Cardinality(Triggered(f)') = Cardinality(Triggered(f))
                /\ Coming(f)' = IF f = g THEN Coming(f) + 1 ELSE Coming(f)
  BY <1>2, <1>3, <1>4, <1>6
<1> QED BY <1>1, <1>3, <1>5, <1>7 DEF IOControl

\* registerEvent() counts, and its fiber gives up its thread.
LEMMA WaitsForIO ==
    ASSUME IOControl, NEW t \in Threads, NEW s \in Slots, FiberWaitIO(t, s)
    PROVE  /\ IOControl' /\ cur[t] \in Fibers
           /\ \A f \in Fibers :
                /\ Cardinality(Waiting(f)') = IF f = cur[t] THEN Cardinality(Waiting(f)) + 1
                                                            ELSE Cardinality(Waiting(f))
                /\ Cardinality(Triggered(f)') = Cardinality(Triggered(f))
<1>1. /\ context[s] = None /\ context' = [context EXCEPT ![s] = cur[t]]
      /\ m_pendingEventCount' = m_pendingEventCount + 1
      /\ trigger' = trigger /\ pc[t] = "fiber" /\ pc' = [pc EXCEPT ![t] = "leave"]
  BY DEF FiberWaitIO, Goto
<1>2. cur[t] \in Fibers /\ ControlType
  BY <1>1 DEF IOControl, Control, InHand
<1>3. /\ context' \in [Slots -> Fibers \cup {None}]
      /\ Cardinality(Registered') = Cardinality(Registered) + 1
      /\ \A f \in Fibers : Cardinality(Waiting(f)') = IF f = cur[t] THEN Cardinality(Waiting(f)) + 1
                                                                  ELSE Cardinality(Waiting(f))
  BY <1>1, <1>2, Register DEF IOControl, IOType
<1>4. \A u \in Threads : pc[u] = "process" => pc'[u] = "process"
  BY <1>1, <1>2 DEF ControlType
<1>5. IOType' /\ PendingCountExact'
  BY <1>1, <1>3, <1>4 DEF IOControl, IOType, PendingCountExact
<1>6. \A f \in Fibers : Triggered(f)' = Triggered(f)
  BY <1>1 DEF Triggered
<1>7. Control'
  BY WaitIOStep DEF IOControl
<1> QED BY <1>2, <1>3, <1>5, <1>6, <1>7 DEF IOControl

\* Every step keeps the counts exact.
LEMMA IOControlStep == IOControl /\ [Next]_vars => IOControl'
<1>1. SUFFICES ASSUME IOControl, [Next]_vars PROVE IOControl'
  OBVIOUS
<1>2. CASE SchedPart
  <2>1. Control' /\ UNCHANGED <<context, m_pendingEventCount, trigger>> /\ IdleOrder
    BY <1>1, <1>2, ControlStep DEF SchedPart, IOControl
  <2>2. IOType' /\ PendingCountExact'
    BY <1>1, <2>1 DEF IOControl, IOType, PendingCountExact, Registered, IdleOrder
  <2> QED BY <2>1, <2>2 DEF IOControl
<1>3. CASE IOPart
  <2>1. ASSUME UNCHANGED schedVars, UNCHANGED <<context, m_pendingEventCount, trigger>> PROVE IOControl'
    <3>1. Control' /\ pc' = pc
      BY <1>1, <2>1, SchedStutter DEF IOControl, schedVars, threadVars
    <3> QED BY <1>1, <2>1, <3>1 DEF IOControl, IOType, PendingCountExact, Registered
  <2> QED BY <1>1, <1>3, <2>1, EventTaken DEF IOPart
<1>4. CASE PushPart
  BY <1>1, <1>4, TriggerScheduled, Cancelled DEF PushPart
<1>5. CASE WaitPart
  BY <1>1, <1>5, WaitsForIO DEF WaitPart
<1> QED BY <1>1, <1>2, <1>3, <1>4, <1>5, IONext DEF IOControl

\* At first nothing is registered.
LEMMA IOInitControl == IOInit => IOControl
<1>1. SUFFICES ASSUME IOInit PROVE IOControl
  OBVIOUS
<1>2. Control /\ IOType
  BY <1>1, InitControl DEF IOInit, IOType
<1>3. Registered = {} /\ m_pendingEventCount = 0
  BY <1>1 DEF IOInit, Registered
<1>4. PendingCountExact
  BY <1>3, FS_EmptySet DEF PendingCountExact
<1> QED BY <1>2, <1>4 DEF IOControl

\* m_pendingEventCount, which keeps stop() waiting, is the number of registrations,
\* whatever registerEvent, cancelEvent and the idle loops of other threads do.
THEOREM IOPendingCountExact == Spec => []PendingCountExact
<1>1. IOControl => PendingCountExact
  BY DEF IOControl
<1> QED BY <1>1, IOInitControl, IOControlStep, PTL DEF Spec

-----------------------------------------------------------------------------
(***************************************************************************)
(* The fibers: a registration, or a trigger in progress, is one more       *)
(* resumption on its way.                                                  *)
(***************************************************************************)

\* IONoLostWakeup, by the names used here.
LEMMA IOBalance ==
    IONoLostWakeup <=> \A f \in Fibers : Coming(f) + Cardinality(Waiting(f)) + Cardinality(Triggered(f)) = owed[f]
  BY DEF IONoLostWakeup, Waiting, Triggered

\* A registered or triggered fiber is scheduled: one that was to come anyhow.
LEMMA PushKeepsFibers ==
    ASSUME FiberInv, UNCHANGED <<threadVars, fiberVars>>, NoneTooMany'
    PROVE  FiberInv'
<1>1. UNCHANGED <<pc, batch, cur, state, owed>>
  BY DEF threadVars, fiberVars
<1>2. Executing' /\ AwaitsNothing' /\ BatchesReady'
  BY <1>1 DEF FiberInv, Executing, AwaitsNothing, BatchesReady
<1> QED BY <1>1, <1>2 DEF FiberInv

\* A fiber that waits for an event is a fiber that waits.
LEMMA WaitKeepsFibers ==
    ASSUME Control, FiberInv, NEW t \in Threads, NEW s \in Slots, FiberWaitIO(t, s)
    PROVE  /\ FiberInv' /\ owed[cur[t]] = 0
           /\ \A f \in Fibers : owed'[f] = IF f = cur[t] THEN 1 ELSE owed[f]
<1>1. /\ pc[t] = "fiber" /\ pc' = [pc EXCEPT ![t] = "leave"]
      /\ owed' = [owed EXCEPT ![cur[t]] = 1]
      /\ UNCHANGED <<batch, cur, state>>
  BY DEF FiberWaitIO, Goto
<1>2. /\ ControlType /\ cur[t] \in Fibers /\ owed[cur[t]] = 0 /\ state[cur[t]] = "EXEC"
      /\ \A u \in Threads : InHand(u)
  BY <1>1 DEF Control, InHand, FiberInv, AwaitsNothing, Executing
<1>3. /\ owed' \in [Fibers -> {0, 1}]
      /\ \A f \in Fibers : owed'[f] = IF f = cur[t] THEN 1 ELSE owed[f]
  BY <1>1, <1>2 DEF FiberInv
<1>4. \A f : Coming(f)' = Coming(f)
  BY WaitIOStep
<1>5. NoneTooMany'
  <2>1. Coming(cur[t]) = 0
    BY <1>2, NothingComing
  <2>2. \A f \in Fibers : Coming(f) <= owed[f] /\ Coming(f) \in Nat /\ owed[f] \in {0, 1}
    BY <1>2, ComingNat DEF CountsAreNat, FiberInv, NoneTooMany
  <2> QED BY <1>2, <1>3, <1>4, <2>1, <2>2 DEF NoneTooMany
<1>6. Executing' /\ BatchesReady'
  BY <1>1 DEF FiberInv, Executing, BatchesReady
<1>7. AwaitsNothing'
  <2>1. \A u \in Threads : pc'[u] = "fiber" => pc[u] = "fiber" /\ u # t
    BY <1>1, <1>2 DEF ControlType
  <2>2. \A u \in Threads : pc'[u] = "fiber" => cur[u] \in Fibers /\ cur[u] # cur[t] /\ owed[cur[u]] = 0
    BY <1>2, <2>1 DEF InHand, FiberInv, AwaitsNothing, Executing
  <2> QED BY <1>1, <1>2, <1>3, <2>2 DEF FiberInv, AwaitsNothing
<1> QED BY <1>2, <1>3, <1>5, <1>6, <1>7 DEF FiberInv

\* Every step keeps what is owed to a fiber equal to what is coming to it.
LEMMA IOFibersStep ==
    ASSUME MaxWakeups = 1, IOFibers, [Next]_vars
    PROVE  IOFibers'
<1>1. Control /\ ControlType /\ IOControl /\ IOControl' /\ Control' /\ FiberInv
  BY IOControlStep DEF IOFibers, IOControl, Control
<1>2. \A f \in Fibers : /\ Coming(f) + Cardinality(Waiting(f)) + Cardinality(Triggered(f)) = owed[f]
                        /\ Coming(f) \in Nat /\ owed[f] \in Nat
                        /\ Cardinality(Waiting(f)) \in Nat /\ Cardinality(Triggered(f)) \in Nat
  <2>1. \A f \in Fibers : Coming(f) + Cardinality(Waiting(f)) + Cardinality(Triggered(f)) = owed[f]
    BY IOBalance DEF IOFibers
  <2>2. \A f \in Fibers : Coming(f) \in Nat /\ owed[f] \in Nat
    BY <1>1, ComingNat DEF CountsAreNat, FiberInv
  <2> QED BY <2>1, <2>2, IOFinite
<1>3. \A f \in Fibers : /\ Coming(f)' \in Nat /\ Cardinality(Waiting(f)') \in Nat
                        /\ Cardinality(Triggered(f)') \in Nat
  <2>1. (ControlType => CountsAreNat)'
    BY ComingNat, PTL
  <2>2. \A f \in Fibers : Coming(f)' \in Nat
    BY <1>1, <2>1 DEF Control, CountsAreNat
  <2>3. (/\ IsFiniteSet(Registered) /\ Cardinality(Registered) \in Nat
         /\ \A f : /\ IsFiniteSet(Waiting(f)) /\ Cardinality(Waiting(f)) \in Nat
                   /\ IsFiniteSet(Triggered(f)) /\ Cardinality(Triggered(f)) \in Nat)'
    BY IOFinite, PTL
  <2> QED BY <2>2, <2>3
<1> DEFINE Even(f) == Coming(f)' + Cardinality(Waiting(f)') + Cardinality(Triggered(f)') = owed'[f]
<1>4. SUFFICES FiberInv' /\ \A f \in Fibers : Even(f)
  <2>1. IONoLostWakeup' <=> \A f \in Fibers : Even(f)
    BY DEF IONoLostWakeup, Waiting, Triggered
  <2> QED BY <1>1, <2>1 DEF IOFibers
<1>5. CASE SchedPart
  <2>1. FiberInv' /\ \A f \in Fibers : Balanced(f)
    BY <1>1, <1>5, FiberStep DEF SchedPart
  <2>2. \A f \in Fibers : Waiting(f)' = Waiting(f) /\ Triggered(f)' = Triggered(f)
    BY <1>5 DEF SchedPart, Waiting, Triggered
  <2>3. \A f \in Fibers : owed'[f] \in Nat
    BY <2>1 DEF FiberInv
  <2>4. ASSUME NEW f \in Fibers PROVE Even(f)
    BY <1>2, <1>3, <2>1, <2>2, <2>3 DEF Balanced
  <2> QED BY <2>1, <2>4
<1>6. CASE IOPart
  <2>1. UNCHANGED schedVars
    BY <1>6 DEF IOPart
  <2>2. FiberInv' /\ owed' = owed /\ \A f : Coming(f)' = Coming(f)
    BY <1>1, <2>1, SchedStutter, ComingSame DEF schedVars, queueVars, threadVars, fiberVars
  <2>3. CASE UNCHANGED <<context, m_pendingEventCount, trigger>>
    <3>1. \A f \in Fibers : Waiting(f)' = Waiting(f) /\ Triggered(f)' = Triggered(f)
      BY <2>3 DEF Waiting, Triggered
    <3> QED BY <1>2, <2>2, <3>1
  <2>4. CASE \E t \in Threads, s \in Slots : ProcessEvent(t, s)
    <3>1. PICK g \in Fibers : \A f \in Fibers :
                /\ Cardinality(Waiting(f)') = IF g = f THEN Cardinality(Waiting(f)) - 1
                                                       ELSE Cardinality(Waiting(f))
                /\ Cardinality(Triggered(f)') = IF g = f THEN Cardinality(Triggered(f)) + 1
                                                         ELSE Cardinality(Triggered(f))
      BY <1>1, <2>4, EventTaken
    <3>2. ASSUME NEW f \in Fibers PROVE Even(f)
      BY <1>2, <1>3, <2>2, <3>1
    <3> QED BY <2>2, <3>2
  <2> QED BY <1>6, <2>3, <2>4 DEF IOPart
<1>7. CASE PushPart
  <2>1. /\ UNCHANGED <<threadVars, fiberVars>>
        /\ \E g \in Fibers : \A f \in Fibers :
             /\ f # g => /\ Coming(f)' = Coming(f) /\ Cardinality(Waiting(f)') = Cardinality(Waiting(f))
                         /\ Cardinality(Triggered(f)') = Cardinality(Triggered(f))
             /\ f = g => /\ Coming(f)' = Coming(f) + 1
                         /\ \/ /\ Cardinality(Waiting(f)') = Cardinality(Waiting(f)) - 1
                               /\ Cardinality(Triggered(f)') = Cardinality(Triggered(f))
                            \/ /\ Cardinality(Waiting(f)') = Cardinality(Waiting(f))
                               /\ Cardinality(Triggered(f)') = Cardinality(Triggered(f)) - 1
    <3>1. CASE \E t \in Threads : TriggerSchedule(t)
      BY <1>1, <3>1, TriggerScheduled
    <3>2. CASE \E t \in Threads, s \in Slots : FiberCancel(t, s)
      BY <1>1, <3>2, Cancelled
    <3> QED BY <1>7, <3>1, <3>2 DEF PushPart
  <2>2. owed' = owed
    BY <2>1 DEF fiberVars
  <2>3. ASSUME NEW f \in Fibers PROVE Even(f) /\ Coming(f)' <= owed'[f]
    BY <1>2, <1>3, <2>1, <2>2
  <2>4. FiberInv'
    BY <1>1, <2>1, <2>3, PushKeepsFibers DEF NoneTooMany
  <2> QED BY <2>3, <2>4
<1>8. CASE WaitPart
  <2>1. PICK t \in Threads, s \in Slots : FiberWaitIO(t, s)
    BY <1>8 DEF WaitPart
  <2>2. /\ FiberInv' /\ owed[cur[t]] = 0 /\ cur[t] \in Fibers
        /\ \A f \in Fibers : owed'[f] = IF f = cur[t] THEN 1 ELSE owed[f]
    BY <1>1, <2>1, WaitKeepsFibers, WaitsForIO
  <2>3. \A f : Coming(f)' = Coming(f)
    BY <1>1, <2>1, WaitIOStep
  <2>4. \A f \in Fibers :
                /\ Cardinality(Waiting(f)') = IF f = cur[t] THEN Cardinality(Waiting(f)) + 1
                                                            ELSE Cardinality(Waiting(f))
                /\ Cardinality(Triggered(f)') = Cardinality(Triggered(f))
    BY <1>1, <2>1, WaitsForIO
  <2>5. ASSUME NEW f \in Fibers PROVE Even(f)
    <3>1. CASE f = cur[t]
      BY <1>2, <2>2, <2>3, <2>4, <3>1
    <3>2. CASE f # cur[t]
      BY <1>2, <2>2, <2>3, <2>4, <3>2
    <3> QED BY <3>1, <3>2
  <2> QED BY <2>2, <2>5
<1> QED BY <1>1, <1>5, <1>6, <1>7, <1>8, IONext

\* At first nothing is owed.
LEMMA IOInitFibers == IOInit => IOFibers
<1>1. SUFFICES ASSUME IOInit PROVE IOFibers
  OBVIOUS
<1>2. IOControl /\ FiberInv /\ NoLostWakeup
  BY <1>1, IOInitControl, InitFiber DEF IOInit
<1>3. \A f \in Fibers : Waiting(f) = {} /\ Triggered(f) = {}
  BY <1>1, ThreadAssumption DEF IOInit, Waiting, Triggered
<1>4. \A f \in Fibers : Coming(f) = owed[f] /\ owed[f] \in Nat
  BY <1>2 DEF NoLostWakeup, FiberInv
<1>5. IONoLostWakeup
  <2>1. ASSUME NEW f \in Fibers PROVE Coming(f) + Cardinality(Waiting(f)) + Cardinality(Triggered(f)) = owed[f]
    <3>1. Cardinality(Waiting(f)) = 0 /\ Cardinality(Triggered(f)) = 0
      BY <1>3, FS_EmptySet
    <3> QED BY <1>4, <3>1
  <2> QED BY <2>1, IOBalance
<1> QED BY <1>2, <1>5 DEF IOFibers

\* Every fiber that waits for an event or a schedule() has exactly one wake-up under way:
\* its registration, its trigger, a queue entry, a place in a batch or a client's promise.
THEOREM IOFibersInvariant == ASSUME MaxWakeups = 1 PROVE Spec => []IOFibers
<1>1. IOFibers /\ [Next]_vars => IOFibers'
  BY IOFibersStep
<1> QED BY <1>1, IOInitFibers, PTL DEF Spec

\* An event, its cancellation and schedule() wake a fiber once and never lose it.
THEOREM IOLosesNoWakeup == ASSUME MaxWakeups = 1 PROVE Spec => []IONoLostWakeup
<1>1. IOFibers => IONoLostWakeup
  BY DEF IOFibers
<1> QED BY <1>1, IOFibersInvariant, PTL

\* With events too, no fiber is switched to while it executes, or executes twice.
THEOREM IORunsOnce == ASSUME MaxWakeups = 1 PROVE Spec => [](NoDoubleRun /\ OneThreadPerFiber)
<1>1. IOFibers => NoDoubleRun /\ OneThreadPerFiber
  BY FiberRuns DEF IOFibers, IOControl
<1> QED BY <1>1, IOFibersInvariant, PTL

-----------------------------------------------------------------------------
(***************************************************************************)
(* stop(), for a pool that keeps its size.  (When threadCount() has made   *)
(* it smaller, the thread that kills itself off may be the one that would  *)
(* still have had to wait for an event.)                                   *)
(***************************************************************************)

\* A step of Scheduler that is no start() leaves the pool as it is.
LEMMA PoolSame ==
    ASSUME Sizes = {}, Control, PoolInv, NeverSuperfluous, SchedNext
    PROVE  ~Superfluous /\ (Pool' = Pool \/ Start) /\ NeverSuperfluous'
<1>1. ControlType /\ m_threadCount \in Nat \ {0}
  BY DEF Control, ControlType
<1>2. ~Superfluous
  <2>1. CASE stopper \in {"join", "stopped"}
    <3>1. Cardinality(m_threads) = 0
      BY <2>1, FS_EmptySet DEF PoolInv
    <3> QED BY <1>1, <3>1 DEF Superfluous
  <2>2. CASE stopper \notin {"join", "stopped"}
    BY <1>1, <2>2 DEF NeverSuperfluous, Superfluous
  <2> QED BY <2>1, <2>2
<1>3. ASSUME UNCHANGED poolVars PROVE Pool' = Pool /\ NeverSuperfluous'
  BY <1>3 DEF Pool, NeverSuperfluous, poolVars
<1>4. ASSUME NEW u \in Threads, ThreadStep(u) \/ TickleReturn(u) \/ IdleInside(u) \/ IdleOver(u)
      PROVE  UNCHANGED poolVars
  <2>1. ~Kill(u)
    BY <1>2 DEF Kill
  <2>2. CASE Take(u) \/ Spin(u) \/ IdleCall(u) \/ Exit(u) \/ RunNext(u)
    BY <2>2 DEF Take, Spin, IdleCall, Exit, RunNext
  <2>3. CASE SwitchOut(u) \/ FiberReturn(u) \/ FiberWait(u)
    BY <2>3 DEF SwitchOut, FiberReturn, FiberWait, Back
  <2>4. CASE (\E g \in Fibers : FiberSchedule(u, g)) \/ \E target \in Threads \cup {AnyThread} : FiberYield(u, target)
    BY <2>4 DEF FiberSchedule, FiberYield
  <2>5. CASE TickleReturn(u) \/ IdleInside(u) \/ IdleOver(u)
    BY <2>5 DEF TickleReturn, IdleInside, IdleOver, IdleReturn
  <2> QED BY <1>4, <2>1, <2>2, <2>3, <2>4, <2>5 DEF ThreadStep
<1>5. ASSUME StopBegin \/ StopTickled \/ StopSwap \/ StopJoin PROVE Pool' = Pool /\ NeverSuperfluous'
  <2>1. CASE StopBegin \/ StopTickled
    BY <2>1 DEF StopBegin, StopTickled, Pool, NeverSuperfluous
  <2>2. CASE StopSwap \/ StopJoin
    BY <2>2 DEF StopSwap, StopJoin, Pool, NeverSuperfluous
  <2> QED BY <1>5, <2>1, <2>2
<1>6. ASSUME (\E c \in Clients, f \in Fibers : ClientPush(c, f)) \/ (\E c \in Clients : ClientTickled(c))
      PROVE  UNCHANGED poolVars
  BY <1>6 DEF ClientPush, ClientTickled
<1>7. ASSUME Start PROVE NeverSuperfluous'
  BY <1>7 DEF Start, NeverSuperfluous
<1> QED BY <1>2, <1>3, <1>4, <1>5, <1>6, <1>7 DEF SchedNext, OutsideStep

\* A thread that executes a fiber, or processes events, is in the pool and has not
\* ended its idle().
LEMMA BusyMeansNotEnding ==
    ASSUME Control, PoolInv, LastOneKnows, NEW t \in Threads, pc[t] \in {"fiber", "process"}
    PROVE  ~Ending
<1>1. t \in Pool
  BY DEF PoolInv
<1>2. CASE pc[t] = "process"
  BY <1>1, <1>2 DEF LastOneKnows, Ending, IdlePcs
<1>3. CASE pc[t] = "fiber"
  <2>1. t \in Active
    BY <1>3 DEF Control, InHand, Active
  <2>2. m_activeThreadCount # 0
    <3>1. m_activeThreadCount = Cardinality(Active) /\ IsFiniteSet(Active)
      BY CountersFinite DEF Control
    <3> QED BY <2>1, <3>1, FS_EmptySet
  <2> QED BY <2>2 DEF LastOneKnows, stopping
<1> QED BY <1>2, <1>3

\* Every step keeps the threads that run() has left out of the way of pending events.
LEMMA IOStopsStep ==
    ASSUME MaxWakeups = 1, Careful, Sizes = {}, IOStops, [Next]_vars
    PROVE  IOStops'
<1>1. Control /\ IOFibers' /\ PoolInv /\ NeverSuperfluous /\ LastOneKnows /\ IOControl /\ ControlType
  BY IOFibersStep DEF IOStops, IOFibers, IOControl, Control
<1>2. CASE SchedPart
  <2>1. /\ SchedNext /\ IdleOrder /\ m_pendingEventCount' = m_pendingEventCount
        /\ PoolInv' /\ NeverSuperfluous' /\ ~Superfluous /\ (Pool' = Pool \/ Start)
    BY <1>1, <1>2, PoolStep, PoolSame DEF SchedPart
  <2>2. Pool \subseteq Threads
    BY <1>1 DEF Pool, ControlType
  <2>3. \A t \in Threads : pc'[t] \in IdlePcs => idleFiber'[t] # "TERM"
    BY <1>1, <2>1 DEF IdleOrder, LastOneKnows
  <2>4. CASE Start
    <3>1. stopper' = "up" /\ Cardinality(m_threads') = m_threadCount /\ m_threads' \subseteq {t \in Threads : pc[t] = "none"}
          /\ pc' = [t \in Threads |-> IF t \in m_threads' THEN "take" ELSE pc[t]] /\ idleFiber' = idleFiber
      BY <2>4 DEF Start
    <3>2. m_threads' # {}
      <4>1. m_threads' = {} => Cardinality(m_threads') = 0
        BY FS_EmptySet
      <4> QED BY <1>1, <3>1, <4>1 DEF ControlType
    <3>3. PICK t \in Threads : t \in m_threads' /\ pc[t] = "none" /\ pc'[t] = "take"
      BY <3>1, <3>2
    <3>4. idleFiber'[t] # "TERM" /\ t \in Pool'
      BY <1>1, <3>1, <3>3 DEF PoolInv, Pool
    <3>5. ~Ending' /\ ~Ended'
      BY <3>3, <3>4 DEF Ending, Ended
    <3> QED BY <1>1, <2>1, <2>3, <3>5 DEF IOStops, LastOneKnows
  <2>5. CASE ~Start
    <3>1. Pool' = Pool
      BY <2>1, <2>5
    <3>2. stopping => stopping'
      BY <1>1, <2>1, <2>5, QuietStays
    <3>3. ASSUME Ending' PROVE stopping
      <4>1. \A t \in Pool : idleFiber'[t] = "TERM" \/ pc'[t] = "pending"
        BY <3>1, <3>3 DEF Ending
      <4>2. CASE \E t \in Pool : pc[t] # "pending" /\ pc'[t] = "pending"
        BY <2>1, <2>2, <4>2 DEF IdleOrder
      <4>3. CASE ~\E t \in Pool : pc[t] # "pending" /\ pc'[t] = "pending"
        <5>1. Ending
          BY <2>1, <2>2, <4>1, <4>3 DEF Ending, IdleOrder
        <5> QED BY <1>1, <5>1 DEF LastOneKnows
      <4> QED BY <4>2, <4>3
    <3>4. ASSUME Ended' PROVE m_pendingEventCount = 0
      <4>1. \A t \in Pool : idleFiber'[t] = "TERM"
        BY <3>1, <3>4 DEF Ended
      <4>2. CASE Ended
        BY <1>1, <4>2 DEF LastOneKnows
      <4>3. CASE ~Ended
        BY <2>1, <2>2, <4>1, <4>3 DEF Ended, IdleOrder
      <4> QED BY <4>2, <4>3
    <3> QED BY <1>1, <2>1, <2>3, <3>2, <3>3, <3>4 DEF IOStops, LastOneKnows
  <2> QED BY <2>4, <2>5
<1>3. CASE IOPart
  <2>1. PoolInv' /\ UNCHANGED schedVars
    BY <1>1, <1>3, SchedStutter DEF IOPart
  <2>2. NeverSuperfluous' /\ Ending' = Ending /\ Ended' = Ended /\ stopping' = stopping
        /\ UNCHANGED <<pc, idleFiber>>
    BY <1>1, <2>1 DEF NeverSuperfluous, Ending, Ended, Pool, stopping, schedVars, queueVars, threadVars, poolVars
  <2>3. m_pendingEventCount' = m_pendingEventCount \/ ~Ended
    <3>1. ASSUME NEW t \in Threads, NEW s \in Slots, ProcessEvent(t, s) PROVE ~Ended
      <4>1. pc[t] = "process"
        BY <3>1 DEF ProcessEvent
      <4>2. ~Ending
        BY <1>1, <4>1, BusyMeansNotEnding
      <4> QED BY <4>2 DEF Ending, Ended
    <3> QED BY <1>3, <3>1 DEF IOPart
  <2> QED BY <1>1, <2>1, <2>2, <2>3 DEF IOStops, LastOneKnows
<1>4. CASE PushPart \/ WaitPart
  <2>1. PICK t \in Threads : /\ pc[t] \in {"fiber", "process"}
                             /\ pc' = pc \/ pc' = [pc EXCEPT ![t] = "leave"]
                             /\ UNCHANGED <<idleFiber, poolVars>>
    <3>1. ASSUME NEW t \in Threads, TriggerSchedule(t)
          PROVE  pc[t] = "process" /\ pc' = pc /\ UNCHANGED <<idleFiber, poolVars>>
      BY <3>1 DEF TriggerSchedule, threadVars
    <3>2. ASSUME NEW t \in Threads, NEW s \in Slots, FiberCancel(t, s)
          PROVE  pc[t] = "fiber" /\ pc' = pc /\ UNCHANGED <<idleFiber, poolVars>>
      BY <3>2 DEF FiberCancel, threadVars
    <3>3. ASSUME NEW t \in Threads, NEW s \in Slots, FiberWaitIO(t, s)
          PROVE  pc[t] = "fiber" /\ pc' = [pc EXCEPT ![t] = "leave"] /\ UNCHANGED <<idleFiber, poolVars>>
      BY <3>3 DEF FiberWaitIO, Goto
    <3> QED BY <1>4, <3>1, <3>2, <3>3 DEF PushPart, WaitPart
  <2>2. ~Ending
    BY <1>1, <2>1, BusyMeansNotEnding
  <2>3. Pool' = Pool /\ Pool \subseteq Threads /\ NeverSuperfluous'
    BY <1>1, <2>1 DEF Pool, NeverSuperfluous, poolVars, ControlType
  <2>4. \A u \in Threads : pc'[u] = pc[u] \/ pc'[u] = "leave"
    BY <1>1, <2>1 DEF ControlType
  <2>5. ~Ending' /\ ~Ended' /\ \A u \in Threads : pc'[u] \in IdlePcs => idleFiber'[u] # "TERM"
    BY <1>1, <2>1, <2>2, <2>3, <2>4 DEF Ending, Ended, LastOneKnows, IdlePcs
  <2>6. PoolInv'
    BY <1>1, <1>4, TriggerScheduled, Cancelled, WaitIOStep DEF PushPart, WaitPart
  <2> QED BY <1>1, <2>3, <2>5, <2>6 DEF IOStops, LastOneKnows
<1> QED BY <1>1, <1>2, <1>3, <1>4, IONext

\* At first every thread is at the top of run().
LEMMA IOInitStops == IOInit => IOStops
<1>1. SUFFICES ASSUME IOInit PROVE IOStops
  OBVIOUS
<1>2. IOFibers /\ PoolInv /\ ControlType
  BY <1>1, IOInitFibers, IOInitControl, InitPool DEF IOInit, IOControl, Control
<1>3. /\ stopper = "up" /\ Cardinality(m_threads) = m_threadCount /\ m_threads \subseteq Threads
      /\ \A t \in Threads : idleFiber[t] = "INIT" /\ pc[t] \in {"take", "none"}
  BY <1>1 DEF IOInit, Init
<1>4. m_threads # {}
  <2>1. m_threads = {} => Cardinality(m_threads) = 0
    BY FS_EmptySet
  <2> QED BY <1>2, <1>3, <2>1 DEF ControlType
<1>5. ~Ending /\ ~Ended
  BY <1>3, <1>4 DEF Ending, Ended, Pool
<1> QED BY <1>2, <1>3, <1>5 DEF IOStops, NeverSuperfluous, LastOneKnows

\* stop() returns only when nothing is scheduled or executing, no thread is idle and
\* no event is pending.
THEOREM IOStopsDrained ==
    ASSUME MaxWakeups = 1, Careful, Sizes = {} PROVE Spec => []IOStopDrains
<1>1. IOStops /\ [Next]_vars => IOStops'
  BY IOStopsStep
<1>2. IOStops => IOStopDrains
  <2>1. SUFFICES ASSUME IOStops PROVE IOStopDrains
    OBVIOUS
  <2>2. ASSUME stopper = "stopped" PROVE Ended /\ Ending
    BY <2>1, <2>2 DEF IOStops, PoolInv, Pool, Ended, Ending
  <2>3. ASSUME stopper = "stopped" PROVE EndedWhenQuiet /\ m_pendingEventCount = 0
    BY <2>1, <2>2, <2>3 DEF IOStops, LastOneKnows, EndedWhenQuiet
  <2>4. stopper = "stopped" => StopDrains
    BY <2>1, <2>3, PoolDrains DEF IOStops, IOFibers, IOControl
  <2> QED BY <2>3, <2>4 DEF IOStopDrains, StopDrains
<1> QED BY <1>1, <1>2, IOInitStops, PTL DEF Spec
=============================================================================
