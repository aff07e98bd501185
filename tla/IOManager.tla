----------------------------- MODULE IOManager -----------------------------
(***************************************************************************)
(* IOManager on epoll (mordor/iomanager_epoll.cpp): a Scheduler whose idle *)
(* threads sit in epoll_wait, and whose tickle() writes a byte to a pipe   *)
(* that epoll watches edge-triggered - unless no thread counts as idle.    *)
(* A fiber registers for an event on a descriptor and yields; the thread   *)
(* that gets the event from epoll, or a fiber that cancels it, schedules   *)
(* the fiber.  Timers are in module Timer; no timer is registered here.    *)
(* A slot is a descriptor with one event, so AsyncState::m_mutex is a lock *)
(* per slot.  Registrations with a callback and unregisterEvent() are not  *)
(* modelled; EINTR only makes epoll_wait() be called again.                *)
(*                                                                         *)
(* The kernel is external: epoll_wait may return any registered events.    *)
(***************************************************************************)
EXTENDS Scheduler

CONSTANTS
    Slots,     \* the (descriptor, event) pairs
    TickleFd   \* m_tickleFds[0] as it stands in an epoll_event

ASSUME SlotAssumption == IsFiniteSet(Slots) /\ TickleFd \notin Slots

VARIABLES
    context,              \* context[s]: the fiber registered for s, or None
    m_pendingEventCount,
    pipe,                 \* m_tickleFds holds bytes
    edge,                 \* epoll has an edge of the pipe to report
    events,               \* events[t]: what epoll_wait returned, to be processed
    trigger               \* trigger[t]: the slot and fiber of a triggerEvent in progress

ioVars == <<context, m_pendingEventCount, pipe, edge, events, trigger>>
vars == <<schedVars, ioVars>>

NoTrigger == <<>>

IOInit ==
    /\ Init
    /\ context = [s \in Slots |-> None]
    /\ m_pendingEventCount = 0
    /\ pipe = FALSE
    /\ edge = FALSE
    /\ events = [t \in Threads |-> {}]
    /\ trigger = [t \in Threads |-> NoTrigger]

\* AsyncState::m_mutex of s is free.
Unlocked(s) == \A t \in Threads : trigger[t] # NoTrigger => trigger[t].slot # s

-----------------------------------------------------------------------------
(* tickle(): nothing is written when no thread counts as idle.             *)

tickle == /\ IF m_idleThreadCount # 0
             THEN pipe' = TRUE /\ edge' = TRUE
             ELSE UNCHANGED <<pipe, edge>>
          /\ UNCHANGED <<context, m_pendingEventCount, events, trigger>>

ThreadTickle(t) == TickleReturn(t) /\ tickle
ClientTickle(c) == ClientTickled(c) /\ tickle
StopTickle == StopTickled /\ tickle

-----------------------------------------------------------------------------
(* idle().                                                                 *)

\* stopping(): Scheduler::stopping() first, ...
IdleCheck(t) ==
    /\ pc[t] = "idle"
    /\ Goto(t, IF stopping THEN "pending" ELSE "wait")
    /\ UNCHANGED <<queueVars, batch, isActive, dontIdle, idleFiber, cur, fiberVars, client,
                   poolVars, ioVars>>

\* Mutant of IdleCheckPending: pending events do not keep the thread.
IdleIgnoresPending(t) ==
    /\ pc[t] = "pending"
    /\ IdleReturn(t, TRUE)
    /\ UNCHANGED ioVars

\* ... then m_pendingEventCount, without a lock.
IdleCheckPending(t) ==
    /\ pc[t] = "pending"
    /\ \/ m_pendingEventCount = 0 /\ IdleReturn(t, TRUE)
       \/ /\ m_pendingEventCount # 0
          /\ Goto(t, "wait")
          /\ UNCHANGED <<queueVars, batch, isActive, dontIdle, idleFiber, cur, fiberVars,
                         client, poolVars>>
    /\ UNCHANGED ioVars

\* epoll_wait(..., -1) returns the events S, and the pipe if it has an edge.
EpollWait(t, S) ==
    LET got == S \cup (IF edge /\ pipe THEN {TickleFd} ELSE {})
    IN /\ pc[t] = "wait"
       /\ got # {}
       /\ events' = [events EXCEPT ![t] = got]
       /\ edge' = (edge /\ ~pipe)
       /\ Goto(t, "process")
       /\ UNCHANGED <<queueVars, batch, isActive, dontIdle, idleFiber, cur, fiberVars, client,
                      poolVars, context, m_pendingEventCount, pipe, trigger>>

Registered == {s \in Slots : context[s] # None}

\* One entry of the returned array: the pipe is read until it is empty ...
ProcessTickle(t) ==
    /\ pc[t] = "process"
    /\ trigger[t] = NoTrigger
    /\ TickleFd \in events[t]
    /\ events' = [events EXCEPT ![t] = @ \ {TickleFd}]
    /\ pipe' = FALSE
    /\ UNCHANGED <<schedVars, context, m_pendingEventCount, edge, trigger>>

\* ... a slot nobody is registered for any more is passed over, ...
ProcessStale(t, s) ==
    /\ pc[t] = "process"
    /\ trigger[t] = NoTrigger
    /\ s \in events[t] /\ Unlocked(s)
    /\ context[s] = None
    /\ events' = [events EXCEPT ![t] = @ \ {s}]
    /\ UNCHANGED <<schedVars, context, m_pendingEventCount, pipe, edge, trigger>>

\* Mutant of ProcessEvent: the registration stays after the event.
ProcessEventKeeps(t, s) ==
    /\ pc[t] = "process"
    /\ trigger[t] = NoTrigger
    /\ s \in events[t] /\ Unlocked(s)
    /\ context[s] # None
    /\ events' = [events EXCEPT ![t] = @ \ {s}]
    /\ m_pendingEventCount' = m_pendingEventCount - 1
    /\ trigger' = [trigger EXCEPT ![t] = [slot |-> s, fiber |-> context[s]]]
    /\ UNCHANGED <<schedVars, context, pipe, edge>>

\* ... and triggerEvent takes the registration back, ...
ProcessEvent(t, s) ==
    /\ pc[t] = "process"
    /\ trigger[t] = NoTrigger
    /\ s \in events[t] /\ Unlocked(s)
    /\ context[s] # None
    /\ events' = [events EXCEPT ![t] = @ \ {s}]
    /\ context' = [context EXCEPT ![s] = None]
    /\ m_pendingEventCount' = m_pendingEventCount - 1
    /\ trigger' = [trigger EXCEPT ![t] = [slot |-> s, fiber |-> context[s]]]
    /\ UNCHANGED <<schedVars, pipe, edge>>

\* ... then schedules the fiber, from a thread of this scheduler: no tickle.
TriggerSchedule(t) ==
    /\ pc[t] = "process"
    /\ trigger[t] # NoTrigger
    /\ Push(Entry(trigger[t].fiber, AnyThread))
    /\ trigger' = [trigger EXCEPT ![t] = NoTrigger]
    /\ UNCHANGED <<m_activeThreadCount, m_idleThreadCount, m_stopping, threadVars, fiberVars,
                   client, poolVars, context, m_pendingEventCount, pipe, edge, events>>

\* Everything is processed: Fiber::yield() back to run().
IdleYield(t) ==
    /\ pc[t] = "process"
    /\ trigger[t] = NoTrigger
    /\ events[t] = {}
    /\ IdleReturn(t, FALSE)
    /\ UNCHANGED ioVars

-----------------------------------------------------------------------------
(* Fibers: registerEvent followed by Scheduler::yieldTo, and cancelEvent.  *)

FiberWaitIO(t, s) ==
    LET f == cur[t]
    IN /\ pc[t] = "fiber"
       /\ yields[f] < MaxYields
       /\ context[s] = None /\ Unlocked(s)
       /\ context' = [context EXCEPT ![s] = f]
       /\ m_pendingEventCount' = m_pendingEventCount + 1
       /\ yields' = [yields EXCEPT ![f] = @ + 1]
       /\ owed' = [owed EXCEPT ![f] = 1]
       /\ Goto(t, "leave")
       /\ UNCHANGED <<queueVars, batch, isActive, dontIdle, idleFiber, cur, state, wakers,
                      client, poolVars, pipe, edge, events, trigger>>

\* Mutant of FiberCancel: the cancelled event is still counted.
FiberCancelUncounted(t, s) ==
    /\ pc[t] = "fiber"
    /\ context[s] # None /\ Unlocked(s)
    /\ context' = [context EXCEPT ![s] = None]
    /\ Push(Entry(context[s], AnyThread))
    /\ UNCHANGED <<m_activeThreadCount, m_idleThreadCount, m_stopping, threadVars, fiberVars,
                   client, poolVars, m_pendingEventCount, pipe, edge, events, trigger>>

FiberCancel(t, s) ==
    /\ pc[t] = "fiber"
    /\ context[s] # None /\ Unlocked(s)
    /\ context' = [context EXCEPT ![s] = None]
    /\ m_pendingEventCount' = m_pendingEventCount - 1
    /\ Push(Entry(context[s], AnyThread))
    /\ UNCHANGED <<m_activeThreadCount, m_idleThreadCount, m_stopping, threadVars, fiberVars,
                   client, poolVars, pipe, edge, events, trigger>>

-----------------------------------------------------------------------------
Stopped == stopper = "stopped" /\ UNCHANGED vars

IdleStep(t) ==
    \/ IdleCheck(t) \/ IdleCheckPending(t)
    \/ ProcessTickle(t) \/ TriggerSchedule(t) \/ IdleYield(t)
    \/ \E s \in Slots : ProcessStale(t, s) \/ ProcessEvent(t, s)

IOThread(t) ==
    \/ ThreadStep(t) /\ UNCHANGED ioVars
    \/ ThreadTickle(t)
    \/ IdleStep(t)
    \/ \E S \in SUBSET Registered : EpollWait(t, S)
    \/ \E s \in Slots : FiberWaitIO(t, s) \/ FiberCancel(t, s)

Next ==
    /\ Alive
    /\ \/ \E t \in Threads : IOThread(t)
       \/ OutsideStep /\ UNCHANGED ioVars
       \/ \E c \in Clients : ClientTickle(c)
       \/ StopTickle
       \/ Stopped

Spec == IOInit /\ [][Next]_vars

(***************************************************************************)
(* As for WorkerPool; moreover epoll_wait returns when it has something to *)
(* report, and every registered event becomes ready in the end.            *)
(***************************************************************************)
Engine(t) ==
    \/ (Kill(t) \/ Take(t) \/ Spin(t) \/ IdleCall(t) \/ Exit(t) \/ RunNext(t) \/ SwitchOut(t))
            /\ UNCHANGED ioVars
    \/ ThreadTickle(t)
    \/ IdleStep(t)
    \/ EpollWait(t, Registered)

Fairness ==
    /\ \A t \in Threads : /\ WF_vars(Engine(t))
                          /\ WF_vars(FiberReturn(t) /\ UNCHANGED ioVars)
    /\ \A c \in Clients : WF_vars(ClientTickle(c))
    /\ WF_vars(StopTickle)
    /\ WF_vars((StopSwap \/ StopJoin) /\ UNCHANGED ioVars)

FairSpec == Spec /\ Fairness

-----------------------------------------------------------------------------
\* The pending-event count, which keeps stop() waiting, is the number of
\* registrations: register, cancel and the idle loop never lose or double one.
PendingCountExact == m_pendingEventCount = Cardinality(Registered)

\* As NoLostWakeup of Scheduler: a registration, or a triggerEvent in progress,
\* is one more resumption that is on its way.  An event that races with
\* cancelEvent wakes its fiber exactly once.
IONoLostWakeup ==
    \A f \in Fibers :
        Coming(f)
          + Cardinality({s \in Slots : context[s] = f})
          + Cardinality({t \in Threads : trigger[t] # NoTrigger /\ trigger[t].fiber = f})
        = owed[f]

\* stop() returns only when no event is pending either.
IOStopDrains == StopDrains /\ (stopper = "stopped" => m_pendingEventCount = 0)
=============================================================================
