----------------------------- MODULE WorkerPool -----------------------------
(***************************************************************************)
(* WorkerPool (mordor/workerpool.cpp): a Scheduler whose idle threads wait *)
(* on a counting semaphore, and whose tickle() posts it.                   *)
(***************************************************************************)
EXTENDS Scheduler

CONSTANT MaxPosts    \* bound: the largest value of the semaphore

ASSUME PostsAssumption == MaxPosts \in Nat \ {0}

VARIABLE m_semaphore

vars == <<schedVars, m_semaphore>>

PoolInit == Init /\ m_semaphore = 0

\* Semaphore::notify.  A thread that spins over an entry of a busy thread posts
\* again and again, so the value is cut off at MaxPosts.
notify == m_semaphore' = IF m_semaphore < MaxPosts THEN m_semaphore + 1 ELSE MaxPosts

\* WorkerPool::tickle, called from run(), schedule() or stop().
ThreadTickle(t) == TickleReturn(t) /\ notify
ClientTickle(c) == ClientTickled(c) /\ notify
StopTickle == StopTickled /\ notify

\* WorkerPool::idle: return when stopping, else wait on the semaphore ...
IdleCheck(t) ==
    /\ pc[t] = "idle"
    /\ \/ stopping /\ IdleReturn(t, TRUE)
       \/ /\ ~stopping
          /\ Goto(t, "wait")
          /\ UNCHANGED <<queueVars, batch, isActive, dontIdle, idleFiber, cur, fiberVars,
                         client, poolVars>>
    /\ UNCHANGED m_semaphore

\* ... and Fiber::yield() back to run().
IdleWake(t) ==
    /\ pc[t] = "wait"
    /\ m_semaphore > 0
    /\ m_semaphore' = m_semaphore - 1
    /\ IdleReturn(t, FALSE)

PoolThread(t) ==
    \/ ThreadStep(t) /\ UNCHANGED m_semaphore
    \/ ThreadTickle(t)
    \/ IdleCheck(t)
    \/ IdleWake(t)

\* stop() has returned: nothing is left that could happen.
Stopped == stopper = "stopped" /\ UNCHANGED vars

Next ==
    /\ Alive
    /\ \/ \E t \in Threads : PoolThread(t)
       \/ OutsideStep /\ UNCHANGED m_semaphore
       \/ \E c \in Clients : ClientTickle(c)
       \/ StopTickle
       \/ Stopped

Spec == PoolInit /\ [][Next]_vars

\* The steps of thread t that are not choices of the fiber it executes.
Engine(t) ==
    \/ (Kill(t) \/ Take(t) \/ Spin(t) \/ IdleCall(t) \/ Exit(t) \/ RunNext(t) \/ SwitchOut(t))
            /\ UNCHANGED m_semaphore
    \/ ThreadTickle(t)
    \/ IdleCheck(t)
    \/ IdleWake(t)

(***************************************************************************)
(* The operating system runs every thread, and client code of a fiber      *)
(* returns in the end.                                                     *)
(***************************************************************************)
Fairness ==
    /\ \A t \in Threads : /\ WF_vars(Engine(t))
                          /\ WF_vars(FiberReturn(t) /\ UNCHANGED m_semaphore)
    /\ \A c \in Clients : WF_vars(ClientTickle(c))
    /\ WF_vars(StopTickle)
    /\ WF_vars((StopSwap \/ StopJoin) /\ UNCHANGED m_semaphore)

FairSpec == Spec /\ Fairness

TypeOK == SchedulerTypeOK /\ m_semaphore \in 0..MaxPosts
=============================================================================
