--------------------------- MODULE FiberSemaphore ---------------------------
(* FiberSemaphore of mordor/fibersynchronization.cpp.                      *)
EXTENDS FiberBlocking

CONSTANTS
    initialConcurrency,
    MaxNotifies          \* bound: calls of notify()

VARIABLES
    m_concurrency,
    m_waiters,
    entered,     \* history: how many calls of wait() have returned
    notified     \* history: how many calls of notify() there were

vars == <<blockingVars, m_concurrency, m_waiters, entered, notified>>

TypeOK == /\ BlockingTypeOK
          /\ m_concurrency \in Nat
          /\ m_waiters \in Seq(Fibers)
          /\ entered \in Nat
          /\ notified \in 0..MaxNotifies

Init == /\ BlockingInit
        /\ m_concurrency = initialConcurrency
        /\ m_waiters = <<>>
        /\ entered = 0
        /\ notified = 0

\* wait(): the concurrency is taken, or the fiber is queued.
WaitTakes(f) ==
    /\ Runs(f)
    /\ m_concurrency > 0
    /\ m_concurrency' = m_concurrency - 1
    /\ entered' = entered + 1
    /\ UNCHANGED <<blockingVars, m_waiters, notified>>

WaitQueues(f) ==
    /\ Runs(f)
    /\ m_concurrency = 0
    /\ m_waiters' = Append(m_waiters, f)
    /\ Block(f)
    /\ UNCHANGED <<m_concurrency, entered, notified>>

\* Mutants of notify: the concurrency grows although a waiter is released, or
\* grows and releases nobody.
notifyTwice(f) ==
    /\ Runs(f) /\ notified < MaxNotifies
    /\ notified' = notified + 1
    /\ m_concurrency' = m_concurrency + 1
    /\ \/ m_waiters = <<>> /\ UNCHANGED <<m_waiters, blockingVars>>
       \/ /\ m_waiters # <<>> /\ schedule(Head(m_waiters))
          /\ m_waiters' = Tail(m_waiters)
    /\ UNCHANGED entered
notifyNobody(f) ==
    /\ Runs(f) /\ notified < MaxNotifies
    /\ notified' = notified + 1
    /\ m_concurrency' = m_concurrency + 1
    /\ UNCHANGED <<m_waiters, blockingVars, entered>>

\* notify(): the oldest waiter gets what would have been added.
notify(f) ==
    /\ Runs(f)
    /\ notified < MaxNotifies
    /\ notified' = notified + 1
    /\ \/ /\ m_waiters = <<>>
          /\ m_concurrency' = m_concurrency + 1
          /\ UNCHANGED <<m_waiters, blockingVars>>
       \/ /\ m_waiters # <<>>
          /\ m_waiters' = Tail(m_waiters)
          /\ schedule(Head(m_waiters))
          /\ UNCHANGED m_concurrency
    /\ UNCHANGED entered

YieldTo(f) == SwitchAway(f) /\ UNCHANGED <<m_concurrency, m_waiters, entered, notified>>

Resume(f) ==
    /\ Resumed(f)
    /\ entered' = entered + 1
    /\ UNCHANGED <<m_concurrency, m_waiters, notified>>

Step(f) == WaitTakes(f) \/ WaitQueues(f) \/ notify(f) \/ YieldTo(f) \/ Resume(f)

Next == \E f \in Fibers : Step(f)

Spec == Init /\ [][Next]_vars

-----------------------------------------------------------------------------
\* Nothing is gained or lost: what was there at first and what notify() added
\* is still free, has been used by a wait() that returned, or belongs to a fiber
\* that is on its way back from yieldTo().
Released == {f \in Fibers : scheduled[f] > 0}
ConcurrencyConserved ==
    m_concurrency + entered + Cardinality(Released) = initialConcurrency + notified

\* A fiber in wait() is in the list or scheduled, once; any other is in neither.
WaiterInOnePlace ==
    \A f \in Fibers : Times(m_waiters, f) + scheduled[f] = IF blocked[f] THEN 1 ELSE 0

\* Nobody is left waiting, or overtaken by a newcomer, while there is concurrency.
NoIdleWaiters == m_concurrency > 0 => m_waiters = <<>>

=============================================================================
