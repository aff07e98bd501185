------------------------ MODULE RecursiveFiberMutex ------------------------
(* RecursiveFiberMutex of mordor/fibersynchronization.cpp.                 *)
EXTENDS FiberBlocking

CONSTANTS
    None,         \* the null Fiber::ptr
    MaxDepth      \* bound: nested calls of lock() by one fiber

VARIABLES
    m_owner,
    m_recursion,
    m_waiters,
    depth         \* history: depth[f], calls of lock() of f not yet undone

mutexVars == <<m_owner, m_recursion, m_waiters>>
vars == <<blockingVars, mutexVars, depth>>

TypeOK == /\ BlockingTypeOK
          /\ m_owner \in Fibers \cup {None}
          /\ m_recursion \in 0..MaxDepth
          /\ m_waiters \in Seq(Fibers)
          /\ depth \in [Fibers -> 0..MaxDepth]

Init == /\ BlockingInit
        /\ m_owner = None
        /\ m_recursion = 0
        /\ m_waiters = <<>>
        /\ depth = [f \in Fibers |-> 0]

\* lock(): again by the owner, ...
LockAgain(f) ==
    /\ Runs(f)
    /\ m_owner = f
    /\ m_recursion < MaxDepth
    /\ m_recursion' = m_recursion + 1
    /\ depth' = [depth EXCEPT ![f] = @ + 1]
    /\ UNCHANGED <<blockingVars, m_owner, m_waiters>>

\* ... a free mutex, ...
LockFree(f) ==
    /\ Runs(f)
    /\ m_owner = None
    /\ m_owner' = f
    /\ m_recursion' = 1
    /\ depth' = [depth EXCEPT ![f] = 1]
    /\ UNCHANGED <<blockingVars, m_waiters>>

\* ... or one that another fiber owns.
LockQueues(f) ==
    /\ Runs(f)
    /\ m_owner \notin {None, f}
    /\ m_waiters' = Append(m_waiters, f)
    /\ Block(f)
    /\ UNCHANGED <<m_owner, m_recursion, depth>>

\* Mutant of unlockNoLock: the new owner starts with no recursion.
unlockNoCount ==
    \/ /\ m_waiters = <<>>
       /\ m_owner' = None /\ m_recursion' = 0
       /\ UNCHANGED <<m_waiters, blockingVars>>
    \/ /\ m_waiters # <<>>
       /\ m_owner' = Head(m_waiters) /\ m_recursion' = 0
       /\ m_waiters' = Tail(m_waiters)
       /\ schedule(Head(m_waiters))

\* unlockNoLock(), called with the recursion down to 0.
unlockNoLock ==
    \/ /\ m_waiters = <<>>
       /\ m_owner' = None
       /\ m_recursion' = 0
       /\ UNCHANGED <<m_waiters, blockingVars>>
    \/ /\ m_waiters # <<>>
       /\ m_owner' = Head(m_waiters)
       /\ m_recursion' = 1
       /\ m_waiters' = Tail(m_waiters)
       /\ schedule(Head(m_waiters))

\* One level is undone; the mutex is released with the last one.
Release(f) ==
    /\ depth' = [depth EXCEPT ![f] = @ - 1]
    /\ \/ m_recursion = 1 /\ unlockNoLock
       \/ /\ m_recursion > 1
          /\ m_recursion' = m_recursion - 1
          /\ UNCHANGED <<m_owner, m_waiters, blockingVars>>

Unlock(f) == Runs(f) /\ m_owner = f /\ Release(f)

\* Returns false, and changes nothing, when nobody waits.
UnlockIfNotUnique(f) == Runs(f) /\ m_owner = f /\ m_waiters # <<>> /\ Release(f)

YieldTo(f) == SwitchAway(f) /\ UNCHANGED <<mutexVars, depth>>

Resume(f) == /\ Resumed(f)
             /\ depth' = [depth EXCEPT ![f] = 1]
             /\ UNCHANGED mutexVars

Step(f) == \/ LockAgain(f) \/ LockFree(f) \/ LockQueues(f)
           \/ Unlock(f) \/ UnlockIfNotUnique(f)
           \/ YieldTo(f) \/ Resume(f)

Next == \E f \in Fibers : Step(f)

Spec == Init /\ [][Next]_vars

-----------------------------------------------------------------------------
\* m_recursion is the number of lock() calls the owner has not undone, and no
\* other fiber has any: what lock() counts across a hand-over is what unlock()
\* will be called for.
RecursionMatchesOwner ==
    /\ \A f \in Fibers : depth[f] > 0 => m_owner = f /\ m_recursion = depth[f]
    /\ m_owner # None => m_recursion > 0

\* A fiber in lock() is in the list or, once, scheduled as the owner.
WaiterInOnePlace ==
    \A f \in Fibers :
        /\ Times(m_waiters, f) + scheduled[f] = IF blocked[f] THEN 1 ELSE 0
        /\ scheduled[f] > 0 => m_owner = f /\ depth[f] = 0

\* The mutex is never free while fibers are queued for it.
NoIdleWaiters == m_owner = None => m_waiters = <<>>

=============================================================================
