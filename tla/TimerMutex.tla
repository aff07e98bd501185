----------------------------- MODULE TimerMutex -----------------------------
(***************************************************************************)
(* TimerManager::m_mutex itself.  refresh(), reset() and registerTimer()   *)
(* call m_mutex.unlock() and then leave the scope of a lock_guard, which   *)
(* unlocks once more; between the two, reset() and registerTimer() may     *)
(* call onTimerInsertedAtFront().  The other operations unlock once, in    *)
(* the destructor of their lock_guard.                                     *)
(***************************************************************************)
EXTENDS Naturals, FiniteSets

CONSTANT Threads

VARIABLES
    m_mutex,     \* TRUE while locked
    pc           \* pc[t]: "out", "once", "twice" (inside, by kind of call) or "after"

vars == <<m_mutex, pc>>

Init == m_mutex = FALSE /\ pc = [t \in Threads |-> "out"]

\* External (glibc): lock() waits until the mutex is free.
Lock(t, kind) == /\ pc[t] = "out" /\ ~m_mutex
                 /\ m_mutex' = TRUE
                 /\ pc' = [pc EXCEPT ![t] = kind]

\* External (glibc): unlock() of a default mutex frees it, whoever holds it.
unlock == m_mutex' = FALSE

\* cancel(), nextTimer(), processTimers().
LockOnce(t) == Lock(t, "once")
UnlockOnce(t) == pc[t] = "once" /\ unlock /\ pc' = [pc EXCEPT ![t] = "out"]

\* refresh(), reset(), registerTimer(): m_mutex.unlock(), ...
LockTwice(t) == Lock(t, "twice")
UnlockEarly(t) == pc[t] = "twice" /\ unlock /\ pc' = [pc EXCEPT ![t] = "after"]

\* ... then ~lock_guard().
UnlockAgain(t) == pc[t] = "after" /\ unlock /\ pc' = [pc EXCEPT ![t] = "out"]

Next == \E t \in Threads : \/ LockOnce(t) \/ UnlockOnce(t)
                           \/ LockTwice(t) \/ UnlockEarly(t) \/ UnlockAgain(t)

Spec == Init /\ [][Next]_vars

-----------------------------------------------------------------------------
\* "re-register recurring timers (while under the same lock)": no two threads are
\* inside the manager's critical sections at once.
MutualExclusion == Cardinality({t \in Threads : pc[t] \in {"once", "twice"}}) <= 1
=============================================================================
