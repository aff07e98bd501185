----------------------------- MODULE FiberEvent -----------------------------
(***************************************************************************)
(* FiberEvent of mordor/fibersynchronization.cpp.  set() takes waiters out *)
(* of the list under the mutex and calls schedule() after releasing it; in *)
(* between they are only in its local `runnables'.                         *)
(***************************************************************************)
EXTENDS FiberBlocking

CONSTANTS
    m_autoReset,
    MaxSets        \* bound: calls of set()

VARIABLES
    m_signalled,
    m_waiters,
    runnables,   \* runnables[f]: the local of a set() call of f
    passed,      \* history: how many calls of wait() have returned
    sets         \* history: how many calls of set() there were

vars == <<blockingVars, m_signalled, m_waiters, runnables, passed, sets>>

TypeOK == /\ BlockingTypeOK
          /\ m_signalled \in BOOLEAN
          /\ m_waiters \in Seq(Fibers)
          /\ runnables \in [Fibers -> Seq(Fibers)]
          /\ passed \in Nat
          /\ sets \in 0..MaxSets

Init == /\ BlockingInit
        /\ m_signalled = FALSE
        /\ m_waiters = <<>>
        /\ runnables = [f \in Fibers |-> <<>>]
        /\ passed = 0
        /\ sets = 0

\* f executes client code, outside set().
Free(f) == Runs(f) /\ runnables[f] = <<>>

\* Mutant of WaitPasses: the event is not reset by the fiber that passes.
WaitPassesOn(f) ==
    /\ Free(f)
    /\ m_signalled
    /\ passed' = passed + 1
    /\ passed < MaxSets + Cardinality(Fibers)
    /\ UNCHANGED <<blockingVars, m_signalled, m_waiters, runnables, sets>>

\* wait(): pass when signalled (bounded, as a manual event lets everyone pass
\* any number of times), ...
WaitPasses(f) ==
    /\ Free(f)
    /\ m_signalled
    /\ passed < MaxSets + Cardinality(Fibers)
    /\ m_signalled' = ~m_autoReset
    /\ passed' = passed + 1
    /\ UNCHANGED <<blockingVars, m_waiters, runnables, sets>>

\* ... or join the list.
WaitQueues(f) ==
    /\ Free(f)
    /\ ~m_signalled
    /\ m_waiters' = Append(m_waiters, f)
    /\ Block(f)
    /\ UNCHANGED <<m_signalled, runnables, passed, sets>>

\* Mutant of Set: waiters are copied instead of taken out.
SetCopies(f) ==
    /\ Free(f) /\ sets < MaxSets
    /\ sets' = sets + 1
    /\ m_signalled' = (m_signalled \/ ~m_autoReset \/ m_waiters = <<>>)
    /\ runnables' = [runnables EXCEPT ![f] = m_waiters]
    /\ UNCHANGED <<blockingVars, m_waiters, passed>>

\* The critical section of set(): one waiter with auto-reset, else all of them.
Set(f) ==
    LET first == IF m_autoReset /\ m_waiters # <<>> THEN <<Head(m_waiters)>> ELSE m_waiters
    IN /\ Free(f)
       /\ sets < MaxSets
       /\ sets' = sets + 1
       /\ m_signalled' = (m_signalled \/ ~m_autoReset \/ m_waiters = <<>>)
       /\ runnables' = [runnables EXCEPT ![f] = first]
       /\ m_waiters' = SubSeq(m_waiters, Len(first) + 1, Len(m_waiters))
       /\ UNCHANGED <<blockingVars, passed>>

\* Mutant of SetSchedule: only the first of the waiters is scheduled.
SetSchedulesOne(f) ==
    /\ runnables[f] # <<>>
    /\ schedule(Head(runnables[f]))
    /\ runnables' = [runnables EXCEPT ![f] = <<>>]
    /\ UNCHANGED <<m_signalled, m_waiters, passed, sets>>

\* After it, set() schedules what it took, one by one.
SetSchedule(f) ==
    /\ runnables[f] # <<>>
    /\ schedule(Head(runnables[f]))
    /\ runnables' = [runnables EXCEPT ![f] = Tail(@)]
    /\ UNCHANGED <<m_signalled, m_waiters, passed, sets>>

reset(f) ==
    /\ Free(f)
    /\ m_signalled' = FALSE
    /\ UNCHANGED <<blockingVars, m_waiters, runnables, passed, sets>>

YieldTo(f) == /\ SwitchAway(f)
              /\ UNCHANGED <<m_signalled, m_waiters, runnables, passed, sets>>

Resume(f) == /\ Resumed(f)
             /\ passed' = passed + 1
             /\ UNCHANGED <<m_signalled, m_waiters, runnables, sets>>

Step(f) == \/ WaitPasses(f) \/ WaitQueues(f)
           \/ Set(f) \/ SetSchedule(f) \/ reset(f)
           \/ YieldTo(f) \/ Resume(f)

Next == \E f \in Fibers : Step(f)

Spec == Init /\ [][Next]_vars

-----------------------------------------------------------------------------
\* A fiber in wait() is in the list, in the local of one set(), or scheduled,
\* exactly once, although set() lets go of the mutex in between.
WaiterInOnePlace ==
    \A f \in Fibers :
        Times(m_waiters, f) + scheduled[f]
          + Cardinality({g \in Fibers : Times(runnables[g], f) = 1})
        = IF blocked[f] THEN 1 ELSE 0

\* No fiber sleeps in the list of an event that is signalled.
SignalledNobodyWaits == m_signalled => m_waiters = <<>>

\* With auto-reset every set() lets at most one wait() return: what returned, is
\* on its way to return or may still pass never exceeds the calls of set().
OnePerSet ==
    m_autoReset =>
        passed + Cardinality({f \in Fibers : blocked[f] /\ Times(m_waiters, f) = 0})
          + (IF m_signalled THEN 1 ELSE 0) <= sets

=============================================================================
