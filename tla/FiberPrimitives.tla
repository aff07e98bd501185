-------------------------- MODULE FiberPrimitives --------------------------
(***************************************************************************)
(* FiberSemaphore, RecursiveFiberMutex, FiberEvent (with and without       *)
(* auto-reset), the waits on Futures, parallel_do(), a Scheduler on the    *)
(* caller's thread and the switches between fibers that all of them rest   *)
(* on, under one specification.                                            *)
(* `use' says which of them the fibers call; each keeps its fields, the    *)
(* first four share the fibers' state and the name of their list of        *)
(* waiters.                                                                *)
(***************************************************************************)
EXTENDS FiberBlocking

CONSTANTS
    None, N, initialConcurrency, MaxNotifies, MaxDepth, MaxSets,
    Jobs, Workers, parallelism, Rounds,            \* Parallel
    Threads, Stacks, NoFiber,                      \* Fiber
    Scheduled, Main, Root, m_batchSize, MaxCalls   \* CallerScheduler

ASSUME FibersAssumption == IsFiniteSet(Fibers) /\ None \notin Fibers
ASSUME CountersAssumption == initialConcurrency \in Nat /\ parallelism \in Nat
ASSUME JobsAssumption == IsFiniteSet(Workers) /\ Jobs = 1..Cardinality(Jobs) /\ Cardinality(Jobs) \in Nat
ASSUME StacksAssumption ==
    IsFiniteSet(Stacks) /\ NoFiber \notin Threads \cup Stacks /\ \E t \in Threads : Threads = {t}
ASSUME CallerAssumption ==
    /\ {Main, Root, NoFiber} \cap Scheduled = {} /\ Main # Root /\ NoFiber \notin {Main, Root}
    /\ m_batchSize \in Nat \ {0}

VARIABLES
    use,
    m_waiters,
    m_concurrency, entered, notified,              \* FiberSemaphore
    m_owner, m_recursion, depth,                   \* RecursiveFiberMutex
    m_signalled, runnables, passed, sets,          \* FiberEvent
    waiting, signalled, signaller, op, pc, it, index, result, yieldsNeeded,
    fstate, fscheduled,                            \* Future
    foreach, worker, taken, next, ended, exception, completed, concurrency, caller, queued,
    round,                                         \* Parallel
    t_fiber, m_state, m_outer, m_terminateOuter, m_exception, context, aborting,  \* Fiber
    m_fibers, m_activeThreadCount, m_stopping, m_autoStop, m_callingFiber, m_semaphore, root,
    back, now, at, idleFiber, batch, isActive, fiberState, calls, wakers, owed, called, outside,
    late, outcome, stray                           \* CallerScheduler

semaphoreVars == <<m_concurrency, entered, notified>>
recursiveVars == <<m_owner, m_recursion, depth>>
eventVars == <<m_signalled, runnables, passed, sets>>
fvars == <<waiting, signalled, signaller, op, pc, it, index, result, yieldsNeeded, fstate,
           fscheduled>>
waitVars == <<blockingVars, m_waiters, semaphoreVars, recursiveVars, eventVars, fvars>>
parallelVars == <<foreach, worker, taken, next, ended, exception, completed, concurrency,
                  caller, queued, round>>
fiberVars == <<t_fiber, m_state, m_outer, m_terminateOuter, m_exception, context, aborting>>
callerVars == <<m_fibers, m_activeThreadCount, m_stopping, m_autoStop, m_callingFiber, m_semaphore,
                root, back, now, at, idleFiber, batch, isActive, fiberState, calls, wakers, owed,
                called, outside, late, outcome, stray>>
vars == <<use, waitVars, parallelVars, fiberVars, callerVars>>

Sem == INSTANCE FiberSemaphore
Rec == INSTANCE RecursiveFiberMutex
AutoEvent == INSTANCE FiberEvent WITH m_autoReset <- TRUE
ManualEvent == INSTANCE FiberEvent WITH m_autoReset <- FALSE
Fut == INSTANCE Future WITH state <- fstate, scheduled <- fscheduled
Par == INSTANCE Parallel
Switch == INSTANCE Fiber
Hijack == INSTANCE CallerScheduler

Init == /\ use \in {"semaphore", "recursive", "auto", "manual", "future", "parallel", "fiber",
                  "hijack"}
        /\ Sem!Init /\ Rec!Init /\ AutoEvent!Init /\ Fut!Init
        /\ Par!ParallelInit /\ Switch!FiberInit /\ Hijack!CallerInit
        /\ use # "future" => op = "all"
        /\ use # "parallel" => foreach = (Workers # Jobs)

-----------------------------------------------------------------------------
\* Frames: what the primitive that is in use leaves alone.
Used(u) == use = u /\ UNCHANGED use
Idle == <<parallelVars, fiberVars, callerVars>>
InSemaphore == Used("semaphore") /\ UNCHANGED <<recursiveVars, eventVars, fvars, Idle>>
InRecursive == Used("recursive") /\ UNCHANGED <<semaphoreVars, eventVars, fvars, Idle>>
InEvent(kind) == Used(kind) /\ UNCHANGED <<semaphoreVars, recursiveVars, fvars, Idle>>
InFuture == /\ Used("future")
            /\ UNCHANGED <<blockingVars, m_waiters, semaphoreVars, recursiveVars, eventVars, Idle>>
InParallel == Used("parallel") /\ UNCHANGED <<waitVars, fiberVars, callerVars>>
InFiber == Used("fiber") /\ UNCHANGED <<waitVars, parallelVars, callerVars>>
InHijack == Used("hijack") /\ UNCHANGED <<waitVars, parallelVars, fiberVars>>

Next == \/ Sem!Next /\ InSemaphore
        \/ Rec!Next /\ InRecursive
        \/ AutoEvent!Next /\ InEvent("auto")
        \/ ManualEvent!Next /\ InEvent("manual")
        \/ Fut!Next /\ InFuture
        \/ Par!ParallelNext /\ InParallel
        \/ Switch!FiberNext /\ InFiber
        \/ Hijack!CallerNext /\ InHijack

\* The part of the schedulers' threads: the switch of a fiber that blocks, its
\* return from it, and the schedule() calls of a set() in progress.
Progress(f) ==
    \/ (Sem!YieldTo(f) \/ Sem!Resume(f)) /\ InSemaphore
    \/ (Rec!YieldTo(f) \/ Rec!Resume(f)) /\ InRecursive
    \/ /\ AutoEvent!YieldTo(f) \/ AutoEvent!Resume(f) \/ AutoEvent!SetSchedule(f)
       /\ InEvent("auto") \/ InEvent("manual")

(***************************************************************************)
(* Threads keep running.  Of clients it is assumed only that an owner of   *)
(* the recursive mutex does not go on locking for ever: if it can unlock   *)
(* at some depth again and again, it does.  No future need be signalled.   *)
(* The fibers of the hijacking scheduler return in the end.                *)
(***************************************************************************)
Fairness ==
    /\ \A f \in Fibers :
          /\ WF_vars(Progress(f))
          /\ \A d \in 1..MaxDepth : SF_vars(Rec!Unlock(f) /\ m_recursion = d /\ InRecursive)
    /\ WF_vars(Fut!Waiter /\ InFuture)
    /\ \A i \in 0 .. N - 1 : WF_vars(Fut!SignalSchedule(i) /\ InFuture)
    /\ WF_vars((Par!Progress /\ InParallel) \/ (Hijack!CallerProgress /\ InHijack))

Spec == Init /\ [][Next]_vars /\ Fairness

-----------------------------------------------------------------------------
\* A fiber inside a blocking call is in exactly one place from which it will be
\* woken: the list, the local of a set() that let go of the mutex, or (once) its
\* scheduler's queue; any other fiber is in none.  And nobody is left in a list, or
\* overtaken by a newcomer, while there is concurrency, the mutex is free or the event
\* is signalled.
WaiterInOnePlace ==
    /\ use = "semaphore" => Sem!WaiterInOnePlace /\ Sem!NoIdleWaiters
    /\ use = "recursive" => Rec!WaiterInOnePlace /\ Rec!NoIdleWaiters
    /\ use \in {"auto", "manual"} => AutoEvent!WaiterInOnePlace /\ AutoEvent!SignalledNobodyWaits

\* What is handed to a fiber that has not returned yet is neither lost nor made up:
\* FiberSemaphore's concurrency, RecursiveFiberMutex's m_recursion (the number of lock()
\* calls that the owner has not undone), one wait() for every set() of an auto-reset
\* FiberEvent, and what was scheduled on the caller's thread, exceptions or not, before
\* dispatch() or stop() returns.
HandedOverOnce ==
    /\ use = "semaphore" => Sem!ConcurrencyConserved
    /\ use = "recursive" => Rec!RecursionMatchesOwner
    /\ use = "auto" => AutoEvent!OnePerSet
    /\ use = "hijack" => Hijack!ResumedOnce /\ Hijack!Drains

\* waitAll returns with every future signalled, waitAny with the index of one that is,
\* and neither leaves a wake-up of the fiber behind.
FutureReturns == Fut!ReturnsClean /\ Fut!AllReturnsAll /\ Fut!AnyReturnsSignalled

\* The caller of parallel_do() and parallel_foreach() goes on when no worker will touch
\* its stack again.
CallerAloneAfterwards == Par!CallerAloneAfterwards

\* The state word of every fiber tells where the fiber is, whatever sequence of call(),
\* yield(), yieldTo(), inject() and reset() led there.
StateMatchesContext == Switch!StateMatchesContext

\* A fiber that was taken out of a list returns from its call; a lock() of the
\* recursive mutex returns however deep the others lock it; waitAny returns once some
\* future is signalled, waitAll once all are; parallel_do() and parallel_foreach() return,
\* and so do dispatch() and stop() on the caller's thread, if only with an exception.
Waits(f) ==
    \/ blocked[f] /\ (use = "recursive" \/ Times(m_waiters, f) = 0)
    \/ use = "future" /\ Fut!WaitOver /\ pc # "done"
    \/ use = "parallel" /\ caller # "returned"
    \/ use = "hijack" /\ calls[Main] \in {"dispatch", "stop"} /\ now # NoFiber
BlockedReturns == \A f \in Fibers : []<>~Waits(f)
=============================================================================
