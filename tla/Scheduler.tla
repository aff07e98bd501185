----------------------------- MODULE Scheduler -----------------------------
(***************************************************************************)
(* Scheduler (mordor/scheduler.cpp, scheduler.h) with threads of its own   *)
(* (useCaller = false): the run() loop of each thread, schedule() from     *)
(* inside and outside, Scheduler::yield(), switchTo(), yieldTo(), stop().  *)
(*                                                                         *)
(* idle() and tickle() are virtual.  A thread that calls them is left in   *)
(* pc "idle" or "tickle" (a caller outside in "tickle" of its own) and a   *)
(* derived module says what happens there; see WorkerPool and IOManager.   *)
(*                                                                         *)
(* A boost::function entry runs on a fiber of its own that nothing else    *)
(* refers to until it yields, so an entry is always a fiber here; a dg is  *)
(* one whose state is INIT.  Each fiber runs client code that may schedule *)
(* others, give way, move to another thread, wait for MaxWakeups wake-ups  *)
(* (1: the primitives of fibersynchronization; more: waitAll of future.h)  *)
(* or return.                                                              *)
(***************************************************************************)
EXTENDS Naturals, Sequences, FiniteSets, FiniteSetsExt, SequencesExt

CONSTANTS
    Threads,       \* the threads the scheduler may ever spawn
    InitialThreads,  \* how many start() spawns
    Sizes,         \* the values threadCount(n) is called with
    Careful,       \* is the pool enlarged only when no thread is left over, and
                   \* started again only when stop() has returned?
    Fibers,        \* the fibers (and dgs) that are ever scheduled
    Clients,       \* threads outside the scheduler that call schedule()
    AnyThread,           \* emptytid(): no particular thread
    None,          \* no fiber
    m_batchSize,   \* the constructor's batchSize
    MaxWakeups,    \* schedule() calls that one wait of a fiber awaits
    MaxYields,     \* bound: how often each fiber gives up its thread
    Pinning        \* does a fiber call switchTo(thread)?

ASSUME BatchAssumption == m_batchSize \in Nat \ {0}
ASSUME WakeupAssumption == MaxWakeups \in Nat \ {0} /\ MaxYields \in Nat
ASSUME ThreadAssumption ==
    /\ IsFiniteSet(Threads) /\ Threads # {}
    /\ AnyThread \notin Threads /\ None \notin Fibers
    /\ InitialThreads \in 1..Cardinality(Threads) /\ Sizes \subseteq Nat \ {0}
    /\ Careful \in BOOLEAN

VARIABLES
    m_fibers,              \* the queue of [fiber, thread], oldest first
    m_activeThreadCount,
    m_idleThreadCount,
    m_stopping,
    state,       \* Fiber::m_state of each fiber
    pc,          \* pc[t]: where run() of thread t is
    batch,       \* batch[t]: the local of run()
    isActive,    \* isActive[t]: the local of run()
    dontIdle,    \* dontIdle[t]: the local of run()
    idleFiber,   \* idleFiber[t]: the state of the idle fiber of t, as run() sees it
    cur,         \* cur[t]: the fiber that executes on t, or None
    wakers,      \* wakers[f]: schedule(f) calls that somebody still has to make
    owed,        \* owed[f]: resumptions f needs before its client code goes on
    yields,      \* yields[f]: how often f gave up its thread so far
    client,      \* client[c]: "idle", or "tickle" in the middle of schedule()
    stopper,     \* progress of stop(): "up", "tickle", "swap", "join", "stopped"
    tickles,     \* the tickle() calls that stop() has left to make
    m_threadCount,
    m_threads,   \* the threads in the vector
    joining      \* the local of stop() that it is swapped into

queueVars == <<m_fibers, m_activeThreadCount, m_idleThreadCount, m_stopping>>
threadVars == <<pc, batch, isActive, dontIdle, idleFiber, cur>>
fiberVars == <<state, wakers, owed, yields>>
poolVars == <<stopper, tickles, m_threadCount, m_threads, joining>>
schedVars == <<queueVars, threadVars, fiberVars, client, poolVars>>

Entry(f, t) == [fiber |-> f, thread |-> t]

Init ==
    /\ m_fibers = <<>>
    /\ m_activeThreadCount = 0
    /\ m_idleThreadCount = 0
    /\ m_stopping = FALSE
    /\ state = [f \in Fibers |-> "INIT"]
    /\ m_threadCount = InitialThreads
    /\ m_threads \in {S \in SUBSET Threads : Cardinality(S) = InitialThreads}
    /\ pc = [t \in Threads |-> IF t \in m_threads THEN "take" ELSE "none"]
    /\ batch = [t \in Threads |-> <<>>]
    /\ isActive = [t \in Threads |-> FALSE]
    /\ dontIdle = [t \in Threads |-> FALSE]
    /\ idleFiber = [t \in Threads |-> "INIT"]
    /\ cur = [t \in Threads |-> None]
    /\ wakers = [f \in Fibers |-> 1]
    /\ owed = [f \in Fibers |-> 1]
    /\ yields = [f \in Fibers |-> 0]
    /\ client = [c \in Clients |-> "idle"]
    /\ stopper = "up"
    /\ tickles = 0
    /\ joining = {}

Goto(t, to) == pc' = [pc EXCEPT ![t] = to]

\* Scheduler::stopping, under m_mutex.
stopping == m_stopping /\ m_fibers = <<>> /\ m_activeThreadCount = 0

-----------------------------------------------------------------------------
(***************************************************************************)
(* The critical section at the top of run().  The scan takes the first     *)
(* m_batchSize entries this thread may run: not meant for another thread,  *)
(* and not a fiber that is still EXEC on the thread it is leaving.  It     *)
(* asks for a tickle when it passed over another thread's entry, or when   *)
(* its batch is full, some thread is not active, and more work follows.    *)
(***************************************************************************)
Foreign(t, e) == e.thread \notin {AnyThread, t}

\* Mutant of Runnable: a fiber that is still executing is taken as well.
RunnableBusy(t, e) == ~Foreign(t, e)

Runnable(t, e) == ~Foreign(t, e) /\ state[e.fiber] # "EXEC"

Taken(t) ==
    LET ok == {i \in DOMAIN m_fibers : Runnable(t, m_fibers[i])}
    IN {i \in ok : Cardinality({j \in ok : j < i}) < m_batchSize}

NeedTickle(t, taken, active) ==
    LET full == Cardinality(taken) = m_batchSize
    IN \E i \in DOMAIN m_fibers :
          \/ Foreign(t, m_fibers[i]) /\ (full => i < Max(taken))
          \/ /\ full /\ i > Max(taken) /\ active # m_threadCount
             /\ Foreign(t, m_fibers[i]) \/ Runnable(t, m_fibers[i])

\* The entries of the queue whose index is in I, in order.
Nth(I, k) == CHOOSE i \in I : Cardinality({j \in I : j < i}) = k - 1
Pick(I) == [k \in 1..Cardinality(I) |-> m_fibers[Nth(I, k)]]

\* Mutant of Kept: the entry of a fiber that still executes is erased, not skipped.
KeptIdle(taken) == {i \in DOMAIN m_fibers \ taken : state[m_fibers[i].fiber] # "EXEC"}

\* The entries that stay in the queue.
Kept(taken) == DOMAIN m_fibers \ taken

\* Mutant of ActiveAfter: a thread without work stays counted.
StaysActive(t, some) == IF some /\ ~isActive[t] THEN m_activeThreadCount + 1 ELSE m_activeThreadCount

\* m_activeThreadCount, once the thread knows whether it has work.
ActiveAfter(t, some) ==
    CASE some /\ ~isActive[t] -> m_activeThreadCount + 1
      [] ~some /\ isActive[t] -> m_activeThreadCount - 1
      [] OTHER -> m_activeThreadCount

\* threadCount(n) made the pool smaller: this thread may be one too many.
Superfluous == Cardinality(m_threads) > m_threadCount

\* It kills itself off.  The exception it injects into its idle fiber is caught where
\* idle() yields; one that has not begun lets it out of run(), one that has ended
\* cannot be called, and a thread that is not in the vector does not find itself.
Kill(t) ==
    /\ pc[t] = "take" /\ Superfluous
    /\ m_activeThreadCount' = IF isActive[t] THEN m_activeThreadCount - 1 ELSE m_activeThreadCount
    /\ isActive' = [isActive EXCEPT ![t] = FALSE]
    /\ \/ /\ idleFiber[t] = "HOLD" /\ t \in m_threads
          /\ idleFiber' = [idleFiber EXCEPT ![t] = "TERM"]
          /\ m_threads' = m_threads \ {t}
          /\ Goto(t, IF Cardinality(m_threads') > m_threadCount THEN "exitTickle" ELSE "exit")
       \/ /\ idleFiber[t] # "HOLD" \/ t \notin m_threads
          /\ Goto(t, "aborted") /\ UNCHANGED <<idleFiber, m_threads>>
    /\ UNCHANGED <<m_fibers, m_idleThreadCount, m_stopping, batch, dontIdle, cur, fiberVars, client,
                   stopper, tickles, m_threadCount, joining>>

\* No assertion has failed and no exception has left a thread.
Alive == \A t \in Threads : pc[t] # "aborted"

Take(t) ==
    LET taken == Taken(t)
        some == taken # {}
        active == ActiveAfter(t, some)
    IN /\ pc[t] = "take" /\ ~Superfluous
       /\ batch' = [batch EXCEPT ![t] = Pick(taken)]
       /\ m_fibers' = Pick(Kept(taken))
       /\ m_activeThreadCount' = active
       /\ isActive' = [isActive EXCEPT ![t] = some]
       /\ dontIdle' = [dontIdle EXCEPT ![t] = ~some /\ m_fibers # <<>>]
       /\ Goto(t, IF NeedTickle(t, taken, active) THEN "tickle" ELSE "dispatch")
       /\ UNCHANGED <<m_idleThreadCount, m_stopping, idleFiber, cur, fiberVars, client, poolVars>>

\* Empty batch, and the entries that were skipped keep the thread from idling.
Spin(t) ==
    /\ pc[t] = "dispatch"
    /\ batch[t] = <<>> /\ dontIdle[t]
    /\ Goto(t, "take")
    /\ UNCHANGED <<queueVars, batch, isActive, dontIdle, idleFiber, cur, fiberVars, client, poolVars>>

\* Nothing to do: call the idle fiber.
IdleCall(t) ==
    /\ pc[t] = "dispatch"
    /\ batch[t] = <<>> /\ ~dontIdle[t] /\ idleFiber[t] # "TERM"
    /\ m_idleThreadCount' = m_idleThreadCount + 1
    /\ Goto(t, "idle")
    /\ UNCHANGED <<m_fibers, m_activeThreadCount, m_stopping, batch, isActive, dontIdle,
                   idleFiber, cur, fiberVars, client, poolVars>>

\* Mutant of IdleReturn: run() does not notice that the idle fiber terminated.
IdleReturnUnnoticed(t, done) ==
    /\ m_idleThreadCount' = m_idleThreadCount - 1
    /\ Goto(t, "take")
    /\ UNCHANGED <<m_fibers, m_activeThreadCount, m_stopping, batch, isActive, dontIdle,
                   idleFiber, cur, fiberVars, client, poolVars>>

\* The idle fiber yielded, or terminated (done).
IdleReturn(t, done) ==
    /\ m_idleThreadCount' = m_idleThreadCount - 1
    /\ idleFiber' = [idleFiber EXCEPT ![t] = IF done THEN "TERM" ELSE "HOLD"]
    /\ Goto(t, "take")
    /\ UNCHANGED <<m_fibers, m_activeThreadCount, m_stopping, batch, isActive, dontIdle,
                   cur, fiberVars, client, poolVars>>

\* The idle fiber has terminated: unblock the next thread and leave run().
Exit(t) ==
    /\ pc[t] = "dispatch"
    /\ batch[t] = <<>> /\ ~dontIdle[t] /\ idleFiber[t] = "TERM"
    /\ Goto(t, IF m_threadCount > 1 THEN "exitTickle" ELSE "exit")
    /\ UNCHANGED <<queueVars, batch, isActive, dontIdle, idleFiber, cur, fiberVars, client, poolVars>>

\* tickle() returns to run().
TickleReturn(t) ==
    /\ \/ pc[t] = "tickle" /\ Goto(t, "dispatch")
       \/ pc[t] = "exitTickle" /\ Goto(t, "exit")
    /\ UNCHANGED <<queueVars, batch, isActive, dontIdle, idleFiber, cur, fiberVars, client, poolVars>>

\* The batch is worked off from its back; f->yieldTo() makes f EXEC.  A fiber
\* that still needs more wake-ups goes straight back to Scheduler::yieldTo().
RunNext(t) ==
    LET f == Last(batch[t]).fiber
    IN /\ pc[t] = "dispatch"
       /\ batch[t] # <<>>
       /\ batch' = [batch EXCEPT ![t] = Front(@)]
       /\ IF state[f] = "TERM"
          THEN /\ Goto(t, IF Len(batch[t]) = 1 THEN "take" ELSE "dispatch")
               /\ UNCHANGED <<cur, state, owed>>
          ELSE /\ state' = [state EXCEPT ![f] = "EXEC"]
               /\ cur' = [cur EXCEPT ![t] = f]
               /\ owed' = [owed EXCEPT ![f] = @ - 1]
               /\ Goto(t, IF owed[f] > 1 THEN "leave" ELSE "fiber")
       /\ UNCHANGED <<queueVars, isActive, dontIdle, idleFiber, wakers, yields, client, poolVars>>

\* run() is back on its own stack: the fiber's state is set after the switch.
Back(t, newState) ==
    /\ state' = [state EXCEPT ![cur[t]] = newState]
    /\ cur' = [cur EXCEPT ![t] = None]
    /\ Goto(t, IF batch[t] = <<>> THEN "take" ELSE "dispatch")
    /\ UNCHANGED <<queueVars, batch, isActive, dontIdle, idleFiber, wakers, owed, yields,
                   client, poolVars>>

SwitchOut(t) == pc[t] = "leave" /\ Back(t, "HOLD")

-----------------------------------------------------------------------------
(* What a fiber that executes on t does.  schedule() from a fiber of this  *)
(* scheduler never tickles: shouldTickle() is false.                       *)

Push(e) == m_fibers' = Append(m_fibers, e)

FiberSchedule(t, g) ==
    /\ pc[t] = "fiber"
    /\ wakers[g] > 0
    /\ wakers' = [wakers EXCEPT ![g] = @ - 1]
    /\ Push(Entry(g, AnyThread))
    /\ UNCHANGED <<m_activeThreadCount, m_idleThreadCount, m_stopping, threadVars, state,
                   owed, yields, client, poolVars>>

\* Before Scheduler::yieldTo(): others learn that they must schedule f, ...
FiberWait(t) ==
    LET f == cur[t]
    IN /\ pc[t] = "fiber"
       /\ yields[f] < MaxYields
       /\ yields' = [yields EXCEPT ![f] = @ + 1]
       /\ wakers' = [wakers EXCEPT ![f] = MaxWakeups]
       /\ owed' = [owed EXCEPT ![f] = MaxWakeups]
       /\ Goto(t, "leave")
       /\ UNCHANGED <<queueVars, batch, isActive, dontIdle, idleFiber, cur, state, client, poolVars>>

\* Mutant of FiberYield: the fiber is HOLD before the switch is made.
FiberYieldEarly(t, target) ==
    LET f == cur[t]
    IN /\ pc[t] = "fiber"
       /\ target # AnyThread => Pinning /\ target # t /\ pc[target] \notin {"none", "exit"}
       /\ yields[f] < MaxYields
       /\ yields' = [yields EXCEPT ![f] = @ + 1]
       /\ owed' = [owed EXCEPT ![f] = 1]
       /\ state' = [state EXCEPT ![f] = "HOLD"]
       /\ Push(Entry(f, target))
       /\ Goto(t, "leave")
       /\ UNCHANGED <<m_activeThreadCount, m_idleThreadCount, m_stopping, batch, isActive,
                      dontIdle, idleFiber, cur, wakers, client, poolVars>>

\* ... or f schedules itself: Scheduler::yield(), switchTo(thread).
FiberYield(t, target) ==
    LET f == cur[t]
    IN /\ pc[t] = "fiber"
       /\ target # AnyThread => Pinning /\ target # t /\ pc[target] \notin {"none", "exit"}
       /\ yields[f] < MaxYields
       /\ yields' = [yields EXCEPT ![f] = @ + 1]
       /\ owed' = [owed EXCEPT ![f] = 1]
       /\ Push(Entry(f, target))
       /\ Goto(t, "leave")
       /\ UNCHANGED <<m_activeThreadCount, m_idleThreadCount, m_stopping, batch, isActive,
                      dontIdle, idleFiber, cur, state, wakers, client, poolVars>>

FiberReturn(t) == pc[t] = "fiber" /\ Back(t, "TERM")

-----------------------------------------------------------------------------
(* schedule() by a thread outside: push under m_mutex, then tickle() if    *)
(* the queue was empty.  Nobody outside schedules once stop() is called.   *)

\* Mutant of ClientPush: schedule() does not tickle.
ClientPushSilent(c, f) ==
    /\ client[c] = "idle"
    /\ stopper = "up"
    /\ wakers[f] > 0
    /\ wakers' = [wakers EXCEPT ![f] = @ - 1]
    /\ Push(Entry(f, AnyThread))
    /\ UNCHANGED <<m_activeThreadCount, m_idleThreadCount, m_stopping, threadVars, state,
                   owed, yields, client, poolVars>>

ClientPush(c, f) ==
    /\ client[c] = "idle"
    /\ stopper = "up"
    /\ wakers[f] > 0
    /\ wakers' = [wakers EXCEPT ![f] = @ - 1]
    /\ Push(Entry(f, AnyThread))
    /\ client' = [client EXCEPT ![c] = IF m_fibers = <<>> THEN "tickle" ELSE "idle"]
    /\ UNCHANGED <<m_activeThreadCount, m_idleThreadCount, m_stopping, threadVars, state,
                   owed, yields, poolVars>>

ClientTickled(c) ==
    /\ client[c] = "tickle"
    /\ client' = [client EXCEPT ![c] = "idle"]
    /\ UNCHANGED <<queueVars, threadVars, fiberVars, poolVars>>

\* threadCount(n): growing overwrites what stands in the vector behind the first
\* m_threadCount threads; shrinking only sets the count.
ThreadCount(n) ==
    /\ stopper = "up" /\ n # m_threadCount
    /\ m_threadCount' = n
    /\ \/ n < m_threadCount /\ UNCHANGED <<m_threads, pc>>
       \/ /\ n > m_threadCount /\ (Careful => ~Superfluous)
          /\ \E kept \in SUBSET m_threads, new \in SUBSET {t \in Threads : pc[t] = "none"} :
                /\ Cardinality(kept) = m_threadCount /\ Cardinality(new) = n - m_threadCount
                /\ m_threads' = kept \cup new
                /\ pc' = [t \in Threads |-> IF t \in new THEN "take" ELSE pc[t]]
    /\ UNCHANGED <<queueVars, batch, isActive, dontIdle, idleFiber, cur, fiberVars, client,
                   stopper, tickles, joining>>

\* stop(): the flag (no lock is taken), the tickles, then the joins.
StopBegin ==
    /\ stopper = "up"
    /\ m_stopping' = TRUE
    /\ stopper' = "tickle"
    /\ tickles' = m_threadCount
    /\ UNCHANGED <<m_fibers, m_activeThreadCount, m_idleThreadCount, threadVars, fiberVars, client,
                   m_threadCount, m_threads, joining>>

StopTickled ==
    /\ stopper = "tickle"
    /\ tickles' = tickles - 1
    /\ stopper' = IF tickles = 1 THEN "swap" ELSE "tickle"
    /\ UNCHANGED <<queueVars, threadVars, fiberVars, client, m_threadCount, m_threads, joining>>

StopSwap ==
    /\ stopper = "swap" /\ stopper' = "join"
    /\ joining' = m_threads /\ m_threads' = {}
    /\ UNCHANGED <<queueVars, threadVars, fiberVars, client, tickles, m_threadCount>>

\* Mutant of StopJoin: stop() waits for one thread only.
StopJoinOne ==
    /\ stopper = "join"
    /\ \E t \in joining : pc[t] = "exit"
    /\ stopper' = "stopped"
    /\ UNCHANGED <<queueVars, threadVars, fiberVars, client, tickles, m_threadCount, m_threads, joining>>

StopJoin ==
    /\ stopper = "join"
    /\ \A t \in joining : pc[t] = "exit"
    /\ stopper' = "stopped"
    /\ UNCHANGED <<queueVars, threadVars, fiberVars, client, tickles, m_threadCount, m_threads, joining>>

\* start() of a scheduler that was stopped, or is being stopped and has its vector of
\* threads swapped out already.
Start ==
    /\ m_stopping /\ m_threads = {}
    /\ stopper = "stopped" \/ (stopper = "join" /\ ~Careful)
    /\ m_stopping' = FALSE
    /\ stopper' = IF stopper = "stopped" THEN "up" ELSE "join"
    /\ m_threads' \in {new \in SUBSET {t \in Threads : pc[t] = "none"} : Cardinality(new) = m_threadCount}
    /\ pc' = [t \in Threads |-> IF t \in m_threads' THEN "take" ELSE pc[t]]
    /\ UNCHANGED <<m_fibers, m_activeThreadCount, m_idleThreadCount, batch, isActive, dontIdle,
                   idleFiber, cur, fiberVars, client, tickles, m_threadCount, joining>>

\* The steps that involve neither idle() nor tickle().
ThreadStep(t) ==
    \/ Kill(t) \/ Take(t) \/ Spin(t) \/ IdleCall(t) \/ Exit(t) \/ RunNext(t) \/ SwitchOut(t)
    \/ \E g \in Fibers : FiberSchedule(t, g)
    \/ FiberWait(t)
    \/ \E target \in Threads \cup {AnyThread} : FiberYield(t, target)
    \/ FiberReturn(t)

OutsideStep ==
    \/ \E c \in Clients, f \in Fibers : ClientPush(c, f)
    \/ \E n \in Sizes : ThreadCount(n)
    \/ StopBegin \/ StopSwap \/ StopJoin \/ Start

-----------------------------------------------------------------------------
(* Properties that every derived scheduler must have.                      *)

SchedulerTypeOK ==
    /\ m_fibers \in Seq([fiber : Fibers, thread : Threads \cup {AnyThread}])
    /\ m_activeThreadCount \in Nat
    /\ m_idleThreadCount \in Nat
    /\ m_stopping \in BOOLEAN
    /\ state \in [Fibers -> {"INIT", "EXEC", "HOLD", "TERM"}]
    /\ pc \in [Threads -> {"take", "tickle", "dispatch", "idle", "pending", "wait", "process",
                           "fiber", "leave",
                           "exitTickle", "exit", "none", "aborted"}]
    /\ batch \in [Threads -> Seq([fiber : Fibers, thread : Threads \cup {AnyThread}])]
    /\ isActive \in [Threads -> BOOLEAN]
    /\ dontIdle \in [Threads -> BOOLEAN]
    /\ idleFiber \in [Threads -> {"INIT", "HOLD", "TERM"}]
    /\ cur \in [Threads -> Fibers \cup {None}]
    /\ wakers \in [Fibers -> Nat]
    /\ owed \in [Fibers -> Nat]
    /\ yields \in [Fibers -> 0..MaxYields]
    /\ client \in [Clients -> {"idle", "tickle"}]
    /\ stopper \in {"up", "tickle", "swap", "join", "stopped"}
    /\ tickles \in Nat /\ m_threadCount \in Nat \ {0}
    /\ m_threads \subseteq Threads /\ joining \subseteq Threads

\* The assertion of Fiber::yieldTo, m_state == HOLD || m_state == INIT (run()
\* itself skips TERM): no thread is about to switch to a fiber that another
\* thread executes.
NoDoubleRun ==
    \A t \in Threads : (pc[t] = "dispatch" /\ batch[t] # <<>>)
                            => state[Last(batch[t]).fiber] # "EXEC"

\* One thread at most executes a fiber, and exactly the EXEC fibers execute.
OneThreadPerFiber ==
    \A f \in Fibers : Cardinality({t \in Threads : cur[t] = f})
                        = IF state[f] = "EXEC" THEN 1 ELSE 0

\* m_activeThreadCount, which stopping() trusts, counts the threads that hold a
\* batch or execute a fiber; no thread with work in hand is left out.
ActiveCountExact ==
    /\ m_activeThreadCount = Cardinality({t \in Threads : isActive[t]})
    /\ \A t \in Threads : (batch[t] # <<>> \/ cur[t] # None) => isActive[t]

\* The resumptions of f that are on their way: schedule() calls still to be made,
\* entries in the queue and entries in batches.
EntriesOf(f, s) == {i \in DOMAIN s : s[i].fiber = f}
InBatches(f) == UNION {{t} \X EntriesOf(f, batch[t]) : t \in Threads}
Coming(f) == wakers[f] + Cardinality(EntriesOf(f, m_fibers)) + Cardinality(InBatches(f))

\* Every schedule() leads to one resumption: what is on its way is what the fiber
\* still needs.
NoLostWakeup == \A f \in Fibers : Coming(f) = owed[f]

\* "stop() will return only after there are no more Fibers scheduled": and no
\* thread is left with one either.
StopDrains ==
    stopper = "stopped" =>
        /\ m_fibers = <<>>
        /\ m_activeThreadCount = 0
        /\ \A f \in Fibers : state[f] # "EXEC"
        /\ m_idleThreadCount = 0

\* A thread that kills itself off finds itself in the vector and its idle fiber at the
\* yield in idle().
KilledCleanly == Alive

\* Every entry in the queue is eventually taken and its fiber executed.
Queued(f) == \E i \in DOMAIN m_fibers : m_fibers[i].fiber = f
WorkRuns == \A f \in Fibers : Queued(f) ~> (\E t \in Threads : cur[t] = f)

\* stop() returns: no thread sleeps on while stop() waits for it.
StopReturns == stopper = "tickle" ~> stopper = "stopped"

\* For TLC: fibers are interchangeable, and so are threads.
FiberSymmetry == Permutations(Fibers) \cup Permutations(Threads)
=============================================================================
