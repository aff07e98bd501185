-------------------------- MODULE CallerScheduler --------------------------
(***************************************************************************)
(* A WorkerPool that hijacks the thread it was made on and has no other    *)
(* (scheduler.h's default: threads = 1, useCaller = true).  `Main' is the  *)
(* fiber of that thread; Scheduler::run() is on a fiber of its own, Root,  *)
(* begun by whoever yields to the scheduler and begun again after it has   *)
(* ended.  Another thread calls schedule() as well.  Fibers may throw: the *)
(* exception goes through run() to the fiber that Root returns to.         *)
(***************************************************************************)
EXTENDS Naturals, Sequences, FiniteSets

CONSTANTS
    Scheduled,     \* the fibers (and dgs) that are scheduled
    Main, Root, NoFiber,
    m_batchSize,
    MaxCalls       \* bound: how often fibers call yield(), yieldTo(), dispatch() and stop()

VARIABLES
    m_fibers, m_activeThreadCount, m_stopping, m_autoStop, m_callingFiber, m_semaphore,
    root,          \* the state of m_rootFiber
    back,          \* its m_terminateOuter
    now,           \* the fiber that executes
    at,            \* where run() is: "take", "work", "idle", "wait"
    idleFiber, batch, isActive,   \* locals of run()
    fiberState,
    calls,         \* calls[f]: "client", or the call f is in: "wait", "dispatch", "stop"
    wakers, owed,  \* schedule(f) calls still to be made, resumptions f is due
    called,
    outside,       \* the other thread: "idle", or "tickle" in the middle of schedule()
    late,          \* how much it has scheduled since run() last looked
    outcome,       \* what the last dispatch() or stop() of Main left: "drained", "left", "threw"
    stray          \* was a wake-up for another call of Main still due when it called dispatch()?

runVars == <<at, idleFiber, batch, isActive>>
stopVars == <<m_stopping, m_autoStop, m_callingFiber>>
wakeVars == <<wakers, owed, called>>
endVars == <<outcome, stray>>
outsideVars == <<outside, late>>
callerVars == <<m_fibers, m_activeThreadCount, stopVars, m_semaphore, root, back, now, runVars,
                fiberState, calls, wakeVars, outsideVars, endVars>>

Anyone == Scheduled \cup {Main}

CallerInit ==
    /\ m_fibers = <<>> /\ m_activeThreadCount = 0 /\ m_semaphore = 0
    /\ m_stopping = FALSE /\ m_autoStop = FALSE /\ m_callingFiber = NoFiber
    /\ root = "INIT" /\ back = NoFiber /\ now = Main
    /\ at = "take" /\ idleFiber = "INIT" /\ batch = <<>> /\ isActive = FALSE
    /\ fiberState = [f \in Anyone |-> IF f = Main THEN "EXEC" ELSE "INIT"]
    /\ calls = [f \in Anyone |-> "client"]
    /\ wakers = [f \in Anyone |-> IF f = Main THEN 0 ELSE 1] /\ owed = wakers
    /\ called = 0
    /\ outside = "idle" /\ late = 0 /\ outcome = "none" /\ stray = FALSE

stopping == m_stopping /\ m_fibers = <<>> /\ m_activeThreadCount = 0

\* An assertion has failed, or an exception met a destructor that asserts.
Crash == now' = NoFiber
Runs(f) == now = f /\ calls[f] = "client"

-----------------------------------------------------------------------------
\* The private yieldTo(): f switches to Root, whose run() is begun anew unless it is
\* suspended; with `toCaller' Root returns to f when it ends.
YieldTo(f, toCaller) ==
    /\ now' = Root /\ root' = "EXEC"
    /\ fiberState' = [fiberState EXCEPT ![f] = "HOLD"]
    /\ back' = IF toCaller THEN f ELSE back
    /\ IF root = "HOLD" THEN UNCHANGED runVars
       ELSE at' = "take" /\ idleFiber' = "INIT" /\ batch' = <<>> /\ isActive' = FALSE

\* The public yieldTo(): the fiber that begins run() is the calling fiber.  Both begin
\* by settling m_stopping.
PublicYieldTo(f) ==
    /\ YieldTo(f, root \in {"INIT", "TERM"})
    /\ m_callingFiber' = IF root \in {"INIT", "TERM"} THEN f ELSE m_callingFiber

Settled == IF root = "HOLD" THEN m_stopping ELSE m_autoStop \/ m_stopping

\* Scheduler::yieldTo() of a fiber that somebody else will schedule, and
\* Scheduler::yield(), in which it schedules itself.
GiveUp(f, itself) ==
    /\ Runs(f) /\ called < MaxCalls
    /\ called' = called + 1
    /\ owed' = [owed EXCEPT ![f] = @ + 1]
    /\ wakers' = IF itself THEN wakers ELSE [wakers EXCEPT ![f] = @ + 1]
    /\ m_fibers' = IF itself THEN Append(m_fibers, f) ELSE m_fibers
    /\ calls' = [calls EXCEPT ![f] = "wait"]
    /\ PublicYieldTo(f)
    /\ m_stopping' = Settled
    /\ UNCHANGED <<m_activeThreadCount, m_autoStop, m_semaphore, outsideVars, endVars>>

\* schedule() from a fiber of this scheduler does not tickle.
Schedule(f, g) ==
    /\ Runs(f) /\ wakers[g] > 0
    /\ wakers' = [wakers EXCEPT ![g] = @ - 1]
    /\ m_fibers' = Append(m_fibers, g)
    /\ UNCHANGED <<m_activeThreadCount, stopVars, m_semaphore, root, back, now, runVars,
                   fiberState, calls, owed, called, outsideVars, endVars>>

dispatch ==
    /\ Runs(Main) /\ called < MaxCalls
    /\ called' = called + 1
    /\ m_stopping' = TRUE /\ m_autoStop' = TRUE
    /\ calls' = [calls EXCEPT ![Main] = "dispatch"]
    /\ PublicYieldTo(Main)
    /\ stray' = (owed[Main] > 0) /\ outcome' = "none"
    /\ UNCHANGED <<m_fibers, m_activeThreadCount, m_semaphore, wakers, owed, outsideVars>>

\* start() of a scheduler without threads.
start == /\ Runs(Main) /\ m_stopping /\ m_stopping' = FALSE
         /\ UNCHANGED <<m_fibers, m_activeThreadCount, m_autoStop, m_callingFiber, m_semaphore,
                        root, back, now, runVars, fiberState, calls, wakeVars, outsideVars, endVars>>

\* stop(): the flag, and whether this fiber sees to it that the scheduler stops.  A
\* scheduler that is not running and has nothing to do is stopped already.
stop(f) ==
    /\ Runs(f) /\ called < MaxCalls
    /\ called' = called + 1
    /\ m_stopping' = TRUE
    /\ LET already == root \in {"TERM", "INIT"} /\ m_fibers = <<>> /\ m_activeThreadCount = 0
       IN calls' = IF ~already /\ m_callingFiber \in {f, NoFiber}
                   THEN [calls EXCEPT ![f] = "stop"] ELSE calls
    /\ UNCHANGED <<m_fibers, m_activeThreadCount, m_autoStop, m_callingFiber, m_semaphore, root,
                   back, now, runVars, fiberState, wakers, owed, outsideVars, endVars>>

\* Its loop.  A dg has no other owner than run(), which lets go of it.
StopLoop(f) ==
    /\ now = f /\ calls[f] = "stop"
    /\ \/ /\ stopping
          /\ calls' = [calls EXCEPT ![f] = "client"]
          /\ outcome' = IF f = Main THEN "drained" ELSE outcome
          /\ UNCHANGED <<m_stopping, root, back, now, runVars, fiberState>>
       \/ /\ ~stopping /\ YieldTo(f, TRUE)
          /\ m_stopping' = Settled
          /\ UNCHANGED <<calls, outcome>>
       \/ /\ ~stopping /\ f # Main /\ Crash
          /\ UNCHANGED <<m_stopping, root, back, runVars, fiberState, calls, outcome>>
    /\ UNCHANGED <<m_fibers, m_activeThreadCount, m_autoStop, m_callingFiber, m_semaphore,
                   wakeVars, outsideVars, stray>>

\* f is executed again: what the call does that it is in.
Continues(f) ==
    /\ calls' = [calls EXCEPT ![f] = IF @ = "stop" THEN "stop" ELSE "client"]
    /\ m_autoStop' = IF calls[f] = "dispatch" THEN FALSE ELSE m_autoStop
    /\ outcome' = IF calls[f] # "dispatch" THEN outcome
                 ELSE IF Len(m_fibers) <= late /\ batch' = <<>> THEN "drained" ELSE "left"

-----------------------------------------------------------------------------
(* run(), on Root.                                                         *)

InRun(where) == now = Root /\ at = where
Goto(to) == at' = to

\* The critical section at its top: nothing in the queue executes or is meant for
\* another thread.
take ==
    LET n == IF Len(m_fibers) < m_batchSize THEN Len(m_fibers) ELSE m_batchSize
    IN /\ InRun("take")
       /\ batch' = SubSeq(m_fibers, 1, n) /\ m_fibers' = SubSeq(m_fibers, n + 1, Len(m_fibers))
       /\ isActive' = (n > 0)
       /\ m_activeThreadCount' = CASE n > 0 /\ ~isActive -> m_activeThreadCount + 1
                                   [] n = 0 /\ isActive -> m_activeThreadCount - 1
                                   [] OTHER -> m_activeThreadCount
       /\ Goto(IF n > 0 THEN "work" ELSE "idle")
       /\ late' = 0
       /\ UNCHANGED <<stopVars, m_semaphore, root, back, now, idleFiber, fiberState, calls,
                      wakeVars, outside, endVars>>

\* The idle fiber: it ends when the scheduler stops, ...
idle == /\ InRun("idle") /\ idleFiber # "TERM"
        /\ IF stopping THEN idleFiber' = "TERM" /\ Goto("take")
           ELSE Goto("wait") /\ UNCHANGED idleFiber
        /\ UNCHANGED <<m_fibers, m_activeThreadCount, stopVars, m_semaphore, root, back, now,
                       batch, isActive, fiberState, calls, wakeVars, outsideVars, endVars>>

\* ... or waits for a tickle and yields.
idleWoken == /\ InRun("wait") /\ m_semaphore > 0
             /\ m_semaphore' = m_semaphore - 1
             /\ idleFiber' = "HOLD" /\ Goto("take")
             /\ UNCHANGED <<m_fibers, m_activeThreadCount, stopVars, root, back, now, batch,
                            isActive, fiberState, calls, wakeVars, outsideVars, endVars>>

\* It has ended: run() returns, and the fiber that waits for Root goes on.
runReturns ==
    /\ InRun("idle") /\ idleFiber = "TERM"
    /\ m_callingFiber' = NoFiber
    /\ root' = "TERM" /\ now' = back
    /\ fiberState' = [fiberState EXCEPT ![back] = "EXEC"]
    /\ UNCHANGED batch /\ Continues(back)
    /\ UNCHANGED <<m_fibers, m_activeThreadCount, m_stopping, m_semaphore, back, at, idleFiber,
                   isActive, wakeVars, outsideVars, stray>>

\* f->yieldTo() for the last entry of the batch.
runNext ==
    LET f == batch[Len(batch)]
    IN /\ InRun("work")
       /\ batch' = SubSeq(batch, 1, Len(batch) - 1)
       /\ Goto(IF Len(batch) = 1 THEN "take" ELSE "work")
       /\ owed' = [owed EXCEPT ![f] = @ - 1]
       /\ root' = "HOLD" /\ now' = f
       /\ fiberState' = [fiberState EXCEPT ![f] = "EXEC"]
       /\ Continues(f)
       /\ UNCHANGED <<m_fibers, m_activeThreadCount, m_stopping, m_callingFiber, m_semaphore,
                      back, idleFiber, isActive, wakers, called, outsideVars, stray>>

\* The functor of f returns to Root, which must be suspended there.
FiberReturn(f) ==
    /\ Runs(f) /\ f # Main
    /\ fiberState' = [fiberState EXCEPT ![f] = "TERM"]
    /\ IF root = "HOLD" THEN now' = Root /\ root' = "EXEC" ELSE Crash /\ UNCHANGED root
    /\ UNCHANGED <<m_fibers, m_activeThreadCount, stopVars, m_semaphore, back, runVars, calls,
                   wakeVars, outsideVars, endVars>>

\* Mutant of PutBack: the rest of the batch goes with the exception.
PutBackNothing == m_fibers

\* The fibers of the batch that have not been executed go back to the queue.
PutBack == m_fibers \o batch

\* f throws: run() puts back the rest of its batch and throws on, to the fiber that
\* waits for Root.  The destructor of an idle fiber that is suspended asserts.
FiberThrow(f) ==
    /\ Runs(f) /\ f # Main
    /\ \/ /\ root # "HOLD" /\ Crash
          /\ fiberState' = [fiberState EXCEPT ![f] = "EXCEPT"]
          /\ UNCHANGED <<m_fibers, m_activeThreadCount, batch, isActive, root, calls, outcome>>
       \/ /\ root = "HOLD"
          /\ m_fibers' = PutBack /\ m_activeThreadCount' = m_activeThreadCount - 1
          /\ batch' = <<>> /\ isActive' = FALSE
          /\ root' = "EXCEPT"
          /\ now' = IF idleFiber = "HOLD" THEN NoFiber ELSE back
          /\ fiberState' = [fiberState EXCEPT ![f] = "EXCEPT", ![back] = "EXEC"]
          /\ calls' = [calls EXCEPT ![back] = "client"]
          /\ outcome' = IF calls[back] \in {"dispatch", "stop"} THEN "threw" ELSE outcome
    /\ UNCHANGED <<stopVars, m_semaphore, back, at, idleFiber, wakeVars, outsideVars, stray>>

-----------------------------------------------------------------------------
(* The other thread: schedule(), then tickle() if the queue was empty.     *)

OutsideSchedule(f) ==
    /\ outside = "idle" /\ wakers[f] > 0 /\ now # NoFiber
    /\ wakers' = [wakers EXCEPT ![f] = @ - 1]
    /\ m_fibers' = Append(m_fibers, f)
    /\ outside' = IF m_fibers = <<>> THEN "tickle" ELSE "idle"
    /\ late' = late + 1
    /\ UNCHANGED <<m_activeThreadCount, stopVars, m_semaphore, root, back, now, runVars,
                   fiberState, calls, owed, called, endVars>>

OutsideTickle == /\ outside = "tickle" /\ outside' = "idle"
                 /\ m_semaphore' = m_semaphore + 1
                 /\ UNCHANGED <<m_fibers, m_activeThreadCount, stopVars, root, back, now, runVars,
                                fiberState, calls, wakeVars, late, endVars>>

\* What goes on without a decision of a client.
CallerProgress ==
    \/ take \/ idle \/ idleWoken \/ runReturns \/ runNext \/ OutsideTickle
    \/ \E f \in Anyone : StopLoop(f) \/ FiberReturn(f)

CallerNext ==
    \/ CallerProgress
    \/ \E f \in Anyone : \/ GiveUp(f, TRUE) \/ GiveUp(f, FALSE) \/ stop(f) \/ FiberThrow(f)
                         \/ OutsideSchedule(f)
                         \/ \E g \in Anyone : Schedule(f, g)
    \/ dispatch \/ start

CallerSpec == CallerInit /\ [][CallerNext]_callerVars /\ WF_callerVars(CallerProgress)

-----------------------------------------------------------------------------
\* Every schedule() makes its fiber execute once, whatever other fibers of the batch
\* throw; and m_activeThreadCount, which stopping() reads, is 1 exactly while run() has
\* work in hand.
Times(f, s) == Cardinality({i \in DOMAIN s : s[i] = f})
ResumedOnce ==
    /\ \A f \in Anyone : wakers[f] + Times(f, m_fibers) + Times(f, batch) = owed[f]
    /\ m_activeThreadCount = IF isActive THEN 1 ELSE 0
    /\ now \in Scheduled /\ root = "HOLD" => isActive

\* dispatch() and stop() return to Main with nothing left to run: stop() always, dispatch()
\* unless an earlier call of Main ended before the wake-up that was meant for it.
Drains == outcome = "left" => stray

\* scheduler.h of stop(): from a fiber that did not create the scheduler "it will return
\* immediately".
StopReturnsAtOnce == \A f \in Scheduled : calls[f] # "stop"

\* No assertion fails.
NeverCrashes == now # NoFiber

\* A fiber that gives up the thread goes on because it was scheduled.
GoesOnWhenScheduled == \A f \in Anyone : Runs(f) => owed[f] = 0

\* dispatch() and stop() return or throw.
CallReturns == (calls[Main] \in {"dispatch", "stop"}) ~> (calls[Main] = "client" \/ now = NoFiber)
=============================================================================
