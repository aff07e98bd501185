------------------------------- MODULE Socket -------------------------------
(***************************************************************************)
(* One direction of an asynchronous Socket (socket.cpp, not Windows): the  *)
(* fiber that connects, accepts, sends or receives, the IOManager's event  *)
(* for the direction, the timer of the timeout and fibers that cancel.     *)
(* m_cancelledSend and m_cancelledReceive are plain variables that all of  *)
(* them share.  Next to it, the registration for remote close.             *)
(***************************************************************************)
EXTENDS Naturals, FiniteSets

CONSTANTS
    MaxCalls,     \* bound: operations of the fiber
    Timeouts      \* values of m_sendTimeout # ~0ull: BOOLEAN, or one of them

Calls == 1..MaxCalls

VARIABLES
    call, kind,       \* number of the operation, and what it is
    sat,              \* where the fiber is
    ready,            \* the kernel: the operation can make progress
    registered,       \* the event is registered with the IOManager
    scheduled,        \* how often the parked fiber has been scheduled
    timers,           \* timers[c]: timer of call c: none, armed, expired (its callback is due), over
    hasTimeout,
    cancelled,        \* m_cancelledSend or m_cancelledReceive
    result,           \* of the last operation
    conn              \* m_isConnected, m_isRegisteredForRemoteClose, slots of m_onRemoteClose,
                      \* and what is true: connected

socketVars == <<call, kind, sat, ready, registered, scheduled, timers, hasTimeout, cancelled, result, conn>>

NotCancelled == "0"

\* send(), sendTo(), receive() and receiveFrom() are all one doIO().
Operations == {"connect", "accept", "io"}

SocketInit ==
    /\ call = 0 /\ kind = "none" /\ sat = "idle" /\ ready = FALSE
    /\ registered = FALSE /\ scheduled = 0 /\ timers = [c \in Calls |-> "none"]
    /\ hasTimeout \in Timeouts /\ cancelled = NotCancelled /\ result = "none"
    /\ conn = [m_isConnected |-> FALSE, m_isRegistered |-> FALSE, slot |-> FALSE, connected |-> FALSE]

Return(r) == sat' = "idle" /\ result' = r
SameSocket == UNCHANGED <<hasTimeout, conn>>

\* registerForRemoteClose() if there is a slot.
NowConnected(c) == [c EXCEPT !.m_isConnected = TRUE, !.connected = TRUE,
                             !.m_isRegistered = @ \/ c.slot]

\* connect(), accept(), or doIO(), which looks for a cancellation first.
Begin(k) ==
    /\ sat = "idle" /\ call < MaxCalls
    /\ k = "connect" => ~conn.connected
    /\ call' = call + 1 /\ kind' = k
    /\ IF k = "io" /\ cancelled # NotCancelled THEN Return(cancelled) ELSE sat' = "try" /\ UNCHANGED result
    /\ UNCHANGED <<ready, registered, scheduled, timers, cancelled>> /\ SameSocket

\* The system call works, fails, or would block.  A connect() that works the first
\* time returns at once.
Try ==
    /\ sat = "try"
    /\ \/ /\ ready /\ Return("ok") /\ ready' \in BOOLEAN
          /\ conn' = IF kind = "connect" THEN [conn EXCEPT !.connected = TRUE] ELSE conn
       \/ Return("error") /\ UNCHANGED <<ready, conn>>
       \/ ~ready /\ sat' = "again" /\ UNCHANGED <<result, ready, conn>>
    /\ UNCHANGED <<call, kind, registered, scheduled, timers, hasTimeout, cancelled>>

\* EAGAIN or EINPROGRESS: registerEvent().
RegisterEvent ==
    /\ sat = "again" /\ sat' = "registered" /\ registered' = TRUE /\ scheduled' = 0
    /\ UNCHANGED <<call, kind, ready, timers, cancelled, result>> /\ SameSocket

Cancelling == cancelled # NotCancelled

\* Mutant of CancelEvent: the fiber is scheduled though the event came first.
CancelEventAlways ==
    registered' = FALSE /\ scheduled' = scheduled + 1

\* cancelEvent(): the fiber is scheduled if the event was still registered.
CancelEvent ==
    /\ registered' = FALSE
    /\ scheduled' = IF registered THEN scheduled + 1 ELSE scheduled

\* Mutant of Park: connect() and accept() look for a cancellation before, not after, they
\* have registered.
ParkUnchecked ==
    /\ sat = "registered" /\ sat' = "parked"
    /\ timers' = IF hasTimeout THEN [timers EXCEPT ![call] = "armed"] ELSE timers
    /\ UNCHANGED <<call, kind, ready, registered, scheduled, cancelled, result>> /\ SameSocket

\* Between registerEvent() and Scheduler::yieldTo(): connect() and accept() look for a
\* cancellation now, doIO() does not; then the timer.
Park ==
    /\ sat = "registered" /\ sat' = "parked"
    /\ \/ /\ kind # "io" /\ Cancelling
          /\ CancelEvent /\ UNCHANGED timers
       \/ /\ kind = "io" \/ ~Cancelling
          /\ timers' = IF hasTimeout THEN [timers EXCEPT ![call] = "armed"] ELSE timers
          /\ UNCHANGED <<registered, scheduled>>
    /\ UNCHANGED <<call, kind, ready, cancelled, result>> /\ SameSocket

\* Back from yieldTo(): cancel the timer, look for a cancellation, try again.
Resume ==
    /\ sat = "parked" /\ scheduled > 0
    /\ timers' = [timers EXCEPT ![call] = IF @ = "armed" THEN "over" ELSE @]
    /\ \/ Cancelling /\ Return(cancelled) /\ UNCHANGED conn
       \/ ~Cancelling /\ kind # "connect" /\ sat' = "try" /\ UNCHANGED <<result, conn>>
       \/ /\ ~Cancelling /\ kind = "connect"
          /\ \/ Return("ok") /\ conn' = NowConnected(conn)
             \/ Return("error") /\ UNCHANGED conn
    /\ UNCHANGED <<call, kind, ready, registered, scheduled, hasTimeout, cancelled>>

\* cancelIo()
cancelIo(error) ==
    IF Cancelling THEN UNCHANGED <<cancelled, registered, scheduled>>
    ELSE cancelled' = error /\ CancelEvent

\* cancelSend(), cancelReceive(), cancelConnect(), cancelAccept() of another fiber.
Cancel ==
    /\ ~Cancelling /\ cancelIo("ECANCELED")
    /\ UNCHANGED <<call, kind, sat, ready, timers, result>> /\ SameSocket

\* The timer expires, and later its callback runs.
Expire(c) ==
    /\ timers[c] = "armed" /\ timers' = [timers EXCEPT ![c] = "expired"]
    /\ UNCHANGED <<call, kind, sat, ready, registered, scheduled, cancelled, result>> /\ SameSocket
OnTimer(c) ==
    /\ timers[c] = "expired" /\ timers' = [timers EXCEPT ![c] = "over"]
    /\ cancelIo("ETIMEDOUT")
    /\ UNCHANGED <<call, kind, sat, ready, result>> /\ SameSocket

\* The kernel, and the IOManager that sees it.
Ready ==
    /\ ~ready /\ ready' = TRUE
    /\ UNCHANGED <<call, kind, sat, registered, scheduled, timers, cancelled, result>> /\ SameSocket
Trigger ==
    /\ registered /\ ready /\ registered' = FALSE /\ scheduled' = scheduled + 1
    /\ UNCHANGED <<call, kind, sat, ready, timers, cancelled, result>> /\ SameSocket

onRemoteClose ==
    /\ ~conn.slot
    /\ conn' = [conn EXCEPT !.slot = TRUE, !.m_isRegistered = @ \/ conn.m_isConnected]
    /\ UNCHANGED <<call, kind, sat, ready, registered, scheduled, timers, hasTimeout, cancelled, result>>
shutdown ==
    /\ conn.connected
    /\ conn' = [conn EXCEPT !.m_isRegistered = FALSE, !.m_isConnected = FALSE, !.connected = FALSE]
    /\ UNCHANGED <<call, kind, sat, ready, registered, scheduled, timers, hasTimeout, cancelled, result>>

FiberSteps == Try \/ RegisterEvent \/ Park \/ Resume
TimerSteps == \E c \in Calls : Expire(c) \/ OnTimer(c)
SocketNext ==
    \/ \E k \in Operations : Begin(k)
    \/ FiberSteps \/ TimerSteps \/ Cancel \/ Ready \/ Trigger \/ onRemoteClose \/ shutdown

\* The scheduler runs fibers that are scheduled, and timers expire and are run.
SocketProgress == FiberSteps \/ Trigger \/ TimerSteps
SocketSpec == SocketInit /\ [][SocketNext]_socketVars /\ WF_socketVars(SocketProgress)

-----------------------------------------------------------------------------
\* Event, timer and cancellation schedule a fiber that waits exactly once between them:
\* it is either in the IOManager or scheduled, never both and never twice.
ScheduledOnce ==
    /\ sat \in {"registered", "parked"} => scheduled = IF registered THEN 0 ELSE 1
    /\ sat \in {"idle", "try", "again"} => ~registered

\* doIO() has missed a cancellation that came before it registered the event; from then
\* on not even the timer wakes it.
Missed == kind = "io" /\ registered /\ Cancelling
\* Whenever a cancellation or the timeout comes, the operation ends: always for connect()
\* and accept(), and for doIO() unless it has missed a cancellation.
CancelledWaits == sat = "parked" /\ (hasTimeout \/ Cancelling) /\ ~Missed
CancelledEnds == []<>~CancelledWaits

\* The same without the exception.
IOCancelledEnds == []<>~(sat = "parked" /\ (hasTimeout \/ Cancelling))

\* An operation is timed out by its own timer, not by that of an operation before it.
OwnTimeout ==
    [][\A c \in Calls : OnTimer(c) /\ cancelled' # cancelled => c = call]_socketVars

\* onRemoteClose(): "triggered for connected stream sockets".
RegisteredWhenConnected == conn.connected /\ conn.slot /\ sat = "idle" => conn.m_isRegistered
=============================================================================
