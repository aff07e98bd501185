---------------------------- MODULE TimeoutStream ----------------------------
(***************************************************************************)
(* TimeoutStream and its three TimeoutHandlers (streams/timeout.cpp): a    *)
(* reader and a writer share m_mutex, timers expire and their callbacks    *)
(* run on other threads, without it, and possibly after the timer was      *)
(* cancelled.  The parent's calls block; a cancelled direction stays so.   *)
(***************************************************************************)
EXTENDS Naturals

CONSTANTS
    MaxOps,       \* bound: operations of each direction
    MaxConfig     \* bound: calls of readTimeout(), writeTimeout(), idleTimeout()

VARIABLES
    timeoutSet,   \* isTimeoutSet() of each handler
    m_lastTimedOut, m_permaTimedOut,
    m_timer,      \* "null", "armed", or "fired": expired, but m_timer still points to it
    late,         \* callbacks that have been taken out of the timer queue and have not run
    op,           \* "none", "io": in the parent's call, or how that call ended
    cancelled,    \* the parent's direction was cancelled
    outcome,      \* how the last operation ended for the caller
    toggled,      \* its timeout was switched off during the operation
    expired,      \* its own timer, or the idle timer, expired during the operation
    ops, configs

timeoutVars == <<timeoutSet, m_lastTimedOut, m_permaTimedOut, m_timer, late, op, cancelled,
                 outcome, toggled, expired, ops, configs>>
handlerVars == <<timeoutSet, m_lastTimedOut, m_permaTimedOut, m_timer>>

Directions == {"read", "write"}
Handlers == Directions \cup {"idle"}
m_autoStart(h) == h = "idle"

TimeoutInit ==
    /\ timeoutSet = [h \in Handlers |-> FALSE]
    /\ m_lastTimedOut = [h \in Handlers |-> "NONE"]
    /\ m_permaTimedOut = [h \in Handlers |-> "NONE"]
    /\ m_timer = [h \in Handlers |-> "null"]
    /\ late = [h \in Handlers |-> 0]
    /\ op = [d \in Directions |-> "none"]
    /\ cancelled = [d \in Directions |-> FALSE]
    /\ outcome = [d \in Directions |-> "none"]
    /\ toggled = [d \in Directions |-> FALSE]
    /\ expired = [d \in Directions |-> FALSE]
    /\ ops = [d \in Directions |-> 0] /\ configs = 0

-----------------------------------------------------------------------------
\* A timer expires; its callback will run.  A fired timer is not armed again by
\* refresh() or reset().
Expire(h) ==
    /\ m_timer[h] = "armed"
    /\ m_timer' = [m_timer EXCEPT ![h] = "fired"]
    /\ late' = [late EXCEPT ![h] = @ + 1]
    /\ expired' = [d \in Directions |-> expired[d] \/ (op[d] # "none" /\ h \in {d, "idle"})]
    /\ UNCHANGED <<timeoutSet, m_lastTimedOut, m_permaTimedOut, op, cancelled, outcome, toggled, ops, configs>>

\* The delegates: cancelReadLocal, cancelWriteLocal, cancelReadWriteLocal.
onTimeout(h) ==
    LET timing == m_lastTimedOut[h] = "TIMING"
    IN /\ late[h] > 0
       /\ late' = [late EXCEPT ![h] = @ - 1]
       /\ m_lastTimedOut' = IF timing THEN [m_lastTimedOut EXCEPT ![h] = "TIMEDOUT"] ELSE m_lastTimedOut
       /\ m_permaTimedOut' = IF timing THEN [m_permaTimedOut EXCEPT ![h] = "TIMEDOUT"] ELSE m_permaTimedOut
       /\ cancelled' = [d \in Directions |-> cancelled[d] \/ (timing /\ h \in {d, "idle"})]
       /\ UNCHANGED <<timeoutSet, m_timer, op, outcome, toggled, expired, ops, configs>>

setTimeout(h, set) ==
    LET restart == ~(m_timer[h] = "null") 
        begin == set /\ (m_lastTimedOut[h] = "TIMING" \/ m_autoStart(h))
    IN /\ configs < MaxConfig /\ configs' = configs + 1
       /\ timeoutSet' = [timeoutSet EXCEPT ![h] = set]
       /\ m_timer' = [m_timer EXCEPT ![h] = IF restart THEN IF set THEN @ ELSE "null"
                                            ELSE IF begin THEN "armed" ELSE @]
       /\ m_lastTimedOut' = [m_lastTimedOut EXCEPT ![h] = IF restart /\ ~set THEN "NONE" ELSE @]
       /\ toggled' = [d \in Directions |-> toggled[d] \/ (d = h /\ ~set)]
       /\ UNCHANGED <<m_permaTimedOut, late, op, cancelled, outcome, expired, ops>>

\* read() and write(): startTimer(), refreshTimer() of the idler, then the parent.
Start(d) ==
    /\ op[d] = "none" /\ ops[d] < MaxOps
    /\ ops' = [ops EXCEPT ![d] = @ + 1]
    /\ IF m_permaTimedOut[d] = "TIMEDOUT"
       THEN /\ outcome' = [outcome EXCEPT ![d] = "timedout"]
            /\ UNCHANGED <<op, m_lastTimedOut, m_timer, toggled, expired>>
       ELSE /\ op' = [op EXCEPT ![d] = "io"]
            /\ m_lastTimedOut' = [m_lastTimedOut EXCEPT ![d] = "TIMING", !["idle"] = "TIMING"]
            /\ m_timer' = [m_timer EXCEPT ![d] = IF timeoutSet[d] THEN "armed" ELSE @]
            /\ toggled' = [toggled EXCEPT ![d] = FALSE]
            /\ expired' = [expired EXCEPT ![d] = FALSE]
            /\ outcome' = [outcome EXCEPT ![d] = "none"]
    /\ UNCHANGED <<timeoutSet, m_permaTimedOut, late, cancelled, configs>>

\* The parent's call ends: aborted if the direction was cancelled.
ParentAborts(d) ==
    /\ op[d] = "io" /\ cancelled[d]
    /\ op' = [op EXCEPT ![d] = "aborted"]
    /\ UNCHANGED <<handlerVars, late, cancelled, outcome, toggled, expired, ops, configs>>

ParentEnds(d) ==
    /\ op[d] = "io"
    /\ \E how \in {"done", "failed"} : op' = [op EXCEPT ![d] = how]
    /\ UNCHANGED <<handlerVars, late, cancelled, outcome, toggled, expired, ops, configs>>

Cancelled(hs) ==
    /\ m_timer' = [h \in Handlers |-> IF h \in hs THEN "null" ELSE m_timer[h]]
    /\ m_lastTimedOut' = [h \in Handlers |-> IF h \in hs THEN "NONE" ELSE m_lastTimedOut[h]]

\* Mutant of Finish: the timer of an operation that failed is left running.
FinishLeavesTimer(d) ==
    LET own == m_lastTimedOut[d] = "TIMEDOUT"
        idle == m_lastTimedOut["idle"] = "TIMEDOUT"
    IN /\ op[d] \notin {"none", "io"}
       /\ op' = [op EXCEPT ![d] = "none"]
       /\ outcome' = [outcome EXCEPT ![d] =
             IF op[d] = "aborted" /\ (own \/ idle) THEN "timedout" ELSE op[d]]
       /\ CASE op[d] = "aborted" -> Cancelled(IF own THEN {d} ELSE {d, "idle"})
            [] op[d] = "failed" -> Cancelled({"idle"})
            [] op[d] = "done" ->
                  /\ m_timer' = [m_timer EXCEPT ![d] = "null"]
                  /\ m_lastTimedOut' = [m_lastTimedOut EXCEPT ![d] = "NONE", !["idle"] = "TIMING"]
       /\ UNCHANGED <<timeoutSet, m_permaTimedOut, late, cancelled, toggled, expired, ops, configs>>

\* After the parent's call: m_reader.cancelTimer() || m_idler.cancelTimer() if it was
\* aborted (the second only if the first is false), both if it failed, else
\* cancelTimer() and refreshTimer() of the idler.
Finish(d) ==
    LET own == m_lastTimedOut[d] = "TIMEDOUT"
        idle == m_lastTimedOut["idle"] = "TIMEDOUT"
    IN /\ op[d] \notin {"none", "io"}
       /\ op' = [op EXCEPT ![d] = "none"]
       /\ outcome' = [outcome EXCEPT ![d] =
             IF op[d] = "aborted" /\ (own \/ idle) THEN "timedout" ELSE op[d]]
       /\ CASE op[d] = "aborted" -> Cancelled(IF own THEN {d} ELSE {d, "idle"})
            [] op[d] = "failed" -> Cancelled({d, "idle"})
            [] op[d] = "done" ->
                  /\ m_timer' = [m_timer EXCEPT ![d] = "null"]
                  /\ m_lastTimedOut' = [m_lastTimedOut EXCEPT ![d] = "NONE", !["idle"] = "TIMING"]
       /\ UNCHANGED <<timeoutSet, m_permaTimedOut, late, cancelled, toggled, expired, ops, configs>>

TimeoutNext ==
    \/ \E h \in Handlers : Expire(h) \/ onTimeout(h) \/ \E set \in BOOLEAN : setTimeout(h, set)
    \/ \E d \in Directions : Start(d) \/ ParentAborts(d) \/ ParentEnds(d) \/ Finish(d)

\* Timers expire and their callbacks run, the parent ends a call that is cancelled,
\* and fibers are scheduled; the parent's other calls may block for ever.
TimeoutProgress ==
    \/ \E h \in Handlers : Expire(h) \/ onTimeout(h)
    \/ \E d \in Directions : ParentAborts(d) \/ Finish(d)

TimeoutSpec == TimeoutInit /\ [][TimeoutNext]_timeoutVars /\ WF_timeoutVars(TimeoutProgress)

-----------------------------------------------------------------------------
\* An operation under a timeout is covered at every moment, whatever is set
\* meanwhile and however late callbacks run: its timer is armed, or its callback is
\* about to run and will find it TIMING, or it is cancelled already (unless the
\* timeout was switched off during it).  And startTimer() never finds an old timer.
OperationCovered ==
    \A d \in Directions :
        /\ (op[d] = "io" /\ timeoutSet[d] /\ ~toggled[d]) =>
              \/ m_timer[d] = "armed" \/ cancelled[d]
              \/ late[d] > 0 /\ m_lastTimedOut[d] = "TIMING"
        /\ op[d] = "none" => m_timer[d] = "null"

\* An operation that is under a timeout ends.
UnderTimeout(d) == op[d] # "none" /\ timeoutSet[d] /\ ~toggled[d]
TimeoutEnds == \A d \in Directions : []<>~UnderTimeout(d)

\* "Read: timed out when read() takes so long": an operation that is aborted by a
\* timeout is one whose timer, or the idle timer, expired while it was going on.
TimesOutOnOwnTimer ==
    \A d \in Directions : op[d] = "aborted" => expired[d]
=============================================================================
