------------------------------- MODULE Timer -------------------------------
(***************************************************************************)
(* Timer and TimerManager (mordor/timer.cpp), with the loop that drives    *)
(* them: IOManager::idle asks nextTimer() how long to sleep, sleeps in     *)
(* epoll_wait until then or until a tickle, and calls processTimers().     *)
(*                                                                         *)
(* Each critical section of TimerManager::m_mutex is one step; reading the *)
(* clock before the lock is taken, and calling onTimerInsertedAtFront()    *)
(* after it is released, are steps of their own.  (Module TimerMutex is    *)
(* about the mutex itself.)                                                *)
(*                                                                         *)
(* Times are unsigned words of Width values.  m_timers is kept by the key  *)
(* an entry was inserted with, as the std::set does: a timer whose m_next  *)
(* changed while it was in the set could not be found again.               *)
(***************************************************************************)
EXTENDS Naturals, Sequences, FiniteSets, FiniteSetsExt, TLC

CONSTANTS
    Timers,        \* the timers that are ever made
    Dispatchers,   \* the threads that run the idle loop
    Delays,        \* the us arguments
    Start, End,    \* bounds of the clock
    MaxBacks,      \* bound: how often the clock is set back (setClock)
    MaxTickles,    \* bound: clients between their insertion and its tickle
    Threshold,     \* timer.clockrolloverthreshold
    Width,         \* number of values of an unsigned long long
    Milli,         \* microseconds in a millisecond
    Ints           \* number of values of an int

ASSUME ClockAssumption ==
    /\ Start \in Nat /\ End \in Nat /\ Start <= End /\ Threshold \in Nat \ {0}
    /\ \A d \in Delays : d \in Nat /\ End + d < Width
    /\ Delays # {}
    /\ Width \in Nat /\ Threshold < Width /\ MaxBacks \in Nat /\ MaxTickles \in Nat \ {0}

ASSUME IntAssumption == Milli \in Nat \ {0} /\ Ints \in Nat \ {0}

ASSUME ThreadsAssumption == IsFiniteSet(Dispatchers) /\ Dispatchers # {}

\* The monotonic clock has run for longer than the threshold (5 s) when the first
\* manager is made; before that detectClockRollover() would compute
\* m_previousTime - threshold below 0.
ASSUME UptimeAssumption == Threshold <= Start

VARIABLES
    clock, backs,    \* the clock, and how often it was set back
    m_timers,        \* the set, as [timer, key] records
    m_tickled, m_previousTime,
    m_next, m_us, m_recurring,
    armed,           \* armed[t]: m_dg is set
    made,            \* made[t]: "no", "new" (constructed, not inserted) or "yes"
    toTickle,        \* calls of onTimerInsertedAtFront() still to be made
    tickled,         \* the tickle pipe holds a byte
    pc, deadline,    \* of each dispatcher: when its epoll_wait() times out
    nowUs,           \* the local of processTimers(); both locals are reset when dead
    result,          \* callbacks of expired timers, not yet run
    ran, cancelled   \* history, of one-shot timers

managerVars == <<m_timers, m_tickled, m_previousTime>>
timerVars == <<m_next, m_us, m_recurring, armed, made>>
loopVars == <<pc, deadline, nowUs, result>>
history == <<ran, cancelled>>
vars == <<clock, backs, managerVars, timerVars, toTickle, tickled, loopVars, history>>

Words == 0 .. Width - 1

\* The deadlines of a wait without end: there is no timer (the timeout -1), or the
\* timeout for a timer with that key overflowed and is negative.  Both are later than
\* any other deadline.
Never == Width + Milli
Overflowed(key) == Never + 1 + key

TypeOK ==
    /\ clock \in Words /\ backs \in 0..MaxBacks
    /\ m_timers \subseteq [timer : Timers, key : Words]
    /\ m_tickled \in BOOLEAN
    /\ m_previousTime \in Words
    /\ m_next \in [Timers -> Words]
    /\ m_us \in [Timers -> Delays]
    /\ m_recurring \in [Timers -> BOOLEAN]
    /\ armed \in [Timers -> BOOLEAN]
    /\ made \in [Timers -> {"no", "new", "yes"}]
    /\ toTickle \in 0..MaxTickles
    /\ tickled \in BOOLEAN
    /\ pc \in [Dispatchers -> {"poll", "wait", "process", "run"}]
    /\ deadline \in [Dispatchers -> 0 .. Overflowed(Width)]
    /\ nowUs \in [Dispatchers -> Words]
    /\ result \in [Dispatchers -> SUBSET Timers]
    /\ ran \in [Timers -> Nat]
    /\ cancelled \in [Timers -> BOOLEAN]

Init ==
    /\ clock = Start /\ backs = 0
    /\ m_timers = {}
    /\ m_tickled = FALSE
    /\ m_previousTime = 0
    /\ m_next = [t \in Timers |-> 0]
    /\ m_us = [t \in Timers |-> Min(Delays)]
    /\ m_recurring = [t \in Timers |-> FALSE]
    /\ armed = [t \in Timers |-> FALSE]
    /\ made = [t \in Timers |-> "no"]
    /\ toTickle = 0
    /\ tickled = FALSE
    /\ pc = [d \in Dispatchers |-> "poll"]
    /\ deadline = [d \in Dispatchers |-> Never]
    /\ nowUs = [d \in Dispatchers |-> Start]
    /\ result = [d \in Dispatchers |-> {}]
    /\ ran = [t \in Timers |-> 0]
    /\ cancelled = [t \in Timers |-> FALSE]

\* TimerManager::now().  No thread is held up between reading the clock in
\* processTimers() and taking the lock for longer than the threshold (5 s).
Tick == /\ clock < End
        /\ \A d \in Dispatchers : pc[d] = "process" => clock < nowUs[d] + Threshold
        /\ clock' = clock + 1
        /\ UNCHANGED <<backs, managerVars, timerVars, toTickle, tickled, loopVars, history>>

SetBack == /\ backs < MaxBacks
           /\ \E c \in Start .. clock - 1 : clock' = c
           /\ backs' = backs + 1
           /\ UNCHANGED <<managerVars, timerVars, toTickle, tickled, loopVars, history>>

Find(t) == {e \in m_timers : e.timer = t /\ e.key = m_next[t]}
Item(t, key) == [timer |-> t, key |-> key]

\* atFront of registerTimer() and reset(): t goes into s with its new key.  Among
\* equal keys the set orders by address, which may or may not put t first.
InsertAtFront(s, t, key) ==
    \E first \in BOOLEAN :
       LET atFront == first /\ ~m_tickled
       IN /\ atFront => toTickle < MaxTickles
          /\ first => \A e \in s : key <= e.key
          /\ ~first => \E e \in s : e.key <= key
          /\ m_timers' = s \cup {Item(t, key)}
          /\ m_tickled' = (m_tickled \/ atFront)
          /\ toTickle' = IF atFront THEN toTickle + 1 ELSE toTickle
          /\ UNCHANGED m_previousTime

-----------------------------------------------------------------------------
(* The calls of clients.                                                   *)

\* registerTimer(): the constructor reads the clock before the lock is taken.
Construct(t, us, recurring) ==
    /\ made[t] = "no"
    /\ made' = [made EXCEPT ![t] = "new"]
    /\ m_us' = [m_us EXCEPT ![t] = us]
    /\ m_recurring' = [m_recurring EXCEPT ![t] = recurring]
    /\ m_next' = [m_next EXCEPT ![t] = clock + us]
    /\ armed' = [armed EXCEPT ![t] = TRUE]
    /\ UNCHANGED <<clock, backs, managerVars, toTickle, tickled, loopVars, history>>

registerTimer(t) ==
    /\ made[t] = "new"
    /\ made' = [made EXCEPT ![t] = "yes"]
    /\ InsertAtFront(m_timers, t, m_next[t])
    /\ UNCHANGED <<clock, backs, m_next, m_us, m_recurring, armed, tickled, loopVars, history>>

\* IOManager::onTimerInsertedAtFront() calls tickle(), which does nothing if no thread
\* is idle.  A thread that sleeps, or has not yet processed the timers, is; one about
\* to start again is or is not (it may be running a fiber in between).
onTimerInsertedAtFront ==
    /\ toTickle > 0
    /\ toTickle' = toTickle - 1
    /\ \/ tickled' = TRUE
       \/ /\ \A d \in Dispatchers : pc[d] \in {"poll", "run"}
          /\ UNCHANGED tickled
    /\ UNCHANGED <<clock, backs, managerVars, timerVars, loopVars, history>>

\* cancel() that returns true; it returns false, and does nothing, when m_dg is
\* not set.
cancel(t) ==
    /\ made[t] = "yes" /\ armed[t]
    /\ armed' = [armed EXCEPT ![t] = FALSE]
    /\ m_timers' = m_timers \ Find(t)
    /\ cancelled' = [cancelled EXCEPT ![t] = ~m_recurring[t]]
    /\ UNCHANGED <<clock, backs, m_tickled, m_previousTime, m_next, m_us, m_recurring, made,
                   toTickle, tickled, loopVars, ran>>

\* Mutant of refresh: m_next changes before the timer is looked up.
refreshLate(t) ==
    /\ made[t] = "yes" /\ armed[t]
    /\ m_next' = [m_next EXCEPT ![t] = clock + m_us[t]]
    /\ m_timers' = {e \in m_timers : ~(e.timer = t /\ e.key = clock + m_us[t])}
                     \cup {Item(t, clock + m_us[t])}
    /\ UNCHANGED <<clock, backs, m_tickled, m_previousTime, m_us, m_recurring, armed, made,
                   toTickle, tickled, loopVars, history>>

refresh(t) ==
    /\ made[t] = "yes" /\ armed[t]
    /\ m_next' = [m_next EXCEPT ![t] = clock + m_us[t]]
    /\ m_timers' = (m_timers \ Find(t)) \cup {Item(t, clock + m_us[t])}
    /\ UNCHANGED <<clock, backs, m_tickled, m_previousTime, m_us, m_recurring, armed, made,
                   toTickle, tickled, loopVars, history>>

reset(t, us, fromNow) ==
    LET start == IF fromNow THEN clock ELSE (m_next[t] + Width - m_us[t]) % Width
        key == (start + us) % Width
    IN /\ made[t] = "yes" /\ armed[t]
       /\ us # m_us[t] \/ fromNow
       /\ m_us' = [m_us EXCEPT ![t] = us]
       /\ m_next' = [m_next EXCEPT ![t] = key]
       /\ InsertAtFront(m_timers \ Find(t), t, key)
       /\ UNCHANGED <<clock, backs, m_recurring, armed, made, tickled, loopVars, history>>

-----------------------------------------------------------------------------
(* The idle loop.                                                          *)

FirstKey == Min({e.key : e \in m_timers})

\* (int)(nextTimeout / 1000) + 1: the quotient is cut to the width of an int, whose
\* upper half is negative, and INT_MAX + 1 wraps around.
Milliseconds(us) == ((us \div Milli) % Ints) + 1
FitsInt(us) == Milliseconds(us) < Ints \div 2 \/ Milliseconds(us) = Ints

\* When an epoll_wait() that is entered now, for a timer that is us away, times out.
TimesOut(us) == clock + (Milliseconds(us) % Ints) * Milli

\* The same for the first timer, which may be over already.
SleepUntil ==
    LET us == IF clock >= FirstKey THEN 0 ELSE FirstKey - clock
    IN IF m_timers = {} THEN Never
       ELSE IF FitsInt(us) THEN TimesOut(us) ELSE Overflowed(FirstKey)

\* Mutant of nextTimer: m_tickled stays set.
nextTimerTickled(d) ==
    /\ pc[d] = "poll"
    /\ deadline' = [deadline EXCEPT ![d] = SleepUntil]
    /\ pc' = [pc EXCEPT ![d] = "wait"]
    /\ UNCHANGED <<clock, backs, managerVars, timerVars, toTickle, tickled, nowUs, result, history>>

\* nextTimer(), and epoll_wait() is entered with its timeout.
nextTimer(d) ==
    /\ pc[d] = "poll"
    /\ m_tickled' = FALSE
    /\ deadline' = [deadline EXCEPT ![d] = SleepUntil]
    /\ pc' = [pc EXCEPT ![d] = "wait"]
    /\ UNCHANGED <<clock, backs, m_timers, m_previousTime, timerVars, toTickle, tickled, nowUs, result,
                   history>>

\* epoll_wait() returns: a tickle, the timeout or some event of a descriptor; then
\* processTimers() reads the clock, before it takes the lock.  Or EINTR, and
\* nextTimer() is asked again.
EpollWait(d) ==
    /\ pc[d] = "wait"
    /\ \/ tickled /\ tickled' = FALSE
       \/ deadline[d] < Never /\ clock >= deadline[d] /\ UNCHANGED tickled
       \/ UNCHANGED tickled
    /\ nowUs' = [nowUs EXCEPT ![d] = clock]
    /\ pc' = [pc EXCEPT ![d] = "process"]
    /\ deadline' = [deadline EXCEPT ![d] = Never]
    /\ UNCHANGED <<clock, backs, managerVars, timerVars, toTickle, result, history>>

Interrupted(d) ==
    /\ pc[d] = "wait"
    /\ pc' = [pc EXCEPT ![d] = "poll"]
    /\ deadline' = [deadline EXCEPT ![d] = Never]
    /\ UNCHANGED <<clock, backs, managerVars, timerVars, toTickle, tickled, nowUs, result, history>>

detectClockRollover(now) ==
    /\ now < m_previousTime
    /\ now < (m_previousTime + Width - Threshold) % Width

\* Mutant of Expired: one more microsecond counts as expired.
ExpiredEarly(now) ==
    IF detectClockRollover(now) THEN m_timers ELSE {e \in m_timers : e.key <= now + 1}

Expired(now) ==
    IF detectClockRollover(now) THEN m_timers ELSE {e \in m_timers : e.key <= now}

\* Mutant of Disarm: an expired one-shot timer keeps its m_dg.
DisarmNone(S) == armed' = armed

\* timer->m_dg = NULL for the one-shot timers among the expired ones.
Disarm(S) == armed' = [t \in Timers |-> armed[t] /\ ~(t \in S /\ ~m_recurring[t])]

processTimers(d) ==
    LET now == nowUs[d]
        gone == Expired(now)
        S == {e.timer : e \in gone}
        again == {t \in S : m_recurring[t]}
    IN /\ pc[d] = "process"
       /\ m_previousTime' = IF m_timers = {} THEN m_previousTime ELSE now
       /\ m_next' = [t \in Timers |-> IF t \in again THEN now + m_us[t] ELSE m_next[t]]
       /\ m_timers' = (m_timers \ gone) \cup {Item(t, now + m_us[t]) : t \in again}
       /\ Disarm(S)
       /\ result' = [result EXCEPT ![d] = S]
       /\ nowUs' = [nowUs EXCEPT ![d] = Start]
       /\ pc' = [pc EXCEPT ![d] = IF S = {} THEN "poll" ELSE "run"]
       /\ UNCHANGED <<clock, backs, m_tickled, m_us, m_recurring, made, toTickle, tickled, deadline,
                      history>>

\* The callbacks are run (executeTimers) or scheduled (IOManager) without the
\* lock; then the loop starts again.
RunCallback(d, t) ==
    /\ pc[d] = "run"
    /\ t \in result[d]
    /\ result' = [result EXCEPT ![d] = @ \ {t}]
    /\ ran' = [ran EXCEPT ![t] = IF m_recurring[t] THEN @ ELSE @ + 1]
    /\ pc' = [pc EXCEPT ![d] = IF result[d] = {t} THEN "poll" ELSE "run"]
    /\ UNCHANGED <<clock, backs, managerVars, timerVars, toTickle, tickled, deadline, nowUs,
                   cancelled>>

Client(t) ==
    \/ \E us \in Delays, recurring \in BOOLEAN : Construct(t, us, recurring)
    \/ registerTimer(t) \/ cancel(t) \/ refresh(t)
    \/ \E us \in Delays, fromNow \in BOOLEAN : reset(t, us, fromNow)

Dispatch(d) ==
    \/ nextTimer(d) \/ EpollWait(d) \/ Interrupted(d) \/ processTimers(d)
    \/ \E t \in Timers : RunCallback(d, t)

Next == \/ Tick \/ SetBack \/ onTimerInsertedAtFront
        \/ \E t \in Timers : Client(t)
        \/ \E d \in Dispatchers : Dispatch(d)

Spec == Init /\ [][Next]_vars

-----------------------------------------------------------------------------
\* A timer with a callback is in the set, once and under its current m_next, and
\* no other is: the assertions of cancel(), refresh() and reset() that find()
\* succeeds, and of processTimers() that m_dg is set.
ArmedInSet ==
    \A t \in Timers : {e \in m_timers : e.timer = t}
        = IF made[t] = "yes" /\ armed[t] THEN {Item(t, m_next[t])} ELSE {}

\* "If the timer was successfully cancelled before it fired (if non-recurring)":
\* a one-shot timer runs at most once, and never once cancel() returned true,
\* though callbacks run outside the lock, after other clients' calls.
CancelledNeverRuns ==
    \A t \in Timers : ~m_recurring[t] =>
        ran[t] + Cardinality({d \in Dispatchers : t \in result[d]})
            <= IF cancelled[t] \/ armed[t] THEN 0 ELSE 1

\* Unless the clock was set back, no timer expires before its time, although
\* threads read the clock before they take the lock.
NeverEarly ==
    [][\A d \in Dispatchers :
          backs = 0 => \A t \in result'[d] \ result[d] : m_next[t] <= clock]_vars

\* Somebody's epoll_wait() times out in the millisecond after the first timer (or
\* after now, if that one is over), or there is a tickle, or it is on its way.
FirstTimerSeen ==
    \/ tickled \/ toTickle > 0
    \/ \E d \in Dispatchers : \/ deadline[d] <= FirstKey + Milli
                              \/ deadline[d] <= clock + Milli

\* Unless the clock was set back, the idle threads never all sleep past the first
\* timer, but for one thing: one of them went to sleep for that timer, or for one
\* before it that is gone now, and its timeout did not fit an int.  A timer that is set
\* before the one they sleep for wakes them even then.
NoOversleep ==
    (backs = 0 /\ m_timers # {} /\ \A d \in Dispatchers : pc[d] = "wait")
        => \/ FirstTimerSeen
           \/ \E d \in Dispatchers : deadline[d] \in (Never + 1) .. Overflowed(FirstKey)

\* "Always" instead, which the conversion refutes: for a first timer some 24.8 days
\* away the timeout is negative, and epoll_wait() waits for ever.  It holds if every
\* delay fits (TimerProofs).
SleepsForFirst ==
    (backs = 0 /\ m_timers # {} /\ \A d \in Dispatchers : pc[d] = "wait") => FirstTimerSeen

\* For TLC: timers are interchangeable, and so are dispatchers.
TimerSymmetry == Permutations(Timers) \cup Permutations(Dispatchers)

\* For TLC: m_next and m_us of a timer without a callback are never read again, since
\* nothing sets m_dg anew, so states that differ only there are taken as one.
TimerView ==
    LET Live(f) == [t \in Timers |-> IF armed[t] THEN f[t] ELSE 0]
    IN <<clock, backs, managerVars, Live(m_next), Live(m_us), m_recurring, armed, made,
         toTickle, tickled, loopVars, history>>
=============================================================================
