---------------------------- MODULE TimerProofs ----------------------------
(***************************************************************************)
(* Proofs about Timer, for any timers, any number of threads in the idle   *)
(* loop, any delays and any bounds of the clock: the inductive invariant   *)
(* TInv, and from it the safety properties of the timer_safety run.        *)
(***************************************************************************)
EXTENDS Timer, WellFoundedInduction, FiniteSetTheorems, TLAPS

\* The clock and the values read from it stay between its bounds.
ClockInBounds ==
    /\ clock \in Start .. End
    /\ \A d \in Dispatchers : nowUs[d] \in Start .. End
    /\ m_previousTime = 0 \/ m_previousTime \in Start .. End

\* A timer is armed from its construction on.
NewIsArmed == \A t \in Timers : made[t] = "new" => armed[t]

\* A timer that can still fire, or never was made, has not fired; a one-shot timer
\* is with one thread at most, and then has not run.
FiresOnce ==
    \A t \in Timers :
       /\ cancelled[t] => made[t] = "yes" /\ ~armed[t]
       /\ made[t] = "no" => ~cancelled[t] /\ ~m_recurring[t]
       /\ (made[t] = "no" \/ (~m_recurring[t] /\ (armed[t] \/ cancelled[t])))
             => ran[t] = 0 /\ \A d \in Dispatchers : t \notin result[d]
       /\ ~m_recurring[t] =>
             /\ ran[t] <= 1
             /\ ran[t] = 1 => \A d \in Dispatchers : t \notin result[d]
             /\ \A c, d \in Dispatchers : t \in result[c] /\ t \in result[d] => c = d

\* Unless the clock was set back, whatever was read from it is not in the future, a
\* thread in processTimers() read it no longer ago than the threshold, and a timer's
\* m_next is m_us after a time that has been.
ReadInPast ==
    backs = 0 =>
       /\ m_previousTime <= clock
       /\ \A d \in Dispatchers : /\ nowUs[d] <= clock
                                 /\ pc[d] = "process" => clock <= nowUs[d] + Threshold
       /\ \A t \in Timers : made[t] # "no" =>
             m_us[t] + Start <= m_next[t] /\ m_next[t] <= clock + m_us[t]

\* m_tickled is only set while a tickle is on its way or some thread is awake, which
\* will call nextTimer() before it sleeps.
TickleUnderWay ==
    m_tickled => tickled \/ toTickle > 0 \/ \E d \in Dispatchers : pc[d] # "wait"

\* A wait until w is good for a timer with that key: it ends in the millisecond after it,
\* or its timeout overflowed for that timer or an earlier one.
GoodFor(w, key) == w <= key + Milli \/ w \in (Never + 1) .. Overflowed(key)

\* Somebody is awake, will be, or sleeps no longer than any timer wants, but for the
\* rest of a millisecond; unless the timeout overflowed.
SomebodyWakes ==
    (backs = 0 /\ m_timers # {}) =>
       \/ tickled \/ toTickle > 0
       \/ \E d \in Dispatchers : \/ pc[d] # "wait"
                                 \/ deadline[d] <= clock + Milli
                                 \/ \A e \in m_timers : GoodFor(deadline[d], e.key)

\* If every delay fits an int, no timeout overflows.
DelaysFit == \A us \in Delays : (us \div Milli) + 1 < Ints \div 2

NoneOverflows ==
    backs = 0 /\ DelaysFit => \A d \in Dispatchers : deadline[d] <= Never

TInv == /\ TypeOK /\ ClockInBounds /\ ArmedInSet /\ NewIsArmed /\ FiresOnce
        /\ ReadInPast /\ TickleUnderWay /\ SomebodyWakes /\ NoneOverflows

-----------------------------------------------------------------------------
\* What the library's Min returns.
LEMMA MinOfNaturals ==
    ASSUME NEW S \in SUBSET Nat, S # {}
    PROVE  Min(S) \in S /\ \A y \in S : Min(S) <= y
<1> DEFINE R == {p \in Nat \X Nat : p[1] < p[2]}
<1>1. R = OpToRel(<, Nat)
  BY Zenon DEF OpToRel
<1>2. IsWellFoundedOn(R, Nat)
  BY <1>1, NatLessThanWellFounded, Zenon
<1> HIDE DEF R
<1>3. PICK x \in S : \A y \in S : ~(<<y, x>> \in R)
  BY <1>2, WFMin, Zenon
<1>4. \A a, b \in Nat : a < b => <<a, b>> \in R
  BY DEF R
<1>5. \A y \in S : x <= y
  <2>1. SUFFICES ASSUME NEW y \in S, y < x PROVE FALSE
    OBVIOUS
  <2>2. <<y, x>> \in R
    BY <1>4, <2>1
  <2> QED BY <1>3, <2>2, Zenon
<1> QED BY <1>5 DEF Min

\* The first key of a set that is not empty is one of its keys, and the least.
LEMMA FirstKeyLeast ==
    ASSUME TypeOK, m_timers # {}
    PROVE  /\ FirstKey \in Words
           /\ \A e \in m_timers : FirstKey <= e.key
           /\ \E e \in m_timers : FirstKey = e.key
<1> DEFINE K == {e.key : e \in m_timers}
<1>1. K \in SUBSET Words /\ K \in SUBSET Nat
  BY ClockAssumption DEF TypeOK, Words
<1>2. K # {}
  OBVIOUS
<1>3. Min(K) \in K /\ \A k \in K : Min(K) <= k
  BY <1>1, <1>2, MinOfNaturals
<1>4. FirstKey = Min(K)
  BY DEF FirstKey
<1>5. \A e \in m_timers : e.key \in K
  OBVIOUS
<1> QED BY <1>1, <1>3, <1>4, <1>5

\* The quotient and the remainder of a division.
LEMMA Quotient ==
    ASSUME NEW n \in Nat, NEW m \in Nat \ {0}
    PROVE  n \div m \in Nat /\ n % m \in Nat /\ n % m <= n /\ (n \div m) * m <= n
<1>1. n \div m \in Nat
  OBVIOUS
<1>2. n % m \in Nat
  OBVIOUS
<1>3. n % m <= n
  OBVIOUS
<1>4. (n \div m) * m <= n
  OBVIOUS
<1> QED BY <1>1, <1>2, <1>3, <1>4

\* A positive factor or divisor keeps the order of two naturals.
LEMMA OrderKept ==
    ASSUME NEW a \in Nat, NEW b \in Nat, NEW m \in Nat \ {0}, a <= b
    PROVE  a * m \in Nat /\ a * m <= b * m /\ a \div m <= b \div m
<1>1. a * m \in Nat
  OBVIOUS
<1>2. a * m <= b * m
  OBVIOUS
<1>3. a \div m <= b \div m
  OBVIOUS
<1> QED BY <1>1, <1>2, <1>3

\* Rounding up to milliseconds adds no more than one, whether the quotient was cut to
\* an int or not; a timeout that fits is no more than that.
LEMMA TimeoutRoundsUp ==
    ASSUME NEW us \in Nat
    PROVE  /\ us \div Milli \in Nat
           /\ Milliseconds(us) \in Nat \ {0}
           /\ Milliseconds(us) <= (us \div Milli) + 1
           /\ (Milliseconds(us) % Ints) * Milli \in Nat
           /\ (Milliseconds(us) % Ints) * Milli <= us + Milli
<1> DEFINE q == us \div Milli
           n == q % Ints
           k == (n + 1) % Ints
<1>1. q \in Nat /\ q * Milli <= us
  BY IntAssumption, Quotient
<1> HIDE DEF q
<1>2. n \in Nat /\ n <= q
  BY <1>1, IntAssumption, Quotient
<1> HIDE DEF n
<1>3. k \in Nat /\ k <= n + 1
  BY <1>2, IntAssumption, Quotient
<1>4. Milliseconds(us) = n + 1 /\ Milliseconds(us) % Ints = k
  BY DEF Milliseconds, n, q
<1> HIDE DEF k
<1>5. k <= q + 1
  BY <1>1, <1>2, <1>3
<1>6. k * Milli \in Nat /\ k * Milli <= (q + 1) * Milli
  BY <1>1, <1>3, <1>5, IntAssumption, OrderKept
<1>7. (q + 1) * Milli = q * Milli + Milli /\ q * Milli \in Nat
  BY <1>1, IntAssumption
<1>8. Milliseconds(us) \in Nat \ {0} /\ Milliseconds(us) <= q + 1
  BY <1>1, <1>2, <1>4
<1>9. k * Milli <= us + Milli
  BY <1>1, <1>6, <1>7, IntAssumption
<1> QED BY <1>1, <1>4, <1>6, <1>8, <1>9 DEF q

\* A wait that times out does so by the rest of a millisecond after us.
LEMMA TimesOutInTime ==
    ASSUME clock \in Nat, NEW us \in Nat
    PROVE  TimesOut(us) \in Nat /\ TimesOut(us) <= clock + us + Milli
<1> DEFINE w == (Milliseconds(us) % Ints) * Milli
<1>1. w \in Nat /\ w <= us + Milli
  BY TimeoutRoundsUp
<1>2. TimesOut(us) = clock + w
  BY DEF TimesOut
<1> HIDE DEF w
<1> QED BY <1>1, <1>2, IntAssumption

\* What is good for a timer is good for a later one.
LEMMA GoodForLater ==
    ASSUME NEW w \in Nat, NEW key \in Nat, NEW later \in Nat, key <= later, GoodFor(w, key)
    PROVE  GoodFor(w, later)
<1>1. Never \in Nat /\ Milli \in Nat
  BY ClockAssumption, IntAssumption DEF Never
<1> QED BY <1>1 DEF GoodFor, Overflowed

\* What SleepUntil is: in time for every timer, or without end.
LEMMA SleepsInTime ==
    ASSUME TypeOK
    PROVE  /\ SleepUntil \in 0 .. Overflowed(Width)
           /\ m_timers # {} => \/ SleepUntil <= clock + Milli
                               \/ \A e \in m_timers : GoodFor(SleepUntil, e.key)
<1>0. /\ Words \subseteq Nat /\ clock \in Nat /\ Milli \in Nat /\ Width \in Nat
      /\ Never = Width + Milli /\ \A key : Overflowed(key) = Never + 1 + key
      /\ \A w \in Words : w < Width
  BY ClockAssumption, IntAssumption DEF TypeOK, Words, Never, Overflowed
<1>1. CASE m_timers = {}
  BY <1>0, <1>1 DEF SleepUntil
<1>2. CASE m_timers # {}
  <2> DEFINE us == IF clock >= FirstKey THEN 0 ELSE FirstKey - clock
  <2>1. /\ FirstKey \in Words /\ FirstKey \in Nat /\ clock \in Words
        /\ \A e \in m_timers : FirstKey <= e.key /\ e.key \in Nat
    BY <1>0, <1>2, FirstKeyLeast DEF TypeOK
  <2>2. us \in Nat /\ (us = 0 \/ clock + us = FirstKey)
    BY <1>0, <2>1
  <2>3. SleepUntil = IF FitsInt(us) THEN TimesOut(us) ELSE Overflowed(FirstKey)
    BY <1>2 DEF SleepUntil
  <2> HIDE DEF us
  <2>4. CASE FitsInt(us)
    <3>1. SleepUntil \in Nat /\ SleepUntil <= clock + us + Milli
      BY <1>0, <2>2, <2>3, <2>4, TimesOutInTime
    <3>2. CASE us = 0
      BY <1>0, <2>1, <3>1, <3>2
    <3>3. CASE clock + us = FirstKey
      <4>1. SleepUntil <= FirstKey + Milli
        BY <3>1, <3>3
      <4>2. \A e \in m_timers : GoodFor(SleepUntil, e.key)
        BY <1>0, <2>1, <3>1, <4>1 DEF GoodFor
      <4> QED BY <1>0, <2>1, <3>1, <4>1, <4>2
    <3> QED BY <2>2, <3>2, <3>3
  <2>5. CASE ~FitsInt(us)
    <3>1. SleepUntil = Never + 1 + FirstKey
      BY <1>0, <2>3, <2>5
    <3>2. \A e \in m_timers : GoodFor(SleepUntil, e.key)
      BY <1>0, <2>1, <3>1 DEF GoodFor
    <3> QED BY <1>0, <2>1, <3>1, <3>2
  <2> QED BY <2>4, <2>5
<1> QED BY <1>1, <1>2

\* A delay that is no longer than one that fits does not overflow.
LEMMA ShorterFits ==
    ASSUME NEW us \in Nat, NEW long \in Nat, us <= long, (long \div Milli) + 1 < Ints \div 2
    PROVE  FitsInt(us)
<1>1. us \div Milli <= long \div Milli
  BY IntAssumption, OrderKept
<1>2. Milliseconds(us) <= (us \div Milli) + 1 /\ Milliseconds(us) \in Nat /\ us \div Milli \in Nat
  BY TimeoutRoundsUp
<1>3. long \div Milli \in Nat /\ Ints \div 2 \in Nat
  BY IntAssumption, Quotient
<1>4. Milliseconds(us) < Ints \div 2
  BY <1>1, <1>2, <1>3
<1> QED BY <1>4 DEF FitsInt

\* The first state has its types.
LEMMA TypeInit == Init => TypeOK /\ ClockInBounds
<1>1. Delays # {} /\ Delays \in SUBSET Nat
  BY ClockAssumption
<1>2. Min(Delays) \in Delays
  BY <1>1, MinOfNaturals
<1>3. PICK d \in Delays : d \in Nat /\ End + d < Width
  BY ClockAssumption
<1>4. Start \in Words /\ 0 \in Words /\ Start \in Start .. End
  BY <1>3, ClockAssumption DEF Words
<1>5. ASSUME Init PROVE ClockInBounds
  BY <1>4, <1>5 DEF Init, ClockInBounds
<1>6. ASSUME Init PROVE TypeOK
  <2>1. backs \in 0..MaxBacks /\ toTickle \in 0..MaxTickles
    BY <1>6, ClockAssumption DEF Init
  <2>2. /\ m_next \in [Timers -> Words] /\ nowUs \in [Dispatchers -> Words]
        /\ deadline \in [Dispatchers -> 0 .. Overflowed(Width)] /\ ran \in [Timers -> Nat]
        /\ m_us \in [Timers -> Delays]
    BY <1>2, <1>4, <1>6, ClockAssumption, IntAssumption DEF Init, Never, Overflowed
  <2> QED BY <1>4, <1>6, <2>1, <2>2 DEF Init, TypeOK
<1> QED BY <1>5, <1>6

\* Both registerTimer() and reset() keep the types of what they share.
LEMMA InsertType ==
    ASSUME TypeOK, NEW s \in SUBSET m_timers, NEW t \in Timers, NEW key \in Words,
           InsertAtFront(s, t, key)
    PROVE  /\ m_timers' = s \cup {Item(t, key)}
           /\ m_timers' \subseteq [timer : Timers, key : Words]
           /\ m_tickled' \in BOOLEAN /\ toTickle' \in 0..MaxTickles
           /\ m_previousTime' = m_previousTime
<1>1. PICK first \in BOOLEAN :
         LET atFront == first /\ ~m_tickled
         IN /\ atFront => toTickle < MaxTickles
            /\ m_timers' = s \cup {Item(t, key)}
            /\ m_tickled' = (m_tickled \/ atFront)
            /\ toTickle' = IF atFront THEN toTickle + 1 ELSE toTickle
            /\ UNCHANGED m_previousTime
  BY Zenon DEF InsertAtFront
<1>2. toTickle' \in 0..MaxTickles
  BY <1>1, ClockAssumption DEF TypeOK
<1>3. m_timers' \subseteq [timer : Timers, key : Words]
  BY <1>1 DEF TypeOK, Item
<1> QED BY <1>1, <1>2, <1>3

\* The keys that the operations compute are words.
LEMMA KeysAreWords ==
    ASSUME TypeOK, ClockInBounds
    PROVE  /\ clock + 1 \in Nat
           /\ \A us \in Delays : us \in Nat /\ clock + us \in Words
           /\ \A d \in Dispatchers, us \in Delays : nowUs[d] + us \in Words
           /\ \A n \in Nat : n % Width \in Words
<1>1. \A c \in Start .. End, us \in Delays : c + us \in Words
  BY ClockAssumption DEF Words
<1>2. Width \in Nat \ {0}
  BY ClockAssumption
<1>3. \A n \in Nat : n % Width \in Words
  BY <1>2 DEF Words
<1> QED BY <1>1, <1>3, ClockAssumption DEF ClockInBounds

\* No timer: the deadline that never comes.
LEMMA NeverIsDeadline == Never \in 0 .. Overflowed(Width) /\ Never <= Never
  BY ClockAssumption, IntAssumption DEF Never, Overflowed

\* Every step keeps types, and the clock within its bounds.
LEMMA TypeStep == TypeOK /\ ClockInBounds /\ [Next]_vars => TypeOK' /\ ClockInBounds'
<1> SUFFICES ASSUME TypeOK, ClockInBounds, [Next]_vars
             PROVE  TypeOK' /\ ClockInBounds'
  OBVIOUS
<1> USE DEF TypeOK, ClockInBounds
<1>0. Words \subseteq Nat /\ \A c \in Start .. End : c \in Words
  BY ClockAssumption DEF Words
<1>1. CASE Tick
  BY <1>0, <1>1, ClockAssumption DEF Tick, managerVars, timerVars, loopVars, history
<1>2. CASE SetBack
  BY <1>0, <1>2, ClockAssumption DEF SetBack, managerVars, timerVars, loopVars, history
<1>3. CASE onTimerInsertedAtFront
  <2>1. tickled' \in BOOLEAN
    BY <1>3 DEF onTimerInsertedAtFront
  <2>2. toTickle' \in 0..MaxTickles /\ UNCHANGED <<clock, backs, managerVars, timerVars, loopVars, history>>
    BY <1>3, ClockAssumption DEF onTimerInsertedAtFront
  <2> QED BY <2>1, <2>2 DEF managerVars, timerVars, loopVars, history
<1>4. ASSUME NEW t \in Timers, NEW us \in Delays, NEW recurring \in BOOLEAN,
             Construct(t, us, recurring)
      PROVE  TypeOK' /\ ClockInBounds'
  BY <1>4, KeysAreWords DEF Construct, managerVars, loopVars, history
<1>5. ASSUME NEW t \in Timers, registerTimer(t)
      PROVE  TypeOK' /\ ClockInBounds'
  BY <1>5, InsertType DEF registerTimer, loopVars, history
<1>6. ASSUME NEW t \in Timers, cancel(t)
      PROVE  TypeOK' /\ ClockInBounds'
  BY <1>6 DEF cancel, loopVars
<1>7. ASSUME NEW t \in Timers, refresh(t)
      PROVE  TypeOK' /\ ClockInBounds'
  BY <1>7, KeysAreWords DEF refresh, Item, loopVars, history
<1>8. ASSUME NEW t \in Timers, NEW us \in Delays, NEW fromNow \in BOOLEAN,
             reset(t, us, fromNow)
      PROVE  TypeOK' /\ ClockInBounds'
  <2> DEFINE start == IF fromNow THEN clock ELSE (m_next[t] + Width - m_us[t]) % Width
             key == (start + us) % Width
  <2>1. key \in Words
    <3>1. m_us[t] \in Nat /\ m_us[t] <= Width /\ us \in Nat
      BY ClockAssumption
    <3>2. m_next[t] + Width - m_us[t] \in Nat
      <4>1. m_next[t] \in Nat /\ Width \in Nat
        BY <1>0, ClockAssumption
      <4> QED BY <3>1, <4>1
    <3>3. start \in Nat
      BY <1>0, <3>2, KeysAreWords
    <3> HIDE DEF start
    <3> QED BY <3>1, <3>3, KeysAreWords
  <2>2. InsertAtFront(m_timers \ Find(t), t, key)
    BY <1>8 DEF reset
  <2>3. /\ m_us' = [m_us EXCEPT ![t] = us]
        /\ m_next' = [m_next EXCEPT ![t] = key]
        /\ UNCHANGED <<clock, backs, m_recurring, armed, made, tickled, loopVars, history>>
    BY <1>8 DEF reset
  <2> HIDE DEF key
  <2> QED BY <2>1, <2>2, <2>3, InsertType DEF loopVars, history
<1>9. ASSUME NEW d \in Dispatchers, nextTimer(d)
      PROVE  TypeOK' /\ ClockInBounds'
  BY <1>9, SleepsInTime DEF nextTimer, timerVars, history
<1>10. ASSUME NEW d \in Dispatchers, EpollWait(d)
       PROVE  TypeOK' /\ ClockInBounds'
  BY <1>10, NeverIsDeadline DEF EpollWait, managerVars, timerVars, history
<1>11. ASSUME NEW d \in Dispatchers, Interrupted(d)
       PROVE  TypeOK' /\ ClockInBounds'
  BY <1>11, NeverIsDeadline DEF Interrupted, managerVars, timerVars, history
<1>12. ASSUME NEW d \in Dispatchers, processTimers(d)
       PROVE  TypeOK' /\ ClockInBounds'
  <2> DEFINE now == nowUs[d]
             gone == Expired(now)
             S == {e.timer : e \in gone}
             again == {t \in S : m_recurring[t]}
  <2>1. /\ m_previousTime' = IF m_timers = {} THEN m_previousTime ELSE now
        /\ m_next' = [t \in Timers |-> IF t \in again THEN now + m_us[t] ELSE m_next[t]]
        /\ m_timers' = (m_timers \ gone) \cup {Item(t, now + m_us[t]) : t \in again}
        /\ Disarm(S)
        /\ result' = [result EXCEPT ![d] = S]
        /\ nowUs' = [nowUs EXCEPT ![d] = Start]
        /\ pc' = [pc EXCEPT ![d] = IF S = {} THEN "poll" ELSE "run"]
        /\ UNCHANGED <<clock, backs, m_tickled, m_us, m_recurring, made, toTickle, tickled, deadline,
                       history>>
    BY <1>12 DEF processTimers
  <2>2. gone \subseteq m_timers /\ S \subseteq Timers /\ again \subseteq Timers
    BY DEF Expired
  <2>3. now \in Start .. End /\ now \in Words /\ \A t \in Timers : now + m_us[t] \in Words
    BY <1>0, KeysAreWords
  <2>4. m_timers' \subseteq [timer : Timers, key : Words]
    <3> HIDE DEF gone, again, now
    <3> QED BY <2>1, <2>2, <2>3 DEF Item
  <2>5. ClockInBounds' /\ nowUs' \in [Dispatchers -> Words]
    BY <1>0, <2>1, <2>3, ClockAssumption
  <2>6. /\ m_next' \in [Timers -> Words] /\ m_previousTime' \in Words
        /\ armed' \in [Timers -> BOOLEAN] /\ result' \in [Dispatchers -> SUBSET Timers]
        /\ pc' \in [Dispatchers -> {"poll", "wait", "process", "run"}]
    <3> HIDE DEF S, again, now
    <3> QED BY <2>1, <2>2, <2>3 DEF Disarm
  <2> QED BY <2>1, <2>4, <2>5, <2>6 DEF history
<1>13. ASSUME NEW d \in Dispatchers, NEW t \in Timers, RunCallback(d, t)
       PROVE  TypeOK' /\ ClockInBounds'
  BY <1>13 DEF RunCallback, managerVars, timerVars
<1>14. CASE UNCHANGED vars
  BY <1>14 DEF vars, managerVars, timerVars, loopVars, history
<1> QED BY <1>1, <1>2, <1>3, <1>4, <1>5, <1>6, <1>7, <1>8, <1>9, <1>10, <1>11, <1>12, <1>13, <1>14
        DEF Next, Client, Dispatch

-----------------------------------------------------------------------------
(* The set of timers.                                                      *)

\* ArmedInSet, entry by entry and timer by timer.
EntriesMatch ==
    /\ \A e \in m_timers : /\ made[e.timer] = "yes" /\ armed[e.timer]
                           /\ e.key = m_next[e.timer]
    /\ \A t \in Timers : made[t] = "yes" /\ armed[t] => Item(t, m_next[t]) \in m_timers

\* The fields of an entry of m_timers.
LEMMA ItemFields ==
    ASSUME TypeOK
    PROVE  /\ \A t, k : Item(t, k).timer = t /\ Item(t, k).key = k
           /\ \A e \in m_timers : /\ e = Item(e.timer, e.key)
                                  /\ e.timer \in Timers /\ e.key \in Words
  BY DEF TypeOK, Item

\* ArmedInSet, said of every entry and of every timer.
LEMMA ArmedInSetPointwise == TypeOK => (ArmedInSet <=> EntriesMatch)
<1> SUFFICES ASSUME TypeOK PROVE ArmedInSet <=> EntriesMatch
  OBVIOUS
<1>1. ASSUME ArmedInSet PROVE EntriesMatch
  <2>1. ASSUME NEW e \in m_timers
        PROVE  made[e.timer] = "yes" /\ armed[e.timer] /\ e = Item(e.timer, m_next[e.timer])
    BY <1>1, ItemFields DEF ArmedInSet
  <2>2. ASSUME NEW t \in Timers, made[t] = "yes", armed[t]
        PROVE  Item(t, m_next[t]) \in m_timers
    BY <1>1, <2>2 DEF ArmedInSet
  <2> QED BY <2>1, <2>2, ItemFields DEF EntriesMatch
<1>2. ASSUME EntriesMatch PROVE ArmedInSet
  <2> SUFFICES ASSUME NEW t \in Timers
               PROVE  {e \in m_timers : e.timer = t}
                        = IF made[t] = "yes" /\ armed[t] THEN {Item(t, m_next[t])} ELSE {}
    BY DEF ArmedInSet
  <2>1. \A e \in m_timers : e.timer = t => made[t] = "yes" /\ armed[t] /\ e = Item(t, m_next[t])
    BY <1>2, ItemFields DEF EntriesMatch
  <2>2. made[t] = "yes" /\ armed[t] => Item(t, m_next[t]) \in m_timers
    BY <1>2 DEF EntriesMatch
  <2> QED BY <2>1, <2>2, ItemFields
<1> QED BY <1>1, <1>2

\* What find() in the set leaves: no entry of the timer.
LEMMA FindTakesOut ==
    ASSUME TypeOK, EntriesMatch, NEW t \in Timers
    PROVE  m_timers \ Find(t) = {e \in m_timers : e.timer # t}
  BY DEF EntriesMatch, Find

\* Every step keeps the set in agreement with the timers.
LEMMA EntriesStep ==
    ASSUME TypeOK, ClockInBounds, EntriesMatch, NewIsArmed, [Next]_vars
    PROVE  EntriesMatch' /\ NewIsArmed'
<1>0. TypeOK'
  BY TypeStep
<1> USE DEF EntriesMatch, NewIsArmed
<1>a. ASSUME UNCHANGED <<m_timers, timerVars>> PROVE EntriesMatch' /\ NewIsArmed'
  BY <1>a DEF timerVars
<1>1. CASE Tick \/ SetBack \/ onTimerInsertedAtFront \/ UNCHANGED vars
  BY <1>a, <1>1 DEF Tick, SetBack, onTimerInsertedAtFront, vars, managerVars
<1>2. ASSUME NEW d \in Dispatchers,
             \/ nextTimer(d) \/ EpollWait(d) \/ Interrupted(d)
             \/ \E t \in Timers : RunCallback(d, t)
      PROVE  EntriesMatch' /\ NewIsArmed'
  BY <1>a, <1>2 DEF nextTimer, EpollWait, Interrupted, RunCallback, managerVars
<1>3. ASSUME NEW t \in Timers, NEW us \in Delays, NEW recurring \in BOOLEAN,
             Construct(t, us, recurring)
      PROVE  EntriesMatch' /\ NewIsArmed'
  BY <1>3, ItemFields DEF Construct, TypeOK, managerVars
<1>4. ASSUME NEW t \in Timers, registerTimer(t)
      PROVE  EntriesMatch' /\ NewIsArmed'
  <2>1. m_timers' = m_timers \cup {Item(t, m_next[t])}
    BY <1>4, InsertType DEF registerTimer, TypeOK
  <2> QED BY <1>4, <2>1, ItemFields DEF registerTimer, TypeOK
<1>5. ASSUME NEW t \in Timers, cancel(t)
      PROVE  EntriesMatch' /\ NewIsArmed'
  BY <1>5, FindTakesOut, ItemFields DEF cancel, TypeOK
<1>6. ASSUME NEW t \in Timers, refresh(t)
      PROVE  EntriesMatch' /\ NewIsArmed'
  BY <1>6, FindTakesOut, ItemFields DEF refresh, TypeOK
<1>7. ASSUME NEW t \in Timers, NEW us \in Delays, NEW fromNow \in BOOLEAN,
             reset(t, us, fromNow)
      PROVE  EntriesMatch' /\ NewIsArmed'
  <2>1. PICK key : /\ m_next' = [m_next EXCEPT ![t] = key]
                   /\ InsertAtFront(m_timers \ Find(t), t, key)
    BY <1>7 DEF reset
  <2>2. m_timers' = (m_timers \ Find(t)) \cup {Item(t, key)}
    BY <2>1 DEF InsertAtFront
  <2> QED BY <1>7, <2>1, <2>2, FindTakesOut, ItemFields DEF reset, TypeOK
<1>8. ASSUME NEW d \in Dispatchers, processTimers(d)
      PROVE  EntriesMatch' /\ NewIsArmed'
  <2> DEFINE now == nowUs[d]
             gone == Expired(now)
             S == {e.timer : e \in gone}
             again == {t \in S : m_recurring[t]}
  <2>1. /\ m_next' = [t \in Timers |-> IF t \in again THEN now + m_us[t] ELSE m_next[t]]
        /\ m_timers' = (m_timers \ gone) \cup {Item(t, now + m_us[t]) : t \in again}
        /\ armed' = [t \in Timers |-> armed[t] /\ ~(t \in S /\ ~m_recurring[t])]
        /\ made' = made /\ m_recurring' = m_recurring
    BY <1>8 DEF processTimers, Disarm
  <2>2. gone \subseteq m_timers
    BY DEF Expired
  <2>3. \A e \in m_timers : e.timer \in S <=> e \in gone
    BY <2>2, ItemFields
  <2>4. \A t \in S : t \in Timers /\ made[t] = "yes" /\ armed[t]
    BY <2>2, ItemFields
  <2>5. S \subseteq Timers /\ again \subseteq S /\ \A t \in again : m_recurring[t]
    BY <2>4
  <2>6. \A t \in S : t \in again \/ ~m_recurring[t]
    OBVIOUS
  <2> HIDE DEF gone, S, again, now
  <2>7. ASSUME NEW e \in m_timers'
        PROVE  made[e.timer] = "yes" /\ armed'[e.timer] /\ e.key = m_next'[e.timer]
    <3>1. CASE e \in m_timers \ gone
      BY <2>1, <2>3, <2>5, <3>1, ItemFields
    <3>2. CASE \E t \in again : e = Item(t, now + m_us[t])
      <4>1. PICK t \in again : e = Item(t, now + m_us[t])
        BY <3>2
      <4>2. e.timer = t /\ e.key = now + m_us[t]
        BY <4>1, ItemFields
      <4>3. t \in Timers /\ t \in S /\ made[t] = "yes" /\ armed[t] /\ m_recurring[t]
        BY <2>4, <2>5
      <4>4. m_next'[t] = now + m_us[t] /\ armed'[t]
        BY <2>1, <4>3
      <4> QED BY <4>2, <4>3, <4>4
    <3> QED BY <2>1, <2>7, <3>1, <3>2
  <2>8. ASSUME NEW t \in Timers, made[t] = "yes", armed'[t]
        PROVE  Item(t, m_next'[t]) \in m_timers'
    <3>1. armed[t] /\ Item(t, m_next[t]) \in m_timers
      BY <2>1, <2>8
    <3>2. CASE t \in S
      BY <2>1, <2>6, <2>8, <3>2
    <3>3. CASE t \notin S
      BY <2>1, <2>3, <2>5, <3>1, <3>3, ItemFields
    <3> QED BY <3>2, <3>3
  <2>9. NewIsArmed'
    BY <2>1, <2>4
  <2> QED BY <2>1, <2>7, <2>8, <2>9
<1> QED BY <1>1, <1>2, <1>3, <1>4, <1>5, <1>6, <1>7, <1>8 DEF Next, Client, Dispatch

-----------------------------------------------------------------------------
(* One-shot timers fire once.                                              *)

\* Every step keeps a one-shot timer in the set, on its way to its callback, or done.
LEMMA FiresOnceStep ==
    ASSUME TypeOK, EntriesMatch, FiresOnce, [Next]_vars
    PROVE  FiresOnce'
<1> USE DEF FiresOnce
<1>a. ASSUME UNCHANGED <<m_recurring, armed, made, result, history>> PROVE FiresOnce'
  BY <1>a DEF history
<1>1. CASE Tick \/ SetBack \/ onTimerInsertedAtFront \/ UNCHANGED vars
  BY <1>a, <1>1
     DEF Tick, SetBack, onTimerInsertedAtFront, vars, timerVars, loopVars
<1>2. ASSUME NEW d \in Dispatchers, nextTimer(d) \/ EpollWait(d) \/ Interrupted(d)
      PROVE  FiresOnce'
  BY <1>a, <1>2 DEF nextTimer, EpollWait, Interrupted, timerVars
<1>3. ASSUME NEW t \in Timers,
             \/ registerTimer(t) \/ refresh(t)
             \/ \E us \in Delays, fromNow \in BOOLEAN : reset(t, us, fromNow)
      PROVE  FiresOnce'
  BY <1>3 DEF registerTimer, refresh, reset, loopVars, history, TypeOK
<1>4. ASSUME NEW t \in Timers, NEW us \in Delays, NEW recurring \in BOOLEAN,
             Construct(t, us, recurring)
      PROVE  FiresOnce'
  BY <1>4 DEF Construct, loopVars, history, TypeOK
<1>5. ASSUME NEW t \in Timers, cancel(t)
      PROVE  FiresOnce'
  BY <1>5 DEF cancel, loopVars, TypeOK
<1>6. ASSUME NEW d \in Dispatchers, processTimers(d)
      PROVE  FiresOnce'
  <2> DEFINE gone == Expired(nowUs[d])
             S == {e.timer : e \in gone}
  <2>1. /\ result' = [result EXCEPT ![d] = S]
        /\ armed' = [t \in Timers |-> armed[t] /\ ~(t \in S /\ ~m_recurring[t])]
        /\ UNCHANGED <<made, m_recurring, ran, cancelled>>
    BY <1>6 DEF processTimers, Disarm, history
  <2>2. gone \subseteq m_timers
    BY DEF Expired
  <2>3. \A t \in S : t \in Timers /\ made[t] = "yes" /\ armed[t]
    BY <2>2, ItemFields DEF EntriesMatch
  <2> HIDE DEF S, gone
  <2> QED BY <2>1, <2>3 DEF TypeOK
<1>7. ASSUME NEW d \in Dispatchers, NEW t \in Timers, RunCallback(d, t)
      PROVE  FiresOnce'
  <2>1. /\ t \in result[d]
        /\ result' = [result EXCEPT ![d] = result[d] \ {t}]
        /\ ran' = [ran EXCEPT ![t] = IF m_recurring[t] THEN ran[t] ELSE ran[t] + 1]
        /\ UNCHANGED <<made, armed, m_recurring, cancelled>>
    BY <1>7 DEF RunCallback, timerVars
  <2>2. \A c \in Dispatchers : result'[c] \subseteq result[c] /\ (c = d => t \notin result'[c])
    BY <2>1 DEF TypeOK
  <2>3. \A u \in Timers : u # t => ran'[u] = ran[u]
    BY <2>1 DEF TypeOK
  <2>4. ASSUME ~m_recurring[t]
        PROVE  ran[t] = 0 /\ ran'[t] = 1 /\ \A c \in Dispatchers : t \notin result'[c]
    <3>1. ran[t] \in Nat /\ ran[t] <= 1 /\ ran[t] # 1
      BY <2>1, <2>4 DEF TypeOK
    <3>2. ran'[t] = ran[t] + 1
      BY <2>1, <2>4 DEF TypeOK
    <3>3. \A c \in Dispatchers : t \in result[c] => c = d
      BY <2>1, <2>4
    <3>4. \A c \in Dispatchers : t \notin result'[c]
      BY <2>2, <3>3
    <3> QED BY <3>1, <3>2, <3>4
  <2>5. made[t] # "no" /\ ~(~m_recurring[t] /\ (armed[t] \/ cancelled[t]))
    BY <2>1
  <2> QED BY <2>1, <2>2, <2>3, <2>4, <2>5
<1> QED BY <1>1, <1>2, <1>3, <1>4, <1>5, <1>6, <1>7 DEF Next, Client, Dispatch

-----------------------------------------------------------------------------
(* Times read from the clock.                                              *)

\* One turn of unsigned arithmetic.
LEMMA WrapsOnce ==
    ASSUME NEW w \in Nat \ {0}, NEW n \in 0 .. w - 1
    PROVE  n % w = n /\ (n + w) % w = n
  OBVIOUS

\* Every step keeps the times that were read behind the clock.
LEMMA ReadInPastStep ==
    ASSUME TypeOK, ClockInBounds, ReadInPast, [Next]_vars
    PROVE  ReadInPast'
<1>0. /\ Words \subseteq Nat /\ Start \in Nat /\ clock \in Nat /\ Threshold \in Nat
      /\ \A us \in Delays : us \in Nat /\ clock + us < Width
      /\ Width \in Nat
  BY ClockAssumption DEF Words, ClockInBounds
<1> USE DEF ReadInPast
<1>1. CASE Tick
  <2>1. /\ clock' = clock + 1
        /\ \A d \in Dispatchers : pc[d] = "process" => clock < nowUs[d] + Threshold
        /\ UNCHANGED <<backs, m_previousTime, m_us, m_next, made, pc, nowUs>>
    BY <1>1 DEF Tick, managerVars, timerVars, loopVars
  <2>2. /\ m_previousTime \in Nat /\ \A d \in Dispatchers : nowUs[d] \in Nat
        /\ \A t \in Timers : m_us[t] \in Nat /\ m_next[t] \in Nat
    BY <1>0 DEF TypeOK
  <2> QED BY <1>0, <2>1, <2>2
<1>2. CASE SetBack
  BY <1>2 DEF SetBack, TypeOK
<1>3. CASE onTimerInsertedAtFront \/ UNCHANGED vars
  BY <1>3 DEF onTimerInsertedAtFront, vars, managerVars, timerVars, loopVars
<1>4. ASSUME NEW t \in Timers, NEW us \in Delays, NEW recurring \in BOOLEAN,
             Construct(t, us, recurring)
      PROVE  ReadInPast'
  BY <1>0, <1>4 DEF Construct, managerVars, loopVars, TypeOK, ClockInBounds
<1>5. ASSUME NEW t \in Timers, registerTimer(t) \/ cancel(t)
      PROVE  ReadInPast'
  BY <1>5 DEF registerTimer, cancel, InsertAtFront, loopVars, TypeOK
<1>6. ASSUME NEW t \in Timers, refresh(t)
      PROVE  ReadInPast'
  BY <1>0, <1>6 DEF refresh, loopVars, TypeOK, ClockInBounds
<1>7. ASSUME NEW t \in Timers, NEW us \in Delays, NEW fromNow \in BOOLEAN,
             reset(t, us, fromNow)
      PROVE  ReadInPast'
  <2> DEFINE start == IF fromNow THEN clock ELSE (m_next[t] + Width - m_us[t]) % Width
             key == (start + us) % Width
  <2>1. /\ m_us' = [m_us EXCEPT ![t] = us]
        /\ m_next' = [m_next EXCEPT ![t] = key]
        /\ UNCHANGED <<clock, backs, m_previousTime, made, pc, nowUs>>
        /\ made[t] = "yes"
    BY <1>7 DEF reset, InsertAtFront, loopVars
  <2>2. ASSUME backs = 0 PROVE us + Start <= key /\ key <= clock + us
    <3>1. /\ m_us[t] \in Nat /\ m_next[t] \in Nat /\ us \in Nat /\ clock + us < Width
          /\ m_us[t] + Start <= m_next[t] /\ m_next[t] <= clock + m_us[t]
      BY <1>0, <2>1, <2>2 DEF TypeOK
    <3>2. start \in Start .. clock
      <4>1. CASE fromNow
        BY <1>0, <4>1 DEF ClockInBounds
      <4>2. CASE ~fromNow
        <5>1. m_next[t] - m_us[t] \in Start .. clock /\ m_next[t] - m_us[t] < Width
          BY <1>0, <3>1
        <5>2. (m_next[t] + Width - m_us[t]) % Width = m_next[t] - m_us[t]
          <6>1. m_next[t] + Width - m_us[t] = (m_next[t] - m_us[t]) + Width
            BY <1>0, <3>1
          <6>2. m_next[t] - m_us[t] \in 0 .. Width - 1 /\ Width \in Nat \ {0}
            BY <1>0, <5>1
          <6> QED BY <6>1, <6>2, WrapsOnce
        <5> QED BY <4>2, <5>1, <5>2
      <4> QED BY <4>1, <4>2
    <3> HIDE DEF start
    <3>3. start + us \in 0 .. Width - 1
      BY <1>0, <3>1, <3>2
    <3>4. key = start + us
      BY <1>0, <3>3
    <3> QED BY <1>0, <3>1, <3>2, <3>4
  <2> HIDE DEF key
  <2> QED BY <2>1, <2>2 DEF TypeOK
<1>8. ASSUME NEW d \in Dispatchers, nextTimer(d) \/ Interrupted(d)
      PROVE  ReadInPast'
  BY <1>8 DEF nextTimer, Interrupted, managerVars, timerVars, TypeOK
<1>9. ASSUME NEW d \in Dispatchers, EpollWait(d)
      PROVE  ReadInPast'
  BY <1>0, <1>9 DEF EpollWait, managerVars, timerVars, TypeOK
<1>10. ASSUME NEW d \in Dispatchers, NEW t \in Timers, RunCallback(d, t)
       PROVE  ReadInPast'
  BY <1>10 DEF RunCallback, managerVars, timerVars, TypeOK
<1>11. ASSUME NEW d \in Dispatchers, processTimers(d)
       PROVE  ReadInPast'
  <2>1. PICK again : m_next' = [t \in Timers |-> IF t \in again THEN nowUs[d] + m_us[t] ELSE m_next[t]]
    BY <1>11 DEF processTimers
  <2>2. /\ UNCHANGED <<clock, backs, made, m_us>>
        /\ nowUs' = [nowUs EXCEPT ![d] = Start]
        /\ m_previousTime' = IF m_timers = {} THEN m_previousTime ELSE nowUs[d]
        /\ \A c \in Dispatchers : c # d => pc'[c] = pc[c]
        /\ pc'[d] # "process"
    BY <1>11 DEF processTimers, TypeOK
  <2>3. nowUs[d] \in Nat /\ Start <= nowUs[d] /\ Start <= clock
    BY <1>0 DEF ClockInBounds
  <2> QED BY <1>0, <2>1, <2>2, <2>3 DEF TypeOK
<1> QED BY <1>1, <1>2, <1>3, <1>4, <1>5, <1>6, <1>7, <1>8, <1>9, <1>10, <1>11
        DEF Next, Client, Dispatch

-----------------------------------------------------------------------------
(* Nobody sleeps past the first timer.                                     *)

\* registerTimer() and reset(): either the new entry is behind another one, which
\* somebody wakes up for, or the tickle for it is under way.
LEMMA InsertWakes ==
    ASSUME TypeOK, ClockInBounds, TickleUnderWay, SomebodyWakes,
           NEW s \in SUBSET m_timers, NEW t \in Timers, NEW key \in Words,
           InsertAtFront(s, t, key), UNCHANGED <<clock, backs, tickled, pc, deadline>>
    PROVE  TickleUnderWay' /\ SomebodyWakes'
<1>0. /\ Words \subseteq Nat
      /\ \A e \in m_timers : e.key \in Nat
      /\ \A d \in Dispatchers : deadline[d] \in Nat
      /\ toTickle \in Nat /\ Milli \in Nat
  BY ClockAssumption, IntAssumption DEF TypeOK, Words, Never, Overflowed
<1>1. PICK first \in BOOLEAN :
         LET atFront == first /\ ~m_tickled
         IN /\ ~first => \E e \in s : e.key <= key
            /\ m_timers' = s \cup {Item(t, key)}
            /\ m_tickled' = (m_tickled \/ atFront)
            /\ toTickle' = IF atFront THEN toTickle + 1 ELSE toTickle
  BY DEF InsertAtFront
<1>2. CASE first /\ ~m_tickled
  BY <1>0, <1>1, <1>2 DEF TickleUnderWay, SomebodyWakes
<1>3. CASE m_tickled
  BY <1>1, <1>3 DEF TickleUnderWay, SomebodyWakes
<1>4. CASE ~first /\ ~m_tickled
  <2>1. TickleUnderWay'
    BY <1>1, <1>4 DEF TickleUnderWay
  <2>2. PICK f \in s : f.key <= key
    BY <1>1, <1>4
  <2>3. Item(t, key).key = key /\ key \in Nat
    BY <1>0 DEF Item
  <2>4. ASSUME NEW d \in Dispatchers, \A e \in m_timers : GoodFor(deadline[d], e.key)
        PROVE  \A e \in m_timers' : GoodFor(deadline'[d], e.key)
    <3>1. GoodFor(deadline[d], f.key) /\ f.key \in Nat
      BY <1>0, <2>4
    <3>2. GoodFor(deadline[d], key)
      BY <1>0, <2>2, <2>3, <3>1, GoodForLater
    <3> QED BY <1>1, <2>3, <2>4, <3>2
  <2> QED BY <1>1, <1>4, <2>1, <2>2, <2>4 DEF SomebodyWakes
<1> QED BY <1>2, <1>3, <1>4

\* Every step keeps somebody awake, or waking up in time, for the first timer.
LEMMA WakesStep ==
    ASSUME TypeOK, ClockInBounds, EntriesMatch, ReadInPast, TickleUnderWay, SomebodyWakes,
           [Next]_vars
    PROVE  TickleUnderWay' /\ SomebodyWakes'
<1>0. /\ Words \subseteq Nat /\ clock \in Nat
      /\ \A e \in m_timers : e.key \in Nat
      /\ \A d \in Dispatchers : deadline[d] \in Nat
      /\ toTickle \in Nat /\ Milli \in Nat
      /\ \A us \in Delays : us \in Nat
  BY ClockAssumption, IntAssumption DEF TypeOK, Words, Never, Overflowed, ClockInBounds
<1>1. CASE Tick
  <2>1. clock' = clock + 1 /\ UNCHANGED <<backs, managerVars, toTickle, tickled, pc, deadline>>
    BY <1>1 DEF Tick, loopVars
  <2>2. \A d \in Dispatchers : deadline[d] <= clock + Milli => deadline[d] <= clock' + Milli
    BY <1>0, <2>1
  <2> QED BY <2>1, <2>2 DEF TickleUnderWay, SomebodyWakes, managerVars
<1>2. CASE SetBack
  BY <1>2 DEF SetBack, TickleUnderWay, SomebodyWakes, managerVars, loopVars, TypeOK
<1>3. CASE onTimerInsertedAtFront
  <2>1. \/ tickled'
        \/ \E d \in Dispatchers : pc[d] # "wait" /\ pc'[d] # "wait"
    BY <1>3, ThreadsAssumption DEF onTimerInsertedAtFront, loopVars
  <2> QED BY <2>1 DEF TickleUnderWay, SomebodyWakes
<1>4. CASE UNCHANGED vars
  BY <1>4 DEF vars, TickleUnderWay, SomebodyWakes, managerVars, loopVars
<1>5. ASSUME NEW t \in Timers, NEW us \in Delays, NEW recurring \in BOOLEAN,
             Construct(t, us, recurring)
      PROVE  TickleUnderWay' /\ SomebodyWakes'
  BY <1>5 DEF Construct, TickleUnderWay, SomebodyWakes, managerVars, loopVars
<1>6. ASSUME NEW t \in Timers, registerTimer(t)
      PROVE  TickleUnderWay' /\ SomebodyWakes'
  BY <1>6, InsertWakes DEF registerTimer, loopVars, TypeOK
<1>7. ASSUME NEW t \in Timers, cancel(t)
      PROVE  TickleUnderWay' /\ SomebodyWakes'
  BY <1>7 DEF cancel, TickleUnderWay, SomebodyWakes, loopVars
<1>8. ASSUME NEW t \in Timers, refresh(t)
      PROVE  TickleUnderWay' /\ SomebodyWakes'
  <2>1. /\ made[t] = "yes" /\ armed[t]
        /\ m_timers' = (m_timers \ Find(t)) \cup {Item(t, clock + m_us[t])}
        /\ UNCHANGED <<clock, backs, m_tickled, toTickle, tickled, pc, deadline>>
    BY <1>8 DEF refresh, loopVars
  <2>2. Item(t, m_next[t]) \in m_timers /\ Item(t, m_next[t]).key = m_next[t]
    BY <2>1, ItemFields DEF EntriesMatch
  <2>3. m_next[t] \in Nat /\ m_us[t] \in Nat
    BY <1>0 DEF TypeOK
  <2>4. ASSUME backs = 0, NEW d \in Dispatchers, \A e \in m_timers : GoodFor(deadline[d], e.key)
        PROVE  \A e \in m_timers' : GoodFor(deadline'[d], e.key)
    <3>1. m_next[t] <= clock + m_us[t] /\ clock + m_us[t] \in Nat
      BY <1>0, <2>1, <2>3, <2>4 DEF ReadInPast
    <3>2. GoodFor(deadline[d], m_next[t])
      BY <2>2, <2>4
    <3>3. GoodFor(deadline[d], clock + m_us[t])
      BY <1>0, <2>3, <3>1, <3>2, GoodForLater
    <3> QED BY <2>1, <2>4, <3>3, ItemFields
  <2> QED BY <2>1, <2>2, <2>4 DEF TickleUnderWay, SomebodyWakes
<1>9. ASSUME NEW t \in Timers, NEW us \in Delays, NEW fromNow \in BOOLEAN,
             reset(t, us, fromNow)
      PROVE  TickleUnderWay' /\ SomebodyWakes'
  <2>1. PICK key : /\ m_next' = [m_next EXCEPT ![t] = key]
                   /\ InsertAtFront(m_timers \ Find(t), t, key)
    BY <1>9 DEF reset
  <2>2. m_next'[t] = key /\ m_next'[t] \in Words
    BY <2>1, TypeStep DEF TypeOK
  <2>3. UNCHANGED <<clock, backs, tickled, pc, deadline>>
    BY <1>9 DEF reset, loopVars
  <2> QED BY <2>1, <2>2, <2>3, InsertWakes
<1>10. ASSUME NEW d \in Dispatchers, nextTimer(d)
       PROVE  TickleUnderWay' /\ SomebodyWakes'
  <2>1. /\ m_tickled' = FALSE
        /\ deadline'[d] = SleepUntil
        /\ UNCHANGED <<clock, m_timers>>
    BY <1>10 DEF nextTimer, TypeOK
  <2>2. TickleUnderWay'
    BY <2>1 DEF TickleUnderWay
  <2>3. ASSUME m_timers # {}
        PROVE  \/ deadline'[d] <= clock + Milli
               \/ \A e \in m_timers : GoodFor(deadline'[d], e.key)
    BY <2>1, <2>3, SleepsInTime
  <2> QED BY <2>1, <2>2, <2>3 DEF SomebodyWakes
<1>11. ASSUME NEW d \in Dispatchers,
              \/ EpollWait(d) \/ Interrupted(d) \/ processTimers(d)
              \/ \E t \in Timers : RunCallback(d, t)
       PROVE  TickleUnderWay' /\ SomebodyWakes'
  <2>1. pc'[d] # "wait"
    BY <1>11 DEF EpollWait, Interrupted, processTimers, RunCallback, TypeOK
  <2> QED BY <2>1 DEF TickleUnderWay, SomebodyWakes
<1> QED BY <1>1, <1>2, <1>3, <1>4, <1>5, <1>6, <1>7, <1>8, <1>9, <1>10, <1>11
        DEF Next, Client, Dispatch

\* While every delay fits an int and the clock is not set back, a thread that goes to
\* sleep is no further from the first timer than that timer's delay.
LEMMA OverflowStep ==
    ASSUME TypeOK, ClockInBounds, EntriesMatch, ReadInPast, NoneOverflows, [Next]_vars
    PROVE  NoneOverflows'
<1> SUFFICES ASSUME backs' = 0, DelaysFit, NEW d \in Dispatchers
             PROVE  deadline'[d] <= Never
  BY DEF NoneOverflows, DelaysFit
<1>0. Next => backs = 0 \/ SetBack
  BY DEF Next, Tick, onTimerInsertedAtFront, Client, Construct, registerTimer, cancel, refresh,
         reset, Dispatch, nextTimer, EpollWait, Interrupted, processTimers, RunCallback
<1>1. backs = 0
  <2>1. ~SetBack
    BY ClockAssumption DEF SetBack, TypeOK
  <2>2. UNCHANGED vars => backs = 0
    BY DEF vars
  <2> QED BY <1>0, <2>1, <2>2
<1>2. deadline[d] <= Never
  BY <1>1 DEF NoneOverflows
<1>3. CASE nextTimer(d)
  <2>1. deadline'[d] = SleepUntil
    BY <1>3 DEF nextTimer, TypeOK
  <2>2. CASE m_timers = {}
    BY <2>1, <2>2, NeverIsDeadline DEF SleepUntil
  <2>3. CASE m_timers # {}
    <3> DEFINE us == IF clock >= FirstKey THEN 0 ELSE FirstKey - clock
    <3>1. PICK e \in m_timers : FirstKey = e.key
      BY <2>3, FirstKeyLeast
    <3>2. e.timer \in Timers /\ e.key = m_next[e.timer] /\ made[e.timer] = "yes"
      BY ItemFields DEF EntriesMatch
    <3>3. FirstKey <= clock + m_us[e.timer]
      BY <1>1, <3>1, <3>2 DEF ReadInPast
    <3>4. m_us[e.timer] \in Delays /\ m_us[e.timer] \in Nat /\ clock \in Nat /\ FirstKey \in Nat
      BY <2>3, <3>2, FirstKeyLeast, ClockAssumption DEF TypeOK, Words
    <3>5. us \in Nat /\ us <= m_us[e.timer]
      BY <3>3, <3>4
    <3>6. FitsInt(us) => SleepUntil = TimesOut(us)
      BY <2>3 DEF SleepUntil
    <3> HIDE DEF us
    <3>7. (m_us[e.timer] \div Milli) + 1 < Ints \div 2
      BY <3>4 DEF DelaysFit
    <3>8. FitsInt(us)
      BY <3>4, <3>5, <3>7, ShorterFits
    <3> DEFINE w == (Milliseconds(us) % Ints) * Milli
    <3>9. w \in Nat /\ w <= us + Milli
      BY <3>5, TimeoutRoundsUp
    <3>10. SleepUntil = clock + w
      BY <3>6, <3>8 DEF TimesOut
    <3> HIDE DEF w
    <3>11. us + clock < Width
      <4>1. m_us[e.timer] + End < Width /\ clock <= End /\ End \in Nat /\ Width \in Nat
        BY <3>4, ClockAssumption DEF ClockInBounds
      <4> QED BY <3>4, <3>5, <4>1
    <3> QED BY <2>1, <3>4, <3>5, <3>9, <3>10, <3>11, ClockAssumption, IntAssumption DEF Never
  <2> QED BY <2>2, <2>3
<1>4. CASE ~nextTimer(d)
  <2>1. ASSUME Next PROVE deadline'[d] \in {deadline[d], Never}
    <3>1. CASE Tick \/ SetBack \/ onTimerInsertedAtFront
      BY <3>1 DEF Tick, SetBack, onTimerInsertedAtFront, loopVars
    <3>2. ASSUME NEW t \in Timers, Client(t) PROVE deadline' = deadline
      BY <3>2 DEF Client, Construct, registerTimer, cancel, refresh, reset, loopVars
    <3>3. ASSUME NEW c \in Dispatchers, Dispatch(c) PROVE deadline'[d] \in {deadline[d], Never}
      BY <1>4, <3>3 DEF Dispatch, nextTimer, EpollWait, Interrupted, processTimers, RunCallback, TypeOK
    <3> QED BY <2>1, <3>1, <3>2, <3>3 DEF Next
  <2>2. UNCHANGED vars => deadline'[d] = deadline[d]
    BY DEF vars, loopVars
  <2> QED BY <1>2, <2>1, <2>2, NeverIsDeadline
<1> QED BY <1>3, <1>4

-----------------------------------------------------------------------------
(* The theorems.                                                           *)

\* The first state satisfies the invariant.
LEMMA TInvInit == Init => TInv
<1> SUFFICES ASSUME Init PROVE TInv
  OBVIOUS
<1>1. TypeOK /\ ClockInBounds
  BY TypeInit
<1>2. EntriesMatch
  BY DEF Init, EntriesMatch
<1>3. NewIsArmed /\ FiresOnce
  BY DEF Init, NewIsArmed, FiresOnce
<1>4. ReadInPast
  BY ClockAssumption DEF Init, ReadInPast
<1>5. TickleUnderWay /\ SomebodyWakes
  BY DEF Init, TickleUnderWay, SomebodyWakes
<1>6. NoneOverflows
  BY NeverIsDeadline DEF Init, NoneOverflows
<1> QED BY <1>1, <1>2, <1>3, <1>4, <1>5, <1>6, ArmedInSetPointwise DEF TInv

\* Every step keeps the invariant.
LEMMA TInvStep == TInv /\ [Next]_vars => TInv'
<1> SUFFICES ASSUME TInv, [Next]_vars PROVE TInv'
  OBVIOUS
<1>1. TypeOK /\ ClockInBounds /\ EntriesMatch
  BY ArmedInSetPointwise DEF TInv
<1>2. TypeOK' /\ ClockInBounds'
  BY <1>1, TypeStep
<1>3. EntriesMatch' /\ NewIsArmed'
  BY <1>1, EntriesStep DEF TInv
<1>4. ArmedInSet'
  <2>1. (TypeOK => (ArmedInSet <=> EntriesMatch))'
    BY ArmedInSetPointwise, PTL
  <2> QED BY <1>2, <1>3, <2>1
<1>5. FiresOnce'
  BY <1>1, FiresOnceStep DEF TInv
<1>6. ReadInPast'
  BY <1>1, ReadInPastStep DEF TInv
<1>7. TickleUnderWay' /\ SomebodyWakes'
  BY <1>1, WakesStep DEF TInv
<1>8. NoneOverflows'
  BY <1>1, OverflowStep DEF TInv
<1> QED BY <1>2, <1>3, <1>4, <1>5, <1>6, <1>7, <1>8 DEF TInv

\* TInv is an invariant; its first conjunct is the type invariant of timer.cpp's fields
\* and of the idle loop's locals (no operation computes a time that wraps around).
THEOREM TimerInvariant == Spec => []TInv
  BY TInvInit, TInvStep, PTL DEF Spec

\* Every armed timer is in m_timers, once, under its current m_next, and no other timer
\* is: find() in cancel(), refresh() and reset() always succeeds.
THEOREM TimerArmedInSet == Spec => []ArmedInSet
<1>1. TInv => ArmedInSet
  BY DEF TInv
<1> QED BY <1>1, TimerInvariant, PTL

\* What FiresOnce says, counted as CancelledNeverRuns counts it.
LEMMA FiresOnceCounted == TInv => CancelledNeverRuns
<1> SUFFICES ASSUME TInv, NEW t \in Timers, ~m_recurring[t]
             PROVE  ran[t] + Cardinality({d \in Dispatchers : t \in result[d]})
                      <= IF cancelled[t] \/ armed[t] THEN 0 ELSE 1
  BY DEF CancelledNeverRuns
<1> DEFINE D == {d \in Dispatchers : t \in result[d]}
<1>1. IsFiniteSet(D)
  BY ThreadsAssumption, FS_Subset
<1>2. ran[t] \in Nat /\ ran[t] <= 1
  BY DEF TInv, TypeOK, FiresOnce
<1>3. CASE D = {}
  <2>1. Cardinality(D) = 0
    BY <1>3, FS_EmptySet
  <2>2. cancelled[t] \/ armed[t] => ran[t] = 0
    BY DEF TInv, FiresOnce
  <2> QED BY <1>2, <2>1, <2>2
<1>4. CASE D # {}
  <2>1. PICK d \in Dispatchers : t \in result[d]
    BY <1>4
  <2>2. D = {d}
    BY <2>1 DEF TInv, FiresOnce
  <2>3. Cardinality(D) = 1
    BY <2>2, FS_Singleton
  <2>4. ran[t] = 0 /\ ~(cancelled[t] \/ armed[t])
    BY <1>2, <2>1 DEF TInv, FiresOnce
  <2> QED BY <2>3, <2>4
<1> QED BY <1>3, <1>4

\* A one-shot timer runs at most once, and never after cancel() returned true, although
\* its callback runs after the lock was given up.
THEOREM TimerCancelledNeverRuns == Spec => []CancelledNeverRuns
  BY FiresOnceCounted, TimerInvariant, PTL

\* What the invariant says when every thread of the idle loop sleeps.
LEMMA AllAsleep ==
    ASSUME TInv, backs = 0, m_timers # {}, \A d \in Dispatchers : pc[d] = "wait"
    PROVE  /\ \/ FirstTimerSeen
              \/ \E d \in Dispatchers : deadline[d] \in (Never + 1) .. Overflowed(FirstKey)
           /\ DelaysFit => FirstTimerSeen
<1>1. CASE tickled \/ toTickle > 0
  BY <1>1 DEF FirstTimerSeen
<1>2. CASE ~tickled /\ ~(toTickle > 0)
  <2>1. PICK d \in Dispatchers : \/ deadline[d] <= clock + Milli
                                 \/ \A e \in m_timers : GoodFor(deadline[d], e.key)
    BY <1>2 DEF TInv, SomebodyWakes
  <2>2. \E e \in m_timers : FirstKey = e.key
    BY FirstKeyLeast DEF TInv
  <2>3. DelaysFit => deadline[d] <= Never
    BY DEF TInv, NoneOverflows
  <2>4. Never \in Nat /\ deadline[d] \in Nat
    BY ClockAssumption, IntAssumption DEF TInv, TypeOK, Never, Overflowed
  <2>5. CASE deadline[d] <= clock + Milli
    BY <2>5 DEF FirstTimerSeen
  <2>6. CASE GoodFor(deadline[d], FirstKey)
    BY <2>3, <2>4, <2>6 DEF FirstTimerSeen, GoodFor
  <2> QED BY <2>1, <2>2, <2>5, <2>6
<1> QED BY <1>1, <1>2

\* The threads in the idle loop never all sleep past the first timer, whatever
\* registerTimer(), reset(), refresh() and tickles do in between, unless one of them slept
\* for that timer, or for one before it that is gone, with a timeout that overflowed an
\* int.  For a timer set before the one they sleep for there is no exception.
THEOREM TimerNoOversleep == Spec => []NoOversleep
<1>1. TInv => NoOversleep
  BY AllAsleep DEF NoOversleep
<1> QED BY <1>1, TimerInvariant, PTL

\* If every delay, in milliseconds and rounded up, fits an int, they never all sleep
\* past the first timer at all: nothing but the conversion in idle() stands against it.
THEOREM TimerSleepsForFirst == DelaysFit => (Spec => []SleepsForFirst)
<1> SUFFICES ASSUME DelaysFit PROVE Spec => []SleepsForFirst
  OBVIOUS
<1>1. TInv => SleepsForFirst
  BY AllAsleep DEF SleepsForFirst
<1> QED BY <1>1, TimerInvariant, PTL

\* A clock that was never set back is never taken for one that was: no timer expires by
\* detectClockRollover().
LEMMA NoFalseRollover ==
    ASSUME TInv, backs = 0, NEW d \in Dispatchers, pc[d] = "process"
    PROVE  ~detectClockRollover(nowUs[d])
<1>1. /\ Threshold \in Nat /\ Width \in Nat \ {0} /\ Threshold < Width /\ Threshold <= Start
      /\ Start \in Nat /\ clock \in Nat /\ clock < Width /\ nowUs[d] \in Nat
  BY ClockAssumption, UptimeAssumption DEF TInv, ClockInBounds, TypeOK, Words
<1>2. /\ m_previousTime <= clock /\ clock <= nowUs[d] + Threshold
      /\ m_previousTime = 0 \/ (m_previousTime \in Nat /\ Start <= m_previousTime)
  BY <1>1, ClockAssumption DEF TInv, ReadInPast, ClockInBounds
<1>3. CASE m_previousTime = 0
  BY <1>1, <1>3 DEF detectClockRollover
<1>4. CASE m_previousTime \in Nat /\ Start <= m_previousTime
  <2> DEFINE n == m_previousTime - Threshold
  <2>1. n \in 0 .. Width - 1 /\ n <= nowUs[d]
    BY <1>1, <1>2, <1>4
  <2>2. m_previousTime + Width - Threshold = n + Width
    BY <1>1, <1>4
  <2> HIDE DEF n
  <2>3. (m_previousTime + Width - Threshold) % Width = n
    BY <1>1, <2>1, <2>2, WrapsOnce
  <2> QED BY <1>1, <2>1, <2>3 DEF detectClockRollover
<1> QED BY <1>2, <1>3, <1>4

\* Unless the clock was set back, no timer expires before its time, although
\* processTimers() reads the clock before it takes the lock.
THEOREM TimerNeverEarly == Spec => NeverEarly
<1> DEFINE OnTime == \A d \in Dispatchers :
                        backs = 0 => \A t \in result'[d] \ result[d] : m_next[t] <= clock
<1>1. ASSUME TInv, Next PROVE OnTime
  <2> SUFFICES ASSUME NEW c \in Dispatchers, backs = 0, NEW t \in result'[c], t \notin result[c]
               PROVE  m_next[t] <= clock
    OBVIOUS
  <2>1. TypeOK /\ EntriesMatch
    BY <1>1, ArmedInSetPointwise DEF TInv
  <2>2. CASE \E d \in Dispatchers : processTimers(d)
    <3>1. PICK d \in Dispatchers : processTimers(d)
      BY <2>2
    <3>2. /\ result' = [result EXCEPT ![d] = {e.timer : e \in Expired(nowUs[d])}]
          /\ pc[d] = "process"
      BY <3>1 DEF processTimers
    <3>3. c = d /\ \E e \in Expired(nowUs[d]) : e.timer = t
      BY <2>1, <3>2 DEF TypeOK
    <3>4. PICK e \in m_timers : e.timer = t /\ e.key <= nowUs[d]
      BY <1>1, <3>2, <3>3, NoFalseRollover DEF Expired
    <3>5. e.key = m_next[t] /\ nowUs[d] <= clock
      BY <1>1, <2>1, <3>4 DEF EntriesMatch, TInv, ReadInPast
    <3>6. e.key \in Nat /\ nowUs[d] \in Nat /\ clock \in Nat
      BY <2>1, ClockAssumption DEF TypeOK, Words
    <3> QED BY <3>4, <3>5, <3>6
  <2>3. CASE ~\E d \in Dispatchers : processTimers(d)
    <3>1. CASE Tick \/ SetBack \/ onTimerInsertedAtFront
      BY <3>1 DEF Tick, SetBack, onTimerInsertedAtFront, loopVars
    <3>2. ASSUME NEW u \in Timers, Client(u) PROVE result' = result
      BY <3>2 DEF Client, loopVars, Construct, registerTimer, cancel, refresh, reset
    <3>3. ASSUME NEW d \in Dispatchers, Dispatch(d)
          PROVE  result'[c] \subseteq result[c]
      BY <2>1, <2>3, <3>3
         DEF Dispatch, nextTimer, EpollWait, Interrupted, RunCallback, TypeOK
    <3> QED BY <1>1, <3>1, <3>2, <3>3 DEF Next
  <2> QED BY <2>2, <2>3
<1>2. TInv /\ [Next]_vars => [OnTime]_vars
  BY <1>1
<1> QED BY <1>2, TimerInvariant, PTL DEF Spec, NeverEarly
=============================================================================
