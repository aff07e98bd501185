------------------------------- MODULE Future -------------------------------
(***************************************************************************)
(* Future<>, waitAll and waitAny of mordor/future.h: one fiber waits for   *)
(* the futures 0..N-1, each of which a signaller of its own signals at any *)
(* moment.  m_fiber packs two facts into a word that is only changed by    *)
(* compare-and-swap: the future is signalled (bit 0), and a fiber waits    *)
(* (the other bits).  A call of startWait, cancelWait or of the            *)
(* compare-and-swap of signal() is one step.  wait() is waitAll on one     *)
(* future.  Futures with a callback (m_dg) are not modelled.               *)
(***************************************************************************)
EXTENDS Integers, FiniteSets

CONSTANT N    \* number of futures

VARIABLES
    waiting,       \* waiting[i]: m_fiber of i holds the fiber
    signalled,     \* signalled[i]: m_fiber & 0x1
    signaller,     \* signaller[i]: progress of signal(): "idle", "schedule", "done"
    op,            \* "all" or "any"
    pc,            \* where the waiting fiber is
    it, index, result, yieldsNeeded,    \* its locals; result -1 is ~0u
    state,         \* of the waiting fiber: EXEC or HOLD
    scheduled      \* entries for it in its scheduler's queue

futureVars == <<waiting, signalled, signaller>>
locals == <<it, index, result, yieldsNeeded>>
vars == <<futureVars, op, pc, locals, state, scheduled>>

Futures == 0 .. N - 1

TypeOK == /\ waiting \in [Futures -> BOOLEAN]
          /\ signalled \in [Futures -> BOOLEAN]
          /\ signaller \in [Futures -> {"idle", "schedule", "done"}]
          /\ op \in {"all", "any"}
          /\ pc \in {"start", "yieldFirst", "cancel", "drain", "yield", "done"}
          /\ it \in 0..N /\ index \in 0 .. N - 1 /\ result \in -1 .. N - 1
          /\ yieldsNeeded \in 0 .. N + 1
          /\ state \in {"EXEC", "HOLD"}
          /\ scheduled \in 0..N

Init == /\ waiting = [i \in Futures |-> FALSE]
        /\ signalled = [i \in Futures |-> FALSE]
        /\ signaller = [i \in Futures |-> "idle"]
        /\ op \in {"all", "any"}
        /\ pc = "start"
        /\ it = 0 /\ index = 0 /\ result = -1
        /\ yieldsNeeded = 1
        /\ state = "EXEC" /\ scheduled = 0

-----------------------------------------------------------------------------
\* Mutant of Signal: m_fiber is tested before the compare-and-swap.
SignalStale(i) ==
    /\ signaller[i] = "idle"
    /\ signalled' = [signalled EXCEPT ![i] = TRUE]
    /\ signaller' = [signaller EXCEPT ![i] = "done"]
    /\ UNCHANGED <<waiting, op, pc, locals, state, scheduled>>

\* signal(): the compare-and-swap, then schedule() if a fiber was waiting.
Signal(i) ==
    /\ signaller[i] = "idle"
    /\ signalled' = [signalled EXCEPT ![i] = TRUE]
    /\ signaller' = [signaller EXCEPT ![i] = IF waiting[i] THEN "schedule" ELSE "done"]
    /\ UNCHANGED <<waiting, op, pc, locals, state, scheduled>>

SignalSchedule(i) ==
    /\ signaller[i] = "schedule"
    /\ scheduled' = scheduled + 1
    /\ signaller' = [signaller EXCEPT ![i] = "done"]
    /\ UNCHANGED <<waiting, signalled, op, pc, locals, state>>

\* startWait() on i returned `was'.
startWait(i, was) == /\ was = signalled[i]
                     /\ waiting' = [waiting EXCEPT ![i] = ~was]

\* cancelWait() on i returned `was'; a signalled future keeps its word.
cancelWait(i, was) ==
    /\ was = signalled[i]
    /\ waiting' = IF was THEN waiting ELSE [waiting EXCEPT ![i] = FALSE]

-----------------------------------------------------------------------------
\* Mutant of AllStart: every future is taken to be signalled.
AllStartUncounted ==
    /\ pc = "start" /\ op = "all"
    /\ it < N
    /\ \E was \in BOOLEAN : startWait(it, was)
    /\ it' = it + 1
    /\ pc' = IF it + 1 = N THEN "drain" ELSE "start"
    /\ UNCHANGED <<signalled, signaller, op, index, result, yieldsNeeded, state, scheduled>>

\* waitAll: start all waits and count the ones to be woken for.
AllStart ==
    /\ pc = "start" /\ op = "all"
    /\ it < N
    /\ \E was \in BOOLEAN : /\ startWait(it, was)
                            /\ yieldsNeeded' = IF was THEN yieldsNeeded ELSE yieldsNeeded + 1
    /\ it' = it + 1
    /\ pc' = IF it + 1 = N THEN "drain" ELSE "start"
    /\ UNCHANGED <<signalled, signaller, op, index, result, state, scheduled>>

\* waitAny: the first future, ...
AnyFirst ==
    /\ pc = "start" /\ op = "any" /\ it = 0
    /\ \E was \in BOOLEAN :
          /\ startWait(0, was)
          /\ \/ was /\ pc' = "done" /\ result' = 0 /\ UNCHANGED yieldsNeeded
             \/ /\ ~was /\ UNCHANGED result
                /\ IF N = 1 THEN pc' = "yieldFirst" /\ yieldsNeeded' = 0
                            ELSE pc' = "start" /\ UNCHANGED yieldsNeeded
    /\ it' = 1
    /\ UNCHANGED <<signalled, signaller, op, index, state, scheduled>>

\* ... then the others until one is signalled already; past the last, yield.
AnyNext ==
    /\ pc = "start" /\ op = "any" /\ it > 0
    /\ index' = index + 1
    /\ \E was \in BOOLEAN :
          /\ startWait(it, was)
          /\ \/ /\ was
                /\ it' = it - 1 /\ result' = index + 1 /\ pc' = "cancel"
                /\ UNCHANGED yieldsNeeded
             \/ /\ ~was
                /\ it' = it + 1 /\ UNCHANGED result
                /\ IF it + 1 = N THEN pc' = "yieldFirst" /\ yieldsNeeded' = 0
                                 ELSE pc' = "start" /\ UNCHANGED yieldsNeeded
    /\ UNCHANGED <<signalled, signaller, op, state, scheduled>>

\* Mutant of AnyCancel: a future that was signalled in the meantime is not counted.
AnyCancelUncounted ==
    /\ pc = "cancel"
    /\ \E was \in BOOLEAN :
          /\ cancelWait(it, was)
          /\ result' = IF ~was THEN result ELSE IF it = 0 THEN 0 ELSE index
          /\ yieldsNeeded' = IF was /\ result = -1 THEN 1 ELSE yieldsNeeded
    /\ \/ it > 0 /\ it' = it - 1 /\ index' = index - 1 /\ UNCHANGED pc
       \/ it = 0 /\ pc' = "drain" /\ UNCHANGED <<it, index>>
    /\ UNCHANGED <<signalled, signaller, op, state, scheduled>>

\* The waits are cancelled from `it' down to the first future.
AnyCancel ==
    /\ pc = "cancel"
    /\ \E was \in BOOLEAN :
          /\ cancelWait(it, was)
          /\ result' = IF ~was THEN result ELSE IF it = 0 THEN 0 ELSE index
          /\ yieldsNeeded' = IF was THEN yieldsNeeded + 1 ELSE yieldsNeeded
    /\ \/ it > 0 /\ it' = it - 1 /\ index' = index - 1 /\ UNCHANGED pc
       \/ it = 0 /\ pc' = "drain" /\ UNCHANGED <<it, index>>
    /\ UNCHANGED <<signalled, signaller, op, state, scheduled>>

\* while (--yieldsNeeded) Scheduler::yieldTo();
Drain ==
    /\ pc = "drain"
    /\ yieldsNeeded' = yieldsNeeded - 1
    /\ pc' = IF yieldsNeeded = 1 THEN "done" ELSE "yield"
    /\ UNCHANGED <<futureVars, op, it, index, result, state, scheduled>>

YieldTo ==
    /\ pc \in {"yieldFirst", "yield"} /\ state = "EXEC"
    /\ state' = "HOLD"
    /\ UNCHANGED <<futureVars, op, pc, locals, scheduled>>

Resume ==
    /\ state = "HOLD" /\ scheduled > 0
    /\ state' = "EXEC"
    /\ scheduled' = scheduled - 1
    /\ \/ pc = "yieldFirst" /\ pc' = "cancel" /\ it' = it - 1
       \/ pc = "yield" /\ pc' = "drain" /\ UNCHANGED it
    /\ UNCHANGED <<futureVars, op, index, result, yieldsNeeded>>

Waiter == AllStart \/ AnyFirst \/ AnyNext \/ AnyCancel \/ Drain \/ YieldTo \/ Resume

Next == \/ Waiter
        \/ \E i \in Futures : Signal(i) \/ SignalSchedule(i)

Spec == Init /\ [][Next]_vars

-----------------------------------------------------------------------------
\* When waitAll or waitAny returns, no wake-up for the fiber is left in a queue
\* or in a signal() in progress: one would end some later, unrelated yieldTo().
ReturnsClean ==
    pc = "done" => scheduled = 0 /\ \A i \in Futures : signaller[i] # "schedule"

\* waitAll returns only when every future is signalled.
AllReturnsAll == (pc = "done" /\ op = "all") => \A i \in Futures : signalled[i]

\* waitAny returns the index of a future that is signalled (what the tests of
\* waitAny compare its result with), and not ~0u, which it asserts.
AnyReturnsSignalled == (pc = "done" /\ op = "any") => result >= 0 /\ signalled[result]

\* What the waiter waits for has happened: waitAny some future, waitAll all.
WaitOver == \/ op = "any" /\ \E i \in Futures : signalled[i]
            \/ \A i \in Futures : signalled[i]
=============================================================================
