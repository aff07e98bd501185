----------------------------- MODULE FiberMutex -----------------------------
(***************************************************************************)
(* FiberMutex and the FiberCondition that is associated with it            *)
(* (mordor/fibersynchronization.cpp).                                      *)
(*                                                                         *)
(* The std::mutex inside each object makes a critical section one action.  *)
(* What is NOT atomic in the code is not atomic here:                      *)
(*   - lock() and wait() enqueue the calling fiber, release the std::mutex *)
(*     and only then switch away (Scheduler::yieldTo), so a fiber can be   *)
(*     given the mutex and scheduled while it is still executing;          *)
(*   - signal() takes the condition's mutex and the FiberMutex's mutex one *)
(*     after the other, and between the two the released fiber is in       *)
(*     neither list, only in the local variable `next' of the signaller.   *)
(*                                                                         *)
(* A fiber that has been given to Scheduler::schedule() is counted in      *)
(* `scheduled' until some thread of its scheduler resumes it.              *)
(***************************************************************************)
EXTENDS Naturals, Sequences, FiniteSets

CONSTANTS
    Fibers,             \* the fibers that use the mutex and the condition
    None,               \* the null Fiber::ptr
    SignalHoldsMutex    \* do signal() and broadcast() callers hold the mutex?

ASSUME NoneAssumption == None \notin Fibers
ASSUME SignalAssumption == SignalHoldsMutex \in BOOLEAN

VARIABLES
    m_owner,      \* FiberMutex::m_owner
    m_waiters,    \* FiberMutex::m_waiters, oldest first
    c_waiters,    \* FiberCondition::m_waiters, oldest first
    next,         \* next[f]: the local of a signal() call of f, or None
    call,         \* call[f]: the blocking call f is in, or "none"
    state,        \* state[f]: EXEC while f runs on a thread, HOLD once off it
    scheduled     \* scheduled[f]: entries for f in its scheduler's queue

vars == <<m_owner, m_waiters, c_waiters, next, call, state, scheduled>>

Occurs(s, x) == \E i \in 1..Len(s) : s[i] = x
Distinct(s) == \A i, j \in 1..Len(s) : s[i] = s[j] => i = j

InM(f) == Occurs(m_waiters, f)
InC(f) == Occurs(c_waiters, f)
InNext(f) == \E g \in Fibers : next[g] = f

\* f executes client code: it runs, is inside no blocking call and no signal()
Running(f) == /\ call[f] = "none"
              /\ state[f] = "EXEC"
              /\ next[f] = None

TypeOK ==
    /\ m_owner \in Fibers \cup {None}
    /\ m_waiters \in Seq(Fibers)
    /\ c_waiters \in Seq(Fibers)
    /\ next \in [Fibers -> Fibers \cup {None}]
    /\ call \in [Fibers -> {"none", "lock", "wait"}]
    /\ state \in [Fibers -> {"EXEC", "HOLD"}]
    /\ scheduled \in [Fibers -> Nat]

Init ==
    /\ m_owner = None
    /\ m_waiters = <<>>
    /\ c_waiters = <<>>
    /\ next = [f \in Fibers |-> None]
    /\ call = [f \in Fibers |-> "none"]
    /\ state = [f \in Fibers |-> "EXEC"]
    /\ scheduled = [f \in Fibers |-> 0]

-----------------------------------------------------------------------------
(* Ownership passes to a fiber: m_owner = f; scheduler->schedule(f).       *)

GrantTo(f) == /\ m_owner' = f
              /\ scheduled' = [scheduled EXCEPT ![f] = @ + 1]

\* Mutants of unlockNoLock: the waiters are forgotten, or served newest first.
unlockForgets == m_owner' = None /\ UNCHANGED <<m_waiters, scheduled>>
unlockNewest ==
    \/ m_waiters = <<>> /\ m_owner' = None /\ UNCHANGED <<m_waiters, scheduled>>
    \/ /\ m_waiters # <<>>
       /\ m_waiters' = SubSeq(m_waiters, 1, Len(m_waiters) - 1)
       /\ GrantTo(m_waiters[Len(m_waiters)])

\* FiberMutex::unlockNoLock: ownership goes straight to the oldest waiter.
unlockNoLock ==
    \/ /\ m_waiters = <<>>
       /\ m_owner' = None
       /\ UNCHANGED <<m_waiters, scheduled>>
    \/ /\ m_waiters # <<>>
       /\ m_waiters' = Tail(m_waiters)
       /\ GrantTo(Head(m_waiters))

(* FiberMutex::lock.  The caller does not own the mutex (its assertion).   *)

LockFree(f) ==
    /\ Running(f)
    /\ m_owner = None
    /\ m_owner' = f
    /\ UNCHANGED <<m_waiters, c_waiters, next, call, state, scheduled>>

\* Mutant of LockEnqueue: the owner may lock again.
LockRecursive(f) ==
    /\ Running(f)
    /\ m_owner # None
    /\ m_waiters' = Append(m_waiters, f)
    /\ call' = [call EXCEPT ![f] = "lock"]
    /\ UNCHANGED <<m_owner, c_waiters, next, state, scheduled>>

LockEnqueue(f) ==
    /\ Running(f)
    /\ m_owner \notin {None, f}
    /\ m_waiters' = Append(m_waiters, f)
    /\ call' = [call EXCEPT ![f] = "lock"]
    /\ UNCHANGED <<m_owner, c_waiters, next, state, scheduled>>

Unlock(f) ==
    /\ Running(f)
    /\ m_owner = f
    /\ unlockNoLock
    /\ UNCHANGED <<c_waiters, next, call, state>>

\* Returns false, and changes nothing, when nobody waits.
UnlockIfNotUnique(f) ==
    /\ Running(f)
    /\ m_owner = f
    /\ m_waiters # <<>>
    /\ unlockNoLock
    /\ UNCHANGED <<c_waiters, next, call, state>>

-----------------------------------------------------------------------------
(* FiberCondition.                                                         *)

\* Both mutexes are held: joining the condition and releasing is one step.
Wait(f) ==
    /\ Running(f)
    /\ m_owner = f
    /\ c_waiters' = Append(c_waiters, f)
    /\ call' = [call EXCEPT ![f] = "wait"]
    /\ unlockNoLock
    /\ UNCHANGED <<next, state>>

MaySignal(f) == /\ Running(f)
                /\ SignalHoldsMutex => m_owner = f

\* Mutants of SignalPop: pop_front is forgotten, or the newest waiter is taken.
SignalPeek(f) ==
    /\ MaySignal(f)
    /\ c_waiters # <<>>
    /\ next' = [next EXCEPT ![f] = Head(c_waiters)]
    /\ UNCHANGED <<m_owner, m_waiters, c_waiters, call, state, scheduled>>
SignalPopNewest(f) ==
    /\ MaySignal(f)
    /\ c_waiters # <<>>
    /\ next' = [next EXCEPT ![f] = c_waiters[Len(c_waiters)]]
    /\ c_waiters' = SubSeq(c_waiters, 1, Len(c_waiters) - 1)
    /\ UNCHANGED <<m_owner, m_waiters, call, state, scheduled>>

\* First critical section of signal(): under the condition's mutex.
SignalPop(f) ==
    /\ MaySignal(f)
    /\ c_waiters # <<>>
    /\ next' = [next EXCEPT ![f] = Head(c_waiters)]
    /\ c_waiters' = Tail(c_waiters)
    /\ UNCHANGED <<m_owner, m_waiters, call, state, scheduled>>

\* Mutants of SignalGive: the fiber is scheduled whoever owns the mutex, is put
\* at the front of the mutex's list, or is lost when the mutex is owned.
SignalWakes(f) ==
    /\ next[f] # None
    /\ scheduled' = [scheduled EXCEPT ![next[f]] = @ + 1]
    /\ next' = [next EXCEPT ![f] = None]
    /\ UNCHANGED <<m_owner, m_waiters, c_waiters, call, state>>
SignalPrepends(f) ==
    /\ next[f] # None
    /\ \/ m_owner = None /\ GrantTo(next[f]) /\ UNCHANGED m_waiters
       \/ /\ m_owner # None
          /\ m_waiters' = <<next[f]>> \o m_waiters
          /\ UNCHANGED <<m_owner, scheduled>>
    /\ next' = [next EXCEPT ![f] = None]
    /\ UNCHANGED <<c_waiters, call, state>>
SignalDrops(f) ==
    /\ next[f] # None
    /\ \/ m_owner = None /\ GrantTo(next[f])
       \/ m_owner # None /\ UNCHANGED <<m_owner, scheduled>>
    /\ next' = [next EXCEPT ![f] = None]
    /\ UNCHANGED <<m_waiters, c_waiters, call, state>>

\* Second critical section of signal(): under the FiberMutex's mutex.
SignalGive(f) ==
    /\ next[f] # None
    /\ \/ /\ m_owner = None
          /\ GrantTo(next[f])
          /\ UNCHANGED m_waiters
       \/ /\ m_owner # None
          /\ m_waiters' = Append(m_waiters, next[f])
          /\ UNCHANGED <<m_owner, scheduled>>
    /\ next' = [next EXCEPT ![f] = None]
    /\ UNCHANGED <<c_waiters, call, state>>

Broadcast(f) ==
    /\ MaySignal(f)
    /\ c_waiters # <<>>
    /\ \/ /\ m_owner = None
          /\ GrantTo(Head(c_waiters))
          /\ m_waiters' = m_waiters \o Tail(c_waiters)
       \/ /\ m_owner # None
          /\ m_waiters' = m_waiters \o c_waiters
          /\ UNCHANGED <<m_owner, scheduled>>
    /\ c_waiters' = <<>>
    /\ UNCHANGED <<next, call, state>>

-----------------------------------------------------------------------------
(* The scheduler's part: the switch in Scheduler::yieldTo that ends lock() *)
(* and wait(), and a thread of the scheduler taking the fiber up again.    *)

YieldTo(f) ==
    /\ call[f] # "none"
    /\ state[f] = "EXEC"
    /\ state' = [state EXCEPT ![f] = "HOLD"]
    /\ UNCHANGED <<m_owner, m_waiters, c_waiters, next, call, scheduled>>

Resume(f) ==
    /\ state[f] = "HOLD"
    /\ scheduled[f] > 0
    /\ state' = [state EXCEPT ![f] = "EXEC"]
    /\ scheduled' = [scheduled EXCEPT ![f] = @ - 1]
    /\ call' = [call EXCEPT ![f] = "none"]
    /\ UNCHANGED <<m_owner, m_waiters, c_waiters, next>>

Step(f) ==
    \/ LockFree(f) \/ LockEnqueue(f) \/ Unlock(f) \/ UnlockIfNotUnique(f)
    \/ Wait(f) \/ SignalPop(f) \/ SignalGive(f) \/ Broadcast(f)
    \/ YieldTo(f) \/ Resume(f)

Next == \E f \in Fibers : Step(f)

Spec == Init /\ [][Next]_vars

(***************************************************************************)
(* Every thread of every scheduler keeps running, so a fiber that is about *)
(* to switch away does, a scheduled fiber is resumed, and a signal() call  *)
(* gets the second std::mutex.  Unlock is the client's part of the         *)
(* bargain: an owner eventually unlocks.                                   *)
(***************************************************************************)
Fairness == \A f \in Fibers : /\ WF_vars(YieldTo(f))
                              /\ WF_vars(Resume(f))
                              /\ WF_vars(SignalGive(f))
                              /\ WF_vars(Unlock(f))

FairSpec == Spec /\ Fairness

-----------------------------------------------------------------------------
(* Properties.                                                             *)

\* A fiber inside lock() or wait() is in exactly one of: the mutex's list,
\* the condition's list, the local of one signal() in progress, or (once) its
\* scheduler's queue; a fiber that is in no such call is in none of them.
\* Nothing is lost in the unlocked gap of signal() or before yieldTo().
Places(f) ==
    Cardinality({i \in 1..Len(m_waiters) : m_waiters[i] = f})
    + Cardinality({i \in 1..Len(c_waiters) : c_waiters[i] = f})
    + Cardinality({g \in Fibers : next[g] = f})
    + scheduled[f]

ExactlyOnePlace ==
    \A f \in Fibers : Places(f) = IF call[f] = "none" THEN 0 ELSE 1

\* The mutex is never free while fibers are queued for it: unlockNoLock,
\* wait(), signal() and broadcast() between them leave no waiter that nobody
\* will ever wake.
NoIdleWaiters == m_owner = None => m_waiters = <<>>

\* Only the owner is in a scheduler's queue, at most once, and then it is
\* still inside the call that will return it: the assertion after yieldTo()
\* in lock() and wait() (m_owner == Fiber::getThis()) can only hold this way.
ScheduledOwns ==
    \A f \in Fibers : scheduled[f] > 0 =>
        /\ scheduled[f] = 1
        /\ m_owner = f
        /\ call[f] # "none"

\* The post-condition of lock() and wait(), "Fiber::getThis() owns this
\* mutex": no call returns to a fiber that is not the owner.
ReturnsAsOwner ==
    [][\A f \in Fibers : (call[f] # "none" /\ call'[f] = "none") => m_owner = f]_vars

\* "strictly FIFO ... which Fiber will acquire the mutex next after it is
\* released": whoever becomes owner while fibers are queued is the oldest of
\* them, whether through lock(), unlock(), wait(), signal() or broadcast().
NoBarging ==
    [][(m_owner' \notin {None, m_owner} /\ m_waiters # <<>>)
            => m_owner' = Head(m_waiters)]_vars

\* A fiber that waits in lock() returns with the mutex.
LockReturns == \A f \in Fibers : call[f] = "lock" ~> m_owner = f /\ call[f] = "none"

\* A fiber that has been taken out of the condition's list returns from
\* wait() with the mutex: no signal is lost.
SignalledReturns ==
    \A f \in Fibers : (call[f] = "wait" /\ ~InC(f)) ~> m_owner = f /\ call[f] = "none"

-----------------------------------------------------------------------------
(* The inductive invariant behind the safety properties: the places a      *)
(* fiber can be in exclude each other, the lists hold no fiber twice, and  *)
(* a blocked fiber is in one of the places.                                *)

ListsDistinct ==
    /\ Distinct(m_waiters)
    /\ Distinct(c_waiters)
    /\ \A f, g \in Fibers : (next[f] # None /\ next[f] = next[g]) => f = g

PlacesExclusive ==
    \A f \in Fibers : /\ InM(f) => ~InC(f) /\ ~InNext(f) /\ m_owner # f
                      /\ InC(f) => ~InNext(f) /\ m_owner # f
                      /\ InNext(f) => m_owner # f

BlockedSomewhere ==
    \A f \in Fibers :
        call[f] # "none" <=> InM(f) \/ InC(f) \/ InNext(f) \/ scheduled[f] > 0

SignallersRun ==
    \A f \in Fibers : /\ next[f] # None => call[f] = "none"
                      /\ call[f] = "none" => state[f] = "EXEC"

\* The conjunction that every step preserves; the runs check it as well.
IInv == /\ TypeOK
        /\ ListsDistinct
        /\ PlacesExclusive
        /\ BlockedSomewhere
        /\ SignallersRun
        /\ ScheduledOwns
        /\ NoIdleWaiters

\* The mutex and the condition implement the abstract monitor: a fiber popped
\* by a signal() in progress is still asleep.
Blocked == {f \in Fibers : call[f] # "none"}
Asleep == {f \in Fibers : InC(f) \/ InNext(f)}

Mon == INSTANCE Monitor WITH
    Procs <- Fibers, Nobody <- None,
    holder <- m_owner, queue <- m_waiters, asleep <- Asleep, blocked <- Blocked

MonitorSpec == Mon!Spec

-----------------------------------------------------------------------------
(***************************************************************************)
(* The same with two history variables: in which order the fibers called   *)
(* FiberCondition::wait(), to state the order in which they get the mutex  *)
(* back, and whether a signal() has been overtaken in its unlocked gap.    *)
(***************************************************************************)
VARIABLES
    older,       \* older[f]: the fibers in wait() that called it before f did
    overtaken    \* some waiter was released while a signal() was in its gap

orderVars == <<vars, older, overtaken>>

Waiters == {f \in Fibers : call[f] = "wait"}

\* A fiber that calls wait() is behind all that are in it, until they return.
Remember ==
    /\ older' = [f \in Fibers |->
                    IF f \in Waiters' THEN Waiters' \cap (IF f \in Waiters THEN older[f] ELSE Waiters)
                    ELSE {}]
    /\ overtaken' = \/ overtaken
                    \/ /\ Len(c_waiters') < Len(c_waiters)
                       /\ \E f \in Fibers : next[f] # None

OrderInit == Init /\ older = [f \in Fibers |-> {}] /\ overtaken = FALSE

OrderNext == Next /\ Remember

OrderSpec == OrderInit /\ [][OrderNext]_orderVars /\ Fairness

\* "strictly FIFO, instead of random which waiting Fiber will be released when
\* the condition is signalled": a fiber that is given the mutex back after
\* wait() is the one that has been waiting longest - as long as no signal() or
\* broadcast() came between the two critical sections of another signal(), which
\* none can when signallers hold the mutex.
ConditionFIFO ==
    ~overtaken => \A f \in Waiters : scheduled[f] > 0 => older[f] = {}

\* Signallers that own the mutex are never overtaken, so that the order is strict.
SignallersInOrder == SignalHoldsMutex => ~overtaken

-----------------------------------------------------------------------------
(* The inductive invariant behind ConditionFIFO.                           *)

Gap == {f \in Fibers : next[f] # None}

Ahead(s, g, f) == \E i, j \in 1..Len(s) : i < j /\ s[i] = g /\ s[j] = f

\* Unless a signal() was overtaken, whoever called wait() earlier is nearer to its
\* return: on its way to resume it, in the list of the mutex before the other, in a
\* signal() that is alone in its gap, or in the list of the condition before the other.
WaitOrder ==
    ~overtaken =>
       /\ \A p, q \in Gap : p = q
       /\ \A f \in Waiters : \A g \in older[f] :
             /\ scheduled[f] = 0
             /\ InM(f) => scheduled[g] > 0 \/ Ahead(m_waiters, g, f)
             /\ InNext(f) => scheduled[g] > 0 \/ InM(g)
             /\ InC(f) /\ InC(g) => Ahead(c_waiters, g, f)

OrderInv ==
    /\ older \in [Fibers -> SUBSET Fibers] /\ overtaken \in BOOLEAN
    /\ \A f \in Fibers : older[f] \subseteq Waiters
    /\ WaitOrder
    /\ SignalHoldsMutex => \A f \in Gap : m_owner = f
    /\ SignallersInOrder
=============================================================================
