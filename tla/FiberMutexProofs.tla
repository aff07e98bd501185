-------------------------- MODULE FiberMutexProofs --------------------------
(***************************************************************************)
(* Proofs about FiberMutex, for any set of fibers: the inductive invariant *)
(* IInv, and from it the safety properties and the refinement of Monitor.  *)
(***************************************************************************)
EXTENDS FiberMutex, FiniteSetTheorems, TLAPS

-----------------------------------------------------------------------------
(* What the list operations do to membership and to distinctness.          *)

\* push_back: the new element is a member, the others are as before.
LEMMA AppendOccurs ==
    ASSUME NEW S, NEW s \in Seq(S), NEW e \in S
    PROVE  /\ Append(s, e) \in Seq(S)
           /\ Append(s, e) # <<>>
           /\ \A x : Occurs(Append(s, e), x) <=> (Occurs(s, x) \/ x = e)
           /\ (Distinct(s) /\ ~Occurs(s, e)) => Distinct(Append(s, e))
  BY DEF Occurs, Distinct

\* pop_front of a list without repetitions: exactly the head leaves.
LEMMA TailOccurs ==
    ASSUME NEW S, NEW s \in Seq(S), s # <<>>
    PROVE  /\ Head(s) \in S
           /\ Occurs(s, Head(s))
           /\ Tail(s) \in Seq(S)
           /\ Distinct(s) => /\ Distinct(Tail(s))
                             /\ \A x : Occurs(Tail(s), x) <=> (Occurs(s, x) /\ x # Head(s))
<1>1. Head(s) \in S /\ Tail(s) \in Seq(S) /\ Len(s) \in Nat \ {0} /\ Head(s) = s[1]
  OBVIOUS
<1>2. Len(Tail(s)) = Len(s) - 1 /\ \A i \in 1..Len(Tail(s)) : Tail(s)[i] = s[i + 1]
  OBVIOUS
<1>3. Occurs(s, Head(s))
  BY <1>1 DEF Occurs
<1>4. ASSUME Distinct(s) PROVE Distinct(Tail(s))
  BY <1>1, <1>2, <1>4 DEF Distinct
<1>5. ASSUME Distinct(s), NEW x PROVE Occurs(Tail(s), x) => (Occurs(s, x) /\ x # Head(s))
  <2>1. SUFFICES ASSUME NEW i \in 1..Len(Tail(s)), Tail(s)[i] = x
                 PROVE  Occurs(s, x) /\ x # Head(s)
    BY DEF Occurs
  <2>2. i + 1 \in 1..Len(s) /\ s[i + 1] = x /\ 1 \in 1..Len(s)
    BY <1>1, <1>2, <2>1
  <2> QED BY <1>1, <1>5, <2>2 DEF Occurs, Distinct
<1>6. ASSUME Distinct(s), NEW x, Occurs(s, x), x # Head(s) PROVE Occurs(Tail(s), x)
  <2>1. PICK i \in 1..Len(s) : s[i] = x
    BY <1>6 DEF Occurs
  <2>2. i # 1 /\ i - 1 \in 1..Len(Tail(s))
    BY <1>1, <1>2, <1>6, <2>1
  <2>3. Tail(s)[i - 1] = x
    BY <1>1, <1>2, <2>1, <2>2
  <2> QED BY <2>2, <2>3 DEF Occurs
<1> QED BY <1>1, <1>3, <1>4, <1>5, <1>6

\* broadcast() appends a whole list.
LEMMA ConcatOccurs ==
    ASSUME NEW S, NEW s \in Seq(S), NEW t \in Seq(S)
    PROVE  /\ s \o t \in Seq(S)
           /\ \A x : Occurs(s \o t, x) <=> (Occurs(s, x) \/ Occurs(t, x))
           /\ (Distinct(s) /\ Distinct(t) /\ \A x : ~(Occurs(s, x) /\ Occurs(t, x)))
                => Distinct(s \o t)
<1>1. s \o t \in Seq(S) /\ Len(s \o t) = Len(s) + Len(t) /\ Len(s) \in Nat /\ Len(t) \in Nat
  OBVIOUS
<1>2. \A i \in 1..Len(s \o t) :
          (s \o t)[i] = IF i <= Len(s) THEN s[i] ELSE t[i - Len(s)]
  OBVIOUS
<1>3. ASSUME NEW x, Occurs(s \o t, x) PROVE Occurs(s, x) \/ Occurs(t, x)
  <2>1. PICK i \in 1..Len(s \o t) : (s \o t)[i] = x
    BY <1>3 DEF Occurs
  <2>2. CASE i <= Len(s)
    BY <1>1, <1>2, <2>1, <2>2 DEF Occurs
  <2>3. CASE i > Len(s)
    <3>1. i - Len(s) \in 1..Len(t) /\ t[i - Len(s)] = x
      BY <1>1, <1>2, <2>1, <2>3
    <3> QED BY <3>1 DEF Occurs
  <2> QED BY <1>1, <2>2, <2>3
<1>4. ASSUME NEW x, Occurs(s, x) PROVE Occurs(s \o t, x)
  <2>1. PICK i \in 1..Len(s) : s[i] = x
    BY <1>4 DEF Occurs
  <2>2. i \in 1..Len(s \o t) /\ (s \o t)[i] = x
    BY <1>1, <1>2, <2>1
  <2> QED BY <2>2 DEF Occurs
<1>5. ASSUME NEW x, Occurs(t, x) PROVE Occurs(s \o t, x)
  <2>1. PICK i \in 1..Len(t) : t[i] = x
    BY <1>5 DEF Occurs
  <2>2. Len(s) + i \in 1..Len(s \o t) /\ (s \o t)[Len(s) + i] = x
    BY <1>1, <1>2, <2>1
  <2> QED BY <2>2 DEF Occurs
<1>6. ASSUME Distinct(s), Distinct(t), \A x : ~(Occurs(s, x) /\ Occurs(t, x))
      PROVE  Distinct(s \o t)
  <2>1. SUFFICES ASSUME NEW i \in 1..Len(s \o t), NEW j \in 1..Len(s \o t),
                        (s \o t)[i] = (s \o t)[j]
                 PROVE  i = j
    BY DEF Distinct
  <2>2. CASE i <= Len(s) /\ j <= Len(s)
    BY <1>1, <1>2, <1>6, <2>1, <2>2 DEF Distinct
  <2>3. CASE i > Len(s) /\ j > Len(s)
    <3>1. i - Len(s) \in 1..Len(t) /\ j - Len(s) \in 1..Len(t)
      BY <1>1, <2>1, <2>3
    <3>2. t[i - Len(s)] = t[j - Len(s)]
      BY <1>1, <1>2, <2>1, <2>3
    <3>3. i - Len(s) = j - Len(s)
      BY <1>6, <3>1, <3>2 DEF Distinct
    <3> QED BY <1>1, <3>3
  <2>4. ASSUME NEW k \in 1..Len(s), NEW l \in 1..Len(t) PROVE s[k] # t[l]
    BY <1>6 DEF Occurs
  <2>5. CASE i <= Len(s) /\ j > Len(s)
    <3>1. i \in 1..Len(s) /\ j - Len(s) \in 1..Len(t) /\ s[i] = t[j - Len(s)]
      BY <1>1, <1>2, <2>1, <2>5
    <3> QED BY <2>4, <3>1
  <2>6. CASE i > Len(s) /\ j <= Len(s)
    <3>1. j \in 1..Len(s) /\ i - Len(s) \in 1..Len(t) /\ s[j] = t[i - Len(s)]
      BY <1>1, <1>2, <2>1, <2>6
    <3> QED BY <2>4, <3>1
  <2> QED BY <1>1, <2>2, <2>3, <2>5, <2>6
<1> QED BY <1>1, <1>3, <1>4, <1>5, <1>6

\* Nothing is in an empty list.
LEMMA EmptyOccurs == /\ \A x : ~Occurs(<<>>, x)
                     /\ Distinct(<<>>)
  BY DEF Occurs, Distinct

-----------------------------------------------------------------------------
(* Every action preserves the inductive invariant.                         *)

\* The initial state: no owner, empty lists, every fiber running.
LEMMA InitIInv == Init => IInv
  BY NoneAssumption, EmptyOccurs
  DEF Init, IInv, TypeOK, ListsDistinct, PlacesExclusive, BlockedSomewhere,
      SignallersRun, ScheduledOwns, NoIdleWaiters, InM, InC, InNext

\* unlockNoLock by the running owner f: either nobody is left, or exactly the
\* oldest waiter leaves the list, is scheduled once, and owns the mutex.
LEMMA UnlockNoLockEffect ==
    ASSUME IInv, NEW f \in Fibers, Running(f), m_owner = f, unlockNoLock
    PROVE  /\ m_waiters' \in Seq(Fibers)
           /\ Distinct(m_waiters')
           /\ scheduled[f] = 0
           /\ \/ /\ m_owner' = None
                 /\ m_waiters' = <<>>
                 /\ scheduled' = scheduled
                 /\ \A x : ~Occurs(m_waiters, x) /\ ~Occurs(m_waiters', x)
              \/ \E h \in Fibers :
                    /\ m_owner' = h
                    /\ h # f
                    /\ InM(h)
                    /\ scheduled[h] = 0
                    /\ scheduled' = [scheduled EXCEPT ![h] = 1]
                    /\ \A x : Occurs(m_waiters', x) <=> (Occurs(m_waiters, x) /\ x # h)
<1>1. TypeOK /\ Distinct(m_waiters) /\ scheduled[f] = 0
  BY DEF IInv, TypeOK, ListsDistinct, ScheduledOwns, Running
<1>2. CASE m_waiters = <<>>
  BY <1>1, <1>2, EmptyOccurs DEF unlockNoLock, TypeOK
<1>3. CASE m_waiters # <<>>
  <2>1. /\ Head(m_waiters) \in Fibers
        /\ Tail(m_waiters) \in Seq(Fibers)
        /\ Distinct(Tail(m_waiters))
        /\ Occurs(m_waiters, Head(m_waiters))
        /\ \A x : Occurs(Tail(m_waiters), x)
                    <=> (Occurs(m_waiters, x) /\ x # Head(m_waiters))
    BY <1>1, <1>3, TailOccurs DEF TypeOK
  <2>2. /\ m_waiters' = Tail(m_waiters)
        /\ m_owner' = Head(m_waiters)
        /\ scheduled' = [scheduled EXCEPT ![Head(m_waiters)] = @ + 1]
    BY <1>3 DEF unlockNoLock, GrantTo
  <2>3. Head(m_waiters) # f /\ scheduled[Head(m_waiters)] = 0
    BY <1>1, <2>1 DEF IInv, TypeOK, PlacesExclusive, ScheduledOwns, InM
  <2>4. scheduled' = [scheduled EXCEPT ![Head(m_waiters)] = 1]
    BY <2>1, <2>2, <2>3
  <2> QED BY <1>1, <2>1, <2>2, <2>3, <2>4 DEF InM
<1> QED BY <1>2, <1>3

\* lock() of a free mutex.
LEMMA LockFreeIInv ==
    ASSUME IInv, NEW f \in Fibers, LockFree(f)
    PROVE  IInv'
<1> USE DEF LockFree, Running
<1>1. TypeOK' /\ ListsDistinct' /\ SignallersRun'
  BY DEF IInv, TypeOK, ListsDistinct, SignallersRun
<1>2. \A g \in Fibers : InM(g)' = InM(g) /\ InC(g)' = InC(g) /\ InNext(g)' = InNext(g)
  BY DEF InM, InC, InNext
<1>3. PlacesExclusive' /\ BlockedSomewhere'
  BY <1>2 DEF IInv, PlacesExclusive, BlockedSomewhere
<1>4. ScheduledOwns' /\ NoIdleWaiters'
  BY NoneAssumption DEF IInv, ScheduledOwns, NoIdleWaiters
<1> QED BY <1>1, <1>3, <1>4 DEF IInv

\* lock() of an owned mutex: the caller joins the list of waiters.
LEMMA LockEnqueueIInv ==
    ASSUME IInv, NEW f \in Fibers, LockEnqueue(f)
    PROVE  IInv'
<1> USE DEF LockEnqueue, Running
<1>1. TypeOK /\ ~InM(f) /\ ~InC(f) /\ ~InNext(f) /\ ~(scheduled[f] > 0)
  BY DEF IInv, BlockedSomewhere
<1>2. /\ m_waiters' \in Seq(Fibers)
      /\ Distinct(m_waiters')
      /\ \A x : Occurs(m_waiters', x) <=> (Occurs(m_waiters, x) \/ x = f)
  BY <1>1, AppendOccurs DEF IInv, TypeOK, ListsDistinct, InM
<1>3. \A g \in Fibers : /\ InM(g)' <=> (InM(g) \/ g = f)
                        /\ InC(g)' <=> InC(g)
                        /\ InNext(g)' <=> InNext(g)
  BY <1>2 DEF InM, InC, InNext
<1>4. TypeOK' /\ ListsDistinct' /\ SignallersRun'
  BY <1>1, <1>2 DEF IInv, TypeOK, ListsDistinct, SignallersRun
<1>5. PlacesExclusive'
  BY <1>1, <1>3 DEF IInv, PlacesExclusive
<1>6. BlockedSomewhere'
  BY <1>1, <1>3 DEF IInv, TypeOK, BlockedSomewhere
<1>7. ScheduledOwns' /\ NoIdleWaiters'
  BY <1>1 DEF IInv, TypeOK, ScheduledOwns, NoIdleWaiters
<1> QED BY <1>4, <1>5, <1>6, <1>7 DEF IInv

\* unlock(), and unlockIfNotUnique() when it returns true.
LEMMA UnlockIInv ==
    ASSUME IInv, NEW f \in Fibers, Unlock(f) \/ UnlockIfNotUnique(f)
    PROVE  IInv'
<1>1. /\ Running(f) /\ m_owner = f /\ unlockNoLock
      /\ UNCHANGED <<c_waiters, next, call, state>>
  BY DEF Unlock, UnlockIfNotUnique
<1>2. /\ m_waiters' \in Seq(Fibers) /\ Distinct(m_waiters')
      /\ \/ /\ m_owner' = None /\ m_waiters' = <<>> /\ scheduled' = scheduled
            /\ \A x : ~Occurs(m_waiters, x) /\ ~Occurs(m_waiters', x)
         \/ \E h \in Fibers :
                    /\ m_owner' = h /\ h # f /\ InM(h) /\ scheduled[h] = 0
                    /\ scheduled' = [scheduled EXCEPT ![h] = 1]
                    /\ \A x : Occurs(m_waiters', x) <=> (Occurs(m_waiters, x) /\ x # h)
  BY <1>1, UnlockNoLockEffect
<1>3. scheduled[f] = 0 /\ \A g \in Fibers : g # f => scheduled[g] = 0
  BY <1>1, UnlockNoLockEffect DEF IInv, TypeOK, ScheduledOwns
<1>4. \A g \in Fibers : (InC(g)' <=> InC(g)) /\ (InNext(g)' <=> InNext(g))
  BY <1>1 DEF InC, InNext
<1>5. TypeOK' /\ ListsDistinct' /\ SignallersRun'
  BY <1>1, <1>2 DEF IInv, TypeOK, ListsDistinct, SignallersRun
<1>6. CASE m_owner' = None /\ m_waiters' = <<>> /\ scheduled' = scheduled
            /\ \A x : ~Occurs(m_waiters, x) /\ ~Occurs(m_waiters', x)
  BY <1>1, <1>3, <1>4, <1>5, <1>6, NoneAssumption
  DEF IInv, PlacesExclusive, BlockedSomewhere, ScheduledOwns, NoIdleWaiters, InM
<1>7. CASE \E h \in Fibers :
                    /\ m_owner' = h /\ h # f /\ InM(h) /\ scheduled[h] = 0
                    /\ scheduled' = [scheduled EXCEPT ![h] = 1]
                    /\ \A x : Occurs(m_waiters', x) <=> (Occurs(m_waiters, x) /\ x # h)
  <2>1. PICK h \in Fibers :
                    /\ m_owner' = h /\ h # f /\ InM(h) /\ scheduled[h] = 0
                    /\ scheduled' = [scheduled EXCEPT ![h] = 1]
                    /\ \A x : Occurs(m_waiters', x) <=> (Occurs(m_waiters, x) /\ x # h)
    BY <1>7
  <2>2. \A g \in Fibers : InM(g)' <=> (InM(g) /\ g # h)
    BY <2>1 DEF InM
  <2>3. PlacesExclusive'
    BY <1>4, <2>1, <2>2 DEF IInv, PlacesExclusive
  <2>4. BlockedSomewhere' /\ ScheduledOwns'
    BY <1>1, <1>3, <1>4, <2>1, <2>2 DEF IInv, TypeOK, BlockedSomewhere, ScheduledOwns
  <2>5. NoIdleWaiters'
    BY <2>1, NoneAssumption DEF NoIdleWaiters
  <2> QED BY <1>5, <2>3, <2>4, <2>5 DEF IInv
<1> QED BY <1>2, <1>6, <1>7

\* wait(): the owner joins the condition's list and hands the mutex over.
LEMMA WaitIInv ==
    ASSUME IInv, NEW f \in Fibers, Wait(f)
    PROVE  IInv'
<1>1. /\ Running(f) /\ m_owner = f /\ unlockNoLock
      /\ c_waiters' = Append(c_waiters, f)
      /\ call' = [call EXCEPT ![f] = "wait"]
      /\ UNCHANGED <<next, state>>
  BY DEF Wait
<1>2. /\ m_waiters' \in Seq(Fibers) /\ Distinct(m_waiters')
      /\ \/ /\ m_owner' = None /\ m_waiters' = <<>> /\ scheduled' = scheduled
            /\ \A x : ~Occurs(m_waiters, x) /\ ~Occurs(m_waiters', x)
         \/ \E h \in Fibers :
                    /\ m_owner' = h /\ h # f /\ InM(h) /\ scheduled[h] = 0
                    /\ scheduled' = [scheduled EXCEPT ![h] = 1]
                    /\ \A x : Occurs(m_waiters', x) <=> (Occurs(m_waiters, x) /\ x # h)
  BY <1>1, UnlockNoLockEffect
<1>3. \A g \in Fibers : scheduled[g] = 0
  BY <1>1, UnlockNoLockEffect DEF IInv, TypeOK, ScheduledOwns
<1>4. ~InM(f) /\ ~InC(f) /\ ~InNext(f)
  BY <1>1 DEF IInv, PlacesExclusive
<1>5. /\ c_waiters' \in Seq(Fibers)
      /\ Distinct(c_waiters')
      /\ \A x : Occurs(c_waiters', x) <=> (Occurs(c_waiters, x) \/ x = f)
  BY <1>1, <1>4, AppendOccurs DEF IInv, TypeOK, ListsDistinct, InC
<1>6. \A g \in Fibers : (InC(g)' <=> (InC(g) \/ g = f)) /\ (InNext(g)' <=> InNext(g))
  BY <1>1, <1>5 DEF InC, InNext
<1>7. TypeOK' /\ ListsDistinct' /\ SignallersRun'
  <2>0. scheduled \in [Fibers -> Nat]
    BY DEF IInv, TypeOK
  <2>1. scheduled' \in [Fibers -> Nat] /\ m_owner' \in Fibers \cup {None}
    <3>1. CASE m_owner' = None /\ scheduled' = scheduled
      BY <2>0, <3>1
    <3>2. ASSUME NEW h \in Fibers, m_owner' = h, scheduled' = [scheduled EXCEPT ![h] = 1]
          PROVE  scheduled' \in [Fibers -> Nat] /\ m_owner' \in Fibers \cup {None}
      BY <2>0, <3>2
    <3> QED BY <1>2, <3>1, <3>2
  <2>2. TypeOK'
    BY <1>1, <1>2, <1>5, <2>1 DEF IInv, TypeOK
  <2>3. ListsDistinct'
    BY <1>1, <1>2, <1>5 DEF IInv, ListsDistinct
  <2>4. SignallersRun'
    BY <1>1 DEF IInv, TypeOK, SignallersRun, Running
  <2> QED BY <2>2, <2>3, <2>4
<1>8. CASE m_owner' = None /\ m_waiters' = <<>> /\ scheduled' = scheduled
            /\ \A x : ~Occurs(m_waiters, x) /\ ~Occurs(m_waiters', x)
  <2>1. \A g \in Fibers : ~InM(g)' /\ ~InM(g)
    BY <1>8 DEF InM
  <2>2. PlacesExclusive'
    BY <1>4, <1>6, <1>8, <2>1, NoneAssumption DEF IInv, PlacesExclusive
  <2>3. BlockedSomewhere' /\ ScheduledOwns'
    BY <1>1, <1>3, <1>6, <1>8, <2>1
    DEF IInv, TypeOK, BlockedSomewhere, ScheduledOwns
  <2> QED BY <1>7, <1>8, <2>2, <2>3 DEF IInv, NoIdleWaiters
<1>9. CASE \E h \in Fibers :
                    /\ m_owner' = h /\ h # f /\ InM(h) /\ scheduled[h] = 0
                    /\ scheduled' = [scheduled EXCEPT ![h] = 1]
                    /\ \A x : Occurs(m_waiters', x) <=> (Occurs(m_waiters, x) /\ x # h)
  <2>1. PICK h \in Fibers :
                    /\ m_owner' = h /\ h # f /\ InM(h) /\ scheduled[h] = 0
                    /\ scheduled' = [scheduled EXCEPT ![h] = 1]
                    /\ \A x : Occurs(m_waiters', x) <=> (Occurs(m_waiters, x) /\ x # h)
    BY <1>9
  <2>2. \A g \in Fibers : InM(g)' <=> (InM(g) /\ g # h)
    BY <2>1 DEF InM
  <2>3. PlacesExclusive'
    BY <1>4, <1>6, <2>1, <2>2 DEF IInv, PlacesExclusive
  <2>4. BlockedSomewhere' /\ ScheduledOwns'
    BY <1>1, <1>3, <1>6, <2>1, <2>2
    DEF IInv, TypeOK, BlockedSomewhere, ScheduledOwns
  <2> QED BY <1>7, <2>1, <2>3, <2>4, NoneAssumption DEF IInv, NoIdleWaiters
<1> QED BY <1>2, <1>8, <1>9

\* First half of signal(): the oldest waiter moves into the local variable.
LEMMA SignalPopIInv ==
    ASSUME IInv, NEW f \in Fibers, SignalPop(f)
    PROVE  IInv'
<1> DEFINE h == Head(c_waiters)
<1>1. /\ h \in Fibers
      /\ c_waiters' \in Seq(Fibers)
      /\ Distinct(c_waiters')
      /\ Occurs(c_waiters, h)
      /\ \A x : Occurs(c_waiters', x) <=> (Occurs(c_waiters, x) /\ x # h)
  BY TailOccurs DEF SignalPop, IInv, TypeOK, ListsDistinct
<1>2. /\ next[f] = None /\ call[f] = "none" /\ state[f] = "EXEC"
      /\ next' = [next EXCEPT ![f] = h]
      /\ UNCHANGED <<m_owner, m_waiters, call, state, scheduled>>
  BY DEF SignalPop, MaySignal, Running
<1> HIDE DEF h
<1>3. InC(h) /\ ~InM(h) /\ ~InNext(h) /\ m_owner # h
  BY <1>1 DEF IInv, PlacesExclusive, InC
<1>4. next' \in [Fibers -> Fibers \cup {None}]
  BY <1>1, <1>2 DEF IInv, TypeOK
<1>5. \A g \in Fibers : next'[g] = IF g = f THEN h ELSE next[g]
  BY <1>2 DEF IInv, TypeOK
<1>6. \A g \in Fibers : /\ InM(g)' <=> InM(g)
                        /\ InC(g)' <=> (InC(g) /\ g # h)
                        /\ InNext(g)' <=> (InNext(g) \/ g = h)
  <2>1. \A g \in Fibers : (InM(g)' <=> InM(g)) /\ (InC(g)' <=> (InC(g) /\ g # h))
    BY <1>1, <1>2 DEF InM, InC
  <2>2. \A g \in Fibers : InNext(g)' <=> (InNext(g) \/ g = h)
    BY <1>2, <1>5, NoneAssumption DEF InNext
  <2> QED BY <2>1, <2>2
<1>7. TypeOK'
  BY <1>1, <1>2, <1>4 DEF IInv, TypeOK
<1>8. ListsDistinct'
  BY <1>1, <1>2, <1>3, <1>5 DEF IInv, ListsDistinct, InNext
<1>9. PlacesExclusive' /\ BlockedSomewhere'
  BY <1>2, <1>3, <1>6 DEF IInv, PlacesExclusive, BlockedSomewhere
<1>10. SignallersRun' /\ ScheduledOwns' /\ NoIdleWaiters'
  BY <1>2, <1>5 DEF IInv, SignallersRun, ScheduledOwns, NoIdleWaiters
<1> QED BY <1>7, <1>8, <1>9, <1>10 DEF IInv

\* Second half of signal(): the released fiber gets the mutex or queues for it.
LEMMA SignalGiveIInv ==
    ASSUME IInv, NEW f \in Fibers, SignalGive(f)
    PROVE  IInv'
<1> DEFINE h == next[f]
<1>1. /\ h \in Fibers
      /\ next' = [next EXCEPT ![f] = None]
      /\ UNCHANGED <<c_waiters, call, state>>
  BY DEF SignalGive, IInv, TypeOK
<1>2. InNext(h) /\ ~InC(h) /\ ~InM(h) /\ m_owner # h
  BY <1>1 DEF IInv, PlacesExclusive, InNext
<1>3. call[h] # "none" /\ scheduled[h] = 0
  BY <1>1, <1>2 DEF IInv, TypeOK, BlockedSomewhere, ScheduledOwns
<1>4. \A g \in Fibers : next'[g] = IF g = f THEN None ELSE next[g]
  BY <1>1 DEF IInv, TypeOK
<1>5. \A g \in Fibers : (InC(g)' <=> InC(g)) /\ (InNext(g)' <=> (InNext(g) /\ g # h))
  <2>1. \A g \in Fibers : InC(g)' <=> InC(g)
    BY <1>1 DEF InC
  <2>2. \A g \in Fibers : InNext(g)' <=> (InNext(g) /\ g # h)
    BY <1>1, <1>4, NoneAssumption DEF InNext, IInv, ListsDistinct
  <2> QED BY <2>1, <2>2
<1>6. /\ next' \in [Fibers -> Fibers \cup {None}]
      /\ \A g, k \in Fibers : (next'[g] # None /\ next'[g] = next'[k]) => g = k
      /\ SignallersRun'
  BY <1>1, <1>4 DEF IInv, TypeOK, ListsDistinct, SignallersRun
<1>7. CASE m_owner = None
  <2>1. m_owner' = h /\ scheduled' = [scheduled EXCEPT ![h] = @ + 1] /\ m_waiters' = m_waiters
    BY <1>7 DEF SignalGive, GrantTo
  <2> HIDE DEF h
  <2>2. \A g \in Fibers : scheduled'[g] = IF g = h THEN 1 ELSE 0
    <3>1. ASSUME NEW g \in Fibers PROVE scheduled[g] = 0
      <4>1. scheduled[g] \in Nat
        BY DEF IInv, TypeOK
      <4>2. ~(scheduled[g] > 0)
        BY <1>7, NoneAssumption DEF IInv, ScheduledOwns
      <4> QED BY <4>1, <4>2
    <3>2. scheduled \in [Fibers -> Nat] /\ h \in Fibers
      BY <1>1 DEF IInv, TypeOK
    <3> QED BY <2>1, <3>1, <3>2
  <2>3. \A g \in Fibers : InM(g)' <=> InM(g)
    BY <2>1 DEF InM
  <2>4. TypeOK' /\ ListsDistinct'
    BY <1>1, <1>6, <2>1 DEF IInv, TypeOK, ListsDistinct
  <2>5. PlacesExclusive'
    BY <1>2, <1>5, <2>1, <2>3 DEF IInv, PlacesExclusive
  <2>6. BlockedSomewhere'
    <3>1. \A g \in Fibers : ~(scheduled[g] > 0)
      BY <1>7, NoneAssumption DEF IInv, ScheduledOwns
    <3> QED BY <1>1, <1>2, <1>3, <1>5, <2>2, <2>3, <3>1 DEF IInv, BlockedSomewhere
  <2>7. ScheduledOwns'
    BY <1>1, <1>3, <2>1, <2>2 DEF ScheduledOwns
  <2>8. NoIdleWaiters'
    BY <1>1, <2>1, NoneAssumption DEF NoIdleWaiters
  <2> QED BY <1>6, <2>4, <2>5, <2>6, <2>7, <2>8 DEF IInv
<1>8. CASE m_owner # None
  <2>1. m_waiters' = Append(m_waiters, h) /\ UNCHANGED <<m_owner, scheduled>>
    BY <1>8 DEF SignalGive
  <2> HIDE DEF h
  <2>2. /\ m_waiters' \in Seq(Fibers)
        /\ Distinct(m_waiters')
        /\ \A x : Occurs(m_waiters', x) <=> (Occurs(m_waiters, x) \/ x = h)
    BY <1>1, <1>2, <2>1, AppendOccurs DEF IInv, TypeOK, ListsDistinct, InM
  <2>3. \A g \in Fibers : InM(g)' <=> (InM(g) \/ g = h)
    BY <2>2 DEF InM
  <2>4. TypeOK' /\ ListsDistinct'
    BY <1>1, <1>6, <2>1, <2>2 DEF IInv, TypeOK, ListsDistinct
  <2>5. PlacesExclusive'
    BY <1>2, <1>5, <2>1, <2>3 DEF IInv, PlacesExclusive
  <2>6. BlockedSomewhere'
    BY <1>1, <1>2, <1>3, <1>5, <2>1, <2>3 DEF IInv, BlockedSomewhere
  <2>7. ScheduledOwns' /\ NoIdleWaiters'
    BY <1>1, <1>8, <2>1 DEF IInv, ScheduledOwns, NoIdleWaiters
  <2> QED BY <1>6, <2>4, <2>5, <2>6, <2>7 DEF IInv
<1> QED BY <1>7, <1>8

\* broadcast(): the whole list moves over, the first one as owner of a free mutex.
LEMMA BroadcastIInv ==
    ASSUME IInv, NEW f \in Fibers, Broadcast(f)
    PROVE  IInv'
<1>1. /\ c_waiters # <<>> /\ c_waiters' = <<>>
      /\ UNCHANGED <<next, call, state>>
      /\ TypeOK /\ Distinct(m_waiters) /\ Distinct(c_waiters)
  BY DEF Broadcast, IInv, ListsDistinct
<1>2. \A x : Occurs(c_waiters, x) => x \in Fibers
  BY <1>1 DEF TypeOK, Occurs
<1>3. \A g \in Fibers : (InNext(g)' <=> InNext(g)) /\ ~InC(g)'
  BY <1>1, EmptyOccurs DEF InC, InNext
<1>4. Distinct(c_waiters') /\ SignallersRun'
  BY <1>1, EmptyOccurs DEF IInv, SignallersRun
<1>5. \A x : ~(Occurs(m_waiters, x) /\ Occurs(c_waiters, x))
  BY <1>2 DEF IInv, PlacesExclusive, InM, InC
<1>6. CASE m_owner = None
  <2> DEFINE h == Head(c_waiters)
             t == Tail(c_waiters)
  <2>1. /\ h \in Fibers /\ t \in Seq(Fibers) /\ Distinct(t) /\ Occurs(c_waiters, h)
        /\ \A x : Occurs(t, x) <=> (Occurs(c_waiters, x) /\ x # h)
    BY <1>1, TailOccurs DEF TypeOK
  <2>2. m_owner' = h /\ scheduled' = [scheduled EXCEPT ![h] = @ + 1] /\ m_waiters' = m_waiters \o t
    BY <1>6 DEF Broadcast, GrantTo
  <2> HIDE DEF h, t
  <2>3. /\ m_waiters' \in Seq(Fibers) /\ Distinct(m_waiters')
        /\ \A x : Occurs(m_waiters', x)
                    <=> (Occurs(m_waiters, x) \/ (Occurs(c_waiters, x) /\ x # h))
    BY <1>1, <1>5, <2>1, <2>2, ConcatOccurs DEF TypeOK
  <2>4. \A g \in Fibers : InM(g)' <=> (InM(g) \/ (InC(g) /\ g # h))
    BY <2>3 DEF InM, InC
  <2>5. \A g \in Fibers : scheduled[g] = 0
    <3>1. \A g \in Fibers : scheduled[g] \in Nat /\ m_owner # g
      BY <1>1, <1>6, NoneAssumption DEF TypeOK
    <3> QED BY <3>1 DEF IInv, ScheduledOwns
  <2>6. scheduled' \in [Fibers -> Nat] /\ \A g \in Fibers : scheduled'[g] = IF g = h THEN 1 ELSE 0
    BY <1>1, <2>1, <2>2, <2>5 DEF TypeOK
  <2>7. InC(h) /\ ~InM(h) /\ ~InNext(h) /\ call[h] # "none"
    BY <2>1 DEF IInv, PlacesExclusive, BlockedSomewhere, InC
  <2>8. TypeOK' /\ ListsDistinct'
    BY <1>1, <1>4, <2>1, <2>2, <2>3, <2>6 DEF IInv, TypeOK, ListsDistinct
  <2>9. PlacesExclusive'
    BY <1>3, <2>1, <2>2, <2>4, <2>7 DEF IInv, PlacesExclusive
  <2>10. BlockedSomewhere'
    <3>1. \A g \in Fibers : call[g] # "none" <=> InM(g) \/ InC(g) \/ InNext(g)
      BY <2>5 DEF IInv, BlockedSomewhere
    <3> QED BY <1>1, <1>3, <2>1, <2>4, <2>6, <2>7, <3>1 DEF BlockedSomewhere
  <2>11. ScheduledOwns' /\ NoIdleWaiters'
    BY <1>1, <2>1, <2>2, <2>6, <2>7, NoneAssumption DEF ScheduledOwns, NoIdleWaiters
  <2> QED BY <1>4, <2>8, <2>9, <2>10, <2>11 DEF IInv
<1>7. CASE m_owner # None
  <2>1. m_waiters' = m_waiters \o c_waiters /\ UNCHANGED <<m_owner, scheduled>>
    BY <1>7 DEF Broadcast
  <2>2. /\ m_waiters' \in Seq(Fibers) /\ Distinct(m_waiters')
        /\ \A x : Occurs(m_waiters', x) <=> (Occurs(m_waiters, x) \/ Occurs(c_waiters, x))
    BY <1>1, <1>5, <2>1, ConcatOccurs DEF TypeOK
  <2>3. \A g \in Fibers : InM(g)' <=> (InM(g) \/ InC(g))
    BY <2>2 DEF InM, InC
  <2>4. TypeOK' /\ ListsDistinct'
    BY <1>1, <1>4, <2>1, <2>2 DEF IInv, TypeOK, ListsDistinct
  <2>5. PlacesExclusive'
    BY <1>3, <2>1, <2>3 DEF IInv, PlacesExclusive
  <2>6. BlockedSomewhere'
    BY <1>1, <1>3, <2>1, <2>3 DEF IInv, BlockedSomewhere
  <2>7. ScheduledOwns' /\ NoIdleWaiters'
    BY <1>1, <1>7, <2>1 DEF IInv, ScheduledOwns, NoIdleWaiters
  <2> QED BY <1>4, <2>4, <2>5, <2>6, <2>7 DEF IInv
<1> QED BY <1>6, <1>7

\* The switch at the end of lock() and wait().
LEMMA YieldToIInv ==
    ASSUME IInv, NEW f \in Fibers, YieldTo(f)
    PROVE  IInv'
<1>1. \A g \in Fibers : /\ InM(g)' <=> InM(g)
                        /\ InC(g)' <=> InC(g)
                        /\ InNext(g)' <=> InNext(g)
  BY DEF YieldTo, InM, InC, InNext
<1>2. TypeOK' /\ ListsDistinct' /\ SignallersRun'
  BY DEF YieldTo, IInv, TypeOK, ListsDistinct, SignallersRun
<1>3. PlacesExclusive' /\ BlockedSomewhere'
  BY <1>1 DEF YieldTo, IInv, PlacesExclusive, BlockedSomewhere
<1>4. ScheduledOwns' /\ NoIdleWaiters'
  BY DEF YieldTo, IInv, ScheduledOwns, NoIdleWaiters
<1> QED BY <1>2, <1>3, <1>4 DEF IInv

\* A scheduler resumes a fiber: lock() or wait() returns.
LEMMA ResumeIInv ==
    ASSUME IInv, NEW f \in Fibers, Resume(f)
    PROVE  IInv'
<1>1. \A g \in Fibers : /\ InM(g)' <=> InM(g)
                        /\ InC(g)' <=> InC(g)
                        /\ InNext(g)' <=> InNext(g)
  BY DEF Resume, InM, InC, InNext
<1>2. scheduled[f] = 1 /\ m_owner = f /\ ~InM(f) /\ ~InC(f) /\ ~InNext(f)
  BY DEF Resume, IInv, ScheduledOwns, PlacesExclusive
<1>3. TypeOK' /\ ListsDistinct'
  BY <1>2 DEF Resume, IInv, TypeOK, ListsDistinct
<1>4. SignallersRun'
  BY DEF Resume, IInv, TypeOK, SignallersRun
<1>5. PlacesExclusive'
  BY <1>1 DEF Resume, IInv, PlacesExclusive
<1>6. BlockedSomewhere'
  BY <1>1, <1>2 DEF Resume, IInv, TypeOK, BlockedSomewhere
<1>7. ScheduledOwns' /\ NoIdleWaiters'
  BY <1>2 DEF Resume, IInv, TypeOK, ScheduledOwns, NoIdleWaiters
<1> QED BY <1>3, <1>4, <1>5, <1>6, <1>7 DEF IInv

\* One step of any fiber preserves the invariant.
LEMMA NextIInv == IInv /\ [Next]_vars => IInv'
<1> SUFFICES ASSUME IInv, [Next]_vars PROVE IInv'
  OBVIOUS
<1>1. CASE UNCHANGED vars
  BY <1>1 DEF vars, IInv, TypeOK, ListsDistinct, PlacesExclusive, BlockedSomewhere,
              SignallersRun, ScheduledOwns, NoIdleWaiters, InM, InC, InNext
<1>2. ASSUME NEW f \in Fibers, Step(f) PROVE IInv'
  BY <1>2, LockFreeIInv, LockEnqueueIInv, UnlockIInv, WaitIInv, SignalPopIInv,
     SignalGiveIInv, BroadcastIInv, YieldToIInv, ResumeIInv
  DEF Step
<1> QED BY <1>1, <1>2 DEF Next

\* The inductive invariant holds in every reachable state of the mutex and its
\* condition, whatever the number of fibers.
THEOREM Invariance == Spec => []IInv
  BY InitIInv, NextIInv, PTL DEF Spec

-----------------------------------------------------------------------------
(* The safety properties, from the inductive invariant.                    *)

\* How often an element stands in a list without repetitions: once or never.
LEMMA DistinctCount ==
    ASSUME NEW S, NEW s \in Seq(S), Distinct(s), NEW x
    PROVE  Cardinality({i \in 1..Len(s) : s[i] = x}) = IF Occurs(s, x) THEN 1 ELSE 0
<1>1. CASE Occurs(s, x)
  <2>1. PICK k \in 1..Len(s) : s[k] = x
    BY <1>1 DEF Occurs
  <2>2. {i \in 1..Len(s) : s[i] = x} = {k}
    BY <2>1 DEF Distinct
  <2> QED BY <1>1, <2>2, FS_Singleton
<1>2. CASE ~Occurs(s, x)
  <2>1. {i \in 1..Len(s) : s[i] = x} = {}
    BY <1>2 DEF Occurs
  <2> QED BY <1>2, <2>1, FS_EmptySet
<1> QED BY <1>1, <1>2

\* The inductive invariant puts every blocked fiber in exactly one place.
LEMMA IInvOnePlace == IInv => ExactlyOnePlace
<1> SUFFICES ASSUME IInv, NEW f \in Fibers
             PROVE  Places(f) = IF call[f] = "none" THEN 0 ELSE 1
  BY DEF ExactlyOnePlace
<1> DEFINE cm == Cardinality({i \in 1..Len(m_waiters) : m_waiters[i] = f})
           cc == Cardinality({i \in 1..Len(c_waiters) : c_waiters[i] = f})
           cn == Cardinality({g \in Fibers : next[g] = f})
<1>1. cm = (IF InM(f) THEN 1 ELSE 0) /\ cc = (IF InC(f) THEN 1 ELSE 0)
  BY DistinctCount DEF IInv, TypeOK, ListsDistinct, InM, InC
<1>2. cn = IF InNext(f) THEN 1 ELSE 0
  <2>1. CASE InNext(f)
    <3>1. PICK g \in Fibers : next[g] = f
      BY <2>1 DEF InNext
    <3>2. {k \in Fibers : next[k] = f} = {g}
      BY <3>1, NoneAssumption DEF IInv, ListsDistinct
    <3> QED BY <2>1, <3>2, FS_Singleton
  <2>2. CASE ~InNext(f)
    <3>1. {k \in Fibers : next[k] = f} = {}
      BY <2>2 DEF InNext
    <3> QED BY <2>2, <3>1, FS_EmptySet
  <2> QED BY <2>1, <2>2
<1>3. Places(f) = cm + cc + cn + scheduled[f]
  BY DEF Places
<1> HIDE DEF cm, cc, cn
<1>4. scheduled[f] \in Nat /\ (scheduled[f] > 0 => scheduled[f] = 1 /\ m_owner = f)
  BY DEF IInv, TypeOK, ScheduledOwns
<1>5. /\ InM(f) => ~InC(f) /\ ~InNext(f) /\ m_owner # f
      /\ InC(f) => ~InNext(f) /\ m_owner # f
      /\ InNext(f) => m_owner # f
      /\ call[f] # "none" <=> InM(f) \/ InC(f) \/ InNext(f) \/ scheduled[f] > 0
  BY DEF IInv, PlacesExclusive, BlockedSomewhere
<1>6. CASE call[f] = "none"
  BY <1>1, <1>2, <1>3, <1>4, <1>5, <1>6
<1>7. CASE call[f] # "none"
  <2>1. CASE scheduled[f] > 0
    BY <1>1, <1>2, <1>3, <1>4, <1>5, <1>7, <2>1
  <2>2. CASE ~(scheduled[f] > 0)
    BY <1>1, <1>2, <1>3, <1>4, <1>5, <1>7, <2>2
  <2> QED BY <2>1, <2>2
<1> QED BY <1>6, <1>7

\* No fiber is lost or doubled: whoever is inside lock() or wait() is in exactly
\* one of the four places, in every reachable state and for any set of fibers.
THEOREM NoFiberLost == Spec => []ExactlyOnePlace
  BY Invariance, IInvOnePlace, PTL

\* A free FiberMutex has no waiters, and only its owner is ever scheduled.
THEOREM HandOverComplete == Spec => [](NoIdleWaiters /\ ScheduledOwns)
<1>1. IInv => NoIdleWaiters /\ ScheduledOwns
  BY DEF IInv
<1> QED BY Invariance, <1>1, PTL

\* The post-condition of lock() and wait(): the call returns to the owner.
THEOREM PostCondition == Spec => ReturnsAsOwner
<1>1. ASSUME IInv, [Next]_vars
      PROVE  [\A f \in Fibers : (call[f] # "none" /\ call'[f] = "none") => m_owner = f]_vars
  <2>1. SUFFICES ASSUME NEW g \in Fibers, Step(g), NEW f \in Fibers,
                        call[f] # "none", call'[f] = "none"
                 PROVE  m_owner = f
    BY <1>1 DEF Next
  <2>2. Resume(g)
    BY <1>1, <2>1 DEF Step, LockFree, LockEnqueue, Unlock, UnlockIfNotUnique, Wait,
       SignalPop, SignalGive, Broadcast, YieldTo, IInv, TypeOK
  <2>3. g = f
    BY <1>1, <2>1, <2>2 DEF Resume, IInv, TypeOK
  <2> QED BY <1>1, <2>2, <2>3 DEF Resume, IInv, ScheduledOwns
<1> QED BY <1>1, Invariance, PTL DEF Spec, ReturnsAsOwner

\* Whoever becomes owner while fibers are queued is the oldest of them.
THEOREM FifoHandOver == Spec => NoBarging
<1>1. ASSUME IInv, [Next]_vars
      PROVE  [(m_owner' \notin {None, m_owner} /\ m_waiters # <<>>)
                 => m_owner' = Head(m_waiters)]_vars
  <2>1. SUFFICES ASSUME NEW g \in Fibers, Step(g), m_owner' \notin {None, m_owner},
                        m_waiters # <<>>
                 PROVE  m_owner' = Head(m_waiters)
    BY <1>1 DEF Next
  <2>2. m_owner # None
    BY <1>1, <2>1 DEF IInv, NoIdleWaiters
  <2> QED BY <2>1, <2>2 DEF Step, LockFree, LockEnqueue, Unlock, UnlockIfNotUnique,
       Wait, SignalPop, SignalGive, Broadcast, YieldTo, Resume, unlockNoLock, GrantTo
<1> QED BY <1>1, Invariance, PTL DEF Spec, NoBarging

-----------------------------------------------------------------------------
(* FiberMutex implements Monitor.                                          *)

\* unlockNoLock is the monitor's hand-over.
LEMMA UnlockIsHandOver ==
    ASSUME unlockNoLock
    PROVE  Mon!HandOver
  BY DEF unlockNoLock, GrantTo, Mon!HandOver

\* Every step of the fibers is a step of the monitor, or changes nothing of it.
LEMMA StepImplementsMonitor ==
    ASSUME IInv, NEW f \in Fibers, Step(f)
    PROVE  Mon!Next \/ UNCHANGED Mon!mvars
<1> USE DEF Blocked
<1>1. TypeOK
  BY DEF IInv
<1>2. CASE LockFree(f)
  <2>1. Mon!Enter(f)
    BY <1>2 DEF LockFree, Running, Mon!Enter, Asleep, InC, InNext, IInv, NoIdleWaiters
  <2> QED BY <2>1 DEF Mon!Next
<1>3. CASE LockEnqueue(f)
  <2>1. Blocked' = Blocked \cup {f}
    BY <1>1, <1>3 DEF LockEnqueue, TypeOK
  <2>2. Mon!Queue(f)
    BY <1>3, <2>1 DEF LockEnqueue, Running, Mon!Queue, Asleep, InC, InNext
  <2> QED BY <2>2 DEF Mon!Next
<1>4. CASE Unlock(f) \/ UnlockIfNotUnique(f)
  <2>1. Mon!Leave(f)
    BY <1>4, UnlockIsHandOver
    DEF Unlock, UnlockIfNotUnique, Running, Mon!Leave, Asleep, InC, InNext
  <2> QED BY <2>1 DEF Mon!Next
<1>5. CASE Wait(f)
  <2>1. Blocked' = Blocked \cup {f}
    BY <1>1, <1>5 DEF Wait, TypeOK
  <2>2. \A x : Occurs(c_waiters', x) <=> (Occurs(c_waiters, x) \/ x = f)
    BY <1>1, <1>5, AppendOccurs DEF Wait, TypeOK
  <2>3. Asleep' = Asleep \cup {f}
    BY <1>5, <2>2 DEF Wait, Asleep, InC, InNext
  <2>4. Mon!Sleep(f)
    BY <1>5, <2>1, <2>3, UnlockIsHandOver DEF Wait, Running, Mon!Sleep
  <2> QED BY <2>4 DEF Mon!Next
<1>6. CASE SignalPop(f)
  <2>1. /\ Head(c_waiters) \in Fibers
        /\ Occurs(c_waiters, Head(c_waiters))
        /\ \A x : Occurs(c_waiters', x) <=> (Occurs(c_waiters, x) /\ x # Head(c_waiters))
    BY <1>1, <1>6, TailOccurs DEF SignalPop, TypeOK, IInv, ListsDistinct
  <2>2. \A g \in Fibers : InNext(g)' <=> (InNext(g) \/ g = Head(c_waiters))
    BY <1>1, <1>6, <2>1, NoneAssumption
    DEF SignalPop, MaySignal, Running, TypeOK, InNext
  <2>3. Asleep' = Asleep
    BY <2>1, <2>2 DEF Asleep, InC
  <2> QED BY <1>6, <2>3 DEF SignalPop, Mon!mvars
<1>7. CASE SignalGive(f)
  <2> DEFINE h == next[f]
  <2>1. h \in Fibers /\ InNext(h) /\ ~InC(h)
    BY <1>1, <1>7 DEF SignalGive, TypeOK, IInv, PlacesExclusive, InNext
  <2>2. \A g \in Fibers : InNext(g)' <=> (InNext(g) /\ g # h)
    BY <1>1, <1>7, NoneAssumption DEF SignalGive, TypeOK, InNext, IInv, ListsDistinct
  <2>3. Asleep' = Asleep \ {h} /\ h \in Asleep
    BY <1>7, <2>1, <2>2 DEF Asleep, InC, SignalGive
  <2>4. Blocked' = Blocked
    BY <1>7 DEF SignalGive
  <2>5. CASE m_owner = None
    <3>1. m_owner' = h /\ m_waiters' = m_waiters /\ Len(m_waiters) \in Nat
      BY <1>1, <1>7, <2>5 DEF SignalGive, GrantTo, TypeOK
    <3> QED BY <2>3, <2>4, <2>5, <3>1 DEF Mon!Wake, Mon!Next
  <2>6. CASE m_owner # None
    <3>1. m_owner' = m_owner /\ m_waiters' = Append(m_waiters, h)
      BY <1>7, <2>6 DEF SignalGive
    <3>2. /\ Len(m_waiters') = Len(m_waiters) + 1 /\ Len(m_waiters) \in Nat
          /\ \A i \in 1..Len(m_waiters) : m_waiters'[i] = m_waiters[i]
          /\ m_waiters'[Len(m_waiters) + 1] = h
      BY <1>1, <2>1, <3>1 DEF TypeOK
    <3>3. Asleep \ Asleep' = {h} /\ Len(m_waiters) + 1 .. Len(m_waiters') = {Len(m_waiters) + 1}
      BY <2>3, <3>2
    <3> HIDE DEF h
    <3>4. Mon!Wake
      BY <2>3, <2>4, <2>6, <3>1, <3>2, <3>3 DEF Mon!Wake
    <3> QED BY <3>4 DEF Mon!Next
  <2> QED BY <2>5, <2>6
<1>8. CASE Broadcast(f)
  <2>1. /\ c_waiters # <<>> /\ c_waiters' = <<>> /\ UNCHANGED <<next, call>>
        /\ Blocked' = Blocked
    BY <1>8 DEF Broadcast
  <2>2. \A g \in Fibers : (InNext(g)' <=> InNext(g)) /\ ~InC(g)'
    BY <2>1, EmptyOccurs DEF InC, InNext
  <2>3. Asleep \ Asleep' = {g \in Fibers : InC(g)} /\ Asleep' \subseteq Asleep
    BY <2>2 DEF Asleep, IInv, PlacesExclusive
  <2>4. \A p : p \in Asleep \ Asleep' <=> Occurs(c_waiters, p)
    BY <1>1, <2>3 DEF InC, Occurs, TypeOK
  <2> DEFINE n == Len(m_waiters)
             k == Len(c_waiters)
  <2>5. n \in Nat /\ k \in Nat \ {0} /\ Distinct(c_waiters) /\ Head(c_waiters) = c_waiters[1]
    BY <1>1, <2>1 DEF TypeOK, IInv, ListsDistinct
  <2>6. \A i \in 1..k : c_waiters[i] \in Asleep \ Asleep'
    BY <2>4 DEF Occurs
  <2>7. Asleep \ Asleep' # {}
    BY <2>5, <2>6
  <2>8. CASE m_owner = None
    <3>1. m_owner' = Head(c_waiters) /\ m_waiters' = m_waiters \o Tail(c_waiters)
      BY <1>8, <2>8 DEF Broadcast, GrantTo
    <3>2. /\ Len(m_waiters') = n + k - 1
          /\ \A i \in 1..n : m_waiters'[i] = m_waiters[i]
          /\ \A i \in n + 1 .. n + k - 1 : m_waiters'[i] = c_waiters[i - n + 1]
      BY <1>1, <2>1, <2>5, <3>1 DEF TypeOK
    <3>3. \A i \in n + 1 .. Len(m_waiters') : /\ i - n + 1 \in 2..k
                                              /\ m_waiters'[i] = c_waiters[i - n + 1]
      BY <2>5, <3>2
    <3>4. \A i \in n + 1 .. Len(m_waiters') : /\ m_waiters'[i] \in Asleep \ Asleep'
                                              /\ m_waiters'[i] # m_owner'
      BY <2>5, <2>6, <3>1, <3>3 DEF Distinct
    <3>5. ASSUME NEW i \in n + 1 .. Len(m_waiters'), NEW j \in n + 1 .. Len(m_waiters'),
                 m_waiters'[i] = m_waiters'[j]
          PROVE  i = j
      <4>1. /\ i - n + 1 \in 1..k /\ j - n + 1 \in 1..k
            /\ c_waiters[i - n + 1] = c_waiters[j - n + 1]
        BY <2>5, <3>3, <3>5
      <4>2. i - n + 1 = j - n + 1
        BY <2>5, <4>1 DEF Distinct
      <4> QED BY <2>5, <3>2, <4>2
    <3>6. ASSUME NEW p \in Asleep \ Asleep', p # m_owner'
          PROVE  \E i \in n + 1 .. Len(m_waiters') : m_waiters'[i] = p
      <4>1. PICK j \in 1..k : c_waiters[j] = p
        BY <2>4, <3>6 DEF Occurs
      <4>2. j # 1 /\ n + j - 1 \in n + 1 .. Len(m_waiters')
        BY <2>5, <3>1, <3>2, <3>6, <4>1
      <4>3. m_waiters'[n + j - 1] = p
        BY <2>5, <3>2, <4>1, <4>2
      <4> QED BY <4>2, <4>3
    <3>7. m_owner' \in Asleep \ Asleep' /\ Len(m_waiters') >= n
      BY <2>5, <2>6, <3>1, <3>2
    <3>8. Mon!Wake
      BY <2>1, <2>3, <2>7, <2>8, <3>2, <3>4, <3>5, <3>6, <3>7 DEF Mon!Wake
    <3> QED BY <3>8 DEF Mon!Next
  <2>9. CASE m_owner # None
    <3>1. m_owner' = m_owner /\ m_waiters' = m_waiters \o c_waiters
      BY <1>8, <2>9 DEF Broadcast
    <3>2. /\ Len(m_waiters') = n + k
          /\ \A i \in 1..n : m_waiters'[i] = m_waiters[i]
          /\ \A i \in n + 1 .. n + k : m_waiters'[i] = c_waiters[i - n]
      BY <1>1, <2>1, <2>5, <3>1 DEF TypeOK
    <3>3. \A i \in n + 1 .. Len(m_waiters') : /\ i - n \in 1..k
                                              /\ m_waiters'[i] = c_waiters[i - n]
      BY <2>5, <3>2
    <3>4. \A i \in n + 1 .. Len(m_waiters') : m_waiters'[i] \in Asleep \ Asleep'
      BY <2>6, <3>3
    <3>5. \A i, j \in n + 1 .. Len(m_waiters') : m_waiters'[i] = m_waiters'[j] => i = j
      BY <2>5, <3>3 DEF Distinct
    <3>6. ASSUME NEW p \in Asleep \ Asleep'
          PROVE  \E i \in n + 1 .. Len(m_waiters') : m_waiters'[i] = p
      <4>1. PICK j \in 1..k : c_waiters[j] = p
        BY <2>4 DEF Occurs
      <4>2. n + j \in n + 1 .. Len(m_waiters') /\ m_waiters'[n + j] = p
        BY <2>5, <3>2, <4>1
      <4> QED BY <4>2
    <3>7. Mon!Wake
      <4>1. Len(m_waiters') >= n
        BY <2>5, <3>2
      <4> QED BY <2>1, <2>3, <2>7, <2>9, <3>1, <3>2, <3>4, <3>5, <3>6, <4>1 DEF Mon!Wake
    <3> QED BY <3>7 DEF Mon!Next
  <2> QED BY <2>8, <2>9
<1>9. CASE YieldTo(f)
  BY <1>9 DEF YieldTo, Mon!mvars, Asleep, InC, InNext
<1>10. CASE Resume(f)
  <2>1. Blocked' = Blocked \ {f} /\ f \in Blocked /\ m_owner = f
    BY <1>1, <1>10 DEF Resume, TypeOK, IInv, ScheduledOwns
  <2>2. Mon!Return(f)
    BY <1>10, <2>1 DEF Resume, Mon!Return, Asleep, InC, InNext
  <2> QED BY <2>2 DEF Mon!Next
<1> QED BY <1>2, <1>3, <1>4, <1>5, <1>6, <1>7, <1>8, <1>9, <1>10 DEF Step

\* FiberMutex with FiberCondition implements the abstract monitor.
THEOREM ImplementsMonitor == Spec => MonitorSpec
<1>1. Init => Mon!Init
  BY EmptyOccurs, NoneAssumption DEF Init, Mon!Init, Asleep, Blocked, InC, InNext
<1>2. IInv /\ [Next]_vars => [Mon!Next]_(Mon!mvars)
  <2>1. CASE UNCHANGED vars
    BY <2>1 DEF vars, Mon!mvars, Asleep, Blocked, InC, InNext
  <2> QED BY <2>1, StepImplementsMonitor DEF Next
<1> QED BY <1>1, <1>2, Invariance, PTL DEF Spec, MonitorSpec, Mon!Spec

-----------------------------------------------------------------------------
(* FiberCondition is FIFO as long as no signal() is overtaken.             *)

\* Who is ahead of whom when lists grow at their end.
LEMMA AheadGrows ==
    ASSUME NEW S, NEW s \in Seq(S), NEW t \in Seq(S), NEW g, NEW f
    PROVE  /\ Ahead(s, g, f) => Ahead(s \o t, g, f)
           /\ Ahead(t, g, f) => Ahead(s \o t, g, f)
           /\ Occurs(s, g) /\ Occurs(t, f) => Ahead(s \o t, g, f)
<1>1. s \o t \in Seq(S) /\ Len(s \o t) = Len(s) + Len(t) /\ Len(s) \in Nat /\ Len(t) \in Nat
  OBVIOUS
<1>2. /\ \A i \in 1..Len(s) : i \in 1..Len(s \o t) /\ (s \o t)[i] = s[i]
      /\ \A i \in 1..Len(t) : Len(s) + i \in 1..Len(s \o t) /\ (s \o t)[Len(s) + i] = t[i]
  BY <1>1
<1>3. ASSUME Ahead(s, g, f) PROVE Ahead(s \o t, g, f)
  BY <1>1, <1>2, <1>3 DEF Ahead
<1>4. ASSUME Ahead(t, g, f) PROVE Ahead(s \o t, g, f)
  <2>1. PICK i, j \in 1..Len(t) : i < j /\ t[i] = g /\ t[j] = f
    BY <1>4 DEF Ahead
  <2>2. Len(s) + i < Len(s) + j
    BY <1>1, <2>1
  <2> QED BY <1>2, <2>1, <2>2 DEF Ahead
<1>5. ASSUME Occurs(s, g), Occurs(t, f) PROVE Ahead(s \o t, g, f)
  <2>1. PICK i \in 1..Len(s), j \in 1..Len(t) : s[i] = g /\ t[j] = f
    BY <1>5 DEF Occurs
  <2>2. i < Len(s) + j
    BY <1>1, <2>1
  <2> QED BY <1>2, <2>1, <2>2 DEF Ahead
<1> QED BY <1>3, <1>4, <1>5

\* push_back.
LEMMA AheadAppend ==
    ASSUME NEW S, NEW s \in Seq(S), NEW e \in S, NEW g, NEW f
    PROVE  /\ Ahead(s, g, f) => Ahead(Append(s, e), g, f)
           /\ Occurs(s, g) => Ahead(Append(s, e), g, e)
<1>1. Append(s, e) = s \o <<e>> /\ <<e>> \in Seq(S)
  OBVIOUS
<1>2. Occurs(<<e>>, e)
  BY DEF Occurs
<1> QED BY <1>1, <1>2, AheadGrows

\* pop_front: nobody was ahead of the one that leaves.
LEMMA AheadTail ==
    ASSUME NEW S, NEW s \in Seq(S), s # <<>>, Distinct(s), NEW g, NEW f, Ahead(s, g, f)
    PROVE  /\ f # Head(s)
           /\ g # Head(s) => Ahead(Tail(s), g, f)
           /\ Occurs(Tail(s), f)
<1>1. PICK i, j \in 1..Len(s) : i < j /\ s[i] = g /\ s[j] = f
  BY DEF Ahead
<1>2. /\ Len(s) \in Nat \ {0} /\ Head(s) = s[1] /\ Len(Tail(s)) = Len(s) - 1
      /\ \A k \in 1..Len(Tail(s)) : Tail(s)[k] = s[k + 1]
  OBVIOUS
<1>3. f # Head(s)
  BY <1>1, <1>2 DEF Distinct
<1>4. j - 1 \in 1..Len(Tail(s)) /\ Tail(s)[j - 1] = f
  BY <1>1, <1>2
<1>5. ASSUME g # Head(s) PROVE Ahead(Tail(s), g, f)
  <2>1. i # 1
    BY <1>1, <1>2, <1>5
  <2>2. i - 1 \in 1..Len(Tail(s)) /\ Tail(s)[i - 1] = g /\ i - 1 < j - 1
    BY <1>1, <1>2, <2>1
  <2> QED BY <1>4, <2>2 DEF Ahead
<1> QED BY <1>3, <1>4, <1>5 DEF Occurs

\* A step after which the same fibers are in wait() leaves their order.
LEMMA OrderKept ==
    ASSUME OrderInv, Remember, Waiters' = Waiters
    PROVE  \A f \in Waiters : older'[f] = older[f]
  BY DEF OrderInv, Remember, Waiters

\* What the history variables hold after a step.
LEMMA OrderTypes ==
    ASSUME IInv, OrderInv, Remember
    PROVE  /\ older' \in [Fibers -> SUBSET Fibers] /\ overtaken' \in BOOLEAN
           /\ \A f \in Fibers : older'[f] \subseteq Waiters'
<1>1. Waiters \subseteq Fibers /\ Waiters' \subseteq Fibers
  BY DEF Waiters
<1>2. overtaken' \in BOOLEAN
  BY DEF OrderInv, Remember
<1>3. \A f \in Fibers : older'[f] \subseteq Waiters'
  BY DEF Remember
<1>4. older' \in [Fibers -> SUBSET Fibers]
  BY <1>1 DEF Remember
<1> QED BY <1>2, <1>3, <1>4

\* Signallers that own the mutex own it in their gap, and nobody else signals there.
LEMMA GapStep ==
    ASSUME IInv, OrderInv, NEW p \in Fibers, Step(p), Remember
    PROVE  /\ SignalHoldsMutex => \A f \in Gap' : m_owner' = f
           /\ SignallersInOrder'
<1> SUFFICES ASSUME SignalHoldsMutex
             PROVE  (\A f \in Gap' : m_owner' = f) /\ ~overtaken'
  BY DEF SignallersInOrder
<1>1. (\A f \in Gap : m_owner = f) /\ ~overtaken /\ TypeOK
  BY DEF OrderInv, SignallersInOrder, IInv
<1>2. CASE SignalPop(p)
  <2>1. m_owner = p /\ Gap = {} /\ m_owner' = m_owner
    BY <1>1, <1>2, NoneAssumption DEF SignalPop, MaySignal, Running, Gap
  <2>2. Gap' \subseteq {p}
    BY <1>1, <1>2, <2>1 DEF SignalPop, Gap, TypeOK
  <2> QED BY <1>1, <2>1, <2>2 DEF Remember, Gap
<1>3. CASE SignalGive(p)
  <2>1. m_owner = p /\ Gap' \subseteq Gap \ {p} /\ c_waiters' = c_waiters /\ Len(c_waiters) \in Nat
    BY <1>1, <1>3 DEF SignalGive, Gap, TypeOK
  <2> QED BY <1>1, <2>1 DEF Remember
<1>4. CASE Broadcast(p)
  <2>1. m_owner = p /\ Gap = {} /\ Gap' = Gap
    BY <1>1, <1>4, NoneAssumption DEF Broadcast, MaySignal, Running, Gap
  <2> QED BY <1>1, <2>1 DEF Remember, Gap
<1>5. CASE LockFree(p) \/ LockEnqueue(p) \/ YieldTo(p) \/ Resume(p)
  <2>1. /\ c_waiters' = c_waiters /\ Len(c_waiters) \in Nat /\ Gap' = Gap
        /\ m_owner' = m_owner \/ (m_owner = None /\ m_owner' = p)
    BY <1>1, <1>5 DEF LockFree, LockEnqueue, YieldTo, Resume, Gap, TypeOK
  <2>2. m_owner = None => Gap = {}
    BY <1>1, NoneAssumption DEF Gap
  <2> QED BY <1>1, <2>1, <2>2 DEF Remember
<1>6. CASE Unlock(p) \/ UnlockIfNotUnique(p) \/ Wait(p)
  <2>1. /\ m_owner = p /\ next[p] = None /\ next' = next
        /\ c_waiters' = c_waiters \/ c_waiters' = Append(c_waiters, p)
    BY <1>6 DEF Unlock, UnlockIfNotUnique, Wait, Running
  <2>2. Gap = {} /\ Gap' = {}
    BY <1>1, <2>1 DEF Gap
  <2> QED BY <1>1, <2>2 DEF Remember, Gap
<1> QED BY <1>2, <1>3, <1>4, <1>5, <1>6 DEF Step

\* The order that WaitOrder states, of one fiber and one that is before it.
InOrder(g, f) ==
    /\ scheduled[f] = 0
    /\ InM(f) => scheduled[g] > 0 \/ Ahead(m_waiters, g, f)
    /\ InNext(f) => scheduled[g] > 0 \/ InM(g)
    /\ InC(f) /\ InC(g) => Ahead(c_waiters, g, f)

\* Where a fiber that is before another one in wait() can be, seen from the places of
\* IInv.
LEMMA WaiterPlaces ==
    ASSUME IInv
    PROVE  \A f \in Waiters : /\ f \in Fibers
                              /\ InM(f) \/ InC(f) \/ InNext(f) \/ scheduled[f] > 0
                              /\ scheduled[f] > 0 => m_owner = f /\ ~InM(f) /\ ~InC(f) /\ ~InNext(f)
                              /\ InM(f) => ~InC(f) /\ ~InNext(f) /\ m_owner # None
                              /\ InC(f) => ~InNext(f)
                              /\ InNext(f) => \E q \in Gap : next[q] = f
                              /\ scheduled[f] \in Nat
  BY EmptyOccurs, NoneAssumption
  DEF IInv, TypeOK, Waiters, BlockedSomewhere, ScheduledOwns, PlacesExclusive, NoIdleWaiters,
      InM, InNext, Gap

\* unlockNoLock by a running owner: the head of the list has nobody before it.
LEMMA UnlockInOrder ==
    ASSUME IInv, NEW p \in Fibers, Running(p), m_owner = p, unlockNoLock,
           NEW f \in Waiters, NEW g \in Waiters, InOrder(g, f)
    PROVE  /\ scheduled'[f] = 0
           /\ InM(f)' => scheduled'[g] > 0 \/ Ahead(m_waiters', g, f)
           /\ scheduled[g] = 0
           /\ InM(g) => scheduled'[g] > 0 \/ InM(g)'
<1>1. /\ TypeOK /\ Distinct(m_waiters) /\ scheduled[p] = 0
      /\ f \in Fibers /\ g \in Fibers /\ g # p
  BY DEF IInv, TypeOK, ListsDistinct, ScheduledOwns, Running, Waiters
<1>2. scheduled[f] = 0 /\ scheduled[g] = 0
  BY <1>1 DEF InOrder, IInv, TypeOK, ScheduledOwns
<1>3. CASE m_waiters = <<>>
  <2>1. ~InM(f)' /\ ~InM(g) /\ scheduled' = scheduled
    BY <1>3, EmptyOccurs DEF unlockNoLock, InM
  <2> QED BY <1>2, <2>1
<1>4. CASE m_waiters # <<>>
  <2> DEFINE h == Head(m_waiters)
  <2>1. /\ m_waiters' = Tail(m_waiters) /\ scheduled' = [scheduled EXCEPT ![h] = @ + 1]
        /\ h \in Fibers /\ scheduled[h] \in Nat
        /\ \A x : Occurs(m_waiters', x) <=> (Occurs(m_waiters, x) /\ x # h)
    BY <1>1, <1>4, TailOccurs DEF unlockNoLock, GrantTo, TypeOK
  <2>2. scheduled'[h] > 0 /\ \A x \in Fibers : x # h => scheduled'[x] = scheduled[x]
    BY <1>1, <2>1 DEF TypeOK
  <2>3. InM(f) => Ahead(m_waiters, g, f)
    BY <1>2 DEF InOrder
  <2>4. f # h
    <3>1. CASE InM(f)
      BY <1>1, <1>4, <2>3, <3>1, AheadTail DEF TypeOK
    <3>2. CASE ~InM(f)
      BY <1>1, <1>4, <3>2, TailOccurs DEF InM, TypeOK
    <3> QED BY <3>1, <3>2
  <2>5. InM(f)' => scheduled'[g] > 0 \/ Ahead(m_waiters', g, f)
    <3>1. ASSUME InM(f)', g # h PROVE Ahead(m_waiters', g, f)
      <4>1. InM(f)
        BY <2>1, <3>1 DEF InM
      <4>2. Ahead(Tail(m_waiters), g, f)
        BY <1>1, <1>4, <2>3, <3>1, <4>1, AheadTail DEF TypeOK
      <4> QED BY <2>1, <4>2
    <3> QED BY <2>2, <3>1
  <2>6. InM(g) => scheduled'[g] > 0 \/ InM(g)'
    BY <2>1, <2>2 DEF InM
  <2> QED BY <1>1, <1>2, <2>2, <2>4, <2>5, <2>6
<1> QED BY <1>3, <1>4
\* Every step keeps the fibers in the order in which they called wait().
LEMMA OrderStep ==
    ASSUME IInv, IInv', OrderInv, NEW p \in Fibers, Step(p), Remember
    PROVE  OrderInv'
<1> USE DEF InOrder
<1>1. TypeOK /\ TypeOK' /\ (~overtaken' => ~overtaken)
  BY DEF IInv, Remember
<1>2. /\ older \in [Fibers -> SUBSET Fibers]
      /\ \A f \in Fibers : older[f] \subseteq Waiters
      /\ Waiters \subseteq Fibers /\ Waiters' \subseteq Fibers
  BY DEF OrderInv, Waiters
<1> SUFFICES WaitOrder'
  BY OrderTypes, GapStep DEF OrderInv
<1> SUFFICES ASSUME ~overtaken'
             PROVE  /\ \A a, b \in Gap' : a = b
                    /\ \A f \in Waiters' : \A g \in older'[f] : InOrder(g, f)'
  BY DEF WaitOrder
<1>3. /\ ~overtaken /\ \A a, b \in Gap : a = b
      /\ \A f \in Waiters : \A g \in older[f] : InOrder(g, f)
      /\ Len(c_waiters') < Len(c_waiters) => Gap = {}
  BY <1>1 DEF OrderInv, WaitOrder, Remember, Gap
<1>4. \A f \in Waiters : /\ f \in Fibers
                         /\ InM(f) \/ InC(f) \/ InNext(f) \/ scheduled[f] > 0
                         /\ scheduled[f] > 0 => m_owner = f /\ ~InM(f) /\ ~InC(f) /\ ~InNext(f)
                         /\ InM(f) => ~InC(f) /\ ~InNext(f) /\ m_owner # None
                         /\ InC(f) => ~InNext(f)
                         /\ InNext(f) => \E q \in Gap : next[q] = f
                         /\ scheduled[f] \in Nat
  BY WaiterPlaces
<1>5. Waiters' = Waiters => \A f \in Waiters : older'[f] = older[f]
  BY OrderKept
<1>6. ASSUME call' = call PROVE Waiters' = Waiters
  BY <1>6 DEF Waiters
\* The lists, the gap and the queue are as they were.
<1>7. CASE LockFree(p) \/ YieldTo(p)
  <2>1. /\ call' = call /\ UNCHANGED <<m_waiters, c_waiters, next, scheduled>>
    BY <1>7 DEF LockFree, YieldTo
  <2>2. \A f : (InM(f)' <=> InM(f)) /\ (InC(f)' <=> InC(f)) /\ (InNext(f)' <=> InNext(f))
    BY <2>1 DEF InM, InC, InNext
  <2>3. Gap' = Gap
    BY <2>1 DEF Gap
  <2>4. ASSUME NEW f \in Waiters, NEW g \in older[f] PROVE InOrder(g, f)'
    BY <1>3, <2>1, <2>2
  <2> QED BY <1>3, <1>5, <1>6, <2>1, <2>3, <2>4
<1>8. CASE LockEnqueue(p)
  <2>1. /\ call[p] = "none" /\ call' = [call EXCEPT ![p] = "lock"]
        /\ m_waiters' = Append(m_waiters, p) /\ UNCHANGED <<c_waiters, next, scheduled>>
    BY <1>8 DEF LockEnqueue, Running
  <2>2. Waiters' = Waiters /\ p \notin Waiters
    BY <1>1, <2>1 DEF Waiters, TypeOK
  <2>3. \A f : /\ (InC(f)' <=> InC(f)) /\ (InNext(f)' <=> InNext(f))
               /\ InM(f)' <=> (InM(f) \/ f = p)
    BY <1>1, <2>1, AppendOccurs DEF InM, InC, InNext, TypeOK
  <2>4. Gap' = Gap
    BY <2>1 DEF Gap
  <2>5. ASSUME NEW f \in Waiters, NEW g \in older[f] PROVE InOrder(g, f)'
    <3>1. Ahead(m_waiters, g, f) => Ahead(m_waiters', g, f)
      BY <1>1, <2>1, AheadAppend DEF TypeOK
    <3>2. f # p
      BY <2>2
    <3> QED BY <1>3, <2>1, <2>3, <3>1, <3>2
  <2> QED BY <1>3, <1>5, <2>2, <2>4, <2>5
<1>9. CASE Unlock(p) \/ UnlockIfNotUnique(p)
  <2>1. /\ Running(p) /\ m_owner = p /\ unlockNoLock
        /\ UNCHANGED <<c_waiters, next, call, state>>
    BY <1>9 DEF Unlock, UnlockIfNotUnique
  <2>2. \A f : (InC(f)' <=> InC(f)) /\ (InNext(f)' <=> InNext(f))
    BY <2>1 DEF InC, InNext
  <2>3. Gap' = Gap
    BY <2>1 DEF Gap
  <2>4. ASSUME NEW f \in Waiters, NEW g \in older[f] PROVE InOrder(g, f)'
    <3>1. g \in Waiters /\ InOrder(g, f)
      BY <1>2, <1>3
    <3>2. /\ scheduled'[f] = 0
          /\ InM(f)' => scheduled'[g] > 0 \/ Ahead(m_waiters', g, f)
          /\ scheduled[g] = 0
          /\ InM(g) => scheduled'[g] > 0 \/ InM(g)'
      BY <2>1, <3>1, UnlockInOrder
    <3> QED BY <2>1, <2>2, <3>1, <3>2
  <2> QED BY <1>3, <1>5, <1>6, <2>1, <2>3, <2>4
\* wait(): the caller joins the condition's list behind everybody in wait().
<1>10. CASE Wait(p)
  <2>1. /\ Running(p) /\ m_owner = p /\ unlockNoLock /\ call[p] = "none"
        /\ c_waiters' = Append(c_waiters, p) /\ call' = [call EXCEPT ![p] = "wait"] /\ next' = next
    BY <1>10 DEF Wait, Running
  <2>2. Waiters' = Waiters \cup {p} /\ p \notin Waiters
    BY <1>1, <2>1 DEF Waiters, TypeOK
  <2>3. \A f : (InNext(f)' <=> InNext(f)) /\ (InC(f)' <=> (InC(f) \/ f = p))
    BY <1>1, <2>1, AppendOccurs DEF InC, InNext, TypeOK
  <2>4. Gap' = Gap
    BY <2>1 DEF Gap
  <2>5. ~InM(p) /\ ~InNext(p) /\ InC(p)'
    BY <1>1, <2>1, <2>3 DEF IInv, PlacesExclusive
  <2>6. ~InM(p)' /\ ~InNext(p)' /\ scheduled'[p] = 0
    BY <1>1, <2>2, <2>5, <1>2 DEF IInv, PlacesExclusive, ScheduledOwns, TypeOK
  <2>7. ASSUME NEW f \in Waiters, NEW g \in older[f] PROVE InOrder(g, f)'
    <3>1. g \in Waiters /\ InOrder(g, f) /\ f # p /\ g # p
      BY <1>2, <1>3, <2>2
    <3>2. /\ scheduled'[f] = 0
          /\ InM(f)' => scheduled'[g] > 0 \/ Ahead(m_waiters', g, f)
          /\ scheduled[g] = 0
          /\ InM(g) => scheduled'[g] > 0 \/ InM(g)'
      BY <2>1, <3>1, UnlockInOrder
    <3>3. Ahead(c_waiters, g, f) => Ahead(c_waiters', g, f)
      BY <1>1, <2>1, AheadAppend DEF TypeOK
    <3> QED BY <2>3, <3>1, <3>2, <3>3
  <2>8. ASSUME NEW g \in Waiters PROVE InOrder(g, p)'
    <3>1. g # p
      BY <2>2
    <3>2. InC(g)' => Ahead(c_waiters', g, p)
      BY <1>1, <2>1, <2>3, <3>1, AheadAppend DEF TypeOK, InC
    <3> QED BY <2>6, <3>2
  <2>9. \A f \in Waiters : older'[f] \subseteq older[f]
    BY <1>2, <2>2 DEF Remember
  <2>10. older'[p] \subseteq Waiters
    BY <1>2, <2>2 DEF Remember
  <2> QED BY <1>3, <2>2, <2>4, <2>7, <2>8, <2>9, <2>10
\* The first half of signal(): the gap was empty, so whoever came before the head of
\* the list has already been given to the mutex.
<1>11. CASE SignalPop(p)
  <2> DEFINE h == Head(c_waiters)
  <2>1. /\ c_waiters # <<>> /\ c_waiters' = Tail(c_waiters) /\ call' = call
        /\ next' = [next EXCEPT ![p] = h] /\ UNCHANGED <<m_owner, m_waiters, scheduled>>
    BY <1>11 DEF SignalPop
  <2>2. /\ h \in Fibers /\ Distinct(c_waiters) /\ InC(h)
        /\ \A x : InC(x)' <=> (InC(x) /\ x # h)
    BY <1>1, <2>1, TailOccurs DEF TypeOK, IInv, ListsDistinct, InC
  <2>3. Gap = {}
    <3>1. Len(c_waiters') < Len(c_waiters)
      BY <1>1, <2>1 DEF TypeOK
    <3> QED BY <1>3, <3>1
  <2>4. Gap' \subseteq {p} /\ \A f \in Fibers : InNext(f)' => f = h
    BY <1>1, <2>1, <2>3, NoneAssumption DEF Gap, InNext, TypeOK
  <2>5. ASSUME NEW f \in Waiters, NEW g \in older[f] PROVE InOrder(g, f)'
    <3>1. g \in Waiters /\ InOrder(g, f) /\ f \in Fibers /\ g \in Fibers
      BY <1>2, <1>3
    <3>2. (InM(f)' <=> InM(f)) /\ (InM(g)' <=> InM(g))
      BY <2>1 DEF InM
    <3>3. InNext(f)' => scheduled'[g] > 0 \/ InM(g)'
      <4>1. SUFFICES ASSUME f = h PROVE scheduled[g] > 0 \/ InM(g)
        BY <2>1, <2>4, <3>1, <3>2
      <4>2. ~InC(g)
        BY <1>1, <2>1, <2>2, <3>1, <4>1, AheadTail DEF TypeOK
      <4>3. ~InNext(g)
        BY <1>4, <2>3, <3>1
      <4> QED BY <1>4, <3>1, <4>2, <4>3
    <3>4. ASSUME InC(f)', InC(g)' PROVE Ahead(c_waiters', g, f)
      <4>1. InC(f) /\ InC(g) /\ g # h
        BY <2>2, <3>4
      <4>2. Ahead(Tail(c_waiters), g, f)
        BY <1>1, <2>1, <2>2, <3>1, <4>1, AheadTail DEF TypeOK
      <4> QED BY <2>1, <4>2
    <3> QED BY <2>1, <3>1, <3>2, <3>3, <3>4
  <2> QED BY <1>3, <1>5, <1>6, <2>1, <2>4, <2>5
\* Its second half: the only fiber that was in a gap.
<1>12. CASE SignalGive(p)
  <2> DEFINE h == next[p]
  <2>1. /\ h # None /\ call' = call /\ c_waiters' = c_waiters
        /\ next' = [next EXCEPT ![p] = None] /\ h \in Fibers /\ p \in Gap
    BY <1>1, <1>12 DEF SignalGive, TypeOK, Gap
  <2>2. InNext(h) /\ Gap = {p} /\ Gap' = {}
    BY <1>1, <1>3, <2>1 DEF InNext, Gap, TypeOK
  <2>3. \A f \in Fibers : ~InNext(f)' /\ (InC(f)' <=> InC(f))
    BY <2>1, <2>2, NoneAssumption DEF InNext, Gap, InC
  <2>4. h \in Waiters => ~InM(h) /\ ~InC(h) /\ scheduled[h] = 0
    BY <1>4, <2>2
  <2>5. CASE m_owner = None
    <3>1. /\ m_waiters' = m_waiters /\ scheduled' = [scheduled EXCEPT ![h] = @ + 1]
      BY <1>12, <2>5 DEF SignalGive, GrantTo
    <3>2. \A f \in Fibers : f # h => scheduled'[f] = scheduled[f]
      BY <1>1, <2>1, <3>1 DEF TypeOK
    <3>3. ASSUME h \in Waiters, NEW g \in older[h] PROVE FALSE
      <4>1. g \in Waiters /\ InOrder(g, h) /\ g \in Fibers
        BY <1>2, <1>3, <2>1, <3>3
      <4> QED BY <1>4, <2>2, <2>5, <4>1, NoneAssumption
    <3>4. ASSUME NEW f \in Waiters, NEW g \in older[f] PROVE InOrder(g, f)'
      <4>1. g \in Waiters /\ InOrder(g, f) /\ f \in Fibers /\ g \in Fibers /\ f # h
        BY <1>2, <1>3, <3>3
      <4>2. scheduled'[f] = 0 /\ ~InM(f)
        BY <1>4, <2>5, <3>2, <4>1
      <4>3. ~InM(f)' /\ ~InNext(f)' /\ (InC(f)' <=> InC(f)) /\ (InC(g)' <=> InC(g))
        BY <2>3, <3>1, <4>1, <4>2 DEF InM
      <4> QED BY <2>1, <4>1, <4>2, <4>3
    <3> QED BY <1>5, <1>6, <2>1, <2>2, <3>4
  <2>6. CASE m_owner # None
    <3>1. m_waiters' = Append(m_waiters, h) /\ scheduled' = scheduled
      BY <1>12, <2>6 DEF SignalGive
    <3>2. \A f : InM(f)' <=> (InM(f) \/ f = h)
      BY <1>1, <2>1, <3>1, AppendOccurs DEF InM, TypeOK
    <3>3. ASSUME NEW f \in Waiters, NEW g \in older[f] PROVE InOrder(g, f)'
      <4>1. g \in Waiters /\ InOrder(g, f) /\ f \in Fibers /\ g \in Fibers
        BY <1>2, <1>3
      <4>2. Ahead(m_waiters, g, f) => Ahead(m_waiters', g, f)
        BY <1>1, <2>1, <3>1, AheadAppend DEF TypeOK
      <4>3. f = h => scheduled[g] > 0 \/ Ahead(m_waiters', g, f)
        BY <1>1, <2>1, <2>2, <3>1, <4>1, AheadAppend DEF TypeOK, InM
      <4>4. ~InNext(f)' /\ (InC(f)' <=> InC(f)) /\ (InC(g)' <=> InC(g))
        BY <2>3, <4>1
      <4> QED BY <2>1, <3>1, <3>2, <4>1, <4>2, <4>3, <4>4
    <3> QED BY <1>5, <1>6, <2>1, <2>2, <3>3
  <2> QED BY <2>5, <2>6
<1>13. CASE Broadcast(p)
  <2>1. /\ c_waiters # <<>> /\ c_waiters' = <<>> /\ call' = call /\ next' = next
        /\ \A x : ~InC(x)'
    BY <1>13, EmptyOccurs DEF Broadcast, InC
  <2>2. Gap = {} /\ Gap' = {}
    <3>1. Len(c_waiters') < Len(c_waiters)
      BY <1>1, <2>1 DEF TypeOK
    <3> QED BY <1>3, <2>1, <3>1 DEF Gap
  <2>3. \A f \in Fibers : ~InNext(f) /\ ~InNext(f)'
    BY <2>1, <2>2, NoneAssumption DEF Gap, InNext
  <2>4. CASE m_owner = None
    <3> DEFINE h == Head(c_waiters)
    <3>1. /\ m_waiters' = m_waiters \o Tail(c_waiters)
          /\ scheduled' = [scheduled EXCEPT ![h] = @ + 1]
      BY <1>13, <2>4 DEF Broadcast, GrantTo
    <3>2. /\ h \in Fibers /\ Distinct(c_waiters) /\ InC(h) /\ Tail(c_waiters) \in Seq(Fibers)
          /\ \A x : Occurs(Tail(c_waiters), x) <=> (InC(x) /\ x # h)
      BY <1>1, <2>1, TailOccurs DEF TypeOK, IInv, ListsDistinct, InC
    <3>3. /\ scheduled'[h] > 0
          /\ \A f \in Fibers : f # h => scheduled'[f] = scheduled[f]
      BY <1>1, <3>1, <3>2 DEF TypeOK
    <3>4. \A x : InM(x)' <=> (InM(x) \/ (InC(x) /\ x # h))
      BY <1>1, <3>1, <3>2, ConcatOccurs DEF InM, TypeOK
    <3>5. ASSUME NEW f \in Waiters, NEW g \in older[f] PROVE InOrder(g, f)'
      <4>1. g \in Waiters /\ InOrder(g, f) /\ f \in Fibers /\ g \in Fibers
        BY <1>2, <1>3
      <4>2. ~InM(f) /\ ~InM(g) /\ InC(f) /\ InC(g) /\ scheduled[f] = 0
        BY <1>4, <2>3, <2>4, <4>1, NoneAssumption
      <4>3. Ahead(c_waiters, g, f)
        BY <4>1, <4>2
      <4>4. f # h /\ (g # h => Ahead(Tail(c_waiters), g, f))
        BY <1>1, <2>1, <3>2, <4>3, AheadTail DEF TypeOK
      <4>5. g # h => Ahead(m_waiters', g, f)
        BY <1>1, <3>1, <3>2, <4>4, AheadGrows DEF TypeOK
      <4> QED BY <2>1, <2>3, <3>3, <4>1, <4>2, <4>4, <4>5
    <3> QED BY <1>5, <1>6, <2>1, <2>2, <3>5
  <2>5. CASE m_owner # None
    <3>1. m_waiters' = m_waiters \o c_waiters /\ scheduled' = scheduled
      BY <1>13, <2>5 DEF Broadcast
    <3>2. \A x : InM(x)' <=> (InM(x) \/ InC(x))
      BY <1>1, <3>1, ConcatOccurs DEF InM, InC, TypeOK
    <3>3. ASSUME NEW f \in Waiters, NEW g \in older[f] PROVE InOrder(g, f)'
      <4>1. g \in Waiters /\ InOrder(g, f) /\ f \in Fibers /\ g \in Fibers
        BY <1>2, <1>3
      <4>2. /\ Ahead(m_waiters, g, f) => Ahead(m_waiters', g, f)
            /\ Ahead(c_waiters, g, f) => Ahead(m_waiters', g, f)
            /\ InM(g) /\ InC(f) => Ahead(m_waiters', g, f)
        BY <1>1, <3>1, AheadGrows DEF TypeOK, InM, InC
      <4>3. InM(g) \/ InC(g) \/ scheduled[g] > 0
        BY <1>4, <2>3, <4>1
      <4> QED BY <2>1, <2>3, <3>1, <3>2, <4>1, <4>2, <4>3
    <3> QED BY <1>5, <1>6, <2>1, <2>2, <3>3
  <2> QED BY <2>4, <2>5
<1>14. CASE Resume(p)
  <2>1. /\ scheduled[p] > 0 /\ call' = [call EXCEPT ![p] = "none"]
        /\ scheduled' = [scheduled EXCEPT ![p] = @ - 1]
        /\ UNCHANGED <<m_waiters, c_waiters, next>>
    BY <1>14 DEF Resume
  <2>2. Waiters' = Waiters \ {p}
    BY <1>1, <2>1 DEF Waiters, TypeOK
  <2>3. \A f : (InM(f)' <=> InM(f)) /\ (InC(f)' <=> InC(f)) /\ (InNext(f)' <=> InNext(f))
    BY <2>1 DEF InM, InC, InNext
  <2>4. Gap' = Gap
    BY <2>1 DEF Gap
  <2>5. ASSUME NEW f \in Waiters', NEW g \in older'[f] PROVE InOrder(g, f)'
    <3>1. f \in Waiters /\ g \in older[f] /\ g \in Waiters' /\ f # p /\ g # p
      BY <1>2, <2>2, <2>5 DEF Remember
    <3>2. scheduled'[f] = scheduled[f] /\ scheduled'[g] = scheduled[g] /\ InOrder(g, f)
      BY <1>1, <1>2, <1>3, <2>1, <3>1 DEF TypeOK
    <3> QED BY <2>1, <2>3, <3>2
  <2> QED BY <1>3, <2>4, <2>5
<1> QED BY <1>7, <1>8, <1>9, <1>10, <1>11, <1>12, <1>13, <1>14 DEF Step

\* The invariant with the order, of the mutex with its two history variables.
THEOREM OrderInvariance == OrderSpec => [](IInv /\ OrderInv)
<1>1. OrderInit => IInv /\ OrderInv
  <2>1. OrderInit => Waiters = {} /\ Gap = {}
    BY DEF OrderInit, Init, Waiters, Gap
  <2> QED BY <2>1, InitIInv DEF OrderInit, OrderInv, WaitOrder, SignallersInOrder
<1>2. ASSUME IInv, OrderInv, [OrderNext]_orderVars PROVE IInv' /\ OrderInv'
  <2>1. CASE UNCHANGED orderVars
    <3>1. UNCHANGED vars /\ UNCHANGED <<older, overtaken>>
      BY <2>1 DEF orderVars
    <3>2. IInv'
      BY <1>2, <3>1, NextIInv
    <3>3. OrderInv'
      BY <1>2, <3>1 DEF vars, OrderInv, WaitOrder, Waiters, Gap, SignallersInOrder, InM, InC, InNext
    <3> QED BY <3>2, <3>3
  <2>2. CASE OrderNext
    <3>1. PICK p \in Fibers : Step(p)
      BY <2>2 DEF OrderNext, Next
    <3>2. IInv'
      BY <1>2, <2>2, NextIInv DEF OrderNext
    <3> QED BY <1>2, <2>2, <3>1, <3>2, OrderStep DEF OrderNext
  <2> QED BY <1>2, <2>1, <2>2
<1> QED BY <1>1, <1>2, PTL DEF OrderSpec

\* "strictly FIFO": whoever is given the mutex after wait() has waited longest, unless
\* some signal() was overtaken between its two critical sections.
THEOREM ConditionIsFIFO == OrderSpec => []ConditionFIFO
<1>1. OrderInv => ConditionFIFO
  BY DEF OrderInv, WaitOrder, ConditionFIFO
<1> QED BY <1>1, OrderInvariance, PTL

\* When signal() and broadcast() are called by the owner of the mutex, none is ever
\* overtaken, so that the condition is strictly FIFO.
THEOREM ConditionStrictlyFIFO ==
    ASSUME SignalHoldsMutex
    PROVE  OrderSpec => [](\A f \in Waiters : scheduled[f] > 0 => older[f] = {})
<1>1. OrderInv => \A f \in Waiters : scheduled[f] > 0 => older[f] = {}
  BY DEF OrderInv, WaitOrder, SignallersInOrder
<1> QED BY <1>1, OrderInvariance, PTL
=============================================================================
