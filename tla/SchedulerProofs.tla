-------------------------- MODULE SchedulerProofs --------------------------
(***************************************************************************)
(* Lemmas about the steps of Scheduler, for any threads, fibers, clients   *)
(* and batch size.  They are about the steps that every derived scheduler  *)
(* is made of; WorkerPoolProofs puts them together.                        *)
(***************************************************************************)
EXTENDS Scheduler, FiniteSetTheorems, SequenceTheorems, TLAPS

-----------------------------------------------------------------------------
(* Picking entries out of the queue.                                       *)

\* Nth numbers the elements of a finite set of naturals.
LEMMA NthNumbers ==
    ASSUME NEW I \in SUBSET Nat, IsFiniteSet(I)
    PROVE  /\ Cardinality(I) \in Nat
           /\ \A k \in 1..Cardinality(I) : Nth(I, k) \in I
           /\ \A k, l \in 1..Cardinality(I) : Nth(I, k) = Nth(I, l) => k = l
           /\ \A i \in I : \E k \in 1..Cardinality(I) : Nth(I, k) = i
<1> DEFINE n == Cardinality(I)
           below(i) == {j \in I : j < i}
           rank == [i \in I |-> Cardinality(below(i))]
<1>1. n \in Nat
  BY FS_CardinalityType
<1>2. ASSUME NEW i \in I
      PROVE  IsFiniteSet(below(i)) /\ Cardinality(below(i)) \in 0 .. n - 1
  <2>1. below(i) \in SUBSET I /\ i \notin below(i) /\ i \in I
    OBVIOUS
  <2> HIDE DEF below
  <2>2. /\ IsFiniteSet(below(i)) /\ Cardinality(below(i)) <= n
        /\ n = Cardinality(below(i)) => I = below(i)
    BY <2>1, FS_Subset
  <2>3. Cardinality(below(i)) \in Nat
    BY <2>2, FS_CardinalityType
  <2> QED BY <1>1, <2>1, <2>2, <2>3
<1>3. ASSUME NEW i \in I, NEW j \in I, i < j
      PROVE  rank[i] < rank[j]
  <2>0. (\A x \in I : x < i => x < j) /\ ~(i < i)
    BY <1>3
  <2>1. below(i) \in SUBSET below(j) /\ i \in below(j) /\ i \notin below(i)
    BY <1>3, <2>0, Zenon
  <2>2. rank[i] = Cardinality(below(i)) /\ rank[j] = Cardinality(below(j))
    OBVIOUS
  <2>3. /\ IsFiniteSet(below(j)) /\ Cardinality(below(j)) \in 0 .. n - 1
        /\ Cardinality(below(i)) \in 0 .. n - 1
    BY <1>2
  <2> HIDE DEF below, rank
  <2>4. /\ Cardinality(below(i)) <= Cardinality(below(j))
        /\ Cardinality(below(j)) = Cardinality(below(i)) => below(j) = below(i)
    BY <2>1, <2>3, FS_Subset
  <2> QED BY <1>1, <2>1, <2>2, <2>3, <2>4
<1>4. rank \in [I -> 0 .. n - 1]
  BY <1>2
<1>5. \A i, j \in I : rank[i] = rank[j] => i = j
  <2>1. SUFFICES ASSUME NEW i \in I, NEW j \in I, i # j PROVE rank[i] # rank[j]
    OBVIOUS
  <2>2. i \in Nat /\ j \in Nat /\ rank[i] \in Nat /\ rank[j] \in Nat
    BY <1>1, <1>4
  <2>3. CASE i < j
    BY <1>3, <2>2, <2>3
  <2>4. CASE j < i
    BY <1>3, <2>2, <2>4
  <2> HIDE DEF rank
  <2> QED BY <2>1, <2>2, <2>3, <2>4
<1>6. rank \in Injection(I, 0 .. n - 1)
  BY <1>4, <1>5 DEF Injection, IsInjective
<1>7. IsFiniteSet(0 .. n - 1) /\ Cardinality(0 .. n - 1) = n
  <2> HIDE DEF n
  <2>1. 0 \in Int /\ n - 1 \in Int /\ (0 > n - 1 <=> n = 0) /\ (n - 1) - 0 + 1 = n
    BY <1>1
  <2> QED BY <1>1, <2>1, FS_Interval
<1>8. rank \in Surjection(I, 0 .. n - 1)
  BY <1>6, <1>7, FS_Injection
<1>9. \A k \in 1..n : \E i \in I : rank[i] = k - 1
  <2>1. SUFFICES ASSUME NEW k \in 1..n PROVE \E i \in I : rank[i] = k - 1
    OBVIOUS
  <2>2. k - 1 \in 0 .. n - 1
    BY <1>1
  <2> QED BY <1>8, <2>2 DEF Surjection
<1>10. \A k \in 1..n : Nth(I, k) \in I /\ rank[Nth(I, k)] = k - 1
  <2>1. SUFFICES ASSUME NEW k \in 1..n PROVE Nth(I, k) \in I /\ rank[Nth(I, k)] = k - 1
    OBVIOUS
  <2>2. \E i \in I : Cardinality({j \in I : j < i}) = k - 1
    BY <1>9
  <2>3. Nth(I, k) \in I /\ Cardinality({j \in I : j < Nth(I, k)}) = k - 1
    BY <2>2 DEF Nth
  <2> QED BY <2>3
<1> HIDE DEF rank
<1>11. ASSUME NEW i \in I PROVE \E k \in 1..n : Nth(I, k) = i
  <2>1. rank[i] + 1 \in 1..n /\ (rank[i] + 1) - 1 = rank[i]
    BY <1>1, <1>4
  <2> QED BY <1>5, <1>10, <2>1
<1>12. ASSUME NEW k \in 1..n, NEW l \in 1..n, Nth(I, k) = Nth(I, l) PROVE k = l
  <2>1. k - 1 = l - 1
    BY <1>10, <1>12
  <2> QED BY <1>1, <2>1
<1> QED BY <1>1, <1>10, <1>11, <1>12

\* What Pick(I) contains: the entries at the positions in I, each once.
LEMMA PickEntries ==
    ASSUME NEW S, m_fibers \in Seq(S), NEW I \in SUBSET DOMAIN m_fibers
    PROVE  /\ IsFiniteSet(I)
           /\ Pick(I) \in Seq(S)
           /\ Len(Pick(I)) = Cardinality(I)
           /\ Pick(I) = <<>> <=> I = {}
           /\ \A k \in DOMAIN Pick(I) : \E i \in I : Pick(I)[k] = m_fibers[i]
           /\ \A f : /\ IsFiniteSet(EntriesOf(f, Pick(I)))
                     /\ Cardinality(EntriesOf(f, Pick(I)))
                          = Cardinality({i \in I : m_fibers[i].fiber = f})
<1> DEFINE n == Cardinality(I)
<1>1. /\ I \in SUBSET Nat /\ IsFiniteSet(I)
      /\ \A i \in I : m_fibers[i] \in S
  <2>1. DOMAIN m_fibers = 1 .. Len(m_fibers) /\ Len(m_fibers) \in Nat
    OBVIOUS
  <2>2. IsFiniteSet(1 .. Len(m_fibers))
    BY <2>1, FS_Interval
  <2> QED BY <2>1, <2>2, FS_Subset
<1>2. /\ n \in Nat
      /\ \A k \in 1..n : Nth(I, k) \in I
      /\ \A k, l \in 1..n : Nth(I, k) = Nth(I, l) => k = l
      /\ \A i \in I : \E k \in 1..n : Nth(I, k) = i
  BY <1>1, NthNumbers
<1>3. n = 0 <=> I = {}
  BY <1>1, FS_EmptySet
<1> HIDE DEF n
<1>4. Pick(I) = [k \in 1..n |-> m_fibers[Nth(I, k)]]
  BY DEF Pick, n
<1>5. /\ Pick(I) \in Seq(S) /\ Len(Pick(I)) = n /\ DOMAIN Pick(I) = 1..n
      /\ \A k \in 1..n : Pick(I)[k] = m_fibers[Nth(I, k)]
  BY <1>1, <1>2, <1>4
<1>6. ASSUME NEW f
      PROVE  /\ IsFiniteSet(EntriesOf(f, Pick(I)))
             /\ Cardinality(EntriesOf(f, Pick(I)))
                  = Cardinality({i \in I : m_fibers[i].fiber = f})
  <2> DEFINE K == EntriesOf(f, Pick(I))
             T == {i \in I : m_fibers[i].fiber = f}
             g == [k \in K |-> Nth(I, k)]
  <2>1. K = {k \in 1..n : m_fibers[Nth(I, k)].fiber = f}
    BY <1>5 DEF EntriesOf
  <2>2. IsFiniteSet(1..n)
    BY <1>2, FS_Interval
  <2>3. IsFiniteSet(K)
    BY <2>1, <2>2, FS_Subset
  <2> HIDE DEF K
  <2>4. g \in [K -> T]
    BY <1>2, <2>1
  <2>5. \A k, l \in K : g[k] = g[l] => k = l
    BY <1>2, <2>1
  <2>6. \A i \in T : \E k \in K : g[k] = i
    BY <1>2, <2>1
  <2> HIDE DEF g, T
  <2>7. g \in Bijection(K, T)
    BY <2>4, <2>5, <2>6 DEF Bijection, Injection, Surjection, IsInjective
  <2>8. Cardinality(T) = Cardinality(K)
    BY <2>3, <2>7, FS_Bijection DEF ExistsBijection
  <2> QED BY <2>3, <2>8 DEF K, T
<1>7. Pick(I) = <<>> <=> I = {}
  BY <1>2, <1>3, <1>5
<1> QED BY <1>1, <1>2, <1>5, <1>6, <1>7 DEF n

\* The entries of a fiber are divided among those taken and those kept.
LEMMA TakenAndKept ==
    ASSUME NEW S, m_fibers \in Seq(S), NEW I \in SUBSET DOMAIN m_fibers, NEW f
    PROVE  /\ IsFiniteSet(EntriesOf(f, m_fibers))
           /\ Cardinality(EntriesOf(f, m_fibers))
                = Cardinality(EntriesOf(f, Pick(I)))
                    + Cardinality(EntriesOf(f, Pick(DOMAIN m_fibers \ I)))
           /\ Cardinality(EntriesOf(f, Pick(I))) \in Nat
           /\ Cardinality(EntriesOf(f, Pick(DOMAIN m_fibers \ I))) \in Nat
<1> DEFINE J == DOMAIN m_fibers \ I
           A == {i \in I : m_fibers[i].fiber = f}
           B == {i \in J : m_fibers[i].fiber = f}
<1>1. /\ IsFiniteSet(I) /\ IsFiniteSet(J)
      /\ Cardinality(EntriesOf(f, Pick(I))) = Cardinality(A)
      /\ Cardinality(EntriesOf(f, Pick(J))) = Cardinality(B)
  BY PickEntries
<1>2. IsFiniteSet(A) /\ IsFiniteSet(B)
  BY <1>1, FS_Subset
<1>3. A \cap B = {} /\ A \cup B = EntriesOf(f, m_fibers)
  BY DEF EntriesOf
<1> HIDE DEF A, B, J
<1>4. Cardinality(A) \in Nat /\ Cardinality(B) \in Nat
  BY <1>2, FS_CardinalityType
<1>5. IsFiniteSet(A \cup B) /\ Cardinality(A \cup B) = Cardinality(A) + Cardinality(B) - 0
  BY <1>2, <1>3, FS_Union, FS_EmptySet
<1>6. /\ IsFiniteSet(EntriesOf(f, m_fibers))
      /\ Cardinality(EntriesOf(f, m_fibers)) = Cardinality(A) + Cardinality(B)
  <2>1. /\ IsFiniteSet(EntriesOf(f, m_fibers))
        /\ Cardinality(EntriesOf(f, m_fibers)) = Cardinality(A) + Cardinality(B) - 0
    BY <1>3, <1>5, Zenon
  <2> QED BY <1>4, <2>1
<1>7. DOMAIN m_fibers \ I = J
  BY DEF J
<1> QED BY <1>1, <1>4, <1>6, <1>7

-----------------------------------------------------------------------------
(***************************************************************************)
(* A step of a derived scheduler: a step of Scheduler, or a thread that    *)
(* stays in its idle() or comes back from it.                              *)
(***************************************************************************)
IdlePcs == {"idle", "pending", "wait", "process"}

IdleInside(t) ==
    /\ pc[t] \in IdlePcs
    /\ \E to \in IdlePcs : Goto(t, to)
    /\ UNCHANGED <<queueVars, batch, isActive, dontIdle, idleFiber, cur, fiberVars, client, poolVars>>

IdleOver(t) == pc[t] \in IdlePcs /\ \E done \in BOOLEAN : IdleReturn(t, done)

SchedNext ==
    \/ \E t \in Threads : ThreadStep(t) \/ TickleReturn(t) \/ IdleInside(t) \/ IdleOver(t)
    \/ OutsideStep \/ StopTickled
    \/ \E c \in Clients : ClientTickled(c)

-----------------------------------------------------------------------------
(* Control: where a thread is, what it has in hand, and the two counters.  *)

Entries == [fiber : Fibers, thread : Threads \cup {AnyThread}]

\* SchedulerTypeOK but for owed and the counters.
ControlType ==
    /\ m_fibers \in Seq(Entries)
    /\ m_stopping \in BOOLEAN
    /\ state \in [Fibers -> {"INIT", "EXEC", "HOLD", "TERM"}]
    /\ pc \in [Threads -> {"take", "tickle", "dispatch", "idle", "pending", "wait", "process",
                           "fiber", "leave",
                           "exitTickle", "exit", "none", "aborted"}]
    /\ batch \in [Threads -> Seq(Entries)]
    /\ isActive \in [Threads -> BOOLEAN]
    /\ dontIdle \in [Threads -> BOOLEAN]
    /\ idleFiber \in [Threads -> {"INIT", "HOLD", "TERM"}]
    /\ cur \in [Threads -> Fibers \cup {None}]
    /\ wakers \in [Fibers -> Nat]
    /\ yields \in [Fibers -> 0..MaxYields]
    /\ client \in [Clients -> {"idle", "tickle"}]
    /\ stopper \in {"up", "tickle", "swap", "join", "stopped"}
    /\ tickles \in Nat /\ (stopper = "tickle" => tickles > 0)
    /\ m_threadCount \in Nat \ {0}
    /\ m_threads \subseteq Threads /\ joining \subseteq Threads

\* A thread has a fiber exactly while its run() is inside one, and counts itself
\* active from the moment it has a batch until it looks for the next one.
InHand(t) ==
    /\ pc[t] \in {"fiber", "leave"} => cur[t] \in Fibers /\ isActive[t]
    /\ pc[t] \notin {"fiber", "leave"} => cur[t] = None
    /\ batch[t] # <<>> => isActive[t] /\ pc[t] \in {"tickle", "dispatch", "fiber", "leave"}
    /\ pc[t] \in {"tickle", "dispatch"} /\ isActive[t] => batch[t] # <<>>
    /\ isActive[t] => pc[t] \in {"take", "tickle", "dispatch", "fiber", "leave"}

Active == {t \in Threads : isActive[t]}
IdleThreads == {t \in Threads : pc[t] \in IdlePcs}

Control == /\ ControlType
           /\ \A t \in Threads : InHand(t)
           /\ m_activeThreadCount = Cardinality(Active)
           /\ m_idleThreadCount = Cardinality(IdleThreads)

\* The batch is worked off from its back.
LEMMA FrontAndLast ==
    ASSUME NEW S, NEW s \in Seq(S), s # <<>>
    PROVE  /\ Front(s) \in Seq(S) /\ Len(Front(s)) = Len(s) - 1
           /\ Last(s) \in S /\ Len(s) \in Nat \ {0}
           /\ \A i \in 1 .. Len(s) - 1 : Front(s)[i] = s[i]
           /\ Front(s) = <<>> <=> Len(s) = 1
<1>1. Len(s) \in Nat \ {0} /\ Last(s) \in S
  BY DEF Last
<1>2. /\ Front(s) \in Seq(S) /\ Len(Front(s)) = Len(s) - 1
      /\ \A i \in 1 .. Len(s) - 1 : Front(s)[i] = s[i]
  <2> DEFINE n == Len(s) - 1
  <2>1. n \in Nat /\ n \in Int /\ 1 \in Int /\ \A i \in 1..n : s[i] \in S
    BY <1>1
  <2> HIDE DEF n
  <2>2. n - 1 + 1 = n /\ (IF 1 <= n THEN n - 1 + 1 ELSE 0) = n /\ \A i \in 1..n : 1 + i - 1 = i
    BY <2>1
  <2>3. /\ SubSeq(s, 1, n) \in Seq(S)
        /\ Len(SubSeq(s, 1, n)) = IF 1 <= n THEN n - 1 + 1 ELSE 0
        /\ \A i \in 1 .. n - 1 + 1 : SubSeq(s, 1, n)[i] = s[1 + i - 1]
    BY <2>1, SubSeqProperties
  <2>4. /\ SubSeq(s, 1, n) \in Seq(S) /\ Len(SubSeq(s, 1, n)) = n
        /\ \A i \in 1..n : SubSeq(s, 1, n)[i] = s[i]
    BY <2>2, <2>3
  <2> QED BY <2>4 DEF Front, n
<1>3. Front(s) = <<>> <=> Len(Front(s)) = 0
  BY <1>2
<1> QED BY <1>1, <1>2, <1>3

\* What schedule() appends is an entry.
LEMMA EntryType == ASSUME NEW f \in Fibers, NEW t \in Threads \cup {AnyThread}
                   PROVE  Entry(f, t) \in Entries /\ Entry(f, t).fiber = f /\ Entry(f, t).thread = t
  BY DEF Entry, Entries

\* Every step of Scheduler keeps types, and what a thread has in hand where its pc says.
LEMMA ControlTypeStep ==
    ASSUME ControlType, \A t \in Threads : InHand(t), SchedNext
    PROVE  ControlType'
<1> USE DEF ControlType
<1>1. ASSUME NEW t \in Threads, Kill(t) PROVE ControlType'
  BY <1>1 DEF Kill, Goto, fiberVars
<1>2. ASSUME NEW t \in Threads, Take(t) PROVE ControlType'
  <2>1. Taken(t) \in SUBSET DOMAIN m_fibers /\ Kept(Taken(t)) \in SUBSET DOMAIN m_fibers
    BY DEF Taken, Kept
  <2>2. Pick(Taken(t)) \in Seq(Entries) /\ Pick(Kept(Taken(t))) \in Seq(Entries)
    BY <2>1, PickEntries
  <2>3. /\ batch' = [batch EXCEPT ![t] = Pick(Taken(t))]
        /\ m_fibers' = Pick(Kept(Taken(t)))
        /\ isActive' = [isActive EXCEPT ![t] = (Taken(t) # {})]
        /\ dontIdle' = [dontIdle EXCEPT ![t] = (~(Taken(t) # {}) /\ m_fibers # <<>>)]
        /\ \E to \in {"tickle", "dispatch"} : pc' = [pc EXCEPT ![t] = to]
        /\ UNCHANGED <<m_stopping, idleFiber, cur, fiberVars, client, poolVars>>
    BY <1>2 DEF Take, Goto
  <2> QED BY <2>2, <2>3 DEF fiberVars, poolVars
<1>3. ASSUME NEW t \in Threads, Spin(t) \/ IdleCall(t) \/ Exit(t) PROVE ControlType'
  BY <1>3 DEF Spin, IdleCall, Exit, Goto, queueVars, fiberVars, poolVars
<1>4. ASSUME NEW t \in Threads, RunNext(t) PROVE ControlType'
  <2>1. batch[t] \in Seq(Entries) /\ batch[t] # <<>>
    BY <1>4 DEF RunNext
  <2>2. Front(batch[t]) \in Seq(Entries) /\ Last(batch[t]).fiber \in Fibers
    <3>1. Front(batch[t]) \in Seq(Entries) /\ Last(batch[t]) \in Entries
      BY <2>1, FrontAndLast
    <3> QED BY <3>1 DEF Entries
  <2> QED BY <1>4, <2>2 DEF RunNext, Goto, queueVars, poolVars
<1>5. ASSUME NEW t \in Threads, SwitchOut(t) \/ FiberReturn(t) PROVE ControlType'
  BY <1>5 DEF SwitchOut, FiberReturn, Back, Goto, queueVars, poolVars
<1>6. ASSUME NEW t \in Threads, NEW g \in Fibers, FiberSchedule(t, g) PROVE ControlType'
  BY <1>6, EntryType DEF FiberSchedule, Push, threadVars, poolVars
<1>7. ASSUME NEW t \in Threads, FiberWait(t) PROVE ControlType'
  BY <1>7, WakeupAssumption DEF FiberWait, Goto, InHand, queueVars, poolVars
<1>8. ASSUME NEW t \in Threads, NEW target \in Threads \cup {AnyThread}, FiberYield(t, target)
      PROVE  ControlType'
  <2>1. Entry(cur[t], target) \in Entries
    BY <1>8, EntryType DEF FiberYield, InHand
  <2> QED BY <1>8, <2>1, WakeupAssumption DEF FiberYield, Push, Goto, InHand, poolVars
<1>9. ASSUME NEW t \in Threads, TickleReturn(t) \/ IdleInside(t) \/ IdleOver(t) PROVE ControlType'
  <2>1. CASE TickleReturn(t)
    BY <2>1 DEF TickleReturn, Goto, queueVars, fiberVars, poolVars
  <2>2. CASE IdleInside(t)
    BY <2>2 DEF IdleInside, IdlePcs, Goto, queueVars, fiberVars, poolVars
  <2>3. CASE IdleOver(t)
    BY <2>3 DEF IdleOver, IdleReturn, Goto, fiberVars, poolVars
  <2> QED BY <1>9, <2>1, <2>2, <2>3
<1>10. ASSUME NEW c \in Clients, NEW f \in Fibers, ClientPush(c, f) PROVE ControlType'
  BY <1>10, EntryType DEF ClientPush, Push, threadVars, poolVars
<1>11. ASSUME NEW n \in Sizes, ThreadCount(n) PROVE ControlType'
  <2>1. n \in Nat \ {0}
    BY ThreadAssumption
  <2> QED BY <1>11, <2>1 DEF ThreadCount, queueVars, fiberVars
<1>12. CASE StopBegin \/ StopSwap \/ StopJoin \/ StopTickled
  <2>1. CASE StopBegin
    BY <2>1 DEF StopBegin, threadVars, fiberVars
  <2>2. CASE StopSwap \/ StopJoin
    BY <2>2 DEF StopSwap, StopJoin, queueVars, threadVars, fiberVars
  <2>3. CASE StopTickled
    BY <2>3 DEF StopTickled, queueVars, threadVars, fiberVars
  <2> QED BY <1>12, <2>1, <2>2, <2>3
<1>13. CASE Start
  BY <1>13 DEF Start, fiberVars
<1>14. ASSUME NEW c \in Clients, ClientTickled(c) PROVE ControlType'
  BY <1>14 DEF ClientTickled, queueVars, threadVars, fiberVars, poolVars
<1> QED BY <1>1, <1>2, <1>3, <1>4, <1>5, <1>6, <1>7, <1>8, <1>9, <1>10, <1>11, <1>12, <1>13, <1>14
        DEF SchedNext, ThreadStep, OutsideStep

-----------------------------------------------------------------------------
(* The counters.                                                           *)

\* Counting a new element.
LEMMA CountOneMore ==
    ASSUME NEW S, IsFiniteSet(S), NEW x, x \notin S
    PROVE  Cardinality(S \cup {x}) = Cardinality(S) + 1 /\ Cardinality(S) \in Nat
  BY FS_AddElement, FS_CardinalityType

\* Counting without an element.
LEMMA CountOneLess ==
    ASSUME NEW S, IsFiniteSet(S), NEW x \in S
    PROVE  Cardinality(S \ {x}) = Cardinality(S) - 1 /\ Cardinality(S) \in Nat \ {0}
<1>1. Cardinality(S \ {x}) = Cardinality(S) - 1 /\ Cardinality(S) \in Nat
  BY FS_RemoveElement, FS_CardinalityType
<1>2. Cardinality(S) # 0
  BY FS_EmptySet
<1> QED BY <1>1, <1>2

\* The threads that the two counters count are finitely many.
LEMMA CountersFinite == IsFiniteSet(Active) /\ IsFiniteSet(IdleThreads)
<1>1. Active \in SUBSET Threads /\ IdleThreads \in SUBSET Threads
  BY DEF Active, IdleThreads
<1> QED BY <1>1, ThreadAssumption, FS_Subset

\* One thread's flag changes, and the counter with it.
LEMMA ActiveSet ==
    ASSUME isActive \in [Threads -> BOOLEAN], NEW t \in Threads, NEW b \in BOOLEAN,
           isActive' = [isActive EXCEPT ![t] = b]
    PROVE  Cardinality(Active') = CASE b /\ ~isActive[t] -> Cardinality(Active) + 1
                                    [] ~b /\ isActive[t] -> Cardinality(Active) - 1
                                    [] OTHER -> Cardinality(Active)
<1>1. CASE b /\ ~isActive[t]
  <2>1. Active' = Active \cup {t} /\ t \notin Active
    BY <1>1 DEF Active
  <2>2. Cardinality(Active') = Cardinality(Active) + 1
    BY <2>1, CountersFinite, CountOneMore
  <2> QED BY <1>1, <2>2
<1>2. CASE ~b /\ isActive[t]
  <2>1. Active' = Active \ {t} /\ t \in Active
    BY <1>2 DEF Active
  <2>2. Cardinality(Active') = Cardinality(Active) - 1
    BY <2>1, CountersFinite, CountOneLess
  <2> QED BY <1>2, <2>2
<1>3. CASE ~(b /\ ~isActive[t]) /\ ~(~b /\ isActive[t])
  <2>1. Active' = Active
    BY <1>3 DEF Active
  <2> QED BY <1>3, <2>1
<1> QED BY <1>1, <1>2, <1>3

\* Every step of Scheduler keeps the two counters exact.
LEMMA ControlStep ==
    ASSUME Control, SchedNext
    PROVE  Control'
<1> USE DEF Control
<1>0. ControlType'
  BY ControlTypeStep
<1>a. /\ ControlType /\ \A t \in Threads : InHand(t)
      /\ m_activeThreadCount = Cardinality(Active)
      /\ m_idleThreadCount = Cardinality(IdleThreads)
  OBVIOUS
<1> HIDE DEF Control
<1> DEFINE Rest == /\ \A t \in Threads : InHand(t)'
                   /\ m_activeThreadCount' = Cardinality(Active')
                   /\ m_idleThreadCount' = Cardinality(IdleThreads')
<1>1. ASSUME NEW t \in Threads, Kill(t) PROVE Rest
  <2>1. \A u \in Threads : InHand(u)'
    BY <1>a, <1>1 DEF Kill, Goto, ControlType, InHand
  <2>2. m_activeThreadCount' = Cardinality(Active')
    <3>1. isActive' = [isActive EXCEPT ![t] = FALSE] /\ isActive[t] \in BOOLEAN
      BY <1>a, <1>1 DEF Kill, ControlType
    <3>2. Cardinality(Active') = IF isActive[t] THEN Cardinality(Active) - 1 ELSE Cardinality(Active)
      BY <1>a, <3>1, ActiveSet DEF ControlType
    <3> QED BY <1>a, <1>1, <3>2 DEF Kill
  <2>3. IdleThreads' = IdleThreads
    BY <1>a, <1>1 DEF Kill, Goto, IdleThreads, IdlePcs, ControlType
  <2> QED BY <1>a, <1>1, <2>1, <2>2, <2>3 DEF Kill
<1>2. ASSUME NEW t \in Threads, Take(t) PROVE Rest
  <2> DEFINE taken == Taken(t)
             some == taken # {}
  <2>1. /\ pc[t] = "take"
        /\ batch' = [batch EXCEPT ![t] = Pick(taken)]
        /\ m_activeThreadCount' = ActiveAfter(t, some)
        /\ isActive' = [isActive EXCEPT ![t] = some]
        /\ \E to \in {"tickle", "dispatch"} : pc' = [pc EXCEPT ![t] = to]
        /\ cur' = cur /\ m_idleThreadCount' = m_idleThreadCount
    BY <1>2 DEF Take, Goto
  <2>2. Pick(taken) = <<>> <=> ~some
    <3>1. taken \in SUBSET DOMAIN m_fibers
      BY DEF Taken
    <3> QED BY <1>a, <3>1, PickEntries DEF ControlType
  <2>3. some \in BOOLEAN
    OBVIOUS
  <2> HIDE DEF some, taken
  <2>4. \A u \in Threads : InHand(u)'
    BY <1>a, <2>1, <2>2, <2>3 DEF ControlType, InHand
  <2>5. m_activeThreadCount' = Cardinality(Active')
    BY <1>a, <2>1, <2>3, ActiveSet DEF ControlType, ActiveAfter
  <2>6. IdleThreads' = IdleThreads
    BY <1>a, <2>1 DEF ControlType, IdleThreads, IdlePcs
  <2> QED BY <1>a, <2>1, <2>4, <2>5, <2>6
<1>3. ASSUME NEW t \in Threads, Spin(t) \/ Exit(t) \/ TickleReturn(t) \/ IdleInside(t)
      PROVE  Rest
  <2>1. /\ UNCHANGED <<batch, isActive, cur, m_activeThreadCount, m_idleThreadCount>>
        /\ \E to : /\ pc' = [pc EXCEPT ![t] = to]
                   /\ \/ pc[t] = "dispatch" /\ batch[t] = <<>> /\ to \in {"take", "exitTickle", "exit"}
                      \/ pc[t] = "tickle" /\ to = "dispatch"
                      \/ pc[t] = "exitTickle" /\ to = "exit"
                      \/ pc[t] \in IdlePcs /\ to \in IdlePcs
    <3>1. CASE Spin(t)
      BY <3>1 DEF Spin, Goto, queueVars
    <3>2. CASE Exit(t)
      BY <3>2 DEF Exit, Goto, queueVars
    <3>3. CASE TickleReturn(t)
      BY <3>3 DEF TickleReturn, Goto, queueVars
    <3>4. CASE IdleInside(t)
      BY <3>4 DEF IdleInside, Goto, queueVars
    <3> QED BY <1>3, <3>1, <3>2, <3>3, <3>4
  <2>2. \A u \in Threads : InHand(u)'
    BY <1>a, <2>1 DEF ControlType, InHand, IdlePcs
  <2>3. Active' = Active /\ IdleThreads' = IdleThreads
    BY <1>a, <2>1 DEF ControlType, Active, IdleThreads, IdlePcs
  <2> QED BY <1>a, <2>1, <2>2, <2>3
<1>4. ASSUME NEW t \in Threads, IdleCall(t) PROVE Rest
  <2>1. \A u \in Threads : InHand(u)'
    BY <1>a, <1>4 DEF IdleCall, Goto, ControlType, InHand
  <2>2. IdleThreads' = IdleThreads \cup {t} /\ t \notin IdleThreads /\ Active' = Active
    BY <1>a, <1>4 DEF IdleCall, Goto, ControlType, Active, IdleThreads, IdlePcs
  <2>3. Cardinality(IdleThreads') = Cardinality(IdleThreads) + 1
    BY <2>2, CountersFinite, CountOneMore
  <2> QED BY <1>a, <1>4, <2>1, <2>2, <2>3 DEF IdleCall
<1>5. ASSUME NEW t \in Threads, IdleOver(t) PROVE Rest
  <2>1. \A u \in Threads : InHand(u)'
    BY <1>a, <1>5 DEF IdleOver, IdleReturn, Goto, ControlType, InHand, IdlePcs
  <2>2. IdleThreads' = IdleThreads \ {t} /\ t \in IdleThreads /\ Active' = Active
    BY <1>a, <1>5 DEF IdleOver, IdleReturn, Goto, ControlType, Active, IdleThreads, IdlePcs
  <2>3. Cardinality(IdleThreads') = Cardinality(IdleThreads) - 1
    BY <2>2, CountersFinite, CountOneLess
  <2> QED BY <1>a, <1>5, <2>1, <2>2, <2>3 DEF IdleOver, IdleReturn
<1>6. ASSUME NEW t \in Threads, RunNext(t) PROVE Rest
  <2>1. batch[t] \in Seq(Entries) /\ batch[t] # <<>>
    BY <1>a, <1>6 DEF RunNext, ControlType
  <2>2. (Front(batch[t]) = <<>> <=> Len(batch[t]) = 1) /\ Last(batch[t]).fiber \in Fibers
    <3>1. (Front(batch[t]) = <<>> <=> Len(batch[t]) = 1) /\ Last(batch[t]) \in Entries
      BY <2>1, FrontAndLast
    <3> QED BY <3>1 DEF Entries
  <2>3. \A u \in Threads : InHand(u)'
    BY <1>a, <1>6, <2>2, ThreadAssumption DEF RunNext, Goto, ControlType, InHand
  <2>4. IdleThreads' = IdleThreads /\ Active' = Active
    BY <1>a, <1>6 DEF RunNext, Goto, ControlType, Active, IdleThreads, IdlePcs
  <2> QED BY <1>a, <1>6, <2>3, <2>4 DEF RunNext, queueVars
<1>7. ASSUME NEW t \in Threads, SwitchOut(t) \/ FiberReturn(t) PROVE Rest
  <2>1. \A u \in Threads : InHand(u)'
    <3>1. /\ pc[t] \in {"fiber", "leave"} /\ cur' = [cur EXCEPT ![t] = None]
          /\ pc' = [pc EXCEPT ![t] = IF batch[t] = <<>> THEN "take" ELSE "dispatch"]
          /\ batch' = batch /\ isActive' = isActive
      BY <1>7 DEF SwitchOut, FiberReturn, Back, Goto
    <3>2. CASE batch[t] = <<>>
      BY <1>a, <3>1, <3>2 DEF ControlType, InHand
    <3>3. CASE batch[t] # <<>>
      BY <1>a, <3>1, <3>3 DEF ControlType, InHand
    <3> QED BY <3>2, <3>3
  <2>2. IdleThreads' = IdleThreads /\ Active' = Active
    BY <1>a, <1>7 DEF SwitchOut, FiberReturn, Back, Goto, ControlType, Active, IdleThreads, IdlePcs
  <2> QED BY <1>a, <1>7, <2>1, <2>2 DEF SwitchOut, FiberReturn, Back, queueVars
<1>8. ASSUME NEW t \in Threads, FiberWait(t) \/ \E target \in Threads \cup {AnyThread} : FiberYield(t, target)
      PROVE  Rest
  <2>1. /\ pc[t] = "fiber" /\ pc' = [pc EXCEPT ![t] = "leave"]
        /\ UNCHANGED <<batch, isActive, cur, m_activeThreadCount, m_idleThreadCount>>
    BY <1>8 DEF FiberWait, FiberYield, Goto, queueVars
  <2>2. \A u \in Threads : InHand(u)'
    BY <1>a, <2>1 DEF ControlType, InHand
  <2>3. IdleThreads' = IdleThreads /\ Active' = Active
    BY <1>a, <2>1 DEF ControlType, Active, IdleThreads, IdlePcs
  <2> QED BY <1>a, <2>1, <2>2, <2>3
<1>9. ASSUME UNCHANGED <<threadVars, m_activeThreadCount, m_idleThreadCount>> PROVE Rest
  BY <1>a, <1>9 DEF threadVars, InHand, Active, IdleThreads
<1>10. ASSUME (\E n \in Sizes : ThreadCount(n)) \/ Start PROVE Rest
  <2>1. /\ UNCHANGED <<batch, isActive, cur, m_activeThreadCount, m_idleThreadCount>>
        /\ \A u \in Threads : pc'[u] = pc[u] \/ (pc[u] = "none" /\ pc'[u] = "take")
    BY <1>10 DEF ThreadCount, Start, queueVars
  <2>2. \A u \in Threads : InHand(u)'
    BY <1>a, <2>1 DEF InHand
  <2>3. IdleThreads' = IdleThreads /\ Active' = Active
    BY <1>a, <2>1 DEF Active, IdleThreads, IdlePcs
  <2> QED BY <1>a, <2>1, <2>2, <2>3
<1>11. Rest
  <2>1. ASSUME NEW t \in Threads, NEW g \in Fibers, FiberSchedule(t, g)
        PROVE  UNCHANGED <<threadVars, m_activeThreadCount, m_idleThreadCount>>
    BY <2>1 DEF FiberSchedule
  <2>2. ASSUME NEW c \in Clients, NEW f \in Fibers, ClientPush(c, f)
        PROVE  UNCHANGED <<threadVars, m_activeThreadCount, m_idleThreadCount>>
    BY <2>2 DEF ClientPush
  <2>3. ASSUME NEW c \in Clients, ClientTickled(c)
        PROVE  UNCHANGED <<threadVars, m_activeThreadCount, m_idleThreadCount>>
    BY <2>3 DEF ClientTickled, queueVars
  <2>4. ASSUME StopBegin \/ StopSwap \/ StopJoin \/ StopTickled
        PROVE  UNCHANGED <<threadVars, m_activeThreadCount, m_idleThreadCount>>
    BY <2>4 DEF StopBegin, StopSwap, StopJoin, StopTickled, queueVars
  <2> HIDE DEF Rest
  <2> QED BY <1>1, <1>2, <1>3, <1>4, <1>5, <1>6, <1>7, <1>8, <1>9, <1>10, <2>1, <2>2, <2>3, <2>4
          DEF SchedNext, ThreadStep, OutsideStep
<1> QED BY <1>0, <1>11 DEF Control

-----------------------------------------------------------------------------
(***************************************************************************)
(* The fibers.  As long as each wait awaits one wake-up, a fiber that is   *)
(* in somebody's batch or executes has no other resumption on its way.     *)
(***************************************************************************)

\* Exactly the EXEC fibers execute, each on one thread.
Executing ==
    /\ \A t \in Threads : cur[t] \in Fibers => state[cur[t]] = "EXEC"
    /\ \A t, u \in Threads : cur[t] \in Fibers /\ cur[t] = cur[u] => t = u
    /\ \A f \in Fibers : state[f] = "EXEC" => \E t \in Threads : cur[t] = f

\* A fiber whose code runs, or has returned, awaits nothing.
AwaitsNothing ==
    /\ \A t \in Threads : pc[t] = "fiber" => owed[cur[t]] = 0
    /\ \A f \in Fibers : state[f] = "TERM" => owed[f] = 0

\* What is in a batch does not execute.
BatchesReady ==
    \A t \in Threads : \A i \in DOMAIN batch[t] : state[batch[t][i].fiber] # "EXEC"

\* No more resumptions are on their way than the fiber needs.
NoneTooMany == \A f \in Fibers : Coming(f) <= owed[f]

FiberInv == /\ owed \in [Fibers -> {0, 1}]
            /\ Executing /\ AwaitsNothing /\ BatchesReady /\ NoneTooMany

\* A step leaves what a fiber needs beyond what is on its way as it is.
Balanced(f) == owed'[f] + Coming(f) = owed[f] + Coming(f)'

\* A fiber has finitely many entries in a queue.
LEMMA EntriesFinite ==
    ASSUME NEW S, NEW s \in Seq(S), NEW f
    PROVE  IsFiniteSet(EntriesOf(f, s)) /\ Cardinality(EntriesOf(f, s)) \in Nat
<1>1. IsFiniteSet(1 .. Len(s)) /\ EntriesOf(f, s) \in SUBSET (1 .. Len(s))
  BY FS_Interval DEF EntriesOf
<1> QED BY <1>1, FS_Subset, FS_CardinalityType

\* A fiber has finitely many places in batches.
LEMMA BatchesFinite ==
    ASSUME batch \in [Threads -> Seq(Entries)], NEW f
    PROVE  IsFiniteSet(InBatches(f)) /\ Cardinality(InBatches(f)) \in Nat
<1> DEFINE P(t) == {t} \X EntriesOf(f, batch[t])
           D == {P(t) : t \in Threads}
           h == [t \in Threads |-> P(t)]
<1>1. ASSUME NEW t \in Threads PROVE IsFiniteSet(P(t))
  <2>1. IsFiniteSet(EntriesOf(f, batch[t]))
    BY EntriesFinite
  <2>2. IsFiniteSet({t})
    BY FS_Singleton
  <2> QED BY <2>1, <2>2, FS_Product
<1>2. h \in Surjection(Threads, D)
  BY DEF Surjection
<1>3. IsFiniteSet(D)
  BY <1>2, ThreadAssumption, FS_Surjection
<1>4. \A T \in D : IsFiniteSet(T)
  BY <1>1
<1>5. IsFiniteSet(UNION D)
  BY <1>3, <1>4, FS_UNION
<1> QED BY <1>5, FS_CardinalityType DEF InBatches

\* The three counts that make up Coming(f).
CountsAreNat ==
    \A f \in Fibers : /\ Coming(f) \in Nat /\ wakers[f] \in Nat
                      /\ IsFiniteSet(EntriesOf(f, m_fibers)) /\ IsFiniteSet(InBatches(f))
                      /\ Cardinality(EntriesOf(f, m_fibers)) \in Nat
                      /\ Cardinality(InBatches(f)) \in Nat

\* The entries of batches are counted.
BatchesCounted ==
    \A t \in Threads : \A i \in DOMAIN batch[t] :
        batch[t][i].fiber \in Fibers /\ Cardinality(InBatches(batch[t][i].fiber)) > 0

\* What is coming to a fiber can be counted.
LEMMA ComingNat == ControlType => CountsAreNat
<1>0. SUFFICES ASSUME ControlType PROVE CountsAreNat
  OBVIOUS
<1>1. ASSUME NEW f \in Fibers
      PROVE  /\ wakers[f] \in Nat
             /\ IsFiniteSet(EntriesOf(f, m_fibers)) /\ IsFiniteSet(InBatches(f))
             /\ Cardinality(EntriesOf(f, m_fibers)) \in Nat
             /\ Cardinality(InBatches(f)) \in Nat
  BY <1>0, EntriesFinite, BatchesFinite DEF ControlType
<1> QED BY <1>1 DEF Coming, CountsAreNat

\* schedule() adds one entry.
LEMMA PushedOne ==
    ASSUME ControlType, NEW e \in Entries, m_fibers' = Append(m_fibers, e), NEW f
    PROVE  Cardinality(EntriesOf(f, m_fibers'))
             = IF e.fiber = f THEN Cardinality(EntriesOf(f, m_fibers)) + 1
                              ELSE Cardinality(EntriesOf(f, m_fibers))
<1> DEFINE n == Len(m_fibers)
<1>1. /\ n \in Nat /\ DOMAIN m_fibers = 1..n /\ DOMAIN (m_fibers') = 1 .. n + 1
      /\ \A i \in 1..n : m_fibers'[i] = m_fibers[i]
      /\ m_fibers'[n + 1] = e
  BY AppendProperties DEF ControlType
<1> HIDE DEF n
<1>2. (\A i \in 1 .. n + 1 : i \in 1..n \/ i = n + 1) /\ n + 1 \notin 1..n /\ 1..n \subseteq 1 .. n + 1
      /\ n + 1 \in 1 .. n + 1
  BY <1>1
<1>3. IsFiniteSet(EntriesOf(f, m_fibers))
  BY EntriesFinite DEF ControlType
<1>4. CASE e.fiber = f
  <2>1. EntriesOf(f, m_fibers') = EntriesOf(f, m_fibers) \cup {n + 1} /\ n + 1 \notin EntriesOf(f, m_fibers)
    BY <1>1, <1>2, <1>4 DEF EntriesOf
  <2> QED BY <1>3, <1>4, <2>1, CountOneMore
<1>5. CASE e.fiber # f
  <2>1. EntriesOf(f, m_fibers') = EntriesOf(f, m_fibers)
    BY <1>1, <1>2, <1>5 DEF EntriesOf
  <2> QED BY <1>5, <2>1
<1> QED BY <1>4, <1>5

\* The critical section of run() moves entries from the queue to a batch.
LEMMA TakenComing ==
    ASSUME ControlType, NEW t \in Threads, Take(t), batch[t] = <<>>, NEW f \in Fibers
    PROVE  Coming(f)' = Coming(f)
<1> DEFINE I == Taken(t)
           new == {t} \X EntriesOf(f, Pick(I))
<1>1. I \in SUBSET DOMAIN m_fibers /\ Kept(I) = DOMAIN m_fibers \ I
  BY DEF Taken, Kept
<1>2. /\ batch' = [batch EXCEPT ![t] = Pick(I)]
      /\ m_fibers' = Pick(Kept(I))
      /\ wakers' = wakers
  BY DEF Take, fiberVars
<1> HIDE DEF I
<1>3. /\ Pick(I) \in Seq(Entries)
      /\ Cardinality(EntriesOf(f, m_fibers))
           = Cardinality(EntriesOf(f, Pick(I))) + Cardinality(EntriesOf(f, Pick(Kept(I))))
      /\ Cardinality(EntriesOf(f, Pick(I))) \in Nat
      /\ Cardinality(EntriesOf(f, Pick(Kept(I)))) \in Nat
  <2>1. m_fibers \in Seq(Entries)
    BY DEF ControlType
  <2>2. Pick(I) \in Seq(Entries)
    BY <1>1, <2>1, PickEntries
  <2>3. /\ Cardinality(EntriesOf(f, m_fibers))
             = Cardinality(EntriesOf(f, Pick(I))) + Cardinality(EntriesOf(f, Pick(DOMAIN m_fibers \ I)))
        /\ Cardinality(EntriesOf(f, Pick(I))) \in Nat
        /\ Cardinality(EntriesOf(f, Pick(DOMAIN m_fibers \ I))) \in Nat
    BY <1>1, <2>1, TakenAndKept
  <2> QED BY <1>1, <2>2, <2>3
<1>4. IsFiniteSet(new) /\ Cardinality(new) = Cardinality(EntriesOf(f, Pick(I)))
  <2>1. IsFiniteSet(EntriesOf(f, Pick(I)))
    BY <1>3, EntriesFinite
  <2>2. IsFiniteSet({t}) /\ Cardinality({t}) = 1
    BY FS_Singleton
  <2>3. IsFiniteSet(new) /\ Cardinality(new) = 1 * Cardinality(EntriesOf(f, Pick(I)))
    BY <2>1, <2>2, FS_Product
  <2> QED BY <1>3, <2>3
<1>5. InBatches(f)' = InBatches(f) \cup new /\ InBatches(f) \cap new = {}
  <2>1. EntriesOf(f, batch[t]) = {}
    BY DEF EntriesOf
  <2>2. \A u \in Threads : batch'[u] = IF u = t THEN Pick(I) ELSE batch[u]
    BY <1>2 DEF ControlType
  <2>3. InBatches(f)' = UNION {{u} \X EntriesOf(f, batch'[u]) : u \in Threads}
    BY DEF InBatches, EntriesOf
  <2>4. InBatches(f) = UNION {{u} \X EntriesOf(f, batch[u]) : u \in Threads}
    BY DEF InBatches
  <2>5. ASSUME NEW x PROVE x \in InBatches(f)' <=> x \in InBatches(f) \cup new
    BY <2>1, <2>2, <2>3, <2>4
  <2>6. \A x \in InBatches(f) : x \notin new
    BY <2>1, <2>4
  <2> QED BY <2>5, <2>6
<1> HIDE DEF new
<1>6. IsFiniteSet(InBatches(f)) /\ Cardinality(InBatches(f)) \in Nat /\ wakers[f] \in Nat
  BY ComingNat DEF CountsAreNat
<1>7. Cardinality(InBatches(f)') = Cardinality(InBatches(f)) + Cardinality(new) - 0
  BY <1>4, <1>5, <1>6, FS_Union, FS_EmptySet
<1>8. Coming(f)' = wakers'[f] + Cardinality(EntriesOf(f, m_fibers')) + Cardinality(InBatches(f)')
  BY DEF Coming, EntriesOf
<1>9. Cardinality(EntriesOf(f, m_fibers')) = Cardinality(EntriesOf(f, Pick(Kept(I))))
  BY <1>2
<1> QED BY <1>2, <1>3, <1>4, <1>6, <1>7, <1>8, <1>9 DEF Coming

\* The last entry of the batch leaves it.
LEMMA RunComing ==
    ASSUME ControlType, NEW t \in Threads, batch[t] # <<>>,
           batch' = [batch EXCEPT ![t] = Front(@)], UNCHANGED <<m_fibers, wakers>>, NEW f \in Fibers
    PROVE  /\ Last(batch[t]).fiber = f => Coming(f)' = Coming(f) - 1 /\ Coming(f) > 0
                                          /\ Cardinality(InBatches(f)) > 0
           /\ Last(batch[t]).fiber # f => Coming(f)' = Coming(f)
           /\ Last(batch[t]) = batch[t][Len(batch[t])] /\ Len(batch[t]) \in DOMAIN batch[t]
           /\ \A i \in DOMAIN Front(batch[t]) : i \in DOMAIN batch[t] /\ Front(batch[t])[i] = batch[t][i]
<1> DEFINE s == batch[t]
           n == Len(s)
<1>1. s \in Seq(Entries) /\ s # <<>>
  BY DEF ControlType
<1>2. /\ Front(s) \in Seq(Entries) /\ Len(Front(s)) = n - 1
      /\ n \in Nat \ {0} /\ \A i \in 1 .. n - 1 : Front(s)[i] = s[i]
  BY <1>1, FrontAndLast
<1>3. DOMAIN s = 1..n /\ DOMAIN Front(s) = 1 .. n - 1 /\ Last(s) = s[n]
  BY <1>1, <1>2 DEF Last
<1>4. \A u \in Threads : batch'[u] = IF u = t THEN Front(s) ELSE batch[u]
  BY DEF ControlType
<1> HIDE DEF n, s
<1>5. (\A i \in 1..n : i \in 1 .. n - 1 \/ i = n) /\ n \notin 1 .. n - 1 /\ 1 .. n - 1 \subseteq 1..n /\ n \in 1..n
  BY <1>2
<1>6. /\ \A i : i \in EntriesOf(f, Front(s)) <=> i \in EntriesOf(f, s) /\ i # n
      /\ n \in EntriesOf(f, s) <=> Last(s).fiber = f
  BY <1>2, <1>3, <1>5 DEF EntriesOf
<1>7. InBatches(f)' = UNION {{u} \X EntriesOf(f, batch'[u]) : u \in Threads}
  BY DEF InBatches, EntriesOf
<1>8. InBatches(f) = UNION {{u} \X EntriesOf(f, batch[u]) : u \in Threads}
  BY DEF InBatches
<1>9. batch[t] = s
  BY DEF s
<1>10. IsFiniteSet(InBatches(f)) /\ Cardinality(InBatches(f)) \in Nat /\ wakers[f] \in Nat
       /\ Cardinality(EntriesOf(f, m_fibers)) \in Nat
  BY ComingNat DEF CountsAreNat
<1>11. Coming(f)' = wakers[f] + Cardinality(EntriesOf(f, m_fibers)) + Cardinality(InBatches(f)')
  BY DEF Coming, EntriesOf
<1>12. CASE Last(s).fiber = f
  <2>1. ASSUME NEW x PROVE x \in InBatches(f)' <=> x \in InBatches(f) \ {<<t, n>>}
    BY <1>4, <1>6, <1>7, <1>8, <1>9
  <2>2. <<t, n>> \in InBatches(f)
    BY <1>6, <1>8, <1>9, <1>12
  <2>3. Cardinality(InBatches(f)') = Cardinality(InBatches(f)) - 1 /\ Cardinality(InBatches(f)) > 0
    BY <1>10, <2>1, <2>2, CountOneLess
  <2>4. Coming(f)' = Coming(f) - 1 /\ Coming(f) > 0
    BY <1>10, <1>11, <2>3 DEF Coming
  <2> QED BY <1>2, <1>3, <1>5, <1>9, <1>12, <2>3, <2>4
<1>13. CASE Last(s).fiber # f
  <2>1. ASSUME NEW x PROVE x \in InBatches(f)' <=> x \in InBatches(f)
    BY <1>4, <1>6, <1>7, <1>8, <1>9, <1>13
  <2>2. Coming(f)' = Coming(f)
    <3>1. InBatches(f)' = InBatches(f)
      BY <2>1
    <3> QED BY <1>11, <3>1 DEF Coming
  <2> QED BY <1>2, <1>3, <1>5, <1>9, <1>13, <2>2
<1> QED BY <1>12, <1>13

\* A fiber in some batch has one resumption on its way.
LEMMA InBatchComing == ControlType => BatchesCounted
<1>0. SUFFICES ASSUME ControlType, NEW t \in Threads, NEW i \in DOMAIN batch[t]
               PROVE  batch[t][i].fiber \in Fibers /\ Cardinality(InBatches(batch[t][i].fiber)) > 0
  BY DEF BatchesCounted
<1> DEFINE f == batch[t][i].fiber
<1>1. f \in Fibers
  <2>1. batch[t] \in Seq(Entries)
    BY <1>0 DEF ControlType
  <2>2. batch[t][i] \in Entries
    BY <2>1
  <2> QED BY <2>2 DEF Entries
<1>2. <<t, i>> \in InBatches(f)
  BY DEF InBatches, EntriesOf
<1>3. IsFiniteSet(InBatches(f)) /\ Cardinality(InBatches(f)) \in Nat
  BY <1>0, <1>1, ComingNat DEF CountsAreNat
<1> HIDE DEF f
<1>4. Cardinality(InBatches(f)) # 0
  BY <1>2, <1>3, FS_EmptySet
<1>5. Cardinality(InBatches(f)) > 0
  BY <1>3, <1>4
<1> QED BY <1>1, <1>5 DEF f

\* A step that touches neither queue, batches nor promises leaves what is coming.
LEMMA ComingSame ==
    ASSUME UNCHANGED <<m_fibers, batch, wakers>>
    PROVE  \A f : Coming(f)' = Coming(f)
  BY DEF Coming, InBatches, EntriesOf

\* schedule() of a fiber somebody had promised to schedule.
LEMMA PromiseKept ==
    ASSUME ControlType, NEW g \in Fibers, NEW t \in Threads \cup {AnyThread}, wakers[g] > 0,
           wakers' = [wakers EXCEPT ![g] = @ - 1], Push(Entry(g, t)), batch' = batch
    PROVE  \A f \in Fibers : Coming(f)' = Coming(f)
<1>1. SUFFICES ASSUME NEW f \in Fibers PROVE Coming(f)' = Coming(f)
  OBVIOUS
<1>2. Coming(f)' = wakers'[f] + Cardinality(EntriesOf(f, m_fibers')) + Cardinality(InBatches(f))
  BY DEF Coming, InBatches, EntriesOf
<1>3. Entry(g, t) \in Entries /\ Entry(g, t).fiber = g /\ m_fibers' = Append(m_fibers, Entry(g, t))
  BY EntryType DEF Push
<1>4. Cardinality(EntriesOf(f, m_fibers'))
        = IF g = f THEN Cardinality(EntriesOf(f, m_fibers)) + 1 ELSE Cardinality(EntriesOf(f, m_fibers))
  BY <1>3, PushedOne
<1>5. wakers'[f] = IF g = f THEN wakers[f] - 1 ELSE wakers[f]
  BY DEF ControlType
<1>6. /\ wakers[f] \in Nat /\ Cardinality(EntriesOf(f, m_fibers)) \in Nat
      /\ Cardinality(InBatches(f)) \in Nat
  BY ComingNat DEF CountsAreNat
<1>7. CASE g = f
  BY <1>2, <1>4, <1>5, <1>6, <1>7 DEF Coming
<1>8. CASE g # f
  BY <1>2, <1>4, <1>5, <1>6, <1>8 DEF Coming
<1> QED BY <1>7, <1>8

\* A fiber that awaits nothing has nothing on its way.
LEMMA NothingComing ==
    ASSUME ControlType, FiberInv, NEW f \in Fibers, owed[f] = 0
    PROVE  /\ Coming(f) = 0 /\ wakers[f] = 0
           /\ Cardinality(EntriesOf(f, m_fibers)) = 0 /\ Cardinality(InBatches(f)) = 0
<1>1. Coming(f) <= 0
  BY DEF FiberInv, NoneTooMany
<1>2. /\ wakers[f] \in Nat /\ Cardinality(EntriesOf(f, m_fibers)) \in Nat
      /\ Cardinality(InBatches(f)) \in Nat
  BY ComingNat DEF CountsAreNat
<1> QED BY <1>1, <1>2 DEF Coming

\* Every step keeps what a fiber is owed, where it executes and what batches hold.
LEMMA FiberStep ==
    ASSUME MaxWakeups = 1, Control, FiberInv, SchedNext
    PROVE  FiberInv' /\ \A f \in Fibers : Balanced(f)
<1>0. Control' /\ ControlType /\ ControlType'
  BY ControlStep DEF Control
<1>a. \A t \in Threads : InHand(t)
  BY DEF Control
<1>b. /\ owed \in [Fibers -> {0, 1}]
      /\ Executing /\ AwaitsNothing /\ BatchesReady /\ NoneTooMany
  BY DEF FiberInv
<1>c. \A f \in Fibers : Coming(f) \in Nat /\ owed[f] \in Nat
  BY <1>b, <1>0, ComingNat DEF CountsAreNat
<1> DEFINE Goal == FiberInv' /\ \A f \in Fibers : Balanced(f)
\* Steps that leave the fibers alone.
<1>1. ASSUME UNCHANGED <<m_fibers, batch, wakers, owed, state, cur>>,
             \A t \in Threads : pc'[t] = "fiber" => pc[t] = "fiber"
      PROVE  Goal
  <2>1. \A f : Coming(f)' = Coming(f)
    BY <1>1, ComingSame
  <2>2. NoneTooMany' /\ \A f \in Fibers : Balanced(f)
    BY <1>1, <1>c, <1>b, <2>1 DEF NoneTooMany, Balanced
  <2>3. Executing' /\ AwaitsNothing' /\ BatchesReady'
    BY <1>1, <1>b DEF Executing, AwaitsNothing, BatchesReady
  <2> QED BY <1>1, <1>b, <2>2, <2>3 DEF FiberInv
<1>2. ASSUME NEW t \in Threads, Take(t) PROVE Goal
  <2>1. batch[t] = <<>>
    BY <1>a, <1>2 DEF Take, InHand
  <2>2. \A f \in Fibers : Coming(f)' = Coming(f)
    BY <1>0, <1>2, <2>1, TakenComing
  <2>3. /\ UNCHANGED <<owed, state, cur>> /\ batch' = [batch EXCEPT ![t] = Pick(Taken(t))]
        /\ \A u \in Threads : pc'[u] = "fiber" => pc[u] = "fiber"
    BY <1>0, <1>2 DEF Take, Goto, fiberVars, ControlType
  <2>4. NoneTooMany' /\ \A f \in Fibers : Balanced(f)
    BY <1>b, <1>c, <2>2, <2>3 DEF NoneTooMany, Balanced
  <2>5. Executing' /\ AwaitsNothing'
    BY <1>b, <2>3 DEF Executing, AwaitsNothing
  <2>6. \A k \in DOMAIN Pick(Taken(t)) : state[Pick(Taken(t))[k].fiber] # "EXEC"
    <3>1. Taken(t) \in SUBSET DOMAIN m_fibers /\ \A i \in Taken(t) : state[m_fibers[i].fiber] # "EXEC"
      BY DEF Taken, Runnable
    <3>2. m_fibers \in Seq(Entries)
      BY <1>0 DEF ControlType
    <3>3. \A k \in DOMAIN Pick(Taken(t)) : \E i \in Taken(t) : Pick(Taken(t))[k] = m_fibers[i]
      BY <3>1, <3>2, PickEntries
    <3> QED BY <3>1, <3>3
  <2>7. BatchesReady'
    BY <1>0, <1>b, <2>3, <2>6 DEF BatchesReady, ControlType
  <2> QED BY <1>b, <2>3, <2>4, <2>5, <2>7 DEF FiberInv
<1>3. ASSUME NEW t \in Threads, RunNext(t) PROVE Goal
  <2>1. batch[t] # <<>> /\ batch' = [batch EXCEPT ![t] = Front(@)] /\ UNCHANGED <<m_fibers, wakers>>
    BY <1>3 DEF RunNext, queueVars
  <2>2. Last(batch[t]) = batch[t][Len(batch[t])] /\ Len(batch[t]) \in DOMAIN batch[t]
    BY <1>0, <2>1, FrontAndLast DEF ControlType, Last
  <2>3. PICK f \in Fibers : f = Last(batch[t]).fiber
    BY <1>0, <2>2, InBatchComing DEF BatchesCounted
  <2>4. /\ Coming(f)' = Coming(f) - 1 /\ Coming(f) > 0
        /\ \A g \in Fibers : g # f => Coming(g)' = Coming(g)
        /\ \A i \in DOMAIN Front(batch[t]) : i \in DOMAIN batch[t] /\ Front(batch[t])[i] = batch[t][i]
    <3>1. Coming(f)' = Coming(f) - 1 /\ Coming(f) > 0
      BY <1>0, <2>1, <2>3, RunComing
    <3>2. ASSUME NEW g \in Fibers, g # f PROVE Coming(g)' = Coming(g)
      BY <1>0, <2>1, <2>3, <3>2, RunComing
    <3>3. \A i \in DOMAIN Front(batch[t]) : i \in DOMAIN batch[t] /\ Front(batch[t])[i] = batch[t][i]
      BY <1>0, <2>1, <2>3, RunComing
    <3> QED BY <3>1, <3>2, <3>3
  <2>5. state[f] # "EXEC"
    BY <1>b, <2>2, <2>3 DEF BatchesReady
  <2>6. owed[f] = 1 /\ Coming(f) = 1
    BY <1>b, <1>c, <2>3, <2>4 DEF NoneTooMany
  <2>7. state[f] # "TERM"
    BY <1>b, <2>3, <2>6 DEF AwaitsNothing
  <2>8. /\ state' = [state EXCEPT ![f] = "EXEC"] /\ cur' = [cur EXCEPT ![t] = f]
        /\ owed' = [owed EXCEPT ![f] = @ - 1]
        /\ pc' = [pc EXCEPT ![t] = "fiber"] /\ pc[t] = "dispatch"
    BY <1>3, <2>3, <2>6, <2>7 DEF RunNext, Goto
  <2>9. owed' \in [Fibers -> {0, 1}] /\ owed'[f] = 0 /\ \A g \in Fibers : g # f => owed'[g] = owed[g]
    BY <1>b, <2>3, <2>6, <2>8
  <2>10. NoneTooMany' /\ \A g \in Fibers : Balanced(g)
    <3>1. SUFFICES ASSUME NEW g \in Fibers PROVE Coming(g)' <= owed'[g] /\ Balanced(g)
      BY DEF NoneTooMany
    <3>2. CASE g = f
      BY <2>4, <2>6, <2>9, <3>2 DEF Balanced
    <3>3. CASE g # f
      BY <1>b, <1>c, <2>4, <2>9, <3>3 DEF Balanced, NoneTooMany
    <3> QED BY <3>2, <3>3
  <2>11. cur[t] = None /\ \A u \in Threads : cur[u] # f
    BY <1>a, <1>b, <2>3, <2>5, <2>8 DEF InHand, Executing
  <2>12. Executing'
    BY <1>0, <1>b, <2>3, <2>8, <2>11, ThreadAssumption DEF Executing, ControlType
  <2>13. AwaitsNothing'
    <3>1. \A u \in Threads : pc'[u] = "fiber" => owed'[cur'[u]] = 0
      <4>1. SUFFICES ASSUME NEW u \in Threads, pc'[u] = "fiber" PROVE owed'[cur'[u]] = 0
        OBVIOUS
      <4>2. CASE u = t
        BY <1>0, <2>8, <2>9, <4>2 DEF ControlType
      <4>3. CASE u # t
        <5>1. pc[u] = "fiber" /\ cur'[u] = cur[u]
          BY <1>0, <2>8, <4>1, <4>3 DEF ControlType
        <5>2. cur[u] \in Fibers /\ cur[u] # f /\ owed[cur[u]] = 0
          BY <1>a, <1>b, <2>11, <5>1 DEF InHand, AwaitsNothing
        <5> QED BY <2>9, <5>1, <5>2
      <4> QED BY <4>2, <4>3
    <3>2. \A g \in Fibers : state'[g] = "TERM" => owed'[g] = 0
      BY <1>0, <1>b, <2>8, <2>9 DEF AwaitsNothing, ControlType
    <3> QED BY <3>1, <3>2 DEF AwaitsNothing
  <2>14. BatchesReady'
    <3>0. CountsAreNat' /\ BatchesCounted'
      <4>1. (ControlType => BatchesCounted)' /\ (ControlType => CountsAreNat)'
        BY InBatchComing, ComingNat, PTL
      <4> QED BY <1>0, <4>1
    <3>1. SUFFICES ASSUME NEW u \in Threads, NEW i \in DOMAIN batch'[u],
                          state'[batch'[u][i].fiber] = "EXEC"
                   PROVE  FALSE
      BY DEF BatchesReady
    <3>2. i \in DOMAIN batch[u] /\ batch'[u][i] = batch[u][i]
      BY <1>0, <2>1, <2>4 DEF ControlType
    <3>3. batch[u][i].fiber = f
      BY <1>0, <1>b, <2>8, <3>1, <3>2 DEF BatchesReady, ControlType
    <3>4. Cardinality(InBatches(f)') > 0
      BY <3>0, <3>1, <3>2, <3>3 DEF BatchesCounted
    <3>5. Coming(f)' = 0
      BY <2>4, <2>6
    <3>6. Coming(f)' = wakers'[f] + Cardinality(EntriesOf(f, m_fibers)') + Cardinality(InBatches(f)')
      BY DEF Coming
    <3> QED BY <2>3, <3>0, <3>4, <3>5, <3>6 DEF CountsAreNat
  <2> QED BY <2>9, <2>10, <2>12, <2>13, <2>14 DEF FiberInv
<1>4. ASSUME NEW t \in Threads, SwitchOut(t) \/ FiberReturn(t) PROVE Goal
  <2>1. /\ \E new \in {"HOLD", "TERM"} : /\ state' = [state EXCEPT ![cur[t]] = new]
                                         /\ new = "TERM" => pc[t] = "fiber"
        /\ cur' = [cur EXCEPT ![t] = None] /\ pc[t] \in {"fiber", "leave"}
        /\ UNCHANGED <<m_fibers, batch, wakers, owed>>
        /\ \A u \in Threads : pc'[u] = "fiber" => pc[u] = "fiber" /\ u # t
    BY <1>0, <1>4 DEF SwitchOut, FiberReturn, Back, Goto, queueVars, ControlType
  <2>2. \A f : Coming(f)' = Coming(f)
    BY <2>1, ComingSame
  <2>3. NoneTooMany' /\ \A f \in Fibers : Balanced(f)
    BY <1>b, <1>c, <2>1, <2>2 DEF NoneTooMany, Balanced
  <2>4. cur[t] \in Fibers /\ state[cur[t]] = "EXEC"
    BY <1>a, <1>b, <2>1 DEF InHand, Executing
  <2>5. \A f \in Fibers : state'[f] = "EXEC" <=> state[f] = "EXEC" /\ f # cur[t]
    BY <1>0, <2>1, <2>4 DEF ControlType
  <2>6. \A u \in Threads : cur'[u] = IF u = t THEN None ELSE cur[u]
    BY <1>0, <2>1 DEF ControlType
  <2>7. Executing'
    BY <1>b, <2>4, <2>5, <2>6, ThreadAssumption DEF Executing
  <2>8. AwaitsNothing'
    <3>1. \A f \in Fibers : state'[f] = "TERM" => state[f] = "TERM" \/ (f = cur[t] /\ pc[t] = "fiber")
      BY <1>0, <2>1 DEF ControlType
    <3>2. \A u \in Threads : pc'[u] = "fiber" => owed'[cur'[u]] = 0
      BY <1>b, <2>1, <2>6 DEF AwaitsNothing
    <3> QED BY <1>b, <2>1, <3>1, <3>2 DEF AwaitsNothing
  <2>9. BatchesReady'
    <3>1. \A u \in Threads : \A i \in DOMAIN batch[u] : batch[u][i].fiber \in Fibers
      BY <1>0, InBatchComing DEF BatchesCounted
    <3> QED BY <1>b, <2>1, <2>5, <3>1 DEF BatchesReady
  <2> QED BY <1>b, <2>1, <2>3, <2>7, <2>8, <2>9 DEF FiberInv
<1>5. ASSUME NEW g \in Fibers, wakers[g] > 0, wakers' = [wakers EXCEPT ![g] = @ - 1],
             Push(Entry(g, AnyThread)), UNCHANGED <<threadVars, state, owed>>
      PROVE  Goal
  <2>1. UNCHANGED <<pc, batch, cur>>
    BY <1>5 DEF threadVars
  <2>2. \A f \in Fibers : Coming(f)' = Coming(f)
    BY <1>0, <1>5, <2>1, PromiseKept
  <2>3. NoneTooMany' /\ \A f \in Fibers : Balanced(f)
    BY <1>b, <1>c, <1>5, <2>2 DEF NoneTooMany, Balanced
  <2>4. Executing' /\ AwaitsNothing' /\ BatchesReady'
    BY <1>b, <1>5, <2>1 DEF Executing, AwaitsNothing, BatchesReady
  <2> QED BY <1>b, <1>5, <2>3, <2>4 DEF FiberInv
\* A fiber gives up its thread: it was coming nowhere, and now it is coming once.
<1>6. ASSUME NEW t \in Threads, pc[t] = "fiber", pc' = [pc EXCEPT ![t] = "leave"],
             owed' = [owed EXCEPT ![cur[t]] = 1], UNCHANGED <<batch, cur, state>>,
             Coming(cur[t])' = 1, \A f \in Fibers \ {cur[t]} : Coming(f)' = Coming(f)
      PROVE  Goal
  <2>1. cur[t] \in Fibers /\ owed[cur[t]] = 0 /\ state[cur[t]] = "EXEC"
    BY <1>a, <1>b, <1>6 DEF InHand, AwaitsNothing, Executing
  <2>2. Coming(cur[t]) = 0
    BY <1>0, <2>1, NothingComing
  <2>3. owed' \in [Fibers -> {0, 1}] /\ owed'[cur[t]] = 1 /\ \A f \in Fibers \ {cur[t]} : owed'[f] = owed[f]
    BY <1>b, <1>6, <2>1
  <2>4. NoneTooMany' /\ \A f \in Fibers : Balanced(f)
    <3>1. SUFFICES ASSUME NEW f \in Fibers PROVE Coming(f)' <= owed'[f] /\ Balanced(f)
      BY DEF NoneTooMany
    <3>2. CASE f = cur[t]
      BY <1>6, <2>1, <2>2, <2>3, <3>2 DEF Balanced
    <3>3. CASE f # cur[t]
      BY <1>b, <1>c, <1>6, <2>3, <3>3 DEF Balanced, NoneTooMany
    <3> QED BY <3>2, <3>3
  <2>5. Executing' /\ BatchesReady'
    BY <1>b, <1>6 DEF Executing, BatchesReady
  <2>6. AwaitsNothing'
    <3>1. \A u \in Threads : pc'[u] = "fiber" => pc[u] = "fiber" /\ u # t
      BY <1>0, <1>6 DEF ControlType
    <3>2. \A u \in Threads : pc'[u] = "fiber" => cur[u] \in Fibers /\ cur[u] # cur[t] /\ owed[cur[u]] = 0
      BY <1>a, <1>b, <2>1, <3>1 DEF InHand, AwaitsNothing, Executing
    <3> QED BY <1>b, <1>6, <2>1, <2>3, <3>2 DEF AwaitsNothing
  <2> QED BY <2>3, <2>4, <2>5, <2>6 DEF FiberInv
<1>7. ASSUME NEW t \in Threads, FiberWait(t) PROVE Goal
  <2>1. /\ pc[t] = "fiber" /\ pc' = [pc EXCEPT ![t] = "leave"]
        /\ wakers' = [wakers EXCEPT ![cur[t]] = 1] /\ owed' = [owed EXCEPT ![cur[t]] = 1]
        /\ UNCHANGED <<m_fibers, batch, cur, state>>
    BY <1>7 DEF FiberWait, Goto, queueVars
  <2>2. cur[t] \in Fibers /\ owed[cur[t]] = 0
    BY <1>a, <1>b, <2>1 DEF InHand, AwaitsNothing
  <2>3. \A f : Coming(f)' = wakers'[f] + Cardinality(EntriesOf(f, m_fibers)) + Cardinality(InBatches(f))
    BY <2>1 DEF Coming, InBatches, EntriesOf
  <2>4. Cardinality(EntriesOf(cur[t], m_fibers)) = 0 /\ Cardinality(InBatches(cur[t])) = 0
    BY <1>0, <2>2, NothingComing
  <2>5. wakers'[cur[t]] = 1 /\ \A f \in Fibers \ {cur[t]} : wakers'[f] = wakers[f]
    BY <1>0, <2>1, <2>2 DEF ControlType
  <2>6. Coming(cur[t])' = 1 /\ \A f \in Fibers \ {cur[t]} : Coming(f)' = Coming(f)
    <3>1. Coming(cur[t])' = wakers'[cur[t]] + Cardinality(EntriesOf(cur[t], m_fibers)) + Cardinality(InBatches(cur[t]))
      BY <2>1 DEF Coming, InBatches, EntriesOf
    <3> QED BY <2>3, <2>4, <2>5, <3>1 DEF Coming
  <2> QED BY <1>6, <2>1, <2>6
<1>8. ASSUME NEW t \in Threads, NEW target \in Threads \cup {AnyThread}, FiberYield(t, target) PROVE Goal
  <2>1. /\ pc[t] = "fiber" /\ pc' = [pc EXCEPT ![t] = "leave"]
        /\ owed' = [owed EXCEPT ![cur[t]] = 1]
        /\ m_fibers' = Append(m_fibers, Entry(cur[t], target))
        /\ UNCHANGED <<wakers, batch, cur, state>>
    BY <1>8 DEF FiberYield, Goto, Push
  <2>2. cur[t] \in Fibers /\ owed[cur[t]] = 0
    BY <1>a, <1>b, <2>1 DEF InHand, AwaitsNothing
  <2>3. Entry(cur[t], target) \in Entries /\ Entry(cur[t], target).fiber = cur[t]
    BY <2>2, EntryType
  <2>4. wakers[cur[t]] = 0 /\ Cardinality(EntriesOf(cur[t], m_fibers)) = 0 /\ Cardinality(InBatches(cur[t])) = 0
    BY <1>0, <2>2, NothingComing
  <2>5. ASSUME NEW f \in Fibers
        PROVE  Coming(f)' = wakers[f] + Cardinality(EntriesOf(f, m_fibers')) + Cardinality(InBatches(f))
    BY <2>1 DEF Coming, InBatches, EntriesOf
  <2>6. Cardinality(EntriesOf(cur[t], m_fibers')) = 1
    BY <1>0, <2>1, <2>3, <2>4, PushedOne
  <2>7. Coming(cur[t])' = 1
    <3>1. Coming(cur[t])' = wakers[cur[t]] + Cardinality(EntriesOf(cur[t], m_fibers')) + Cardinality(InBatches(cur[t]))
      BY <2>1 DEF Coming, InBatches, EntriesOf
    <3> QED BY <2>4, <2>6, <3>1
  <2>8. ASSUME NEW f \in Fibers \ {cur[t]} PROVE Coming(f)' = Coming(f)
    <3>1. Cardinality(EntriesOf(f, m_fibers')) = Cardinality(EntriesOf(f, m_fibers))
      BY <1>0, <2>1, <2>3, PushedOne
    <3> QED BY <2>5, <3>1 DEF Coming
  <2> QED BY <1>6, <2>1, <2>7, <2>8
<1>9. Goal
  <2>1. ASSUME NEW t \in Threads,
               Kill(t) \/ Spin(t) \/ IdleCall(t) \/ Exit(t) \/ TickleReturn(t) \/ IdleInside(t) \/ IdleOver(t)
        PROVE  /\ UNCHANGED <<m_fibers, batch, wakers, owed, state, cur>>
               /\ \A u \in Threads : pc'[u] = "fiber" => pc[u] = "fiber"
    <3>1. CASE Kill(t)
      BY <1>0, <3>1 DEF Kill, Goto, fiberVars, ControlType
    <3>2. CASE Spin(t) \/ IdleCall(t) \/ Exit(t) \/ TickleReturn(t)
      BY <1>0, <3>2 DEF Spin, IdleCall, Exit, TickleReturn, Goto, queueVars, fiberVars, ControlType
    <3>3. CASE IdleInside(t) \/ IdleOver(t)
      BY <1>0, <3>3 DEF IdleInside, IdleOver, IdleReturn, IdlePcs, Goto, queueVars, fiberVars, ControlType
    <3> QED BY <2>1, <3>1, <3>2, <3>3
  <2>2. ASSUME (\E n \in Sizes : ThreadCount(n)) \/ StopBegin \/ StopSwap \/ StopJoin \/ StopTickled \/ Start
               \/ (\E c \in Clients : ClientTickled(c))
        PROVE  /\ UNCHANGED <<m_fibers, batch, wakers, owed, state, cur>>
               /\ \A u \in Threads : pc'[u] = "fiber" => pc[u] = "fiber"
    <3>1. CASE (\E n \in Sizes : ThreadCount(n)) \/ Start
      BY <1>0, <3>1 DEF ThreadCount, Start, queueVars, fiberVars
    <3>2. CASE StopBegin \/ StopSwap \/ StopJoin \/ StopTickled \/ (\E c \in Clients : ClientTickled(c))
      BY <1>0, <3>2 DEF StopBegin, StopSwap, StopJoin, StopTickled, ClientTickled, queueVars, threadVars, fiberVars
    <3> QED BY <2>2, <3>1, <3>2
  <2>3. ASSUME NEW t \in Threads, NEW g \in Fibers, FiberSchedule(t, g) PROVE Goal
    BY <1>5, <2>3 DEF FiberSchedule
  <2>4. ASSUME NEW c \in Clients, NEW g \in Fibers, ClientPush(c, g) PROVE Goal
    BY <1>5, <2>4 DEF ClientPush
  <2> HIDE DEF Goal
  <2> QED BY <1>1, <1>2, <1>3, <1>4, <1>7, <1>8, <2>1, <2>2, <2>3, <2>4
          DEF SchedNext, ThreadStep, OutsideStep
<1> QED BY <1>9

-----------------------------------------------------------------------------
(***************************************************************************)
(* The pool.  Its threads are those in the vector, or in stop()'s local    *)
(* copy once that is swapped out.                                          *)
(***************************************************************************)
Pool == IF stopper \in {"join", "stopped"} THEN joining ELSE m_threads

PoolInv ==
    /\ m_stopping <=> stopper # "up"
    /\ stopper \in {"join", "stopped"} => m_threads = {}
    /\ \A t \in Threads \ Pool : pc[t] \in {"none", "exitTickle", "exit", "aborted"}
    /\ \A t \in Pool : /\ pc[t] # "none"
                       /\ pc[t] \in {"exitTickle", "exit"} => idleFiber[t] = "TERM"
    /\ \A t \in Threads : pc[t] = "none" => idleFiber[t] = "INIT"
    /\ stopper = "stopped" => \A t \in joining : pc[t] = "exit"
    /\ IF stopper \in {"join", "stopped"} THEN joining # {}
                                          ELSE Cardinality(m_threads) >= m_threadCount

\* A thread of the pool whose idle fiber has ended knows that there is no work.
EndedWhenQuiet == \A t \in Pool : idleFiber[t] = "TERM" => stopping

\* Every step keeps the threads of the pool, of stop() and of threadCount() apart.
LEMMA PoolStep ==
    ASSUME Careful, Control, PoolInv, SchedNext
    PROVE  PoolInv'
<1>0. ControlType /\ ControlType'
  BY ControlStep DEF Control
<1>a. IsFiniteSet(m_threads) /\ Cardinality(m_threads) \in Nat
  BY <1>0, ThreadAssumption, FS_Subset, FS_CardinalityType DEF ControlType
\* A thread goes on inside run().
<1>1. ASSUME NEW t \in Threads, UNCHANGED <<poolVars, m_stopping, idleFiber>>,
             \E to : /\ pc' = [pc EXCEPT ![t] = to]
                     /\ \/ pc[t] \notin {"none", "exitTickle", "exit", "aborted"} /\ to \notin {"none", "exitTickle", "exit"}
                        \/ pc[t] = "dispatch" /\ idleFiber[t] = "TERM" /\ to # "none"
                        \/ pc[t] = "exitTickle" /\ to = "exit"
      PROVE  PoolInv'
  <2>1. Pool' = Pool /\ UNCHANGED <<stopper, m_threadCount, m_threads, joining>>
    BY <1>1 DEF Pool, poolVars
  <2>2. Pool \in SUBSET Threads
    BY <1>0 DEF Pool, ControlType
  <2>3. PICK to : /\ pc' = [pc EXCEPT ![t] = to]
                  /\ \/ pc[t] \notin {"none", "exitTickle", "exit", "aborted"} /\ to \notin {"none", "exitTickle", "exit"}
                     \/ pc[t] = "dispatch" /\ idleFiber[t] = "TERM" /\ to # "none"
                     \/ pc[t] = "exitTickle" /\ to = "exit"
    BY <1>1
  <2>4. \A u \in Threads : pc'[u] = IF u = t THEN to ELSE pc[u]
    BY <1>0, <2>3 DEF ControlType
  <2>5. CASE t \in Pool
    <3>1. pc[t] # "exit"
      BY <2>3
    <3>2. stopper # "stopped"
      BY <2>5, <3>1 DEF PoolInv, Pool
    <3>3. pc[t] # "none" /\ to # "none" /\ (to \in {"exitTickle", "exit"} => idleFiber[t] = "TERM")
      BY <2>3, <2>5 DEF PoolInv
    <3> QED BY <1>1, <2>1, <2>2, <2>4, <2>5, <3>2, <3>3 DEF PoolInv
  <2>6. CASE t \notin Pool
    <3>1. pc[t] \in {"none", "exitTickle", "exit", "aborted"}
      BY <2>6 DEF PoolInv
    <3>2. pc[t] = "exitTickle" /\ to = "exit"
      BY <2>3, <3>1
    <3>3. stopper = "stopped" => t \notin joining
      BY <2>6 DEF Pool
    <3> QED BY <1>1, <2>1, <2>2, <2>4, <2>6, <3>2, <3>3 DEF PoolInv
  <2> QED BY <2>5, <2>6
<1>2. ASSUME NEW t \in Threads, Kill(t) PROVE PoolInv'
  <2>1. /\ pc[t] = "take" /\ Superfluous
        /\ UNCHANGED <<m_stopping, stopper, m_threadCount, joining>>
    BY <1>2 DEF Kill
  <2>2. stopper \notin {"join", "stopped"}
    <3>1. m_threads = {} => Cardinality(m_threads) = 0
      BY FS_EmptySet
    <3>2. Cardinality(m_threads) > m_threadCount /\ m_threadCount \in Nat
      BY <1>0, <2>1 DEF Superfluous, ControlType
    <3>3. m_threads # {}
      BY <3>1, <3>2
    <3> QED BY <3>3 DEF PoolInv
  <2>3. Pool = m_threads /\ Pool' = m_threads' /\ t \in m_threads
    BY <2>1, <2>2 DEF Pool, PoolInv
  <2>4. CASE idleFiber[t] = "HOLD"
    <3>1. /\ idleFiber' = [idleFiber EXCEPT ![t] = "TERM"] /\ m_threads' = m_threads \ {t}
          /\ \E to \in {"exitTickle", "exit"} : pc' = [pc EXCEPT ![t] = to]
      BY <1>2, <2>3, <2>4 DEF Kill, Goto
    <3>2. Cardinality(m_threads') >= m_threadCount
      <4>1. Cardinality(m_threads') = Cardinality(m_threads) - 1 /\ Cardinality(m_threads) \in Nat
        BY <1>a, <2>3, <3>1, CountOneLess
      <4>2. Cardinality(m_threads) > m_threadCount /\ m_threadCount \in Nat
        BY <1>0, <2>1 DEF Superfluous, ControlType
      <4> QED BY <4>1, <4>2
    <3>3. /\ \A u \in Threads : u # t => pc'[u] = pc[u] /\ idleFiber'[u] = idleFiber[u]
          /\ pc'[t] \in {"exitTickle", "exit"}
      BY <1>0, <3>1 DEF ControlType
    <3>4. m_threads \subseteq Threads
      BY <1>0 DEF ControlType
    <3> QED BY <2>1, <2>2, <2>3, <3>1, <3>2, <3>3, <3>4 DEF PoolInv
  <2>5. CASE idleFiber[t] # "HOLD"
    <3>1. UNCHANGED <<idleFiber, m_threads>> /\ pc' = [pc EXCEPT ![t] = "aborted"]
      BY <1>2, <2>3, <2>5 DEF Kill, Goto
    <3>2. \A u \in Threads : pc'[u] = IF u = t THEN "aborted" ELSE pc[u]
      BY <1>0, <3>1 DEF ControlType
    <3>3. m_threads \subseteq Threads
      BY <1>0 DEF ControlType
    <3> QED BY <2>1, <2>2, <2>3, <3>1, <3>2, <3>3 DEF PoolInv
  <2> QED BY <2>4, <2>5
<1>3. ASSUME NEW t \in Threads, IdleOver(t) PROVE PoolInv'
  <2>1. /\ pc[t] \in IdlePcs /\ pc' = [pc EXCEPT ![t] = "take"]
        /\ \E new : idleFiber' = [idleFiber EXCEPT ![t] = new]
        /\ UNCHANGED <<m_stopping, stopper, m_threadCount, m_threads, joining>>
    BY <1>3 DEF IdleOver, IdleReturn, Goto, poolVars
  <2>2. t \in Pool /\ stopper # "stopped"
    BY <2>1 DEF PoolInv, Pool, IdlePcs
  <2>3. Pool' = Pool /\ Pool \subseteq Threads
    BY <1>0, <2>1 DEF Pool, ControlType
  <2>4. \A u \in Threads : /\ pc'[u] = IF u = t THEN "take" ELSE pc[u]
                           /\ u # t => idleFiber'[u] = idleFiber[u]
    BY <1>0, <2>1 DEF ControlType
  <2> QED BY <2>1, <2>2, <2>3, <2>4 DEF PoolInv
<1>4. ASSUME NEW n \in Sizes, ThreadCount(n) PROVE PoolInv'
  <2>1. stopper = "up" /\ m_threadCount' = n /\ UNCHANGED <<m_stopping, stopper, idleFiber, joining>>
    BY <1>4 DEF ThreadCount, queueVars
  <2>2. Pool = m_threads /\ Pool' = m_threads' /\ m_threads \subseteq Threads
    BY <1>0, <2>1 DEF Pool, ControlType
  <2>3. n \in Nat \ {0} /\ m_threadCount \in Nat
    BY <1>0, ThreadAssumption DEF ControlType
  <2>4. CASE n < m_threadCount
    <3>1. UNCHANGED <<m_threads, pc>>
      BY <1>4, <2>3, <2>4 DEF ThreadCount
    <3>2. Cardinality(m_threads) >= n
      BY <1>a, <2>1, <2>3, <2>4 DEF PoolInv
    <3> QED BY <2>1, <2>2, <3>1, <3>2 DEF PoolInv
  <2>5. CASE n > m_threadCount
    <3>1. PICK kept \in SUBSET m_threads, new \in SUBSET {t \in Threads : pc[t] = "none"} :
                /\ Cardinality(kept) = m_threadCount /\ Cardinality(new) = n - m_threadCount
                /\ m_threads' = kept \cup new
                /\ pc' = [t \in Threads |-> IF t \in new THEN "take" ELSE pc[t]]
      BY <1>4, <2>3, <2>5 DEF ThreadCount
    <3>2. Cardinality(m_threads) = m_threadCount
      BY <1>4, <1>a, <2>1, <2>3, <2>5 DEF ThreadCount, Superfluous, PoolInv
    <3>3. kept = m_threads
      BY <1>a, <3>1, <3>2, FS_Subset
    <3>4. m_threads \cap new = {}
      BY <2>1, <2>2, <3>1 DEF PoolInv
    <3>5. Cardinality(m_threads') >= n
      <4>1. IsFiniteSet(new)
        BY <3>1, ThreadAssumption, FS_Subset
      <4>2. Cardinality(m_threads \cup new) = Cardinality(m_threads) + Cardinality(new) - 0
        BY <1>a, <3>4, <4>1, FS_Union, FS_EmptySet
      <4> QED BY <2>3, <3>1, <3>2, <3>3, <4>2
    <3>6. \A u \in Threads : pc'[u] = IF u \in new THEN "take" ELSE pc[u]
      BY <3>1
    <3>7. m_threads' = m_threads \cup new /\ new \subseteq Threads
      BY <3>1, <3>3
    <3> QED BY <2>1, <2>2, <3>5, <3>6, <3>7 DEF PoolInv
  <2> QED BY <1>4, <2>3, <2>4, <2>5 DEF ThreadCount
<1>5. CASE StopBegin \/ StopTickled
  <2>1. /\ stopper \in {"up", "tickle"} /\ stopper' \in {"tickle", "swap"} /\ m_stopping'
        /\ UNCHANGED <<pc, idleFiber, m_threadCount, m_threads, joining>>
    <3>1. CASE StopBegin
      BY <3>1 DEF StopBegin, threadVars
    <3>2. CASE StopTickled
      BY <3>2 DEF StopTickled, threadVars, queueVars, PoolInv
    <3> QED BY <1>5, <3>1, <3>2
  <2>2. Pool = m_threads /\ Pool' = m_threads
    BY <2>1 DEF Pool
  <2> QED BY <2>1, <2>2 DEF PoolInv
<1>6. CASE StopSwap
  <2>1. /\ stopper = "swap" /\ stopper' = "join" /\ joining' = m_threads /\ m_threads' = {}
        /\ UNCHANGED <<pc, idleFiber, m_threadCount, m_stopping>>
    BY <1>6 DEF StopSwap, threadVars, queueVars
  <2>2. Pool = m_threads /\ Pool' = m_threads
    BY <2>1 DEF Pool
  <2>3. m_threads # {}
    <3>1. m_threads = {} => Cardinality(m_threads) = 0
      BY FS_EmptySet
    <3>2. Cardinality(m_threads) >= m_threadCount /\ m_threadCount \in Nat \ {0}
      BY <1>0, <2>1 DEF PoolInv, ControlType
    <3> QED BY <3>1, <3>2
  <2> QED BY <2>1, <2>2, <2>3 DEF PoolInv
<1>7. CASE StopJoin
  <2>1. /\ stopper = "join" /\ stopper' = "stopped" /\ \A t \in joining : pc[t] = "exit"
        /\ UNCHANGED <<pc, idleFiber, m_threadCount, m_stopping, m_threads, joining>>
    BY <1>7 DEF StopJoin, threadVars, queueVars
  <2>2. Pool = joining /\ Pool' = joining
    BY <2>1 DEF Pool
  <2> QED BY <2>1, <2>2 DEF PoolInv
<1>8. CASE Start
  <2>1. /\ stopper = "stopped" /\ stopper' = "up" /\ m_stopping' = FALSE
        /\ m_threads' \subseteq {t \in Threads : pc[t] = "none"} /\ Cardinality(m_threads') = m_threadCount
        /\ pc' = [t \in Threads |-> IF t \in m_threads' THEN "take" ELSE pc[t]]
        /\ UNCHANGED <<idleFiber, m_threadCount, joining>>
    BY <1>8 DEF Start
  <2>2. Pool = joining /\ Pool' = m_threads'
    BY <2>1 DEF Pool
  <2>3. \A u \in Threads : pc'[u] = IF u \in m_threads' THEN "take" ELSE pc[u]
    BY <2>1
  <2>4. \A u \in Threads : pc[u] \in {"none", "exitTickle", "exit", "aborted"}
    BY <2>1, <2>2 DEF PoolInv
  <2>5. Cardinality(m_threads') >= m_threadCount'
    BY <1>0, <2>1 DEF ControlType
  <2> QED BY <2>1, <2>2, <2>3, <2>4, <2>5 DEF PoolInv
<1>9. ASSUME UNCHANGED <<pc, idleFiber, m_stopping, poolVars>> PROVE PoolInv'
  BY <1>9 DEF PoolInv, Pool, poolVars
<1>10. ASSUME NEW t \in Threads, ThreadStep(t) \/ TickleReturn(t) \/ IdleInside(t), ~Kill(t) PROVE PoolInv'
  <2>1. CASE Take(t)
    <3>1. /\ pc[t] = "take" /\ UNCHANGED <<poolVars, m_stopping, idleFiber>>
          /\ \E to \in {"tickle", "dispatch"} : pc' = [pc EXCEPT ![t] = to]
      BY <2>1 DEF Take, Goto
    <3> QED BY <1>1, <3>1
  <2>2. CASE Spin(t) \/ IdleCall(t)
    BY <1>1, <2>2 DEF Spin, IdleCall, Goto, queueVars
  <2>3. CASE Exit(t)
    <3>1. /\ pc[t] = "dispatch" /\ idleFiber[t] = "TERM" /\ UNCHANGED <<poolVars, m_stopping, idleFiber>>
          /\ \E to \in {"exitTickle", "exit"} : pc' = [pc EXCEPT ![t] = to]
      BY <2>3 DEF Exit, Goto, queueVars
    <3> QED BY <1>1, <3>1
  <2>4. CASE TickleReturn(t)
    <3>1. CASE pc[t] = "tickle"
      BY <1>1, <2>4, <3>1 DEF TickleReturn, Goto, queueVars
    <3>2. CASE pc[t] = "exitTickle"
      BY <1>1, <2>4, <3>2 DEF TickleReturn, Goto, queueVars
    <3> QED BY <2>4, <3>1, <3>2 DEF TickleReturn
  <2>5. CASE RunNext(t)
    <3>1. /\ pc[t] = "dispatch" /\ UNCHANGED <<poolVars, m_stopping, idleFiber>>
          /\ \E to \in {"take", "dispatch", "leave", "fiber"} : pc' = [pc EXCEPT ![t] = to]
      BY <2>5 DEF RunNext, Goto, queueVars
    <3> QED BY <1>1, <3>1
  <2>6. CASE SwitchOut(t) \/ FiberReturn(t)
    <3>1. /\ pc[t] \in {"fiber", "leave"} /\ UNCHANGED <<poolVars, m_stopping, idleFiber>>
          /\ \E to \in {"take", "dispatch"} : pc' = [pc EXCEPT ![t] = to]
      BY <2>6 DEF SwitchOut, FiberReturn, Back, Goto, queueVars
    <3> QED BY <1>1, <3>1
  <2>7. CASE FiberWait(t) \/ \E target \in Threads \cup {AnyThread} : FiberYield(t, target)
    <3>1. /\ pc[t] = "fiber" /\ UNCHANGED <<poolVars, m_stopping, idleFiber>>
          /\ \E to \in {"leave"} : pc' = [pc EXCEPT ![t] = to]
      BY <2>7 DEF FiberWait, FiberYield, Goto, queueVars
    <3> QED BY <1>1, <3>1
  <2>9. CASE \E g \in Fibers : FiberSchedule(t, g)
    BY <1>9, <2>9 DEF FiberSchedule, threadVars
  <2>10. CASE IdleInside(t)
    <3>1. /\ pc[t] \in IdlePcs /\ UNCHANGED <<poolVars, m_stopping, idleFiber>>
          /\ \E to \in IdlePcs : pc' = [pc EXCEPT ![t] = to]
      BY <2>10 DEF IdleInside, Goto, queueVars
    <3> QED BY <1>1, <3>1 DEF IdlePcs
  <2> QED BY <1>10, <2>1, <2>2, <2>3, <2>4, <2>5, <2>6, <2>7, <2>9, <2>10 DEF ThreadStep
<1>11. ASSUME (\E c \in Clients, f \in Fibers : ClientPush(c, f)) \/ (\E c \in Clients : ClientTickled(c))
       PROVE  PoolInv'
  BY <1>9, <1>11 DEF ClientPush, ClientTickled, threadVars, queueVars
<1> QED BY <1>2, <1>3, <1>4, <1>5, <1>6, <1>7, <1>8, <1>10, <1>11 DEF SchedNext, OutsideStep

\* Once there is nothing to do and stop() was called, it stays so: nobody is left
\* who could schedule anything.
LEMMA QuietStays ==
    ASSUME Careful, Control, PoolInv, stopping, SchedNext
    PROVE  stopping' \/ Start
<1>0. /\ ControlType /\ \A t \in Threads : InHand(t)
      /\ m_stopping /\ m_fibers = <<>> /\ m_activeThreadCount = 0 /\ stopper # "up"
  BY DEF Control, stopping, PoolInv
<1>1. \A t \in Threads : ~isActive[t]
  <2>1. Cardinality(Active) = 0 /\ IsFiniteSet(Active)
    BY <1>0, CountersFinite DEF Control
  <2>2. Active = {}
    BY <2>1, FS_EmptySet
  <2> QED BY <2>2 DEF Active
<1>2. \A t \in Threads : pc[t] \notin {"fiber", "leave"} /\ batch[t] = <<>>
  BY <1>0, <1>1 DEF InHand
<1>3. ASSUME UNCHANGED queueVars PROVE stopping'
  BY <1>0, <1>3 DEF stopping, queueVars
<1>4. ASSUME NEW t \in Threads, ThreadStep(t) PROVE stopping'
  <2>1. CASE Kill(t)
    BY <1>0, <1>1, <2>1 DEF Kill, stopping
  <2>2. CASE Take(t)
    <3>1. DOMAIN m_fibers = {}
      BY <1>0
    <3>2. Taken(t) = {} /\ Kept(Taken(t)) = {}
      BY <3>1 DEF Taken, Kept
    <3>3. Pick({}) = <<>>
      <4>1. m_fibers \in Seq(Entries) /\ {} \in SUBSET DOMAIN m_fibers
        BY <1>0 DEF ControlType
      <4> QED BY <4>1, PickEntries
    <3>4. m_fibers' = Pick(Kept(Taken(t))) /\ m_activeThreadCount' = ActiveAfter(t, Taken(t) # {})
          /\ m_stopping' = m_stopping
      BY <2>2 DEF Take
    <3>5. ActiveAfter(t, Taken(t) # {}) = m_activeThreadCount
      BY <1>1, <3>2 DEF ActiveAfter
    <3> QED BY <1>0, <3>2, <3>3, <3>4, <3>5 DEF stopping
  <2>3. CASE Spin(t) \/ Exit(t)
    BY <1>3, <2>3 DEF Spin, Exit
  <2>4. CASE IdleCall(t)
    BY <1>0, <2>4 DEF IdleCall, stopping
  <2>5. ~RunNext(t) /\ ~SwitchOut(t) /\ ~FiberReturn(t) /\ ~FiberWait(t)
    BY <1>2 DEF RunNext, SwitchOut, FiberReturn, FiberWait
  <2>6. (\A g \in Fibers : ~FiberSchedule(t, g)) /\ \A target \in Threads \cup {AnyThread} : ~FiberYield(t, target)
    BY <1>2 DEF FiberSchedule, FiberYield
  <2> QED BY <1>4, <2>1, <2>2, <2>3, <2>4, <2>5, <2>6 DEF ThreadStep
<1>5. ASSUME NEW t \in Threads, TickleReturn(t) \/ IdleInside(t) \/ IdleOver(t) PROVE stopping'
  <2>1. CASE TickleReturn(t) \/ IdleInside(t)
    BY <1>3, <2>1 DEF TickleReturn, IdleInside
  <2>2. CASE IdleOver(t)
    BY <1>0, <2>2 DEF IdleOver, IdleReturn, stopping
  <2> QED BY <1>5, <2>1, <2>2
<1>6. ASSUME OutsideStep \/ StopTickled \/ (\E c \in Clients : ClientTickled(c)) PROVE stopping' \/ Start
  <2>1. ~(\E c \in Clients, f \in Fibers : ClientPush(c, f)) /\ ~(\E n \in Sizes : ThreadCount(n)) /\ ~StopBegin
    BY <1>0 DEF ClientPush, ThreadCount, StopBegin
  <2>2. StopSwap \/ StopJoin \/ StopTickled \/ (\E c \in Clients : ClientTickled(c)) => UNCHANGED queueVars
    BY DEF StopSwap, StopJoin, StopTickled, ClientTickled
  <2> QED BY <1>3, <1>6, <2>1, <2>2 DEF OutsideStep
<1> QED BY <1>4, <1>5, <1>6 DEF SchedNext

\* What a derived scheduler must see to: its idle() ends only when there is nothing to do.
IdleEndsWhenQuiet ==
    \A t \in Threads : pc[t] \in IdlePcs /\ idleFiber[t] # "TERM" /\ idleFiber'[t] = "TERM" => stopping

\* Every step keeps a thread whose idle() has ended in a scheduler that stopped.
LEMMA EndedStep ==
    ASSUME Careful, Control, PoolInv, EndedWhenQuiet, SchedNext, IdleEndsWhenQuiet
    PROVE  EndedWhenQuiet'
<1>0. ControlType /\ ControlType' /\ PoolInv'
  BY ControlStep, PoolStep DEF Control
<1>1. SUFFICES ASSUME NEW t \in Threads, t \in Pool', idleFiber'[t] = "TERM" PROVE stopping'
  <2>1. Pool' \subseteq Threads
    BY <1>0 DEF Pool, ControlType
  <2> QED BY <2>1 DEF EndedWhenQuiet
<1>2. CASE Start
  <2>1. stopper = "stopped" /\ stopper' = "up"
    BY <1>2 DEF Start
  <2>2. t \in m_threads' /\ pc[t] = "none" /\ idleFiber' = idleFiber
    BY <1>1, <1>2, <2>1 DEF Start, Pool
  <2> QED BY <1>1, <2>2 DEF PoolInv
<1>3. CASE ~Start
  <2>1. SUFFICES stopping
    BY <1>3, QuietStays
  <2>2. ASSUME t \in Pool, idleFiber[t] = "TERM" PROVE stopping
    BY <2>2 DEF EndedWhenQuiet
  <2>3. ASSUME NEW u \in Threads, Kill(u) PROVE stopping
    <3>1. CASE idleFiber[u] = "HOLD" /\ u \in m_threads
      <4>1. idleFiber' = [idleFiber EXCEPT ![u] = "TERM"] /\ m_threads' = m_threads \ {u}
            /\ UNCHANGED <<stopper, joining>>
        BY <2>3, <3>1 DEF Kill
      <4>2. stopper \notin {"join", "stopped"}
        BY <3>1 DEF PoolInv
      <4>3. Pool' = m_threads \ {u} /\ Pool = m_threads
        BY <4>1, <4>2 DEF Pool
      <4>4. t # u /\ t \in Pool
        BY <1>1, <4>3
      <4>5. idleFiber[t] = "TERM"
        BY <1>0, <1>1, <4>1, <4>4 DEF ControlType
      <4> QED BY <2>2, <4>4, <4>5
    <3>2. CASE idleFiber[u] # "HOLD" \/ u \notin m_threads
      <4>1. UNCHANGED <<idleFiber, m_threads, stopper, joining>>
        BY <2>3, <3>2 DEF Kill
      <4> QED BY <1>1, <2>2, <4>1 DEF Pool
    <3> QED BY <3>1, <3>2
  <2>4. ASSUME NEW u \in Threads, IdleOver(u) PROVE stopping
    <3>1. Pool' = Pool /\ \E new : idleFiber' = [idleFiber EXCEPT ![u] = new]
      BY <2>4 DEF IdleOver, IdleReturn, poolVars, Pool
    <3>2. CASE t = u
      <4>1. pc[t] \in IdlePcs /\ t \in Pool
        BY <1>1, <2>4, <3>1, <3>2 DEF IdleOver
      <4> QED BY <1>1, <2>2, <4>1 DEF IdleEndsWhenQuiet
    <3>3. CASE t # u
      BY <1>0, <1>1, <2>2, <3>1, <3>3 DEF ControlType
    <3> QED BY <3>2, <3>3
  <2>5. ASSUME UNCHANGED <<idleFiber, Pool>> PROVE stopping
    BY <1>1, <2>2, <2>5
  <2>6. ASSUME NEW u \in Threads, ThreadStep(u) \/ TickleReturn(u) \/ IdleInside(u), ~Kill(u)
        PROVE  UNCHANGED <<idleFiber, Pool>>
    <3>1. UNCHANGED <<idleFiber, poolVars>>
      <4>1. CASE Take(u) \/ Spin(u) \/ IdleCall(u) \/ Exit(u) \/ RunNext(u)
        BY <4>1 DEF Take, Spin, IdleCall, Exit, RunNext
      <4>2. CASE SwitchOut(u) \/ FiberReturn(u) \/ FiberWait(u)
        BY <4>2 DEF SwitchOut, FiberReturn, FiberWait, Back
      <4>3. CASE (\E g \in Fibers : FiberSchedule(u, g)) \/ \E target \in Threads \cup {AnyThread} : FiberYield(u, target)
        BY <4>3 DEF FiberSchedule, FiberYield, threadVars
      <4>4. CASE TickleReturn(u) \/ IdleInside(u)
        BY <4>4 DEF TickleReturn, IdleInside
      <4> QED BY <2>6, <4>1, <4>2, <4>3, <4>4 DEF ThreadStep
    <3> QED BY <3>1 DEF poolVars, Pool
  <2>7. ASSUME NEW n \in Sizes, ThreadCount(n) PROVE stopping
    <3>1. stopper = "up" /\ stopper' = "up" /\ idleFiber' = idleFiber
      BY <2>7 DEF ThreadCount
    <3>2. t \in m_threads' /\ Pool = m_threads
      BY <1>1, <3>1 DEF Pool
    <3>3. m_threads' \subseteq m_threads \cup {u \in Threads : pc[u] = "none"}
      BY <2>7 DEF ThreadCount
    <3>4. pc[t] # "none"
      BY <1>1, <3>1 DEF PoolInv
    <3> QED BY <1>1, <2>2, <3>1, <3>2, <3>3, <3>4
  <2>8. ASSUME StopBegin \/ StopTickled \/ StopSwap \/ StopJoin PROVE UNCHANGED <<idleFiber, Pool>>
    <3>1. CASE StopBegin \/ StopTickled
      BY <3>1 DEF StopBegin, StopTickled, threadVars, Pool
    <3>2. CASE StopSwap \/ StopJoin
      BY <3>2 DEF StopSwap, StopJoin, threadVars, Pool
    <3> QED BY <2>8, <3>1, <3>2
  <2>9. ASSUME (\E c \in Clients, f \in Fibers : ClientPush(c, f)) \/ (\E c \in Clients : ClientTickled(c))
        PROVE  UNCHANGED <<idleFiber, Pool>>
    BY <2>9 DEF ClientPush, ClientTickled, threadVars, poolVars, Pool
  <2> QED BY <1>3, <2>3, <2>4, <2>5, <2>6, <2>7, <2>8, <2>9 DEF SchedNext, OutsideStep
<1> QED BY <1>2, <1>3

-----------------------------------------------------------------------------
(* The initial state.                                                      *)

\* The first state: every thread is at the top of run(), nothing is in hand.
LEMMA InitControl == Init => Control
<1>1. SUFFICES ASSUME Init PROVE Control
  OBVIOUS
<1>2. Active = {} /\ IdleThreads = {}
  BY <1>1 DEF Init, Active, IdleThreads, IdlePcs
<1>3. m_activeThreadCount = Cardinality(Active) /\ m_idleThreadCount = Cardinality(IdleThreads)
  BY <1>1, <1>2, FS_EmptySet DEF Init
<1>4. \A t \in Threads : InHand(t)
  BY <1>1 DEF Init, InHand
<1>5. ControlType
  <2>1. InitialThreads \in Nat \ {0} /\ MaxYields \in Nat
    BY ThreadAssumption, WakeupAssumption, FS_CardinalityType
  <2>2. m_fibers \in Seq(Entries) /\ batch \in [Threads -> Seq(Entries)]
    BY <1>1 DEF Init
  <2>3. yields \in [Fibers -> 0..MaxYields] /\ m_threadCount \in Nat \ {0}
    BY <1>1, <2>1 DEF Init
  <2>4. /\ pc \in [Threads -> {"take", "none"}] /\ cur \in [Threads -> Fibers \cup {None}]
        /\ m_threads \subseteq Threads /\ joining \subseteq Threads
        /\ isActive \in [Threads -> BOOLEAN] /\ dontIdle \in [Threads -> BOOLEAN] /\ m_stopping \in BOOLEAN
    BY <1>1 DEF Init
  <2>5. /\ state \in [Fibers -> {"INIT", "EXEC", "HOLD", "TERM"}] /\ wakers \in [Fibers -> Nat]
        /\ idleFiber \in [Threads -> {"INIT", "HOLD", "TERM"}] /\ client \in [Clients -> {"idle", "tickle"}]
        /\ stopper = "up" /\ tickles = 0
    BY <1>1 DEF Init
  <2> QED BY <2>2, <2>3, <2>4, <2>5 DEF ControlType
<1> QED BY <1>3, <1>4, <1>5 DEF Control

\* The first state: nobody has scheduled anything.
LEMMA InitFiber == Init => FiberInv /\ NoLostWakeup
<1>1. SUFFICES ASSUME Init PROVE FiberInv /\ NoLostWakeup
  OBVIOUS
<1>2. owed = [f \in Fibers |-> 1] /\ wakers = [f \in Fibers |-> 1] /\ state = [f \in Fibers |-> "INIT"]
      /\ m_fibers = <<>> /\ batch = [t \in Threads |-> <<>>] /\ cur = [t \in Threads |-> None]
      /\ \A t \in Threads : pc[t] # "fiber"
  BY <1>1 DEF Init
<1>3. ASSUME NEW f \in Fibers PROVE Coming(f) = 1
  <2>1. EntriesOf(f, m_fibers) = {} /\ \A t \in Threads : EntriesOf(f, batch[t]) = {}
    BY <1>2 DEF EntriesOf
  <2>2. InBatches(f) = {}
    BY <2>1 DEF InBatches
  <2> QED BY <1>2, <2>1, <2>2, FS_EmptySet DEF Coming
<1>4. NoneTooMany /\ NoLostWakeup
  BY <1>2, <1>3 DEF NoneTooMany, NoLostWakeup
<1>5. Executing /\ AwaitsNothing /\ BatchesReady
  BY <1>2, ThreadAssumption DEF Executing, AwaitsNothing, BatchesReady
<1> QED BY <1>2, <1>4, <1>5 DEF FiberInv

\* The first state: all threads of the pool run.
LEMMA InitPool == Init => PoolInv /\ EndedWhenQuiet
<1>1. SUFFICES ASSUME Init PROVE PoolInv /\ EndedWhenQuiet
  OBVIOUS
<1>2. Pool = m_threads /\ m_threads \subseteq Threads
  BY <1>1 DEF Init, Pool
<1>3. \A t \in Threads : idleFiber[t] = "INIT" /\ pc[t] = IF t \in m_threads THEN "take" ELSE "none"
  BY <1>1 DEF Init
<1>4. /\ ~m_stopping /\ stopper = "up" /\ Cardinality(m_threads) = m_threadCount /\ m_threadCount \in Nat
  <2>1. InitialThreads \in Nat
    BY ThreadAssumption, FS_CardinalityType
  <2> QED BY <1>1, <2>1 DEF Init
<1>5. PoolInv
  BY <1>2, <1>3, <1>4 DEF PoolInv
<1>6. EndedWhenQuiet
  BY <1>2, <1>3 DEF EndedWhenQuiet
<1> QED BY <1>5, <1>6

-----------------------------------------------------------------------------
(* What the invariants say.                                                *)

\* The count that stopping() reads is the one of ActiveCountExact.
LEMMA ControlCounts == Control => ActiveCountExact
  BY DEF Control, ActiveCountExact, Active, InHand

\* The type invariant follows.
LEMMA ControlTypes == Control /\ owed \in [Fibers -> {0, 1}] => SchedulerTypeOK
<1>1. SUFFICES ASSUME Control, owed \in [Fibers -> {0, 1}] PROVE SchedulerTypeOK
  OBVIOUS
<1>2. m_activeThreadCount \in Nat /\ m_idleThreadCount \in Nat
  BY <1>1, CountersFinite, FS_CardinalityType DEF Control
<1>3. ControlType /\ owed \in [Fibers -> Nat]
  BY <1>1 DEF Control
<1> QED BY <1>2, <1>3 DEF ControlType, SchedulerTypeOK, Entries

\* No fiber is switched to while it executes, or executes on two threads.
LEMMA FiberRuns == Control /\ FiberInv => NoDoubleRun /\ OneThreadPerFiber
<1>1. SUFFICES ASSUME Control, FiberInv PROVE NoDoubleRun /\ OneThreadPerFiber
  OBVIOUS
<1>2. ControlType /\ Executing /\ BatchesReady
  BY <1>1 DEF Control, FiberInv
<1>3. NoDoubleRun
  <2>1. SUFFICES ASSUME NEW t \in Threads, batch[t] # <<>> PROVE state[Last(batch[t]).fiber] # "EXEC"
    BY DEF NoDoubleRun
  <2>2. Last(batch[t]) = batch[t][Len(batch[t])] /\ Len(batch[t]) \in DOMAIN batch[t]
    BY <1>2, <2>1, FrontAndLast DEF ControlType, Last
  <2> QED BY <1>2, <2>2 DEF BatchesReady
<1>4. OneThreadPerFiber
  <2>1. SUFFICES ASSUME NEW f \in Fibers
                 PROVE  Cardinality({t \in Threads : cur[t] = f}) = IF state[f] = "EXEC" THEN 1 ELSE 0
    BY DEF OneThreadPerFiber
  <2>2. CASE state[f] = "EXEC"
    <3>1. PICK t \in Threads : cur[t] = f
      BY <1>2, <2>2 DEF Executing
    <3>2. {u \in Threads : cur[u] = f} = {t}
      BY <1>2, <3>1 DEF Executing
    <3> QED BY <2>2, <3>2, FS_Singleton
  <2>3. CASE state[f] # "EXEC"
    <3>1. {u \in Threads : cur[u] = f} = {}
      BY <1>2, <2>3 DEF Executing
    <3> QED BY <2>3, <3>1, FS_EmptySet
  <2> QED BY <2>2, <2>3
<1> QED BY <1>3, <1>4

\* Every thread that stop() joined had seen that there was nothing to do.
LEMMA PoolDrains == Control /\ FiberInv /\ PoolInv /\ EndedWhenQuiet => StopDrains
<1>1. SUFFICES ASSUME Control, FiberInv, PoolInv, EndedWhenQuiet, stopper = "stopped"
               PROVE  /\ m_fibers = <<>> /\ m_activeThreadCount = 0
                      /\ \A f \in Fibers : state[f] # "EXEC"
                      /\ m_idleThreadCount = 0
  BY DEF StopDrains
<1>2. Pool = joining /\ joining # {} /\ \A t \in joining : pc[t] = "exit"
  BY <1>1 DEF Pool, PoolInv
<1>3. stopping
  BY <1>1, <1>2 DEF PoolInv, EndedWhenQuiet
<1>4. m_fibers = <<>> /\ m_activeThreadCount = 0
  BY <1>3 DEF stopping
<1>5. Active = {}
  <2>1. Cardinality(Active) = 0 /\ IsFiniteSet(Active)
    BY <1>1, <1>4, CountersFinite DEF Control
  <2> QED BY <2>1, FS_EmptySet
<1>6. \A f \in Fibers : state[f] # "EXEC"
  <2>1. SUFFICES ASSUME NEW f \in Fibers, state[f] = "EXEC" PROVE FALSE
    OBVIOUS
  <2>2. PICK t \in Threads : cur[t] = f
    BY <1>1, <2>1 DEF FiberInv, Executing
  <2>3. isActive[t]
    BY <1>1, <2>2, ThreadAssumption DEF Control, InHand
  <2> QED BY <1>5, <2>3 DEF Active
<1>7. m_idleThreadCount = 0
  <2>1. IdleThreads = {}
    BY <1>1, <1>2 DEF IdleThreads, IdlePcs, PoolInv
  <2> QED BY <1>1, <2>1, FS_EmptySet DEF Control
<1> QED BY <1>4, <1>6, <1>7

\* Steps that change nothing of Scheduler.
LEMMA SchedStutter ==
    ASSUME UNCHANGED schedVars
    PROVE  /\ Control' = Control /\ FiberInv' = FiberInv /\ NoLostWakeup' = NoLostWakeup
           /\ PoolInv' = PoolInv /\ EndedWhenQuiet' = EndedWhenQuiet
<1> USE DEF schedVars, queueVars, threadVars, fiberVars, poolVars
<1>1. Control' = Control
  BY DEF Control, ControlType, InHand, Active, IdleThreads
<1>2. FiberInv' = FiberInv /\ NoLostWakeup' = NoLostWakeup
  BY DEF FiberInv, NoLostWakeup, Executing, AwaitsNothing, BatchesReady, NoneTooMany, Coming, InBatches, EntriesOf
<1>3. PoolInv' = PoolInv /\ EndedWhenQuiet' = EndedWhenQuiet
  BY DEF PoolInv, EndedWhenQuiet, Pool, stopping
<1> QED BY <1>1, <1>2, <1>3

\* What is owed stays what is coming.
LEMMA BalanceKept ==
    ASSUME Control, FiberInv, Control', FiberInv', NoLostWakeup, \A f \in Fibers : Balanced(f)
    PROVE  NoLostWakeup'
<1>1. SUFFICES ASSUME NEW f \in Fibers PROVE Coming(f)' = owed'[f]
  BY DEF NoLostWakeup
<1>2. Coming(f)' \in Nat /\ Coming(f) \in Nat
  <2>1. (ControlType => CountsAreNat)'
    BY ComingNat, PTL
  <2> QED BY <2>1, ComingNat DEF Control, CountsAreNat
<1>3. owed[f] \in Nat /\ owed'[f] \in Nat
  BY DEF FiberInv
<1> QED BY <1>2, <1>3 DEF Balanced, NoLostWakeup
=============================================================================
