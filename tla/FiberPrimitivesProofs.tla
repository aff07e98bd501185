----------------------- MODULE FiberPrimitivesProofs -----------------------
(***************************************************************************)
(* Proofs about FiberPrimitives, for any fibers, any bounds on the calls,  *)
(* any jobs and workers: one inductive invariant per component, and from   *)
(* them the safety properties that the fiber_primitives run checks, but    *)
(* for those of Future.                                                    *)
(***************************************************************************)
EXTENDS FiberPrimitives, FiniteSetTheorems, TLAPS

-----------------------------------------------------------------------------
(* The invariants.                                                         *)

\* A blocked fiber is in the list or scheduled, once.
OnePlace == \A f \in Fibers : Times(m_waiters, f) + scheduled[f] = IF blocked[f] THEN 1 ELSE 0

ListType == BlockingTypeOK /\ m_waiters \in Seq(Fibers)

Released == {f \in Fibers : scheduled[f] > 0}

SemInv ==
    /\ ListType /\ OnePlace
    /\ m_concurrency \in Nat /\ entered \in Nat /\ notified \in Nat
    /\ m_concurrency > 0 => m_waiters = <<>>
    /\ m_concurrency + entered + Cardinality(Released) = initialConcurrency + notified

\* Only the owner is scheduled, and it has not locked yet.
RecInv ==
    /\ ListType /\ OnePlace
    /\ m_owner \in Fibers \cup {None} /\ m_recursion \in Nat /\ depth \in [Fibers -> Nat]
    /\ \A f \in Fibers : /\ scheduled[f] > 0 => m_owner = f /\ depth[f] = 0 /\ m_recursion = 1
                         /\ depth[f] > 0 => m_owner = f /\ m_recursion = depth[f]
                         /\ m_owner = f => Times(m_waiters, f) = 0
                                           /\ (depth[f] > 0 \/ scheduled[f] > 0)
    /\ m_owner # None => m_recursion > 0
    /\ m_owner = None => m_waiters = <<>>

\* The set() calls that hold f in their local.
Holders(f) == {g \in Fibers : Times(runnables[g], f) = 1}

\* Fibers that were let go and have not returned.
LetGo == {f \in Fibers : blocked[f] /\ Times(m_waiters, f) = 0}

EventInv ==
    /\ ListType
    /\ m_signalled \in BOOLEAN /\ passed \in Nat /\ sets \in Nat
    /\ runnables \in [Fibers -> Seq(Fibers)]
    /\ \A f, g \in Fibers : Times(runnables[g], f) <= 1
    /\ \A f \in Fibers : Times(m_waiters, f) + scheduled[f] + Cardinality(Holders(f))
                         = IF blocked[f] THEN 1 ELSE 0
    /\ m_signalled => m_waiters = <<>>

AutoInv == passed + Cardinality(LetGo) + (IF m_signalled THEN 1 ELSE 0) <= sets

\* Where the workers of parallel_do() and parallel_foreach() are: counted, on the way to
\* schedule the caller, in their functor.
Counted == {w \in Workers : worker[w] \in {"schedule", "exit", "TERM"}}
Last == {w \in Workers : worker[w] = "schedule"}
InFunctor == {w \in Workers : worker[w] = "functor"}
Gone == \A w \in Workers : worker[w] \in {"exit", "TERM"}

ParType ==
    /\ foreach \in BOOLEAN /\ (foreach \/ Workers = Jobs)
    /\ worker \in [Workers -> {"sem", "functor", "count", "schedule", "exit", "TERM"}]
    /\ taken \in [Workers -> Nat] /\ next \in Nat \ {0}
    /\ completed \in Int /\ concurrency \in Nat /\ queued \in {0, 1}
    /\ caller \in {"calling", "yielded", "returning", "returned"}

\* While the caller waits, the counter counts, and what has been done or begun is what
\* workers did; none stops early.
Counting == completed = IF foreach THEN Cardinality(Workers) - Cardinality(Counted)
                        ELSE Cardinality(Counted)
WorkDone ==
    /\ ~foreach => ended = {w \in Workers : worker[w] = "count"} \cup Counted
    /\ foreach => /\ ended \cup {taken[w] : w \in InFunctor} = 1 .. next - 1
                  /\ next \in Jobs \/ next - 1 \in Jobs \/ next = 1
                  /\ (\E w \in Workers : worker[w] = "count" \/ w \in Counted)
                        => next \notin Jobs \/ exception # {}

\* One worker at most is to schedule the caller, all have counted then; once it was
\* scheduled nobody is left.
Telling ==
    /\ caller # "yielded" => Gone /\ queued = 0
    /\ caller = "returning" \/ queued = 1 => Gone /\ Workers # {}
    /\ \A v, w \in Last : v = w
    /\ Last # {} => Counted = Workers /\ queued = 0
    /\ caller = "calling" /\ ~foreach => \A w \in Workers : worker[w] = "TERM"

Permits == IF foreach THEN concurrency = parallelism
           ELSE concurrency + Cardinality(InFunctor) = parallelism

ParInv ==
    /\ ParType /\ Telling /\ Permits
    /\ caller \in {"yielded", "returning"} => Counting /\ WorkDone

Everyone == Threads \cup Stacks
States == {"INIT", "HOLD", "EXEC", "EXCEPT", "TERM"}
Contexts == {"entry", "running", "call", "yield", "yieldTo", "none"}

SwitchType ==
    /\ t_fiber \in Everyone
    /\ m_state \in [Everyone -> States] /\ context \in [Everyone -> Contexts]
    /\ m_outer \in [Everyone -> Everyone \cup {NoFiber}]
    /\ m_terminateOuter \in [Everyone -> Everyone \cup {NoFiber}]
    /\ aborting \in [Everyone -> Everyone \cup {NoFiber}]

\* The state word of a fiber, and the chain of fibers that wait in call().
StateWord(f) ==
    /\ context[f] = "running" <=> f = t_fiber
    /\ context[f] = "entry" => m_state[f] = "INIT"
    /\ context[f] \in {"yield", "yieldTo"} <=> m_state[f] = "HOLD"
    /\ context[f] = "none" => m_state[f] \in {"TERM", "EXCEPT"}
    /\ context[f] = "call" <=> \E g \in Everyone : m_outer[g] = f
    /\ context[f] = "call" => m_state[f] = "EXEC"
    /\ m_outer[f] = NoFiber \/ context[f] \in {"running", "call", "yieldTo"}
Chain == \A f, g \in Everyone : m_outer[f] = m_outer[g] /\ m_outer[f] # NoFiber => f = g

\* Coroutine::reset() is left only by the coroutine's end.
Aborts(f) ==
    aborting[f] # NoFiber =>
        \/ t_fiber = aborting[f] /\ m_outer[t_fiber] = f /\ m_state[t_fiber] = "EXCEPT"
        \/ t_fiber = f /\ m_state[f] = "EXEC" /\ context[aborting[f]] = "none"

SwitchInv ==
    /\ SwitchType /\ m_state[t_fiber] \in {"EXEC", "EXCEPT"} /\ Chain
    /\ \A f \in Everyone : StateWord(f) /\ Aborts(f)

Anyone == Scheduled \cup {Main}

CallerType ==
    /\ m_fibers \in Seq(Anyone) /\ batch \in Seq(Anyone)
    /\ m_activeThreadCount \in Nat /\ isActive \in BOOLEAN /\ stray \in BOOLEAN
    /\ root \in {"INIT", "EXEC", "HOLD", "TERM", "EXCEPT"}
    /\ now \in Anyone \cup {Root, NoFiber} /\ back \in Anyone \cup {NoFiber}
    /\ at \in {"take", "work", "idle", "wait"}
    /\ calls \in [Anyone -> {"client", "wait", "dispatch", "stop"}]
    /\ wakers \in [Anyone -> Nat] /\ owed \in [Anyone -> Nat] /\ late \in Nat

\* What fibers are due is in somebody's hands: of who is to schedule them, of the queue,
\* of run().
Due == \A f \in Anyone : wakers[f] + Times(m_fibers, f) + Times(batch, f) = owed[f]

ActiveCount == m_activeThreadCount = IF isActive THEN 1 ELSE 0

\* What run() has in hand, by where it is: a batch only while it works or is suspended
\* in a fiber; nothing once it ended; and behind its last look at the queue only what
\* the other thread has scheduled since.
InHand ==
    /\ root = "EXEC" => now \in {Root, NoFiber}
    /\ now = Root => root = "EXEC"
    /\ root = "HOLD" => isActive
    /\ root \notin {"EXEC", "HOLD"} => ~isActive /\ batch = <<>>
    /\ root \in {"EXEC", "HOLD"} => /\ at = "work" => isActive /\ batch # <<>>
                                    /\ at # "work" => batch = <<>>
                                    /\ at \in {"idle", "wait"} => ~isActive
    /\ root = "EXEC" /\ at \in {"idle", "wait"} => Len(m_fibers) <= late

Dispatching ==
    /\ \A f \in Anyone : calls[f] = "dispatch" => f = Main
    /\ calls[Main] = "dispatch" /\ owed[Main] > 0 => stray
    /\ outcome = "left" => stray

CallerInv == CallerType /\ Due /\ ActiveCount /\ InHand /\ Dispatching

PrimitivesInv ==
    /\ use \in {"semaphore", "recursive", "auto", "manual", "future", "parallel", "fiber", "hijack"}
    /\ use = "semaphore" => SemInv
    /\ use = "recursive" => RecInv
    /\ use \in {"auto", "manual"} => EventInv
    /\ use = "auto" => AutoInv
    /\ ParInv /\ SwitchInv /\ CallerInv

-----------------------------------------------------------------------------
(* How often a fiber stands in a list.                                     *)

\* Times is a number, and 0 for every fiber only of an empty list.
LEMMA TimesType ==
    ASSUME NEW S, NEW s \in Seq(S), NEW x
    PROVE  /\ IsFiniteSet({i \in DOMAIN s : s[i] = x})
           /\ Times(s, x) \in Nat
           /\ Times(s, x) = 0 <=> \A i \in 1 .. Len(s) : s[i] # x
<1> DEFINE A == {i \in DOMAIN s : s[i] = x}
<1>1. DOMAIN s = 1 .. Len(s) /\ Len(s) \in Nat
  OBVIOUS
<1>2. IsFiniteSet(1 .. Len(s))
  BY <1>1, FS_Interval
<1>3. IsFiniteSet(A)
  BY <1>1, <1>2, FS_Subset
<1>4. Cardinality(A) \in Nat /\ (Cardinality(A) = 0 <=> A = {})
  BY <1>3, FS_CardinalityType, FS_EmptySet
<1> QED BY <1>1, <1>3, <1>4 DEF Times

\* What is in two lists is in their concatenation.
LEMMA TimesConcat ==
    ASSUME NEW S, NEW s \in Seq(S), NEW t \in Seq(S), NEW x
    PROVE  Times(s \o t, x) = Times(s, x) + Times(t, x)
<1> DEFINE A == {i \in DOMAIN s : s[i] = x}
           T == {i \in DOMAIN t : t[i] = x}
           B == {i \in (Len(s) + 1) .. (Len(s) + Len(t)) : (s \o t)[i] = x}
           C == {i \in DOMAIN (s \o t) : (s \o t)[i] = x}
           g == [i \in T |-> i + Len(s)]
<1>1. /\ DOMAIN s = 1 .. Len(s) /\ Len(s) \in Nat /\ DOMAIN t = 1 .. Len(t) /\ Len(t) \in Nat
      /\ s \o t \in Seq(S) /\ Len(s \o t) = Len(s) + Len(t)
      /\ DOMAIN (s \o t) = 1 .. (Len(s) + Len(t))
  OBVIOUS
<1>2. /\ \A i \in 1 .. Len(s) : (s \o t)[i] = s[i]
      /\ \A i \in (Len(s) + 1) .. (Len(s) + Len(t)) : (s \o t)[i] = t[i - Len(s)]
  BY <1>1
<1>3. IsFiniteSet(A) /\ IsFiniteSet(T)
  BY TimesType
<1>4. g \in [T -> B]
  BY <1>1, <1>2
<1>5. \A i, j \in T : g[i] = g[j] => i = j
  BY <1>1
<1>6. \A j \in B : \E i \in T : g[i] = j
  <2>1. TAKE j \in B
  <2>2. j - Len(s) \in T /\ g[j - Len(s)] = j
    BY <1>1, <1>2
  <2> QED BY <2>2
<1> HIDE DEF g
<1>7. A \cup B = C /\ A \cap B = {}
  BY <1>1, <1>2
<1> HIDE DEF A, B, C, T
<1>8. g \in Bijection(T, B)
  BY <1>4, <1>5, <1>6 DEF Bijection, Injection, Surjection, IsInjective
<1>9. IsFiniteSet(B) /\ Cardinality(B) = Cardinality(T)
  BY <1>3, <1>8, FS_Bijection DEF ExistsBijection
<1>10. Cardinality(A) \in Nat /\ Cardinality(B) \in Nat
  BY <1>3, <1>9, FS_CardinalityType
<1>11. Cardinality(C) = Cardinality(A) + Cardinality(B) - 0
  <2>1. Cardinality(A \cup B) = Cardinality(A) + Cardinality(B) - Cardinality(A \cap B)
    BY <1>3, <1>9, FS_Union
  <2> QED BY <1>7, <2>1, FS_EmptySet, Zenon
<1>12. Cardinality(C) = Cardinality(A) + Cardinality(T)
  BY <1>9, <1>10, <1>11
<1> QED BY <1>12 DEF Times, A, C, T

\* A list of one, and the empty list.
LEMMA TimesSingle ==
    ASSUME NEW e, NEW x
    PROVE  /\ Times(<<e>>, x) = IF x = e THEN 1 ELSE 0
           /\ Times(<<>>, x) = 0
<1>1. {i \in DOMAIN <<e>> : <<e>>[i] = x} = IF x = e THEN {1} ELSE {}
  OBVIOUS
<1>2. {i \in DOMAIN <<>> : <<>>[i] = x} = {}
  OBVIOUS
<1>3. Cardinality({1}) = 1 /\ Cardinality({}) = 0
  BY FS_Singleton, FS_EmptySet
<1>4. Times(<<e>>, x) = IF x = e THEN 1 ELSE 0
  <2>1. CASE x = e
    BY <1>1, <1>3, <2>1, Zenon DEF Times
  <2>2. CASE x # e
    BY <1>1, <1>3, <2>2, Zenon DEF Times
  <2> QED BY <2>1, <2>2
<1>5. Times(<<>>, x) = 0
  BY <1>2, <1>3, Zenon DEF Times
<1> QED BY <1>4, <1>5

\* One more at the end of a list, one less at its front.
LEMMA TimesAppend ==
    ASSUME NEW S, NEW s \in Seq(S), NEW e \in S, NEW x
    PROVE  Times(Append(s, e), x) = Times(s, x) + IF x = e THEN 1 ELSE 0
<1>1. Append(s, e) = s \o <<e>> /\ <<e>> \in Seq(S)
  OBVIOUS
<1>2. Times(s \o <<e>>, x) = Times(s, x) + Times(<<e>>, x)
  BY <1>1, TimesConcat
<1> QED BY <1>1, <1>2, TimesSingle, Zenon

LEMMA TimesTail ==
    ASSUME NEW S, NEW s \in Seq(S), s # <<>>, NEW x
    PROVE  /\ Head(s) \in S /\ Tail(s) \in Seq(S)
           /\ Times(s, x) = Times(Tail(s), x) + IF x = Head(s) THEN 1 ELSE 0
<1>1. /\ Head(s) \in S /\ Tail(s) \in Seq(S) /\ <<Head(s)>> \in Seq(S)
      /\ s = <<Head(s)>> \o Tail(s)
  OBVIOUS
<1>2. Times(<<Head(s)>> \o Tail(s), x) = Times(<<Head(s)>>, x) + Times(Tail(s), x)
  BY <1>1, TimesConcat
<1>3. Times(Tail(s), x) \in Nat
  BY <1>1, TimesType
<1>4. Times(s, x) = Times(<<Head(s)>>, x) + Times(Tail(s), x)
  BY <1>1, <1>2, Zenon
<1>5. Times(<<Head(s)>>, x) = IF x = Head(s) THEN 1 ELSE 0
  BY TimesSingle
<1> QED BY <1>1, <1>3, <1>4, <1>5

\* A list divided in two.
LEMMA TimesSplit ==
    ASSUME NEW S, NEW s \in Seq(S), NEW n \in 0 .. Len(s), NEW x
    PROVE  /\ SubSeq(s, 1, n) \in Seq(S) /\ SubSeq(s, n + 1, Len(s)) \in Seq(S)
           /\ Times(s, x) = Times(SubSeq(s, 1, n), x) + Times(SubSeq(s, n + 1, Len(s)), x)
<1>1. SubSeq(s, 1, n) \in Seq(S) /\ SubSeq(s, n + 1, Len(s)) \in Seq(S)
  OBVIOUS
<1>2. s = SubSeq(s, 1, n) \o SubSeq(s, n + 1, Len(s))
  <2> DEFINE a == SubSeq(s, 1, n)
             b == SubSeq(s, n + 1, Len(s))
  <2>1. /\ Len(s) \in Nat /\ n \in Nat /\ n <= Len(s)
        /\ a \in Seq(S) /\ Len(a) = n /\ \A i \in 1 .. n : a[i] = s[i]
        /\ b \in Seq(S) /\ Len(b) = Len(s) - n /\ \A i \in 1 .. Len(s) - n : b[i] = s[n + i]
    OBVIOUS
  <2> HIDE DEF a, b
  <2>2. a \o b \in Seq(S) /\ Len(a \o b) = Len(s) /\ DOMAIN (a \o b) = 1 .. Len(s)
    BY <2>1
  <2>3. ASSUME NEW i \in 1 .. Len(s) PROVE (a \o b)[i] = s[i]
    <3>1. CASE i <= n
      BY <2>1, <3>1
    <3>2. CASE i > n
      <4>1. (a \o b)[i] = b[i - n] /\ i - n \in 1 .. Len(s) - n
        BY <2>1, <3>2
      <4> QED BY <2>1, <4>1
    <3> QED BY <2>1, <3>1, <3>2
  <2>4. DOMAIN s = 1 .. Len(s)
    OBVIOUS
  <2>5. a \o b = s
    BY <2>2, <2>3, <2>4
  <2> QED BY <2>5 DEF a, b
<1>3. Times(SubSeq(s, 1, n) \o SubSeq(s, n + 1, Len(s)), x)
        = Times(SubSeq(s, 1, n), x) + Times(SubSeq(s, n + 1, Len(s)), x)
  BY <1>1, TimesConcat
<1> QED BY <1>1, <1>2, <1>3, Zenon

-----------------------------------------------------------------------------
(* FiberSemaphore and RecursiveFiberMutex: the steps of the list.          *)

\* A fiber joins the list and blocks.
LEMMA QueueStep ==
    ASSUME ListType, OnePlace, NEW f \in Fibers, Runs(f), Block(f),
           m_waiters' = Append(m_waiters, f)
    PROVE  /\ ListType' /\ OnePlace' /\ Released' = Released
           /\ \A g \in Fibers : Times(m_waiters', g)
                                  = Times(m_waiters, g) + IF g = f THEN 1 ELSE 0
<1>1. m_waiters' \in Seq(Fibers)
  BY DEF ListType
<1>2. ASSUME NEW g \in Fibers
      PROVE  Times(m_waiters', g) = Times(m_waiters, g) + IF g = f THEN 1 ELSE 0
  BY TimesAppend DEF ListType
<1>3. ASSUME NEW g \in Fibers
      PROVE  Times(m_waiters', g) + scheduled'[g] = IF blocked'[g] THEN 1 ELSE 0
  <2>1. /\ Times(m_waiters, g) \in Nat /\ scheduled[g] \in Nat /\ blocked[g] \in BOOLEAN
        /\ Times(m_waiters, g) + scheduled[g] = IF blocked[g] THEN 1 ELSE 0
    BY TimesType DEF ListType, BlockingTypeOK, OnePlace
  <2>2. /\ scheduled'[g] = scheduled[g] /\ ~blocked[f]
        /\ blocked'[g] = IF g = f THEN TRUE ELSE blocked[g]
    BY DEF Block, Runs, ListType, BlockingTypeOK
  <2> QED BY <1>2, <2>1, <2>2
<1>4. Released' = Released /\ BlockingTypeOK'
  BY DEF Block, Released, ListType, BlockingTypeOK
<1> QED BY <1>1, <1>2, <1>3, <1>4 DEF ListType, OnePlace

\* The first fiber of the list is taken out and scheduled.
LEMMA HandOverStep ==
    ASSUME ListType, OnePlace, m_waiters # <<>>,
           m_waiters' = Tail(m_waiters), schedule(Head(m_waiters))
    PROVE  LET h == Head(m_waiters)
           IN /\ ListType' /\ OnePlace'
              /\ h \in Fibers /\ h \notin Released /\ Released' = Released \cup {h}
              /\ scheduled[h] = 0 /\ blocked[h]
              /\ \A g \in Fibers : Times(m_waiters', g)
                                     = Times(m_waiters, g) - IF g = h THEN 1 ELSE 0
<1> DEFINE h == Head(m_waiters)
<1>1. h \in Fibers /\ m_waiters' \in Seq(Fibers)
  BY DEF ListType
<1>2. ASSUME NEW g \in Fibers
      PROVE  /\ Times(m_waiters, g) \in Nat /\ Times(m_waiters', g) \in Nat
             /\ Times(m_waiters, g) = Times(m_waiters', g) + IF g = h THEN 1 ELSE 0
             /\ scheduled[g] \in Nat /\ blocked[g] \in BOOLEAN
             /\ Times(m_waiters, g) + scheduled[g] = IF blocked[g] THEN 1 ELSE 0
             /\ scheduled'[g] = scheduled[g] + IF g = h THEN 1 ELSE 0
  <2>1. Times(m_waiters, g) = Times(Tail(m_waiters), g) + IF g = Head(m_waiters) THEN 1 ELSE 0
    BY TimesTail DEF ListType
  <2>2. Times(m_waiters, g) \in Nat /\ Times(m_waiters', g) \in Nat
    BY <1>1, TimesType DEF ListType
  <2>3. /\ scheduled[g] \in Nat /\ blocked[g] \in BOOLEAN
        /\ Times(m_waiters, g) + scheduled[g] = IF blocked[g] THEN 1 ELSE 0
    BY DEF ListType, BlockingTypeOK, OnePlace
  <2>4. scheduled'[g] = scheduled[g] + IF g = h THEN 1 ELSE 0
    BY <1>1, <2>3 DEF schedule, ListType, BlockingTypeOK
  <2> QED BY <2>1, <2>2, <2>3, <2>4
<1>3. BlockingTypeOK' /\ blocked' = blocked
  BY <1>1 DEF schedule, ListType, BlockingTypeOK
<1> HIDE DEF h
<1>4. scheduled[h] = 0 /\ blocked[h]
  BY <1>1, <1>2
<1>5. OnePlace'
  BY <1>2, <1>3 DEF OnePlace
<1>6. h \notin Released
  BY <1>4 DEF Released
<1>7. Released' = Released \cup {h}
  BY <1>1, <1>2, <1>4 DEF Released
<1>8. \A g \in Fibers : Times(m_waiters', g) = Times(m_waiters, g) - IF g = h THEN 1 ELSE 0
  BY <1>2
<1> QED BY <1>1, <1>3, <1>4, <1>5, <1>6, <1>7, <1>8 DEF h, ListType

\* The switch away from a fiber moves nothing.
LEMMA SwitchStep ==
    ASSUME ListType, OnePlace, NEW f \in Fibers, SwitchAway(f), UNCHANGED m_waiters
    PROVE  ListType' /\ OnePlace' /\ Released' = Released
BY DEF ListType, BlockingTypeOK, OnePlace, SwitchAway, Released

\* A fiber that was scheduled returns from its call.
LEMMA ResumeStep ==
    ASSUME ListType, OnePlace, NEW f \in Fibers, Resumed(f), UNCHANGED m_waiters
    PROVE  /\ ListType' /\ OnePlace'
           /\ f \in Released /\ Released' = Released \ {f}
           /\ scheduled[f] = 1 /\ scheduled'[f] = 0
<1>1. /\ Times(m_waiters, f) \in Nat /\ scheduled[f] \in Nat
      /\ Times(m_waiters, f) + scheduled[f] = IF blocked[f] THEN 1 ELSE 0
  BY TimesType DEF ListType, BlockingTypeOK, OnePlace
<1>2. scheduled[f] = 1 /\ Times(m_waiters, f) = 0
  BY <1>1 DEF Resumed, ListType, BlockingTypeOK
<1>3. /\ BlockingTypeOK' /\ scheduled'[f] = 0 /\ blocked'[f] = FALSE
      /\ \A g \in Fibers \ {f} : scheduled'[g] = scheduled[g] /\ blocked'[g] = blocked[g]
  BY <1>2 DEF Resumed, ListType, BlockingTypeOK
<1>4. OnePlace'
  BY <1>2, <1>3 DEF OnePlace
<1>5. f \in Released /\ Released' = Released \ {f}
  BY <1>2, <1>3 DEF Released
<1> QED BY <1>2, <1>3, <1>4, <1>5 DEF ListType

\* The fibers that were released are as many as a number.
LEMMA ReleasedFinite == IsFiniteSet(Released) /\ Cardinality(Released) \in Nat
<1>1. IsFiniteSet(Released)
  BY FibersAssumption, FS_Subset DEF Released
<1> QED BY <1>1, FS_CardinalityType

\* SemInv at the beginning, and after every step of FiberSemaphore: what notify() gives
\* to a waiter is not in m_concurrency and not yet in `entered'.
LEMMA SemInit == Sem!Init => SemInv
<1> SUFFICES ASSUME Sem!Init PROVE SemInv
  OBVIOUS
<1>1. ListType
  BY DEF Sem!Init, Sem!BlockingInit, ListType, BlockingTypeOK
<1>2. OnePlace
  <2>1. \A f \in Fibers : Times(<<>>, f) = 0
    BY TimesSingle
  <2> QED BY <2>1 DEF Sem!Init, Sem!BlockingInit, OnePlace
<1>3. Released = {}
  BY DEF Sem!Init, Sem!BlockingInit, Released
<1>4. Cardinality(Released) = 0
  BY <1>3, FS_EmptySet
<1> QED BY <1>1, <1>2, <1>4, CountersAssumption DEF Sem!Init, SemInv

LEMMA SemStep == SemInv /\ Sem!Next => SemInv'
<1> SUFFICES ASSUME SemInv, NEW f \in Fibers, Sem!Step(f) PROVE SemInv'
  BY DEF Sem!Next
<1> USE DEF SemInv
<1>0. /\ ListType /\ OnePlace /\ IsFiniteSet(Released) /\ Cardinality(Released) \in Nat
      /\ initialConcurrency \in Nat
  BY ReleasedFinite, CountersAssumption
<1>1. CASE Sem!WaitTakes(f)
  <2>1. ListType' /\ OnePlace' /\ Released' = Released
    BY <1>0, <1>1 DEF Sem!WaitTakes, Sem!blockingVars, ListType, BlockingTypeOK, OnePlace, Released
  <2> QED BY <1>0, <1>1, <2>1 DEF Sem!WaitTakes
<1>2. CASE Sem!WaitQueues(f)
  <2>1. ListType' /\ OnePlace' /\ Released' = Released
    BY <1>0, <1>2, QueueStep DEF Sem!WaitQueues, Sem!Block, Sem!Runs, Block, Runs
  <2> QED BY <1>0, <1>2, <2>1 DEF Sem!WaitQueues
<1>3. CASE Sem!notify(f)
  <2>1. CASE m_waiters = <<>>
    <3>1. ListType' /\ OnePlace' /\ Released' = Released
      BY <1>0, <1>3, <2>1 DEF Sem!notify, Sem!blockingVars, ListType, BlockingTypeOK, OnePlace, Released
    <3> QED BY <1>0, <1>3, <2>1, <3>1 DEF Sem!notify
  <2>2. CASE m_waiters # <<>>
    <3>1. m_waiters' = Tail(m_waiters) /\ schedule(Head(m_waiters))
      BY <1>3, <2>2 DEF Sem!notify, Sem!schedule, schedule
    <3>2. /\ ListType' /\ OnePlace'
          /\ Head(m_waiters) \notin Released /\ Released' = Released \cup {Head(m_waiters)}
      BY <1>0, <2>2, <3>1, HandOverStep
    <3>3. Cardinality(Released') = Cardinality(Released) + 1
      BY <1>0, <3>2, FS_AddElement
    <3>4. /\ m_concurrency' = m_concurrency /\ entered' = entered
          /\ notified' = notified + 1 /\ m_concurrency = 0
      BY <1>3, <2>2 DEF Sem!notify
    <3> QED BY <1>0, <3>2, <3>3, <3>4
  <2> QED BY <2>1, <2>2
<1>4. CASE Sem!YieldTo(f)
  <2>1. ListType' /\ OnePlace' /\ Released' = Released
    BY <1>0, <1>4, SwitchStep DEF Sem!YieldTo, Sem!SwitchAway, SwitchAway
  <2> QED BY <1>0, <1>4, <2>1 DEF Sem!YieldTo
<1>5. CASE Sem!Resume(f)
  <2>1. ListType' /\ OnePlace' /\ f \in Released /\ Released' = Released \ {f}
    BY <1>0, <1>5, ResumeStep DEF Sem!Resume, Sem!Resumed, Resumed
  <2>2. Cardinality(Released') = Cardinality(Released) - 1 /\ IsFiniteSet(Released')
    BY <1>0, <2>1, FS_RemoveElement
  <2> QED BY <1>0, <1>5, <2>1, <2>2 DEF Sem!Resume
<1> QED BY <1>1, <1>2, <1>3, <1>4, <1>5 DEF Sem!Step

\* RecInv at the beginning, and after every step of RecursiveFiberMutex: the fiber that
\* unlock() hands the mutex to has no lock() of its own to undo, and m_recursion is 1
\* before that fiber knows.
LEMMA RecInit == Rec!Init => RecInv
<1> SUFFICES ASSUME Rec!Init PROVE RecInv
  OBVIOUS
<1>1. ListType
  BY DEF Rec!Init, Rec!BlockingInit, ListType, BlockingTypeOK
<1>2. \A f \in Fibers : Times(<<>>, f) = 0
  BY TimesSingle
<1>3. OnePlace
  BY <1>2 DEF Rec!Init, Rec!BlockingInit, OnePlace
<1> QED BY <1>1, <1>2, <1>3, FibersAssumption DEF Rec!Init, Rec!BlockingInit, RecInv

LEMMA RecStep == RecInv /\ Rec!Next => RecInv'
<1> SUFFICES ASSUME RecInv, NEW f \in Fibers, Rec!Step(f) PROVE RecInv'
  BY DEF Rec!Next
<1>0. /\ ListType /\ OnePlace
      /\ m_owner \in Fibers \cup {None} /\ m_recursion \in Nat /\ depth \in [Fibers -> Nat]
      /\ \A g \in Fibers : scheduled[g] \in Nat /\ Times(m_waiters, g) \in Nat
      /\ None \notin Fibers
  BY TimesType, FibersAssumption DEF RecInv, ListType, BlockingTypeOK
<1>a. Runs(f) => scheduled[f] = 0 /\ Times(m_waiters, f) = 0
  BY <1>0 DEF Runs, OnePlace
<1>1. CASE Rec!LockAgain(f)
  <2>1. ListType' /\ OnePlace' /\ scheduled' = scheduled /\ m_waiters' = m_waiters
    BY <1>0, <1>1 DEF Rec!LockAgain, Rec!blockingVars, ListType, BlockingTypeOK, OnePlace
  <2>2. scheduled[f] = 0
    BY <1>1, <1>a DEF Rec!LockAgain, Rec!Runs, Runs
  <2>3. depth[f] = m_recursion /\ m_recursion > 0 /\ m_owner = f
    BY <1>0, <1>1, <2>2 DEF Rec!LockAgain, RecInv
  <2>4. m_owner' = m_owner /\ m_recursion' = m_recursion + 1
        /\ depth' = [depth EXCEPT ![f] = @ + 1]
    BY <1>1 DEF Rec!LockAgain
  <2> QED BY <1>0, <2>1, <2>2, <2>3, <2>4 DEF RecInv
<1>2. CASE Rec!LockFree(f)
  <2>1. ListType' /\ OnePlace' /\ scheduled' = scheduled /\ m_waiters' = m_waiters
    BY <1>0, <1>2 DEF Rec!LockFree, Rec!blockingVars, ListType, BlockingTypeOK, OnePlace
  <2>2. m_owner = None /\ m_waiters = <<>> /\ m_owner' = f /\ m_recursion' = 1
        /\ depth' = [depth EXCEPT ![f] = 1]
    BY <1>2 DEF Rec!LockFree, RecInv
  <2>3. \A g \in Fibers : scheduled[g] = 0 /\ depth[g] = 0
    BY <1>0, <2>2 DEF RecInv
  <2>4. \A g \in Fibers : Times(m_waiters, g) = 0
    BY <2>2, TimesSingle
  <2> QED BY <1>0, <2>1, <2>2, <2>3, <2>4 DEF RecInv
<1>3. CASE Rec!LockQueues(f)
  <2>1. /\ ListType' /\ OnePlace'
        /\ \A g \in Fibers : Times(m_waiters', g) = Times(m_waiters, g) + IF g = f THEN 1 ELSE 0
    BY <1>0, <1>3, QueueStep DEF Rec!LockQueues, Rec!Block, Rec!Runs, Block, Runs
  <2>2. /\ scheduled' = scheduled /\ m_owner' = m_owner /\ m_recursion' = m_recursion
        /\ depth' = depth /\ m_owner # None /\ m_owner # f
    BY <1>3 DEF Rec!LockQueues, Rec!Block
  <2>3. \A g \in Fibers : m_owner = g => Times(m_waiters', g) = 0
    BY <1>0, <2>1, <2>2 DEF RecInv
  <2>4. \A g \in Fibers : /\ scheduled[g] > 0 => m_owner = g /\ depth[g] = 0 /\ m_recursion = 1
                          /\ depth[g] > 0 => m_owner = g /\ m_recursion = depth[g]
                          /\ m_owner = g => depth[g] > 0 \/ scheduled[g] > 0
    BY DEF RecInv
  <2>5. m_recursion > 0
    BY <2>2 DEF RecInv
  <2> QED BY <1>0, <2>1, <2>2, <2>3, <2>4, <2>5 DEF RecInv
<1>4. ASSUME Runs(f), m_owner = f, Rec!Release(f) PROVE RecInv'
  <2>1. depth[f] = m_recursion /\ m_recursion > 0 /\ scheduled[f] = 0
        /\ \A g \in Fibers \ {f} : depth[g] = 0 /\ scheduled[g] = 0
    BY <1>0, <1>4, <1>a DEF RecInv
  <2>2. depth' = [depth EXCEPT ![f] = @ - 1]
    BY <1>4 DEF Rec!Release
  <2>3. CASE m_recursion > 1
    <3>1. m_recursion' = m_recursion - 1 /\ UNCHANGED <<m_owner, m_waiters, blocked, state, scheduled>>
      BY <1>0, <1>4, <2>3 DEF Rec!Release, Rec!blockingVars
    <3>2. ListType' /\ OnePlace'
      BY <1>0, <3>1 DEF ListType, BlockingTypeOK, OnePlace
    <3> QED BY <1>0, <1>4, <2>1, <2>2, <2>3, <3>1, <3>2 DEF RecInv
  <2>4. CASE m_recursion = 1 /\ m_waiters = <<>>
    <3>1. /\ m_owner' = None /\ m_recursion' = 0
          /\ UNCHANGED <<m_waiters, blocked, state, scheduled>>
      BY <1>0, <1>4, <2>4 DEF Rec!Release, Rec!unlockNoLock, Rec!blockingVars
    <3>2. ListType' /\ OnePlace'
      BY <1>0, <3>1 DEF ListType, BlockingTypeOK, OnePlace
    <3>3. depth' \in [Fibers -> Nat] /\ \A g \in Fibers : depth'[g] = 0 /\ scheduled'[g] = 0
      BY <1>0, <2>1, <2>2, <2>4, <3>1
    <3> QED BY <1>0, <2>4, <3>1, <3>2, <3>3 DEF RecInv
  <2>5. CASE m_recursion = 1 /\ m_waiters # <<>>
    <3>1. PICK h \in Fibers : h = Head(m_waiters)
      BY <1>0, <2>5 DEF ListType
    <3>2. /\ m_owner' = h /\ m_recursion' = 1 /\ m_waiters' = Tail(m_waiters)
          /\ schedule(h)
      BY <1>0, <1>4, <2>5, <3>1 DEF Rec!Release, Rec!unlockNoLock, Rec!schedule, schedule
    <3>3. /\ ListType' /\ OnePlace' /\ scheduled[h] = 0 /\ blocked[h]
          /\ \A g \in Fibers : Times(m_waiters', g) = Times(m_waiters, g) - IF g = h THEN 1 ELSE 0
      BY <1>0, <2>5, <3>1, <3>2, HandOverStep
    <3>4. scheduled'[h] = 1 /\ \A g \in Fibers \ {h} : scheduled'[g] = scheduled[g]
      BY <1>0, <3>2, <3>3 DEF schedule, ListType, BlockingTypeOK
    <3>5. Times(m_waiters', h) = 0
      <4>1. Times(m_waiters, h) = 1
        BY <1>0, <3>3 DEF OnePlace
      <4> QED BY <3>3, <4>1
    <3>6. h # f
      BY <1>4, <3>3 DEF Runs
    <3>7. depth' \in [Fibers -> Nat] /\ \A g \in Fibers : depth'[g] = 0
      BY <1>0, <2>1, <2>2, <2>5
    <3>8. \A g \in Fibers \ {h} : scheduled'[g] = 0
      BY <2>1, <3>4
    <3> QED BY <1>0, <3>2, <3>3, <3>4, <3>5, <3>7, <3>8 DEF RecInv
  <2> QED BY <1>0, <2>1, <2>3, <2>4, <2>5
<1>5. CASE Rec!Unlock(f) \/ Rec!UnlockIfNotUnique(f)
  BY <1>4, <1>5 DEF Rec!Unlock, Rec!UnlockIfNotUnique, Rec!Runs, Runs
<1>6. CASE Rec!YieldTo(f)
  <2>1. ListType' /\ OnePlace'
    BY <1>0, <1>6, SwitchStep DEF Rec!YieldTo, Rec!mutexVars, Rec!SwitchAway, SwitchAway
  <2>2. UNCHANGED <<scheduled, m_waiters, m_owner, m_recursion, depth>>
    BY <1>6 DEF Rec!YieldTo, Rec!mutexVars, Rec!SwitchAway
  <2> QED BY <1>0, <2>1, <2>2 DEF RecInv
<1>7. CASE Rec!Resume(f)
  <2>1. /\ ListType' /\ OnePlace' /\ scheduled[f] = 1 /\ scheduled'[f] = 0
    BY <1>0, <1>7, ResumeStep DEF Rec!Resume, Rec!mutexVars, Rec!Resumed, Resumed
  <2>2. /\ UNCHANGED <<m_waiters, m_owner, m_recursion>>
        /\ depth' = [depth EXCEPT ![f] = 1]
        /\ \A g \in Fibers \ {f} : scheduled'[g] = scheduled[g]
    BY <1>0, <1>7 DEF Rec!Resume, Rec!mutexVars, Rec!Resumed, ListType, BlockingTypeOK
  <2>3. m_owner = f /\ depth[f] = 0 /\ m_recursion = 1 /\ Times(m_waiters, f) = 0
    BY <1>0, <2>1 DEF RecInv
  <2>4. \A g \in Fibers \ {f} : scheduled[g] = 0 /\ depth[g] = 0
    BY <1>0, <2>3 DEF RecInv
  <2> QED BY <1>0, <2>1, <2>2, <2>3, <2>4 DEF RecInv
<1> QED BY <1>1, <1>2, <1>3, <1>5, <1>6, <1>7 DEF Rec!Step

-----------------------------------------------------------------------------
(* FiberEvent: a waiter is also in one place while set() holds it.         *)

\* The numbers behind EventInv.
LEMMA EventNumbers ==
    ASSUME EventInv, NEW x \in Fibers
    PROVE  /\ Times(m_waiters, x) \in Nat /\ scheduled[x] \in Nat /\ blocked[x] \in BOOLEAN
           /\ IsFiniteSet(Holders(x)) /\ Cardinality(Holders(x)) \in Nat
           /\ Times(m_waiters, x) + scheduled[x] + Cardinality(Holders(x))
                = IF blocked[x] THEN 1 ELSE 0
<1>1. /\ Times(m_waiters, x) \in Nat /\ scheduled[x] \in Nat /\ blocked[x] \in BOOLEAN
  BY TimesType DEF EventInv, ListType, BlockingTypeOK
<1>2. IsFiniteSet(Holders(x))
  BY FibersAssumption, FS_Subset DEF Holders
<1>3. Cardinality(Holders(x)) \in Nat
  BY <1>2, FS_CardinalityType
<1> QED BY <1>1, <1>2, <1>3 DEF EventInv

\* What the local of one set() call does to the holders of a fiber.
LEMMA HoldersStep ==
    ASSUME EventInv, NEW f \in Fibers, NEW s \in Seq(Fibers), NEW x \in Fibers,
           runnables' = [runnables EXCEPT ![f] = s],
           Times(s, x) <= 1
    PROVE  Cardinality(Holders(x)')
             = Cardinality(Holders(x)) - Times(runnables[f], x) + Times(s, x)
<1>1. /\ IsFiniteSet(Holders(x)) /\ Cardinality(Holders(x)) \in Nat
      /\ runnables \in [Fibers -> Seq(Fibers)]
  BY EventNumbers DEF EventInv
<1>2. /\ Times(runnables[f], x) \in {0, 1} /\ Times(s, x) \in {0, 1}
  <2>1. Times(runnables[f], x) \in Nat /\ Times(s, x) \in Nat
    BY <1>1, TimesType
  <2> QED BY <2>1 DEF EventInv
<1>3. \A g \in Fibers : runnables'[g] = IF g = f THEN s ELSE runnables[g]
  BY <1>1
<1>4. f \in Holders(x) <=> Times(runnables[f], x) = 1
  BY DEF Holders
<1>5. CASE Times(s, x) = 1
  <2>1. Holders(x)' = Holders(x) \cup {f}
    BY <1>3, <1>5 DEF Holders
  <2>2. Cardinality(Holders(x) \cup {f})
          = IF f \in Holders(x) THEN Cardinality(Holders(x)) ELSE Cardinality(Holders(x)) + 1
    BY <1>1, FS_AddElement
  <2> QED BY <1>1, <1>2, <1>4, <1>5, <2>1, <2>2
<1>6. CASE Times(s, x) = 0
  <2>1. Holders(x)' = Holders(x) \ {f}
    BY <1>3, <1>6 DEF Holders
  <2>2. Cardinality(Holders(x) \ {f})
          = IF f \in Holders(x) THEN Cardinality(Holders(x)) - 1 ELSE Cardinality(Holders(x))
    BY <1>1, FS_RemoveElement
  <2> QED BY <1>1, <1>2, <1>4, <1>6, <2>1, <2>2
<1> QED BY <1>2, <1>5, <1>6

\* The critical section of set() moves the front of the list to its local.
LEMMA SetStep ==
    ASSUME EventInv, NEW f \in Fibers, NEW first \in Seq(Fibers), NEW rest \in Seq(Fibers),
           runnables[f] = <<>>, m_waiters = first \o rest,
           runnables' = [runnables EXCEPT ![f] = first], m_waiters' = rest,
           UNCHANGED <<blocked, state, scheduled, passed>>, sets' = sets + 1,
           m_signalled' \in BOOLEAN, m_signalled' => rest = <<>>
    PROVE  EventInv'
<1>1. ASSUME NEW x \in Fibers
      PROVE  /\ Times(first, x) <= 1
             /\ Times(m_waiters', x) + scheduled'[x] + Cardinality(Holders(x)')
                  = IF blocked'[x] THEN 1 ELSE 0
  <2>1. /\ Times(m_waiters, x) = Times(first, x) + Times(rest, x)
        /\ Times(first, x) \in Nat /\ Times(rest, x) \in Nat
    <3>1. Times(first \o rest, x) = Times(first, x) + Times(rest, x)
      BY TimesConcat
    <3>2. Times(first, x) \in Nat /\ Times(rest, x) \in Nat
      BY TimesType
    <3> QED BY <3>1, <3>2, Zenon
  <2>2. Times(runnables[f], x) = 0
    BY TimesSingle
  <2>3. /\ scheduled[x] \in Nat /\ Cardinality(Holders(x)) \in Nat /\ blocked[x] \in BOOLEAN
        /\ Times(m_waiters, x) + scheduled[x] + Cardinality(Holders(x))
                = IF blocked[x] THEN 1 ELSE 0
    BY EventNumbers
  <2>4. Times(first, x) <= 1
    BY <2>1, <2>3
  <2>5. Cardinality(Holders(x)') = Cardinality(Holders(x)) - 0 + Times(first, x)
    BY <2>2, <2>4, HoldersStep
  <2>6. Cardinality(Holders(x)') = Cardinality(Holders(x)) + Times(first, x)
    BY <2>1, <2>3, <2>5
  <2>7. Times(m_waiters', x) = Times(rest, x) /\ scheduled'[x] = scheduled[x] /\ blocked'[x] = blocked[x]
    OBVIOUS
  <2>8. Times(rest, x) + scheduled[x] + (Cardinality(Holders(x)) + Times(first, x))
          = IF blocked[x] THEN 1 ELSE 0
    BY <2>1, <2>3
  <2> QED BY <2>4, <2>6, <2>7, <2>8
<1>2. runnables \in [Fibers -> Seq(Fibers)] /\ sets \in Nat /\ passed \in Nat
  BY DEF EventInv
<1>3. \A g \in Fibers : runnables'[g] = IF g = f THEN first ELSE runnables[g]
  BY <1>2
<1>4. \A x, g \in Fibers : Times(runnables'[g], x) <= 1
  BY <1>1, <1>3 DEF EventInv
<1>5. runnables' \in [Fibers -> Seq(Fibers)] /\ sets' \in Nat /\ passed' \in Nat
  BY <1>2
<1>6. ListType'
  BY DEF EventInv, ListType, BlockingTypeOK
<1> QED BY <1>1, <1>4, <1>5, <1>6 DEF EventInv

\* The rest of set() moves a fiber from the local to the scheduler's queue.
LEMMA SetScheduleStep ==
    ASSUME EventInv, NEW f \in Fibers, runnables[f] # <<>>, schedule(Head(runnables[f])),
           runnables' = [runnables EXCEPT ![f] = Tail(@)],
           UNCHANGED <<m_signalled, m_waiters, passed, sets>>
    PROVE  EventInv'
<1>1. runnables \in [Fibers -> Seq(Fibers)] /\ scheduled \in [Fibers -> Nat]
  BY DEF EventInv, ListType, BlockingTypeOK
<1>2. PICK h \in Fibers : h = Head(runnables[f])
  BY <1>1
<1>3. PICK s \in Seq(Fibers) : s = Tail(runnables[f])
  <2>1. runnables[f] \in Seq(Fibers)
    BY <1>1
  <2> QED BY <2>1, TimesTail
<1>4. /\ runnables' = [runnables EXCEPT ![f] = s]
      /\ scheduled' = [scheduled EXCEPT ![h] = @ + 1]
      /\ blocked' = blocked /\ state' = state
  BY <1>2, <1>3 DEF schedule
<1>5. ASSUME NEW x \in Fibers
      PROVE  /\ Times(s, x) <= 1
             /\ Times(m_waiters', x) + scheduled'[x] + Cardinality(Holders(x)')
                  = IF blocked'[x] THEN 1 ELSE 0
  <2>1. /\ Times(runnables[f], x) = Times(s, x) + IF x = h THEN 1 ELSE 0
        /\ Times(s, x) \in Nat
    <3>1. runnables[f] \in Seq(Fibers)
      BY <1>1
    <3>2. Times(runnables[f], x)
            = Times(Tail(runnables[f]), x) + IF x = Head(runnables[f]) THEN 1 ELSE 0
      BY <3>1, TimesTail
    <3> QED BY <1>2, <1>3, <3>2, TimesType
  <2>2. Times(runnables[f], x) <= 1
    BY DEF EventInv
  <2>3. Times(s, x) <= 1
    BY <2>1, <2>2
  <2>4. Cardinality(Holders(x)') = Cardinality(Holders(x)) - Times(runnables[f], x) + Times(s, x)
    BY <1>4, <2>3, HoldersStep
  <2>5. /\ scheduled[x] \in Nat /\ Cardinality(Holders(x)) \in Nat /\ blocked[x] \in BOOLEAN
        /\ Times(m_waiters, x) \in Nat
        /\ Times(m_waiters, x) + scheduled[x] + Cardinality(Holders(x))
                = IF blocked[x] THEN 1 ELSE 0
    BY EventNumbers
  <2>6. /\ Times(m_waiters', x) = Times(m_waiters, x) /\ blocked'[x] = blocked[x]
        /\ scheduled'[x] = scheduled[x] + IF x = h THEN 1 ELSE 0
    BY <1>1, <1>4
  <2>7. Cardinality(Holders(x)') = Cardinality(Holders(x)) - IF x = h THEN 1 ELSE 0
    BY <2>1, <2>4, <2>5
  <2>8. Times(m_waiters, x) + (scheduled[x] + IF x = h THEN 1 ELSE 0)
          + (Cardinality(Holders(x)) - IF x = h THEN 1 ELSE 0) = IF blocked[x] THEN 1 ELSE 0
    BY <2>5
  <2> QED BY <2>3, <2>6, <2>7, <2>8
<1>6. \A g \in Fibers : runnables'[g] = IF g = f THEN s ELSE runnables[g]
  BY <1>1, <1>4
<1>7. \A x, g \in Fibers : Times(runnables'[g], x) <= 1
  BY <1>5, <1>6 DEF EventInv
<1>8. runnables' \in [Fibers -> Seq(Fibers)]
  BY <1>1, <1>4
<1>9. ListType'
  BY <1>4 DEF EventInv, ListType, BlockingTypeOK
<1> QED BY <1>5, <1>7, <1>8, <1>9 DEF EventInv

\* wait() joins the list of an event that is not signalled.
LEMMA EventQueueStep ==
    ASSUME EventInv, NEW f \in Fibers, Runs(f), ~m_signalled, Block(f),
           m_waiters' = Append(m_waiters, f),
           UNCHANGED <<m_signalled, runnables, passed, sets>>
    PROVE  /\ EventInv'
           /\ \A x \in Fibers : Times(m_waiters', x) = Times(m_waiters, x) + IF x = f THEN 1 ELSE 0
           /\ \A x \in Fibers : blocked'[x] = (blocked[x] \/ x = f)
<1>1. /\ m_waiters \in Seq(Fibers) /\ blocked \in [Fibers -> BOOLEAN] /\ ~blocked[f]
      /\ scheduled' = scheduled /\ blocked' = [blocked EXCEPT ![f] = TRUE] /\ state' = state
  BY DEF EventInv, ListType, BlockingTypeOK, Runs, Block
<1>2. \A x \in Fibers : Times(m_waiters', x) = Times(m_waiters, x) + IF x = f THEN 1 ELSE 0
  BY <1>1, TimesAppend
<1>3. \A x \in Fibers : blocked'[x] = (blocked[x] \/ x = f)
  BY <1>1
<1>4. ASSUME NEW x \in Fibers
      PROVE  Times(m_waiters', x) + scheduled'[x] + Cardinality(Holders(x)')
               = IF blocked'[x] THEN 1 ELSE 0
  <2>1. Holders(x)' = Holders(x)
    BY DEF Holders
  <2>2. /\ scheduled[x] \in Nat /\ Cardinality(Holders(x)) \in Nat /\ blocked[x] \in BOOLEAN
        /\ Times(m_waiters, x) \in Nat
        /\ Times(m_waiters, x) + scheduled[x] + Cardinality(Holders(x))
                = IF blocked[x] THEN 1 ELSE 0
    BY EventNumbers
  <2>3. Times(m_waiters, x) + (IF x = f THEN 1 ELSE 0) + scheduled[x] + Cardinality(Holders(x))
          = IF blocked[x] \/ x = f THEN 1 ELSE 0
    BY <1>1, <2>2
  <2>4. /\ Times(m_waiters', x) = Times(m_waiters, x) + IF x = f THEN 1 ELSE 0
        /\ blocked'[x] = (blocked[x] \/ x = f) /\ scheduled'[x] = scheduled[x]
    BY <1>1, <1>2, <1>3
  <2> QED BY <2>1, <2>3, <2>4
<1>5. ListType'
  BY <1>1 DEF EventInv, ListType, BlockingTypeOK
<1> QED BY <1>2, <1>3, <1>4, <1>5 DEF EventInv

\* A fiber returns from wait().
LEMMA EventResumeStep ==
    ASSUME EventInv, NEW f \in Fibers, Resumed(f), passed' = passed + 1,
           UNCHANGED <<m_signalled, m_waiters, runnables, sets>>
    PROVE  /\ EventInv'
           /\ blocked[f] /\ Times(m_waiters, f) = 0
           /\ \A x \in Fibers : blocked'[x] <=> blocked[x] /\ x # f
<1>1. /\ scheduled \in [Fibers -> Nat] /\ blocked \in [Fibers -> BOOLEAN] /\ scheduled[f] > 0
      /\ state \in [Fibers -> {"EXEC", "HOLD"}]
      /\ scheduled' = [scheduled EXCEPT ![f] = @ - 1] /\ blocked' = [blocked EXCEPT ![f] = FALSE]
      /\ state' = [state EXCEPT ![f] = "EXEC"]
  BY DEF EventInv, ListType, BlockingTypeOK, Resumed
<1>2. blocked[f] /\ Times(m_waiters, f) = 0 /\ scheduled[f] = 1 /\ Cardinality(Holders(f)) = 0
  <2>1. /\ Times(m_waiters, f) \in Nat /\ scheduled[f] \in Nat /\ Cardinality(Holders(f)) \in Nat
        /\ Times(m_waiters, f) + scheduled[f] + Cardinality(Holders(f))
             = IF blocked[f] THEN 1 ELSE 0
    BY EventNumbers
  <2> QED BY <1>1, <2>1
<1>3. \A x \in Fibers : blocked'[x] <=> blocked[x] /\ x # f
  BY <1>1
<1>4. ASSUME NEW x \in Fibers
      PROVE  Times(m_waiters', x) + scheduled'[x] + Cardinality(Holders(x)')
               = IF blocked'[x] THEN 1 ELSE 0
  <2>1. Holders(x)' = Holders(x)
    BY DEF Holders
  <2>2. CASE x = f
    BY <1>1, <1>2, <2>1, <2>2
  <2>3. CASE x # f
    <3>1. scheduled'[x] = scheduled[x] /\ blocked'[x] = blocked[x] /\ m_waiters' = m_waiters
      BY <1>1, <2>3
    <3>2. Times(m_waiters, x) + scheduled[x] + Cardinality(Holders(x))
                = IF blocked[x] THEN 1 ELSE 0
      BY EventNumbers
    <3> QED BY <2>1, <3>1, <3>2
  <2> QED BY <2>2, <2>3
<1>5. ListType'
  <2>1. /\ scheduled' \in [Fibers -> Nat] /\ blocked' \in [Fibers -> BOOLEAN]
        /\ state' \in [Fibers -> {"EXEC", "HOLD"}]
    BY <1>1
  <2> QED BY <2>1 DEF EventInv, ListType, BlockingTypeOK
<1>6. passed' \in Nat /\ m_signalled' \in BOOLEAN /\ sets' \in Nat
  BY DEF EventInv
<1>7. /\ runnables' \in [Fibers -> Seq(Fibers)]
      /\ \A x, g \in Fibers : Times(runnables'[g], x) <= 1
      /\ m_signalled' => m_waiters' = <<>>
  BY DEF EventInv
<1> QED BY <1>2, <1>3, <1>4, <1>5, <1>6, <1>7 DEF EventInv

\* A step that moves no fiber.
LEMMA EventStillStep ==
    ASSUME EventInv, UNCHANGED <<blocked, scheduled, m_waiters, runnables>>,
           state' \in [Fibers -> {"EXEC", "HOLD"}], m_signalled' \in BOOLEAN,
           m_signalled' => m_signalled, passed' \in Nat, sets' \in Nat
    PROVE  EventInv'
<1>1. \A x \in Fibers : Holders(x)' = Holders(x)
  BY DEF Holders
<1>2. \A x \in Fibers : Times(m_waiters', x) + scheduled'[x] + Cardinality(Holders(x)')
                          = IF blocked'[x] THEN 1 ELSE 0
  BY <1>1 DEF EventInv
<1>3. ListType'
  BY DEF EventInv, ListType, BlockingTypeOK
<1> QED BY <1>2, <1>3 DEF EventInv

\* EventInv at the beginning, and after every step of either kind of FiberEvent.
LEMMA EventInit == AutoEvent!Init => EventInv /\ AutoInv
<1> SUFFICES ASSUME AutoEvent!Init PROVE EventInv /\ AutoInv
  OBVIOUS
<1> USE DEF AutoEvent!Init, AutoEvent!BlockingInit
<1>1. ListType
  BY DEF ListType, BlockingTypeOK
<1>2. \A f \in Fibers : Times(<<>>, f) = 0
  BY TimesSingle
<1>3. \A f, g \in Fibers : Times(runnables[g], f) = 0
  BY <1>2
<1>4. \A f \in Fibers : Holders(f) = {}
  BY <1>3 DEF Holders
<1>5. \A f \in Fibers : Cardinality(Holders(f)) = 0
  BY <1>4, FS_EmptySet
<1>6. EventInv
  <2>1. \A f \in Fibers : Times(m_waiters, f) + scheduled[f] + Cardinality(Holders(f))
                           = IF blocked[f] THEN 1 ELSE 0
    BY <1>2, <1>5
  <2>2. /\ m_signalled = FALSE /\ m_waiters = <<>> /\ passed = 0 /\ sets = 0
        /\ runnables \in [Fibers -> Seq(Fibers)]
    OBVIOUS
  <2>3. \A f, g \in Fibers : Times(runnables[g], f) <= 1
    BY <1>3
  <2> HIDE DEF AutoEvent!Init
  <2> QED BY <1>1, <2>1, <2>2, <2>3 DEF EventInv
<1>7. LetGo = {}
  BY DEF LetGo
<1>8. Cardinality(LetGo) = 0
  BY <1>7, FS_EmptySet
<1> QED BY <1>6, <1>8 DEF AutoInv

LEMMA EventStep == EventInv /\ (AutoEvent!Next \/ ManualEvent!Next) => EventInv'
<1> SUFFICES ASSUME EventInv, NEW f \in Fibers, AutoEvent!Step(f) \/ ManualEvent!Step(f)
             PROVE  EventInv'
  BY DEF AutoEvent!Next, ManualEvent!Next
<1>0. /\ m_waiters \in Seq(Fibers) /\ state \in [Fibers -> {"EXEC", "HOLD"}]
      /\ m_signalled \in BOOLEAN /\ passed \in Nat /\ sets \in Nat
  BY DEF EventInv, ListType, BlockingTypeOK
<1>1. CASE AutoEvent!WaitPasses(f) \/ ManualEvent!WaitPasses(f)
  <2>1. /\ UNCHANGED <<blocked, state, scheduled, m_waiters, runnables, sets>>
        /\ m_signalled /\ m_signalled' \in BOOLEAN /\ passed' = passed + 1
    BY <1>1 DEF AutoEvent!WaitPasses, AutoEvent!blockingVars, ManualEvent!WaitPasses,
                ManualEvent!blockingVars
  <2>2. passed' \in Nat /\ sets' \in Nat /\ state' \in [Fibers -> {"EXEC", "HOLD"}]
    BY <1>0, <2>1
  <2> QED BY <2>1, <2>2, EventStillStep
<1>2. CASE AutoEvent!WaitQueues(f) \/ ManualEvent!WaitQueues(f)
  <2>1. /\ Runs(f) /\ ~m_signalled /\ Block(f) /\ m_waiters' = Append(m_waiters, f)
        /\ UNCHANGED <<m_signalled, runnables, passed, sets>>
    BY <1>2 DEF AutoEvent!WaitQueues, AutoEvent!Free, AutoEvent!Runs, AutoEvent!Block,
                ManualEvent!WaitQueues, ManualEvent!Free, ManualEvent!Runs, ManualEvent!Block,
                Runs, Block
  <2> QED BY <2>1, EventQueueStep
<1>3. CASE AutoEvent!Set(f) \/ ManualEvent!Set(f)
  <2>1. /\ runnables[f] = <<>> /\ sets' = sets + 1
        /\ UNCHANGED <<blocked, state, scheduled, passed>>
    BY <1>3 DEF AutoEvent!Set, AutoEvent!Free, AutoEvent!blockingVars,
                ManualEvent!Set, ManualEvent!Free, ManualEvent!blockingVars
  <2>2. \E first, rest \in Seq(Fibers) :
            /\ m_waiters = first \o rest
            /\ runnables' = [runnables EXCEPT ![f] = first] /\ m_waiters' = rest
            /\ m_signalled' \in BOOLEAN /\ (m_signalled' => rest = <<>>)
    <3>1. CASE ManualEvent!Set(f) \/ m_waiters = <<>>
      <4>1. /\ runnables' = [runnables EXCEPT ![f] = m_waiters] /\ m_signalled' \in BOOLEAN
            /\ m_waiters' = SubSeq(m_waiters, Len(m_waiters) + 1, Len(m_waiters))
        BY <1>3, <3>1 DEF AutoEvent!Set, ManualEvent!Set
      <4>2. SubSeq(m_waiters, Len(m_waiters) + 1, Len(m_waiters)) = <<>>
        BY <1>0
      <4>3. m_waiters = m_waiters \o <<>> /\ <<>> \in Seq(Fibers)
        BY <1>0
      <4> QED BY <1>0, <4>1, <4>2, <4>3
    <3>2. CASE AutoEvent!Set(f) /\ m_waiters # <<>>
      <4>1. /\ runnables' = [runnables EXCEPT ![f] = <<Head(m_waiters)>>]
            /\ m_signalled' = m_signalled
            /\ m_waiters' = SubSeq(m_waiters, Len(<<Head(m_waiters)>>) + 1, Len(m_waiters))
        BY <1>0, <3>2 DEF AutoEvent!Set
      <4>2. /\ SubSeq(m_waiters, Len(<<Head(m_waiters)>>) + 1, Len(m_waiters)) = Tail(m_waiters)
            /\ m_waiters = <<Head(m_waiters)>> \o Tail(m_waiters)
            /\ <<Head(m_waiters)>> \in Seq(Fibers) /\ Tail(m_waiters) \in Seq(Fibers)
        BY <1>0, <3>2
      <4>3. ~m_signalled
        BY <3>2 DEF EventInv
      <4> QED BY <1>0, <4>1, <4>2, <4>3
    <3> QED BY <1>3, <3>1, <3>2
  <2> QED BY <2>1, <2>2, SetStep
<1>4. CASE AutoEvent!SetSchedule(f) \/ ManualEvent!SetSchedule(f)
  <2>1. /\ runnables[f] # <<>> /\ schedule(Head(runnables[f]))
        /\ runnables' = [runnables EXCEPT ![f] = Tail(@)]
        /\ UNCHANGED <<m_signalled, m_waiters, passed, sets>>
    BY <1>4 DEF AutoEvent!SetSchedule, AutoEvent!schedule, ManualEvent!SetSchedule,
                ManualEvent!schedule, schedule
  <2> QED BY <2>1, SetScheduleStep
<1>5. CASE AutoEvent!reset(f) \/ ManualEvent!reset(f)
  <2>1. /\ UNCHANGED <<blocked, state, scheduled, m_waiters, runnables, passed, sets>>
        /\ m_signalled' = FALSE
    BY <1>5 DEF AutoEvent!reset, AutoEvent!blockingVars, ManualEvent!reset,
                ManualEvent!blockingVars
  <2>2. passed' \in Nat /\ sets' \in Nat /\ state' \in [Fibers -> {"EXEC", "HOLD"}]
    BY <1>0, <2>1
  <2> QED BY <2>1, <2>2, EventStillStep
<1>6. CASE AutoEvent!YieldTo(f) \/ ManualEvent!YieldTo(f)
  <2>1. /\ UNCHANGED <<blocked, scheduled, m_waiters, runnables, passed, sets, m_signalled>>
        /\ state' = [state EXCEPT ![f] = "HOLD"]
    BY <1>6 DEF AutoEvent!YieldTo, AutoEvent!SwitchAway, ManualEvent!YieldTo,
                ManualEvent!SwitchAway
  <2>2. passed' \in Nat /\ sets' \in Nat /\ state' \in [Fibers -> {"EXEC", "HOLD"}]
        /\ m_signalled' \in BOOLEAN
    BY <1>0, <2>1
  <2> QED BY <2>1, <2>2, EventStillStep
<1>7. CASE AutoEvent!Resume(f) \/ ManualEvent!Resume(f)
  <2>1. /\ Resumed(f) /\ passed' = passed + 1
        /\ UNCHANGED <<m_signalled, m_waiters, runnables, sets>>
    BY <1>7 DEF AutoEvent!Resume, AutoEvent!Resumed, ManualEvent!Resume, ManualEvent!Resumed,
                Resumed
  <2> QED BY <2>1, EventResumeStep
<1> QED BY <1>1, <1>2, <1>3, <1>4, <1>5, <1>6, <1>7 DEF AutoEvent!Step, ManualEvent!Step

\* Every set() of an auto-reset event lets one fiber go, or lets one pass.
LEMMA AutoStep == EventInv /\ AutoInv /\ AutoEvent!Next => AutoInv'
<1> SUFFICES ASSUME EventInv, AutoInv, NEW f \in Fibers, AutoEvent!Step(f)
             PROVE  AutoInv'
  BY DEF AutoEvent!Next
<1>0. /\ m_waiters \in Seq(Fibers) /\ m_signalled \in BOOLEAN /\ passed \in Nat /\ sets \in Nat
      /\ IsFiniteSet(LetGo) /\ Cardinality(LetGo) \in Nat
  <2>1. IsFiniteSet(LetGo)
    BY FibersAssumption, FS_Subset DEF LetGo
  <2> QED BY <2>1, FS_CardinalityType DEF EventInv, ListType
<1>s. UNCHANGED <<blocked, m_waiters>> => LetGo' = LetGo
  BY DEF LetGo
<1>1. CASE AutoEvent!WaitPasses(f)
  <2>1. /\ UNCHANGED <<blocked, m_waiters, sets>> /\ m_signalled /\ m_signalled' = FALSE
        /\ passed' = passed + 1
    BY <1>1 DEF AutoEvent!WaitPasses, AutoEvent!blockingVars
  <2> QED BY <1>0, <1>s, <2>1 DEF AutoInv
<1>2. CASE AutoEvent!WaitQueues(f)
  <2>1. /\ Runs(f) /\ ~m_signalled /\ Block(f) /\ m_waiters' = Append(m_waiters, f)
        /\ UNCHANGED <<m_signalled, runnables, passed, sets>>
    BY <1>2 DEF AutoEvent!WaitQueues, AutoEvent!Free, AutoEvent!Runs, AutoEvent!Block, Runs, Block
  <2>2. /\ \A x \in Fibers : Times(m_waiters', x) = Times(m_waiters, x) + IF x = f THEN 1 ELSE 0
        /\ \A x \in Fibers : blocked'[x] = (blocked[x] \/ x = f)
    BY <2>1, EventQueueStep
  <2>3. \A x \in Fibers : Times(m_waiters, x) \in Nat
    BY EventNumbers
  <2>4. f \notin LetGo /\ f \notin LetGo'
    BY <2>1, <2>2, <2>3 DEF LetGo, Runs
  <2>5. LetGo' = LetGo
    <3>1. ASSUME NEW x \in Fibers, x # f PROVE x \in LetGo' <=> x \in LetGo
      <4>1. Times(m_waiters', x) = Times(m_waiters, x)
        <5>1. Times(m_waiters', x) = Times(m_waiters, x) + 0
          BY <2>2, <3>1
        <5> QED BY <2>3, <5>1
      <4>2. blocked'[x] <=> blocked[x]
        BY <2>2, <3>1
      <4> QED BY <4>1, <4>2 DEF LetGo
    <3>2. LetGo \subseteq Fibers /\ LetGo' \subseteq Fibers
      BY DEF LetGo
    <3> QED BY <2>4, <3>1, <3>2
  <2> QED BY <2>1, <2>5 DEF AutoInv
<1>3. CASE AutoEvent!Set(f)
  <2>1. blocked' = blocked /\ passed' = passed /\ sets' = sets + 1
    BY <1>3 DEF AutoEvent!Set, AutoEvent!blockingVars
  <2>2. CASE m_waiters = <<>>
    <3>1. m_signalled' \in BOOLEAN /\ m_waiters' = SubSeq(m_waiters, Len(m_waiters) + 1, Len(m_waiters))
      BY <1>3, <2>2 DEF AutoEvent!Set
    <3>2. m_waiters' = m_waiters
      BY <2>2, <3>1
    <3> QED BY <1>0, <1>s, <2>1, <3>1, <3>2 DEF AutoInv
  <2>3. CASE m_waiters # <<>>
    <3>1. PICK h \in Fibers : h = Head(m_waiters)
      BY <1>0, <2>3
    <3>2. /\ m_signalled' = m_signalled
          /\ m_waiters' = SubSeq(m_waiters, Len(<<Head(m_waiters)>>) + 1, Len(m_waiters))
      BY <1>0, <1>3, <2>3 DEF AutoEvent!Set
    <3>3. m_waiters' = Tail(m_waiters)
      BY <1>0, <2>3, <3>2
    <3>4. \A x \in Fibers : Times(m_waiters, x) = Times(Tail(m_waiters), x)
                                                    + IF x = h THEN 1 ELSE 0
      BY <1>0, <2>3, <3>1, TimesTail
    <3>5. \A x \in Fibers : Times(Tail(m_waiters), x) \in Nat
      <4>1. Tail(m_waiters) \in Seq(Fibers)
        BY <1>0, <2>3
      <4> QED BY <4>1, TimesType
    <3>6. LetGo' \subseteq LetGo \cup {h}
      <4>1. ASSUME NEW x \in Fibers, x # h, x \in LetGo' PROVE x \in LetGo
        <5>1. Times(m_waiters, x) = Times(m_waiters', x)
          BY <3>3, <3>4, <3>5, <4>1
        <5> QED BY <2>1, <4>1, <5>1 DEF LetGo
      <4>2. LetGo' \subseteq Fibers
        BY DEF LetGo
      <4> QED BY <4>1, <4>2
    <3>7. IsFiniteSet(LetGo \cup {h}) /\ Cardinality(LetGo \cup {h}) <= Cardinality(LetGo) + 1
          /\ Cardinality(LetGo \cup {h}) \in Nat
      <4>1. /\ IsFiniteSet(LetGo \cup {h})
            /\ Cardinality(LetGo \cup {h})
                 = IF h \in LetGo THEN Cardinality(LetGo) ELSE Cardinality(LetGo) + 1
        BY <1>0, FS_AddElement
      <4> QED BY <1>0, <4>1
    <3>8. Cardinality(LetGo') <= Cardinality(LetGo \cup {h}) /\ Cardinality(LetGo') \in Nat
      BY <3>6, <3>7, FS_Subset, FS_CardinalityType
    <3> QED BY <1>0, <2>1, <3>2, <3>7, <3>8 DEF AutoInv
  <2> QED BY <2>2, <2>3
<1>4. CASE AutoEvent!SetSchedule(f) \/ AutoEvent!YieldTo(f)
  <2>1. UNCHANGED <<blocked, m_waiters, m_signalled, passed, sets>>
    BY <1>4 DEF AutoEvent!SetSchedule, AutoEvent!schedule, AutoEvent!YieldTo, AutoEvent!SwitchAway
  <2> QED BY <1>s, <2>1 DEF AutoInv
<1>5. CASE AutoEvent!reset(f)
  <2>1. UNCHANGED <<blocked, m_waiters, passed, sets>> /\ m_signalled' = FALSE
    BY <1>5 DEF AutoEvent!reset, AutoEvent!blockingVars
  <2> QED BY <1>0, <1>s, <2>1 DEF AutoInv
<1>6. CASE AutoEvent!Resume(f)
  <2>1. /\ Resumed(f) /\ passed' = passed + 1
        /\ UNCHANGED <<m_signalled, m_waiters, runnables, sets>>
    BY <1>6 DEF AutoEvent!Resume, AutoEvent!Resumed, Resumed
  <2>2. /\ blocked[f] /\ Times(m_waiters, f) = 0
        /\ \A x \in Fibers : blocked'[x] <=> blocked[x] /\ x # f
    BY <2>1, EventResumeStep
  <2>3. f \in LetGo /\ LetGo' = LetGo \ {f}
    BY <2>1, <2>2 DEF LetGo
  <2>4. Cardinality(LetGo') = Cardinality(LetGo) - 1
    BY <1>0, <2>3, FS_RemoveElement
  <2> QED BY <1>0, <2>1, <2>4 DEF AutoInv
<1> QED BY <1>1, <1>2, <1>3, <1>4, <1>5, <1>6 DEF AutoEvent!Step

-----------------------------------------------------------------------------
(* parallel_do() and parallel_foreach().                                   *)

\* The components count as this module does.
LEMMA SameCardinality ==
    ASSUME NEW S
    PROVE  /\ Sem!Cardinality(S) = Cardinality(S) /\ Rec!Cardinality(S) = Cardinality(S)
           /\ AutoEvent!Cardinality(S) = Cardinality(S) /\ Par!Cardinality(S) = Cardinality(S)
           /\ Switch!Cardinality(S) = Cardinality(S) /\ Hijack!Cardinality(S) = Cardinality(S)
BY DEF Cardinality, Sem!Cardinality, Rec!Cardinality, AutoEvent!Cardinality, Par!Cardinality,
       Switch!Cardinality, Hijack!Cardinality

\* The sets of workers are finite.
LEMMA WorkersFinite ==
    /\ IsFiniteSet(Workers) /\ Cardinality(Workers) \in Nat
    /\ IsFiniteSet(Counted) /\ Cardinality(Counted) \in Nat
    /\ Counted \subseteq Workers /\ (Cardinality(Counted) = Cardinality(Workers) => Counted = Workers)
    /\ IsFiniteSet(InFunctor) /\ Cardinality(InFunctor) \in Nat
<1>1. IsFiniteSet(Workers)
  BY JobsAssumption
<1>2. Counted \subseteq Workers /\ InFunctor \subseteq Workers
  BY DEF Counted, InFunctor
<1>3. /\ IsFiniteSet(Counted) /\ IsFiniteSet(InFunctor)
      /\ Cardinality(Counted) = Cardinality(Workers) => Counted = Workers
  BY <1>1, <1>2, FS_Subset
<1>4. Cardinality(Workers) \in Nat /\ Cardinality(Counted) \in Nat /\ Cardinality(InFunctor) \in Nat
  BY <1>1, <1>3, FS_CardinalityType
<1> QED BY <1>1, <1>2, <1>3, <1>4

\* One worker goes on: what becomes of the sets of workers.
LEMMA GoSets ==
    ASSUME ParType, NEW w \in Workers,
           NEW to \in {"sem", "functor", "count", "schedule", "exit", "TERM"}, Par!Go(w, to)
    PROVE  /\ worker' \in [Workers -> {"sem", "functor", "count", "schedule", "exit", "TERM"}]
           /\ \A v \in Workers : worker'[v] = IF v = w THEN to ELSE worker[v]
           /\ Counted' = IF to \in {"schedule", "exit", "TERM"} THEN Counted \cup {w} ELSE Counted \ {w}
           /\ Last' = IF to = "schedule" THEN Last \cup {w} ELSE Last \ {w}
           /\ InFunctor' = IF to = "functor" THEN InFunctor \cup {w} ELSE InFunctor \ {w}
<1>1. worker' \in [Workers -> {"sem", "functor", "count", "schedule", "exit", "TERM"}]
  BY DEF Par!Go, ParType
<1>2. \A v \in Workers : worker'[v] = IF v = w THEN to ELSE worker[v]
  BY DEF Par!Go, ParType
<1>3. Counted' = IF to \in {"schedule", "exit", "TERM"} THEN Counted \cup {w} ELSE Counted \ {w}
  BY <1>2 DEF Counted
<1>4. Last' = IF to = "schedule" THEN Last \cup {w} ELSE Last \ {w}
  BY <1>2 DEF Last
<1>5. InFunctor' = IF to = "functor" THEN InFunctor \cup {w} ELSE InFunctor \ {w}
  BY <1>2 DEF InFunctor
<1> QED BY <1>1, <1>2, <1>3, <1>4, <1>5

\* A worker that has not counted knows that the caller waits, and that nobody is to
\* schedule it.
LEMMA NotGone ==
    ASSUME ParInv, NEW w \in Workers, worker[w] \in {"sem", "functor", "count", "schedule"}
    PROVE  /\ caller = "yielded" /\ queued = 0 /\ Counting /\ WorkDone
           /\ worker[w] # "schedule" => Last = {}
<1>1. caller = "yielded" /\ queued = 0
  BY DEF ParInv, ParType, Telling, Gone
<1>2. worker[w] # "schedule" => Last = {}
  BY DEF ParInv, Telling, Counted
<1> QED BY <1>1, <1>2 DEF ParInv

\* ParInv at the beginning.
LEMMA ParInit == Par!ParallelInit => ParInv
<1> SUFFICES ASSUME Par!ParallelInit PROVE ParInv
  OBVIOUS
<1>1. ParType
  <2>1. foreach \in BOOLEAN /\ (foreach \/ Workers = Jobs)
    <3>1. CASE Workers = Jobs
      BY <3>1 DEF Par!ParallelInit
    <3>2. CASE Workers # Jobs
      BY <3>2 DEF Par!ParallelInit
    <3> QED BY <3>1, <3>2
  <2>2. /\ worker \in [Workers -> {"sem", "functor", "count", "schedule", "exit", "TERM"}]
        /\ taken \in [Workers -> Nat]
    BY DEF Par!ParallelInit
  <2> QED BY <2>1, <2>2, CountersAssumption DEF Par!ParallelInit, ParType
<1>2. Last = {} /\ InFunctor = {}
  BY DEF Par!ParallelInit, Last, InFunctor
<1>3. Telling
  BY <1>2 DEF Par!ParallelInit, Telling, Gone
<1>4. Cardinality(InFunctor) = 0
  BY <1>2, FS_EmptySet
<1>5. Permits
  BY <1>4, CountersAssumption DEF Par!ParallelInit, Permits
<1> QED BY <1>1, <1>3, <1>5 DEF Par!ParallelInit, ParInv

\* A worker of parallel_do() enters its functor, and leaves it.
LEMMA ParDo ==
    ASSUME ParInv, NEW w \in Workers, Par!Enter(w) \/ Par!Functor(w)
    PROVE  ParInv'
<1>1. PICK to \in {"functor", "count"} : Par!Go(w, to) /\ (to = "functor" <=> worker[w] = "sem")
      /\ worker[w] = IF to = "functor" THEN "sem" ELSE "functor"
  BY DEF Par!Enter, Par!Functor
<1>2. /\ UNCHANGED <<foreach, taken, next, completed, caller, queued>> /\ ~foreach
      /\ to = "functor" => concurrency > 0 /\ concurrency' = concurrency - 1 /\ ended' = ended
      /\ to = "count" => concurrency' = concurrency + 1 /\ ended' = ended \cup {w}
  BY <1>1 DEF Par!Enter, Par!Functor
<1>3. /\ worker' \in [Workers -> {"sem", "functor", "count", "schedule", "exit", "TERM"}]
      /\ \A v \in Workers : worker'[v] = IF v = w THEN to ELSE worker[v]
      /\ Counted' = Counted \ {w} /\ Last' = Last \ {w}
      /\ InFunctor' = IF to = "functor" THEN InFunctor \cup {w} ELSE InFunctor \ {w}
  BY <1>1, GoSets DEF ParInv
<1>4. w \notin Counted /\ w \notin Last
  BY <1>1 DEF Counted, Last
<1>5. caller = "yielded" /\ queued = 0 /\ Last = {} /\ Counting /\ WorkDone
  BY <1>1, NotGone
<1>6. ParType'
  BY <1>1, <1>2, <1>3 DEF ParInv, ParType
<1>7. Telling'
  BY <1>2, <1>3, <1>5 DEF Telling
<1>8. Counted' = Counted /\ Counting'
  <2>1. Counted' = Counted
    BY <1>3, <1>4
  <2> QED BY <1>2, <1>5, <2>1 DEF Counting
<1>9. WorkDone'
  <2>1. {v \in Workers : worker'[v] = "count"}
          = IF to = "count" THEN {v \in Workers : worker[v] = "count"} \cup {w}
            ELSE {v \in Workers : worker[v] = "count"}
    BY <1>1, <1>3
  <2>2. ended = {v \in Workers : worker[v] = "count"} \cup Counted
    BY <1>2, <1>5 DEF WorkDone
  <2>3. ended' = {v \in Workers : worker'[v] = "count"} \cup Counted'
    BY <1>1, <1>2, <1>8, <2>1, <2>2
  <2> QED BY <1>2, <2>3 DEF WorkDone
<1>10. Permits'
  <2>1. /\ concurrency + Cardinality(InFunctor) = parallelism /\ IsFiniteSet(InFunctor)
        /\ Cardinality(InFunctor) \in Nat /\ concurrency \in Nat /\ parallelism \in Nat
    BY <1>2, WorkersFinite, CountersAssumption DEF ParInv, Permits, ParType
  <2>2. w \in InFunctor <=> to = "count"
    BY <1>1 DEF InFunctor
  <2>3. Cardinality(InFunctor') = IF to = "functor" THEN Cardinality(InFunctor) + 1
                                  ELSE Cardinality(InFunctor) - 1
    BY <1>1, <1>3, <2>1, <2>2, FS_AddElement, FS_RemoveElement
  <2>4. concurrency' + Cardinality(InFunctor') = parallelism
    BY <1>1, <1>2, <2>1, <2>3
  <2> QED BY <1>2, <2>4 DEF Permits
<1> QED BY <1>2, <1>6, <1>7, <1>8, <1>9, <1>10 DEF ParInv

\* A worker of parallel_foreach() takes an object, or stops; it is done with one.
LEMMA ParForeach ==
    ASSUME ParInv, NEW w \in Workers, Par!Take(w) \/ Par!Apply(w)
    PROVE  ParInv'
<1>1. PICK to \in {"sem", "functor", "count"} : Par!Go(w, to)
        /\ (Par!Take(w) => to \in {"functor", "count"}
                           /\ (to = "functor" <=> next \in Jobs /\ exception = {}))
        /\ (Par!Apply(w) => to \in {"sem", "count"})
  BY DEF Par!Take, Par!Apply
<1>2. /\ UNCHANGED <<foreach, completed, concurrency, caller, queued>> /\ foreach
      /\ worker[w] \in {"sem", "functor"}
  BY DEF Par!Take, Par!Apply
<1>3. /\ worker' \in [Workers -> {"sem", "functor", "count", "schedule", "exit", "TERM"}]
      /\ \A v \in Workers : worker'[v] = IF v = w THEN to ELSE worker[v]
      /\ Counted' = Counted \ {w} /\ Last' = Last \ {w}
      /\ InFunctor' = IF to = "functor" THEN InFunctor \cup {w} ELSE InFunctor \ {w}
  BY <1>1, GoSets DEF ParInv
<1>4. Counted' = Counted /\ Last' = Last
  BY <1>2, <1>3 DEF Counted, Last
<1>5. caller = "yielded" /\ queued = 0 /\ Last = {} /\ Counting /\ WorkDone
  BY <1>2, NotGone
<1>6. next \in Nat \ {0} /\ taken \in [Workers -> Nat]
  BY DEF ParInv, ParType
<1>7. /\ ended \cup {taken[v] : v \in InFunctor} = 1 .. next - 1
      /\ next \in Jobs \/ next - 1 \in Jobs \/ next = 1
      /\ (\E v \in Workers : worker[v] = "count" \/ v \in Counted)
           => next \notin Jobs \/ exception # {}
  BY <1>2, <1>5 DEF WorkDone
<1>8. Telling' /\ Permits' /\ Counting'
  BY <1>2, <1>3, <1>4, <1>5 DEF Telling, Permits, Counting, ParInv
<1>9. next' \in Nat \ {0} /\ taken' \in [Workers -> Nat] /\ WorkDone'
  <2>1. CASE Par!Take(w) /\ to = "functor"
    <3>1. /\ next' = next + 1 /\ taken' = [taken EXCEPT ![w] = next] /\ ended' = ended
          /\ exception' = exception /\ next \in Jobs /\ exception = {} /\ worker[w] = "sem"
      BY <1>1, <2>1 DEF Par!Take
    <3>2. w \notin InFunctor /\ InFunctor' = InFunctor \cup {w}
      BY <1>3, <2>1, <3>1 DEF InFunctor
    <3>3. {taken'[v] : v \in InFunctor'} = {taken[v] : v \in InFunctor} \cup {next}
      BY <1>6, <3>1, <3>2 DEF InFunctor
    <3>4. 1 .. next' - 1 = (1 .. next - 1) \cup {next}
      BY <1>6, <3>1
    <3>5. ended' \cup {taken'[v] : v \in InFunctor'} = 1 .. next' - 1
      <4>1. ended' \cup {taken'[v] : v \in InFunctor'}
              = (ended \cup {taken[v] : v \in InFunctor}) \cup {next}
        BY <3>1, <3>3
      <4> QED BY <1>7, <3>4, <4>1
    <3>6. next' - 1 \in Jobs
      BY <1>6, <3>1
    <3>7. ~ \E v \in Workers : worker'[v] = "count" \/ v \in Counted'
      BY <1>3, <1>4, <1>7, <2>1, <3>1 DEF Counted
    <3>8. next' \in Nat \ {0} /\ taken' \in [Workers -> Nat]
      BY <1>6, <3>1
    <3> QED BY <1>2, <3>5, <3>6, <3>7, <3>8 DEF WorkDone
  <2>2. CASE Par!Take(w) /\ to = "count"
    <3>1. UNCHANGED <<next, taken, ended, exception>> /\ (next \notin Jobs \/ exception # {})
          /\ worker[w] = "sem"
      BY <1>1, <2>2 DEF Par!Take
    <3>2. InFunctor' = InFunctor
      BY <1>3, <2>2, <3>1 DEF InFunctor
    <3> QED BY <1>2, <1>6, <1>7, <3>1, <3>2 DEF WorkDone
  <2>3. CASE Par!Apply(w)
    <3>1. /\ UNCHANGED <<next, taken>> /\ ended' = ended \cup {taken[w]} /\ worker[w] = "functor"
      BY <2>3 DEF Par!Apply
    <3>2. w \in InFunctor /\ InFunctor' = InFunctor \ {w}
      BY <1>1, <1>3, <2>3, <3>1 DEF InFunctor
    <3>3. ended' \cup {taken'[v] : v \in InFunctor'} = ended \cup {taken[v] : v \in InFunctor}
      BY <3>1, <3>2
    <3>4. /\ exception # {} => exception' # {}
          /\ to = "count" => exception' # {}
      <4>1. \/ worker' = [worker EXCEPT ![w] = "sem"] /\ exception' = exception
            \/ worker' = [worker EXCEPT ![w] = "count"] /\ exception' = exception \cup {taken[w]}
        BY <2>3 DEF Par!Apply, Par!Go
      <4>2. worker'[w] = to /\ worker \in [Workers -> {"sem", "functor", "count", "schedule", "exit", "TERM"}]
        BY <1>3 DEF ParInv, ParType
      <4> QED BY <1>1, <4>1, <4>2
    <3>5. (\E v \in Workers : worker'[v] = "count" \/ v \in Counted')
             => next' \notin Jobs \/ exception' # {}
      BY <1>3, <1>4, <1>7, <3>1, <3>4
    <3> QED BY <1>2, <1>6, <1>7, <3>1, <3>3, <3>5 DEF WorkDone
  <2> QED BY <1>1, <2>1, <2>2, <2>3
<1>10. ParType'
  BY <1>2, <1>3, <1>9 DEF ParInv, ParType
<1> QED BY <1>2, <1>8, <1>9, <1>10 DEF ParInv

\* The atomic counter.
LEMMA ParCount ==
    ASSUME ParInv, NEW w \in Workers, Par!Count(w)
    PROVE  ParInv'
<1>1. /\ worker[w] = "count" /\ UNCHANGED <<foreach, taken, next, ended, exception, concurrency,
                                            caller, queued>>
      /\ completed' = IF foreach THEN completed - 1 ELSE completed + 1
      /\ Par!Go(w, IF completed' = (IF foreach THEN 0 ELSE Cardinality(Workers))
                   THEN "schedule" ELSE "exit")
  <2>1. Par!Total = Cardinality(Workers)
    BY SameCardinality DEF Par!Total
  <2> QED BY <2>1 DEF Par!Count
<1>2. PICK to \in {"schedule", "exit"} :
        to = IF completed' = (IF foreach THEN 0 ELSE Cardinality(Workers))
             THEN "schedule" ELSE "exit"
  OBVIOUS
<1>3. /\ worker' \in [Workers -> {"sem", "functor", "count", "schedule", "exit", "TERM"}]
      /\ \A v \in Workers : worker'[v] = IF v = w THEN to ELSE worker[v]
      /\ Counted' = Counted \cup {w}
      /\ Last' = IF to = "schedule" THEN Last \cup {w} ELSE Last \ {w}
      /\ InFunctor' = InFunctor \ {w}
  BY <1>1, <1>2, GoSets DEF ParInv
<1>4. caller = "yielded" /\ queued = 0 /\ Last = {} /\ Counting /\ WorkDone
  BY <1>1, NotGone
<1>5. /\ IsFiniteSet(Workers) /\ Cardinality(Workers) \in Nat
      /\ IsFiniteSet(Counted) /\ Cardinality(Counted) \in Nat
      /\ Counted' \subseteq Workers /\ w \notin Counted /\ InFunctor' = InFunctor
  BY <1>1, <1>3, WorkersFinite DEF Counted, InFunctor
<1>6. Cardinality(Counted') = Cardinality(Counted) + 1 /\ IsFiniteSet(Counted')
  BY <1>3, <1>5, FS_AddElement
<1>7. Counting' /\ completed' \in Int
  BY <1>1, <1>4, <1>5, <1>6 DEF Counting
<1>8. to = "schedule" => Counted' = Workers
  <2>1. to = "schedule" => Cardinality(Counted') = Cardinality(Workers)
    BY <1>1, <1>2, <1>5, <1>6, <1>7 DEF Counting
  <2>2. Cardinality(Counted') = Cardinality(Workers) => Counted' = Workers
    BY <1>5, FS_Subset
  <2> QED BY <2>1, <2>2
<1>9. Telling'
  <2>1. Last' \subseteq {w} /\ (Last' # {} => Counted' = Workers)
    BY <1>3, <1>4, <1>8
  <2> QED BY <1>1, <1>4, <2>1 DEF Telling
<1>10. WorkDone'
  <2>1. {v \in Workers : worker'[v] = "count"} \cup Counted'
          = {v \in Workers : worker[v] = "count"} \cup Counted
    BY <1>1, <1>3
  <2>2. (\E v \in Workers : worker'[v] = "count" \/ v \in Counted')
          => \E v \in Workers : worker[v] = "count" \/ v \in Counted
    BY <1>1
  <2> QED BY <1>1, <1>4, <1>5, <2>1, <2>2 DEF WorkDone
<1>11. Permits'
  BY <1>1, <1>5 DEF Permits, ParInv
<1>12. ParType'
  BY <1>1, <1>3, <1>7 DEF ParInv, ParType
<1> QED BY <1>1, <1>7, <1>9, <1>10, <1>11, <1>12 DEF ParInv

\* The end of a worker: it schedules the caller, it exits.
LEMMA ParEnds ==
    ASSUME ParInv, NEW w \in Workers, Par!Schedule(w) \/ Par!ExitFiber(w)
    PROVE  ParInv'
<1>1. PICK to \in {"exit", "TERM"} : Par!Go(w, to) /\ worker[w] = IF to = "exit" THEN "schedule" ELSE "exit"
  BY DEF Par!Schedule, Par!ExitFiber
<1>2. /\ UNCHANGED <<foreach, taken, next, ended, exception, completed, concurrency, caller>>
      /\ queued' = IF to = "exit" THEN queued + 1 ELSE queued
  BY <1>1 DEF Par!Schedule, Par!ExitFiber
<1>3. /\ worker' \in [Workers -> {"sem", "functor", "count", "schedule", "exit", "TERM"}]
      /\ \A v \in Workers : worker'[v] = IF v = w THEN to ELSE worker[v]
      /\ Counted' = Counted \cup {w} /\ Last' = Last \ {w} /\ InFunctor' = InFunctor \ {w}
  BY <1>1, GoSets DEF ParInv
<1>4. Counted' = Counted /\ InFunctor' = InFunctor
  BY <1>1, <1>3 DEF Counted, InFunctor
<1>5. to = "exit" => caller = "yielded" /\ queued = 0 /\ Counted = Workers /\ Last = {w}
  <2>1. to = "exit" => caller = "yielded" /\ queued = 0
    BY <1>1, NotGone
  <2>2. to = "exit" => w \in Last
    BY <1>1 DEF Last
  <2> QED BY <2>1, <2>2 DEF ParInv, Telling
<1>6. Gone => Gone'
  BY <1>1, <1>3 DEF Gone
<1>7. to = "exit" => Gone' /\ Last' = {}
  <2>1. to = "exit" => \A v \in Workers \ {w} : worker[v] \in {"schedule", "exit", "TERM"} /\ v \notin Last
    BY <1>5 DEF Counted
  <2> QED BY <1>1, <1>3, <1>5, <2>1 DEF Gone, Last
<1>8. Telling'
  <2>1. CASE to = "exit"
    BY <1>2, <1>5, <1>7, <2>1 DEF Telling
  <2>2. CASE to = "TERM"
    <3>1. queued' = queued /\ (Last' # {} => Last # {}) /\ Last' \subseteq Last
      BY <1>2, <1>3, <2>2
    <3>2. (\A v \in Workers : worker[v] = "TERM") => \A v \in Workers : worker'[v] = "TERM"
      BY <1>3, <2>2
    <3> QED BY <1>2, <1>4, <1>6, <3>1, <3>2 DEF ParInv, Telling
  <2> QED BY <2>1, <2>2
<1>9. ParType'
  <2>1. queued' \in {0, 1}
    BY <1>1, <1>2, <1>5 DEF ParInv, ParType
  <2> QED BY <1>2, <1>3, <2>1 DEF ParInv, ParType
<1>10. Permits' /\ (Counting => Counting')
  BY <1>2, <1>4 DEF ParInv, Permits, Counting
<1>11. WorkDone => WorkDone'
  <2>1. {v \in Workers : worker'[v] = "count"} = {v \in Workers : worker[v] = "count"}
    BY <1>1, <1>3
  <2>2. (\E v \in Workers : worker'[v] = "count" \/ v \in Counted')
          => \E v \in Workers : worker[v] = "count" \/ v \in Counted
    BY <1>1, <1>3, <1>4
  <2> QED BY <1>2, <1>4, <2>1, <2>2 DEF WorkDone
<1> QED BY <1>2, <1>8, <1>9, <1>10, <1>11 DEF ParInv

\* The caller begins a call, is resumed, and returns.
LEMMA ParCaller ==
    ASSUME ParInv, Par!Spawn \/ Par!Resume \/ Par!ReturnToUser
    PROVE  ParInv'
<1>1. CASE Par!Spawn
  <2>1. /\ \A w \in Workers : worker'[w] = "sem" /\ foreach' = foreach
        /\ Counted' = {} /\ Last' = {} /\ InFunctor' = {}
        /\ {w \in Workers : worker'[w] = "count"} = {}
    BY <1>1 DEF Par!Spawn, Counted, Last, InFunctor
  <2>2. /\ completed' = (IF foreach THEN Cardinality(Workers) ELSE 0) /\ next' = 1 /\ ended' = {}
        /\ exception' = {} /\ concurrency' = parallelism /\ caller' = "yielded"
        /\ UNCHANGED <<foreach, taken, queued>> /\ caller = "calling"
    BY <1>1, SameCardinality DEF Par!Spawn, Par!Total
  <2>3. Cardinality({}) = 0 /\ Cardinality(Workers) \in Nat /\ parallelism \in Nat
    BY FS_EmptySet, WorkersFinite, CountersAssumption
  <2>4. queued = 0
    BY <2>2 DEF ParInv, Telling
  <2>5. ParType'
    <3>1. worker' \in [Workers -> {"sem", "functor", "count", "schedule", "exit", "TERM"}]
      BY <1>1 DEF Par!Spawn
    <3>2. completed' \in Int
      BY <2>2, <2>3
    <3> QED BY <2>2, <2>3, <3>1, <3>2 DEF ParInv, ParType
  <2>6. Telling'
    BY <2>1, <2>2, <2>4 DEF Telling
  <2>7. Permits' /\ Counting'
    <3>1. foreach \in BOOLEAN
      BY DEF ParInv, ParType
    <3> QED BY <2>1, <2>2, <2>3, <3>1 DEF Permits, Counting
  <2>8. WorkDone'
    <3>1. {taken'[w] : w \in {}} = {} /\ 1 .. 1 - 1 = {}
      OBVIOUS
    <3> QED BY <2>1, <2>2, <3>1 DEF WorkDone
  <2> QED BY <2>5, <2>6, <2>7, <2>8 DEF ParInv
<1>2. CASE Par!Resume
  <2>1. /\ caller = "yielded" /\ queued = 1 /\ queued' = 0 /\ caller' = "returning"
        /\ UNCHANGED <<foreach, worker, taken, next, ended, exception, completed, concurrency>>
    BY <1>2 DEF Par!Resume, ParInv, ParType
  <2>2. /\ Gone' = Gone /\ Last' = Last /\ Counted' = Counted /\ InFunctor' = InFunctor
    BY <2>1 DEF Gone, Last, Counted, InFunctor
  <2>3. Gone /\ Workers # {} /\ Last = {}
    BY <2>1 DEF ParInv, Telling
  <2>4. Telling'
    BY <2>1, <2>2, <2>3 DEF Telling
  <2>5. ParType' /\ Permits' /\ Counting' /\ WorkDone'
    BY <2>1, <2>2 DEF ParInv, ParType, Permits, Counting, WorkDone
  <2> QED BY <2>4, <2>5 DEF ParInv
<1>3. CASE Par!ReturnToUser
  <2>1. /\ caller = "returning" /\ caller' \in {"calling", "returned"}
        /\ foreach \/ \A w \in Workers : worker[w] = "TERM"
        /\ UNCHANGED <<foreach, worker, taken, next, ended, exception, completed, concurrency, queued>>
    BY <1>3 DEF Par!ReturnToUser
  <2>2. /\ Gone' = Gone /\ Last' = Last /\ Counted' = Counted /\ InFunctor' = InFunctor
    BY <2>1 DEF Gone, Last, Counted, InFunctor
  <2>3. Gone /\ queued = 0
    BY <2>1 DEF ParInv, Telling
  <2>4. Telling'
    BY <2>1, <2>2, <2>3 DEF ParInv, Telling
  <2>5. ParType' /\ Permits'
    BY <2>1, <2>2 DEF ParInv, ParType, Permits
  <2> QED BY <2>1, <2>4, <2>5 DEF ParInv
<1> QED BY <1>1, <1>2, <1>3

\* ParInv does not depend on anything else.
LEMMA ParStill == ParInv /\ UNCHANGED parallelVars => ParInv'
<1> SUFFICES ASSUME ParInv, UNCHANGED parallelVars PROVE ParInv'
  OBVIOUS
<1>1. UNCHANGED <<foreach, worker, taken, next, ended, exception, completed, concurrency, caller, queued>>
  BY DEF parallelVars
<1>2. /\ Gone' = Gone /\ Last' = Last /\ Counted' = Counted /\ InFunctor' = InFunctor
  BY <1>1 DEF Gone, Last, Counted, InFunctor
<1> QED BY <1>1, <1>2 DEF ParInv, ParType, Telling, Permits, Counting, WorkDone

\* Together: every step of Parallel.
LEMMA ParStep == ParInv /\ Par!ParallelNext => ParInv'
<1>1. Par!parallelVars = parallelVars
  BY DEF Par!parallelVars, parallelVars
<1> QED BY <1>1, ParDo, ParForeach, ParCount, ParEnds, ParCaller, ParStill
        DEF Par!ParallelNext, Par!Progress, Par!ParallelDone, Par!parallelVars, parallelVars

-----------------------------------------------------------------------------
(* Fiber and Coroutine.                                                    *)

\* Outside Coroutine::reset() nobody is in it.
LEMMA NoneAborting ==
    ASSUME SwitchInv, aborting[t_fiber] = NoFiber,
           m_state[t_fiber] = "EXEC" \/ m_outer[t_fiber] = NoFiber
    PROVE  \A f \in Everyone : aborting[f] = NoFiber
BY StacksAssumption DEF SwitchInv, SwitchType, Aborts, Everyone

\* A fiber that can be resumed is not running, does not wait in call(), and can be
\* reset only if it has no context.
LEMMA ContextOf ==
    ASSUME SwitchInv, NEW f \in Everyone
    PROVE  /\ m_state[f] \in {"HOLD", "INIT"} =>
                 /\ f # t_fiber /\ context[f] \in {"entry", "yield", "yieldTo"}
                 /\ \A g \in Everyone : m_outer[g] # f
           /\ f # t_fiber /\ m_state[f] \in {"TERM", "EXCEPT"} =>
                 /\ context[f] = "none" /\ m_outer[f] = NoFiber
                 /\ \A g \in Everyone : m_outer[g] # f
<1>1. /\ context[f] \in Contexts /\ StateWord(f) /\ m_state[t_fiber] \in {"EXEC", "EXCEPT"}
  BY DEF SwitchInv, SwitchType
<1> QED BY <1>1 DEF StateWord, Contexts

\* call() and inject(): the running fiber waits for the one it calls.
LEMMA CallStep ==
    ASSUME SwitchInv, NEW f \in Everyone, NEW injected \in BOOLEAN, Switch!Working,
           Switch!Call(f, injected), m_terminateOuter' = m_terminateOuter,
           \/ aborting' = aborting
           \/ injected /\ aborting' = [aborting EXCEPT ![t_fiber] = f]
    PROVE  SwitchInv'
<1>1. /\ t_fiber \in Everyone /\ SwitchType /\ Chain /\ \A g \in Everyone : StateWord(g)
      /\ NoFiber \notin Everyone
  BY StacksAssumption DEF SwitchInv, SwitchType, Everyone
<1>2. /\ m_state[t_fiber] = "EXEC" /\ aborting[t_fiber] = NoFiber
      /\ m_outer[f] = NoFiber /\ m_state[f] \in {"HOLD", "INIT"} /\ f # t_fiber
      /\ t_fiber' = f
      /\ m_outer' = [m_outer EXCEPT ![f] = t_fiber]
      /\ context' = [context EXCEPT ![t_fiber] = "call", ![f] = "running"]
      /\ m_state' = [m_state EXCEPT ![f] = IF m_exception[f] \/ injected THEN "EXCEPT" ELSE "EXEC"]
  BY DEF Switch!Working, Switch!Call, Switch!Resumable
<1>3. PICK s \in {"EXEC", "EXCEPT"} : m_state' = [m_state EXCEPT ![f] = s] /\ (injected => s = "EXCEPT")
  BY <1>2
<1>4. /\ SwitchType'
      /\ \A g \in Everyone : /\ m_outer'[g] = IF g = f THEN t_fiber ELSE m_outer[g]
                             /\ m_state'[g] = IF g = f THEN s ELSE m_state[g]
                             /\ context'[g] = IF g = f THEN "running"
                                              ELSE IF g = t_fiber THEN "call" ELSE context[g]
  <2>1. aborting' \in [Everyone -> Everyone \cup {NoFiber}]
    BY <1>1 DEF SwitchType
  <2>2. /\ m_outer' \in [Everyone -> Everyone \cup {NoFiber}]
        /\ m_state' \in [Everyone -> States] /\ context' \in [Everyone -> Contexts]
    BY <1>1, <1>2, <1>3 DEF SwitchType, States, Contexts
  <2> QED BY <1>1, <1>2, <1>3, <2>1, <2>2 DEF SwitchType
<1>5. /\ \A g \in Everyone : aborting[g] = NoFiber /\ m_outer[g] # f /\ m_outer[g] # t_fiber
  <2>1. \A g \in Everyone : aborting[g] = NoFiber
    BY <1>2, NoneAborting
  <2>2. \A g \in Everyone : m_outer[g] # f
    BY <1>2, ContextOf
  <2>3. \A g \in Everyone : m_outer[g] # t_fiber
    BY <1>1 DEF StateWord
  <2> QED BY <2>1, <2>2, <2>3
<1>6. ASSUME NEW g \in Everyone PROVE StateWord(g)'
  <2>1. CASE g = f
    <3>1. context'[g] = "running" /\ m_state'[g] = s /\ g = t_fiber'
      BY <1>2, <1>4, <2>1
    <3>2. \A h \in Everyone : m_outer'[h] # g
      BY <1>2, <1>4, <1>5, <2>1
    <3> QED BY <3>1, <3>2 DEF StateWord
  <2>2. CASE g = t_fiber
    <3>1. context'[g] = "call" /\ m_state'[g] = "EXEC" /\ g # t_fiber' /\ m_outer'[f] = g
      BY <1>2, <1>4, <2>2
    <3> QED BY <3>1 DEF StateWord
  <2>3. CASE g # f /\ g # t_fiber
    <3>1. (\E h \in Everyone : m_outer'[h] = g) <=> \E h \in Everyone : m_outer[h] = g
      BY <1>1, <1>2, <1>4, <2>3
    <3>2. /\ context'[g] = context[g] /\ m_state'[g] = m_state[g] /\ m_outer'[g] = m_outer[g]
          /\ g # t_fiber' /\ g # t_fiber
      BY <1>2, <1>4, <2>3
    <3> QED BY <1>1, <3>1, <3>2 DEF StateWord
  <2> QED BY <2>1, <2>2, <2>3
<1>7. Chain'
  BY <1>1, <1>4, <1>5 DEF Chain
<1>8. \A g \in Everyone : Aborts(g)'
  <2>1. CASE aborting' = aborting
    BY <1>5, <2>1 DEF Aborts
  <2>2. CASE injected /\ aborting' = [aborting EXCEPT ![t_fiber] = f]
    <3>1. /\ \A g \in Everyone : aborting'[g] = IF g = t_fiber THEN f ELSE NoFiber
          /\ s = "EXCEPT"
      BY <1>1, <1>3, <1>5, <2>2 DEF SwitchType
    <3> QED BY <1>2, <1>4, <3>1 DEF Aborts
  <2> QED BY <2>1, <2>2
<1>9. m_state'[t_fiber'] \in {"EXEC", "EXCEPT"}
  BY <1>2, <1>4
<1> QED BY <1>4, <1>6, <1>7, <1>8, <1>9 DEF SwitchInv

\* The running fiber goes back to the one that waits for it in call().
LEMMA BackStep ==
    ASSUME SwitchInv, NEW ends \in {"HOLD", "TERM", "EXCEPT"}, m_outer[t_fiber] # NoFiber,
           Switch!BackInCall(t_fiber, ends), UNCHANGED <<m_terminateOuter, aborting>>,
           aborting[t_fiber] = NoFiber \/ m_state[t_fiber] = "EXCEPT",
           ends = "HOLD" => \A g \in Everyone : aborting[g] = NoFiber
    PROVE  SwitchInv'
<1>1. /\ t_fiber \in Everyone /\ SwitchType /\ Chain /\ \A g \in Everyone : StateWord(g)
      /\ NoFiber \notin Everyone
  BY StacksAssumption DEF SwitchInv, SwitchType, Everyone
<1>2. PICK t \in Everyone : t = t_fiber
  BY <1>1
<1>3. PICK outer \in Everyone : outer = m_outer[t]
  BY <1>1, <1>2 DEF SwitchType
<1>4. /\ t_fiber' = outer /\ m_outer' = [m_outer EXCEPT ![t] = NoFiber]
      /\ m_state' = [m_state EXCEPT ![t] = ends]
      /\ context' = [context EXCEPT ![outer] = "running",
                                    ![t] = IF ends = "HOLD" THEN "yield" ELSE "none"]
  BY <1>2, <1>3 DEF Switch!BackInCall
<1>5. /\ context[outer] = "call" /\ m_state[outer] = "EXEC" /\ outer # t
      /\ \A g \in Everyone : m_outer[g] # t
      /\ \A g \in Everyone \ {t} : m_outer[g] # outer
  BY <1>1, <1>2, <1>3 DEF StateWord, Chain
<1>6. /\ SwitchType'
      /\ \A g \in Everyone : /\ m_outer'[g] = IF g = t THEN NoFiber ELSE m_outer[g]
                             /\ m_state'[g] = IF g = t THEN ends ELSE m_state[g]
                             /\ context'[g] = IF g = t THEN IF ends = "HOLD" THEN "yield" ELSE "none"
                                              ELSE IF g = outer THEN "running" ELSE context[g]
  <2>1. /\ m_outer' \in [Everyone -> Everyone \cup {NoFiber}]
        /\ m_state' \in [Everyone -> States] /\ context' \in [Everyone -> Contexts]
    BY <1>1, <1>4 DEF SwitchType, States, Contexts
  <2> QED BY <1>1, <1>4, <1>5, <2>1 DEF SwitchType
<1>7. ASSUME NEW g \in Everyone PROVE StateWord(g)'
  <2>1. CASE g = t
    <3>1. /\ context'[g] = IF ends = "HOLD" THEN "yield" ELSE "none"
          /\ m_state'[g] = ends /\ g # t_fiber' /\ m_outer'[g] = NoFiber
      BY <1>4, <1>5, <1>6, <2>1
    <3>2. \A h \in Everyone : m_outer'[h] # g
      BY <1>1, <1>5, <1>6, <2>1
    <3> QED BY <3>1, <3>2 DEF StateWord
  <2>2. CASE g = outer
    <3>1. context'[g] = "running" /\ m_state'[g] = "EXEC" /\ g = t_fiber'
      BY <1>4, <1>5, <1>6, <2>2
    <3>2. \A h \in Everyone : m_outer'[h] # g
      BY <1>1, <1>5, <1>6, <2>2
    <3> QED BY <3>1, <3>2 DEF StateWord
  <2>3. CASE g # t /\ g # outer
    <3>1. (\E h \in Everyone : m_outer'[h] = g) <=> \E h \in Everyone : m_outer[h] = g
      BY <1>1, <1>3, <1>6, <2>3
    <3>2. /\ context'[g] = context[g] /\ m_state'[g] = m_state[g] /\ m_outer'[g] = m_outer[g]
          /\ g # t_fiber' /\ g # t_fiber
      BY <1>2, <1>4, <1>6, <2>3
    <3> QED BY <1>1, <3>1, <3>2 DEF StateWord
  <2> QED BY <2>1, <2>2, <2>3
<1>8. Chain'
  BY <1>1, <1>6 DEF Chain
<1>9. ASSUME NEW g \in Everyone, aborting[g] # NoFiber PROVE Aborts(g)'
  <2>1. Aborts(g) /\ ends # "HOLD"
    BY <1>9 DEF SwitchInv
  <2>2. aborting[g] = t /\ m_outer[t] = g
    BY <1>2, <1>9, <2>1 DEF Aborts
  <2> QED BY <1>3, <1>4, <1>5, <1>6, <2>1, <2>2 DEF Aborts
<1>10. \A g \in Everyone : Aborts(g)'
  BY <1>9 DEF Aborts
<1>11. m_state'[t_fiber'] = "EXEC"
  BY <1>4, <1>5, <1>6
<1> QED BY <1>6, <1>7, <1>8, <1>10, <1>11 DEF SwitchInv

\* A plain switch, in yieldTo() or at the end of a fiber that nobody called.
LEMMA PlainSwitchStep ==
    ASSUME SwitchInv, NEW f \in Everyone, NEW ends \in {"HOLD", "TERM", "EXCEPT"},
           Switch!SwitchTo(f, ends), UNCHANGED <<m_outer, aborting>>,
           \A g \in Everyone : aborting[g] = NoFiber,
           ends # "HOLD" => m_outer[t_fiber] = NoFiber,
           m_terminateOuter' \in [Everyone -> Everyone \cup {NoFiber}]
    PROVE  SwitchInv'
<1>1. /\ t_fiber \in Everyone /\ SwitchType /\ Chain /\ \A g \in Everyone : StateWord(g)
      /\ NoFiber \notin Everyone
  BY StacksAssumption DEF SwitchInv, SwitchType, Everyone
<1>2. PICK t \in Everyone : t = t_fiber
  BY <1>1
<1>3. /\ m_state[f] \in {"HOLD", "INIT"} /\ t_fiber' = f
      /\ m_state' = [m_state EXCEPT ![f] = "EXEC", ![t] = ends]
      /\ context' = [context EXCEPT ![f] = "running",
                                    ![t] = IF ends = "HOLD" THEN "yieldTo" ELSE "none"]
  BY <1>2 DEF Switch!SwitchTo, Switch!Resumable
<1>4. f # t /\ \A g \in Everyone : m_outer[g] # f /\ m_outer[g] # t
  <2>1. f # t /\ \A g \in Everyone : m_outer[g] # f
    BY <1>2, <1>3, ContextOf
  <2> QED BY <1>1, <1>2, <2>1 DEF StateWord
<1>5. /\ SwitchType'
      /\ \A g \in Everyone : /\ m_state'[g] = IF g = t THEN ends
                                              ELSE IF g = f THEN "EXEC" ELSE m_state[g]
                             /\ context'[g] = IF g = t THEN IF ends = "HOLD" THEN "yieldTo" ELSE "none"
                                              ELSE IF g = f THEN "running" ELSE context[g]
  <2>1. m_state' \in [Everyone -> States] /\ context' \in [Everyone -> Contexts]
    BY <1>1, <1>3 DEF SwitchType, States, Contexts
  <2> QED BY <1>1, <1>3, <1>4, <2>1 DEF SwitchType
<1>6. ASSUME NEW g \in Everyone PROVE StateWord(g)'
  <2>1. CASE g = t
    <3>1. /\ context'[g] = IF ends = "HOLD" THEN "yieldTo" ELSE "none"
          /\ m_state'[g] = ends /\ g # t_fiber'
          /\ m_outer'[g] = NoFiber \/ ends = "HOLD"
      BY <1>2, <1>3, <1>4, <1>5, <2>1
    <3>2. \A h \in Everyone : m_outer'[h] # g
      BY <1>4, <2>1
    <3> QED BY <3>1, <3>2 DEF StateWord
  <2>2. CASE g = f
    <3>1. context'[g] = "running" /\ m_state'[g] = "EXEC" /\ g = t_fiber'
      BY <1>3, <1>4, <1>5, <2>2
    <3>2. \A h \in Everyone : m_outer'[h] # g
      BY <1>4, <2>2
    <3> QED BY <3>1, <3>2 DEF StateWord
  <2>3. CASE g # t /\ g # f
    <3>1. /\ context'[g] = context[g] /\ m_state'[g] = m_state[g] /\ m_outer' = m_outer
          /\ g # t_fiber' /\ g # t_fiber
      BY <1>2, <1>3, <1>5, <2>3
    <3> QED BY <1>1, <3>1 DEF StateWord
  <2> QED BY <2>1, <2>2, <2>3
<1>7. Chain' /\ \A g \in Everyone : Aborts(g)'
  BY <1>1 DEF Chain, Aborts
<1>8. m_state'[t_fiber'] = "EXEC"
  BY <1>3, <1>4, <1>5
<1> QED BY <1>5, <1>6, <1>7, <1>8 DEF SwitchInv

\* A fiber that is not running and has nobody to go back to loses or gets its context:
\* reset(), and inject() before it has begun.
LEMMA ContextStep ==
    ASSUME SwitchInv, NEW f \in Everyone, f # t_fiber, context[f] \in {"entry", "none"},
           m_outer[f] = NoFiber,
           NEW to \in {"entry", "none"}, context' = [context EXCEPT ![f] = to],
           m_state' = [m_state EXCEPT ![f] = IF to = "entry" THEN "INIT" ELSE "EXCEPT"],
           UNCHANGED <<t_fiber, m_outer, m_terminateOuter>>,
           aborting' \in [Everyone -> Everyone \cup {NoFiber}],
           \A g \in Everyone : aborting'[g] = NoFiber
    PROVE  SwitchInv'
<1>1. /\ t_fiber \in Everyone /\ SwitchType /\ Chain /\ \A g \in Everyone : StateWord(g)
  BY DEF SwitchInv, SwitchType
<1>2. /\ SwitchType'
      /\ \A g \in Everyone \ {f} : m_state'[g] = m_state[g] /\ context'[g] = context[g]
      /\ context'[f] = to /\ m_state'[f] = IF to = "entry" THEN "INIT" ELSE "EXCEPT"
  BY <1>1 DEF SwitchType, States, Contexts
<1>3. \A g \in Everyone : m_outer[g] # f
  BY <1>1 DEF StateWord
<1>4. ASSUME NEW g \in Everyone PROVE StateWord(g)'
  <2>1. CASE g = f
    BY <1>2, <1>3, <2>1 DEF StateWord
  <2>2. CASE g # f
    <3>1. /\ context'[g] = context[g] /\ m_state'[g] = m_state[g] /\ m_outer' = m_outer
          /\ t_fiber' = t_fiber
      BY <1>2, <2>2
    <3> QED BY <1>1, <3>1 DEF StateWord
  <2> QED BY <2>1, <2>2
<1>5. Chain' /\ \A g \in Everyone : Aborts(g)'
  BY <1>1 DEF Chain, Aborts
<1>6. m_state'[t_fiber'] \in {"EXEC", "EXCEPT"}
  BY <1>1, <1>2 DEF SwitchInv
<1> QED BY <1>2, <1>4, <1>5, <1>6 DEF SwitchInv

\* SwitchInv at the beginning.
LEMMA SwitchInit == Switch!FiberInit => SwitchInv
<1> SUFFICES ASSUME Switch!FiberInit PROVE SwitchInv
  OBVIOUS
<1>1. /\ Switch!Everyone = Everyone /\ NoFiber \notin Everyone /\ t_fiber \in Everyone
      /\ \A f \in Threads : f = t_fiber
      /\ t_fiber \in Threads
  BY StacksAssumption DEF Switch!FiberInit, Switch!Everyone, Everyone
<1>2. SwitchType
  BY <1>1 DEF Switch!FiberInit, SwitchType, States, Contexts
<1>3. \A f \in Everyone :
        /\ m_state[f] = (IF f \in Threads THEN "EXEC" ELSE "INIT")
        /\ context[f] = (IF f \in Threads THEN "running" ELSE "entry")
        /\ m_outer[f] = NoFiber /\ aborting[f] = NoFiber
  BY <1>1 DEF Switch!FiberInit
<1>4. ASSUME NEW f \in Everyone PROVE StateWord(f)
  <2>1. f \in Threads <=> f = t_fiber
    BY <1>1
  <2>2. \A g \in Everyone : m_outer[g] # f
    BY <1>1, <1>3
  <2> QED BY <1>3, <2>1, <2>2 DEF StateWord
<1>5. Chain /\ \A f \in Everyone : Aborts(f)
  BY <1>3 DEF Chain, Aborts
<1> QED BY <1>1, <1>2, <1>3, <1>4, <1>5 DEF SwitchInv

\* Every step of Fiber and Coroutine.
LEMMA SwitchesStep == SwitchInv /\ Switch!FiberNext => SwitchInv'
<1> SUFFICES ASSUME SwitchInv, Switch!FiberNext PROVE SwitchInv'
  OBVIOUS
<1>0. /\ Switch!Everyone = Everyone /\ NoFiber \notin Everyone /\ Stacks \subseteq Everyone
      /\ t_fiber \in Everyone /\ SwitchType
  BY StacksAssumption DEF Switch!Everyone, Everyone, SwitchInv, SwitchType
<1>w. Switch!Working => \A g \in Everyone : aborting[g] = NoFiber
  BY NoneAborting DEF Switch!Working
<1>1. ASSUME NEW f \in Stacks, Switch!call(f) \/ Switch!inject(f) \/ Switch!CoroutineAbort(f)
      PROVE  SwitchInv'
  <2>1. f \in Everyone
    BY <1>0
  <2>2. \E injected \in BOOLEAN :
          /\ Switch!Working /\ Switch!Call(f, injected) /\ m_terminateOuter' = m_terminateOuter
          /\ \/ aborting' = aborting
             \/ injected /\ aborting' = [aborting EXCEPT ![t_fiber] = f]
    BY <1>1 DEF Switch!call, Switch!inject, Switch!CoroutineAbort
  <2> QED BY <2>1, <2>2, CallStep
<1>2. ASSUME NEW f \in Stacks, Switch!InjectAtEntry(f) PROVE SwitchInv'
  <2>1. /\ f \in Everyone /\ f # t_fiber /\ context[f] = "entry" /\ m_outer[f] = NoFiber
        /\ context' = [context EXCEPT ![f] = "none"] /\ m_state' = [m_state EXCEPT ![f] = "EXCEPT"]
        /\ UNCHANGED <<t_fiber, m_outer, m_terminateOuter, aborting>>
    BY <1>0, <1>2 DEF Switch!InjectAtEntry
  <2>2. aborting' \in [Everyone -> Everyone \cup {NoFiber}] /\ \A g \in Everyone : aborting'[g] = NoFiber
    BY <1>0, <1>2, <1>w, <2>1 DEF Switch!InjectAtEntry, SwitchType
  <2> QED BY <2>1, <2>2, ContextStep
<1>3. ASSUME NEW f \in Everyone, Switch!reset(f), m_state[f] # "INIT",
             aborting' \in [Everyone -> Everyone \cup {NoFiber}],
             \A g \in Everyone : aborting'[g] = NoFiber
      PROVE  SwitchInv'
  <2>1. /\ f # t_fiber /\ m_state[f] \in {"TERM", "EXCEPT"}
        /\ context' = [context EXCEPT ![f] = "entry"] /\ m_state' = [m_state EXCEPT ![f] = "INIT"]
        /\ UNCHANGED <<t_fiber, m_outer, m_terminateOuter>>
    BY <1>3 DEF Switch!reset, Switch!Reusable
  <2>2. context[f] = "none" /\ m_outer[f] = NoFiber
    BY <2>1, ContextOf
  <2> QED BY <1>3, <2>1, <2>2, ContextStep
<1>4. ASSUME NEW f \in Stacks, Switch!Reset(f) PROVE SwitchInv'
  <2>1. aborting' \in [Everyone -> Everyone \cup {NoFiber}] /\ \A g \in Everyone : aborting'[g] = NoFiber
    BY <1>0, <1>4, <1>w DEF Switch!Reset, SwitchType
  <2> QED BY <1>0, <1>3, <1>4, <2>1 DEF Switch!Reset
<1>5. ASSUME NEW f \in Everyone, NEW comesBack \in BOOLEAN, Switch!yieldTo(f, comesBack) PROVE SwitchInv'
  <2>1. /\ Switch!SwitchTo(f, "HOLD") /\ UNCHANGED <<m_outer, aborting>>
        /\ \A g \in Everyone : aborting[g] = NoFiber
    BY <1>5, <1>w DEF Switch!yieldTo
  <2>2. m_terminateOuter' \in [Everyone -> Everyone \cup {NoFiber}]
    BY <1>0, <1>5 DEF Switch!yieldTo, SwitchType
  <2> QED BY <2>1, <2>2, PlainSwitchStep
<1>6. CASE Switch!yield
  <2>1. /\ m_outer[t_fiber] # NoFiber /\ Switch!BackInCall(t_fiber, "HOLD")
        /\ UNCHANGED <<m_terminateOuter, aborting>>
        /\ \A g \in Everyone : aborting[g] = NoFiber
    BY <1>6, <1>w DEF Switch!yield
  <2> QED BY <1>0, <2>1, BackStep
<1>7. ASSUME NEW ends \in {"TERM", "EXCEPT"}, Switch!Exit(ends) PROVE SwitchInv'
  <2>1. aborting[t_fiber] = NoFiber /\ UNCHANGED <<m_terminateOuter, aborting>>
        /\ Switch!exitPoint(ends)
    BY <1>7 DEF Switch!Exit
  <2>2. CASE m_outer[t_fiber] = NoFiber
    <3>1. PICK b \in Everyone : b = m_terminateOuter[t_fiber] /\ Switch!SwitchTo(b, ends)
          /\ UNCHANGED m_outer
      BY <1>0, <2>1, <2>2 DEF Switch!exitPoint, SwitchType
    <3>2. \A g \in Everyone : aborting[g] = NoFiber
      BY <2>1, <2>2, NoneAborting
    <3>3. m_terminateOuter' \in [Everyone -> Everyone \cup {NoFiber}]
      BY <1>0, <2>1 DEF SwitchType
    <3> QED BY <2>1, <2>2, <3>1, <3>2, <3>3, PlainSwitchStep
  <2>3. CASE m_outer[t_fiber] # NoFiber
    <3>1. Switch!BackInCall(t_fiber, ends)
      BY <2>1, <2>3 DEF Switch!exitPoint
    <3> QED BY <2>1, <2>3, <3>1, BackStep
  <2> QED BY <2>2, <2>3
<1>8. CASE Switch!CoroutineEnds
  <2>1. /\ m_state[t_fiber] = "EXCEPT" /\ Switch!BackInCall(t_fiber, "TERM")
        /\ UNCHANGED <<m_terminateOuter, aborting>>
    BY <1>8 DEF Switch!CoroutineEnds
  <2>2. PICK f \in Everyone : aborting[f] = t_fiber
    BY <1>0, <1>8 DEF Switch!CoroutineEnds
  <2>3. m_outer[t_fiber] = f
    BY <1>0, <2>1, <2>2 DEF SwitchInv, Aborts
  <2> QED BY <1>0, <2>1, <2>3, BackStep
<1>9. CASE Switch!CoroutineReset
  <2>1. PICK a \in Everyone : a = aborting[t_fiber]
    BY <1>0, <1>9 DEF Switch!CoroutineReset, SwitchType
  <2>2. Switch!reset(a) /\ aborting' = [aborting EXCEPT ![t_fiber] = NoFiber]
    BY <1>9, <2>1 DEF Switch!CoroutineReset
  <2>3. m_state[t_fiber] = "EXEC" /\ context[a] = "none"
    <3>1. m_outer[t_fiber] # t_fiber
      BY <1>0 DEF SwitchInv, StateWord
    <3> QED BY <1>0, <2>1, <3>1 DEF SwitchInv, Aborts
  <2>4. \A g \in Everyone \ {t_fiber} : aborting[g] = NoFiber
    BY <1>0, <2>3 DEF SwitchInv, Aborts
  <2>5. aborting' \in [Everyone -> Everyone \cup {NoFiber}] /\ \A g \in Everyone : aborting'[g] = NoFiber
    BY <1>0, <2>2, <2>4 DEF SwitchType
  <2>6. m_state[a] # "INIT"
    BY <2>3 DEF SwitchInv, StateWord
  <2> QED BY <1>3, <2>2, <2>5, <2>6
<1> QED BY <1>0, <1>1, <1>2, <1>4, <1>5, <1>6, <1>7, <1>8, <1>9
        DEF Switch!FiberNext, Switch!Return, Switch!Throw

-----------------------------------------------------------------------------
(* The scheduler on the caller's thread.                                   *)

\* Main, Root and NoFiber are no fibers to be scheduled; the lists count.
LEMMA CallerFacts ==
    ASSUME CallerInv
    PROVE  /\ Main \in Anyone /\ Root \notin Anyone /\ NoFiber \notin Anyone /\ Root # NoFiber
           /\ \A f \in Anyone : /\ wakers[f] \in Nat /\ owed[f] \in Nat
                                /\ Times(m_fibers, f) \in Nat /\ Times(batch, f) \in Nat
           /\ now \in Anyone => root # "EXEC"
<1>1. Main \in Anyone /\ Root \notin Anyone /\ NoFiber \notin Anyone /\ Root # NoFiber
  BY CallerAssumption DEF Anyone
<1>2. \A f \in Anyone : Times(m_fibers, f) \in Nat /\ Times(batch, f) \in Nat
  BY TimesType DEF CallerInv, CallerType
<1> QED BY <1>1, <1>2 DEF CallerInv, CallerType, InHand

\* The switch of a fiber to Root.
ToRoot(f) == /\ now' = Root /\ root' = "EXEC" /\ back' \in {f, back}
             /\ root = "HOLD" => UNCHANGED <<at, batch, isActive>>
             /\ root # "HOLD" => at' = "take" /\ batch' = <<>> /\ isActive' = FALSE

\* What run() had in hand, if it was suspended, it still has.
LEMMA HijackYield ==
    ASSUME CallerInv, NEW f \in Anyone, now = f, ToRoot(f),
           UNCHANGED <<m_activeThreadCount, late>>
    PROVE  /\ InHand' /\ ActiveCount' /\ batch' = batch
           /\ isActive' \in BOOLEAN /\ m_activeThreadCount' \in Nat
           /\ root' \in {"INIT", "EXEC", "HOLD", "TERM", "EXCEPT"}
           /\ now' \in Anyone \cup {Root, NoFiber} /\ back' \in Anyone \cup {NoFiber}
           /\ at' \in {"take", "work", "idle", "wait"}
<1>1. /\ now' = Root /\ root' = "EXEC" /\ back' \in {f, back}
      /\ root = "HOLD" => UNCHANGED <<at, batch, isActive>>
      /\ root # "HOLD" => at' = "take" /\ batch' = <<>> /\ isActive' = FALSE
  BY DEF ToRoot
<1>2. root # "EXEC" /\ root # "HOLD" => ~isActive /\ batch = <<>>
  BY DEF CallerInv, InHand
<1>3. root # "EXEC"
  BY CallerFacts
<1>4. root = "HOLD" => isActive /\ at \notin {"idle", "wait"}
  BY DEF CallerInv, InHand
<1>5. isActive \in BOOLEAN /\ at \in {"take", "work", "idle", "wait"} /\ back \in Anyone \cup {NoFiber}
      /\ m_activeThreadCount \in Nat /\ ActiveCount
  BY DEF CallerInv, CallerType
<1>6. batch' = batch /\ (isActive' <=> isActive) /\ isActive' \in BOOLEAN /\ at' \in {"take", "work"}
  BY <1>1, <1>2, <1>3, <1>4, <1>5
<1>7. at' = "work" => isActive /\ batch # <<>>
  BY <1>1, <1>5 DEF CallerInv, InHand
<1>8. at' # "work" => batch = <<>>
  BY <1>1, <1>2, <1>3 DEF CallerInv, InHand
<1>9. InHand'
  BY <1>1, <1>6, <1>7, <1>8 DEF InHand
<1>10. ActiveCount'
  BY <1>5, <1>6 DEF ActiveCount
<1> QED BY <1>1, <1>5, <1>6, <1>9, <1>10

\* CallerInv at the beginning.
LEMMA HijackInit == Hijack!CallerInit => CallerInv
<1> SUFFICES ASSUME Hijack!CallerInit PROVE CallerInv
  OBVIOUS
<1> USE DEF Hijack!CallerInit
<1>1. Hijack!Anyone = Anyone
  BY DEF Hijack!Anyone, Anyone
<1>2. CallerType
  <2>1. /\ calls \in [Anyone -> {"client", "wait", "dispatch", "stop"}]
        /\ wakers \in [Anyone -> Nat] /\ owed \in [Anyone -> Nat]
    BY <1>1
  <2>2. /\ m_fibers \in Seq(Anyone) /\ batch \in Seq(Anyone) /\ now \in Anyone
        /\ m_activeThreadCount = 0 /\ isActive = FALSE /\ stray = FALSE /\ late = 0
        /\ root = "INIT" /\ back = NoFiber /\ at = "take"
    BY DEF Anyone
  <2> HIDE DEF Hijack!CallerInit
  <2> QED BY <2>1, <2>2 DEF CallerType
<1>3. \A f \in Anyone : Times(<<>>, f) = 0
  BY TimesSingle
<1>4. Due
  BY <1>1, <1>2, <1>3 DEF Due, CallerType
<1>5. ActiveCount /\ InHand
  BY CallerAssumption DEF ActiveCount, InHand
<1>6. Dispatching
  BY <1>1 DEF Dispatching, Anyone
<1> QED BY <1>2, <1>4, <1>5, <1>6 DEF CallerInv

\* Calls of clients that yield: yield(), yieldTo() and dispatch().
LEMMA HijackGivesUp ==
    ASSUME CallerInv,
           \/ \E f \in Anyone : Hijack!GiveUp(f, TRUE) \/ Hijack!GiveUp(f, FALSE)
           \/ Hijack!dispatch
    PROVE  CallerInv'
<1>0. /\ Main \in Anyone /\ wakers \in [Anyone -> Nat] /\ owed \in [Anyone -> Nat]
      /\ calls \in [Anyone -> {"client", "wait", "dispatch", "stop"}] /\ m_fibers \in Seq(Anyone)
      /\ late \in Nat /\ stray \in BOOLEAN /\ batch \in Seq(Anyone)
  BY CallerFacts DEF CallerInv, CallerType
<1>1. ASSUME NEW f \in Anyone, NEW itself \in BOOLEAN, Hijack!GiveUp(f, itself)
      PROVE  CallerInv'
  <2>1. /\ now = f /\ owed' = [owed EXCEPT ![f] = @ + 1]
        /\ \/ wakers' = wakers /\ m_fibers' = Append(m_fibers, f)
           \/ wakers' = [wakers EXCEPT ![f] = @ + 1] /\ m_fibers' = m_fibers
        /\ calls' = [calls EXCEPT ![f] = "wait"]
        /\ UNCHANGED <<m_activeThreadCount, late, outcome, stray>>
        /\ Hijack!PublicYieldTo(f)
    BY <1>1 DEF Hijack!GiveUp, Hijack!Runs, Hijack!outsideVars, Hijack!endVars
  <2>a. ToRoot(f)
    BY <2>1 DEF Hijack!PublicYieldTo, Hijack!YieldTo, Hijack!runVars, ToRoot
  <2>2. /\ InHand' /\ ActiveCount' /\ batch' = batch
        /\ isActive' \in BOOLEAN /\ m_activeThreadCount' \in Nat
        /\ root' \in {"INIT", "EXEC", "HOLD", "TERM", "EXCEPT"}
        /\ now' \in Anyone \cup {Root, NoFiber} /\ back' \in Anyone \cup {NoFiber}
        /\ at' \in {"take", "work", "idle", "wait"}
    BY <2>1, <2>a, HijackYield
  <2>3. /\ m_fibers' \in Seq(Anyone) /\ wakers' \in [Anyone -> Nat] /\ owed' \in [Anyone -> Nat]
        /\ calls' \in [Anyone -> {"client", "wait", "dispatch", "stop"}]
    <3>1. Append(m_fibers, f) \in Seq(Anyone)
      BY <1>0
    <3>2. [wakers EXCEPT ![f] = @ + 1] \in [Anyone -> Nat]
      BY <1>0
    <3>a. m_fibers' \in Seq(Anyone) /\ wakers' \in [Anyone -> Nat]
      BY <1>0, <2>1, <3>1, <3>2, Zenon
    <3>3. owed' \in [Anyone -> Nat] /\ calls' \in [Anyone -> {"client", "wait", "dispatch", "stop"}]
      BY <1>0, <2>1
    <3> QED BY <3>a, <3>3
  <2>4. CallerType'
    BY <1>0, <2>1, <2>2, <2>3 DEF CallerType
  <2>5. ASSUME NEW g \in Anyone
        PROVE  wakers'[g] + Times(m_fibers', g) + Times(batch', g) = owed'[g]
    <3>1. /\ wakers[g] + Times(m_fibers, g) + Times(batch, g) = owed[g]
          /\ wakers[g] \in Nat /\ owed[g] \in Nat
          /\ Times(m_fibers, g) \in Nat /\ Times(batch, g) \in Nat
      BY CallerFacts DEF CallerInv, Due
    <3>2. owed'[g] = owed[g] + IF g = f THEN 1 ELSE 0
      BY <1>0, <2>1, <3>1
    <3>3. CASE wakers' = wakers /\ m_fibers' = Append(m_fibers, f)
      <4>1. Times(Append(m_fibers, f), g) = Times(m_fibers, g) + IF g = f THEN 1 ELSE 0
        BY <1>0, TimesAppend
      <4>2. /\ Times(m_fibers', g) = Times(m_fibers, g) + IF g = f THEN 1 ELSE 0
            /\ wakers'[g] = wakers[g] /\ Times(batch', g) = Times(batch, g)
        BY <2>2, <3>3, <4>1, Zenon
      <4> QED BY <3>1, <3>2, <4>2
    <3>4. CASE wakers' = [wakers EXCEPT ![f] = @ + 1] /\ m_fibers' = m_fibers
      <4>1. wakers'[g] = wakers[g] + (IF g = f THEN 1 ELSE 0) /\ m_fibers' = m_fibers
        BY <1>0, <2>1, <3>1, <3>4
      <4> QED BY <2>2, <3>1, <3>2, <4>1
    <3> QED BY <2>1, <3>3, <3>4
  <2>6. Dispatching'
    <3>1. \A g \in Anyone : calls'[g] = "dispatch" => g # f /\ calls[g] = "dispatch"
      BY <1>0, <2>1
    <3>2. calls'[Main] = "dispatch" => owed'[Main] = owed[Main]
      BY <1>0, <2>1, <3>1
    <3> QED BY <1>0, <2>1, <3>1, <3>2 DEF CallerInv, Dispatching
  <2> QED BY <2>2, <2>4, <2>5, <2>6 DEF CallerInv, Due
<1>2. CASE Hijack!dispatch
  <2>1. /\ now = Main /\ calls' = [calls EXCEPT ![Main] = "dispatch"]
        /\ stray' = (owed[Main] > 0) /\ outcome' = "none"
        /\ UNCHANGED <<m_fibers, m_activeThreadCount, wakers, owed, late>>
        /\ Hijack!PublicYieldTo(Main)
    BY <1>2 DEF Hijack!dispatch, Hijack!Runs, Hijack!outsideVars
  <2>a. ToRoot(Main)
    BY <2>1 DEF Hijack!PublicYieldTo, Hijack!YieldTo, Hijack!runVars, ToRoot
  <2>2. /\ InHand' /\ ActiveCount' /\ batch' = batch
        /\ isActive' \in BOOLEAN /\ m_activeThreadCount' \in Nat
        /\ root' \in {"INIT", "EXEC", "HOLD", "TERM", "EXCEPT"}
        /\ now' \in Anyone \cup {Root, NoFiber} /\ back' \in Anyone \cup {NoFiber}
        /\ at' \in {"take", "work", "idle", "wait"}
    BY <1>0, <2>1, <2>a, HijackYield
  <2>3. CallerType'
    <3>1. calls' \in [Anyone -> {"client", "wait", "dispatch", "stop"}] /\ stray' \in BOOLEAN
      BY <1>0, <2>1
    <3> QED BY <1>0, <2>1, <2>2, <3>1 DEF CallerType
  <2>4. Due'
    BY <2>1, <2>2 DEF CallerInv, Due
  <2>5. Dispatching'
    BY <1>0, <2>1 DEF CallerInv, Dispatching
  <2> QED BY <2>2, <2>3, <2>4, <2>5 DEF CallerInv
<1> QED BY <1>1, <1>2

\* The last of a list, and what is before it.
LEMMA FrontAndLast ==
    ASSUME NEW S, NEW s \in Seq(S), s # <<>>
    PROVE  /\ s[Len(s)] \in S /\ SubSeq(s, 1, Len(s) - 1) \in Seq(S)
           /\ SubSeq(s, 1, Len(s) - 1) = <<>> <=> Len(s) = 1
           /\ \A x : Times(s, x) = Times(SubSeq(s, 1, Len(s) - 1), x)
                                     + IF x = s[Len(s)] THEN 1 ELSE 0
<1> DEFINE n == Len(s) - 1
           front == SubSeq(s, 1, n)
<1>1. n \in 0 .. Len(s) /\ Len(s) = n + 1 /\ n \in Nat /\ n + 1 \in 1 .. Len(s)
  OBVIOUS
<1>2. s[Len(s)] \in S
  BY <1>1
<1> HIDE DEF n
<1>3. front \in Seq(S) /\ Len(front) = n
  BY <1>1
<1>4. SubSeq(s, n + 1, Len(s)) = <<s[Len(s)]>>
  <2> DEFINE l == SubSeq(s, n + 1, Len(s))
  <2>1. Len(l) = 1 /\ l[1] = s[n + 1] /\ l \in Seq(S)
    BY <1>1
  <2> HIDE DEF l
  <2>2. DOMAIN l = 1 .. 1
    BY <2>1
  <2>3. l = <<s[Len(s)]>>
    BY <1>1, <1>2, <2>1, <2>2
  <2> QED BY <2>3 DEF l
<1>5. ASSUME NEW x PROVE Times(s, x) = Times(front, x) + IF x = s[Len(s)] THEN 1 ELSE 0
  <2>1. Times(s, x) = Times(SubSeq(s, 1, n), x) + Times(SubSeq(s, n + 1, Len(s)), x)
    BY <1>1, TimesSplit
  <2>2. Times(<<s[Len(s)]>>, x) = IF x = s[Len(s)] THEN 1 ELSE 0
    BY TimesSingle
  <2> QED BY <1>4, <2>1, <2>2
<1>6. front = <<>> <=> n = 0
  BY <1>1, <1>3
<1> QED BY <1>1, <1>2, <1>3, <1>5, <1>6 DEF n

\* run() takes a batch, or finds the queue empty.
LEMMA HijackTake == ASSUME CallerInv, Hijack!take PROVE CallerInv'
<1> DEFINE n == IF Len(m_fibers) < m_batchSize THEN Len(m_fibers) ELSE m_batchSize
<1>0. /\ m_fibers \in Seq(Anyone) /\ Len(m_fibers) \in Nat /\ m_batchSize \in Nat \ {0}
      /\ m_activeThreadCount \in Nat /\ isActive \in BOOLEAN
  BY CallerAssumption DEF CallerInv, CallerType
<1>1. n \in 0 .. Len(m_fibers) /\ (n = 0 <=> Len(m_fibers) = 0)
  BY <1>0
<1>2. /\ now = Root /\ at = "take" /\ batch' = SubSeq(m_fibers, 1, n)
      /\ m_fibers' = SubSeq(m_fibers, n + 1, Len(m_fibers))
      /\ isActive' = (n > 0) /\ at' = (IF n > 0 THEN "work" ELSE "idle") /\ late' = 0
      /\ m_activeThreadCount' = CASE n > 0 /\ ~isActive -> m_activeThreadCount + 1
                                  [] n = 0 /\ isActive -> m_activeThreadCount - 1
                                  [] OTHER -> m_activeThreadCount
      /\ UNCHANGED <<root, back, now, calls, wakers, owed, outcome, stray>>
  BY DEF Hijack!take, Hijack!InRun, Hijack!Goto, Hijack!wakeVars, Hijack!endVars
<1> HIDE DEF n
<1>3. root = "EXEC" /\ batch = <<>>
  BY <1>2 DEF CallerInv, InHand
<1>4. /\ batch' \in Seq(Anyone) /\ m_fibers' \in Seq(Anyone)
      /\ \A f \in Anyone : Times(m_fibers, f) = Times(batch', f) + Times(m_fibers', f)
  BY <1>0, <1>1, <1>2, TimesSplit
<1>5. /\ n > 0 => batch' # <<>>
      /\ n = 0 => batch' = <<>> /\ Len(m_fibers') = 0
  BY <1>0, <1>1, <1>2
<1>6. m_activeThreadCount' \in Nat /\ ActiveCount' /\ isActive' \in BOOLEAN
  <2>1. m_activeThreadCount = IF isActive THEN 1 ELSE 0
    BY DEF CallerInv, ActiveCount
  <2>2. n \in Nat
    BY <1>1
  <2>3. isActive' \in BOOLEAN /\ (isActive' <=> n > 0)
    <3>1. isActive' = (n > 0)
      BY <1>2
    <3>2. (n > 0) \in BOOLEAN
      OBVIOUS
    <3>3. isActive' \in BOOLEAN
      BY <3>1, <3>2, Zenon
    <3>4. isActive' <=> n > 0
      BY <3>1, Zenon
    <3> QED BY <3>3, <3>4
  <2>4. CASE n > 0 /\ isActive
    BY <1>2, <2>1, <2>2, <2>3, <2>4 DEF ActiveCount
  <2>5. CASE n > 0 /\ ~isActive
    BY <1>2, <2>1, <2>2, <2>3, <2>5 DEF ActiveCount
  <2>6. CASE n = 0 /\ isActive
    BY <1>2, <2>1, <2>2, <2>3, <2>6 DEF ActiveCount
  <2>7. CASE n = 0 /\ ~isActive
    BY <1>2, <2>1, <2>2, <2>3, <2>7 DEF ActiveCount
  <2> QED BY <2>2, <2>4, <2>5, <2>6, <2>7
<1>7. CallerType'
  BY <1>2, <1>4, <1>6 DEF CallerInv, CallerType
<1>8. Due'
  <2>1. ASSUME NEW f \in Anyone
        PROVE  wakers[f] + Times(m_fibers', f) + Times(batch', f) = owed[f]
    <3>1. /\ wakers[f] + Times(m_fibers, f) + Times(batch, f) = owed[f] /\ wakers[f] \in Nat
      BY CallerFacts DEF CallerInv, Due
    <3>2. Times(batch, f) = 0
      BY <1>3, TimesSingle
    <3>3. Times(m_fibers', f) \in Nat /\ Times(batch', f) \in Nat
      BY <1>4, TimesType
    <3>4. Times(m_fibers, f) = Times(batch', f) + Times(m_fibers', f)
      BY <1>4
    <3> QED BY <3>1, <3>2, <3>3, <3>4
  <2> QED BY <1>2, <2>1 DEF Due
<1>9. InHand'
  <2>1. /\ root' = "EXEC" /\ now' = Root
        /\ \/ at' = "work" /\ isActive' /\ batch' # <<>>
           \/ at' = "idle" /\ ~isActive' /\ batch' = <<>> /\ Len(m_fibers') <= late'
    <3>1. n \in Nat
      BY <1>1
    <3>2. root' = "EXEC" /\ now' = Root /\ (isActive' <=> n > 0) /\ late' = 0
          /\ at' = IF n > 0 THEN "work" ELSE "idle"
      BY <1>2, <1>3
    <3>3. CASE n > 0
      BY <1>5, <3>2, <3>3
    <3>4. CASE n = 0
      BY <1>5, <3>2, <3>4
    <3> QED BY <3>1, <3>3, <3>4
  <2> QED BY <2>1 DEF InHand
<1>10. Dispatching'
  BY <1>2 DEF CallerInv, Dispatching
<1> QED BY <1>6, <1>7, <1>8, <1>9, <1>10 DEF CallerInv

\* run() executes the last fiber of its batch.  A dispatch() that goes on because Main
\* was in the batch was begun while a wake-up was due.
LEMMA HijackRunNext == ASSUME CallerInv, Hijack!runNext PROVE CallerInv'
<1>0. /\ batch \in Seq(Anyone) /\ m_fibers \in Seq(Anyone) /\ Len(batch) \in Nat
      /\ wakers \in [Anyone -> Nat] /\ owed \in [Anyone -> Nat]
      /\ calls \in [Anyone -> {"client", "wait", "dispatch", "stop"}]
  BY DEF CallerInv, CallerType
<1>1. now = Root /\ at = "work"
  BY DEF Hijack!runNext, Hijack!InRun
<1>2. root = "EXEC" /\ isActive /\ batch # <<>>
  BY <1>1 DEF CallerInv, InHand
<1>f. /\ batch[Len(batch)] \in Anyone /\ SubSeq(batch, 1, Len(batch) - 1) \in Seq(Anyone)
      /\ SubSeq(batch, 1, Len(batch) - 1) = <<>> <=> Len(batch) = 1
      /\ \A x : Times(batch, x) = Times(SubSeq(batch, 1, Len(batch) - 1), x)
                                    + IF x = batch[Len(batch)] THEN 1 ELSE 0
  BY <1>0, <1>2, FrontAndLast
<1>3. PICK f \in Anyone : f = batch[Len(batch)]
  BY <1>f
<1>4. PICK s \in Seq(Anyone) : s = SubSeq(batch, 1, Len(batch) - 1)
  BY <1>f, Zenon
<1>5. /\ batch' = s /\ at' = (IF Len(batch) = 1 THEN "take" ELSE "work")
      /\ owed' = [owed EXCEPT ![f] = @ - 1] /\ root' = "HOLD" /\ now' = f
      /\ calls' = [calls EXCEPT ![f] = IF @ = "stop" THEN "stop" ELSE "client"]
      /\ outcome' = (IF calls[f] # "dispatch" THEN outcome
                     ELSE IF Len(m_fibers) <= late /\ batch' = <<>> THEN "drained" ELSE "left")
      /\ UNCHANGED <<m_fibers, m_activeThreadCount, back, isActive, wakers, late, stray>>
  BY <1>3, <1>4 DEF Hijack!runNext, Hijack!Goto, Hijack!Continues, Hijack!outsideVars
<1>6. ASSUME NEW g \in Anyone
      PROVE  Times(batch, g) = Times(s, g) + (IF g = f THEN 1 ELSE 0) /\ Times(s, g) \in Nat
  <2>1. Times(batch, g) = Times(s, g) + IF g = f THEN 1 ELSE 0
    BY <1>3, <1>4, <1>f, Zenon
  <2> QED BY <2>1, TimesType
<1>7. s = <<>> <=> Len(batch) = 1
  BY <1>4, <1>f, Zenon
<1>8. \A g \in Anyone : /\ wakers[g] \in Nat /\ owed[g] \in Nat /\ Times(m_fibers, g) \in Nat
                        /\ wakers[g] + Times(m_fibers, g) + Times(batch, g) = owed[g]
  BY CallerFacts DEF CallerInv, Due
<1>9. owed[f] > 0
  BY <1>6, <1>8
<1>10. Due' /\ owed' \in [Anyone -> Nat]
  <2>1. \A g \in Anyone : owed'[g] = owed[g] - IF g = f THEN 1 ELSE 0
    <3>1. \A g \in Anyone : owed'[g] = IF g = f THEN owed[g] - 1 ELSE owed[g]
      BY <1>0, <1>5
    <3> QED BY <1>8, <3>1
  <2>2. owed' \in [Anyone -> Nat]
    BY <1>0, <1>5, <1>9
  <2>3. ASSUME NEW g \in Anyone PROVE wakers'[g] + Times(m_fibers', g) + Times(batch', g) = owed'[g]
    <3>1. wakers[g] + Times(m_fibers, g) + Times(s, g) = owed[g] - IF g = f THEN 1 ELSE 0
      BY <1>6, <1>8
    <3> QED BY <1>5, <2>1, <3>1
  <2> QED BY <2>2, <2>3 DEF Due
<1>11. CallerType'
  <2>1. calls' \in [Anyone -> {"client", "wait", "dispatch", "stop"}]
    BY <1>0, <1>5
  <2> QED BY <1>5, <1>10, <2>1 DEF CallerInv, CallerType
<1>12. InHand'
  <2>1. now' # Root /\ isActive'
    BY <1>2, <1>3, <1>5, CallerFacts
  <2> QED BY <1>5, <1>7, <2>1 DEF InHand
<1>13. ActiveCount'
  BY <1>5 DEF CallerInv, ActiveCount
<1>14. Dispatching'
  <2>1. \A g \in Anyone : calls'[g] = "dispatch" => g # f /\ calls[g] = "dispatch"
    BY <1>0, <1>5
  <2>2. Main \in Anyone
    BY CallerFacts
  <2>3. calls'[Main] = "dispatch" => owed'[Main] = owed[Main]
    BY <1>0, <1>5, <2>1, <2>2
  <2>4. calls[f] = "dispatch" => stray
    BY <1>9 DEF CallerInv, Dispatching
  <2>5. outcome' = "left" => stray
    BY <1>5, <2>4 DEF CallerInv, Dispatching
  <2> QED BY <1>5, <2>1, <2>2, <2>3, <2>5 DEF CallerInv, Dispatching
<1> QED BY <1>10, <1>11, <1>12, <1>13, <1>14 DEF CallerInv

\* A step of run() that leaves its batch alone: its idle fiber, and the return to the
\* fiber that waits for Root, which finds nothing behind that run() should have seen.
LEMMA HijackIdle ==
    ASSUME CallerInv, Hijack!idle \/ Hijack!idleWoken \/ Hijack!runReturns
    PROVE  CallerInv'
<1>0. /\ calls \in [Anyone -> {"client", "wait", "dispatch", "stop"}]
      /\ back \in Anyone \cup {NoFiber}
  BY DEF CallerInv, CallerType
<1>1. /\ now = Root /\ at \in {"idle", "wait"}
      /\ UNCHANGED <<m_fibers, m_activeThreadCount, back, batch, isActive, wakers, owed, late, stray>>
  BY DEF Hijack!idle, Hijack!idleWoken, Hijack!runReturns, Hijack!InRun, Hijack!wakeVars,
         Hijack!outsideVars, Hijack!endVars
<1>2. root = "EXEC" /\ batch = <<>> /\ ~isActive /\ Len(m_fibers) <= late
  BY <1>1 DEF CallerInv, InHand
<1>3. Due' /\ ActiveCount'
  BY <1>1 DEF CallerInv, Due, ActiveCount
<1>4. CASE Hijack!idle \/ Hijack!idleWoken
  <2>1. at' \in {"take", "wait"} /\ UNCHANGED <<root, now, calls, outcome>>
    BY <1>4 DEF Hijack!idle, Hijack!idleWoken, Hijack!Goto, Hijack!endVars
  <2>2. CallerType'
    BY <1>1, <2>1 DEF CallerInv, CallerType
  <2>3. InHand'
    BY <1>1, <1>2, <2>1 DEF InHand
  <2>4. Dispatching'
    BY <1>1, <2>1 DEF CallerInv, Dispatching
  <2> QED BY <1>3, <2>2, <2>3, <2>4 DEF CallerInv
<1>5. CASE Hijack!runReturns
  <2>1. /\ root' = "TERM" /\ now' = back /\ at' = at
        /\ calls' = [calls EXCEPT ![back] = IF @ = "stop" THEN "stop" ELSE "client"]
        /\ outcome' = (IF calls[back] # "dispatch" THEN outcome
                       ELSE IF Len(m_fibers) <= late /\ batch' = <<>> THEN "drained" ELSE "left")
    BY <1>5 DEF Hijack!runReturns, Hijack!Continues
  <2>2. outcome' \in {outcome, "drained"}
    BY <1>1, <1>2, <2>1
  <2>3. CallerType'
    <3>1. calls' \in [Anyone -> {"client", "wait", "dispatch", "stop"}]
      BY <1>0, <2>1
    <3> QED BY <1>0, <1>1, <2>1, <3>1 DEF CallerInv, CallerType
  <2>4. InHand'
    <3>1. now' # Root
      BY <1>0, <2>1, CallerFacts
    <3> QED BY <1>1, <1>2, <2>1, <3>1 DEF InHand
  <2>5. \A f \in Anyone : calls'[f] = "dispatch" => calls[f] = "dispatch"
    BY <1>0, <2>1
  <2>6. Dispatching'
    BY <1>1, <2>2, <2>5, CallerFacts DEF CallerInv, Dispatching
  <2> QED BY <1>3, <2>3, <2>4, <2>6 DEF CallerInv
<1> QED BY <1>4, <1>5

\* A fiber ends; when it throws, run() puts its batch back and ends too.
LEMMA HijackEnds ==
    ASSUME CallerInv, NEW f \in Anyone, Hijack!FiberReturn(f) \/ Hijack!FiberThrow(f)
    PROVE  CallerInv'
<1>0. /\ calls \in [Anyone -> {"client", "wait", "dispatch", "stop"}]
      /\ back \in Anyone \cup {NoFiber} /\ m_fibers \in Seq(Anyone) /\ batch \in Seq(Anyone)
      /\ m_activeThreadCount \in Nat /\ isActive \in BOOLEAN
      /\ Root \notin Anyone /\ NoFiber \notin Anyone /\ Root # NoFiber
  BY CallerFacts DEF CallerInv, CallerType
<1>1. /\ now = f /\ UNCHANGED <<back, at, wakers, owed, late, stray>>
  BY DEF Hijack!FiberReturn, Hijack!FiberThrow, Hijack!Runs, Hijack!wakeVars, Hijack!outsideVars,
         Hijack!runVars, Hijack!endVars
<1>2. root # "EXEC"
  BY <1>1, CallerFacts
<1>3. CASE /\ UNCHANGED <<m_fibers, m_activeThreadCount, batch, isActive, calls, outcome>>
           /\ \/ root = "HOLD" /\ now' = Root /\ root' = "EXEC"
              \/ root # "HOLD" /\ now' = NoFiber /\ root' = root
  <2>1. CallerType'
    BY <1>1, <1>3 DEF CallerInv, CallerType
  <2>2. Due' /\ ActiveCount' /\ Dispatching'
    BY <1>1, <1>3 DEF CallerInv, Due, ActiveCount, Dispatching
  <2>3. InHand'
    BY <1>0, <1>1, <1>2, <1>3 DEF CallerInv, InHand
  <2> QED BY <2>1, <2>2, <2>3 DEF CallerInv
<1>4. CASE /\ root = "HOLD" /\ m_fibers' = m_fibers \o batch
           /\ m_activeThreadCount' = m_activeThreadCount - 1
           /\ batch' = <<>> /\ isActive' = FALSE /\ root' = "EXCEPT"
           /\ now' \in {NoFiber, back} /\ calls' = [calls EXCEPT ![back] = "client"]
           /\ outcome' \in {"threw", outcome}
  <2>1. isActive /\ m_activeThreadCount = 1
    BY <1>4 DEF CallerInv, InHand, ActiveCount
  <2>2. m_activeThreadCount' = 0 /\ ActiveCount'
    BY <1>4, <2>1 DEF ActiveCount
  <2>3. CallerType'
    <3>1. calls' \in [Anyone -> {"client", "wait", "dispatch", "stop"}]
      BY <1>0, <1>4
    <3>2. m_fibers' \in Seq(Anyone) /\ batch' \in Seq(Anyone)
      BY <1>0, <1>4
    <3>3. now' \in Anyone \cup {Root, NoFiber}
      BY <1>0, <1>4
    <3>4. /\ stray \in BOOLEAN /\ at \in {"take", "work", "idle", "wait"} /\ late \in Nat
          /\ wakers \in [Anyone -> Nat] /\ owed \in [Anyone -> Nat]
      BY DEF CallerInv, CallerType
    <3>5. /\ stray' \in BOOLEAN /\ at' \in {"take", "work", "idle", "wait"} /\ late' \in Nat
          /\ wakers' \in [Anyone -> Nat] /\ owed' \in [Anyone -> Nat]
          /\ back' \in Anyone \cup {NoFiber}
      BY <1>0, <1>1, <3>4, Zenon
    <3>6. isActive' \in BOOLEAN
      BY <1>4, Zenon
    <3>7. root' \in {"INIT", "EXEC", "HOLD", "TERM", "EXCEPT"} /\ m_activeThreadCount' \in Nat
      BY <1>4, <2>2
    <3> QED BY <3>1, <3>2, <3>3, <3>5, <3>6, <3>7, Zenon DEF CallerType
  <2>4. InHand'
    BY <1>0, <1>4 DEF InHand
  <2>5. Dispatching'
    <3>1. \A g \in Anyone : calls'[g] = "dispatch" => calls[g] = "dispatch"
      BY <1>0, <1>4
    <3> QED BY <1>1, <1>4, <3>1, CallerFacts DEF CallerInv, Dispatching
  <2>6. ASSUME NEW g \in Anyone PROVE wakers'[g] + Times(m_fibers', g) + Times(batch', g) = owed'[g]
    <3>1. /\ wakers[g] + Times(m_fibers, g) + Times(batch, g) = owed[g] /\ wakers[g] \in Nat
          /\ Times(m_fibers, g) \in Nat /\ Times(batch, g) \in Nat
      BY CallerFacts DEF CallerInv, Due
    <3>2. Times(m_fibers \o batch, g) = Times(m_fibers, g) + Times(batch, g)
      BY <1>0, TimesConcat
    <3>3. Times(<<>>, g) = 0
      BY TimesSingle
    <3>4. Times(m_fibers', g) = Times(m_fibers, g) + Times(batch, g) /\ Times(batch', g) = 0
      BY <1>4, <3>2, <3>3, Zenon
    <3> QED BY <1>1, <3>1, <3>4
  <2> QED BY <2>2, <2>3, <2>4, <2>5, <2>6 DEF CallerInv, Due
<1>5. CASE Hijack!FiberReturn(f)
  BY <1>3, <1>5 DEF Hijack!FiberReturn, Hijack!Crash, Hijack!runVars, Hijack!endVars
<1>6. CASE Hijack!FiberThrow(f)
  BY <1>3, <1>4, <1>6 DEF Hijack!FiberThrow, Hijack!Crash, Hijack!PutBack
<1> QED BY <1>5, <1>6

\* stop(): its flag, and its loop.
LEMMA HijackStop ==
    ASSUME CallerInv, NEW f \in Anyone, Hijack!stop(f) \/ Hijack!StopLoop(f)
    PROVE  CallerInv'
<1>0. /\ calls \in [Anyone -> {"client", "wait", "dispatch", "stop"}]
      /\ Root \notin Anyone /\ NoFiber \notin Anyone /\ Root # NoFiber /\ Main \in Anyone
  BY CallerFacts DEF CallerInv, CallerType
<1>1. /\ now = f /\ UNCHANGED <<m_fibers, m_activeThreadCount, wakers, owed, late, stray>>
  BY DEF Hijack!stop, Hijack!StopLoop, Hijack!Runs, Hijack!wakeVars, Hijack!outsideVars, Hijack!endVars
<1>2. /\ calls' \in {calls, [calls EXCEPT ![f] = "stop"], [calls EXCEPT ![f] = "client"]}
      /\ outcome' \in {outcome, "drained"}
  <2>1. CASE Hijack!stop(f)
    BY <2>1 DEF Hijack!stop, Hijack!endVars
  <2>2. CASE Hijack!StopLoop(f)
    BY <2>2 DEF Hijack!StopLoop
  <2> QED BY <2>1, <2>2
<1>3. Dispatching' /\ calls' \in [Anyone -> {"client", "wait", "dispatch", "stop"}]
  <2>1. calls' \in [Anyone -> {"client", "wait", "dispatch", "stop"}]
    BY <1>0, <1>2
  <2>2. \A g \in Anyone : calls'[g] = "dispatch" => calls[g] = "dispatch"
    BY <1>0, <1>2
  <2> QED BY <1>0, <1>1, <1>2, <2>1, <2>2 DEF CallerInv, Dispatching
<1>4. CASE UNCHANGED <<root, back, at, batch, isActive>> /\ now' \in {now, NoFiber}
  <2>1. CallerType'
    BY <1>1, <1>3, <1>4 DEF CallerInv, CallerType
  <2>2. Due' /\ ActiveCount'
    BY <1>1, <1>4 DEF CallerInv, Due, ActiveCount
  <2>3. InHand'
    BY <1>0, <1>1, <1>4 DEF CallerInv, InHand
  <2> QED BY <1>3, <2>1, <2>2, <2>3 DEF CallerInv
<1>5. CASE ToRoot(f)
  <2>1. /\ InHand' /\ ActiveCount' /\ batch' = batch
        /\ isActive' \in BOOLEAN /\ m_activeThreadCount' \in Nat
        /\ root' \in {"INIT", "EXEC", "HOLD", "TERM", "EXCEPT"}
        /\ now' \in Anyone \cup {Root, NoFiber} /\ back' \in Anyone \cup {NoFiber}
        /\ at' \in {"take", "work", "idle", "wait"}
    BY <1>1, <1>5, HijackYield
  <2>2. CallerType'
    BY <1>1, <1>3, <2>1 DEF CallerInv, CallerType
  <2>3. Due'
    BY <1>1, <2>1 DEF CallerInv, Due
  <2> QED BY <1>3, <2>1, <2>2, <2>3 DEF CallerInv
<1>6. CASE Hijack!stop(f)
  BY <1>4, <1>6 DEF Hijack!stop, Hijack!runVars
<1>7. CASE Hijack!StopLoop(f)
  <2>1. \/ UNCHANGED <<root, back, now, Hijack!runVars>>
        \/ Hijack!YieldTo(f, TRUE)
        \/ Hijack!Crash /\ UNCHANGED <<root, back, Hijack!runVars>>
    BY <1>7 DEF Hijack!StopLoop
  <2>2. CASE UNCHANGED <<root, back, now, Hijack!runVars>>
    BY <1>4, <2>2 DEF Hijack!runVars
  <2>3. CASE Hijack!YieldTo(f, TRUE)
    BY <1>5, <2>3 DEF Hijack!YieldTo, Hijack!runVars, ToRoot
  <2>4. CASE Hijack!Crash /\ UNCHANGED <<root, back, Hijack!runVars>>
    BY <1>4, <2>4 DEF Hijack!Crash, Hijack!runVars
  <2> QED BY <2>1, <2>2, <2>3, <2>4
<1> QED BY <1>6, <1>7

\* schedule(), from a fiber of the scheduler and from another thread.
LEMMA HijackSchedule ==
    ASSUME CallerInv, NEW g \in Anyone,
           (\E f \in Anyone : Hijack!Schedule(f, g)) \/ Hijack!OutsideSchedule(g)
    PROVE  CallerInv'
<1>0. wakers \in [Anyone -> Nat] /\ m_fibers \in Seq(Anyone) /\ late \in Nat
  BY DEF CallerInv, CallerType
<1>1. /\ wakers[g] > 0 /\ wakers' = [wakers EXCEPT ![g] = @ - 1]
      /\ m_fibers' = Append(m_fibers, g)
      /\ UNCHANGED <<m_activeThreadCount, root, back, now, at, batch, isActive, calls, owed,
                     outcome, stray>>
  BY DEF Hijack!Schedule, Hijack!OutsideSchedule, Hijack!runVars, Hijack!endVars
<1>2. (late' = late /\ now \in Anyone) \/ late' = late + 1
  BY DEF Hijack!Schedule, Hijack!OutsideSchedule, Hijack!Runs, Hijack!outsideVars
<1>3. CallerType'
  <2>1. m_fibers' \in Seq(Anyone)
    BY <1>0, <1>1
  <2>2. wakers' \in [Anyone -> Nat]
    BY <1>0, <1>1
  <2>3. late' \in Nat
    BY <1>0, <1>2
  <2> QED BY <1>1, <2>1, <2>2, <2>3 DEF CallerInv, CallerType
<1>4. ASSUME NEW h \in Anyone PROVE wakers'[h] + Times(m_fibers', h) + Times(batch', h) = owed'[h]
  <2>1. /\ wakers[h] + Times(m_fibers, h) + Times(batch, h) = owed[h] /\ wakers[h] \in Nat
        /\ Times(m_fibers, h) \in Nat /\ Times(batch, h) \in Nat
    BY CallerFacts DEF CallerInv, Due
  <2>2. Times(m_fibers', h) = Times(m_fibers, h) + IF h = g THEN 1 ELSE 0
    BY <1>0, <1>1, TimesAppend
  <2>3. wakers'[h] = IF h = g THEN wakers[h] - 1 ELSE wakers[h]
    BY <1>0, <1>1
  <2> QED BY <1>1, <2>1, <2>2, <2>3
<1>5. InHand'
  <2>1. now \in Anyone => root # "EXEC"
    BY CallerFacts
  <2>2. Len(m_fibers') = Len(m_fibers) + 1 /\ Len(m_fibers) \in Nat
    BY <1>0, <1>1
  <2> QED BY <1>0, <1>1, <1>2, <2>1, <2>2 DEF CallerInv, InHand
<1>6. ActiveCount' /\ Dispatching'
  BY <1>1 DEF CallerInv, ActiveCount, Dispatching
<1> QED BY <1>3, <1>4, <1>5, <1>6 DEF CallerInv, Due

\* CallerInv does not depend on anything else.
LEMMA HijackStill ==
    ASSUME CallerInv,
           UNCHANGED <<m_fibers, m_activeThreadCount, root, back, now, at, batch, isActive, calls,
                       wakers, owed, late, outcome, stray>>
    PROVE  CallerInv'
BY DEF CallerInv, CallerType, Due, ActiveCount, InHand, Dispatching

LEMMA HijackStep == CallerInv /\ Hijack!CallerNext => CallerInv'
<1> SUFFICES ASSUME CallerInv, Hijack!CallerNext PROVE CallerInv'
  OBVIOUS
<1>1. Hijack!Anyone = Anyone
  BY DEF Hijack!Anyone, Anyone
<1>2. CASE Hijack!OutsideTickle \/ Hijack!start
  BY <1>2, HijackStill DEF Hijack!OutsideTickle, Hijack!start, Hijack!runVars, Hijack!wakeVars,
                           Hijack!outsideVars, Hijack!endVars
<1>3. CASE \E f \in Anyone : Hijack!StopLoop(f) \/ Hijack!stop(f)
  BY <1>3, HijackStop
<1>4. CASE \E f \in Anyone : Hijack!FiberReturn(f) \/ Hijack!FiberThrow(f)
  BY <1>4, HijackEnds
<1>5. CASE \E f \in Anyone : Hijack!OutsideSchedule(f) \/ \E g \in Anyone : Hijack!Schedule(f, g)
  BY <1>5, HijackSchedule
<1>6. CASE (\E f \in Anyone : Hijack!GiveUp(f, TRUE) \/ Hijack!GiveUp(f, FALSE)) \/ Hijack!dispatch
  BY <1>6, HijackGivesUp
<1>7. CASE Hijack!take \/ Hijack!runNext \/ Hijack!idle \/ Hijack!idleWoken \/ Hijack!runReturns
  BY <1>7, HijackTake, HijackRunNext, HijackIdle
<1> QED BY <1>1, <1>2, <1>3, <1>4, <1>5, <1>6, <1>7 DEF Hijack!CallerNext, Hijack!CallerProgress

-----------------------------------------------------------------------------
(* The specification.                                                      *)

\* What the component in use leaves alone.
LEMMA SwitchStill == SwitchInv /\ UNCHANGED fiberVars => SwitchInv'
<1> SUFFICES ASSUME SwitchInv, UNCHANGED fiberVars PROVE SwitchInv'
  OBVIOUS
<1>1. UNCHANGED <<t_fiber, m_state, m_outer, m_terminateOuter, context, aborting>>
  BY DEF fiberVars
<1> QED BY <1>1 DEF SwitchInv, SwitchType, Chain, StateWord, Aborts

LEMMA CallerStill == CallerInv /\ UNCHANGED callerVars => CallerInv'
BY HijackStill DEF callerVars

LEMMA WaitStill ==
    ASSUME UNCHANGED waitVars
    PROVE  /\ SemInv => SemInv'
           /\ RecInv => RecInv'
           /\ EventInv => EventInv'
           /\ AutoInv => AutoInv'
<1>1. UNCHANGED <<blocked, state, scheduled, m_waiters, m_concurrency, entered, notified, m_owner,
                  m_recursion, depth, m_signalled, runnables, passed, sets>>
  BY DEF waitVars, blockingVars, semaphoreVars, recursiveVars, eventVars
<1>2. Released' = Released /\ LetGo' = LetGo /\ ListType' = ListType /\ OnePlace' = OnePlace
  BY <1>1 DEF Released, LetGo, ListType, OnePlace, BlockingTypeOK
<1>3. \A f \in Fibers : Holders(f)' = Holders(f)
  BY <1>1 DEF Holders
<1>4. SemInv => SemInv'
  BY <1>1, <1>2 DEF SemInv
<1>5. RecInv => RecInv'
  BY <1>1, <1>2 DEF RecInv
<1>6. EventInv => EventInv'
  BY <1>1, <1>2, <1>3 DEF EventInv
<1>7. AutoInv => AutoInv'
  BY <1>1, <1>2 DEF AutoInv
<1> QED BY <1>4, <1>5, <1>6, <1>7

LEMMA PrimitivesInit == Init => PrimitivesInv
BY SemInit, RecInit, EventInit, ParInit, SwitchInit, HijackInit DEF Init, PrimitivesInv

LEMMA PrimitivesStep == PrimitivesInv /\ [Next]_vars => PrimitivesInv'
<1> SUFFICES ASSUME PrimitivesInv, [Next]_vars PROVE PrimitivesInv'
  OBVIOUS
<1> USE DEF PrimitivesInv
<1>0. UNCHANGED Idle => ParInv' /\ SwitchInv' /\ CallerInv'
  BY ParStill, SwitchStill, CallerStill DEF Idle
<1>1. CASE Sem!Next /\ InSemaphore
  BY <1>0, <1>1, SemStep DEF InSemaphore, Used
<1>2. CASE Rec!Next /\ InRecursive
  BY <1>0, <1>2, RecStep DEF InRecursive, Used
<1>3. CASE AutoEvent!Next /\ InEvent("auto")
  BY <1>0, <1>3, EventStep, AutoStep DEF InEvent, Used
<1>4. CASE ManualEvent!Next /\ InEvent("manual")
  BY <1>0, <1>4, EventStep DEF InEvent, Used
<1>5. CASE Fut!Next /\ InFuture
  BY <1>0, <1>5 DEF InFuture, Used
<1>6. CASE Par!ParallelNext /\ InParallel
  BY <1>6, ParStep, SwitchStill, CallerStill DEF InParallel, Used
<1>7. CASE Switch!FiberNext /\ InFiber
  BY <1>7, SwitchesStep, ParStill, CallerStill DEF InFiber, Used
<1>8. CASE Hijack!CallerNext /\ InHijack
  BY <1>8, HijackStep, ParStill, SwitchStill DEF InHijack, Used
<1>9. CASE UNCHANGED vars
  BY <1>9, WaitStill, ParStill, SwitchStill, CallerStill DEF vars
<1> QED BY <1>1, <1>2, <1>3, <1>4, <1>5, <1>6, <1>7, <1>8, <1>9 DEF Next

\* In every behaviour, whichever component the fibers use, the invariant of the component
\* holds in every state.
THEOREM PrimitivesInvariance == Spec => []PrimitivesInv
BY PrimitivesInit, PrimitivesStep, PTL DEF Spec

-----------------------------------------------------------------------------
(* The properties.                                                         *)

\* The components count entries of a list as this module does.
LEMMA SameTimes ==
    ASSUME NEW s, NEW x
    PROVE  /\ Sem!Times(s, x) = Times(s, x) /\ Rec!Times(s, x) = Times(s, x)
           /\ AutoEvent!Times(s, x) = Times(s, x) /\ Hijack!Times(x, s) = Times(s, x)
BY SameCardinality DEF Times, Sem!Times, Rec!Times, AutoEvent!Times, Hijack!Times

\* A fiber that blocks in FiberSemaphore::wait(), RecursiveFiberMutex::lock() or
\* FiberEvent::wait() is in exactly one place from which it will be woken, for any number
\* of fibers and calls, and nobody is queued for what is free.
THEOREM WaitersInOnePlace == Spec => []WaiterInOnePlace
<1>1. PrimitivesInv => WaiterInOnePlace
  <2> SUFFICES ASSUME PrimitivesInv PROVE WaiterInOnePlace
    OBVIOUS
  <2>1. use = "semaphore" => Sem!WaiterInOnePlace /\ Sem!NoIdleWaiters
    BY SameTimes DEF PrimitivesInv, SemInv, OnePlace, Sem!WaiterInOnePlace, Sem!NoIdleWaiters
  <2>2. use = "recursive" => Rec!WaiterInOnePlace /\ Rec!NoIdleWaiters
    BY SameTimes DEF PrimitivesInv, RecInv, OnePlace, Rec!WaiterInOnePlace, Rec!NoIdleWaiters
  <2>3. use \in {"auto", "manual"} => AutoEvent!WaiterInOnePlace /\ AutoEvent!SignalledNobodyWaits
    <3>1. ASSUME NEW f \in Fibers
          PROVE  AutoEvent!Cardinality({g \in Fibers : AutoEvent!Times(runnables[g], f) = 1})
                   = Cardinality(Holders(f))
      <4>1. {g \in Fibers : AutoEvent!Times(runnables[g], f) = 1} = Holders(f)
        BY SameTimes DEF Holders
      <4> QED BY <4>1, SameCardinality
    <3> QED BY <3>1, SameTimes
            DEF PrimitivesInv, EventInv, AutoEvent!WaiterInOnePlace, AutoEvent!SignalledNobodyWaits
  <2> QED BY <2>1, <2>2, <2>3 DEF WaiterInOnePlace
<1> QED BY <1>1, PrimitivesInvariance, PTL

\* What notify(), unlock(), set() and schedule() hand to a fiber is neither lost nor made
\* up before the fiber returns, for any number of fibers, calls and exceptions.
THEOREM HandedOverExactlyOnce == Spec => []HandedOverOnce
<1>1. PrimitivesInv => HandedOverOnce
  <2> SUFFICES ASSUME PrimitivesInv PROVE HandedOverOnce
    OBVIOUS
  <2>1. use = "semaphore" => Sem!ConcurrencyConserved
    <3>1. Sem!Released = Released
      BY DEF Sem!Released, Released
    <3> QED BY <3>1, SameCardinality DEF PrimitivesInv, SemInv, Sem!ConcurrencyConserved
  <2>2. use = "recursive" => Rec!RecursionMatchesOwner
    BY DEF PrimitivesInv, RecInv, Rec!RecursionMatchesOwner
  <2>3. use = "auto" => AutoEvent!OnePerSet
    <3>1. {f \in Fibers : blocked[f] /\ AutoEvent!Times(m_waiters, f) = 0} = LetGo
      BY SameTimes DEF LetGo
    <3> QED BY <3>1, SameCardinality DEF PrimitivesInv, AutoInv, AutoEvent!OnePerSet
  <2>4. Hijack!ResumedOnce /\ Hijack!Drains
    <3>1. Hijack!Anyone = Anyone
      BY DEF Hijack!Anyone, Anyone
    <3> QED BY <3>1, SameTimes
            DEF PrimitivesInv, CallerInv, Due, ActiveCount, InHand, Dispatching,
                Hijack!ResumedOnce, Hijack!Drains
  <2> QED BY <2>1, <2>2, <2>3, <2>4 DEF HandedOverOnce
<1> QED BY <1>1, PrimitivesInvariance, PTL

\* parallel_do() and parallel_foreach() return when every worker has counted and every job
\* is done, or skipped after an exception, for any jobs, workers and parallelism.
THEOREM CallerIsAloneAfterwards == Spec => []CallerAloneAfterwards
<1>1. PrimitivesInv => CallerAloneAfterwards
  <2> SUFFICES ASSUME ParInv PROVE Par!CallerAloneAfterwards
    BY DEF PrimitivesInv, CallerAloneAfterwards
  <2>1. queued <= 1
    BY DEF ParInv, ParType
  <2>2. ASSUME caller = "returning" \/ queued = 1
        PROVE  /\ \A w \in Workers : worker[w] \in {"schedule", "exit", "TERM"}
               /\ ended = Jobs \/ (foreach /\ exception # {} /\ ended = 1 .. next - 1)
    <3>1. Gone /\ Workers # {} /\ caller \in {"yielded", "returning"}
      BY <2>2 DEF ParInv, Telling
    <3>2. /\ Counted = Workers /\ InFunctor = {}
          /\ {w \in Workers : worker[w] = "count"} = {}
      BY <3>1 DEF Gone, Counted, InFunctor
    <3>3. WorkDone
      BY <3>1 DEF ParInv
    <3>4. CASE ~foreach
      BY <3>1, <3>2, <3>3, <3>4 DEF WorkDone, ParInv, ParType, Gone
    <3>5. CASE foreach
      <4>1. {taken[w] : w \in InFunctor} = {}
        BY <3>2
      <4>2. ended = 1 .. next - 1
        BY <3>3, <3>5, <4>1 DEF WorkDone
      <4>3. next \notin Jobs \/ exception # {}
        BY <3>1, <3>2, <3>3, <3>5 DEF WorkDone
      <4>4. next \in Jobs \/ next - 1 \in Jobs \/ next = 1
        BY <3>3, <3>5 DEF WorkDone
      <4>5. next \in Nat \ {0} /\ Cardinality(Jobs) \in Nat /\ Jobs = 1 .. Cardinality(Jobs)
        BY JobsAssumption DEF ParInv, ParType
      <4>6. next \notin Jobs => next - 1 = Cardinality(Jobs)
        BY <4>4, <4>5
      <4>7. next \notin Jobs => ended = Jobs
        BY <4>2, <4>5, <4>6, Zenon
      <4> QED BY <3>1, <3>5, <4>2, <4>3, <4>7 DEF Gone
    <3> QED BY <3>4, <3>5
  <2>3. caller = "calling" /\ ~foreach => \A w \in Workers : worker[w] = "TERM"
    BY DEF ParInv, Telling
  <2>4. ~foreach => Par!Cardinality({w \in Workers : worker[w] = "functor"}) <= parallelism
    <3>1. Par!Cardinality({w \in Workers : worker[w] = "functor"}) = Cardinality(InFunctor)
      BY SameCardinality DEF InFunctor
    <3>2. ~foreach => concurrency + Cardinality(InFunctor) = parallelism
      BY DEF ParInv, Permits
    <3>3. concurrency \in Nat /\ Cardinality(InFunctor) \in Nat /\ parallelism \in Nat
      BY WorkersFinite, CountersAssumption DEF ParInv, ParType
    <3> HIDE DEF InFunctor
    <3>4. ~foreach => Cardinality(InFunctor) <= parallelism
      BY <3>2, <3>3
    <3> QED BY <3>1, <3>4, Zenon
  <2> QED BY <2>1, <2>2, <2>3, <2>4, Zenon DEF Par!CallerAloneAfterwards
<1> QED BY <1>1, PrimitivesInvariance, PTL

\* The state word of every fiber tells where the fiber is, for any number of fibers on a
\* thread, however they call(), yield(), yieldTo(), inject() and reset() each other.
THEOREM StateTellsContext == Spec => []StateMatchesContext
<1>1. PrimitivesInv => StateMatchesContext
  <2> SUFFICES ASSUME SwitchInv PROVE Switch!StateMatchesContext
    BY DEF PrimitivesInv, StateMatchesContext
  <2>1. Switch!Everyone = Everyone
    BY DEF Switch!Everyone, Everyone
  <2>2. \A f \in Everyone : StateWord(f)
    BY DEF SwitchInv
  <2>3. t_fiber \in Everyone
    BY DEF SwitchInv, SwitchType
  <2>4. ASSUME NEW f \in Everyone
        PROVE  context[f] = "call" <=> Switch!Cardinality({g \in Everyone : m_outer[g] = f}) = 1
    <3> DEFINE G == {g \in Everyone : m_outer[g] = f}
    <3>1. context[f] = "call" <=> \E g \in Everyone : m_outer[g] = f
      BY <2>2 DEF StateWord
    <3>2. f # NoFiber
      BY StacksAssumption DEF Everyone
    <3>3. \A g, h \in G : g = h
      BY <3>2 DEF SwitchInv, Chain
    <3>4. CASE G = {}
      BY <3>1, <3>4, FS_EmptySet, SameCardinality
    <3>5. CASE G # {}
      <4>1. PICK g \in G : G = {g}
        BY <3>3, <3>5
      <4>2. Cardinality(G) = 1
        BY <4>1, FS_Singleton
      <4> QED BY <3>1, <3>5, <4>2, SameCardinality
    <3> QED BY <3>4, <3>5
  <2>5. context[t_fiber] = "running" /\ \A f \in Everyone \ {t_fiber} : context[f] # "running"
    BY <2>2, <2>3 DEF StateWord
  <2>6. ASSUME NEW f \in Everyone
        PROVE  /\ context[f] = "entry" => m_state[f] = "INIT"
               /\ context[f] \in {"yield", "yieldTo"} <=> m_state[f] = "HOLD"
               /\ context[f] = "none" => m_state[f] \in {"TERM", "EXCEPT"}
               /\ context[f] = "call" => m_state[f] = "EXEC"
               /\ m_outer[f] = NoFiber \/ context[f] \in {"running", "call", "yieldTo"}
    BY <2>2 DEF StateWord
  <2> QED BY <2>1, <2>4, <2>5, <2>6, Zenon DEF Switch!StateMatchesContext
<1> QED BY <1>1, PrimitivesInvariance, PTL
=============================================================================
