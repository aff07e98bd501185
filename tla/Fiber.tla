------------------------------- MODULE Fiber -------------------------------
(***************************************************************************)
(* The fibers of one thread (fiber.cpp) and Coroutine (coroutine.h) on top *)
(* of them.  A step is what happens from one switchContext() to the next:  *)
(* the call that switches, and what the fiber switched to does on its side *)
(* (it gives the yielder its next state).  `context' is where a fiber that *)
(* is not running would go on.                                             *)
(***************************************************************************)
EXTENDS FiniteSets

CONSTANTS Threads,   \* the fiber of the thread's own stack, in a set of one
          Stacks,    \* fibers with a stack of their own
          NoFiber

VARIABLES
    t_fiber, m_state, m_outer, m_terminateOuter,
    m_exception,     \* an exception was injected, or left the fiber's functor
    context,         \* "entry", "running", "call", "yield", "yieldTo" or "none"
    aborting         \* the Coroutine whose reset() the fiber is in

fiberVars == <<t_fiber, m_state, m_outer, m_terminateOuter, m_exception, context, aborting>>

Everyone == Threads \cup Stacks

FiberInit ==
    /\ t_fiber \in Threads
    /\ m_state = [f \in Everyone |-> IF f \in Threads THEN "EXEC" ELSE "INIT"]
    /\ m_outer = [f \in Everyone |-> NoFiber]
    /\ m_terminateOuter = [f \in Everyone |-> NoFiber]
    /\ m_exception = [f \in Everyone |-> FALSE]
    /\ context = [f \in Everyone |-> IF f \in Threads THEN "running" ELSE "entry"]
    /\ aborting = [f \in Everyone |-> NoFiber]

-----------------------------------------------------------------------------
Resumable(f) == m_state[f] \in {"HOLD", "INIT"}
Reusable(f) == m_state[f] \in {"TERM", "INIT", "EXCEPT"} /\ f # t_fiber
Working == m_state[t_fiber] = "EXEC" /\ aborting[t_fiber] = NoFiber

\* f->call(), with m_exception as it stands.
Call(f, injected) ==
    /\ m_outer[f] = NoFiber /\ Resumable(f) /\ f # t_fiber
    /\ t_fiber' = f
    /\ m_outer' = [m_outer EXCEPT ![f] = t_fiber]
    /\ m_exception' = [m_exception EXCEPT ![f] = @ \/ injected]
    /\ m_state' = [m_state EXCEPT ![f] = IF m_exception[f] \/ injected THEN "EXCEPT" ELSE "EXEC"]
    /\ context' = [context EXCEPT ![t_fiber] = "call", ![f] = "running"]

call(f) == Working /\ Call(f, FALSE) /\ UNCHANGED <<m_terminateOuter, aborting>>
inject(f) == /\ Working /\ context[f] # "entry" /\ Call(f, TRUE)
             /\ UNCHANGED <<m_terminateOuter, aborting>>

\* inject() into a fiber that has not started: entryPoint() throws at once, without
\* running the functor, and the fiber is back in call().
InjectAtEntry(f) == /\ Working /\ context[f] = "entry"
                    /\ m_outer[f] = NoFiber /\ Resumable(f) /\ f # t_fiber
                    /\ m_exception' = [m_exception EXCEPT ![f] = TRUE]
                    /\ m_state' = [m_state EXCEPT ![f] = "EXCEPT"]
                    /\ context' = [context EXCEPT ![f] = "none"]
                    /\ UNCHANGED <<t_fiber, m_outer, m_terminateOuter, aborting>>

\* Back in call(), on the stack of the outer fiber: m_outer is reset and the fiber
\* that came back gets its next state.
BackInCall(f, next) ==
    LET outer == m_outer[f]
    IN /\ t_fiber' = outer
       /\ m_outer' = [m_outer EXCEPT ![f] = NoFiber]
       /\ m_state' = [m_state EXCEPT ![f] = next]
       /\ context' = [context EXCEPT ![outer] = "running",
                                     ![f] = IF next = "HOLD" THEN "yield" ELSE "none"]

yield == /\ Working /\ m_outer[t_fiber] # NoFiber
         /\ BackInCall(t_fiber, "HOLD")
         /\ UNCHANGED <<m_terminateOuter, m_exception, aborting>>

\* The last fiber of f's chain of outer fibers: the one to end last.
Last(f) == CHOOSE g \in Everyone :
              /\ m_outer[g] = NoFiber
              /\ \E chain \in SUBSET Everyone :
                    /\ {f, g} \subseteq chain
                    /\ \A h \in chain \ {g} : m_outer[h] \in chain

\* f->yieldTo(back): a plain switch; the running fiber becomes `next'.
SwitchTo(f, next) ==
    /\ Resumable(f)
    /\ t_fiber' = f
    /\ m_state' = [m_state EXCEPT ![f] = "EXEC", ![t_fiber] = next]
    /\ context' = [context EXCEPT ![f] = "running",
                                  ![t_fiber] = IF next = "HOLD" THEN "yieldTo" ELSE "none"]

yieldTo(f, back) ==
    /\ Working /\ f # t_fiber
    /\ SwitchTo(f, "HOLD")
    /\ m_terminateOuter' = IF back THEN [m_terminateOuter EXCEPT ![Last(f)] = t_fiber]
                           ELSE m_terminateOuter
    /\ UNCHANGED <<m_outer, m_exception, aborting>>

\* Mutant of exitPoint: the fiber to go back to on termination comes first, though
\* the fiber was called by another.
exitPointSwapped(next) ==
    LET f == t_fiber
        back == m_terminateOuter[f]
    IN IF back # NoFiber THEN SwitchTo(back, next) /\ UNCHANGED m_outer
       ELSE m_outer[f] # NoFiber /\ BackInCall(f, next)

\* entryPoint() and exitPoint(): the functor returned or threw; back to the fiber
\* that called this one, or else to the one that asked for it in yieldTo().
exitPoint(next) ==
    LET f == t_fiber
        back == m_terminateOuter[f]
    IN IF m_outer[f] = NoFiber THEN back # NoFiber /\ SwitchTo(back, next) /\ UNCHANGED m_outer
       ELSE BackInCall(f, next)

Exit(next) ==
    /\ t_fiber \in Stacks /\ aborting[t_fiber] = NoFiber
    /\ exitPoint(next)
    /\ m_exception' = [m_exception EXCEPT ![t_fiber] = @ \/ next = "EXCEPT"]
    /\ UNCHANGED <<m_terminateOuter, aborting>>

\* The functor ends: normally, or by an exception (its own, or the one injected).
Return == Exit("TERM")
Throw == Exit("EXCEPT")

reset(f) == /\ Reusable(f) /\ f \in Stacks
            /\ m_exception' = [m_exception EXCEPT ![f] = FALSE]
            /\ m_state' = [m_state EXCEPT ![f] = "INIT"]
            /\ context' = [context EXCEPT ![f] = "entry"]
            /\ UNCHANGED <<t_fiber, m_outer, m_terminateOuter>>

Reset(f) == Working /\ m_state[f] # "INIT" /\ reset(f) /\ UNCHANGED aborting

\* Coroutine::reset(): a suspended coroutine is made to end with
\* CoroutineAbortedException, which Coroutine::run() catches; then its fiber is reset.
\* (That the coroutine is suspended or over is the assertion of Fiber::reset(): one that
\* runs, or waits in call(), must not be reset.)
CoroutineAbort(f) ==
    /\ Working /\ m_state[f] = "HOLD" /\ context[f] = "yield"
    /\ Call(f, TRUE)
    /\ aborting' = [aborting EXCEPT ![t_fiber] = f]
    /\ UNCHANGED m_terminateOuter

CoroutineEnds == /\ \E f \in Everyone : aborting[f] = t_fiber
                 /\ m_state[t_fiber] = "EXCEPT" /\ BackInCall(t_fiber, "TERM")
                 /\ UNCHANGED <<m_terminateOuter, m_exception, aborting>>

CoroutineReset == /\ aborting[t_fiber] # NoFiber
                  /\ reset(aborting[t_fiber])
                  /\ aborting' = [aborting EXCEPT ![t_fiber] = NoFiber]

FiberNext ==
    \/ \E f \in Stacks : call(f) \/ inject(f) \/ InjectAtEntry(f) \/ Reset(f) \/ CoroutineAbort(f)
    \/ \E f \in Everyone, back \in BOOLEAN : yieldTo(f, back)
    \/ yield \/ Return \/ Throw \/ CoroutineEnds \/ CoroutineReset

FiberSpec == FiberInit /\ [][FiberNext]_fiberVars

-----------------------------------------------------------------------------
\* The state word, on which every assertion of Fiber relies, tells where the fiber
\* is: EXEC for the running fiber and for those waiting in call() for another, HOLD
\* for one with a context to go back to; and each fiber that waits in call() waits
\* for exactly one, whose m_outer it is.
StateMatchesContext ==
    /\ context[t_fiber] = "running" /\ \A f \in Everyone \ {t_fiber} : context[f] # "running"
    /\ \A f \in Everyone :
          /\ context[f] = "entry" => m_state[f] = "INIT"
          /\ context[f] \in {"yield", "yieldTo"} <=> m_state[f] = "HOLD"
          /\ context[f] = "none" => m_state[f] \in {"TERM", "EXCEPT"}
          /\ context[f] = "call" <=> Cardinality({g \in Everyone : m_outer[g] = f}) = 1
          /\ context[f] = "call" => m_state[f] = "EXEC"
          /\ m_outer[f] = NoFiber \/ context[f] \in {"running", "call", "yieldTo"}
=============================================================================
