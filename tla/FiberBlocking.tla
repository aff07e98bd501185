--------------------------- MODULE FiberBlocking ---------------------------
(***************************************************************************)
(* What every blocking call on a fiber does: the fiber puts itself into a  *)
(* list under a std::mutex, releases the mutex and switches away with      *)
(* Scheduler::yieldTo(); whoever takes it out of the list gives it to      *)
(* Scheduler::schedule(), possibly before the switch; a thread of the      *)
(* scheduler resumes it after the switch.                                  *)
(***************************************************************************)
EXTENDS Naturals, Sequences, FiniteSets

CONSTANT Fibers

VARIABLES
    blocked,     \* blocked[f]: f is in a call that ends with yieldTo()
    state,       \* EXEC while f is on a thread, HOLD once it is off it
    scheduled    \* scheduled[f]: entries for f in its scheduler's queue

blockingVars == <<blocked, state, scheduled>>

BlockingTypeOK == /\ blocked \in [Fibers -> BOOLEAN]
                  /\ state \in [Fibers -> {"EXEC", "HOLD"}]
                  /\ scheduled \in [Fibers -> Nat]

BlockingInit == /\ blocked = [f \in Fibers |-> FALSE]
                /\ state = [f \in Fibers |-> "EXEC"]
                /\ scheduled = [f \in Fibers |-> 0]

\* f executes client code.
Runs(f) == state[f] = "EXEC" /\ ~blocked[f]

Block(f) == blocked' = [blocked EXCEPT ![f] = TRUE] /\ UNCHANGED <<state, scheduled>>

schedule(f) == scheduled' = [scheduled EXCEPT ![f] = @ + 1] /\ UNCHANGED <<blocked, state>>

SwitchAway(f) == /\ blocked[f] /\ state[f] = "EXEC"
                 /\ state' = [state EXCEPT ![f] = "HOLD"]
                 /\ UNCHANGED <<blocked, scheduled>>

Resumed(f) == /\ state[f] = "HOLD" /\ scheduled[f] > 0
              /\ state' = [state EXCEPT ![f] = "EXEC"]
              /\ scheduled' = [scheduled EXCEPT ![f] = @ - 1]
              /\ blocked' = [blocked EXCEPT ![f] = FALSE]

\* How often x stands in the list s.
Times(s, x) == Cardinality({i \in DOMAIN s : s[i] = x})
=============================================================================
