------------------------------ MODULE Parallel ------------------------------
(***************************************************************************)
(* parallel_do() with fibers that are used again (parallel.cpp) and        *)
(* parallel_foreach() (parallel.h), called from a fiber of a scheduler     *)
(* with several threads.  `foreach' says which; both are called Rounds     *)
(* times, one call after the other.                                        *)
(***************************************************************************)
EXTENDS Naturals, FiniteSets

CONSTANTS
    Jobs,          \* the functors, or the objects of the collection: 1..n
    Workers,       \* the fibers that execute them: Jobs itself for parallel_do
    parallelism,   \* of the FiberSemaphore
    Rounds         \* bound

VARIABLES
    foreach,
    worker,        \* worker[w]: where the fiber w is
    taken,         \* foreach: the object that w works on
    next,          \* foreach: the shared iterator
    ended,         \* jobs whose functor returned or threw
    exception,     \* jobs that threw
    completed,     \* the counter, counted down for foreach
    concurrency,   \* of the FiberSemaphore
    caller,        \* "calling", "yielded" or "returning"
    queued,        \* how often the caller is in the scheduler's queue
    round

parallelVars == <<foreach, worker, taken, next, ended, exception, completed, concurrency,
                  caller, queued, round>>

Total == Cardinality(Workers)

ParallelInit ==
    /\ foreach \in (IF Workers = Jobs THEN BOOLEAN ELSE {TRUE})
    /\ worker = [w \in Workers |-> "TERM"] /\ taken = [w \in Workers |-> 0]
    /\ next = 1 /\ ended = {} /\ exception = {} /\ completed = 0
    /\ concurrency = parallelism
    /\ caller = "calling" /\ queued = 0 /\ round = 1

Go(w, to) == worker' = [worker EXCEPT ![w] = to]

\* reset() of the caller's fibers, which asserts that they ended, and schedule().
Spawn == /\ caller = "calling"
         /\ worker' = [w \in Workers |-> "sem"]
         /\ completed' = IF foreach THEN Total ELSE 0
         /\ next' = 1 /\ ended' = {} /\ exception' = {} /\ concurrency' = parallelism
         /\ caller' = "yielded"
         /\ UNCHANGED <<foreach, taken, queued, round>>

\* sem->wait() and the functor of parallel_do.
Enter(w) == /\ ~foreach /\ worker[w] = "sem" /\ concurrency > 0
            /\ concurrency' = concurrency - 1
            /\ Go(w, "functor")
            /\ UNCHANGED <<foreach, taken, next, ended, exception, completed, caller, queued, round>>

Functor(w) == /\ ~foreach /\ worker[w] = "functor"
              /\ ended' = ended \cup {w}
              /\ exception' \in {exception, exception \cup {w}}
              /\ concurrency' = concurrency + 1
              /\ Go(w, "count")
              /\ UNCHANGED <<foreach, taken, next, completed, caller, queued, round>>

\* parallel_foreach_impl: takes an object under the mutex, until there is none left
\* or somebody threw.
Take(w) == /\ foreach /\ worker[w] = "sem"
           /\ IF next \notin Jobs \/ exception # {}
              THEN Go(w, "count") /\ UNCHANGED <<next, taken>>
              ELSE Go(w, "functor") /\ next' = next + 1 /\ taken' = [taken EXCEPT ![w] = next]
           /\ UNCHANGED <<foreach, ended, exception, completed, concurrency, caller, queued, round>>

Apply(w) == /\ foreach /\ worker[w] = "functor"
            /\ ended' = ended \cup {taken[w]}
            /\ \/ Go(w, "sem") /\ UNCHANGED exception
               \/ Go(w, "count") /\ exception' = exception \cup {taken[w]}
            /\ UNCHANGED <<foreach, taken, next, completed, concurrency, caller, queued, round>>

\* Mutant of Count: tells the caller before the last worker has counted.
CountEarly(w) ==
    /\ worker[w] = "count"
    /\ completed' = IF foreach THEN completed - 1 ELSE completed + 1
    /\ Go(w, IF completed' = (IF foreach THEN 1 ELSE Total - 1) THEN "schedule" ELSE "exit")
    /\ UNCHANGED <<foreach, taken, next, ended, exception, concurrency, caller, queued, round>>

\* The atomic counter: the last one schedules the caller.
Count(w) ==
    /\ worker[w] = "count"
    /\ completed' = IF foreach THEN completed - 1 ELSE completed + 1
    /\ Go(w, IF completed' = (IF foreach THEN 0 ELSE Total) THEN "schedule" ELSE "exit")
    /\ UNCHANGED <<foreach, taken, next, ended, exception, concurrency, caller, queued, round>>

Schedule(w) == /\ worker[w] = "schedule"
               /\ queued' = queued + 1
               /\ Go(w, "exit")
               /\ UNCHANGED <<foreach, taken, next, ended, exception, completed, concurrency, caller, round>>

\* The fiber's state is EXEC until its thread has switched away from it.
ExitFiber(w) == /\ worker[w] = "exit"
                /\ Go(w, "TERM")
                /\ UNCHANGED <<foreach, taken, next, ended, exception, completed, concurrency, caller,
                               queued, round>>

Resume == /\ caller = "yielded" /\ queued > 0
          /\ queued' = queued - 1
          /\ caller' = "returning"
          /\ UNCHANGED <<foreach, worker, taken, next, ended, exception, completed, concurrency, round>>

\* parallel_do waits until all fibers have exited; then the first exception is
\* rethrown.  foreach forgets its workers, which it scheduled as functors.
ReturnToUser ==
    /\ caller = "returning"
    /\ foreach \/ \A w \in Workers : worker[w] = "TERM"
    /\ IF round < Rounds THEN caller' = "calling" /\ round' = round + 1
       ELSE caller' = "returned" /\ UNCHANGED round
    /\ UNCHANGED <<foreach, worker, taken, next, ended, exception, completed, concurrency, queued>>

ParallelDone == caller = "returned" /\ UNCHANGED parallelVars

Progress == \/ Spawn \/ Resume \/ ReturnToUser
            \/ \E w \in Workers : \/ Enter(w) \/ Functor(w) \/ Take(w) \/ Apply(w)
                                  \/ Count(w) \/ Schedule(w) \/ ExitFiber(w)

ParallelNext == Progress \/ ParallelDone

\* Threads keep running; functors return.
ParallelSpec == ParallelInit /\ [][ParallelNext]_parallelVars /\ WF_parallelVars(Progress)

-----------------------------------------------------------------------------
\* The caller goes on once, when no worker will touch the caller's stack again
\* (counter, exceptions, semaphore, iterator): all have counted, every functor has
\* run or, for foreach, was skipped after an exception.  The fibers it resets in the
\* next call have ended (Fiber::reset asserts it), and never more than `parallelism'
\* functors of parallel_do run at once.
CallerAloneAfterwards ==
    /\ queued <= 1
    /\ (caller = "returning" \/ queued = 1) =>
          /\ \A w \in Workers : worker[w] \in {"schedule", "exit", "TERM"}
          /\ ended = Jobs \/ (foreach /\ exception # {} /\ ended = 1 .. next - 1)
    /\ (caller = "calling" /\ ~foreach) => \A w \in Workers : worker[w] = "TERM"
    /\ ~foreach => Cardinality({w \in Workers : worker[w] = "functor"}) <= parallelism

\* Both return.
ParallelReturns == <>(caller = "returned")
=============================================================================
