----------------------------- MODULE PipeStream -----------------------------
(***************************************************************************)
(* The two connected ends made by pipeStream() (streams/pipe.cpp).  Each   *)
(* end has a fiber that reads and one that writes and flushes; ends are    *)
(* closed, cancelled and destroyed by others at any time.  A pass through  *)
(* the loop of read(), write() or flush() is one critical section of the   *)
(* shared mutex; a call that cannot go on parks its fiber in the other end *)
(* and is scheduled by whoever finds it there.  (Nothing in the repository *)
(* injects an exception into a parked call, so its handler is left out.)   *)
(*                                                                         *)
(* An end whose last reference is gone cannot be reached any more through  *)
(* the other's weak pointer, some time before its destructor gets the      *)
(* mutex: Expire and Destruct are two steps.  Buffers are counted in bytes.*)
(***************************************************************************)
EXTENDS Naturals, FiniteSets

CONSTANTS
    m_bufferSize,
    Writers,         \* the ends that write, and whose writes are cancelled
    MaxBytes         \* bound: bytes written by each of them

VARIABLES
    life,            \* life[e]: "alive", "expired" or "gone"
    m_closed, m_otherClosed,             \* sets of "READ" and "WRITE"
    m_readBuffer,                        \* bytes available to e
    m_cancelledRead, m_cancelledWrite,
    m_pending,       \* m_pending[e][k]: the fiber k of the other end is parked in e
    doing,           \* doing[e][k]: the call that fiber k of e is in
    queued,          \* queued[e][k]: entries for that fiber in its scheduler's queue
    written,         \* bytes written by e so far
    flushed          \* flushed[e]: the last call of its writer was a successful flush()

pipeVars == <<life, m_closed, m_otherClosed, m_readBuffer, m_cancelledRead, m_cancelledWrite,
              m_pending, doing, queued, written, flushed>>
flags == <<life, m_closed, m_otherClosed, m_cancelledRead, m_cancelledWrite>>

Ends == {1, 2}
Other(e) == 3 - e
Kinds == {"reader", "writer"}

PipeTypeOK ==
    /\ life \in [Ends -> {"alive", "expired", "gone"}]
    /\ m_closed \in [Ends -> SUBSET {"READ", "WRITE"}]
    /\ m_otherClosed \in [Ends -> SUBSET {"READ", "WRITE"}]
    /\ m_readBuffer \in [Ends -> 0..m_bufferSize]
    /\ m_cancelledRead \in [Ends -> BOOLEAN] /\ m_cancelledWrite \in [Ends -> BOOLEAN]
    /\ m_pending \in [Ends -> [Kinds -> BOOLEAN]]
    /\ doing \in [Ends -> [Kinds -> {"none", "read", "write", "flush"}]]
    /\ queued \in [Ends -> [Kinds -> 0..1]]
    /\ written \in [Ends -> 0..MaxBytes]
    /\ flushed \in [Ends -> BOOLEAN]

PipeInit ==
    /\ life = [e \in Ends |-> "alive"]
    /\ m_closed = [e \in Ends |-> {}] /\ m_otherClosed = [e \in Ends |-> {}]
    /\ m_readBuffer = [e \in Ends |-> 0]
    /\ m_cancelledRead = [e \in Ends |-> FALSE] /\ m_cancelledWrite = [e \in Ends |-> FALSE]
    /\ m_pending = [e \in Ends |-> [k \in Kinds |-> FALSE]]
    /\ doing = [e \in Ends |-> [k \in Kinds |-> "none"]]
    /\ queued = [e \in Ends |-> [k \in Kinds |-> 0]]
    /\ written = [e \in Ends |-> 0]
    /\ flushed = [e \in Ends |-> FALSE]

-----------------------------------------------------------------------------
otherStream(e) == life[Other(e)] = "alive"

\* Fiber k of e is at the top of the loop of `op': it calls it, or it is resumed
\* by its scheduler (which happens when it has switched away).
AtTop(e, k, op) ==
    /\ life[e] = "alive"
    /\ doing[e][k] = "none" \/ (doing[e][k] = op /\ queued[e][k] > 0)

\* What is left in the queues, once fiber k of e has taken its entry and the
\* fibers of the set W have been scheduled.
Queue(e, k, W) ==
    [x \in Ends |-> [j \in Kinds |->
        queued[x][j] + (IF <<x, j>> \in W THEN 1 ELSE 0)
                     - (IF x = e /\ j = k THEN queued[x][j] ELSE 0)]]

\* The fiber k of the other end, if it is parked in e, as a set.
Parked(e, k) == IF m_pending[e][k] THEN {<<Other(e), k>>} ELSE {}

Flushed(e, k, how) ==
    flushed' = [flushed EXCEPT ![e] = IF k = "reader" THEN @ ELSE how = "flushed"]

Return(e, k, how) == Flushed(e, k, how) /\ doing' = [doing EXCEPT ![e][k] = "none"]

\* A call that changes nothing but ends, with an exception or with 0.
Ends0(e, k, how) ==
    /\ Return(e, k, how)
    /\ queued' = Queue(e, k, {})
    /\ UNCHANGED <<flags, m_readBuffer, m_pending, written>>

\* A call that scheduled whoever was parked in e as `woken' and succeeded.
Succeeds(e, k, woken) ==
    /\ Return(e, k, "ok")
    /\ queued' = Queue(e, k, Parked(e, woken))
    /\ m_pending' = [m_pending EXCEPT ![e][woken] = FALSE]
    /\ UNCHANGED flags

Park(e, k, op) ==
    /\ m_pending' = [m_pending EXCEPT ![Other(e)][k] = TRUE]
    /\ doing' = [doing EXCEPT ![e][k] = op]
    /\ Flushed(e, k, "waits")
    /\ queued' = Queue(e, k, {})
    /\ UNCHANGED <<flags, m_readBuffer, written>>

-----------------------------------------------------------------------------
ReadBroken(e) == \/ "READ" \in m_closed[e]
                 \/ ~otherStream(e) /\ "WRITE" \notin m_otherClosed[e]

ReadThrows(e) == AtTop(e, "reader", "read") /\ ReadBroken(e) /\ Ends0(e, "reader", "broken")

ReadBytes(e) ==
    /\ AtTop(e, "reader", "read") /\ ~ReadBroken(e)
    /\ \E todo \in 1..m_readBuffer[e] :
          /\ m_readBuffer' = [m_readBuffer EXCEPT ![e] = @ - todo]
          /\ Succeeds(e, "reader", "writer")
          /\ UNCHANGED written

ReadEof(e) ==
    /\ AtTop(e, "reader", "read") /\ ~ReadBroken(e)
    /\ m_readBuffer[e] = 0 /\ "WRITE" \in m_otherClosed[e]
    /\ Ends0(e, "reader", "eof")

ReadWaits(e) ==
    /\ AtTop(e, "reader", "read") /\ ~ReadBroken(e)
    /\ m_readBuffer[e] = 0 /\ "WRITE" \notin m_otherClosed[e]
    /\ IF m_cancelledRead[e] THEN Ends0(e, "reader", "aborted")
       ELSE Park(e, "reader", "read")

WriteBroken(e) == "WRITE" \in m_closed[e] \/ ~otherStream(e) \/ "READ" \in m_closed[Other(e)]

WriteThrows(e) == AtTop(e, "writer", "write") /\ WriteBroken(e) /\ Ends0(e, "writer", "broken")

WriteBytes(e) ==
    /\ AtTop(e, "writer", "write") /\ ~WriteBroken(e) /\ e \in Writers
    /\ \E todo \in 1 .. m_bufferSize - m_readBuffer[Other(e)] :
          /\ written[e] + todo <= MaxBytes
          /\ written' = [written EXCEPT ![e] = @ + todo]
          /\ m_readBuffer' = [m_readBuffer EXCEPT ![Other(e)] = @ + todo]
          /\ Succeeds(e, "writer", "reader")

WriteWaits(e) ==
    /\ AtTop(e, "writer", "write") /\ ~WriteBroken(e)
    /\ m_readBuffer[Other(e)] = m_bufferSize
    /\ IF m_cancelledWrite[e] THEN Ends0(e, "writer", "aborted")
       ELSE Park(e, "writer", "write")

flush(e) ==
    /\ AtTop(e, "writer", "flush")
    /\ IF m_cancelledWrite[e] THEN Ends0(e, "writer", "aborted")
       ELSE IF ~otherStream(e)
       THEN Ends0(e, "writer", IF "READ" \in m_otherClosed[e] THEN "flushed" ELSE "broken")
       ELSE IF m_readBuffer[Other(e)] = 0 THEN Ends0(e, "writer", "flushed")
       ELSE IF "READ" \in m_closed[Other(e)] THEN Ends0(e, "writer", "broken")
       ELSE Park(e, "writer", "flush")

-----------------------------------------------------------------------------
\* Schedules the fibers of the kinds K that are parked in e.
WakeAll(e, K) ==
    /\ queued' = Queue(e, "none", UNION {Parked(e, k) : k \in K})
    /\ m_pending' = [m_pending EXCEPT ![e] = [k \in Kinds |-> @[k] /\ k \notin K]]
    /\ UNCHANGED <<doing, written, flushed>>

\* Mutant of close: only the readers of the other end are woken.
closeReaders(e, type) ==
    LET closed == m_closed[e] \cup type
    IN /\ life[e] = "alive" /\ ~(type \subseteq m_closed[e])
       /\ m_closed' = [m_closed EXCEPT ![e] = closed]
       /\ m_otherClosed' = IF otherStream(e) THEN [m_otherClosed EXCEPT ![Other(e)] = closed]
                           ELSE m_otherClosed
       /\ WakeAll(e, {k \in {"reader"} : "WRITE" \in closed})
       /\ UNCHANGED <<life, m_readBuffer, m_cancelledRead, m_cancelledWrite>>

close(e, type) ==
    LET closed == m_closed[e] \cup type
    IN /\ life[e] = "alive" /\ ~(type \subseteq m_closed[e])
       /\ m_closed' = [m_closed EXCEPT ![e] = closed]
       /\ m_otherClosed' = IF otherStream(e) THEN [m_otherClosed EXCEPT ![Other(e)] = closed]
                           ELSE m_otherClosed
       /\ WakeAll(e, {k \in Kinds : (IF k = "reader" THEN "WRITE" ELSE "READ") \in closed})
       /\ UNCHANGED <<life, m_readBuffer, m_cancelledRead, m_cancelledWrite>>

\* cancelRead() and cancelWrite() wake the fiber of e itself.
CancelWakes(e, k) ==
    /\ life[e] = "alive"
    /\ IF otherStream(e)
       THEN /\ queued' = Queue(e, "none", Parked(Other(e), k))
            /\ m_pending' = [m_pending EXCEPT ![Other(e)][k] = FALSE]
       ELSE UNCHANGED <<queued, m_pending>>
    /\ UNCHANGED <<life, m_closed, m_otherClosed, m_readBuffer, doing, written, flushed>>

cancelRead(e) == /\ ~m_cancelledRead[e]
                 /\ m_cancelledRead' = [m_cancelledRead EXCEPT ![e] = TRUE]
                 /\ CancelWakes(e, "reader") /\ UNCHANGED m_cancelledWrite

cancelWrite(e) == /\ ~m_cancelledWrite[e]
                  /\ m_cancelledWrite' = [m_cancelledWrite EXCEPT ![e] = TRUE]
                  /\ CancelWakes(e, "writer") /\ UNCHANGED m_cancelledRead

\* The last reference to e goes: no call on it is in progress.
Expire(e) ==
    /\ life[e] = "alive" /\ \A k \in Kinds : doing[e][k] = "none"
    /\ life' = [life EXCEPT ![e] = "expired"]
    /\ UNCHANGED <<m_closed, m_otherClosed, m_readBuffer, m_cancelledRead, m_cancelledWrite,
                   m_pending, doing, queued, written, flushed>>

\* Mutant of Destruct: the writer is told that all was read even if it was not.
DestructAsRead(e) ==
    /\ life[e] = "expired"
    /\ life' = [life EXCEPT ![e] = "gone"]
    /\ m_otherClosed' = IF ~otherStream(e) THEN m_otherClosed
          ELSE [m_otherClosed EXCEPT ![Other(e)] = @ \cup {"READ"}]
    /\ WakeAll(e, Kinds)
    /\ UNCHANGED <<m_closed, m_readBuffer, m_cancelledRead, m_cancelledWrite>>

Destruct(e) ==
    /\ life[e] = "expired"
    /\ life' = [life EXCEPT ![e] = "gone"]
    /\ m_otherClosed' = IF ~otherStream(e) THEN m_otherClosed
          ELSE [m_otherClosed EXCEPT ![Other(e)] =
                   IF m_readBuffer[e] = 0 THEN @ \cup {"READ"} ELSE @ \ {"READ"}]
    /\ WakeAll(e, Kinds)
    /\ UNCHANGED <<m_closed, m_readBuffer, m_cancelledRead, m_cancelledWrite>>

PipeFiber(e) ==
    \/ ReadThrows(e) \/ ReadBytes(e) \/ ReadEof(e) \/ ReadWaits(e)
    \/ WriteThrows(e) \/ WriteBytes(e) \/ WriteWaits(e) \/ flush(e)

PipeNext ==
    \E e \in Ends :
        \/ PipeFiber(e)
        \/ \E type \in {{"READ"}, {"WRITE"}, {"READ", "WRITE"}} : close(e, type)
        \/ cancelRead(e) \/ (e \in Writers /\ cancelWrite(e))
        \/ Expire(e) \/ Destruct(e)

\* Threads run what is scheduled, and a destructor that has begun gets the mutex.
Continue(e, k) == doing[e][k] # "none" /\ PipeFiber(e) /\ doing'[e][k] # doing[e][k]
PipeFairness ==
    \A e \in Ends : /\ \A k \in Kinds : WF_pipeVars(Continue(e, k))
                    /\ WF_pipeVars(Destruct(e))

PipeSpec == PipeInit /\ [][PipeNext]_pipeVars /\ PipeFairness

-----------------------------------------------------------------------------
\* A fiber inside a call is in one place: parked in the other end, or (once) in
\* its scheduler's queue.  And it is not left parked when its call could go on:
\* there are bytes to read or room to write, the buffer to flush is empty, the
\* call was cancelled, or the other end was closed or destroyed.
NoForgottenFiber ==
    \A e \in Ends : \A k \in Kinds :
        /\ queued[e][k] + (IF m_pending[Other(e)][k] THEN 1 ELSE 0)
              = IF doing[e][k] = "none" THEN 0 ELSE 1
        /\ m_pending[Other(e)][k] =>
              /\ life[Other(e)] # "gone"
              /\ k = "reader" => /\ m_readBuffer[e] = 0
                                 /\ otherStream(e) => ~m_cancelledRead[e]
                                 /\ "WRITE" \notin m_closed[Other(e)]
              /\ k = "writer" => /\ otherStream(e) => ~m_cancelledWrite[e]
                                 /\ "READ" \notin m_closed[Other(e)]
                                 /\ m_readBuffer[Other(e)]
                                       >= IF doing[e][k] = "flush" THEN 1 ELSE m_bufferSize

\* flush() returns only when the other end has read everything, or has declared
\* that it will not read.
FlushReturns ==
    \A e \in Ends : flushed'[e] /\ ~flushed[e]
        => m_readBuffer[Other(e)] = 0 \/ "READ" \in m_closed[Other(e)]
FlushMeansRead == [][FlushReturns]_pipeVars

\* A call ends once the other end is closed for good or destroyed.
CallLeftAlone(e, k) ==
    doing[e][k] # "none" /\ (life[Other(e)] # "alive" \/ m_closed[Other(e)] = {"READ", "WRITE"})
PipeCallsEnd == \A e \in Ends : \A k \in Kinds : []<>~CallLeftAlone(e, k)
=============================================================================
