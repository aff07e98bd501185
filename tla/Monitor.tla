------------------------------ MODULE Monitor ------------------------------
(***************************************************************************)
(* What a FiberMutex with its FiberCondition promises to the fibers that   *)
(* use it: a monitor with one holder, a FIFO entry queue, direct hand-over *)
(* to the oldest entry, and a set of sleepers that only a wake-up moves    *)
(* back.  Which sleepers a wake-up moves, and in which order, is left      *)
(* open: signal() is not atomic.                                           *)
(***************************************************************************)
EXTENDS Naturals, Sequences

CONSTANTS Procs, Nobody

VARIABLES
    holder,    \* the process that owns the monitor, or Nobody
    queue,     \* processes waiting to enter, oldest first
    asleep,    \* processes waiting on the condition
    blocked    \* processes inside a blocking call that has not returned

mvars == <<holder, queue, asleep, blocked>>

Init == /\ holder = Nobody
        /\ queue = <<>>
        /\ asleep = {}
        /\ blocked = {}

\* The holder leaves; the oldest entry, if there is one, becomes the holder.
HandOver == IF queue = <<>>
            THEN holder' = Nobody /\ queue' = <<>>
            ELSE holder' = Head(queue) /\ queue' = Tail(queue)

Enter(p) == /\ p \notin blocked
            /\ holder = Nobody
            /\ queue = <<>>
            /\ holder' = p
            /\ UNCHANGED <<queue, asleep, blocked>>

Queue(p) == /\ p \notin blocked
            /\ holder \notin {Nobody, p}
            /\ queue' = Append(queue, p)
            /\ blocked' = blocked \cup {p}
            /\ UNCHANGED <<holder, asleep>>

Leave(p) == /\ p \notin blocked
            /\ holder = p
            /\ HandOver
            /\ UNCHANGED <<asleep, blocked>>

Sleep(p) == /\ p \notin blocked
            /\ holder = p
            /\ HandOver
            /\ asleep' = asleep \cup {p}
            /\ blocked' = blocked \cup {p}

\* Some sleepers are woken: each joins the end of the queue once, in any order,
\* except one of them that becomes the holder when there is none.
Wake == LET woken == asleep \ asleep'
            new == Len(queue) + 1 .. Len(queue')
        IN /\ asleep' \subseteq asleep
           /\ woken # {}
           /\ Len(queue') >= Len(queue)
           /\ \A i \in 1..Len(queue) : queue'[i] = queue[i]
           /\ \A i \in new : queue'[i] \in woken
           /\ \A i, j \in new : queue'[i] = queue'[j] => i = j
           /\ \/ /\ holder = Nobody
                 /\ holder' \in woken
                 /\ \A i \in new : queue'[i] # holder'
                 /\ \A p \in woken : p = holder' \/ \E i \in new : queue'[i] = p
              \/ /\ holder # Nobody
                 /\ holder' = holder
                 /\ \A p \in woken : \E i \in new : queue'[i] = p
           /\ UNCHANGED blocked

\* A blocking call returns, and only to the holder.
Return(p) == /\ p \in blocked
             /\ holder = p
             /\ blocked' = blocked \ {p}
             /\ UNCHANGED <<holder, queue, asleep>>

Next == \/ \E p \in Procs : Enter(p) \/ Queue(p) \/ Leave(p) \/ Sleep(p) \/ Return(p)
        \/ Wake

Spec == Init /\ [][Next]_mvars
=============================================================================
