----------------------------- MODULE HTTPProofs -----------------------------
(***************************************************************************)
(* Proofs about the two ends of an HTTP connection in Connections: what    *)
(* holds of the pipelined requests of a client and of a server whatever    *)
(* their number, and with them the properties of Connections that need     *)
(* these two parts.                                                        *)
(***************************************************************************)
EXTENDS ConnectionsProofs

USE DEF Server!PENDING, Server!WAITING, Server!HEADERS, Server!BODY, Server!COMPLETE, Server!ERROR,
        Client!PENDING, Client!WAITING, Client!HEADERS, Client!BODY, Client!COMPLETE, Client!ERROR,
        Client!CANCELED

-----------------------------------------------------------------------------
(* The server.                                                             *)

ServerPlaces == {"none", "handler", "waiting", "writing", "completing", "completed", "unlocked",
                 "ending", "gone"}

ServerConnType ==
    [pending : SUBSET Server!Served, waiting : SUBSET Server!Served, count : Nat,
     rq : [Server!Served -> Server!PENDING .. Server!ERROR],
     rs : [Server!Served -> Server!PENDING .. Server!ERROR],
     qfailed : Nat, qclosed : Nat, rclosed : Nat,
     wake : SUBSET Server!Served, started : SUBSET Server!Served]

\* A fiber writes the response to r, or has been woken to do so.
Responds(c, q, r) == \/ q \in {"writing", "completing", "completed", "unlocked"}
                     \/ c.rs[r] = Server!BODY
                     \/ r \in c.wake /\ c.rs[r] = Server!HEADERS

\* There will be no response to r: one before it failed or closes the connection.
NoTurn(c, r) == c.qfailed < r \/ c.rclosed < r
LastTurn(c, r) == c.qfailed <= r \/ c.rclosed <= r

\* All requests but the last one have been read, and a request that was not is in the list.
ReadInOrder(c, q, r) ==
    /\ r \in c.pending \cup c.started => r <= c.count
    /\ r > c.count => q = "none" /\ c.rq[r] = Server!HEADERS /\ c.rs[r] = Server!PENDING
    /\ q = "none" => /\ c.rq[r] = Server!HEADERS /\ c.rs[r] = Server!PENDING
                     /\ r >= c.count /\ (r = c.count => r \in c.pending)
    /\ r < c.count => c.rq[r] >= Server!COMPLETE

\* A request is in the list until both its parts are over, or it has no turn.
InListWhile(c, q, r) ==
    /\ r \in c.pending => c.rq[r] < Server!COMPLETE \/ c.rs[r] < Server!COMPLETE
    /\ q = "handler" => /\ c.rs[r] \in {Server!PENDING, Server!BODY, Server!COMPLETE}
                        /\ c.rq[r] < Server!COMPLETE \/ c.rs[r] < Server!COMPLETE => r \in c.pending
    /\ q = "gone" => r \notin c.pending /\ c.rs[r] >= Server!COMPLETE
    /\ r <= c.count /\ r \notin c.pending /\ c.rs[r] < Server!COMPLETE => LastTurn(c, r)

\* Whoever waits for its turn is in m_waitingResponses or woken, and has a reason to wait.
WaitsForTurn(c, q, r) ==
    /\ q = "waiting" => \/ r \in c.waiting
                        \/ r \in c.wake /\ c.rs[r] = Server!HEADERS
                        \/ r \in c.wake /\ c.rs[r] = Server!WAITING /\ LastTurn(c, r)
    /\ r \in c.wake => q = "waiting" /\ r \notin c.waiting
    /\ r \in c.waiting => q = "waiting" /\ c.rs[r] = Server!WAITING /\ r \in c.pending

\* A response is written when all before it are over.
InTurn(c, q, w, r) ==
    /\ q = "writing" => c.rs[r] = Server!HEADERS
    /\ q \in {"completing", "completed", "unlocked"} => c.rs[r] \in {Server!HEADERS, Server!BODY}
    /\ Responds(c, q, r) => /\ Server!IsFirst(c, r) /\ ~NoTurn(c, r)
                            /\ \A s \in 1 .. r - 1 : c.rs[s] >= Server!COMPLETE
    /\ w /\ (q \in {"writing", "completing", "completed", "unlocked"} \/ c.rs[r] = Server!BODY)
          => c.rclosed <= r
    /\ c.rs[r] >= Server!COMPLETE => r \notin c.pending \/ Server!IsFirst(c, r)

\* What holds in the middle of a critical section too, and what it establishes: nobody
\* waits in vain.
AlmostOK(c, q, w, r) == /\ ReadInOrder(c, q, r) /\ InListWhile(c, q, r)
                        /\ WaitsForTurn(c, q, r) /\ InTurn(c, q, w, r)
ServerOK(c, q, w, r) == AlmostOK(c, q, w, r) /\ (r \in c.waiting => ~NoTurn(c, r))

ServerHolds(c, q, w) ==
    c \in ServerConnType /\ \A r \in Server!Served : ServerOK(c, q[r], w[r], r)

ServerInv ==
    /\ serverAt \in [Server!Served -> ServerPlaces]
    /\ m_willClose \in [Server!Served -> BOOLEAN]
    /\ ServerHolds(serverConn, serverAt, m_willClose)

LEMMA ServerInitInv == Server!HTTPServerInit => ServerInv
<1> SUFFICES ASSUME Server!HTTPServerInit PROVE ServerInv
  OBVIOUS
<1> USE HTTPAssumption DEF Server!HTTPServerInit, Server!Served, Server!Never
<1>1. serverConn \in ServerConnType
  BY DEF ServerConnType
<1>2. ASSUME NEW r \in Server!Served PROVE ServerOK(serverConn, serverAt[r], m_willClose[r], r)
  BY DEF ServerOK, AlmostOK, ReadInOrder, InListWhile, WaitsForTurn, InTurn, Responds, NoTurn, LastTurn
<1> QED BY <1>1, <1>2 DEF ServerInv, ServerHolds, ServerPlaces

\* scheduleAllWaitingResponses() wakes those that will have no turn, and takes them out.
Told(c) == {r \in c.pending \cap c.waiting : LastTurn(c, r)}

LEMMA TellsThem ==
    ASSUME NEW c \in ServerConnType
    PROVE  LET e == Server!scheduleAllWaitingResponses(c)
           IN /\ e \in ServerConnType
              /\ e.pending = c.pending \ Told(c) /\ e.waiting = c.waiting \ Told(c)
              /\ e.wake = c.wake \cup Told(c)
              /\ e.count = c.count /\ e.rq = c.rq /\ e.rs = c.rs /\ e.started = c.started
              /\ e.qfailed = c.qfailed /\ e.qclosed = c.qclosed /\ e.rclosed = c.rclosed
<1> DEFINE first == IF c.qfailed < c.rclosed THEN c.qfailed ELSE c.rclosed
           W == {r \in c.pending \cap c.waiting : r >= first}
<1>1. /\ c.qfailed \in Nat /\ c.rclosed \in Nat
      /\ \A r \in c.pending : r \in Nat
  BY HTTPAssumption DEF ServerConnType, Server!Served
<1>2. W = Told(c)
  BY <1>1 DEF Told, LastTurn
<1>3. Server!scheduleAllWaitingResponses(c) =
         [c EXCEPT !.waiting = @ \ W, !.wake = @ \cup W, !.pending = @ \ W]
  BY DEF Server!scheduleAllWaitingResponses
<1>4. W \subseteq Server!Served
  BY DEF ServerConnType
<1> DEFINE e == Server!scheduleAllWaitingResponses(c)
<1> HIDE DEF W, e
<1>5. e = [c EXCEPT !.waiting = @ \ W, !.wake = @ \cup W, !.pending = @ \ W]
  BY <1>3 DEF e
<1>6. /\ c.pending \ W \in SUBSET Server!Served /\ c.waiting \ W \in SUBSET Server!Served
      /\ c.wake \cup W \in SUBSET Server!Served
  BY <1>4 DEF ServerConnType
<1>7. e \in ServerConnType
  BY ONLY c \in ServerConnType, <1>5, <1>6 DEF ServerConnType
<1>8. /\ e.pending = c.pending \ W /\ e.waiting = c.waiting \ W /\ e.wake = c.wake \cup W
      /\ e.count = c.count /\ e.rq = c.rq /\ e.rs = c.rs /\ e.started = c.started
      /\ e.qfailed = c.qfailed /\ e.qclosed = c.qclosed /\ e.rclosed = c.rclosed
  BY ONLY c \in ServerConnType, <1>5 DEF ServerConnType
<1> QED BY <1>2, <1>7, <1>8 DEF e

LEMMA TellingKeeps ==
    ASSUME NEW c \in ServerConnType, NEW q, NEW w,
           \A r \in Server!Served : AlmostOK(c, q[r], w[r], r)
    PROVE  ServerHolds(Server!scheduleAllWaitingResponses(c), q, w)
<1> DEFINE e == Server!scheduleAllWaitingResponses(c)
<1>1. /\ e \in ServerConnType
      /\ e.pending = c.pending \ Told(c) /\ e.waiting = c.waiting \ Told(c)
      /\ e.wake = c.wake \cup Told(c)
      /\ e.count = c.count /\ e.rq = c.rq /\ e.rs = c.rs /\ e.started = c.started
      /\ e.qfailed = c.qfailed /\ e.qclosed = c.qclosed /\ e.rclosed = c.rclosed
  BY TellsThem, Zenon
<1> HIDE DEF e
<1> SUFFICES ASSUME NEW r \in Server!Served PROVE ServerOK(e, q[r], w[r], r)
  BY <1>1 DEF ServerHolds, e
<1>2. AlmostOK(c, q[r], w[r], r)
  OBVIOUS
<1>3. Server!Served \subseteq Nat
  BY HTTPAssumption DEF Server!Served
<1>4. ReadInOrder(e, q[r], r)
  BY <1>1, <1>2, <1>3 DEF AlmostOK, ReadInOrder, Told, ServerConnType, WaitsForTurn
<1>5. InListWhile(e, q[r], r)
  BY <1>1, <1>2, <1>3 DEF AlmostOK, InListWhile, Told, LastTurn, WaitsForTurn, ServerConnType
<1>6. WaitsForTurn(e, q[r], r)
  BY <1>1, <1>2, <1>3 DEF AlmostOK, Told, LastTurn, WaitsForTurn, ServerConnType
<1>7. InTurn(e, q[r], w[r], r)
  BY <1>1, <1>2, <1>3 DEF AlmostOK, InTurn, Told, Responds, NoTurn, Server!IsFirst, WaitsForTurn, ServerConnType
<1>8. r \in e.waiting => ~NoTurn(e, r)
  BY <1>1, <1>2, <1>3 DEF AlmostOK, WaitsForTurn, NoTurn, LastTurn, Told, ServerConnType
<1> QED BY <1>4, <1>5, <1>6, <1>7, <1>8 DEF ServerOK, AlmostOK

\* A request is read after the last one.
LEMMA NextRequestKeeps ==
    ASSUME NEW c, NEW q, NEW w, ServerHolds(c, q, w), NEW s \in Server!Served
    PROVE  ServerHolds(Server!scheduleNextRequest(c, s), q, w)
<1> DEFINE e == Server!scheduleNextRequest(c, s)
<1>1. CASE e = c
  BY <1>1
<1>2. CASE e # c
  <2>1. /\ s = c.count /\ c.rq[s] = Server!COMPLETE /\ s < MaxServed
        /\ e = [c EXCEPT !.count = s + 1, !.pending = @ \cup {s + 1}, !.started = @ \cup {s + 1}]
    BY <1>2 DEF Server!scheduleNextRequest
  <2>2. Server!Served \subseteq Nat /\ s + 1 \in Server!Served
    BY <2>1, HTTPAssumption DEF Server!Served
  <2>3. c \in ServerConnType
    BY DEF ServerHolds
  <2>4. /\ e \in ServerConnType
        /\ e.pending = c.pending \cup {s + 1} /\ e.waiting = c.waiting /\ e.wake = c.wake
        /\ e.count = s + 1 /\ e.rq = c.rq /\ e.rs = c.rs /\ e.started = c.started \cup {s + 1}
        /\ e.qfailed = c.qfailed /\ e.qclosed = c.qclosed /\ e.rclosed = c.rclosed
    <3> HIDE DEF e
    <3>1. s + 1 \in Nat
      BY <2>2
    <3> QED BY <2>1, <2>2, <2>3, <3>1 DEF ServerConnType
  <2> HIDE DEF e
  <2> SUFFICES ASSUME NEW r \in Server!Served PROVE ServerOK(e, q[r], w[r], r)
    BY <2>4 DEF ServerHolds, e
  <2>5. ServerOK(c, q[r], w[r], r) /\ ServerOK(c, q[s], w[s], s)
    BY DEF ServerHolds
  <2>6. ReadInOrder(e, q[r], r)
    BY <2>1, <2>2, <2>3, <2>4, <2>5 DEF ServerOK, AlmostOK, ReadInOrder, ServerConnType
  <2>7. InListWhile(e, q[r], r)
    BY <2>1, <2>2, <2>3, <2>4, <2>5 DEF ServerOK, AlmostOK, ReadInOrder, InListWhile, LastTurn, ServerConnType
  <2>8. WaitsForTurn(e, q[r], r) /\ (r \in e.waiting => ~NoTurn(e, r))
    BY <2>2, <2>4, <2>5 DEF ServerOK, AlmostOK, WaitsForTurn, LastTurn, NoTurn
  <2>9. InTurn(e, q[r], w[r], r)
    BY <2>1, <2>2, <2>3, <2>4, <2>5
       DEF ServerOK, AlmostOK, ReadInOrder, InTurn, Responds, NoTurn, Server!IsFirst, ServerConnType
  <2> QED BY <2>6, <2>7, <2>8, <2>9 DEF ServerOK, AlmostOK
<1> QED BY <1>1, <1>2

\* When a response may be written, all before it are over: whoever has left the list
\* without one has no turn, and nobody after it has.
LEMMA TurnComes ==
    ASSUME NEW c, NEW q, NEW w, ServerHolds(c, q, w), NEW r \in Server!Served,
           Server!IsFirst(c, r), ~NoTurn(c, r)
    PROVE  \A s \in 1 .. r - 1 : c.rs[s] >= Server!COMPLETE
<1> SUFFICES ASSUME NEW s \in 1 .. r - 1 PROVE c.rs[s] >= Server!COMPLETE
  OBVIOUS
<1>1. s \in Server!Served /\ s \in Nat /\ r \in Nat /\ s < r
  BY HTTPAssumption DEF Server!Served
<1>2. ServerOK(c, q[r], w[r], r) /\ ServerOK(c, q[s], w[s], s) /\ c \in ServerConnType
  BY <1>1 DEF ServerHolds
<1>3. s \notin c.pending /\ s <= c.count
  BY <1>1, <1>2 DEF Server!IsFirst, ServerOK, AlmostOK, ReadInOrder, ServerConnType
<1>4. ~LastTurn(c, s)
  BY <1>1, <1>2 DEF NoTurn, LastTurn, ServerConnType
<1>5. c.rs[s] \in Nat
  BY <1>1, <1>2 DEF ServerConnType
<1> QED BY <1>2, <1>3, <1>4, <1>5 DEF ServerOK, AlmostOK, InListWhile

\* The first in the list may be woken to respond.
LEMMA StartKeeps ==
    ASSUME NEW c, NEW q, NEW w, ServerHolds(c, q, w), NEW s,
           s \in c.waiting => Server!IsFirst(c, s)
    PROVE  ServerHolds(Server!StartResponse(c, s), q, w)
<1> DEFINE e == Server!StartResponse(c, s)
<1>1. CASE s \notin c.waiting
  BY <1>1 DEF Server!StartResponse
<1>2. CASE s \in c.waiting
  <2>1. c \in ServerConnType /\ s \in Server!Served /\ Server!Served \subseteq Nat
    BY <1>2, HTTPAssumption DEF ServerHolds, ServerConnType, Server!Served
  <2>2. /\ e \in ServerConnType
        /\ e.pending = c.pending /\ e.waiting = c.waiting \ {s} /\ e.wake = c.wake \cup {s}
        /\ e.count = c.count /\ e.rq = c.rq /\ e.rs = [c.rs EXCEPT ![s] = Server!HEADERS]
        /\ e.started = c.started
        /\ e.qfailed = c.qfailed /\ e.qclosed = c.qclosed /\ e.rclosed = c.rclosed
    <3>1. e = [c EXCEPT !.waiting = @ \ {s}, !.rs[s] = Server!HEADERS, !.wake = @ \cup {s}]
      BY <1>2 DEF Server!StartResponse
    <3> HIDE DEF e
    <3>2. c.rs \in [Server!Served -> 0..5] /\ [c.rs EXCEPT ![s] = Server!HEADERS] \in [Server!Served -> 0..5]
      BY <2>1 DEF ServerConnType
    <3> QED BY <2>1, <3>1, <3>2 DEF ServerConnType
  <2> HIDE DEF e
  <2> SUFFICES ASSUME NEW r \in Server!Served PROVE ServerOK(e, q[r], w[r], r)
    BY <2>2 DEF ServerHolds, e
  <2>3. ServerOK(c, q[r], w[r], r) /\ ServerOK(c, q[s], w[s], s)
    BY <2>1 DEF ServerHolds
  <2>4. \A t \in 1 .. s - 1 : c.rs[t] >= Server!COMPLETE
    BY <1>2, <2>1, <2>3, TurnComes DEF ServerOK
  <2>5. /\ c.rs \in [Server!Served -> 0..5] /\ e.rs[s] = Server!HEADERS /\ c.rs[s] = Server!WAITING
        /\ \A t \in Server!Served \ {s} : e.rs[t] = c.rs[t]
    BY <1>2, <2>1, <2>2, <2>3 DEF ServerConnType, ServerOK, AlmostOK, WaitsForTurn
  <2>6. ReadInOrder(e, q[r], r)
    BY <1>2, <2>1, <2>2, <2>3, <2>5 DEF ServerOK, AlmostOK, ReadInOrder, WaitsForTurn, ServerConnType
  <2>7. InListWhile(e, q[r], r)
    BY <1>2, <2>1, <2>2, <2>3, <2>5 DEF ServerOK, AlmostOK, InListWhile, LastTurn, WaitsForTurn, ServerConnType
  <2>8. WaitsForTurn(e, q[r], r) /\ (r \in e.waiting => ~NoTurn(e, r))
    BY <1>2, <2>1, <2>2, <2>3, <2>5 DEF ServerOK, AlmostOK, WaitsForTurn, LastTurn, NoTurn
  <2>9. InTurn(e, q[r], w[r], r)
    <3>1. CASE r = s
      BY <3>1, <1>2, <2>1, <2>2, <2>3, <2>4, <2>5
         DEF ServerOK, AlmostOK, InTurn, WaitsForTurn, Responds, NoTurn, Server!IsFirst
    <3>2. CASE r # s
      <4>1. ASSUME NEW t \in 1 .. r - 1, c.rs[t] >= Server!COMPLETE PROVE e.rs[t] >= Server!COMPLETE
        <5>1. t \in Server!Served
          BY HTTPAssumption DEF Server!Served
        <5> QED BY <4>1, <5>1, <2>5
      <4> QED BY <3>2, <2>1, <2>2, <2>3, <2>5, <4>1
         DEF ServerOK, AlmostOK, InTurn, Responds, NoTurn, Server!IsFirst
    <3> QED BY <3>1, <3>2
  <2> QED BY <2>6, <2>7, <2>8, <2>9 DEF ServerOK, AlmostOK
<1> QED BY <1>1, <1>2

\* Between the records c and d only what belongs to request s changes, and the marks for
\* those that have no turn can only come down.
OnlyOf(c, d, s) ==
    /\ d \in ServerConnType /\ d.count = c.count /\ d.started = c.started
    /\ d.pending \subseteq c.pending /\ c.pending \subseteq d.pending \cup {s}
    /\ \A r \in Server!Served \ {s} :
          /\ r \in d.waiting <=> r \in c.waiting
          /\ r \in d.wake <=> r \in c.wake
          /\ d.rq[r] = c.rq[r] /\ d.rs[r] = c.rs[r]
    /\ c.rs[s] >= Server!COMPLETE => d.rs[s] >= Server!COMPLETE
    /\ d.qfailed <= c.qfailed /\ d.rclosed <= c.rclosed

LEMMA OthersAlmost ==
    ASSUME NEW c, NEW q, NEW w, ServerHolds(c, q, w), NEW s \in Server!Served,
           NEW d, OnlyOf(c, d, s), NEW r \in Server!Served, r # s,
           Responds(c, q[r], r) => ~NoTurn(d, r)
    PROVE  AlmostOK(d, q[r], w[r], r)
<1>1. c \in ServerConnType /\ d \in ServerConnType /\ Server!Served \subseteq Nat
  BY HTTPAssumption DEF ServerHolds, OnlyOf, Server!Served
<1>2. ServerOK(c, q[r], w[r], r)
  BY DEF ServerHolds
<1>3. /\ c.qfailed \in Nat /\ d.qfailed \in Nat /\ c.rclosed \in Nat /\ d.rclosed \in Nat /\ r \in Nat
      /\ c.count \in Nat /\ d.count = c.count /\ d.started = c.started
      /\ r \in d.pending <=> r \in c.pending
      /\ r \in d.waiting <=> r \in c.waiting
      /\ r \in d.wake <=> r \in c.wake
      /\ d.rq[r] = c.rq[r] /\ d.rs[r] = c.rs[r]
      /\ d.qfailed <= c.qfailed /\ d.rclosed <= c.rclosed
  BY <1>1 DEF OnlyOf, ServerConnType
<1>4. LastTurn(c, r) => LastTurn(d, r)
  BY <1>3 DEF LastTurn
<1>5. ReadInOrder(d, q[r], r)
  BY <1>2, <1>3 DEF ServerOK, AlmostOK, ReadInOrder
<1>6. InListWhile(d, q[r], r)
  BY <1>2, <1>3, <1>4 DEF ServerOK, AlmostOK, InListWhile
<1>7. WaitsForTurn(d, q[r], r)
  BY <1>2, <1>3, <1>4 DEF ServerOK, AlmostOK, WaitsForTurn
<1>8. InTurn(d, q[r], w[r], r)
  <2>1. Responds(d, q[r], r) <=> Responds(c, q[r], r)
    BY <1>3 DEF Responds
  <2>2. Server!IsFirst(c, r) => Server!IsFirst(d, r)
    BY <1>3 DEF Server!IsFirst, OnlyOf
  <2>3. ASSUME NEW t \in 1 .. r - 1, c.rs[t] >= Server!COMPLETE PROVE d.rs[t] >= Server!COMPLETE
    <3>1. t \in Server!Served
      BY HTTPAssumption DEF Server!Served
    <3> QED BY <2>3, <3>1 DEF OnlyOf
  <2> QED BY <1>2, <1>3, <2>1, <2>2, <2>3 DEF ServerOK, AlmostOK, InTurn
<1> QED BY <1>5, <1>6, <1>7, <1>8 DEF AlmostOK

\* A step of request s, in the middle of a critical section ...
LEMMA ServerMovesAlmost ==
    ASSUME NEW c, NEW q, NEW w, ServerHolds(c, q, w), NEW s \in Server!Served,
           NEW d, OnlyOf(c, d, s), NEW qq, NEW ww,
           \A r \in Server!Served \ {s} : qq[r] = q[r] /\ ww[r] = w[r],
           \A r \in Server!Served \ {s} : Responds(c, q[r], r) => ~NoTurn(d, r),
           AlmostOK(d, qq[s], ww[s], s)
    PROVE  \A r \in Server!Served : AlmostOK(d, qq[r], ww[r], r)
<1> SUFFICES ASSUME NEW r \in Server!Served, r # s PROVE AlmostOK(d, qq[r], ww[r], r)
  OBVIOUS
<1>1. AlmostOK(d, q[r], w[r], r)
  BY OthersAlmost
<1> QED BY <1>1

\* ... and a whole one, which leaves the marks alone.
LEMMA ServerMoves ==
    ASSUME NEW c, NEW q, NEW w, ServerHolds(c, q, w), NEW s \in Server!Served,
           NEW d, OnlyOf(c, d, s), d.qfailed = c.qfailed, d.rclosed = c.rclosed, NEW qq, NEW ww,
           \A r \in Server!Served \ {s} : qq[r] = q[r] /\ ww[r] = w[r],
           ServerOK(d, qq[s], ww[s], s)
    PROVE  ServerHolds(d, qq, ww)
<1>1. \A r \in Server!Served : ServerOK(c, q[r], w[r], r)
  BY DEF ServerHolds
<1>2. \A r \in Server!Served \ {s} : Responds(c, q[r], r) => ~NoTurn(d, r)
  BY <1>1 DEF ServerOK, AlmostOK, InTurn, NoTurn
<1>3. \A r \in Server!Served : AlmostOK(d, qq[r], ww[r], r)
  BY <1>2, ServerMovesAlmost DEF ServerOK
<1>4. \A r \in Server!Served \ {s} : r \in d.waiting => ~NoTurn(d, r)
  BY <1>1 DEF ServerOK, NoTurn, OnlyOf
<1> QED BY <1>3, <1>4 DEF ServerHolds, ServerOK, OnlyOf

\* cancel(): whoever responds is before the request or has no turn.
LEMMA CancelKeeps ==
    ASSUME ServerInv, NEW s \in Server!Served, NEW to \in {"ending", "gone"}, Server!Cancels(s, to),
           serverAt[s] # "waiting", s <= serverConn.count
    PROVE  ServerInv'
<1> DEFINE c == serverConn
           d == [Server!Erase(c, s) EXCEPT !.rq[s] = IF @ < Server!COMPLETE THEN Server!ERROR ELSE @,
                                           !.rs[s] = IF @ < Server!COMPLETE THEN Server!ERROR ELSE @]
           e == Server!Failed(d, s)
<1>1. /\ serverAt' = [serverAt EXCEPT ![s] = to] /\ UNCHANGED m_willClose
      /\ serverConn' = Server!cancel(s)
  BY DEF Server!Cancels, Server!Go
<1>2. /\ serverAt' \in [Server!Served -> ServerPlaces] /\ m_willClose' \in [Server!Served -> BOOLEAN]
      /\ \A r \in Server!Served \ {s} : serverAt'[r] = serverAt[r] /\ m_willClose'[r] = m_willClose[r]
      /\ serverAt'[s] = to
  BY <1>1 DEF ServerInv, ServerPlaces
<1>3. /\ ServerHolds(c, serverAt, m_willClose) /\ c \in ServerConnType
      /\ \A r \in Server!Served : ServerOK(c, serverAt[r], m_willClose[r], r)
      /\ Server!Served \subseteq Nat
  BY HTTPAssumption DEF ServerInv, ServerHolds, Server!Served
<1>4. /\ c.rq[s] \in Nat /\ c.rs[s] \in Nat /\ c.qfailed \in Nat /\ c.rclosed \in Nat
      /\ c.rq \in [Server!Served -> 0..5] /\ c.rs \in [Server!Served -> 0..5]
      /\ s \notin c.waiting /\ s \notin c.wake
  BY <1>3 DEF ServerConnType, ServerOK, AlmostOK, WaitsForTurn
<1> SUFFICES ServerHolds(serverConn', serverAt', m_willClose')
  BY <1>2 DEF ServerInv
<1>5. CASE Server!Over(s)
  <2>1. serverConn' = c
    BY <1>1, <1>5 DEF Server!cancel
  <2>2. OnlyOf(c, c, s)
    BY <1>3, <1>4 DEF OnlyOf
  <2>3. ServerOK(c, to, m_willClose[s], s)
    BY <1>3, <1>4, <1>5 DEF ServerOK, AlmostOK, ReadInOrder, InListWhile, WaitsForTurn, InTurn, Responds, LastTurn,
       Server!Over
  <2>4. ServerOK(c, serverAt'[s], m_willClose'[s], s)
    BY <1>1, <1>2, <2>3
  <2>5. ServerHolds(c, serverAt', m_willClose')
    BY <1>2, <1>3, <2>2, <2>4, ServerMoves
  <2> QED BY <2>1, <2>5
<1>6. CASE ~Server!Over(s)
  <2>1. serverConn' = Server!scheduleAllWaitingResponses(e)
    BY <1>1, <1>6 DEF Server!cancel
  <2>2. /\ d \in ServerConnType /\ d.count = c.count /\ d.started = c.started
        /\ d.pending = c.pending \ {s} /\ d.waiting = c.waiting /\ d.wake = c.wake
        /\ \A r \in Server!Served \ {s} : d.rq[r] = c.rq[r] /\ d.rs[r] = c.rs[r]
        /\ d.rq[s] >= Server!COMPLETE /\ d.rs[s] >= Server!COMPLETE
        /\ d.qfailed = c.qfailed /\ d.rclosed = c.rclosed
    <3> DEFINE a == IF c.rq[s] < Server!COMPLETE THEN Server!ERROR ELSE c.rq[s]
               b == IF c.rs[s] < Server!COMPLETE THEN Server!ERROR ELSE c.rs[s]
    <3>0. a \in 0..5 /\ b \in 0..5 /\ a >= Server!COMPLETE /\ b >= Server!COMPLETE
      BY <1>4
    <3>1. d = [c EXCEPT !.pending = @ \ {s}, !.rq[s] = a, !.rs[s] = b]
      BY <1>3 DEF ServerConnType, Server!Erase
    <3> HIDE DEF d, a, b
    <3>2. /\ d.count = c.count /\ d.started = c.started
          /\ d.pending = c.pending \ {s} /\ d.waiting = c.waiting /\ d.wake = c.wake
          /\ d.qfailed = c.qfailed /\ d.rclosed = c.rclosed
          /\ d.rq = [c.rq EXCEPT ![s] = a] /\ d.rs = [c.rs EXCEPT ![s] = b]
      BY <1>3, <3>1 DEF ServerConnType
    <3>3. d \in ServerConnType
      BY <1>3, <1>4, <3>0, <3>1 DEF ServerConnType
    <3> QED BY <1>4, <3>0, <3>2, <3>3
  <2> HIDE DEF d
  <2>3. /\ e \in ServerConnType /\ e.count = c.count /\ e.started = c.started
        /\ e.pending = c.pending \ {s} /\ e.waiting = c.waiting /\ e.wake = c.wake
        /\ e.rq = d.rq /\ e.rs = d.rs /\ e.rclosed = c.rclosed
        /\ e.qfailed = IF s < c.qfailed THEN s ELSE c.qfailed
    BY <1>3, <1>4, <2>2 DEF ServerConnType, Server!Failed
  <2> HIDE DEF e
  <2>4. OnlyOf(c, e, s)
    BY <1>3, <1>4, <2>2, <2>3 DEF OnlyOf
  <2>5. ASSUME NEW r \in Server!Served \ {s}, Responds(c, serverAt[r], r) PROVE ~NoTurn(e, r)
    <3>1. ~NoTurn(c, r) /\ (\A t \in 1 .. r - 1 : c.rs[t] >= Server!COMPLETE) /\ r \in c.pending
      BY <1>3, <2>5 DEF ServerOK, AlmostOK, InTurn, Server!IsFirst
    <3>2. CASE r < s
      BY <3>1, <3>2, <1>3, <1>4, <2>3 DEF NoTurn
    <3>3. CASE s < r
      <4>1. s \in 1 .. r - 1 /\ s < c.count
        BY <1>3, <3>1, <3>3 DEF ServerOK, AlmostOK, ReadInOrder, Server!Served, ServerConnType
      <4> QED BY <1>3, <1>6, <3>1, <4>1 DEF ServerOK, AlmostOK, ReadInOrder, Server!Over
    <3> QED BY <1>3, <3>2, <3>3
  <2>6. AlmostOK(e, to, m_willClose[s], s)
    <3>1. /\ e.rq[s] >= Server!COMPLETE /\ e.rs[s] >= Server!COMPLETE /\ s \notin e.pending
          /\ s \notin e.waiting /\ s \notin e.wake /\ s <= e.count
          /\ e.rs[s] \in Nat /\ e.rq[s] \in Nat /\ s \in Nat /\ e.count \in Nat
      BY <1>3, <1>4, <2>2, <2>3 DEF ServerConnType
    <3>2. ReadInOrder(e, to, s) /\ InListWhile(e, to, s) /\ WaitsForTurn(e, to, s)
      BY <3>1 DEF ReadInOrder, InListWhile, WaitsForTurn
    <3>3. InTurn(e, to, m_willClose[s], s)
      BY <3>1 DEF InTurn, Responds
    <3> QED BY <3>2, <3>3 DEF AlmostOK
  <2>7. \A r \in Server!Served : AlmostOK(e, serverAt'[r], m_willClose'[r], r)
    BY <1>1, <1>2, <1>3, <2>4, <2>5, <2>6, ServerMovesAlmost, Zenon
  <2> QED BY <2>1, <2>3, <2>7, TellingKeeps
<1> QED BY <1>5, <1>6

\* The record after a step that gives request s the states a and b.
Becomes(c, d, s, P, W, K, a, b) ==
    /\ d \in ServerConnType /\ d.count = c.count /\ d.started = c.started
    /\ d.pending = P /\ d.waiting = W /\ d.wake = K
    /\ d.rq[s] = a /\ d.rs[s] = b
    /\ \A r \in Server!Served \ {s} : d.rq[r] = c.rq[r] /\ d.rs[r] = c.rs[r]
    /\ d.qfailed = c.qfailed /\ d.rclosed = c.rclosed

\* A step is one of request s.
StepOf(s) ==
    /\ serverAt' \in [Server!Served -> ServerPlaces] /\ m_willClose' \in [Server!Served -> BOOLEAN]
    /\ \A r \in Server!Served \ {s} : serverAt'[r] = serverAt[r] /\ m_willClose'[r] = m_willClose[r]

LEMMA MoveKeeps ==
    ASSUME ServerInv, NEW s \in Server!Served, NEW a, NEW b, NEW d,
           NEW P \in {serverConn.pending, serverConn.pending \ {s}},
           NEW W \in {serverConn.waiting, serverConn.waiting \cup {s}},
           NEW K \in {serverConn.wake, serverConn.wake \ {s}},
           Becomes(serverConn, d, s, P, W, K, a, b),
           serverConn.rs[s] >= Server!COMPLETE => b >= Server!COMPLETE,
           StepOf(s), ServerOK(d, serverAt'[s], m_willClose'[s], s)
    PROVE  ServerHolds(d, serverAt', m_willClose')
<1>1. ServerHolds(serverConn, serverAt, m_willClose) /\ serverConn \in ServerConnType
  BY DEF ServerInv, ServerHolds
<1>2. OnlyOf(serverConn, d, s)
  <2>1. P \subseteq serverConn.pending /\ serverConn.pending \subseteq P \cup {s}
    OBVIOUS
  <2>2. \A r \in Server!Served \ {s} : (r \in W <=> r \in serverConn.waiting) /\ (r \in K <=> r \in serverConn.wake)
    OBVIOUS
  <2> QED BY <1>1, <2>1, <2>2 DEF OnlyOf, Becomes, ServerConnType
<1>3. d.qfailed = serverConn.qfailed /\ d.rclosed = serverConn.rclosed
  BY DEF Becomes
<1>4. \A r \in Server!Served \ {s} : serverAt'[r] = serverAt[r] /\ m_willClose'[r] = m_willClose[r]
  BY DEF StepOf
<1> HIDE DEF ServerInv
<1> QED BY ONLY <1>1, <1>2, <1>3, <1>4, ServerMoves, s \in Server!Served,
                ServerOK(d, serverAt'[s], m_willClose'[s], s)

LEMMA Moved ==
    ASSUME ServerInv, NEW s \in Server!Served, NEW a, NEW b,
           NEW P \in {serverConn.pending, serverConn.pending \ {s}},
           NEW W \in {serverConn.waiting, serverConn.waiting \cup {s}},
           NEW K \in {serverConn.wake, serverConn.wake \ {s}},
           Becomes(serverConn, serverConn', s, P, W, K, a, b),
           serverConn.rs[s] >= Server!COMPLETE => b >= Server!COMPLETE,
           StepOf(s), ServerOK(serverConn', serverAt'[s], m_willClose'[s], s)
    PROVE  ServerInv'
<1>1. ServerHolds(serverConn, serverAt, m_willClose) /\ serverConn \in ServerConnType
  BY DEF ServerInv, ServerHolds
<1>2. OnlyOf(serverConn, serverConn', s)
  <2>1. P \subseteq serverConn.pending /\ serverConn.pending \subseteq P \cup {s}
    OBVIOUS
  <2>2. \A r \in Server!Served \ {s} : (r \in W <=> r \in serverConn.waiting) /\ (r \in K <=> r \in serverConn.wake)
    OBVIOUS
  <2> QED BY <1>1, <2>1, <2>2 DEF OnlyOf, Becomes, ServerConnType
<1>3. serverConn'.qfailed = serverConn.qfailed /\ serverConn'.rclosed = serverConn.rclosed
  BY DEF Becomes
<1>4. \A r \in Server!Served \ {s} : serverAt'[r] = serverAt[r] /\ m_willClose'[r] = m_willClose[r]
  BY DEF StepOf
<1>5. ServerHolds(serverConn', serverAt', m_willClose')
  BY ONLY <1>1, <1>2, <1>3, <1>4, ServerMoves, s \in Server!Served,
          ServerOK(serverConn', serverAt'[s], m_willClose'[s], s)
<1> QED BY <1>5 DEF ServerInv, StepOf

LEMMA Goes ==
    ASSUME ServerInv, NEW s \in Server!Served, NEW to \in ServerPlaces, Server!Go(s, to), UNCHANGED m_willClose
    PROVE  StepOf(s) /\ serverAt'[s] = to /\ m_willClose'[s] = m_willClose[s]
BY DEF ServerInv, StepOf, Server!Go

LEMMA StaysThere ==
    ASSUME ServerInv, NEW s, UNCHANGED <<serverAt, m_willClose>> PROVE StepOf(s)
BY DEF ServerInv, StepOf

\* What the invariant says of one request, and of the types of its parts.
ServerFacts(c, s) ==
    /\ c \in ServerConnType
    /\ s \in Nat /\ c.count \in Nat
    /\ c.rq \in [Server!Served -> 0..5] /\ c.rs \in [Server!Served -> 0..5]
    /\ c.rq[s] \in 0..5 /\ c.rs[s] \in 0..5
    /\ c.qfailed \in Nat /\ c.qclosed \in Nat /\ c.rclosed \in Nat
    /\ c.pending \subseteq Server!Served /\ c.waiting \subseteq Server!Served
    /\ c.wake \subseteq Server!Served
    /\ 0 \in 0..5 /\ 1 \in 0..5 /\ 2 \in 0..5 /\ 3 \in 0..5 /\ 4 \in 0..5 /\ 5 \in 0..5

LEMMA ServerKnows ==
    ASSUME ServerInv, NEW s \in Server!Served
    PROVE  ServerFacts(serverConn, s) /\ ServerOK(serverConn, serverAt[s], m_willClose[s], s)
BY HTTPAssumption DEF ServerInv, ServerHolds, ServerConnType, Server!Served, ServerFacts

LEMMA ReadBadKeeps ==
    ASSUME ServerInv, NEW s \in Server!Served, Server!ReadBad(s) PROVE ServerInv'
<1> DEFINE c == serverConn
<1>1. ServerFacts(c, s) /\ ServerOK(c, serverAt[s], m_willClose[s], s)
  BY ServerKnows
<1>2. PICK parsed \in BOOLEAN, close \in BOOLEAN :
         /\ serverConn' = [c EXCEPT !.rq[s] = Server!ERROR, !.qclosed = IF parsed THEN @ ELSE s]
         /\ m_willClose' = [m_willClose EXCEPT ![s] = close]
  BY DEF Server!ReadBad
<1>3. s \in c.started /\ serverAt[s] = "none" /\ serverAt' = [serverAt EXCEPT ![s] = "handler"]
  BY DEF Server!ReadBad, Server!Go
<1>4. Becomes(c, serverConn', s, c.pending, c.waiting, c.wake, Server!ERROR, c.rs[s])
  <2> DEFINE n == IF parsed THEN c.qclosed ELSE s
  <2>1. n \in Nat /\ serverConn' = [c EXCEPT !.rq[s] = Server!ERROR, !.qclosed = n]
    BY <1>1, <1>2 DEF ServerFacts
  <2> HIDE DEF n
  <2>2. serverConn' \in ServerConnType
    BY <1>1, <2>1 DEF ServerFacts, ServerConnType
  <2> QED BY <1>1, <2>1, <2>2 DEF ServerFacts, Becomes, ServerConnType
<1>5. StepOf(s) /\ serverAt'[s] = "handler" /\ m_willClose'[s] = close
  BY <1>2, <1>3 DEF ServerInv, StepOf, ServerPlaces
<1>6. ServerOK(serverConn', "handler", close, s)
  BY <1>1, <1>3, <1>4 DEF ServerFacts, Becomes, ServerOK, AlmostOK, ReadInOrder, InListWhile, WaitsForTurn, InTurn,
     Responds, NoTurn, LastTurn
<1> QED BY <1>4, <1>5, <1>6, Moved


LEMMA ProcessKeeps == ASSUME ServerInv, Server!processRequests PROVE ServerInv'
<1> DEFINE c == serverConn
           d == serverConn'
<1>1. /\ c.count = 0 /\ d = [c EXCEPT !.count = 1, !.pending = {1}, !.started = {1}]
      /\ UNCHANGED <<serverAt, m_willClose>>
  BY DEF Server!processRequests
<1>2. c \in ServerConnType /\ 1 \in Server!Served /\ Server!Served \subseteq Nat
  BY HTTPAssumption DEF ServerInv, ServerHolds, Server!Served
<1>3. d \in ServerConnType
  BY <1>1, <1>2 DEF ServerConnType
<1>4. /\ d.count = 1 /\ d.pending = {1} /\ d.started = {1} /\ d.waiting = c.waiting
      /\ d.wake = c.wake /\ d.rq = c.rq /\ d.rs = c.rs
  BY <1>1, <1>2 DEF ServerConnType
<1>5. ASSUME NEW r \in Server!Served PROVE ServerOK(d, serverAt[r], m_willClose[r], r)
  <2>1. ServerFacts(c, r) /\ ServerOK(c, serverAt[r], m_willClose[r], r)
    BY ServerKnows
  <2>2. r \in Nat /\ r > 0
    BY HTTPAssumption DEF Server!Served
  <2>3. /\ serverAt[r] = "none" /\ c.rq[r] = Server!HEADERS /\ c.rs[r] = Server!PENDING
        /\ r \notin c.waiting /\ r \notin c.wake
    BY <1>1, <2>1, <2>2 DEF ServerOK, AlmostOK, ReadInOrder, WaitsForTurn
  <2> HIDE DEF d
  <2>4. ReadInOrder(d, serverAt[r], r) /\ InListWhile(d, serverAt[r], r) /\ WaitsForTurn(d, serverAt[r], r)
    BY <1>4, <2>2, <2>3 DEF ReadInOrder, InListWhile, WaitsForTurn
  <2>5. InTurn(d, serverAt[r], m_willClose[r], r)
    BY <1>4, <2>2, <2>3 DEF InTurn, Responds
  <2> QED BY <2>4, <2>5, <2>3, <1>4 DEF ServerOK, AlmostOK
<1> QED BY <1>1, <1>3, <1>5 DEF ServerInv, ServerHolds

LEMMA ReadEndsKeeps ==
    ASSUME ServerInv, NEW s \in Server!Served, Server!ReadEnds(s) PROVE ServerInv'
<1>1. ServerFacts(serverConn, s) /\ ServerOK(serverConn, serverAt[s], m_willClose[s], s)
  BY ServerKnows
<1>2. s \in serverConn.started /\ serverAt[s] = "none" /\ Server!Cancels(s, "ending")
  BY DEF Server!ReadEnds
<1>3. s <= serverConn.count
  BY <1>1, <1>2 DEF ServerOK, AlmostOK, ReadInOrder
<1> QED BY <1>2, <1>3, CancelKeeps

\* A request that has been seen is one of the first count.
LEMMA Counted ==
    ASSUME ServerInv, NEW s \in Server!Served, serverAt[s] # "none" PROVE s <= serverConn.count
<1>1. ServerFacts(serverConn, s) /\ ServerOK(serverConn, serverAt[s], m_willClose[s], s)
  BY ServerKnows
<1> QED BY <1>1 DEF ServerFacts, ServerOK, AlmostOK, ReadInOrder

LEMMA CancelsKeep ==
    ASSUME ServerInv, NEW s \in Server!Served,
           \/ Server!RequestBodyFails(s) \/ Server!ResponseCancelled(s) \/ Server!Destroy(s)
           \/ Server!CloseFails(s) /\ m_willClose[s]
    PROVE  ServerInv'
<1>1. PICK to \in {"ending", "gone"} : Server!Cancels(s, to) /\ serverAt[s] \in {"handler", "ending", "completing"}
  BY DEF Server!RequestBodyFails, Server!ResponseCancelled, Server!Destroy, Server!CloseFails
<1>2. serverAt[s] # "waiting" /\ serverAt[s] # "none"
  BY <1>1
<1> QED BY <1>1, <1>2, Counted, CancelKeeps


\* requestComplete(): the request leaves the list if it was answered before it was read.
LEMMA RequestCompleteKeeps ==
    ASSUME ServerInv, NEW s \in Server!Served, NEW close \in BOOLEAN,
           serverAt[s] \in {"none", "handler"}, serverConn.rq[s] < Server!COMPLETE,
           s \in serverConn.pending, StepOf(s), serverAt'[s] = "handler",
           serverAt[s] = "handler" => m_willClose'[s] = m_willClose[s]
    PROVE  ServerHolds(Server!requestComplete(serverConn, s, close), serverAt', m_willClose')
<1> DEFINE c == serverConn
           n == IF close THEN s ELSE c.qclosed
           done == [c EXCEPT !.rq[s] = Server!COMPLETE, !.qclosed = n]
           P == IF c.rs[s] >= Server!COMPLETE THEN c.pending \ {s} ELSE c.pending
           d == Server!EraseIf(done, s, c.rs[s] >= Server!COMPLETE)
<1>1. ServerFacts(c, s) /\ ServerOK(c, serverAt[s], m_willClose[s], s)
  BY ServerKnows
<1>2. \/ Server!requestComplete(c, s, close) = d
      \/ Server!requestComplete(c, s, close) = Server!scheduleNextRequest(d, s)
  <2>1. done = [c EXCEPT !.rq[s] = Server!COMPLETE, !.qclosed = IF close THEN s ELSE @]
    BY <1>1 DEF ServerFacts, ServerConnType
  <2> QED BY <2>1 DEF Server!requestComplete
<1>3. P \in {c.pending, c.pending \ {s}}
  OBVIOUS
<1>4. Becomes(c, d, s, P, c.waiting, c.wake, Server!COMPLETE, c.rs[s])
  <2>1. n \in Nat
    BY <1>1 DEF ServerFacts
  <2> HIDE DEF n
  <2>2. done \in ServerConnType
    BY <1>1, <2>1 DEF ServerFacts, ServerConnType
  <2>3. Becomes(c, done, s, c.pending, c.waiting, c.wake, Server!COMPLETE, c.rs[s])
    BY <1>1, <2>2 DEF ServerFacts, ServerConnType, Becomes
  <2> HIDE DEF done
  <2>4. d = IF c.rs[s] >= Server!COMPLETE THEN [done EXCEPT !.pending = c.pending \ {s}] ELSE done
    BY <2>2, <2>3 DEF Server!EraseIf, Server!Erase, Becomes, ServerConnType
  <2> HIDE DEF d
  <2>5. CASE c.rs[s] >= Server!COMPLETE
    <3>1. d \in ServerConnType
      BY <1>1, <2>2, <2>4, <2>5 DEF ServerFacts, ServerConnType
    <3> QED BY <2>2, <2>3, <2>4, <2>5, <3>1 DEF Becomes, ServerConnType
  <2> QED BY <2>3, <2>4, <2>5
<1> HIDE DEF d, done
<1>5. ServerOK(d, "handler", m_willClose'[s], s)
  <2>1. ReadInOrder(d, "handler", s) /\ InListWhile(d, "handler", s)
    BY <1>1, <1>4 DEF ServerFacts, Becomes, ServerOK, AlmostOK, ReadInOrder, InListWhile, LastTurn
  <2>2. WaitsForTurn(d, "handler", s) /\ s \notin d.waiting
    BY <1>1, <1>4 DEF ServerFacts, Becomes, ServerOK, AlmostOK, WaitsForTurn
  <2>3. ASSUME Responds(d, "handler", s) PROVE serverAt[s] = "handler" /\ Responds(c, serverAt[s], s)
    BY <2>3, <1>1, <1>4 DEF ServerFacts, Becomes, ServerOK, AlmostOK, ReadInOrder, Responds
  <2>4. ASSUME NEW t \in 1 .. s - 1, c.rs[t] >= Server!COMPLETE PROVE d.rs[t] >= Server!COMPLETE
    <3>1. t \in Server!Served \ {s}
      BY <1>1, HTTPAssumption DEF Server!Served, ServerFacts
    <3> QED BY <2>4, <3>1, <1>4 DEF Becomes
  <2>5. InTurn(d, "handler", m_willClose'[s], s)
    <3>1. d.rs[s] = c.rs[s] /\ d.rclosed = c.rclosed /\ d.qfailed = c.qfailed /\ d.pending = P
      BY <1>4 DEF Becomes
    <3>2. Server!IsFirst(c, s) /\ s \in d.pending => Server!IsFirst(d, s)
      BY <3>1 DEF Server!IsFirst
    <3>3. ASSUME Responds(d, "handler", s) PROVE Server!IsFirst(d, s) /\ ~NoTurn(d, s)
                 /\ \A t \in 1 .. s - 1 : d.rs[t] >= Server!COMPLETE
      <4>1. c.rs[s] < Server!COMPLETE /\ s \in d.pending
        BY <1>1, <1>4, <2>2, <3>1, <3>3 DEF ServerFacts, ServerOK, AlmostOK, WaitsForTurn, Responds, Becomes
      <4> QED BY <1>1, <2>3, <2>4, <3>1, <3>2, <3>3, <4>1 DEF ServerOK, AlmostOK, InTurn, NoTurn
    <3>4. c.rs[s] = Server!BODY => serverAt[s] = "handler"
      BY <1>1 DEF ServerOK, AlmostOK, ReadInOrder
    <3> QED BY <1>1, <3>1, <3>2, <3>3, <3>4 DEF ServerFacts, ServerOK, AlmostOK, InTurn
  <2> QED BY <2>1, <2>2, <2>5 DEF ServerOK, AlmostOK
<1>6. ServerHolds(d, serverAt', m_willClose')
  BY <1>3, <1>4, <1>5, MoveKeeps
<1>7. ServerHolds(Server!scheduleNextRequest(d, s), serverAt', m_willClose')
  BY <1>6, NextRequestKeeps
<1> QED BY <1>2, <1>6, <1>7


LEMMA ReadRequestKeeps ==
    ASSUME ServerInv, NEW s \in Server!Served, Server!ReadRequest(s) PROVE ServerInv'
<1> DEFINE c == serverConn
<1>1. ServerFacts(c, s) /\ ServerOK(c, serverAt[s], m_willClose[s], s)
  BY ServerKnows
<1>2. PICK close \in BOOLEAN, hasBody \in BOOLEAN :
         /\ serverConn' = IF hasBody THEN [c EXCEPT !.rq[s] = Server!BODY]
                          ELSE Server!requestComplete(c, s, close)
         /\ m_willClose' = [m_willClose EXCEPT ![s] = close]
  BY DEF Server!ReadRequest
<1>3. s \in c.started /\ serverAt[s] = "none" /\ serverAt' = [serverAt EXCEPT ![s] = "handler"]
  BY DEF Server!ReadRequest, Server!Go
<1>4. c.rq[s] = Server!HEADERS /\ c.rs[s] = Server!PENDING /\ s \in c.pending /\ s = c.count
  BY <1>1, <1>3 DEF ServerFacts, ServerOK, AlmostOK, ReadInOrder
<1>5. StepOf(s) /\ serverAt'[s] = "handler" /\ m_willClose'[s] = close
  BY <1>2, <1>3 DEF ServerInv, StepOf, ServerPlaces
<1>6. CASE hasBody
  <2>1. serverConn' = [c EXCEPT !.rq[s] = Server!BODY]
    BY <1>2, <1>6
  <2>2. serverConn' \in ServerConnType
    BY <1>1, <2>1 DEF ServerFacts, ServerConnType
  <2>3. Becomes(c, serverConn', s, c.pending, c.waiting, c.wake, Server!BODY, c.rs[s])
    BY <1>1, <2>1, <2>2 DEF ServerFacts, Becomes, ServerConnType
  <2>4. ServerOK(serverConn', "handler", close, s)
    BY <1>1, <1>3, <1>4, <2>3 DEF ServerFacts, Becomes, ServerOK, AlmostOK, ReadInOrder, InListWhile, WaitsForTurn,
       InTurn, Responds, NoTurn, LastTurn
  <2> QED BY <1>5, <2>3, <2>4, Moved
<1>7. CASE ~hasBody
  <2>1. ServerHolds(Server!requestComplete(c, s, close), serverAt', m_willClose')
    <3>1. c.rq[s] < Server!COMPLETE
      BY <1>4
    <3>2. serverAt[s] \in {"none", "handler"} /\ (serverAt[s] = "handler" => m_willClose'[s] = m_willClose[s])
      BY <1>3
    <3> QED BY ONLY ServerInv, s \in Server!Served, close \in BOOLEAN, <1>4, <1>5, <3>1, <3>2, RequestCompleteKeeps
  <2> QED BY <1>2, <1>5, <1>7, <2>1 DEF ServerInv, StepOf
<1> QED BY <1>6, <1>7

LEMMA RequestDoneKeeps ==
    ASSUME ServerInv, NEW s \in Server!Served, Server!requestDone(s) PROVE ServerInv'
<1> DEFINE c == serverConn
<1>1. ServerFacts(c, s) /\ ServerOK(c, serverAt[s], m_willClose[s], s)
  BY ServerKnows
<1>2. /\ serverAt[s] = "handler" /\ c.rq[s] = Server!BODY /\ UNCHANGED <<serverAt, m_willClose>>
      /\ serverConn' = Server!requestComplete(c, s, m_willClose[s])
  BY DEF Server!requestDone
<1>3. s \in c.pending /\ m_willClose[s] \in BOOLEAN
  BY <1>1, <1>2 DEF ServerOK, AlmostOK, InListWhile, ServerInv
<1>4. StepOf(s)
  BY <1>2, StaysThere
<1>5. ServerHolds(Server!requestComplete(c, s, m_willClose[s]), serverAt', m_willClose')
  BY <1>2, <1>3, <1>4, RequestCompleteKeeps
<1> QED BY <1>2, <1>4, <1>5 DEF ServerInv, StepOf

LEMMA ProcessNextKeeps ==
    ASSUME ServerInv, NEW s \in Server!Served, Server!processNextRequest(s) PROVE ServerInv'
<1>1. serverConn' = Server!scheduleNextRequest(serverConn, s) /\ UNCHANGED <<serverAt, m_willClose>>
  BY DEF Server!processNextRequest
<1>2. ServerHolds(Server!scheduleNextRequest(serverConn, s), serverAt, m_willClose)
  BY NextRequestKeeps DEF ServerInv
<1> QED BY <1>1, <1>2 DEF ServerInv

\* A step in which the fiber of a request only goes on.
LEMMA GoesOn ==
    ASSUME ServerInv, NEW s \in Server!Served, NEW to \in ServerPlaces, Server!Go(s, to),
           UNCHANGED <<serverConn, m_willClose>>, ServerOK(serverConn, to, m_willClose[s], s)
    PROVE  ServerInv'
<1>1. ServerFacts(serverConn, s)
  BY ServerKnows
<1>2. StepOf(s) /\ serverAt'[s] = to /\ m_willClose'[s] = m_willClose[s]
  BY Goes
<1>3. Becomes(serverConn, serverConn', s, serverConn.pending, serverConn.waiting, serverConn.wake,
              serverConn.rq[s], serverConn.rs[s])
  BY <1>1 DEF Becomes, ServerFacts
<1> QED BY <1>2, <1>3, Moved

LEMMA WrittenKeeps ==
    ASSUME ServerInv, NEW s \in Server!Served,
           Server!WriteHeaders(s) \/ Server!responseDone(s) \/ Server!Closes(s) \/ Server!finish(s)
    PROVE  ServerInv'
<1> DEFINE c == serverConn
<1>1. ServerFacts(c, s) /\ ServerOK(c, serverAt[s], m_willClose[s], s)
  BY ServerKnows
<1> USE DEF ServerPlaces
<1>2. ASSUME serverAt[s] \in {"writing", "completing", "handler"},
             serverAt[s] = "handler" => c.rs[s] = Server!BODY,
             NEW to \in {"completing", "completed"}, Server!Go(s, to), UNCHANGED <<serverConn, m_willClose>>
      PROVE  ServerInv'
  <2>1. ServerOK(c, to, m_willClose[s], s)
    BY <1>1, <1>2 DEF ServerFacts, ServerOK, AlmostOK, ReadInOrder, InListWhile, WaitsForTurn, InTurn, Responds
  <2> QED BY <1>2, <2>1, GoesOn
<1>3. ASSUME Server!finish(s) PROVE ServerInv'
  <2>1. ServerOK(c, "ending", m_willClose[s], s)
    BY <1>1, <1>3 DEF Server!finish, ServerFacts, ServerOK, AlmostOK, ReadInOrder, InListWhile, WaitsForTurn, InTurn, Responds
  <2> QED BY <1>3, <2>1, GoesOn DEF Server!finish
<1>4. ASSUME serverAt[s] = "writing", Server!Go(s, "handler"), serverConn' = [c EXCEPT !.rs[s] = Server!BODY],
             UNCHANGED m_willClose
      PROVE  ServerInv'
  <2>1. serverConn' \in ServerConnType
    BY <1>1, <1>4 DEF ServerFacts, ServerConnType
  <2>2. Becomes(c, serverConn', s, c.pending, c.waiting, c.wake, c.rq[s], Server!BODY)
    BY <1>1, <1>4, <2>1 DEF ServerFacts, Becomes, ServerConnType
  <2>3. StepOf(s) /\ serverAt'[s] = "handler" /\ m_willClose'[s] = m_willClose[s]
    BY <1>4, Goes
  <2>4. Server!IsFirst(c, s) /\ s \in c.pending /\ ~NoTurn(c, s) /\ s \notin c.wake /\ s \notin c.waiting
        /\ c.rs[s] = Server!HEADERS /\ (\A t \in 1 .. s - 1 : c.rs[t] >= Server!COMPLETE)
        /\ s <= c.count
    BY <1>1, <1>4 DEF ServerFacts, ServerOK, AlmostOK, InTurn, WaitsForTurn, Responds, ReadInOrder, Server!IsFirst
  <2>5. Server!IsFirst(serverConn', s) /\ ~NoTurn(serverConn', s)
    BY <2>2, <2>4 DEF Server!IsFirst, NoTurn, Becomes
  <2>6. \A t \in 1 .. s - 1 : serverConn'.rs[t] >= Server!COMPLETE
    <3> SUFFICES ASSUME NEW t \in 1 .. s - 1 PROVE serverConn'.rs[t] = c.rs[t]
      BY <2>4
    <3>1. t \in Server!Served \ {s}
      BY <1>1, HTTPAssumption DEF Server!Served, ServerFacts
    <3> QED BY <3>1, <2>2 DEF Becomes
  <2>7. ServerOK(serverConn', "handler", m_willClose[s], s)
    <3>1. ReadInOrder(serverConn', "handler", s) /\ InListWhile(serverConn', "handler", s)
          /\ WaitsForTurn(serverConn', "handler", s) /\ s \notin serverConn'.waiting
      BY <1>1, <1>4, <2>2, <2>4 DEF ServerFacts, Becomes, ServerOK, AlmostOK, ReadInOrder, InListWhile, WaitsForTurn, LastTurn
    <3>2. InTurn(serverConn', "handler", m_willClose[s], s)
      BY <1>1, <1>4, <2>2, <2>5, <2>6 DEF ServerFacts, Becomes, ServerOK, AlmostOK, InTurn
    <3> QED BY <3>1, <3>2 DEF ServerOK, AlmostOK
  <2>8. c.rs[s] >= Server!COMPLETE => Server!BODY >= Server!COMPLETE
    BY <2>4
  <2>9. ServerOK(serverConn', serverAt'[s], m_willClose'[s], s)
    BY <2>3, <2>7
  <2> QED BY ONLY ServerInv, s \in Server!Served, <2>2, <2>3, <2>8, <2>9, Moved
<1> QED BY <1>2, <1>3, <1>4 DEF Server!WriteHeaders, Server!responseDone, Server!Closes


\* Only one responds at a time: it is the first in the list.
LEMMA OneResponds ==
    ASSUME NEW c, NEW q, NEW w, ServerHolds(c, q, w), NEW s \in Server!Served, Server!IsFirst(c, s),
           NEW r \in Server!Served, r # s
    PROVE  ~Responds(c, q[r], r)
<1>1. ServerOK(c, q[r], w[r], r) /\ r \in Nat /\ s \in Nat
  BY HTTPAssumption DEF ServerHolds, Server!Served
<1> QED BY <1>1 DEF ServerOK, AlmostOK, InTurn, Server!IsFirst

\* A response cannot be written: all that come after it have no turn.
LEMMA FailsKeeps ==
    ASSUME ServerInv, NEW s \in Server!Served,
           Server!WriteHeadersFails(s) \/ (Server!CloseFails(s) /\ ~m_willClose[s])
    PROVE  ServerInv'
<1> DEFINE c == serverConn
           n == IF s < c.qfailed THEN s ELSE c.qfailed
           d == Server!Failed(c, s)
<1>1. ServerFacts(c, s) /\ ServerOK(c, serverAt[s], m_willClose[s], s)
  BY ServerKnows
<1>2. /\ serverConn' = Server!scheduleAllWaitingResponses(d) /\ Server!Go(s, "ending")
      /\ serverAt[s] \in {"writing", "completing"} /\ UNCHANGED m_willClose
  BY DEF Server!WriteHeadersFails, Server!CloseFails, Server!Fails
<1>3. StepOf(s) /\ serverAt'[s] = "ending" /\ m_willClose'[s] = m_willClose[s]
  BY <1>2, Goes DEF ServerPlaces
<1>4. /\ Server!IsFirst(c, s) /\ s \in c.pending /\ ~NoTurn(c, s) /\ s \notin c.wake /\ s \notin c.waiting
      /\ c.rs[s] \in {Server!HEADERS, Server!BODY} /\ (\A t \in 1 .. s - 1 : c.rs[t] >= Server!COMPLETE)
      /\ s <= c.count
  BY <1>1, <1>2 DEF ServerFacts, ServerOK, AlmostOK, InTurn, WaitsForTurn, Responds, ReadInOrder, Server!IsFirst
<1>5. /\ n \in Nat /\ n <= s /\ n <= c.qfailed /\ n >= s
  BY <1>1, <1>4 DEF ServerFacts, NoTurn
<1>6. d = [c EXCEPT !.qfailed = n]
  BY <1>1 DEF Server!Failed, ServerFacts, ServerConnType
<1> HIDE DEF n, d
<1>7. d \in ServerConnType
  BY <1>1, <1>5, <1>6 DEF ServerFacts, ServerConnType
<1>8. /\ d.count = c.count /\ d.started = c.started /\ d.pending = c.pending /\ d.waiting = c.waiting
      /\ d.wake = c.wake /\ d.rq = c.rq /\ d.rs = c.rs /\ d.qfailed = n /\ d.rclosed = c.rclosed
  BY <1>1, <1>6 DEF ServerFacts, ServerConnType
<1>9. OnlyOf(c, d, s)
  BY <1>1, <1>5, <1>7, <1>8 DEF OnlyOf, ServerFacts
<1>10. ServerHolds(c, serverAt, m_willClose)
  BY DEF ServerInv
<1>11. \A r \in Server!Served \ {s} : Responds(c, serverAt[r], r) => ~NoTurn(d, r)
  BY <1>4, <1>10, OneResponds
<1>12. AlmostOK(d, "ending", m_willClose[s], s)
  <2>1. ReadInOrder(d, "ending", s) /\ InListWhile(d, "ending", s) /\ WaitsForTurn(d, "ending", s)
    BY <1>1, <1>4, <1>8 DEF ServerFacts, ServerOK, AlmostOK, ReadInOrder, InListWhile, WaitsForTurn
  <2>2. ~NoTurn(d, s) /\ Server!IsFirst(d, s)
    BY <1>1, <1>4, <1>5, <1>8 DEF NoTurn, Server!IsFirst, ServerFacts
  <2>3. InTurn(d, "ending", m_willClose[s], s)
    BY <1>1, <1>4, <1>8, <2>2 DEF ServerFacts, ServerOK, AlmostOK, InTurn
  <2> QED BY <2>1, <2>3 DEF AlmostOK
<1>13. \A r \in Server!Served \ {s} : serverAt'[r] = serverAt[r] /\ m_willClose'[r] = m_willClose[r]
  BY <1>3 DEF StepOf
<1>14. AlmostOK(d, serverAt'[s], m_willClose'[s], s)
  BY <1>3, <1>12
<1>15. \A r \in Server!Served : AlmostOK(d, serverAt'[r], m_willClose'[r], r)
  BY ONLY s \in Server!Served, <1>9, <1>10, <1>11, <1>13, <1>14, ServerMovesAlmost
<1>16. ServerHolds(serverConn', serverAt', m_willClose')
  BY <1>2, <1>7, <1>15, TellingKeeps
<1> QED BY <1>3, <1>16 DEF ServerInv, StepOf

\* commit(), in its turn: the others are told if the response closes the connection.
LEMMA RespondsKeeps ==
    ASSUME ServerInv, NEW s \in Server!Served, NEW close \in BOOLEAN, NEW K, NEW f,
           Server!IsFirst(serverConn, s), ~NoTurn(serverConn, s),
           serverAt[s] \in {"handler", "waiting"}, serverConn.rs[s] \in {Server!PENDING, Server!HEADERS},
           s \notin serverConn.waiting, StepOf(s), serverAt'[s] = "writing", m_willClose'[s] = close,
           K \in {serverConn.wake, serverConn.wake \ {s}}, s \notin K, f = [serverConn EXCEPT !.wake = K]
    PROVE  ServerHolds(Server!RespondsNow(f, s, close), serverAt', m_willClose')
<1> DEFINE c == serverConn
           d == [f EXCEPT !.rs[s] = Server!HEADERS]
           e == [d EXCEPT !.rclosed = s]
<1>1. ServerFacts(c, s) /\ ServerOK(c, serverAt[s], m_willClose[s], s)
  BY ServerKnows
<1>2. d = [c EXCEPT !.wake = K, !.rs[s] = Server!HEADERS] /\ K \subseteq Server!Served
  BY <1>1 DEF ServerFacts, ServerConnType
<1>3. d \in ServerConnType
  <2> HIDE DEF d
  <2> QED BY <1>1, <1>2 DEF ServerFacts, ServerConnType
<1>4. Becomes(c, d, s, c.pending, c.waiting, K, c.rq[s], Server!HEADERS)
  <2> HIDE DEF d
  <2> QED BY <1>1, <1>2, <1>3 DEF ServerFacts, Becomes, ServerConnType
<1>5. Server!RespondsNow(f, s, close) = IF close THEN Server!scheduleAllWaitingResponses(e) ELSE d
  BY DEF Server!RespondsNow
<1> HIDE DEF d
<1>6. e \in ServerConnType
  BY <1>1, <1>3 DEF ServerFacts, ServerConnType
<1>7. /\ e.count = c.count /\ e.started = c.started /\ e.pending = c.pending /\ e.waiting = c.waiting
      /\ e.wake = K /\ e.rq = d.rq /\ e.rs = d.rs /\ e.qfailed = c.qfailed /\ e.rclosed = s
  BY <1>1, <1>3, <1>4 DEF ServerFacts, ServerConnType, Becomes
<1> HIDE DEF e
<1>8. ServerHolds(c, serverAt, m_willClose) /\ s \in c.pending /\ s <= c.count
  BY <1>1 DEF ServerInv, Server!IsFirst, ServerOK, AlmostOK, ReadInOrder
<1>9. \A t \in 1 .. s - 1 : c.rs[t] >= Server!COMPLETE
  BY <1>8, TurnComes
<1>10. \A t \in 1 .. s - 1 : d.rs[t] >= Server!COMPLETE
  <2> SUFFICES ASSUME NEW t \in 1 .. s - 1 PROVE d.rs[t] = c.rs[t]
    BY <1>9
  <2>1. t \in Server!Served \ {s}
    BY <1>1, HTTPAssumption DEF Server!Served, ServerFacts
  <2> QED BY <2>1, <1>4 DEF Becomes
<1>11. ASSUME NEW x \in {d, e}, NEW close1 \in BOOLEAN, close1 => x = e PROVE AlmostOK(x, "writing", close1, s)
  <2>1. /\ x.count = c.count /\ x.pending = c.pending /\ x.waiting = c.waiting /\ x.started = c.started
        /\ x.wake = K /\ x.rq[s] = c.rq[s] /\ x.rs = d.rs /\ x.rs[s] = Server!HEADERS
        /\ x.qfailed = c.qfailed /\ x.rclosed \in {c.rclosed, s}
    BY <1>4, <1>7, <1>11 DEF Becomes
  <2>2. ReadInOrder(x, "writing", s) /\ InListWhile(x, "writing", s) /\ WaitsForTurn(x, "writing", s)
    BY <1>1, <1>8, <2>1 DEF ServerFacts, ServerOK, AlmostOK, ReadInOrder, InListWhile, WaitsForTurn
  <2>3. ~NoTurn(x, s) /\ Server!IsFirst(x, s)
    BY <1>1, <2>1 DEF NoTurn, Server!IsFirst, ServerFacts
  <2>4. close1 => x.rclosed = s
    BY <1>7, <1>11
  <2>5. InTurn(x, "writing", close1, s)
    BY <1>1, <1>10, <2>1, <2>3, <2>4 DEF ServerFacts, InTurn
  <2> QED BY <2>2, <2>5 DEF AlmostOK
<1>12. \A r \in Server!Served \ {s} : serverAt'[r] = serverAt[r] /\ m_willClose'[r] = m_willClose[r]
  BY DEF StepOf
<1>13. CASE close
  <2>1. OnlyOf(c, e, s)
    BY <1>1, <1>4, <1>6, <1>7 DEF OnlyOf, ServerFacts, Becomes, NoTurn
  <2>2. \A r \in Server!Served \ {s} : Responds(c, serverAt[r], r) => ~NoTurn(e, r)
    BY <1>8, OneResponds
  <2>3. AlmostOK(e, serverAt'[s], m_willClose'[s], s)
    BY <1>11, <1>13
  <2>4. \A r \in Server!Served : AlmostOK(e, serverAt'[r], m_willClose'[r], r)
    BY ONLY s \in Server!Served, <1>8, <1>12, <2>1, <2>2, <2>3, ServerMovesAlmost
  <2>5. ServerHolds(Server!scheduleAllWaitingResponses(e), serverAt', m_willClose')
    BY ONLY <1>6, <2>4, TellingKeeps
  <2> QED BY <1>5, <1>13, <2>5
<1>14. CASE ~close
  <2>1. OnlyOf(c, d, s) /\ d.qfailed = c.qfailed /\ d.rclosed = c.rclosed
    BY <1>1, <1>4 DEF OnlyOf, ServerFacts, Becomes
  <2>2. AlmostOK(d, "writing", FALSE, s)
    BY <1>11
  <2>3. ServerOK(d, serverAt'[s], m_willClose'[s], s)
    BY <1>4, <1>14, <2>2 DEF ServerOK, Becomes
  <2>4. ServerHolds(d, serverAt', m_willClose')
    BY ONLY s \in Server!Served, <1>8, <1>12, <2>1, <2>3, ServerMoves
  <2> QED BY <1>5, <1>14, <2>4
<1> QED BY <1>13, <1>14


LEMMA CommitKeeps ==
    ASSUME ServerInv, NEW s \in Server!Served, Server!commit(s) PROVE ServerInv'
<1> DEFINE c == serverConn
<1>1. ServerFacts(c, s) /\ ServerOK(c, serverAt[s], m_willClose[s], s)
  BY ServerKnows
<1>2. serverAt[s] = "handler" /\ c.rs[s] = Server!PENDING
  BY DEF Server!commit
<1>3. PICK close \in {m_willClose[s], TRUE} :
         /\ m_willClose' = [m_willClose EXCEPT ![s] = close]
         /\ IF c.qfailed < s \/ c.rclosed < s
            THEN serverConn' = Server!Erase(c, s) /\ Server!Go(s, "ending")
            ELSE IF Server!IsFirst(c, s)
            THEN serverConn' = Server!RespondsNow(c, s, close) /\ Server!Go(s, "writing")
            ELSE /\ serverConn' = [c EXCEPT !.rs[s] = Server!WAITING, !.waiting = @ \cup {s}]
                 /\ Server!Go(s, "waiting")
  BY DEF Server!commit
<1>4. close \in BOOLEAN
  BY DEF ServerInv
<1>5. ASSUME NEW to \in ServerPlaces, Server!Go(s, to)
      PROVE  StepOf(s) /\ serverAt'[s] = to /\ m_willClose'[s] = close
  BY <1>3, <1>4, <1>5 DEF ServerInv, StepOf, Server!Go
<1>6. s \in c.pending /\ s <= c.count /\ s \notin c.waiting /\ s \notin c.wake
  BY <1>1, <1>2 DEF ServerFacts, ServerOK, AlmostOK, InListWhile, WaitsForTurn, ReadInOrder
<1>7. CASE NoTurn(c, s)
  <2>1. serverConn' = [c EXCEPT !.pending = @ \ {s}] /\ Server!Go(s, "ending")
    BY <1>3, <1>7 DEF NoTurn, Server!Erase
  <2>2. serverConn' \in ServerConnType
    BY <1>1, <2>1 DEF ServerFacts, ServerConnType
  <2>3. Becomes(c, serverConn', s, c.pending \ {s}, c.waiting, c.wake, c.rq[s], c.rs[s])
    BY <1>1, <2>1, <2>2 DEF ServerFacts, Becomes, ServerConnType
  <2>4. StepOf(s) /\ serverAt'[s] = "ending"
    BY <1>5, <2>1 DEF ServerPlaces
  <2>5. ServerOK(serverConn', "ending", m_willClose'[s], s)
    BY <1>1, <1>2, <1>6, <1>7, <2>3 DEF ServerFacts, Becomes, ServerOK, AlmostOK, ReadInOrder, InListWhile,
       WaitsForTurn, InTurn, Responds, NoTurn, LastTurn
  <2> QED BY <2>3, <2>4, <2>5, Moved
<1>8. CASE ~NoTurn(c, s) /\ Server!IsFirst(c, s)
  <2>1. serverConn' = Server!RespondsNow(c, s, close) /\ Server!Go(s, "writing")
    BY <1>3, <1>8 DEF NoTurn
  <2>2. StepOf(s) /\ serverAt'[s] = "writing" /\ m_willClose'[s] = close
    BY <1>5, <2>1 DEF ServerPlaces
  <2>3. c = [c EXCEPT !.wake = c.wake]
    BY <1>1 DEF ServerFacts, ServerConnType
  <2>4. c.rs[s] \in {Server!PENDING, Server!HEADERS} /\ serverAt[s] \in {"handler", "waiting"}
    BY <1>2
  <2>5. ServerHolds(Server!RespondsNow(c, s, close), serverAt', m_willClose')
    BY ONLY ServerInv, s \in Server!Served, <1>4, <1>6, <1>8, <2>2, <2>3, <2>4, RespondsKeeps
  <2> QED BY <2>1, <2>2, <2>5 DEF ServerInv, StepOf
<1>9. CASE ~NoTurn(c, s) /\ ~Server!IsFirst(c, s)
  <2>1. serverConn' = [c EXCEPT !.rs[s] = Server!WAITING, !.waiting = @ \cup {s}] /\ Server!Go(s, "waiting")
    BY <1>3, <1>9 DEF NoTurn
  <2>2. serverConn' \in ServerConnType
    BY <1>1, <2>1 DEF ServerFacts, ServerConnType
  <2>3. Becomes(c, serverConn', s, c.pending, c.waiting \cup {s}, c.wake, c.rq[s], Server!WAITING)
    BY <1>1, <2>1, <2>2 DEF ServerFacts, Becomes, ServerConnType
  <2>4. StepOf(s) /\ serverAt'[s] = "waiting"
    BY <1>5, <2>1 DEF ServerPlaces
  <2>5. ServerOK(serverConn', "waiting", m_willClose'[s], s)
    BY <1>1, <1>2, <1>6, <1>9, <2>3 DEF ServerFacts, Becomes, ServerOK, AlmostOK, ReadInOrder, InListWhile,
       WaitsForTurn, InTurn, Responds, NoTurn, LastTurn
  <2>6. c.rs[s] >= Server!COMPLETE => Server!WAITING >= Server!COMPLETE
    BY <1>2
  <2> QED BY <2>3, <2>4, <2>5, <2>6, Moved
<1> QED BY <1>7, <1>8, <1>9

LEMMA WokenKeeps ==
    ASSUME ServerInv, NEW s \in Server!Served, Server!Woken(s) PROVE ServerInv'
<1> DEFINE c == serverConn
           d == [c EXCEPT !.wake = @ \ {s}]
<1>1. ServerFacts(c, s) /\ ServerOK(c, serverAt[s], m_willClose[s], s)
  BY ServerKnows
<1>2. /\ serverAt[s] = "waiting" /\ s \in c.wake /\ UNCHANGED m_willClose
      /\ IF LastTurn(c, s) THEN serverConn' = d /\ Server!Go(s, "ending")
         ELSE serverConn' = Server!RespondsNow(d, s, m_willClose[s]) /\ Server!Go(s, "writing")
  BY DEF Server!Woken, LastTurn
<1>3. s \notin c.waiting /\ c.rs[s] \in {Server!HEADERS, Server!WAITING}
  BY <1>1, <1>2 DEF ServerFacts, ServerOK, AlmostOK, WaitsForTurn
<1>4. CASE LastTurn(c, s)
  <2>1. d \in ServerConnType
    BY <1>1 DEF ServerFacts, ServerConnType
  <2>2. Becomes(c, d, s, c.pending, c.waiting, c.wake \ {s}, c.rq[s], c.rs[s])
    BY <1>1, <2>1 DEF ServerFacts, Becomes, ServerConnType
  <2>3. StepOf(s) /\ serverAt'[s] = "ending"
    BY <1>2, <1>4, Goes DEF ServerPlaces
  <2>4. serverConn' = d
    BY <1>2, <1>4
  <2> HIDE DEF d
  <2>5. ServerOK(d, "ending", m_willClose'[s], s)
    BY <1>1, <1>2, <1>3, <1>4, <2>2 DEF ServerFacts, Becomes, ServerOK, AlmostOK, ReadInOrder, InListWhile,
       WaitsForTurn, InTurn, Responds, NoTurn, LastTurn
  <2> QED BY <2>2, <2>3, <2>4, <2>5, Moved
<1>5. CASE ~LastTurn(c, s)
  <2>1. StepOf(s) /\ serverAt'[s] = "writing" /\ m_willClose'[s] = m_willClose[s]
    BY <1>2, <1>5, Goes DEF ServerPlaces
  <2>2. c.rs[s] \in {Server!PENDING, Server!HEADERS} /\ serverAt[s] \in {"handler", "waiting"}
        /\ Server!IsFirst(c, s) /\ ~NoTurn(c, s)
    BY <1>1, <1>2, <1>3, <1>5 DEF ServerFacts, ServerOK, AlmostOK, WaitsForTurn, InTurn, Responds
  <2>3. d = [c EXCEPT !.wake = c.wake \ {s}] /\ s \notin c.wake \ {s} /\ m_willClose[s] \in BOOLEAN
    BY <1>1 DEF ServerFacts, ServerConnType, ServerInv
  <2> HIDE DEF d
  <2>4. ServerHolds(Server!RespondsNow(d, s, m_willClose[s]), serverAt', m_willClose')
    BY ONLY ServerInv, s \in Server!Served, <1>3, <2>1, <2>2, <2>3, RespondsKeeps
  <2> QED BY <1>2, <1>5, <2>1, <2>4 DEF ServerInv, StepOf
<1> QED BY <1>4, <1>5


\* The request after r in the list, if there is one.
LEMMA AfterIs ==
    ASSUME NEW c, c.pending \subseteq Server!Served, NEW r \in Nat
    PROVE  \/ Server!After(c, r) = Server!Never /\ \A x \in c.pending : ~(x > r)
           \/ /\ Server!After(c, r) \in c.pending /\ Server!After(c, r) > r
              /\ \A x \in c.pending : x > r => Server!After(c, r) <= x
<1> DEFINE later == {x \in c.pending : x > r}
<1>1. later \in SUBSET Nat
  BY HTTPAssumption DEF Server!Served
<1>2. Server!After(c, r) = IF later = {} THEN Server!Never ELSE CHOOSE x \in later : \A y \in later : x <= y
  BY DEF Server!After, Server!Min
<1>3. CASE later = {}
  BY <1>2, <1>3
<1>4. CASE later # {}
  <2>1. \E x \in later : \A y \in later : x <= y
    BY <1>1, <1>4, LeastOf
  <2>2. Server!After(c, r) \in later /\ \A y \in later : Server!After(c, r) <= y
    BY <1>2, <1>4, <2>1
  <2> QED BY <2>2
<1> QED BY <1>3, <1>4

\* responseComplete() for the record: the response is over, and so perhaps the request.
ResponseOver(c, s) ==
    Server!EraseIf([c EXCEPT !.rs[s] = Server!COMPLETE], s, c.rq[s] >= Server!COMPLETE)

LEMMA OverKeeps ==
    ASSUME ServerInv, NEW s \in Server!Served, serverAt[s] \in {"completed", "unlocked"}, StepOf(s),
           serverAt'[s] = "handler", m_willClose'[s] = m_willClose[s]
    PROVE  /\ ServerHolds(ResponseOver(serverConn, s), serverAt', m_willClose')
           /\ ResponseOver(serverConn, s).waiting = serverConn.waiting
           /\ Server!IsFirst(serverConn, s) /\ s \in serverConn.pending
           /\ serverConn.rq[s] >= Server!COMPLETE
                 => ResponseOver(serverConn, s).pending = serverConn.pending \ {s}
           /\ ResponseOver(serverConn, s).count = serverConn.count
<1> DEFINE c == serverConn
           d == ResponseOver(c, s)
           done == [c EXCEPT !.rs[s] = Server!COMPLETE]
           P == IF c.rq[s] >= Server!COMPLETE THEN c.pending \ {s} ELSE c.pending
<1>1. ServerFacts(c, s) /\ ServerOK(c, serverAt[s], m_willClose[s], s)
  BY ServerKnows
<1>2. /\ Server!IsFirst(c, s) /\ s \in c.pending /\ ~NoTurn(c, s) /\ s \notin c.wake /\ s \notin c.waiting
      /\ c.rs[s] \in {Server!HEADERS, Server!BODY} /\ s <= c.count
  BY <1>1 DEF ServerFacts, ServerOK, AlmostOK, InTurn, WaitsForTurn, Responds, ReadInOrder, Server!IsFirst
<1>3. done \in ServerConnType
  BY <1>1 DEF ServerFacts, ServerConnType
<1>4. Becomes(c, done, s, c.pending, c.waiting, c.wake, c.rq[s], Server!COMPLETE)
  BY <1>1, <1>3 DEF ServerFacts, ServerConnType, Becomes
<1> HIDE DEF done
<1>5. Becomes(c, d, s, P, c.waiting, c.wake, c.rq[s], Server!COMPLETE)
  <2>1. d = IF c.rq[s] >= Server!COMPLETE THEN [done EXCEPT !.pending = c.pending \ {s}] ELSE done
    BY <1>3, <1>4 DEF Server!EraseIf, Server!Erase, Becomes, ServerConnType, done, ResponseOver
  <2> HIDE DEF d
  <2>2. CASE c.rq[s] >= Server!COMPLETE
    <3>1. d \in ServerConnType
      BY <1>1, <1>3, <2>1, <2>2 DEF ServerFacts, ServerConnType
    <3> QED BY <1>3, <1>4, <2>1, <2>2, <3>1 DEF Becomes, ServerConnType
  <2> QED BY <1>4, <2>1, <2>2
<1> HIDE DEF d
<1>6. ServerOK(d, "handler", m_willClose[s], s)
  <2>1. ReadInOrder(d, "handler", s) /\ InListWhile(d, "handler", s) /\ WaitsForTurn(d, "handler", s)
        /\ s \notin d.waiting
    BY <1>1, <1>2, <1>5 DEF ServerFacts, Becomes, ServerOK, AlmostOK, ReadInOrder, InListWhile, WaitsForTurn
  <2>2. d.rs[s] = Server!COMPLETE /\ ~Responds(d, "handler", s)
    BY <1>2, <1>5 DEF Becomes, Responds
  <2>3. s \in d.pending => Server!IsFirst(d, s)
    BY <1>2, <1>5 DEF Becomes, Server!IsFirst
  <2>4. InTurn(d, "handler", m_willClose[s], s)
    BY <2>2, <2>3 DEF InTurn
  <2> QED BY <2>1, <2>4 DEF ServerOK, AlmostOK
<1>7. P \in {c.pending, c.pending \ {s}}
  OBVIOUS
<1>8. ServerOK(d, serverAt'[s], m_willClose'[s], s)
  BY <1>6
<1>9. c.rs[s] >= Server!COMPLETE => Server!COMPLETE >= Server!COMPLETE
  OBVIOUS
<1>10. ServerHolds(d, serverAt', m_willClose')
  BY <1>5, <1>7, <1>8, <1>9, MoveKeeps
<1> QED BY <1>2, <1>5, <1>10 DEF Becomes, d

LEMMA LeavesKeeps ==
    ASSUME ServerInv, NEW s \in Server!Served, Server!ResponseLeaves(s) PROVE ServerInv'
<1> DEFINE d == ResponseOver(serverConn, s)
           n == Server!After(d, 0)
<1>1. /\ serverAt[s] = "unlocked" /\ serverConn' = Server!StartResponse(d, n)
      /\ Server!Go(s, "handler") /\ UNCHANGED m_willClose
  BY DEF Server!ResponseLeaves, ResponseOver
<1>2. StepOf(s) /\ serverAt'[s] = "handler" /\ m_willClose'[s] = m_willClose[s]
  BY <1>1, Goes DEF ServerPlaces
<1>3. ServerHolds(d, serverAt', m_willClose')
  BY <1>1, <1>2, OverKeeps
<1>4. d.pending \subseteq Server!Served /\ d.waiting \subseteq Server!Served
  BY <1>3 DEF ServerHolds, ServerConnType
<1> HIDE DEF d
<1>5. n \in d.waiting => Server!IsFirst(d, n)
  <2>1. Server!Never \notin Server!Served /\ \A x \in Server!Served : x \in Nat /\ x > 0
    BY HTTPAssumption DEF Server!Never, Server!Served
  <2> QED BY <1>4, <2>1, AfterIs DEF Server!IsFirst
<1>6. ServerHolds(Server!StartResponse(d, n), serverAt', m_willClose')
  BY <1>3, <1>5, StartKeeps
<1> QED BY <1>1, <1>2, <1>6 DEF ServerInv, StepOf


LEMMA ResponseCompleteKeeps ==
    ASSUME ServerInv, NEW s \in Server!Served, Server!responseComplete(s) PROVE ServerInv'
<1> DEFINE c == serverConn
           d == ResponseOver(c, s)
           n == Server!After(c, s)
           f == IF n = Server!Never THEN Server!scheduleNextRequest(c, s) ELSE c
<1>1. serverAt[s] = "completed" /\ UNCHANGED m_willClose
  BY DEF Server!responseComplete
<1>2. IF n \in c.waiting
      THEN serverConn' = Server!StartResponse(Server!scheduleNextRequest(d, s), n) /\ Server!Go(s, "handler")
      ELSE /\ serverConn' = [f EXCEPT !.rclosed = IF m_willClose[s] THEN s ELSE @]
           /\ Server!Go(s, "unlocked")
  BY DEF Server!responseComplete, ResponseOver
<1>3. ServerFacts(c, s) /\ ServerOK(c, serverAt[s], m_willClose[s], s)
  BY ServerKnows
<1>4. /\ Server!IsFirst(c, s) /\ s \in c.pending /\ ~NoTurn(c, s) /\ s \notin c.wake /\ s \notin c.waiting
      /\ (m_willClose[s] => c.rclosed = s)
  BY <1>1, <1>3 DEF ServerFacts, ServerOK, AlmostOK, InTurn, WaitsForTurn, Responds, NoTurn, Server!IsFirst
<1>5. Server!Never \notin Server!Served /\ \A x \in Server!Served : x \in Nat
  BY HTTPAssumption DEF Server!Never, Server!Served
<1>6. CASE n \in c.waiting
  <2>1. /\ n \in c.pending /\ n > s /\ (\A x \in c.pending : x > s => n <= x) /\ n \in Server!Served
    BY <1>3, <1>5, <1>6, AfterIs DEF ServerFacts
  <2>2. StepOf(s) /\ serverAt'[s] = "handler" /\ m_willClose'[s] = m_willClose[s]
    BY <1>1, <1>2, <1>6, Goes DEF ServerPlaces
  <2>3. /\ ServerHolds(d, serverAt', m_willClose') /\ d.waiting = c.waiting /\ d.count = c.count
        /\ c.rq[s] >= Server!COMPLETE => d.pending = c.pending \ {s}
    <3>1. serverAt[s] \in {"completed", "unlocked"}
      BY <1>1
    <3>2. ServerHolds(d, serverAt', m_willClose')
      BY <3>1, <2>2, OverKeeps
    <3>3. d.waiting = c.waiting /\ d.count = c.count
      BY <3>1, <2>2, OverKeeps
    <3>4. c.rq[s] >= Server!COMPLETE => d.pending = c.pending \ {s}
      BY <3>1, <2>2, OverKeeps
    <3> QED BY <3>2, <3>3, <3>4
  <2>4. ServerOK(c, serverAt[n], m_willClose[n], n)
    BY <2>1, ServerKnows
  <2> HIDE DEF d, n
  <2>5. s < c.count /\ c.rq[s] >= Server!COMPLETE
    <3>1. n \in Nat /\ s \in Nat /\ c.count \in Nat
      BY <1>3, <1>5, <2>1 DEF ServerFacts
    <3>2. n <= c.count
      BY <2>1, <2>4 DEF ServerOK, AlmostOK, ReadInOrder
    <3> QED BY <1>3, <2>1, <3>1, <3>2 DEF ServerOK, AlmostOK, ReadInOrder
  <2>6. Server!scheduleNextRequest(d, s) = d
    BY <1>3, <2>3, <2>5 DEF Server!scheduleNextRequest, ServerFacts
  <2>7. Server!IsFirst(d, n)
    <3>1. d.pending = c.pending \ {s} /\ \A x \in c.pending : s <= x
      BY <1>4, <2>3, <2>5 DEF Server!IsFirst
    <3>2. n \in Nat /\ s \in Nat /\ \A x \in c.pending : x \in Nat
      BY <1>3, <1>5, <2>1 DEF ServerFacts
    <3>3. n \in d.pending
      BY <2>1, <3>1, <3>2
    <3>4. \A x \in d.pending : n <= x
      BY <2>1, <3>1, <3>2
    <3> QED BY <3>3, <3>4 DEF Server!IsFirst
  <2>8. ServerHolds(Server!StartResponse(d, n), serverAt', m_willClose')
    BY <2>3, <2>7, StartKeeps
  <2> QED BY <1>2, <1>6, <2>2, <2>6, <2>8 DEF ServerInv, StepOf
<1>7. CASE n \notin c.waiting
  <2>1. StepOf(s) /\ serverAt'[s] = "unlocked" /\ m_willClose'[s] = m_willClose[s]
    BY <1>1, <1>2, <1>7, Goes DEF ServerPlaces
  <2>2. ServerOK(c, "unlocked", m_willClose[s], s)
    BY <1>1, <1>3 DEF ServerFacts, ServerOK, AlmostOK, ReadInOrder, InListWhile, WaitsForTurn, InTurn, Responds
  <2>3. ServerHolds(c, serverAt', m_willClose')
    <3>1. Becomes(c, c, s, c.pending, c.waiting, c.wake, c.rq[s], c.rs[s])
      BY <1>3 DEF Becomes, ServerFacts
    <3> QED BY <2>1, <2>2, <3>1, MoveKeeps
  <2>4. ServerHolds(Server!scheduleNextRequest(c, s), serverAt', m_willClose')
    BY <2>3, NextRequestKeeps
  <2>5. ServerHolds(f, serverAt', m_willClose')
    BY <2>3, <2>4
  <2>6. f.rclosed = c.rclosed
    BY <1>3 DEF Server!scheduleNextRequest, ServerFacts, ServerConnType
  <2>7. f \in ServerConnType
    BY <2>5 DEF ServerHolds
  <2>8. serverConn' = [f EXCEPT !.rclosed = IF m_willClose[s] THEN s ELSE @]
    BY <1>2, <1>7
  <2> HIDE DEF f
  <2>9. serverConn' = f
    BY <1>4, <2>6, <2>7, <2>8 DEF ServerConnType
  <2> QED BY <2>1, <2>5, <2>9 DEF ServerInv, StepOf
<1> QED BY <1>6, <1>7

LEMMA ServerStep == ServerInv /\ [Server!HTTPServerNext]_(Server!serverVars) => ServerInv'
<1>1. ASSUME ServerInv, Server!HTTPServerNext PROVE ServerInv'
  <2>1. CASE Server!processRequests
    BY <1>1, <2>1, ProcessKeeps
  <2>2. CASE Server!CancelConnection
    BY <1>1, <2>2 DEF Server!CancelConnection, ServerInv
  <2>3. ASSUME NEW s \in Server!Served, Server!processNextRequest(s) PROVE ServerInv'
    BY <1>1, <2>3, ProcessNextKeeps
  <2>4. ASSUME NEW s \in Server!Served, Server!HTTPServerStep(s) PROVE ServerInv'
    <3>1. CASE Server!ReadEnds(s) \/ Server!ReadBad(s) \/ Server!ReadRequest(s) \/ Server!requestDone(s)
      BY <1>1, <3>1, ReadEndsKeeps, ReadBadKeeps, ReadRequestKeeps, RequestDoneKeeps
    <3>2. CASE \/ Server!RequestBodyFails(s) \/ Server!ResponseCancelled(s) \/ Server!Destroy(s)
               \/ Server!CloseFails(s) /\ m_willClose[s]
      BY <1>1, <3>2, CancelsKeep
    <3>3. CASE Server!WriteHeadersFails(s) \/ (Server!CloseFails(s) /\ ~m_willClose[s])
      BY <1>1, <3>3, FailsKeeps
    <3>4. CASE Server!commit(s) \/ Server!Woken(s)
      BY <1>1, <3>4, CommitKeeps, WokenKeeps
    <3>5. CASE Server!WriteHeaders(s) \/ Server!responseDone(s) \/ Server!Closes(s) \/ Server!finish(s)
      BY <1>1, <3>5, WrittenKeeps
    <3>6. CASE Server!responseComplete(s) \/ Server!ResponseLeaves(s)
      BY <1>1, <3>6, ResponseCompleteKeeps, LeavesKeeps
    <3> QED BY <2>4, <3>1, <3>2, <3>3, <3>4, <3>5, <3>6 DEF Server!HTTPServerStep
  <2> QED BY <1>1, <2>1, <2>2, <2>3, <2>4 DEF Server!HTTPServerNext
<1>2. ASSUME ServerInv, UNCHANGED Server!serverVars PROVE ServerInv'
  BY <1>2 DEF Server!serverVars, ServerInv
<1> QED BY <1>1, <1>2

-----------------------------------------------------------------------------
(* A response is ERROR only once m_priorRequestFailed says so: with it, the *)
(* responses before the one that is written have not failed.               *)

ServerConnShape ==
    [pending : SUBSET Nat, waiting : SUBSET Server!Served, count : Nat,
     rq : [Server!Served -> Nat], rs : [Server!Served -> Nat],
     qfailed : Nat, qclosed : Nat, rclosed : Nat, wake : SUBSET Nat, started : SUBSET Nat]

ErrorsTold(c) ==
    /\ c \in ServerConnShape
    /\ \A r \in Server!Served : c.rs[r] = Server!ERROR => c.qfailed <= r

LEMMA ErrorsToldFrom ==
    ASSUME NEW c, ErrorsTold(c), NEW d \in ServerConnShape, d.qfailed <= c.qfailed,
           \A r \in Server!Served : d.rs[r] = Server!ERROR => c.rs[r] = Server!ERROR \/ d.qfailed <= r
    PROVE  ErrorsTold(d)
<1>1. c.qfailed \in Nat /\ d.qfailed \in Nat /\ Server!Served \subseteq Nat
  BY HTTPAssumption DEF ErrorsTold, ServerConnShape, Server!Served
<1>2. ASSUME NEW r \in Server!Served, d.rs[r] = Server!ERROR PROVE d.qfailed <= r
  BY <1>1, <1>2 DEF ErrorsTold
<1> QED BY <1>2 DEF ErrorsTold

\* What does not touch the two fields.
LEMMA ListsKeepErrors ==
    ASSUME NEW c, ErrorsTold(c), NEW P \in SUBSET Nat, NEW W \in SUBSET Server!Served, NEW K \in SUBSET Nat,
           NEW S \in SUBSET Nat, NEW n \in Nat, NEW a \in Nat
    PROVE  /\ ErrorsTold([c EXCEPT !.pending = P])
           /\ ErrorsTold([c EXCEPT !.wake = K])
           /\ ErrorsTold([c EXCEPT !.qclosed = a])
           /\ ErrorsTold([c EXCEPT !.rclosed = a])
           /\ ErrorsTold([c EXCEPT !.waiting = W, !.wake = K, !.pending = P])
           /\ ErrorsTold([c EXCEPT !.count = n, !.pending = P, !.started = S])
<1> USE DEF ServerConnShape
<1>0. c \in ServerConnShape
  BY DEF ErrorsTold
<1>1. ErrorsTold([c EXCEPT !.pending = P])
  <2> DEFINE e == [c EXCEPT !.pending = P]
  <2>1. e \in ServerConnShape /\ e.rs = c.rs /\ e.qfailed = c.qfailed
    BY <1>0
  <2> QED BY <2>1 DEF ErrorsTold
<1>2. ErrorsTold([c EXCEPT !.wake = K])
  <2> DEFINE e == [c EXCEPT !.wake = K]
  <2>1. e \in ServerConnShape /\ e.rs = c.rs /\ e.qfailed = c.qfailed
    BY <1>0
  <2> QED BY <2>1 DEF ErrorsTold
<1>3. ErrorsTold([c EXCEPT !.qclosed = a])
  <2> DEFINE e == [c EXCEPT !.qclosed = a]
  <2>1. e \in ServerConnShape /\ e.rs = c.rs /\ e.qfailed = c.qfailed
    BY <1>0
  <2> QED BY <2>1 DEF ErrorsTold
<1>4. ErrorsTold([c EXCEPT !.rclosed = a])
  <2> DEFINE e == [c EXCEPT !.rclosed = a]
  <2>1. e \in ServerConnShape /\ e.rs = c.rs /\ e.qfailed = c.qfailed
    BY <1>0
  <2> QED BY <2>1 DEF ErrorsTold
<1>5. ErrorsTold([c EXCEPT !.waiting = W, !.wake = K, !.pending = P])
  <2> DEFINE e == [c EXCEPT !.waiting = W, !.wake = K, !.pending = P]
  <2>1. e \in ServerConnShape /\ e.rs = c.rs /\ e.qfailed = c.qfailed
    BY <1>0
  <2> QED BY <2>1 DEF ErrorsTold
<1>6. ErrorsTold([c EXCEPT !.count = n, !.pending = P, !.started = S])
  <2> DEFINE e == [c EXCEPT !.count = n, !.pending = P, !.started = S]
  <2>1. e \in ServerConnShape /\ e.rs = c.rs /\ e.qfailed = c.qfailed
    BY <1>0
  <2> QED BY <2>1 DEF ErrorsTold
<1> QED BY <1>1, <1>2, <1>3, <1>4, <1>5, <1>6

LEMMA StatesKeepErrors ==
    ASSUME NEW c, ErrorsTold(c), NEW s \in Server!Served, NEW v \in Nat, v # Server!ERROR, NEW u \in Nat,
           NEW W \in SUBSET Server!Served, NEW K \in SUBSET Nat, NEW a \in Nat
    PROVE  /\ ErrorsTold([c EXCEPT !.rs[s] = v])
           /\ ErrorsTold([c EXCEPT !.rs[s] = v, !.waiting = W])
           /\ ErrorsTold([c EXCEPT !.waiting = W, !.rs[s] = v, !.wake = K])
           /\ ErrorsTold([c EXCEPT !.rq[s] = u])
           /\ ErrorsTold([c EXCEPT !.rq[s] = u, !.qclosed = a])
<1> USE DEF ServerConnShape
<1>0. c \in ServerConnShape
  BY DEF ErrorsTold
<1> DEFINE f == [c.rs EXCEPT ![s] = v]
           g == [c.rq EXCEPT ![s] = u]
<1>1. /\ f \in [Server!Served -> Nat] /\ g \in [Server!Served -> Nat]
      /\ \A r \in Server!Served : f[r] = Server!ERROR => c.rs[r] = Server!ERROR
  BY <1>0
<1>2. \A d \in ServerConnShape :
         d.qfailed = c.qfailed /\ (d.rs = f \/ d.rs = c.rs) => ErrorsTold(d)
  BY <1>1 DEF ErrorsTold
<1> HIDE DEF f, g
<1>3. ErrorsTold([c EXCEPT !.rs = f])
  <2> DEFINE e == [c EXCEPT !.rs = f]
  <2>1. e \in ServerConnShape /\ e.rs = f /\ e.qfailed = c.qfailed
    BY <1>0, <1>1
  <2> QED BY <1>2, <2>1
<1>4. ErrorsTold([c EXCEPT !.rs = f, !.waiting = W])
  <2> DEFINE e == [c EXCEPT !.rs = f, !.waiting = W]
  <2>1. e \in ServerConnShape /\ e.rs = f /\ e.qfailed = c.qfailed
    BY <1>0, <1>1
  <2> QED BY <1>2, <2>1
<1>5. ErrorsTold([c EXCEPT !.waiting = W, !.rs = f, !.wake = K])
  <2> DEFINE e == [c EXCEPT !.waiting = W, !.rs = f, !.wake = K]
  <2>1. e \in ServerConnShape /\ e.rs = f /\ e.qfailed = c.qfailed
    BY <1>0, <1>1
  <2> QED BY <1>2, <2>1
<1>6. ErrorsTold([c EXCEPT !.rq = g])
  <2> DEFINE e == [c EXCEPT !.rq = g]
  <2>1. e \in ServerConnShape /\ e.rs = c.rs /\ e.qfailed = c.qfailed
    BY <1>0, <1>1
  <2> QED BY <1>2, <2>1
<1>7. ErrorsTold([c EXCEPT !.rq = g, !.qclosed = a])
  <2> DEFINE e == [c EXCEPT !.rq = g, !.qclosed = a]
  <2>1. e \in ServerConnShape /\ e.rs = c.rs /\ e.qfailed = c.qfailed
    BY <1>0, <1>1
  <2> QED BY <1>2, <2>1
<1>8. [c EXCEPT !.waiting = W].rs = c.rs
  BY <1>0
<1> QED BY <1>0, <1>3, <1>4, <1>5, <1>6, <1>7, <1>8 DEF f, g

\* The functions that are called with the mutex held.
LEMMA CallsKeepErrors ==
    ASSUME NEW c, ErrorsTold(c), NEW s \in Nat
    PROVE  /\ ErrorsTold(Server!Erase(c, s))
           /\ \A b \in BOOLEAN : ErrorsTold(Server!EraseIf(c, s, b))
           /\ ErrorsTold(Server!scheduleNextRequest(c, s))
           /\ ErrorsTold(Server!scheduleAllWaitingResponses(c))
<1>0. /\ c.pending \in SUBSET Nat /\ c.waiting \in SUBSET Server!Served /\ c.wake \in SUBSET Nat
      /\ c.started \in SUBSET Nat
  BY DEF ErrorsTold, ServerConnShape
<1>1. ErrorsTold(Server!Erase(c, s))
  BY <1>0, ListsKeepErrors DEF Server!Erase
<1>2. ErrorsTold(Server!scheduleNextRequest(c, s))
  <2>1. /\ s + 1 \in Nat /\ c.pending \cup {s + 1} \in SUBSET Nat
        /\ c.started \cup {s + 1} \in SUBSET Nat
    BY <1>0
  <2>2. ErrorsTold([c EXCEPT !.count = s + 1, !.pending = c.pending \cup {s + 1},
                             !.started = c.started \cup {s + 1}])
    BY <2>1, ListsKeepErrors
  <2> QED BY <2>2 DEF Server!scheduleNextRequest
<1>3. ErrorsTold(Server!scheduleAllWaitingResponses(c))
  <2> DEFINE first == IF c.qfailed < c.rclosed THEN c.qfailed ELSE c.rclosed
             W == {r \in c.pending \cap c.waiting : r >= first}
  <2>1. W \in SUBSET Nat
    BY <1>0
  <2> HIDE DEF W
  <2>2. /\ c.waiting \ W \in SUBSET Server!Served /\ c.wake \cup W \in SUBSET Nat /\ c.pending \ W \in SUBSET Nat
    BY <1>0, <2>1
  <2>3. ErrorsTold([c EXCEPT !.waiting = c.waiting \ W, !.wake = c.wake \cup W, !.pending = c.pending \ W])
    BY <2>2, ListsKeepErrors
  <2> QED BY <2>3 DEF Server!scheduleAllWaitingResponses, W
<1> QED BY <1>1, <1>2, <1>3 DEF Server!EraseIf

LEMMA StartingKeepsErrors ==
    ASSUME NEW c, ErrorsTold(c), NEW s PROVE ErrorsTold(Server!StartResponse(c, s))
<1>1. CASE s \in c.waiting
  <2>1. /\ s \in Server!Served /\ s \in Nat /\ c.waiting \ {s} \in SUBSET Server!Served
        /\ c.wake \cup {s} \in SUBSET Nat /\ 2 \in Nat /\ 2 # Server!ERROR /\ 0 \in Nat
    BY <1>1, HTTPAssumption DEF ErrorsTold, ServerConnShape, Server!Served
  <2>2. ErrorsTold([c EXCEPT !.waiting = c.waiting \ {s}, !.rs[s] = 2, !.wake = c.wake \cup {s}])
    BY <2>1, StatesKeepErrors
  <2>3. /\ [c EXCEPT !.waiting = c.waiting \ {s}].rs = c.rs
        /\ [c EXCEPT !.waiting = c.waiting \ {s}, !.rs[s] = 2].wake = c.wake
    BY DEF ErrorsTold, ServerConnShape
  <2> QED BY <1>1, <2>2, <2>3 DEF Server!StartResponse
<1>2. CASE s \notin c.waiting
  BY <1>2 DEF Server!StartResponse
<1> QED BY <1>1, <1>2

LEMMA RespondingKeepsErrors ==
    ASSUME NEW c, ErrorsTold(c), NEW s \in Server!Served, NEW b \in BOOLEAN
    PROVE  ErrorsTold(Server!RespondsNow(c, s, b))
<1> DEFINE e == [c EXCEPT !.rs[s] = 2]
<1>1. c \in ServerConnShape /\ s \in Nat /\ 2 \in Nat /\ 2 # Server!ERROR
  BY HTTPAssumption DEF Server!Served, ErrorsTold
<1>2. ErrorsTold(e)
  <2>1. {} \in SUBSET Nat /\ {} \in SUBSET Server!Served /\ 0 \in Nat
    OBVIOUS
  <2> QED BY <1>1, <2>1, StatesKeepErrors
<1> HIDE DEF e
<1>3. ErrorsTold([e EXCEPT !.rclosed = s])
  <2>1. {} \in SUBSET Nat /\ {} \in SUBSET Server!Served /\ 0 \in Nat
    OBVIOUS
  <2> QED BY <1>1, <1>2, <2>1, ListsKeepErrors
<1>4. ErrorsTold(Server!scheduleAllWaitingResponses([e EXCEPT !.rclosed = s]))
  BY <1>1, <1>3, CallsKeepErrors
<1> QED BY <1>2, <1>4 DEF Server!RespondsNow, e

\* A failure is told: of s, and of the response that cancel() leaves as ERROR.
LEMMA FailingKeepsErrors ==
    ASSUME NEW c, ErrorsTold(c), NEW s \in Server!Served
    PROVE  ErrorsTold(Server!scheduleAllWaitingResponses(Server!Failed(c, s)))
<1> DEFINE a == IF s < c.qfailed THEN s ELSE c.qfailed
           e == [c EXCEPT !.qfailed = a]
<1>1. c \in ServerConnShape /\ s \in Nat /\ c.qfailed \in Nat
  BY HTTPAssumption DEF Server!Served, ErrorsTold, ServerConnShape
<1>2. a \in Nat /\ a <= c.qfailed
  BY <1>1
<1> HIDE DEF a
<1>3. e \in ServerConnShape /\ e.rs = c.rs /\ e.qfailed = a
  BY <1>1, <1>2 DEF ServerConnShape
<1> HIDE DEF e
<1>4. ErrorsTold(e)
  BY <1>2, <1>3, ErrorsToldFrom
<1>5. Server!Failed(c, s) = e
  BY DEF Server!Failed, e, a
<1> QED BY <1>1, <1>4, <1>5, CallsKeepErrors

LEMMA CancellingKeepsErrors ==
    ASSUME ErrorsTold(serverConn), NEW s \in Server!Served
    PROVE  ErrorsTold(Server!cancel(s))
<1> DEFINE c == Server!Erase(serverConn, s)
           u == IF c.rq[s] < Server!COMPLETE THEN Server!ERROR ELSE c.rq[s]
           v == IF c.rs[s] < Server!COMPLETE THEN Server!ERROR ELSE c.rs[s]
           f == [c.rq EXCEPT ![s] = u]
           g == [c.rs EXCEPT ![s] = v]
           d == [c EXCEPT !.rq = f, !.rs = g]
           a == IF s < d.qfailed THEN s ELSE d.qfailed
           e == [d EXCEPT !.qfailed = a]
<1>1. s \in Nat
  BY HTTPAssumption DEF Server!Served
<1>2. ErrorsTold(c)
  BY <1>1, CallsKeepErrors
<1> HIDE DEF c
<1>3. c \in ServerConnShape /\ c.rq \in [Server!Served -> Nat] /\ c.rs \in [Server!Served -> Nat]
  BY <1>2 DEF ErrorsTold, ServerConnShape
<1>4. u \in Nat /\ v \in Nat
  BY <1>3
<1> HIDE DEF u, v
<1>5. /\ f \in [Server!Served -> Nat] /\ g \in [Server!Served -> Nat]
      /\ \A r \in Server!Served : r # s => g[r] = c.rs[r]
  BY <1>3, <1>4
<1> HIDE DEF f, g
<1>6. d \in ServerConnShape /\ d.rs = g /\ d.qfailed = c.qfailed
  BY <1>3, <1>5 DEF ServerConnShape
<1>7. c.qfailed \in Nat
  BY <1>3 DEF ServerConnShape
<1>8. a \in Nat /\ a <= c.qfailed /\ a <= s
  BY <1>1, <1>6, <1>7
<1> HIDE DEF d, a
<1>9. e \in ServerConnShape /\ e.rs = g /\ e.qfailed = a
  BY <1>6, <1>8 DEF ServerConnShape
<1> HIDE DEF e
<1>10. ErrorsTold(e)
  BY <1>2, <1>5, <1>8, <1>9, ErrorsToldFrom
<1>11. ErrorsTold(Server!scheduleAllWaitingResponses(e))
  BY <1>1, <1>10, CallsKeepErrors
<1>12. [c EXCEPT !.rq = f].rs = c.rs
  BY <1>3 DEF ServerConnShape
<1>13. e = Server!Failed([Server!Erase(serverConn, s)
                             EXCEPT !.rq[s] = IF @ < Server!COMPLETE THEN Server!ERROR ELSE @,
                                    !.rs[s] = IF @ < Server!COMPLETE THEN Server!ERROR ELSE @], s)
  BY <1>12 DEF Server!Failed, c, d, e, a, f, g, u, v
<1> QED BY <1>11, <1>13 DEF Server!cancel

LEMMA ReadingKeepsErrors ==
    ASSUME NEW c, ErrorsTold(c), NEW s \in Server!Served, NEW b \in BOOLEAN
    PROVE  ErrorsTold(Server!requestComplete(c, s, b))
<1> DEFINE a == IF b THEN s ELSE c.qclosed
           d == [c EXCEPT !.rq[s] = Server!COMPLETE, !.qclosed = a]
           done == Server!EraseIf(d, s, c.rs[s] >= Server!COMPLETE)
<1>1. c \in ServerConnShape /\ s \in Nat /\ c.qclosed \in Nat /\ 4 \in Nat /\ 0 \in Nat
      /\ 0 # Server!ERROR /\ {} \in SUBSET Nat /\ {} \in SUBSET Server!Served
  BY HTTPAssumption DEF Server!Served, ErrorsTold, ServerConnShape
<1>2. a \in Nat
  BY <1>1
<1> HIDE DEF a
<1>3. ErrorsTold(d)
  BY <1>1, <1>2, StatesKeepErrors
<1> HIDE DEF d
<1>4. ErrorsTold(done)
  <2>1. (c.rs[s] >= Server!COMPLETE) \in BOOLEAN
    OBVIOUS
  <2> QED BY <1>1, <1>3, <2>1, CallsKeepErrors
<1>5. done = Server!EraseIf([c EXCEPT !.rq[s] = Server!COMPLETE,
                                       !.qclosed = IF b THEN s ELSE @], s, c.rs[s] >= Server!COMPLETE)
  <2>1. [c EXCEPT !.rq[s] = Server!COMPLETE].qclosed = c.qclosed
    BY <1>1 DEF ServerConnShape
  <2> QED BY <2>1 DEF d, a
<1> HIDE DEF done
<1>6. ErrorsTold(Server!scheduleNextRequest(done, s))
  BY <1>1, <1>4, CallsKeepErrors
<1> QED BY <1>4, <1>5, <1>6, Zenon DEF Server!requestComplete

LEMMA ServerErrors ==
    ASSUME ServerInv, ErrorsTold(serverConn), [Server!HTTPServerNext]_(Server!serverVars)
    PROVE  ErrorsTold(serverConn')
<1> DEFINE c == serverConn
<1>0. /\ {} \in SUBSET Nat /\ {} \in SUBSET Server!Served /\ {1} \in SUBSET Nat /\ 0 \in Nat
      /\ 1 \in Nat /\ 2 \in Nat /\ 3 \in Nat /\ 4 \in Nat /\ 5 \in Nat
      /\ 0 # Server!ERROR /\ 1 # Server!ERROR /\ 2 # Server!ERROR /\ 3 # Server!ERROR
      /\ 4 # Server!ERROR
  OBVIOUS
<1>1. \A s \in Server!Served : s \in Nat /\ m_willClose[s] \in BOOLEAN
  BY HTTPAssumption DEF Server!Served, ServerInv
<1>2. /\ c.pending \in SUBSET Nat /\ c.waiting \in SUBSET Server!Served /\ c.wake \in SUBSET Nat /\ c.qclosed \in Nat
      /\ c.rclosed \in Nat
  BY DEF ErrorsTold, ServerConnShape
<1>3. CASE Server!processRequests
  <2>1. ErrorsTold([c EXCEPT !.count = 1, !.pending = {1}, !.started = {1}])
    BY <1>0, ListsKeepErrors
  <2> QED BY <1>3, <2>1 DEF Server!processRequests
<1>4. CASE Server!CancelConnection \/ UNCHANGED Server!serverVars
  BY <1>4 DEF Server!CancelConnection, Server!serverVars
<1>5. ASSUME NEW s \in Server!Served, Server!processNextRequest(s) PROVE ErrorsTold(serverConn')
  BY <1>1, <1>5, CallsKeepErrors DEF Server!processNextRequest
<1>6. ASSUME NEW s \in Server!Served,
             \/ Server!ReadEnds(s) \/ Server!RequestBodyFails(s) \/ Server!ResponseCancelled(s)
             \/ Server!Destroy(s) \/ Server!CloseFails(s) \/ Server!WriteHeadersFails(s)
      PROVE  ErrorsTold(serverConn')
  <2>1. serverConn' = Server!cancel(s)
        \/ serverConn' = Server!scheduleAllWaitingResponses(Server!Failed(c, s))
    BY <1>6 DEF Server!ReadEnds, Server!RequestBodyFails, Server!ResponseCancelled, Server!Destroy,
                Server!CloseFails, Server!WriteHeadersFails, Server!Cancels, Server!Fails
  <2>2. ErrorsTold(Server!cancel(s))
    BY CancellingKeepsErrors
  <2>3. ErrorsTold(Server!scheduleAllWaitingResponses(Server!Failed(c, s)))
    BY FailingKeepsErrors
  <2> QED BY <2>1, <2>2, <2>3
<1>7. ASSUME NEW s \in Server!Served, Server!ReadBad(s) PROVE ErrorsTold(serverConn')
  <2>1. PICK parsed \in BOOLEAN :
           serverConn' = [c EXCEPT !.rq[s] = 5, !.qclosed = IF parsed THEN @ ELSE s]
    BY <1>7 DEF Server!ReadBad
  <2> DEFINE a == IF parsed THEN c.qclosed ELSE s
  <2>2. a \in Nat
    BY <1>1, <1>2
  <2>3. serverConn' = [c EXCEPT !.rq[s] = 5, !.qclosed = a]
    <3>1. [c EXCEPT !.rq[s] = 5].qclosed = c.qclosed
      BY DEF ErrorsTold, ServerConnShape
    <3> QED BY <2>1, <3>1
  <2> HIDE DEF a
  <2> QED BY <1>0, <2>2, <2>3, StatesKeepErrors
<1>8. ASSUME NEW s \in Server!Served, Server!ReadRequest(s) \/ Server!requestDone(s)
      PROVE  ErrorsTold(serverConn')
  <2>1. \/ serverConn' = [c EXCEPT !.rq[s] = 3]
        \/ \E b \in BOOLEAN : serverConn' = Server!requestComplete(c, s, b)
    BY <1>1, <1>8 DEF Server!ReadRequest, Server!requestDone
  <2>2. ErrorsTold([c EXCEPT !.rq[s] = 3])
    BY <1>0, StatesKeepErrors
  <2>3. \A b \in BOOLEAN : ErrorsTold(Server!requestComplete(c, s, b))
    BY ReadingKeepsErrors
  <2> QED BY <2>1, <2>2, <2>3
<1>9. ASSUME NEW s \in Server!Served, Server!commit(s) PROVE ErrorsTold(serverConn')
  <2>1. \/ serverConn' = Server!Erase(c, s)
        \/ \E b \in BOOLEAN : serverConn' = Server!RespondsNow(c, s, b)
        \/ serverConn' = [c EXCEPT !.rs[s] = 1, !.waiting = c.waiting \cup {s}]
    <3>1. [c EXCEPT !.rs[s] = 1].waiting = c.waiting
      BY DEF ErrorsTold, ServerConnShape
    <3> QED BY <1>1, <1>9, <3>1 DEF Server!commit
  <2>2. ErrorsTold(Server!Erase(c, s))
    BY <1>1, CallsKeepErrors
  <2>3. \A b \in BOOLEAN : ErrorsTold(Server!RespondsNow(c, s, b))
    BY RespondingKeepsErrors
  <2>4. c.waiting \cup {s} \in SUBSET Server!Served
    BY <1>1, <1>2
  <2>5. ErrorsTold([c EXCEPT !.rs[s] = 1, !.waiting = c.waiting \cup {s}])
    BY <1>0, <2>4, StatesKeepErrors
  <2> QED BY <2>1, <2>2, <2>3, <2>5
<1>10. ASSUME NEW s \in Server!Served, Server!Woken(s) PROVE ErrorsTold(serverConn')
  <2> DEFINE d == [c EXCEPT !.wake = c.wake \ {s}]
  <2>1. c.wake \ {s} \in SUBSET Nat
    BY <1>2
  <2>2. ErrorsTold(d)
    BY <1>0, <2>1, ListsKeepErrors
  <2> HIDE DEF d
  <2>3. ErrorsTold(Server!RespondsNow(d, s, m_willClose[s]))
    BY <1>1, <2>2, RespondingKeepsErrors
  <2>4. serverConn' = d \/ serverConn' = Server!RespondsNow(d, s, m_willClose[s])
    BY <1>10 DEF Server!Woken, d
  <2> QED BY <2>2, <2>3, <2>4
<1>11. ASSUME NEW s \in Server!Served,
              Server!WriteHeaders(s) \/ Server!responseDone(s) \/ Server!Closes(s) \/ Server!finish(s)
       PROVE  ErrorsTold(serverConn')
  <2>1. serverConn' = c \/ serverConn' = [c EXCEPT !.rs[s] = 3]
    BY <1>11 DEF Server!WriteHeaders, Server!responseDone, Server!Closes, Server!finish
  <2>2. ErrorsTold([c EXCEPT !.rs[s] = 3])
    BY <1>0, StatesKeepErrors
  <2> QED BY <2>1, <2>2
<1>12. ASSUME NEW s \in Server!Served, Server!responseComplete(s) \/ Server!ResponseLeaves(s)
       PROVE  ErrorsTold(serverConn')
  <2> DEFINE d == [c EXCEPT !.rs[s] = 4]
             done == Server!EraseIf(d, s, c.rq[s] >= 4)
  <2>1. ErrorsTold(d)
    BY <1>0, StatesKeepErrors
  <2> HIDE DEF d
  <2>2. ErrorsTold(done)
    <3>1. (c.rq[s] >= 4) \in BOOLEAN
      OBVIOUS
    <3> QED BY <1>1, <2>1, <3>1, CallsKeepErrors
  <2> HIDE DEF done
  <2>3. ErrorsTold(Server!scheduleNextRequest(done, s)) /\ ErrorsTold(Server!scheduleNextRequest(c, s))
    BY <1>1, <2>2, CallsKeepErrors
  <2>4. \A x : /\ ErrorsTold(Server!StartResponse(done, x))
               /\ ErrorsTold(Server!StartResponse(Server!scheduleNextRequest(done, s), x))
    BY <2>2, <2>3, StartingKeepsErrors
  <2>5. ASSUME NEW e, ErrorsTold(e)
        PROVE  ErrorsTold([e EXCEPT !.rclosed = IF m_willClose[s] THEN s ELSE @])
    <3> DEFINE a == IF m_willClose[s] THEN s ELSE e.rclosed
    <3>1. a \in Nat
      BY <1>1, <2>5 DEF ErrorsTold, ServerConnShape
    <3> HIDE DEF a
    <3>2. ErrorsTold([e EXCEPT !.rclosed = a])
      BY <1>0, <2>5, <3>1, ListsKeepErrors
    <3> QED BY <3>2 DEF a
  <2>6. CASE Server!ResponseLeaves(s)
    <3>1. \E x : serverConn' = Server!StartResponse(done, x)
      BY <2>6 DEF Server!ResponseLeaves, done, d
    <3> QED BY <2>4, <3>1
  <2>7. CASE Server!responseComplete(s)
    <3>1. \/ \E x : serverConn' = Server!StartResponse(Server!scheduleNextRequest(done, s), x)
          \/ serverConn' = [Server!scheduleNextRequest(c, s) EXCEPT !.rclosed = IF m_willClose[s] THEN s ELSE @]
          \/ serverConn' = [c EXCEPT !.rclosed = IF m_willClose[s] THEN s ELSE @]
      BY <2>7 DEF Server!responseComplete, done, d
    <3> QED BY <2>3, <2>4, <2>5, <3>1
  <2> QED BY <1>12, <2>6, <2>7
<1> QED BY <1>3, <1>4, <1>5, <1>6, <1>7, <1>8, <1>9, <1>10, <1>11, <1>12
        DEF Server!HTTPServerNext, Server!HTTPServerStep

\* What the invariant says of the list, of the fibers, and of the order of the responses.
LEMMA ServerInvImplies ==
    ServerInv /\ ErrorsTold(serverConn) => Server!ServerInvariant /\ Server!ResponsesInOrder
<1> SUFFICES ASSUME ServerInv, ErrorsTold(serverConn) PROVE Server!ServerInvariant /\ Server!ResponsesInOrder
  OBVIOUS
<1> DEFINE c == serverConn
<1>1. \A r \in Server!Served : ServerFacts(c, r) /\ ServerOK(c, serverAt[r], m_willClose[r], r)
  BY ServerKnows
<1>2. c.pending \subseteq Server!Served /\ c.waiting \subseteq Server!Served /\ Server!Served \subseteq Nat
  BY HTTPAssumption DEF ServerInv, ServerHolds, ServerConnType, Server!Served
<1>3. ASSUME NEW r \in c.pending
      PROVE  /\ c.rq[r] < Server!COMPLETE \/ c.rs[r] < Server!COMPLETE
             /\ Server!IsFirst(c, r) \/ c.rs[r] < Server!COMPLETE
             /\ c.rq[r] < Server!COMPLETE => \A x \in c.pending : x <= r
  <2>1. r \in Server!Served /\ ServerFacts(c, r) /\ ServerOK(c, serverAt[r], m_willClose[r], r)
    BY <1>1, <1>2
  <2>2. c.rq[r] < Server!COMPLETE \/ c.rs[r] < Server!COMPLETE
    BY <2>1 DEF ServerOK, AlmostOK, InListWhile
  <2>3. Server!IsFirst(c, r) \/ c.rs[r] < Server!COMPLETE
    BY <2>1 DEF ServerFacts, ServerOK, AlmostOK, InTurn
  <2>4. ASSUME c.rq[r] < Server!COMPLETE, NEW x \in c.pending PROVE x <= r
    <3>1. x \in Server!Served /\ x \in Nat /\ ServerOK(c, serverAt[x], m_willClose[x], x)
      BY <1>1, <1>2
    <3> QED BY <2>1, <2>4, <3>1 DEF ServerFacts, ServerOK, AlmostOK, ReadInOrder
  <2> QED BY <2>2, <2>3, <2>4
<1>4. \A r \in c.waiting : c.rs[r] = Server!WAITING /\ r \in c.pending
  BY <1>1, <1>2 DEF ServerOK, AlmostOK, WaitsForTurn
<1>5. ASSUME NEW r \in Server!Served
      PROVE  /\ serverAt[r] \in {"completed", "unlocked"} => Server!IsFirst(c, r)
             /\ (serverAt[r] = "handler" /\ c.rq[r] = Server!BODY) => r \in c.pending /\ \A x \in c.pending : x <= r
             /\ serverAt[r] = "gone" => r \notin c.pending /\ r \notin c.waiting
  <2>1. ServerFacts(c, r) /\ ServerOK(c, serverAt[r], m_willClose[r], r)
    BY <1>1
  <2>2. serverAt[r] \in {"completed", "unlocked"} => Server!IsFirst(c, r)
    BY <2>1 DEF ServerOK, AlmostOK, InTurn, Responds
  <2>3. serverAt[r] = "handler" /\ c.rq[r] = Server!BODY => r \in c.pending
    BY <2>1 DEF ServerOK, AlmostOK, InListWhile
  <2>4. serverAt[r] = "gone" => r \notin c.pending /\ r \notin c.waiting
    BY <2>1 DEF ServerOK, AlmostOK, InListWhile, WaitsForTurn
  <2> QED BY <1>3, <2>2, <2>3, <2>4
<1>6. ASSUME NEW r \in Server!Served,
             serverAt[r] \in {"writing", "completing", "completed", "unlocked"} \/ c.rs[r] = Server!BODY
      PROVE  (\A s \in 1 .. r - 1 : c.rs[s] = Server!COMPLETE) /\ c.qfailed >= r /\ c.rclosed >= r
  <2>1. ServerFacts(c, r) /\ ServerOK(c, serverAt[r], m_willClose[r], r)
    BY <1>1
  <2>2. (\A s \in 1 .. r - 1 : c.rs[s] >= Server!COMPLETE) /\ c.qfailed >= r /\ c.rclosed >= r
    BY <1>6, <2>1 DEF ServerFacts, ServerOK, AlmostOK, InTurn, Responds, NoTurn
  <2>3. ASSUME NEW s \in 1 .. r - 1 PROVE c.rs[s] = Server!COMPLETE
    <3>1. s \in Server!Served /\ s < r /\ s \in Nat /\ r \in Nat /\ c.qfailed \in Nat
      BY <2>1, HTTPAssumption DEF Server!Served, ServerFacts
    <3>2. c.rs[s] \in 0..5 /\ c.rs[s] >= Server!COMPLETE
      BY <1>1, <2>2, <3>1 DEF ServerFacts
    <3>3. c.rs[s] # Server!ERROR
      BY <2>2, <3>1 DEF ErrorsTold
    <3> QED BY <3>2, <3>3
  <2> QED BY <2>2, <2>3
<1>7. Server!ServerInvariant
  BY <1>3, <1>4, <1>5 DEF Server!ServerInvariant
<1> QED BY <1>6, <1>7 DEF Server!ResponsesInOrder


-----------------------------------------------------------------------------
(* The client.                                                             *)

AtPlaces == {"idle", "waiting", "headers", "body", "written", "yielded", "flushing", "flushed",
             "halfClose", "failing", "returned", "threw", "gone"}
RatPlaces == {"idle", "waiting", "reading", "body", "read", "returned", "threw", "gone"}

ClientConnType ==
    [pending : SUBSET Client!Requests, current : Nat, waiting : SUBSET Client!Requests,
     rq : [Client!Requests -> Client!PENDING .. Client!CANCELED],
     rs : [Client!Requests -> Client!PENDING .. Client!CANCELED],
     failed : BOOLEAN, rfailed : Nat, rclosed : Nat, allow : BOOLEAN,
     wakeQ : SUBSET Client!Requests, wakeR : SUBSET Client!Requests]

\* The connection takes no more requests.
Ends(c) == c.failed \/ c.rfailed # Client!Never \/ c.rclosed # Client!Never

\* The list: requests before m_currentRequest have been sent, the ones after it wait, and
\* they get in only on a connection that goes on.
InPlace(c, r) ==
    /\ c.current = Client!End \/ r < c.current => c.rq[r] >= Client!COMPLETE
    /\ c.current # Client!End /\ r > c.current => c.rq[r] = Client!WAITING
    /\ c.rq[r] = Client!WAITING => c.rs[r] = Client!PENDING
    /\ c.rq[r] < Client!COMPLETE \/ c.rs[r] < Client!COMPLETE
ListAlmost(c) ==
    /\ c.current # Client!End => /\ c.current \in c.pending
                                 /\ c.rq[c.current] \in {Client!WAITING, Client!HEADERS, Client!BODY}
    /\ \A r \in c.pending : InPlace(c, r)
    /\ \A r \in Client!Requests : c.rq[r] \in {Client!HEADERS, Client!BODY} => c.current = r
ListOK(c) ==
    /\ ListAlmost(c)
    /\ c.current # Client!End => c.rq[c.current] \in {Client!HEADERS, Client!BODY}
    /\ Ends(c) => \A r \in c.pending : c.rq[r] # Client!WAITING

\* A request that cancel() took out while it was sent.
Dead(c, r) == c.current = Client!End /\ r \notin c.pending /\ c.rq[r] >= Client!COMPLETE /\ Ends(c)

\* The fiber that sends.
AsksOK(c, n, q, p, r) ==
    /\ q = "idle" <=> r > n
    /\ q = "idle" => r \notin c.pending /\ c.rq[r] = Client!WAITING
    /\ q \in {"idle", "waiting"} => p = "idle" /\ c.rs[r] = Client!PENDING
    /\ q = "waiting" =>
          \/ r \notin c.wakeQ /\ r \in c.pending /\ c.rq[r] = Client!WAITING /\ c.current # Client!End
          \/ r \in c.wakeQ /\ c.rq[r] = Client!HEADERS
          \/ r \in c.wakeQ /\ c.rq[r] = Client!WAITING /\ r \notin c.pending /\ Ends(c)
    /\ r \in c.wakeQ => q = "waiting"
    /\ c.rq[r] = Client!WAITING => q \in {"idle", "waiting"}
SendsOK(c, q, p, r) ==
    /\ q = "headers" => c.rq[r] = Client!HEADERS \/ Dead(c, r)
    /\ q = "body" => c.rq[r] = Client!BODY \/ Dead(c, r)
    /\ q \in {"written", "yielded", "flushing", "flushed", "halfClose", "failing"}
          => c.rq[r] \in {Client!HEADERS, Client!BODY} \/ Dead(c, r)
    /\ q \in {"returned", "threw", "gone"} => c.rq[r] >= Client!COMPLETE
    /\ q = "gone" => r \notin c.pending
    /\ q = "gone" <=> p = "gone"
    /\ q \notin {"idle", "waiting"} /\ r \notin c.pending => c.rs[r] >= Client!COMPLETE

\* The fiber that reads.
ReadsOK(c, p, r) ==
    /\ p = "idle" => c.rs[r] \in {Client!PENDING, Client!ERROR, Client!CANCELED}
    /\ p = "waiting" => r \in c.waiting \/ r \in c.wakeR
    /\ p = "reading" => c.rs[r] = Client!HEADERS
    /\ p \in {"body", "read"} => c.rs[r] = Client!BODY
    /\ p \in {"returned", "threw", "gone"} => c.rs[r] >= Client!COMPLETE
    /\ c.rs[r] = Client!WAITING <=> r \in c.waiting
    /\ r \in c.waiting => p = "waiting" /\ r \in c.pending /\ Client!UpToCurrent(c, r)
    /\ r \in c.wakeR => p = "waiting" /\ c.rs[r] \in {Client!HEADERS, Client!ERROR, Client!CANCELED}
    /\ c.rs[r] \in {Client!HEADERS, Client!BODY} => Client!IsFirst(c, r)
    /\ c.rs[r] = Client!COMPLETE /\ r \in c.pending => Client!IsFirst(c, r)

\* Whoever waits for a response is not the first, and will get it; in the middle of a
\* critical section it may be about to be told that it will not.
NotComing(c, r) == r > c.rfailed \/ r > c.rclosed
InLine(c) == \A r \in c.waiting : ~Client!IsFirst(c, r) /\ ~NotComing(c, r)
InLineAlmost(c) == \A r \in c.waiting : ~Client!IsFirst(c, r) \/ NotComing(c, r)

ClientFibers(c, n, q, p) ==
    \A r \in Client!Requests : AsksOK(c, n, q[r], p[r], r) /\ SendsOK(c, q[r], p[r], r) /\ ReadsOK(c, p[r], r)
ClientHolds(c, n, q, p) == c \in ClientConnType /\ ListOK(c) /\ ClientFibers(c, n, q, p) /\ InLine(c)

ClientInv ==
    /\ m_requestCount \in Nat
    /\ clientAt \in [Client!Requests -> AtPlaces]
    /\ rat \in [Client!Requests -> RatPlaces]
    /\ ClientHolds(clientConn, m_requestCount, clientAt, rat)

\* What the invariant says of the types of the parts.
ClientFacts(c) ==
    /\ c \in ClientConnType /\ c.current \in Nat /\ c.rfailed \in Nat /\ c.rclosed \in Nat
    /\ c.rq \in [Client!Requests -> 0..6] /\ c.rs \in [Client!Requests -> 0..6]
    /\ c.pending \subseteq Client!Requests /\ c.waiting \subseteq Client!Requests
    /\ c.wakeQ \subseteq Client!Requests /\ c.wakeR \subseteq Client!Requests
    /\ c.failed \in BOOLEAN /\ c.allow \in BOOLEAN
    /\ 0 \in 0..6 /\ 1 \in 0..6 /\ 2 \in 0..6 /\ 3 \in 0..6 /\ 4 \in 0..6 /\ 5 \in 0..6 /\ 6 \in 0..6

LEMMA ClientTypes == ASSUME NEW c \in ClientConnType PROVE ClientFacts(c)
BY DEF ClientConnType, ClientFacts

LEMMA RequestNumbers ==
    /\ \A r \in Client!Requests : r \in Nat /\ r > 0 /\ r # Client!End /\ r < Client!Never
    /\ Client!End = 0 /\ Client!Never \in Nat
BY HTTPAssumption DEF Client!Requests, Client!End, Client!Never

LEMMA ClientInitInv == Client!HTTPClientInit => ClientInv
<1> SUFFICES ASSUME Client!HTTPClientInit PROVE ClientInv
  OBVIOUS
<1> USE HTTPAssumption DEF Client!HTTPClientInit, Client!Requests, Client!Never, Client!End
<1>1. clientConn \in ClientConnType
  BY DEF ClientConnType
<1>2. ListOK(clientConn) /\ InLine(clientConn)
  BY DEF ListOK, ListAlmost, InLine, Ends
<1>3. ASSUME NEW r \in Client!Requests
      PROVE  /\ AsksOK(clientConn, m_requestCount, clientAt[r], rat[r], r)
             /\ SendsOK(clientConn, clientAt[r], rat[r], r) /\ ReadsOK(clientConn, rat[r], r)
  BY DEF AsksOK, SendsOK, ReadsOK
<1> QED BY <1>1, <1>2, <1>3 DEF ClientInv, ClientHolds, ClientFibers, AtPlaces, RatPlaces

\* The request after r in the list, if there is one.
LEMMA FollowingIs ==
    ASSUME NEW c, c.pending \subseteq Client!Requests, NEW r \in Nat
    PROVE  \/ /\ Client!Following(c, r) = Client!End
              /\ r \notin c.pending \/ \A x \in c.pending : ~(x > r)
           \/ /\ r \in c.pending /\ Client!Following(c, r) \in c.pending /\ Client!Following(c, r) > r
              /\ Client!Following(c, r) # Client!End
              /\ \A x \in c.pending : x > r => Client!Following(c, r) <= x
<1> DEFINE later == {x \in c.pending : x > r}
<1>1. later \in SUBSET Nat
  BY RequestNumbers
<1>2. Client!Following(c, r) = IF r \notin c.pending \/ later = {} THEN Client!End
                               ELSE CHOOSE x \in later : \A y \in later : x <= y
  BY DEF Client!Following, Client!Min
<1>3. CASE r \notin c.pending \/ later = {}
  BY <1>2, <1>3
<1>4. CASE r \in c.pending /\ later # {}
  <2>1. \E x \in later : \A y \in later : x <= y
    BY <1>1, <1>4, LeastOf
  <2>2. Client!Following(c, r) \in later /\ \A y \in later : Client!Following(c, r) <= y
    BY <1>2, <1>4, <2>1
  <2> QED BY <1>4, <2>2, RequestNumbers
<1> QED BY <1>3, <1>4


\* scheduleAllWaitingRequests() wakes whoever waits to request, and takes them out.
Refused(c) == {r \in c.pending : c.current # Client!End /\ r >= c.current /\ c.rq[r] = Client!WAITING}

LEMMA RefusesThem ==
    ASSUME NEW c \in ClientConnType
    PROVE  LET e == Client!scheduleAllWaitingRequests(c)
           IN /\ e \in ClientConnType
              /\ e.pending = c.pending \ Refused(c)
              /\ e.current = IF c.current \in Refused(c) THEN Client!End ELSE c.current
              /\ e.wakeQ = c.wakeQ \cup Refused(c)
              /\ e.waiting = c.waiting /\ e.wakeR = c.wakeR /\ e.rq = c.rq /\ e.rs = c.rs
              /\ e.failed = c.failed /\ e.rfailed = c.rfailed /\ e.rclosed = c.rclosed
<1> DEFINE W == Refused(c)
           m == IF c.current \in W THEN Client!End ELSE c.current
           e == Client!scheduleAllWaitingRequests(c)
<1>1. ClientFacts(c) /\ Client!End \in Nat
  BY ClientTypes, RequestNumbers
<1>2. e = [c EXCEPT !.pending = @ \ W, !.current = m, !.wakeQ = @ \cup W]
  BY <1>1 DEF Client!scheduleAllWaitingRequests, Refused, ClientConnType
<1>3. W \subseteq Client!Requests /\ m \in Nat
  BY <1>1 DEF Refused, ClientFacts
<1> HIDE DEF W, e, m
<1>4. e \in ClientConnType
  BY <1>1, <1>2, <1>3 DEF ClientConnType, ClientFacts
<1>5. /\ e.pending = c.pending \ W /\ e.current = m /\ e.wakeQ = c.wakeQ \cup W
      /\ e.waiting = c.waiting /\ e.wakeR = c.wakeR /\ e.rq = c.rq /\ e.rs = c.rs
      /\ e.failed = c.failed /\ e.rfailed = c.rfailed /\ e.rclosed = c.rclosed
  BY <1>2 DEF ClientConnType
<1> QED BY <1>4, <1>5 DEF W, e, m

LEMMA RefusingKeeps ==
    ASSUME NEW c \in ClientConnType, NEW n, NEW q, NEW p, ListAlmost(c), Ends(c),
           ClientFibers(c, n, q, p), InLineAlmost(c)
    PROVE  LET e == Client!scheduleAllWaitingRequests(c)
           IN /\ e \in ClientConnType /\ ListOK(e) /\ ClientFibers(e, n, q, p) /\ InLineAlmost(e)
              /\ InLine(c) => InLine(e)
<1> DEFINE e == Client!scheduleAllWaitingRequests(c)
           W == Refused(c)
<1>1. /\ e \in ClientConnType /\ e.pending = c.pending \ W
      /\ e.current = IF c.current \in W THEN Client!End ELSE c.current
      /\ e.wakeQ = c.wakeQ \cup W
      /\ e.waiting = c.waiting /\ e.wakeR = c.wakeR /\ e.rq = c.rq /\ e.rs = c.rs
      /\ e.failed = c.failed /\ e.rfailed = c.rfailed /\ e.rclosed = c.rclosed
  BY RefusesThem, Zenon
<1> HIDE DEF e
<1>2. ClientFacts(c) /\ ClientFacts(e) /\ Ends(e)
  BY <1>1, ClientTypes DEF Ends
<1>3. \A r \in W : /\ r \in c.pending /\ c.rq[r] = Client!WAITING /\ c.rs[r] = Client!PENDING
                   /\ c.current # Client!End /\ r >= c.current
  BY DEF Refused, ListAlmost, InPlace
<1>4. c.current \in Nat /\ \A r \in c.pending : r \in Nat /\ r # Client!End /\ r \in Client!Requests
  BY <1>2, RequestNumbers DEF ClientFacts
<1>5. \A r \in c.pending : c.rq[r] = Client!WAITING => r \in W
  BY <1>4 DEF Refused, ListAlmost, InPlace
<1>6. (c.current = Client!End => W = {} /\ e.current = Client!End) /\ (e.current # Client!End => e.current = c.current)
  BY <1>1, <1>3
<1>7. ListOK(e)
  <2>1. e.current # Client!End => /\ e.current \in e.pending
                                  /\ e.rq[e.current] \in {Client!HEADERS, Client!BODY}
    BY <1>1, <1>3, <1>5, <1>6 DEF ListAlmost
  <2>2. ASSUME NEW r \in e.pending PROVE InPlace(e, r) /\ e.rq[r] # Client!WAITING
    <3>1. r \in c.pending /\ r \notin W /\ InPlace(c, r)
      BY <1>1 DEF ListAlmost
    <3>2. c.rq[r] # Client!WAITING
      BY <1>5, <3>1
    <3>3. CASE c.current \in W
      BY <1>1, <1>2, <1>3, <1>4, <3>1, <3>2, <3>3 DEF InPlace, ListAlmost, ClientFacts
    <3>4. CASE c.current \notin W
      BY <1>1, <3>1, <3>2, <3>4 DEF InPlace
    <3> QED BY <3>2, <3>3, <3>4, <1>1
  <2>3. ASSUME NEW r \in Client!Requests, e.rq[r] \in {Client!HEADERS, Client!BODY} PROVE e.current = r
    BY <1>1, <1>3, <2>3 DEF ListAlmost
  <2> QED BY <2>1, <2>2, <2>3 DEF ListOK, ListAlmost
<1>8. ASSUME NEW r \in Client!Requests
      PROVE  AsksOK(e, n, q[r], p[r], r) /\ SendsOK(e, q[r], p[r], r) /\ ReadsOK(e, p[r], r)
  <2>1. AsksOK(c, n, q[r], p[r], r) /\ SendsOK(c, q[r], p[r], r) /\ ReadsOK(c, p[r], r)
    BY DEF ClientFibers
  <2>2. Dead(c, r) => Dead(e, r)
    BY <1>1, <1>2, <1>6 DEF Dead
  <2>3. AsksOK(e, n, q[r], p[r], r)
    BY <1>1, <1>2, <1>3, <1>5, <2>1 DEF AsksOK
  <2>4. r \in W => q[r] = "waiting"
    BY <1>3, <2>1 DEF AsksOK
  <2>5. SendsOK(e, q[r], p[r], r)
    BY <1>1, <2>1, <2>2, <2>4 DEF SendsOK
  <2>6. Client!IsFirst(c, r) /\ r \notin W => Client!IsFirst(e, r)
    BY <1>1 DEF Client!IsFirst
  <2>7. Client!UpToCurrent(c, r) => Client!UpToCurrent(e, r)
    BY <1>6 DEF Client!UpToCurrent
  <2>8. r \in W => c.rs[r] = Client!PENDING
    BY <1>3
  <2>9. ReadsOK(e, p[r], r)
    BY <1>1, <2>1, <2>6, <2>7, <2>8 DEF ReadsOK
  <2> QED BY <2>3, <2>5, <2>9
<1>9. ASSUME NEW r \in c.waiting, ~Client!IsFirst(c, r) PROVE ~Client!IsFirst(e, r)
  <2>1. r \in Client!Requests /\ r \in c.pending /\ Client!UpToCurrent(c, r)
    BY <1>2 DEF ClientFacts, ClientFibers, ReadsOK
  <2>2. PICK y \in c.pending : ~(r <= y)
    BY <1>9, <2>1 DEF Client!IsFirst
  <2>3. y \notin W
    BY <1>3, <1>4, <2>1, <2>2 DEF Client!UpToCurrent
  <2> QED BY <1>1, <2>2, <2>3 DEF Client!IsFirst
<1>10. InLineAlmost(e) /\ (InLine(c) => InLine(e))
  BY <1>1, <1>9 DEF InLineAlmost, InLine, NotComing
<1> QED BY <1>1, <1>7, <1>8, <1>10 DEF ClientFibers, e


\* scheduleAllWaitingResponses() wakes whoever waits for a response that will not come; the
\* ones that have been sent leave the list.
Hopeless(c) == {r \in c.pending : NotComing(c, r) /\ c.rs[r] = Client!WAITING /\ Client!UpToCurrent(c, r)}
Gone(c) == {r \in Hopeless(c) : c.rq[r] >= Client!COMPLETE}

LEMMA HopelessTold ==
    ASSUME NEW c \in ClientConnType
    PROVE  LET e == Client!scheduleAllWaitingResponses(c)
           IN /\ e \in ClientConnType
              /\ e.pending = c.pending \ Gone(c)
              /\ e.rs = [r \in Client!Requests |-> IF r \in Hopeless(c) THEN Client!ERROR ELSE c.rs[r]]
              /\ e.waiting = c.waiting \ Hopeless(c) /\ e.wakeR = c.wakeR \cup Hopeless(c)
              /\ e.current = c.current /\ e.wakeQ = c.wakeQ /\ e.rq = c.rq
              /\ e.failed = c.failed /\ e.rfailed = c.rfailed /\ e.rclosed = c.rclosed
<1> DEFINE first == IF c.rfailed < c.rclosed THEN c.rfailed ELSE c.rclosed
           W == {r \in c.pending : r > first /\ c.rs[r] = Client!WAITING /\ Client!UpToCurrent(c, r)}
           g == {r \in W : c.rq[r] >= Client!COMPLETE}
           f == [r \in Client!Requests |-> IF r \in W THEN Client!ERROR ELSE c.rs[r]]
           e == Client!scheduleAllWaitingResponses(c)
<1>1. ClientFacts(c) /\ \A r \in c.pending : r \in Nat
  BY ClientTypes, RequestNumbers DEF ClientFacts
<1>2. e = [c EXCEPT !.rs = f, !.waiting = @ \ W, !.wakeR = @ \cup W, !.pending = @ \ g]
  BY <1>1 DEF Client!scheduleAllWaitingResponses, ClientConnType
<1>3. W = Hopeless(c)
  BY <1>1 DEF Hopeless, NotComing, ClientFacts
<1>4. g = Gone(c)
  BY <1>3 DEF Gone
<1>5. W \subseteq Client!Requests
  BY <1>1 DEF ClientFacts
<1>6. f \in [Client!Requests -> 0..6]
  BY <1>1 DEF ClientFacts
<1> HIDE DEF W, e, f, g
<1>7. e \in ClientConnType
  BY <1>1, <1>2, <1>5, <1>6 DEF ClientConnType, ClientFacts
<1>8. /\ e.pending = c.pending \ g /\ e.rs = f /\ e.waiting = c.waiting \ W /\ e.wakeR = c.wakeR \cup W
      /\ e.current = c.current /\ e.wakeQ = c.wakeQ /\ e.rq = c.rq
      /\ e.failed = c.failed /\ e.rfailed = c.rfailed /\ e.rclosed = c.rclosed
  BY <1>2 DEF ClientConnType
<1>9. f = [r \in Client!Requests |-> IF r \in Hopeless(c) THEN Client!ERROR ELSE c.rs[r]]
  BY <1>3 DEF f
<1> QED BY <1>3, <1>4, <1>7, <1>8, <1>9 DEF e

LEMMA TellingResponsesKeeps ==
    ASSUME NEW c \in ClientConnType, NEW n, NEW q, NEW p, ListOK(c), ClientFibers(c, n, q, p), InLineAlmost(c)
    PROVE  ClientHolds(Client!scheduleAllWaitingResponses(c), n, q, p)
<1> DEFINE e == Client!scheduleAllWaitingResponses(c)
           W == Hopeless(c)
           g == Gone(c)
<1>1. /\ e \in ClientConnType /\ e.pending = c.pending \ g
      /\ e.rs = [r \in Client!Requests |-> IF r \in W THEN Client!ERROR ELSE c.rs[r]]
      /\ e.waiting = c.waiting \ W /\ e.wakeR = c.wakeR \cup W
      /\ e.current = c.current /\ e.wakeQ = c.wakeQ /\ e.rq = c.rq
      /\ e.failed = c.failed /\ e.rfailed = c.rfailed /\ e.rclosed = c.rclosed
  BY HopelessTold, Zenon
<1> HIDE DEF e
<1>2. ClientFacts(c) /\ ClientFacts(e) /\ (Ends(e) <=> Ends(c))
  BY <1>1, ClientTypes DEF Ends
<1>3. \A r \in W : /\ r \in c.pending /\ c.rs[r] = Client!WAITING /\ r \in c.waiting /\ r \in Client!Requests
                   /\ NotComing(c, r) /\ p[r] = "waiting" /\ Client!UpToCurrent(c, r)
  BY <1>2 DEF Hopeless, ClientFibers, ReadsOK, ClientFacts
<1>4. \A r \in c.waiting : NotComing(c, r) => r \in W
  BY <1>2 DEF Hopeless, ClientFibers, ReadsOK, ClientFacts
<1>5. g \subseteq W /\ \A r \in W : r \in g <=> c.rq[r] >= Client!COMPLETE
  BY DEF Gone
<1>6. \A r \in Client!Requests : e.rs[r] = IF r \in W THEN Client!ERROR ELSE c.rs[r]
  BY <1>1
<1>7. c.current \in Nat /\ \A r \in c.pending : r \in Nat /\ r # Client!End /\ r \in Client!Requests
  BY <1>2, RequestNumbers DEF ClientFacts
<1>8. ListOK(e)
  <2>1. e.current # Client!End => /\ e.current \in e.pending
                                  /\ e.rq[e.current] \in {Client!HEADERS, Client!BODY}
    BY <1>1, <1>5 DEF ListOK, ListAlmost
  <2>2. ASSUME NEW r \in e.pending PROVE InPlace(e, r) /\ (Ends(e) => e.rq[r] # Client!WAITING)
    <3>1. r \in c.pending /\ r \notin g /\ InPlace(c, r) /\ r \in Client!Requests
      BY <1>1, <1>7 DEF ListOK, ListAlmost
    <3>2. CASE r \in W
      <4>1. c.rq[r] < Client!COMPLETE /\ c.rs[r] = Client!WAITING
        BY <1>2, <1>3, <1>5, <3>1, <3>2 DEF ClientFacts
      <4> QED BY <1>1, <1>2, <3>1, <4>1 DEF InPlace, ListOK
    <3>3. CASE r \notin W
      BY <1>1, <1>2, <1>6, <3>1, <3>3 DEF InPlace, ListOK
    <3> QED BY <3>2, <3>3
  <2>3. ASSUME NEW r \in Client!Requests, e.rq[r] \in {Client!HEADERS, Client!BODY} PROVE e.current = r
    BY <1>1, <2>3 DEF ListOK, ListAlmost
  <2> QED BY <2>1, <2>2, <2>3 DEF ListOK, ListAlmost
<1>9. ASSUME NEW r \in Client!Requests
      PROVE  AsksOK(e, n, q[r], p[r], r) /\ SendsOK(e, q[r], p[r], r) /\ ReadsOK(e, p[r], r)
  <2>1. AsksOK(c, n, q[r], p[r], r) /\ SendsOK(c, q[r], p[r], r) /\ ReadsOK(c, p[r], r)
    BY DEF ClientFibers
  <2>2. Dead(c, r) => Dead(e, r)
    BY <1>1, <1>2 DEF Dead
  <2>3. r \in W => q[r] \notin {"idle", "waiting"}
    BY <1>3, <2>1 DEF AsksOK
  <2>4. r \in g => r \in W /\ c.rq[r] >= Client!COMPLETE
    BY <1>5
  <2>5. AsksOK(e, n, q[r], p[r], r)
    BY <1>1, <1>2, <1>5, <1>6, <2>1, <2>3 DEF AsksOK
  <2>6. SendsOK(e, q[r], p[r], r)
    BY <1>1, <1>2, <1>6, <2>1, <2>2, <2>3, <2>4 DEF SendsOK, ClientFacts
  <2>7. Client!IsFirst(c, r) /\ r \notin W => Client!IsFirst(e, r)
    BY <1>1, <1>5 DEF Client!IsFirst
  <2>8. Client!UpToCurrent(c, r) => Client!UpToCurrent(e, r)
    BY <1>1 DEF Client!UpToCurrent
  <2>9. ReadsOK(e, p[r], r)
    <3>1. CASE r \in W
      <4>1. r \notin e.waiting /\ r \in e.wakeR /\ e.rs[r] = Client!ERROR /\ p[r] = "waiting"
        BY <1>1, <1>3, <1>6, <3>1
      <4> QED BY <4>1 DEF ReadsOK
    <3>2. CASE r \notin W
      <4>1. /\ (r \in e.waiting <=> r \in c.waiting) /\ (r \in e.wakeR <=> r \in c.wakeR) /\ e.rs[r] = c.rs[r]
            /\ (r \in e.pending <=> r \in c.pending)
        BY <1>1, <1>5, <1>6, <3>2
      <4> QED BY <2>1, <2>7, <2>8, <3>2, <4>1 DEF ReadsOK
    <3> QED BY <3>1, <3>2
  <2> QED BY <2>5, <2>6, <2>9
<1>10. ASSUME NEW r \in e.waiting PROVE ~Client!IsFirst(e, r) /\ ~NotComing(e, r)
  <2>1. r \in c.waiting /\ r \notin W /\ r \in Nat
    BY <1>1, <1>2, RequestNumbers DEF ClientFacts
  <2>2. ~NotComing(c, r) /\ ~NotComing(e, r)
    BY <1>1, <1>4, <2>1 DEF NotComing
  <2>3. ~Client!IsFirst(c, r) /\ r \in c.pending
    BY <1>2, <2>1, <2>2 DEF InLineAlmost, ClientFibers, ReadsOK, ClientFacts
  <2>4. PICK y \in c.pending : ~(r <= y)
    BY <2>3 DEF Client!IsFirst
  <2>5. y \notin W
    BY <1>2, <1>3, <1>7, <2>1, <2>2, <2>4 DEF NotComing, ClientFacts
  <2> QED BY <1>1, <1>5, <2>2, <2>4, <2>5 DEF Client!IsFirst
<1> QED BY <1>1, <1>8, <1>9, <1>10 DEF ClientHolds, ClientFibers, InLine, e

\* scheduleAllWaitingRequests(), then scheduleAllWaitingResponses().
LEMMA TellingAllKeeps ==
    ASSUME NEW c \in ClientConnType, NEW n, NEW q, NEW p, ListAlmost(c), Ends(c),
           ClientFibers(c, n, q, p), InLineAlmost(c)
    PROVE  ClientHolds(Client!scheduleAllWaiting(c), n, q, p)
<1> DEFINE d == Client!scheduleAllWaitingRequests(c)
<1>1. d \in ClientConnType /\ ListOK(d) /\ ClientFibers(d, n, q, p) /\ InLineAlmost(d)
  BY RefusingKeeps, Zenon
<1>2. ClientHolds(Client!scheduleAllWaitingResponses(d), n, q, p)
  BY <1>1, TellingResponsesKeeps, Zenon
<1> QED BY <1>2 DEF Client!scheduleAllWaiting


\* Between the records c and d only what belongs to request s changes; if it was the
\* current one, the next may be that now.
Beside(c, d, s) ==
    /\ d \in ClientConnType /\ d.pending \subseteq c.pending /\ c.pending \subseteq d.pending \cup {s}
    /\ \A r \in Client!Requests \ {s} :
          /\ d.rq[r] = c.rq[r] /\ d.rs[r] = c.rs[r]
          /\ r \in d.waiting <=> r \in c.waiting
          /\ r \in d.wakeQ <=> r \in c.wakeQ
          /\ r \in d.wakeR <=> r \in c.wakeR
    /\ Ends(c) => Ends(d)
    /\ d.current = c.current \/ (c.current = s /\ d.current = Client!Following(c, s))

FibersOK(c, n, q, p, r) == AsksOK(c, n, q, p, r) /\ SendsOK(c, q, p, r) /\ ReadsOK(c, p, r)

\* The current request moves on past s.
LEMMA MovesPast ==
    ASSUME NEW c \in ClientConnType, ListOK(c), NEW s \in Client!Requests, c.current = s
    PROVE  LET f == Client!Following(c, s)
           IN \/ f = Client!End /\ \A x \in c.pending : x <= s
              \/ /\ f \in c.pending /\ f \in Nat /\ f > s /\ f # Client!End /\ ~Ends(c)
                 /\ c.rq[f] = Client!WAITING /\ c.rs[f] = Client!PENDING
                 /\ \A x \in c.pending : x > s => f <= x
<1>1. ClientFacts(c) /\ s \in Nat /\ s # Client!End /\ \A x \in c.pending : x \in Nat
  BY ClientTypes, RequestNumbers DEF ClientFacts
<1>2. s \in c.pending
  BY <1>1 DEF ListOK, ListAlmost
<1>3. \A x \in c.pending : x > s => c.rq[x] = Client!WAITING /\ c.rs[x] = Client!PENDING /\ ~Ends(c)
  BY <1>1 DEF ListOK, ListAlmost, InPlace
<1> QED BY <1>1, <1>2, <1>3, FollowingIs DEF ClientFacts

LEMMA BesideFibers ==
    ASSUME NEW c, NEW n, NEW q, NEW p, ClientHolds(c, n, q, p), NEW s \in Client!Requests,
           NEW d, Beside(c, d, s), NEW qq, NEW pp,
           \A r \in Client!Requests \ {s} : qq[r] = q[r] /\ pp[r] = p[r],
           FibersOK(d, n, qq[s], pp[s], s)
    PROVE  ClientFibers(d, n, qq, pp)
<1> SUFFICES ASSUME NEW r \in Client!Requests, r # s PROVE FibersOK(d, n, q[r], p[r], r)
  BY DEF ClientFibers, FibersOK
<1>1. /\ c \in ClientConnType /\ d \in ClientConnType /\ ListOK(c)
      /\ AsksOK(c, n, q[r], p[r], r) /\ SendsOK(c, q[r], p[r], r) /\ ReadsOK(c, p[r], r)
  BY DEF ClientHolds, ClientFibers, Beside
<1>2. ClientFacts(c) /\ ClientFacts(d) /\ r \in Nat /\ s \in Nat /\ s # Client!End
  BY <1>1, ClientTypes, RequestNumbers
<1>3. /\ r \in d.pending <=> r \in c.pending
      /\ d.rq[r] = c.rq[r] /\ d.rs[r] = c.rs[r]
      /\ r \in d.waiting <=> r \in c.waiting
      /\ r \in d.wakeQ <=> r \in c.wakeQ
      /\ r \in d.wakeR <=> r \in c.wakeR
      /\ Ends(c) => Ends(d)
  BY DEF Beside
<1>4. /\ c.current = Client!End => d.current = Client!End
      /\ r \in c.pending /\ c.rq[r] = Client!WAITING /\ c.current # Client!End => d.current # Client!End
      /\ r \in c.pending /\ Client!UpToCurrent(c, r) => Client!UpToCurrent(d, r)
  <2>1. CASE d.current = c.current
    BY <2>1 DEF Client!UpToCurrent
  <2>2. CASE c.current = s /\ d.current = Client!Following(c, s)
    <3> DEFINE f == Client!Following(c, s)
    <3>1. \/ f = Client!End /\ \A x \in c.pending : x <= s
          \/ f \in Nat /\ f > s /\ f # Client!End
      BY <1>1, <2>2, MovesPast
    <3>2. r \in c.pending /\ r < s => c.rq[r] >= Client!COMPLETE
      BY <1>1, <2>2 DEF ListOK, ListAlmost, InPlace
    <3> HIDE DEF f
    <3>3. r \in c.pending /\ c.rq[r] = Client!WAITING => f # Client!End
      BY <1>2, <3>1, <3>2
    <3>4. r \in c.pending /\ Client!UpToCurrent(c, r) => f = Client!End \/ r <= f
      BY <1>2, <2>2, <3>1 DEF Client!UpToCurrent
    <3> QED BY <1>2, <2>2, <3>3, <3>4 DEF Client!UpToCurrent, f
  <2> QED BY <2>1, <2>2 DEF Beside
<1>5. Client!IsFirst(c, r) => Client!IsFirst(d, r)
  BY <1>3 DEF Client!IsFirst, Beside
<1>6. Dead(c, r) => Dead(d, r)
  BY <1>3, <1>4 DEF Dead
<1>7. AsksOK(d, n, q[r], p[r], r)
  BY <1>1, <1>3, <1>4 DEF AsksOK
<1>8. SendsOK(d, q[r], p[r], r)
  BY <1>1, <1>3, <1>6 DEF SendsOK
<1>9. ReadsOK(d, p[r], r)
  BY <1>1, <1>3, <1>4, <1>5 DEF ReadsOK
<1> QED BY <1>7, <1>8, <1>9 DEF FibersOK

\* What a step of request s has to see to for the list.
OwnPlace(d, s) == /\ s \in d.pending => InPlace(d, s)
                  /\ d.rq[s] \in {Client!HEADERS, Client!BODY} => d.current = s
                  /\ d.current = s => s \in d.pending /\ d.rq[s] \in {Client!HEADERS, Client!BODY}

LEMMA BesideList ==
    ASSUME NEW c \in ClientConnType, ListOK(c), NEW s \in Client!Requests, NEW d, Beside(c, d, s), OwnPlace(d, s)
    PROVE  /\ ListAlmost(d)
           /\ (Ends(d) => Ends(c)) /\ d.current \in {c.current, Client!End}
              /\ (s \in d.pending => d.rq[s] # Client!WAITING) => ListOK(d)
<1>1. ClientFacts(c) /\ s \in Nat /\ s # Client!End /\ \A x \in c.pending : x \in Nat /\ x \in Client!Requests /\ x # Client!End
  BY ClientTypes, RequestNumbers DEF ClientFacts
<1>2. \A r \in d.pending : r # s => r \in c.pending /\ d.rq[r] = c.rq[r] /\ d.rs[r] = c.rs[r] /\ InPlace(c, r)
  BY <1>1 DEF Beside, ListOK, ListAlmost
<1>3. \A r \in c.pending : r # s => r \in d.pending
  BY DEF Beside
<1>4. CASE d.current = c.current
  <2>1. d.current # Client!End => d.current \in d.pending /\ d.rq[d.current] \in {Client!HEADERS, Client!BODY}
    BY <1>1, <1>2, <1>3, <1>4 DEF OwnPlace, ListOK, ListAlmost
  <2>2. ASSUME NEW r \in d.pending PROVE InPlace(d, r)
    BY <1>2, <1>4 DEF OwnPlace, InPlace
  <2>3. ASSUME NEW r \in Client!Requests, d.rq[r] \in {Client!HEADERS, Client!BODY} PROVE d.current = r
    BY <1>4, <2>3 DEF OwnPlace, ListOK, ListAlmost, Beside
  <2>4. ListAlmost(d)
    BY <2>1, <2>2, <2>3 DEF ListAlmost
  <2>5. ASSUME Ends(d) => Ends(c), s \in d.pending => d.rq[s] # Client!WAITING PROVE ListOK(d)
    BY <1>2, <2>1, <2>4, <2>5 DEF ListOK
  <2> QED BY <2>4, <2>5
<1>5. CASE c.current = s /\ d.current = Client!Following(c, s)
  <2> DEFINE f == Client!Following(c, s)
  <2>1. \/ f = Client!End /\ \A x \in c.pending : x <= s
        \/ /\ f \in c.pending /\ f \in Nat /\ f > s /\ f # Client!End
           /\ c.rq[f] = Client!WAITING /\ \A x \in c.pending : x > s => f <= x
    BY <1>5, MovesPast
  <2>2. d.current = f
    BY <1>5
  <2> HIDE DEF f
  <2>3. d.current # Client!End => d.current \in d.pending /\ d.rq[d.current] = Client!WAITING
    BY <1>1, <1>2, <1>3, <2>1, <2>2
  <2>4. ASSUME NEW r \in d.pending, r # s PROVE InPlace(d, r)
    <3>1. r \in c.pending /\ d.rq[r] = c.rq[r] /\ d.rs[r] = c.rs[r] /\ InPlace(c, r) /\ r \in Nat
      BY <1>1, <1>2, <2>4
    <3>2. (r < s => c.rq[r] >= Client!COMPLETE) /\ (r > s => c.rq[r] = Client!WAITING)
      BY <1>1, <1>5, <3>1 DEF InPlace
    <3> QED BY <1>1, <2>1, <2>2, <2>4, <3>1, <3>2 DEF InPlace
  <2>5. ASSUME NEW r \in d.pending PROVE InPlace(d, r)
    BY <2>4 DEF OwnPlace
  <2>6. ASSUME NEW r \in Client!Requests, d.rq[r] \in {Client!HEADERS, Client!BODY} PROVE d.current = r
    BY <1>5, <2>6 DEF OwnPlace, ListOK, ListAlmost, Beside
  <2>7. ListAlmost(d)
    BY <2>3, <2>5, <2>6 DEF ListAlmost
  <2>8. ASSUME Ends(d) => Ends(c), d.current \in {c.current, Client!End}, s \in d.pending => d.rq[s] # Client!WAITING
        PROVE  ListOK(d)
    <3>1. d.current = Client!End
      BY <1>5, <2>1, <2>2, <2>8, <1>1
    <3> QED BY <1>2, <2>7, <2>8, <3>1 DEF ListOK
  <2> QED BY <2>7, <2>8
<1> QED BY <1>4, <1>5 DEF Beside

\* Nobody that waits for its response becomes the first, or it is about to be told.
LEMMA BesideLine ==
    ASSUME NEW c \in ClientConnType, InLine(c), NEW s \in Client!Requests, NEW d, Beside(c, d, s)
    PROVE  /\ /\ s \in d.waiting => ~Client!IsFirst(d, s) /\ ~NotComing(d, s)
              /\ d.rfailed = c.rfailed /\ d.rclosed = c.rclosed
              /\ d.pending = c.pending \/ \A r \in d.waiting : r <= s
              => InLine(d)
           /\ s \notin d.waiting /\ (d.pending = c.pending \/ d.rfailed <= s \/ d.rclosed <= s)
              => InLineAlmost(d)
<1>1. ClientFacts(c) /\ ClientFacts(d) /\ \A x \in Client!Requests : x \in Nat
  BY ClientTypes, RequestNumbers DEF Beside
<1>2. ASSUME NEW r \in d.waiting, r # s
      PROVE  ~NotComing(c, r) /\ (d.pending = c.pending \/ r <= s => ~Client!IsFirst(d, r))
  <2>1. r \in c.waiting /\ r \in Nat /\ s \in Nat /\ ~Client!IsFirst(c, r) /\ ~NotComing(c, r)
    BY <1>1, <1>2 DEF InLine, Beside, ClientFacts
  <2>2. ASSUME d.pending = c.pending \/ r <= s PROVE ~Client!IsFirst(d, r)
    <3>1. CASE r \notin d.pending
      BY <3>1 DEF Client!IsFirst
    <3>2. CASE r \in d.pending
      <4>1. PICK y \in c.pending : ~(r <= y)
        BY <2>1, <3>2 DEF Client!IsFirst, Beside
      <4>2. y \in d.pending
        BY <1>1, <1>2, <2>1, <2>2, <4>1 DEF Beside, ClientFacts
      <4> QED BY <4>1, <4>2 DEF Client!IsFirst
    <3> QED BY <3>1, <3>2
  <2> QED BY <2>1, <2>2
<1>3. ASSUME s \in d.waiting => ~Client!IsFirst(d, s) /\ ~NotComing(d, s),
             d.rfailed = c.rfailed, d.rclosed = c.rclosed,
             d.pending = c.pending \/ \A r \in d.waiting : r <= s
      PROVE  InLine(d)
  BY <1>2, <1>3 DEF InLine, NotComing
<1>4. ASSUME s \notin d.waiting, d.pending = c.pending \/ d.rfailed <= s \/ d.rclosed <= s
      PROVE  InLineAlmost(d)
  <2> SUFFICES ASSUME NEW r \in d.waiting PROVE ~Client!IsFirst(d, r) \/ NotComing(d, r)
    BY DEF InLineAlmost
  <2>1. r # s /\ r \in Nat /\ s \in Nat /\ d.rfailed \in Nat /\ d.rclosed \in Nat
    BY <1>1, <1>4 DEF ClientFacts
  <2> QED BY <1>2, <1>4, <2>1 DEF NotComing
<1> QED BY <1>3, <1>4


\* The gaps in the list are behind a response that failed or that closes the connection;
\* the current request whose response is over is the first, or is behind one; and while the
\* connection goes on the list ends with the last request.
Beyond(c, r) == r >= c.rfailed \/ r >= c.rclosed
Gapless(c) == \A r \in c.pending : Client!IsFirst(c, r) \/ r - 1 \in c.pending \/ Beyond(c, r)
OverFirst(c) ==
    c.current # Client!End /\ c.rs[c.current] >= Client!COMPLETE
        => Client!IsFirst(c, c.current) \/ Beyond(c, c.current)
UpToLast(c, n) == Ends(c) \/ \A r \in c.pending, s \in Client!Requests : r <= s /\ s <= n => s \in c.pending
NoGaps(c, n) == Gapless(c) /\ OverFirst(c) /\ UpToLast(c, n)
GapsStay == NoGaps(clientConn, m_requestCount) => NoGaps(clientConn', m_requestCount')

LEMMA GapsKept ==
    ASSUME NEW c \in ClientConnType, NEW d \in ClientConnType, NEW n, NoGaps(c, n), d.pending \subseteq c.pending,
           \A r \in d.pending : Beyond(c, r) => Beyond(d, r) \/ r <= 2,
           \A x \in c.pending \ d.pending : Client!IsFirst(c, x) \/ Beyond(d, x) \/ \A r \in d.pending : r < x,
           Ends(c) => Ends(d), Ends(d) \/ \A x \in c.pending \ d.pending : Client!IsFirst(c, x), OverFirst(d)
    PROVE  NoGaps(d, n)
<1>1. ClientFacts(c) /\ ClientFacts(d) /\ \A x \in c.pending : x \in Nat /\ x > 0 /\ x \in Client!Requests
  BY ClientTypes, RequestNumbers DEF ClientFacts
<1>2. ASSUME NEW r \in d.pending PROVE Client!IsFirst(d, r) \/ r - 1 \in d.pending \/ Beyond(d, r)
  <2>1. r \in Nat /\ r > 0 /\ (Client!IsFirst(c, r) \/ r - 1 \in c.pending \/ Beyond(c, r))
    BY <1>1 DEF NoGaps, Gapless
  <2>2. CASE Client!IsFirst(c, r)
    BY <2>2 DEF Client!IsFirst
  <2>3. CASE r - 1 \in c.pending /\ r - 1 \notin d.pending
    <3>1. CASE Client!IsFirst(c, r - 1)
      <4>1. \A y \in d.pending : y \in Nat /\ r - 1 <= y /\ y # r - 1
        BY <1>1, <2>3, <3>1 DEF Client!IsFirst
      <4>2. \A y \in d.pending : r <= y
        BY <2>1, <4>1
      <4> QED BY <4>2 DEF Client!IsFirst
    <3>2. CASE Beyond(d, r - 1)
      BY <1>1, <2>1, <3>2 DEF Beyond, ClientFacts
    <3>3. CASE \A y \in d.pending : y < r - 1
      BY <2>1, <3>3
    <3> QED BY <2>3, <3>1, <3>2, <3>3
  <2>4. CASE Beyond(c, r)
    <3>1. CASE r <= 2
      <4>1. Client!IsFirst(d, r) \/ \E y \in d.pending : y < r
        BY <1>1, <2>1 DEF Client!IsFirst
      <4>2. ASSUME NEW y \in d.pending, y < r PROVE r - 1 \in d.pending
        <5>1. y \in Nat /\ y > 0
          BY <1>1
        <5>2. y = r - 1
          BY <2>1, <3>1, <4>2, <5>1
        <5> QED BY <5>2
      <4> QED BY <4>1, <4>2
    <3> QED BY <2>4, <3>1
  <2> QED BY <2>1, <2>2, <2>3, <2>4
<1>3. UpToLast(d, n)
  <2> SUFFICES ASSUME ~Ends(d), NEW r \in d.pending, NEW s \in Client!Requests, r <= s /\ s <= n PROVE s \in d.pending
    BY DEF UpToLast
  <2>1. s \in c.pending
    BY DEF NoGaps, UpToLast
  <2>2. s \notin d.pending => Client!IsFirst(c, s)
    BY <2>1
  <2>3. s \notin d.pending => s = r
    BY <1>1, <2>1, <2>2 DEF Client!IsFirst
  <2> QED BY <2>3
<1> QED BY <1>2, <1>3 DEF NoGaps, Gapless

LEMMA RefusingGaps ==
    ASSUME NEW c \in ClientConnType, NEW n, ListAlmost(c), Ends(c), NoGaps(c, n)
    PROVE  NoGaps(Client!scheduleAllWaitingRequests(c), n)
<1> DEFINE e == Client!scheduleAllWaitingRequests(c)
           W == Refused(c)
<1>1. /\ e \in ClientConnType /\ e.pending = c.pending \ W
      /\ e.current = IF c.current \in W THEN Client!End ELSE c.current
      /\ e.wakeQ = c.wakeQ \cup W
      /\ e.waiting = c.waiting /\ e.wakeR = c.wakeR /\ e.rq = c.rq /\ e.rs = c.rs
      /\ e.failed = c.failed /\ e.rfailed = c.rfailed /\ e.rclosed = c.rclosed
  BY RefusesThem, Zenon
<1> HIDE DEF e
<1>2. ClientFacts(c) /\ \A x \in c.pending : x \in Nat /\ x # Client!End
  BY ClientTypes, RequestNumbers DEF ClientFacts
<1>3. Ends(e) /\ \A r : Beyond(c, r) <=> Beyond(e, r)
  BY <1>1 DEF Ends, Beyond
<1>4. \A x \in W, r \in c.pending : r >= x => r \in W
  BY <1>2 DEF Refused, ListAlmost, InPlace, ClientFacts
<1>5. ASSUME NEW x \in c.pending \ e.pending, NEW r \in e.pending PROVE r < x
  BY <1>1, <1>2, <1>4
<1>6. OverFirst(e)
  BY <1>1, <1>3 DEF NoGaps, OverFirst, Client!IsFirst
<1>7. NoGaps(e, n)
  <2>1. e.pending \subseteq c.pending
    BY <1>1
  <2> QED BY <1>1, <1>3, <1>5, <1>6, <2>1, GapsKept
<1> QED BY <1>7 DEF e

LEMMA TellingGaps ==
    ASSUME NEW c \in ClientConnType, NEW n, ListAlmost(c), Ends(c), NoGaps(c, n)
    PROVE  NoGaps(Client!scheduleAllWaiting(c), n)
<1> DEFINE g == Client!scheduleAllWaitingRequests(c)
           e == Client!scheduleAllWaitingResponses(g)
<1>1. NoGaps(g, n)
  BY RefusingGaps
<1>2. g \in ClientConnType /\ g.failed = c.failed /\ g.rfailed = c.rfailed /\ g.rclosed = c.rclosed
  BY RefusesThem, Zenon
<1> HIDE DEF g
<1>3. /\ e \in ClientConnType /\ e.pending = g.pending \ Gone(g)
      /\ e.rs = [r \in Client!Requests |-> IF r \in Hopeless(g) THEN Client!ERROR ELSE g.rs[r]]
      /\ e.current = g.current /\ e.rq = g.rq
      /\ e.failed = g.failed /\ e.rfailed = g.rfailed /\ e.rclosed = g.rclosed
  BY <1>2, HopelessTold, Zenon
<1> HIDE DEF e
<1>4. ClientFacts(g) /\ \A x \in g.pending : x \in Nat /\ x \in Client!Requests
  BY <1>2, ClientTypes, RequestNumbers DEF ClientFacts
<1>5. Ends(e) /\ \A r : Beyond(g, r) <=> Beyond(e, r)
  BY <1>2, <1>3 DEF Ends, Beyond
<1>6. \A x \in Hopeless(g) : Beyond(e, x)
  BY <1>3, <1>4 DEF Hopeless, NotComing, Beyond, ClientFacts
<1>7. \A x \in g.pending \ e.pending : Beyond(e, x)
  BY <1>3, <1>6 DEF Gone
<1>8. OverFirst(e)
  <2> SUFFICES ASSUME e.current # Client!End, e.rs[e.current] >= Client!COMPLETE
               PROVE  Client!IsFirst(e, e.current) \/ Beyond(e, e.current)
    BY DEF OverFirst
  <2>1. CASE e.current \in Hopeless(g)
    BY <1>6, <2>1
  <2>2. CASE e.current \notin Hopeless(g)
    <3>1. e.current \in Client!Requests => g.rs[g.current] >= Client!COMPLETE
      BY <1>3, <2>2
    <3>2. CASE e.current \in g.pending
      <4>1. Client!IsFirst(g, g.current) \/ Beyond(g, g.current)
        BY <1>1, <1>3, <1>4, <3>1, <3>2 DEF NoGaps, OverFirst
      <4> QED BY <1>3, <1>5, <1>7, <3>2, <4>1 DEF Client!IsFirst
    <3>3. CASE e.current \notin g.pending
      <4>1. g.current \in g.pending \/ g.current = Client!End
        <5>1. g.pending = c.pending \ Refused(c) /\ g.current = IF c.current \in Refused(c) THEN Client!End ELSE c.current
          BY RefusesThem, Zenon DEF g
        <5> QED BY <5>1 DEF ListAlmost
      <4> QED BY <1>3, <3>3, <4>1
    <3> QED BY <3>2, <3>3
  <2> QED BY <2>1, <2>2
<1>9. NoGaps(e, n)
  <2>1. e.pending \subseteq g.pending
    BY <1>3
  <2> QED BY <1>1, <1>2, <1>3, <1>5, <1>7, <1>8, <2>1, GapsKept
<1> QED BY <1>9 DEF e, g, Client!scheduleAllWaiting

\* A record that has the same list, the same current request and the same failures.
LEMMA SameGaps ==
    ASSUME NEW c \in ClientConnType, NEW d \in ClientConnType, NEW n, NoGaps(c, n),
           d.pending = c.pending, d.current = c.current, Ends(c) <=> Ends(d),
           d.rfailed = c.rfailed, d.rclosed = c.rclosed,
           d.current # Client!End /\ d.rs[d.current] >= Client!COMPLETE => c.rs[d.current] >= Client!COMPLETE
    PROVE  NoGaps(d, n)
<1>1. OverFirst(d) /\ \A r : Beyond(c, r) <=> Beyond(d, r)
  BY DEF NoGaps, OverFirst, Beyond, Client!IsFirst
<1> QED BY <1>1 DEF NoGaps, Gapless, UpToLast, Client!IsFirst


\* A step is one of the two fibers of request s.
ClientStepOf(s) ==
    /\ clientAt' \in [Client!Requests -> AtPlaces] /\ rat' \in [Client!Requests -> RatPlaces]
    /\ \A r \in Client!Requests \ {s} : clientAt'[r] = clientAt[r] /\ rat'[r] = rat[r]
    /\ UNCHANGED m_requestCount

LEMMA GoesQ ==
    ASSUME ClientInv, NEW s \in Client!Requests, NEW to \in AtPlaces, Client!GoQ(s, to), UNCHANGED <<rat, m_requestCount>>
    PROVE  ClientStepOf(s) /\ clientAt'[s] = to /\ rat'[s] = rat[s]
BY DEF ClientInv, ClientStepOf, Client!GoQ

LEMMA GoesR ==
    ASSUME ClientInv, NEW s \in Client!Requests, NEW to \in RatPlaces, Client!GoR(s, to), UNCHANGED <<clientAt, m_requestCount>>
    PROVE  ClientStepOf(s) /\ rat'[s] = to /\ clientAt'[s] = clientAt[s]
BY DEF ClientInv, ClientStepOf, Client!GoR

\* What the invariant says of one request.
ClientKnown(s) ==
    /\ ClientFacts(clientConn) /\ ListOK(clientConn) /\ InLine(clientConn)
    /\ s \in Nat /\ s > 0 /\ s # Client!End /\ s < Client!Never /\ m_requestCount \in Nat
    /\ FibersOK(clientConn, m_requestCount, clientAt[s], rat[s], s)
    /\ s \in clientConn.pending => InPlace(clientConn, s)
    /\ clientAt[s] \in AtPlaces /\ rat[s] \in RatPlaces
    /\ clientConn.rq[s] \in 0..6 /\ clientConn.rs[s] \in 0..6

LEMMA ClientKnows == ASSUME ClientInv, NEW s \in Client!Requests PROVE ClientKnown(s)
<1>1. /\ ClientFacts(clientConn) /\ ListOK(clientConn) /\ InLine(clientConn)
      /\ ClientFibers(clientConn, m_requestCount, clientAt, rat)
  BY ClientTypes DEF ClientInv, ClientHolds
<1>2. s \in clientConn.pending => InPlace(clientConn, s)
  BY <1>1 DEF ListOK, ListAlmost
<1>3. clientConn.rq[s] \in 0..6 /\ clientConn.rs[s] \in 0..6
  BY <1>1 DEF ClientFacts
<1> QED BY <1>1, <1>2, <1>3, RequestNumbers DEF ClientKnown, ClientFibers, FibersOK, ClientInv

LEMMA ClientMoved ==
    ASSUME ClientInv, NEW s \in Client!Requests, Beside(clientConn, clientConn', s), ClientStepOf(s),
           FibersOK(clientConn', m_requestCount, clientAt'[s], rat'[s], s),
           ListOK(clientConn'), InLine(clientConn')
    PROVE  ClientInv'
<1>1. ClientHolds(clientConn, m_requestCount, clientAt, rat)
  BY DEF ClientInv
<1>2. \A r \in Client!Requests \ {s} : clientAt'[r] = clientAt[r] /\ rat'[r] = rat[r]
  BY DEF ClientStepOf
<1>3. ClientFibers(clientConn', m_requestCount, clientAt', rat')
  BY ONLY <1>1, <1>2, s \in Client!Requests, Beside(clientConn, clientConn', s),
          FibersOK(clientConn', m_requestCount, clientAt'[s], rat'[s], s), BesideFibers
<1>4. m_requestCount' = m_requestCount /\ m_requestCount \in Nat /\ clientConn' \in ClientConnType
  BY DEF ClientStepOf, ClientInv, Beside
<1>5. ClientHolds(clientConn', m_requestCount', clientAt', rat')
  BY <1>3, <1>4 DEF ClientHolds
<1> QED BY <1>4, <1>5 DEF ClientInv, ClientStepOf

\* A step in which a fiber only goes on.
LEMMA ClientGoesOn ==
    ASSUME ClientInv, NEW s \in Client!Requests, ClientStepOf(s), UNCHANGED clientConn,
           FibersOK(clientConn, m_requestCount, clientAt'[s], rat'[s], s)
    PROVE  ClientInv' /\ GapsStay
<1>1. ClientKnown(s)
  BY ClientKnows
<1>2. Beside(clientConn, clientConn', s)
  BY <1>1 DEF Beside, ClientKnown, ClientFacts
<1>3. GapsStay
  BY DEF GapsStay, ClientStepOf
<1> QED BY <1>1, <1>2, <1>3, ClientMoved DEF ClientKnown

\* A step that changes the states of request s, and not the list.
Restates(c, d, s) ==
    /\ d \in ClientConnType
    /\ d.pending = c.pending /\ d.current = c.current
    /\ d.failed = c.failed /\ d.rfailed = c.rfailed /\ d.rclosed = c.rclosed
    /\ \A r \in Client!Requests \ {s} :
          /\ d.rq[r] = c.rq[r] /\ d.rs[r] = c.rs[r]
          /\ r \in d.waiting <=> r \in c.waiting
          /\ r \in d.wakeQ <=> r \in c.wakeQ
          /\ r \in d.wakeR <=> r \in c.wakeR

LEMMA ClientRestates ==
    ASSUME ClientInv, NEW s \in Client!Requests, Restates(clientConn, clientConn', s), ClientStepOf(s),
           FibersOK(clientConn', m_requestCount, clientAt'[s], rat'[s], s),
           OwnPlace(clientConn', s), s \in clientConn'.pending => clientConn'.rq[s] # Client!WAITING,
           s \in clientConn'.waiting => ~Client!IsFirst(clientConn', s) /\ ~NotComing(clientConn', s),
           clientConn'.rs[s] = clientConn.rs[s] \/ clientConn'.rs[s] < Client!COMPLETE
    PROVE  ClientInv' /\ GapsStay
<1>1. ClientKnown(s) /\ clientConn \in ClientConnType
  BY ClientKnows DEF ClientKnown, ClientFacts
<1>2. Beside(clientConn, clientConn', s) /\ (Ends(clientConn') <=> Ends(clientConn))
  BY DEF Beside, Restates, Ends
<1>3. ListOK(clientConn) /\ InLine(clientConn)
  BY <1>1 DEF ClientKnown
<1>4. clientConn'.current \in {clientConn.current, Client!End}
  BY DEF Restates
<1>5. ListOK(clientConn')
  BY ONLY <1>1, <1>2, <1>3, <1>4, s \in Client!Requests, OwnPlace(clientConn', s),
          s \in clientConn'.pending => clientConn'.rq[s] # Client!WAITING, BesideList
<1>6. InLine(clientConn')
  <2>1. /\ clientConn'.rfailed = clientConn.rfailed /\ clientConn'.rclosed = clientConn.rclosed
        /\ clientConn'.pending = clientConn.pending
    BY DEF Restates
  <2> QED BY ONLY <1>1, <1>2, <1>3, <2>1, s \in Client!Requests,
          s \in clientConn'.waiting => ~Client!IsFirst(clientConn', s) /\ ~NotComing(clientConn', s), BesideLine
<1>7. GapsStay
  <2> SUFFICES ASSUME NoGaps(clientConn, m_requestCount) PROVE NoGaps(clientConn', m_requestCount)
    BY DEF GapsStay, ClientStepOf
  <2>1. clientConn.current # Client!End => clientConn.current \in Client!Requests
    BY <1>1, <1>3 DEF ClientKnown, ClientFacts, ListOK, ListAlmost
  <2>2. clientConn'.current # Client!End /\ clientConn'.rs[clientConn'.current] >= Client!COMPLETE
          => clientConn.rs[clientConn'.current] >= Client!COMPLETE
    <3>1. CASE clientConn.current = s
      <4>1. clientConn'.rs[s] \in 0..6
        BY ClientTypes DEF Restates, ClientFacts
      <4> QED BY <3>1, <4>1 DEF Restates
    <3>2. CASE clientConn.current # s
      BY <2>1, <3>2 DEF Restates
    <3> QED BY <3>1, <3>2
  <2>3. /\ clientConn' \in ClientConnType /\ clientConn'.pending = clientConn.pending
        /\ clientConn'.current = clientConn.current
        /\ clientConn'.rfailed = clientConn.rfailed /\ clientConn'.rclosed = clientConn.rclosed
    BY DEF Restates
  <2> QED BY ONLY NoGaps(clientConn, m_requestCount), <1>1, <1>2, <2>2, <2>3, SameGaps
<1> QED BY <1>2, <1>5, <1>6, <1>7, ClientMoved

LEMMA WritesKeep ==
    ASSUME ClientInv, NEW s \in Client!Requests,
           Client!WriteBody(s) \/ Client!Flushes(s) \/ Client!FlushEnds(s)
    PROVE  ClientInv' /\ GapsStay
<1>1. ClientKnown(s)
  BY ClientKnows
<1> USE DEF AtPlaces
<1>2. ASSUME NEW to \in {"written", "failing", "flushing", "flushed", "halfClose"}, Client!GoQ(s, to),
             clientAt[s] \in {"body", "yielded", "flushing"}, UNCHANGED <<rat, m_requestCount, clientConn>>
      PROVE  ClientInv' /\ GapsStay
  <2>1. ClientStepOf(s) /\ clientAt'[s] = to /\ rat'[s] = rat[s]
    BY <1>2, GoesQ
  <2>2. FibersOK(clientConn, m_requestCount, to, rat[s], s)
    BY <1>1, <1>2 DEF ClientKnown, FibersOK, AsksOK, SendsOK, ReadsOK
  <2> QED BY <1>2, <2>1, <2>2, ClientGoesOn
<1>3. ASSUME Client!GoQ(s, "threw"), clientAt[s] = "body", clientConn.rq[s] > Client!COMPLETE,
             UNCHANGED <<rat, m_requestCount, clientConn>>
      PROVE  ClientInv' /\ GapsStay
  <2>1. ClientStepOf(s) /\ clientAt'[s] = "threw" /\ rat'[s] = rat[s]
    BY <1>3, GoesQ
  <2>2. FibersOK(clientConn, m_requestCount, "threw", rat[s], s)
    BY <1>1, <1>3 DEF ClientKnown, FibersOK, AsksOK, SendsOK, ReadsOK
  <2> QED BY <1>3, <2>1, <2>2, ClientGoesOn
<1>4. CASE Client!WriteBody(s)
  BY <1>2, <1>3, <1>4 DEF Client!WriteBody, Client!requestDone
<1>5. CASE Client!Flushes(s)
  BY <1>2, <1>5 DEF Client!Flushes
<1>6. CASE Client!FlushEnds(s)
  BY <1>2, <1>6 DEF Client!FlushEnds
<1> QED BY <1>4, <1>5, <1>6


\* The record without request s.
Without(c, e, s) ==
    /\ e \in ClientConnType /\ e.pending = c.pending \ {s}
    /\ e.current = IF c.current = s THEN Client!Following(c, s) ELSE c.current
    /\ e.waiting = c.waiting /\ e.rq = c.rq /\ e.rs = c.rs /\ e.wakeQ = c.wakeQ /\ e.wakeR = c.wakeR
    /\ e.failed = c.failed /\ e.rfailed = c.rfailed /\ e.rclosed = c.rclosed /\ e.allow = c.allow

LEMMA FollowingType ==
    ASSUME NEW c \in ClientConnType, NEW r \in Nat PROVE Client!Following(c, r) \in Nat
BY ClientTypes, FollowingIs, RequestNumbers DEF ClientFacts

LEMMA ErasesIt ==
    ASSUME NEW c \in ClientConnType, NEW s \in Client!Requests PROVE Without(c, Client!Erase(c, s), s)
<1> DEFINE f == IF c.current = s THEN Client!Following(c, s) ELSE c.current
           e == Client!Erase(c, s)
<1>1. ClientFacts(c) /\ s \in Nat
  BY ClientTypes, RequestNumbers
<1>2. f \in Nat
  BY <1>1, FollowingType DEF ClientFacts
<1>3. e = [c EXCEPT !.pending = @ \ {s}, !.current = f]
  BY <1>1 DEF Client!Erase, ClientConnType
<1> HIDE DEF f, e
<1>4. e \in ClientConnType
  BY <1>1, <1>2, <1>3 DEF ClientConnType, ClientFacts
<1>5. /\ e.pending = c.pending \ {s} /\ e.current = f
      /\ e.waiting = c.waiting /\ e.rq = c.rq /\ e.rs = c.rs /\ e.wakeQ = c.wakeQ /\ e.wakeR = c.wakeR
      /\ e.failed = c.failed /\ e.rfailed = c.rfailed /\ e.rclosed = c.rclosed /\ e.allow = c.allow
  BY <1>3 DEF ClientConnType
<1> QED BY <1>4, <1>5 DEF Without, e, f

LEMMA DoRequestKeeps ==
    ASSUME ClientInv, NEW s \in Client!Requests, Client!doRequest(s) PROVE ClientInv' /\ GapsStay
<1> DEFINE c == clientConn
<1>1. ClientKnown(s)
  BY ClientKnows
<1>2. PICK to \in {"body", "written", "failing"}, a \in {Client!HEADERS, Client!BODY}, b \in BOOLEAN :
         /\ clientConn' = [c EXCEPT !.allow = b, !.rq[s] = a] /\ Client!GoQ(s, to)
         /\ a = Client!BODY <=> to = "body"
  <2>1. c.rq[s] = Client!HEADERS /\ c.allow \in BOOLEAN /\ c \in ClientConnType
    BY <1>1 DEF Client!doRequest, ClientKnown, ClientFacts
  <2>2. PICK close \in BOOLEAN :
          \/ \E hasBody \in BOOLEAN :
                /\ clientConn' = [c EXCEPT !.allow = @ /\ ~close,
                                           !.rq[s] = IF hasBody THEN Client!BODY ELSE @]
                /\ Client!GoQ(s, IF hasBody THEN "body" ELSE "written")
          \/ clientConn' = [c EXCEPT !.allow = @ /\ ~close] /\ Client!GoQ(s, "failing")
    BY DEF Client!doRequest
  <2> DEFINE b == c.allow /\ ~close
  <2>3. b \in BOOLEAN
    BY <2>1
  <2>4. CASE clientConn' = [c EXCEPT !.allow = @ /\ ~close] /\ Client!GoQ(s, "failing")
    <3>1. clientConn' = [c EXCEPT !.allow = b, !.rq[s] = Client!HEADERS]
      BY <2>1, <2>4 DEF ClientConnType
    <3>2. Client!HEADERS = Client!BODY <=> "failing" = "body"
      OBVIOUS
    <3>3. Client!GoQ(s, "failing")
      BY <2>4
    <3> HIDE DEF b
    <3> WITNESS "failing" \in {"body", "written", "failing"}, Client!HEADERS \in {Client!HEADERS, Client!BODY},
                b \in BOOLEAN
    <3> QED BY ONLY <3>1, <3>2, <3>3, Zenon
  <2>5. ASSUME NEW hasBody \in BOOLEAN,
               clientConn' = [c EXCEPT !.allow = @ /\ ~close, !.rq[s] = IF hasBody THEN Client!BODY ELSE @],
               Client!GoQ(s, IF hasBody THEN "body" ELSE "written")
        PROVE  \E to \in {"body", "written", "failing"}, a \in {Client!HEADERS, Client!BODY}, b1 \in BOOLEAN :
                  /\ clientConn' = [c EXCEPT !.allow = b1, !.rq[s] = a] /\ Client!GoQ(s, to)
                  /\ a = Client!BODY <=> to = "body"
    <3>1. clientConn' = [c EXCEPT !.allow = b, !.rq[s] = IF hasBody THEN Client!BODY ELSE Client!HEADERS]
      BY <2>1, <2>5 DEF ClientConnType
    <3> HIDE DEF b
    <3> WITNESS (IF hasBody THEN "body" ELSE "written") \in {"body", "written", "failing"},
                (IF hasBody THEN Client!BODY ELSE Client!HEADERS) \in {Client!HEADERS, Client!BODY}, b \in BOOLEAN
    <3> QED BY <2>5, <3>1
  <2> QED BY <2>2, <2>4, <2>5
<1>3. clientAt[s] = "headers" /\ c.rq[s] = Client!HEADERS /\ UNCHANGED <<rat, m_requestCount>>
  BY DEF Client!doRequest
<1>4. clientConn' \in ClientConnType
  BY <1>1, <1>2 DEF ClientKnown, ClientFacts, ClientConnType
<1>5. Restates(c, clientConn', s)
  BY <1>1, <1>2, <1>4 DEF ClientKnown, ClientFacts, Restates, ClientConnType
<1>6. /\ clientConn'.rq[s] = a /\ clientConn'.rs[s] = c.rs[s] /\ clientConn'.waiting = c.waiting
      /\ clientConn'.wakeQ = c.wakeQ /\ clientConn'.wakeR = c.wakeR
      /\ clientConn'.pending = c.pending /\ clientConn'.current = c.current
      /\ clientConn'.rfailed = c.rfailed /\ clientConn'.rclosed = c.rclosed
  BY <1>1, <1>2, <1>4 DEF ClientKnown, ClientFacts, ClientConnType
<1>7. ClientStepOf(s) /\ clientAt'[s] = to /\ rat'[s] = rat[s]
  BY <1>2, <1>3, GoesQ DEF AtPlaces
<1>8. c.current = s /\ s \in c.pending
  BY <1>1, <1>3 DEF ClientKnown, ListOK, ListAlmost
<1>9. FibersOK(clientConn', m_requestCount, to, rat[s], s)
  BY <1>1, <1>2, <1>3, <1>6, <1>8 DEF ClientKnown, FibersOK, AsksOK, SendsOK, ReadsOK, Client!UpToCurrent, Client!IsFirst
<1>10. OwnPlace(clientConn', s) /\ (s \in clientConn'.pending => clientConn'.rq[s] # Client!WAITING)
  BY <1>1, <1>6, <1>8 DEF ClientKnown, OwnPlace, InPlace
<1>11. s \in clientConn'.waiting => ~Client!IsFirst(clientConn', s) /\ ~NotComing(clientConn', s)
  BY <1>1, <1>6 DEF ClientKnown, InLine, NotComing, Client!IsFirst
<1>12. FibersOK(clientConn', m_requestCount, clientAt'[s], rat'[s], s)
  BY <1>7, <1>9
<1>13. clientConn'.rs[s] = clientConn.rs[s]
  BY <1>6
<1> QED BY ONLY ClientInv, s \in Client!Requests, <1>13, <1>5, <1>7, <1>10, <1>11, <1>12, ClientRestates


LEMMA WokenRequestKeeps ==
    ASSUME ClientInv, NEW s \in Client!Requests, Client!WokenRequest(s) PROVE ClientInv' /\ GapsStay
<1> DEFINE c == clientConn
           d == clientConn'
           w == [c EXCEPT !.wakeQ = @ \ {s}]
<1>1. ClientKnown(s)
  BY ClientKnows
<1>2. clientAt[s] = "waiting" /\ s \in c.wakeQ /\ UNCHANGED <<rat, m_requestCount>>
  BY DEF Client!WokenRequest
<1>3. IF Ends(c)
      THEN /\ d = [Client!EraseIf(w, s, w.rq[s] = Client!HEADERS) EXCEPT !.rq[s] = Client!ERROR, !.rs[s] = Client!ERROR]
           /\ Client!GoQ(s, "threw")
      ELSE d = w /\ Client!GoQ(s, "headers")
  BY DEF Client!WokenRequest, Ends
<1>4. w \in ClientConnType
  BY <1>1 DEF ClientKnown, ClientFacts, ClientConnType
<1>5. /\ w.wakeQ = c.wakeQ \ {s} /\ w.pending = c.pending /\ w.current = c.current /\ w.waiting = c.waiting
      /\ w.rq = c.rq /\ w.rs = c.rs /\ w.wakeR = c.wakeR
      /\ w.failed = c.failed /\ w.rfailed = c.rfailed /\ w.rclosed = c.rclosed
  BY <1>1 DEF ClientKnown, ClientFacts, ClientConnType
<1> HIDE DEF w
<1>6. rat[s] = "idle" /\ c.rs[s] = Client!PENDING /\ s \notin c.waiting /\ s \notin c.wakeR /\ s <= m_requestCount
  BY <1>1, <1>2 DEF ClientKnown, FibersOK, AsksOK, ReadsOK
<1>7. CASE ~Ends(c)
  <2>1. d = w /\ c.rq[s] = Client!HEADERS /\ c.current = s /\ s \in c.pending
    BY <1>1, <1>2, <1>3, <1>7 DEF ClientKnown, FibersOK, AsksOK, ListOK, ListAlmost
  <2>2. Restates(c, d, s)
    BY <1>4, <1>5, <2>1 DEF Restates
  <2>3. ClientStepOf(s) /\ clientAt'[s] = "headers" /\ rat'[s] = rat[s]
    BY <1>2, <1>3, <1>7, GoesQ DEF AtPlaces
  <2> HIDE DEF d
  <2>4. FibersOK(d, m_requestCount, "headers", "idle", s)
    BY <1>1, <1>2, <1>5, <1>6, <2>1 DEF ClientKnown, FibersOK, AsksOK, SendsOK, ReadsOK
  <2>5. OwnPlace(d, s) /\ (s \in d.pending => d.rq[s] # Client!WAITING)
    BY <1>1, <1>5, <2>1 DEF ClientKnown, OwnPlace, InPlace
  <2>6. s \notin d.waiting /\ d.rs[s] = c.rs[s]
    BY <1>5, <1>6, <2>1
  <2> QED BY <1>6, <2>2, <2>3, <2>4, <2>5, <2>6, ClientRestates DEF d
<1>8. CASE Ends(c)
  <2> DEFINE e == Client!EraseIf(w, s, w.rq[s] = Client!HEADERS)
  <2>1. d = [e EXCEPT !.rq[s] = Client!ERROR, !.rs[s] = Client!ERROR] /\ Client!GoQ(s, "threw")
    BY <1>3, <1>8
  <2>2. /\ e \in ClientConnType /\ e.pending = c.pending \ {s} /\ e.current = (IF c.current = s THEN Client!End ELSE c.current)
        /\ e.wakeQ = c.wakeQ \ {s} /\ e.waiting = c.waiting /\ e.rq = c.rq /\ e.rs = c.rs /\ e.wakeR = c.wakeR
        /\ e.failed = c.failed /\ e.rfailed = c.rfailed /\ e.rclosed = c.rclosed
        /\ c.current = s \/ s \notin c.pending
    <3>1. CASE c.rq[s] = Client!HEADERS
      <4>1. e = Client!Erase(w, s) /\ c.current = s
        BY <1>1, <1>5, <3>1 DEF Client!EraseIf, ClientKnown, ListOK, ListAlmost
      <4>2. Without(w, e, s)
        BY <1>4, <4>1, ErasesIt
      <4>3. Client!Following(w, s) = Client!Following(c, s)
        BY <1>5 DEF Client!Following
      <4>4. Client!Following(c, s) = Client!End
        BY <1>1, <1>8, <4>1, MovesPast DEF ClientKnown, ClientFacts
      <4> QED BY <1>5, <4>1, <4>2, <4>3, <4>4 DEF Without
    <3>2. CASE c.rq[s] # Client!HEADERS
      <4>1. e = w /\ s \notin c.pending
        BY <1>1, <1>2, <1>5, <3>2 DEF Client!EraseIf, ClientKnown, FibersOK, AsksOK
      <4>2. c.current # s /\ c.pending \ {s} = c.pending
        BY <1>1, <4>1 DEF ClientKnown, ListOK, ListAlmost
      <4> QED BY <1>4, <1>5, <4>1, <4>2
    <3> QED BY <3>1, <3>2
  <2> HIDE DEF e
  <2>3. d \in ClientConnType
    BY <1>1, <2>1, <2>2 DEF ClientConnType, ClientKnown, ClientFacts
  <2>4. /\ d.pending = c.pending \ {s} /\ d.current = (IF c.current = s THEN Client!End ELSE c.current)
        /\ d.wakeQ = c.wakeQ \ {s} /\ d.waiting = c.waiting /\ d.wakeR = c.wakeR
        /\ d.rq = [c.rq EXCEPT ![s] = Client!ERROR] /\ d.rs = [c.rs EXCEPT ![s] = Client!ERROR]
        /\ d.failed = c.failed /\ d.rfailed = c.rfailed /\ d.rclosed = c.rclosed
    BY <2>1, <2>2 DEF ClientConnType
  <2>5. ClientStepOf(s) /\ clientAt'[s] = "threw" /\ rat'[s] = rat[s]
    BY <1>2, <2>1, GoesQ DEF AtPlaces
  <2> HIDE DEF d
  <2>6. /\ d.rq[s] = Client!ERROR /\ d.rs[s] = Client!ERROR
        /\ \A r \in Client!Requests \ {s} : d.rq[r] = c.rq[r] /\ d.rs[r] = c.rs[r]
    BY <1>1, <2>4 DEF ClientKnown, ClientFacts
  <2>7. Beside(c, d, s) /\ (Ends(d) <=> Ends(c))
    <3>1. c.current = s => Client!Following(c, s) = Client!End
      BY <1>1, <1>8, MovesPast DEF ClientKnown, ClientFacts
    <3> QED BY <2>3, <2>4, <2>6, <3>1 DEF Beside, Ends
  <2>8. FibersOK(d, m_requestCount, "threw", "idle", s)
    BY <1>1, <1>2, <1>6, <2>4, <2>6 DEF ClientKnown, FibersOK, AsksOK, SendsOK, ReadsOK
  <2>9. OwnPlace(d, s) /\ s \notin d.pending /\ s \notin d.waiting
    BY <1>1, <1>6, <2>4, <2>6 DEF OwnPlace, ClientKnown
  <2>10. ListOK(d)
    <3>1. d.current \in {c.current, Client!End} /\ c \in ClientConnType /\ ListOK(c)
      BY <1>1, <2>4 DEF ClientKnown, ClientFacts
    <3> QED BY <2>7, <2>9, <3>1, BesideList
  <2>11. InLine(d)
    <3>1. c \in ClientConnType /\ InLine(c)
      BY <1>1 DEF ClientKnown, ClientFacts
    <3>2. d.pending = c.pending \/ \A r \in d.waiting : r <= s
      <4>1. CASE c.current = s
        <5> SUFFICES ASSUME NEW r \in d.waiting PROVE r <= s
          OBVIOUS
        <5>1. r \in Client!Requests /\ ClientKnown(r)
          BY <1>1, <2>4, ClientKnows DEF ClientKnown, ClientFacts
        <5> QED BY <1>1, <2>4, <4>1, <5>1 DEF ClientKnown, FibersOK, ReadsOK, Client!UpToCurrent
      <4>2. CASE s \notin c.pending
        BY <2>4, <4>2
      <4> QED BY <2>2, <4>1, <4>2
    <3> QED BY <2>4, <2>7, <2>9, <3>1, <3>2, BesideLine
  <2>12. FibersOK(d, m_requestCount, clientAt'[s], rat'[s], s)
    BY <1>6, <2>5, <2>8
  <2>13. NoGaps(c, m_requestCount) => NoGaps(d, m_requestCount)
    <3> SUFFICES ASSUME NoGaps(c, m_requestCount) PROVE NoGaps(d, m_requestCount)
      OBVIOUS
    <3>1. ASSUME NEW x \in c.pending \ d.pending, NEW r \in d.pending PROVE r < x
      <4>1. x = s /\ c.current = s /\ r \in c.pending /\ r # s /\ r \in Nat
        BY <1>1, <2>2, <2>4, <3>1, RequestNumbers DEF ClientKnown, ClientFacts
      <4>2. Client!Following(c, s) = Client!End => r <= s
        BY <1>1, <4>1, MovesPast DEF ClientKnown, ClientFacts
      <4>3. Client!Following(c, s) = Client!End
        BY <1>1, <1>8, <4>1, MovesPast DEF ClientKnown, ClientFacts
      <4> QED BY <1>1, <4>1, <4>2, <4>3 DEF ClientKnown
    <3>2. \A r : Beyond(c, r) <=> Beyond(d, r)
      BY <2>4 DEF Beyond
    <3>3. OverFirst(d)
      <4>1. d.current # Client!End => d.current \in Client!Requests \ {s} /\ d.current = c.current
        BY <1>1, <2>4 DEF ClientKnown, ClientFacts, ListOK, ListAlmost
      <4>2. d.current # Client!End => d.rs[d.current] = c.rs[c.current] /\ d.current \in d.pending
        BY <1>1, <2>4, <2>6, <2>10, <4>1 DEF ListOK, ListAlmost
      <4> QED BY <2>4, <3>2, <4>1, <4>2 DEF NoGaps, OverFirst, Client!IsFirst
    <3>4. d.pending \subseteq c.pending /\ c \in ClientConnType
      BY <1>1, <2>4 DEF ClientKnown, ClientFacts
    <3> QED BY <1>8, <2>3, <2>7, <3>1, <3>2, <3>3, <3>4, GapsKept
  <2>14. GapsStay
    BY <2>5, <2>13 DEF GapsStay, ClientStepOf, d
  <2> QED BY <2>5, <2>7, <2>10, <2>11, <2>12, <2>14, ClientMoved DEF d
<1> QED BY <1>7, <1>8


LEMMA WokenResponseKeeps ==
    ASSUME ClientInv, NEW s \in Client!Requests, Client!WokenResponse(s) PROVE ClientInv' /\ GapsStay
<1> DEFINE c == clientConn
           d == clientConn'
<1>1. ClientKnown(s)
  BY ClientKnows
<1>2. rat[s] = "waiting" /\ s \in c.wakeR /\ UNCHANGED <<clientAt, m_requestCount>> /\ d = [c EXCEPT !.wakeR = @ \ {s}]
  BY DEF Client!WokenResponse
<1>3. PICK to \in {"threw", "reading"} : Client!GoR(s, to) /\ (to = "threw" <=> c.rs[s] > Client!COMPLETE)
  BY DEF Client!WokenResponse
<1>4. d \in ClientConnType
  BY <1>1, <1>2 DEF ClientKnown, ClientFacts, ClientConnType
<1>5. /\ d.wakeQ = c.wakeQ /\ d.pending = c.pending /\ d.current = c.current /\ d.waiting = c.waiting
      /\ d.rq = c.rq /\ d.rs = c.rs /\ d.wakeR = c.wakeR \ {s}
      /\ d.failed = c.failed /\ d.rfailed = c.rfailed /\ d.rclosed = c.rclosed
  BY <1>1, <1>2 DEF ClientKnown, ClientFacts, ClientConnType
<1> HIDE DEF d
<1>6. s \notin c.waiting /\ c.rs[s] \in {Client!HEADERS, Client!ERROR, Client!CANCELED}
  BY <1>1, <1>2 DEF ClientKnown, FibersOK, ReadsOK
<1>7. Restates(c, d, s)
  BY <1>4, <1>5 DEF Restates
<1>8. ClientStepOf(s) /\ rat'[s] = to /\ clientAt'[s] = clientAt[s]
  BY <1>2, <1>3, GoesR DEF RatPlaces
<1>9. (Client!IsFirst(d, s) <=> Client!IsFirst(c, s)) /\ (Dead(d, s) <=> Dead(c, s)) /\ (Ends(d) <=> Ends(c))
  BY <1>5 DEF Client!IsFirst, Dead, Ends
<1>10. FibersOK(d, m_requestCount, clientAt[s], to, s)
  BY <1>1, <1>2, <1>3, <1>5, <1>6, <1>9 DEF ClientKnown, FibersOK, AsksOK, SendsOK, ReadsOK
<1>11. OwnPlace(d, s) /\ (s \in d.pending => d.rq[s] # Client!WAITING) /\ s \notin d.waiting
  BY <1>1, <1>5, <1>6 DEF ClientKnown, OwnPlace, InPlace, ListOK, ListAlmost
<1>12. d.rs[s] = c.rs[s]
  BY <1>5
<1> QED BY <1>12, <1>7, <1>8, <1>10, <1>11, ClientRestates DEF d

LEMMA ReadHeadersKeeps ==
    ASSUME ClientInv, NEW s \in Client!Requests, Client!ReadHeaders(s) PROVE ClientInv' /\ GapsStay
<1> DEFINE c == clientConn
           d == clientConn'
<1>1. ClientKnown(s)
  BY ClientKnows
<1>2. /\ rat[s] = "reading" /\ c.rs[s] = Client!HEADERS /\ UNCHANGED <<clientAt, m_requestCount>>
      /\ d = [c EXCEPT !.rs[s] = Client!BODY]
  BY DEF Client!ReadHeaders
<1>3. PICK to \in {"body", "read"} : Client!GoR(s, to)
  BY DEF Client!ReadHeaders
<1>4. d \in ClientConnType
  BY <1>1, <1>2 DEF ClientKnown, ClientFacts, ClientConnType
<1>5. /\ d.wakeQ = c.wakeQ /\ d.pending = c.pending /\ d.current = c.current /\ d.waiting = c.waiting
      /\ d.rq = c.rq /\ d.rs[s] = Client!BODY /\ d.wakeR = c.wakeR
      /\ \A r \in Client!Requests \ {s} : d.rs[r] = c.rs[r]
      /\ d.failed = c.failed /\ d.rfailed = c.rfailed /\ d.rclosed = c.rclosed
  BY <1>1, <1>2 DEF ClientKnown, ClientFacts, ClientConnType
<1> HIDE DEF d
<1>6. s \notin c.waiting /\ s \notin c.wakeR /\ Client!IsFirst(c, s) /\ s \in c.pending
  BY <1>1, <1>2 DEF ClientKnown, FibersOK, ReadsOK, Client!IsFirst
<1>7. Restates(c, d, s)
  BY <1>4, <1>5 DEF Restates
<1>8. ClientStepOf(s) /\ rat'[s] = to /\ clientAt'[s] = clientAt[s]
  BY <1>2, <1>3, GoesR DEF RatPlaces
<1>9. (Client!IsFirst(d, s) <=> Client!IsFirst(c, s)) /\ (Dead(d, s) <=> Dead(c, s)) /\ (Ends(d) <=> Ends(c))
  BY <1>5 DEF Client!IsFirst, Dead, Ends
<1>10. FibersOK(d, m_requestCount, clientAt[s], to, s)
  BY <1>1, <1>2, <1>3, <1>5, <1>6, <1>9 DEF ClientKnown, FibersOK, AsksOK, SendsOK, ReadsOK
<1>11. OwnPlace(d, s) /\ (s \in d.pending => d.rq[s] # Client!WAITING) /\ s \notin d.waiting
  BY <1>1, <1>2, <1>5, <1>6 DEF ClientKnown, OwnPlace, InPlace, ListOK, ListAlmost
<1>12. d.rs[s] < Client!COMPLETE
  BY <1>5
<1> QED BY <1>12, <1>7, <1>8, <1>10, <1>11, ClientRestates DEF d

LEMMA ResponseDoneKeeps ==
    ASSUME ClientInv, NEW s \in Client!Requests, Client!responseDone(s) PROVE ClientInv' /\ GapsStay
<1>1. ClientKnown(s)
  BY ClientKnows
<1>2. rat[s] = "body" /\ Client!GoR(s, "read") /\ UNCHANGED <<clientAt, m_requestCount, clientConn>>
  BY DEF Client!responseDone
<1>3. ClientStepOf(s) /\ rat'[s] = "read" /\ clientAt'[s] = clientAt[s]
  BY <1>2, GoesR DEF RatPlaces
<1>4. FibersOK(clientConn, m_requestCount, clientAt[s], "read", s)
  BY <1>1, <1>2 DEF ClientKnown, FibersOK, AsksOK, SendsOK, ReadsOK
<1> QED BY <1>2, <1>3, <1>4, ClientGoesOn

LEMMA EnsureKeeps ==
    ASSUME ClientInv, NEW s \in Client!Requests, Client!ensureResponse(s) PROVE ClientInv' /\ GapsStay
<1> DEFINE c == clientConn
           d == clientConn'
           e == Client!EraseIf(c, s, c.rq[s] >= Client!COMPLETE)
<1>1. ClientKnown(s)
  BY ClientKnows
<1>2. /\ rat[s] = "idle" /\ clientAt[s] \notin {"idle", "waiting", "gone"} /\ c.rq[s] # Client!WAITING
      /\ UNCHANGED <<clientAt, m_requestCount>>
  BY DEF Client!ensureResponse
<1>3. IF c.rs[s] # Client!PENDING THEN Client!GoR(s, "returned") /\ UNCHANGED clientConn
      ELSE IF c.rfailed <= s \/ c.rclosed <= s
      THEN d = [e EXCEPT !.rs[s] = Client!ERROR] /\ Client!GoR(s, "threw")
      ELSE IF Client!IsFirst(c, s)
      THEN d = [c EXCEPT !.rs[s] = Client!HEADERS] /\ Client!GoR(s, "reading")
      ELSE d = [c EXCEPT !.rs[s] = Client!WAITING, !.waiting = @ \cup {s}] /\ Client!GoR(s, "waiting")
  BY DEF Client!ensureResponse
<1>4. CASE c.rs[s] # Client!PENDING
  <2>1. Client!GoR(s, "returned") /\ UNCHANGED clientConn
    BY <1>3, <1>4
  <2>2. ClientStepOf(s) /\ rat'[s] = "returned" /\ clientAt'[s] = clientAt[s]
    BY <1>2, <2>1, GoesR DEF RatPlaces
  <2>3. FibersOK(c, m_requestCount, clientAt[s], "returned", s)
    BY <1>1, <1>2, <1>4 DEF ClientKnown, FibersOK, AsksOK, SendsOK, ReadsOK
  <2> QED BY <2>1, <2>2, <2>3, ClientGoesOn
<1>5. ASSUME c.rs[s] = Client!PENDING
      PROVE  s \in c.pending /\ s \notin c.waiting /\ s \notin c.wakeR /\ Client!UpToCurrent(c, s)
             /\ (c.current = s \/ c.rq[s] >= Client!COMPLETE) /\ c.current \in Nat
  <2>1. s \in c.pending /\ s \notin c.waiting /\ s \notin c.wakeR /\ InPlace(c, s) /\ c.current \in Nat
    BY <1>1, <1>2, <1>5 DEF ClientKnown, FibersOK, SendsOK, ReadsOK, ClientFacts
  <2> QED BY <1>1, <1>2, <2>1 DEF InPlace, ClientKnown, Client!UpToCurrent
<1>6. CASE c.rs[s] = Client!PENDING /\ (c.rfailed <= s \/ c.rclosed <= s)
  <2>1. d = [e EXCEPT !.rs[s] = Client!ERROR] /\ Client!GoR(s, "threw")
    BY <1>3, <1>6
  <2>2. /\ e \in ClientConnType /\ e.current = c.current
        /\ e.pending = c.pending \/ (c.rq[s] >= Client!COMPLETE /\ e.pending = c.pending \ {s})
        /\ c.rq[s] >= Client!COMPLETE => s \notin e.pending
        /\ e.wakeQ = c.wakeQ /\ e.waiting = c.waiting /\ e.rq = c.rq /\ e.rs = c.rs /\ e.wakeR = c.wakeR
        /\ e.failed = c.failed /\ e.rfailed = c.rfailed /\ e.rclosed = c.rclosed
    <3>1. CASE c.rq[s] >= Client!COMPLETE
      <4>1. c.current # s
        BY <1>1, <3>1 DEF ClientKnown, ListOK, ListAlmost
      <4>2. Without(c, e, s)
        BY <1>1, <3>1, ErasesIt DEF Client!EraseIf, ClientKnown, ClientFacts
      <4> QED BY <3>1, <4>1, <4>2 DEF Without
    <3>2. CASE ~(c.rq[s] >= Client!COMPLETE)
      BY <1>1, <3>2 DEF Client!EraseIf, ClientKnown, ClientFacts
    <3> QED BY <3>1, <3>2
  <2> HIDE DEF e
  <2>3. d \in ClientConnType
    BY <1>1, <2>1, <2>2 DEF ClientConnType, ClientKnown, ClientFacts
  <2>4. /\ d.pending = e.pending /\ d.current = c.current
        /\ d.wakeQ = c.wakeQ /\ d.waiting = c.waiting /\ d.wakeR = c.wakeR
        /\ d.rq = c.rq /\ d.rs = [c.rs EXCEPT ![s] = Client!ERROR]
        /\ d.failed = c.failed /\ d.rfailed = c.rfailed /\ d.rclosed = c.rclosed
    BY <2>1, <2>2 DEF ClientConnType
  <2>5. ClientStepOf(s) /\ rat'[s] = "threw" /\ clientAt'[s] = clientAt[s]
    BY <1>2, <2>1, GoesR DEF RatPlaces
  <2> HIDE DEF d
  <2>6. d.rs[s] = Client!ERROR /\ \A r \in Client!Requests \ {s} : d.rs[r] = c.rs[r]
    BY <1>1, <2>4 DEF ClientKnown, ClientFacts
  <2>7. Beside(c, d, s) /\ (Ends(d) <=> Ends(c))
    BY <2>2, <2>3, <2>4, <2>6 DEF Beside, Ends
  <2>8. FibersOK(d, m_requestCount, clientAt[s], "threw", s)
    <3>1. Dead(c, s) => Dead(d, s)
      BY <2>2, <2>4, <2>7 DEF Dead
    <3> QED BY <1>1, <1>2, <1>5, <1>6, <2>2, <2>4, <2>6, <3>1 DEF ClientKnown, FibersOK, AsksOK, SendsOK, ReadsOK
  <2>9. OwnPlace(d, s) /\ s \notin d.waiting /\ d.rq[s] # Client!WAITING
    <3>1. d.current = s => c.rq[s] \in {Client!HEADERS, Client!BODY} /\ s \in d.pending
      BY <1>1, <1>5, <1>6, <2>2, <2>4 DEF ClientKnown, ListOK, ListAlmost
    <3>2. d.rq[s] \in {Client!HEADERS, Client!BODY} => d.current = s
      BY <1>1, <2>4 DEF ClientKnown, ListOK, ListAlmost
    <3>3. s \in d.pending => InPlace(d, s)
      BY <1>1, <1>2, <1>5, <1>6, <2>2, <2>4, <2>6 DEF ClientKnown, InPlace
    <3> QED BY <1>2, <1>5, <1>6, <2>4, <3>1, <3>2, <3>3 DEF OwnPlace
  <2>10. c \in ClientConnType /\ ListOK(c) /\ InLine(c)
    BY <1>1 DEF ClientKnown, ClientFacts
  <2>11. ListOK(d)
    BY <2>4, <2>7, <2>9, <2>10, BesideList
  <2>12. InLine(d)
    <3>1. ASSUME NEW r \in d.waiting PROVE r <= s
      <4>1. r \in c.waiting /\ r \in Nat /\ r \in Client!Requests /\ ~NotComing(c, r)
        BY <1>1, <2>4, <2>10, RequestNumbers DEF InLine, ClientKnown, ClientFacts
      <4> QED BY <1>1, <1>6, <4>1 DEF NotComing, ClientKnown, ClientFacts
    <3> QED BY <2>4, <2>7, <2>9, <2>10, <3>1, BesideLine
  <2>13. FibersOK(d, m_requestCount, clientAt'[s], rat'[s], s)
    BY <2>5, <2>8
  <2>14. NoGaps(c, m_requestCount) => NoGaps(d, m_requestCount)
    <3> SUFFICES ASSUME NoGaps(c, m_requestCount) PROVE NoGaps(d, m_requestCount)
      OBVIOUS
    <3>1. Beyond(d, s) /\ \A r : Beyond(c, r) <=> Beyond(d, r)
      BY <1>1, <1>6, <2>4 DEF Beyond, ClientKnown, ClientFacts
    <3>2. d.pending \subseteq c.pending /\ c.pending \subseteq d.pending \cup {s} /\ Ends(d)
      BY <1>1, <1>6, <2>2, <2>4 DEF Ends, ClientKnown, ClientFacts
    <3>3. OverFirst(d)
      <4>1. CASE d.current = s
        BY <3>1, <4>1 DEF OverFirst
      <4>2. CASE d.current # s
        <5>1. d.current # Client!End => d.current \in Client!Requests \ {s} /\ d.current \in d.pending
          BY <1>1, <2>3, <2>11, <4>2, ClientTypes DEF ClientFacts, ListOK, ListAlmost
        <5>2. d.current # Client!End => d.rs[d.current] = c.rs[c.current]
          BY <2>4, <2>6, <5>1
        <5> QED BY <2>4, <3>1, <3>2, <5>1, <5>2 DEF NoGaps, OverFirst, Client!IsFirst
      <4> QED BY <4>1, <4>2
    <3> QED BY <2>3, <2>10, <3>1, <3>2, <3>3, GapsKept
  <2>15. GapsStay
    BY <2>5, <2>14 DEF GapsStay, ClientStepOf, d
  <2> QED BY <2>5, <2>7, <2>11, <2>12, <2>13, <2>15, ClientMoved DEF d
<1>7. ASSUME NEW b \in {Client!HEADERS, Client!WAITING}, NEW to, NEW W,
             \/ b = Client!HEADERS /\ to = "reading" /\ W = c.waiting /\ Client!IsFirst(c, s)
             \/ b = Client!WAITING /\ to = "waiting" /\ W = c.waiting \cup {s} /\ ~Client!IsFirst(c, s),
             c.rs[s] = Client!PENDING, ~(c.rfailed <= s \/ c.rclosed <= s),
             d = [c EXCEPT !.rs[s] = b, !.waiting = W], Client!GoR(s, to)
      PROVE  ClientInv' /\ GapsStay
  <2>1. W \subseteq Client!Requests /\ to \in RatPlaces /\ b \in 0..6
    BY <1>1, <1>7 DEF ClientKnown, ClientFacts, RatPlaces
  <2>2. d \in ClientConnType
    BY <1>1, <1>7, <2>1 DEF ClientKnown, ClientFacts, ClientConnType
  <2>3. /\ d.wakeQ = c.wakeQ /\ d.pending = c.pending /\ d.current = c.current /\ d.waiting = W
        /\ d.rq = c.rq /\ d.rs[s] = b /\ d.wakeR = c.wakeR
        /\ \A r \in Client!Requests \ {s} : d.rs[r] = c.rs[r]
        /\ d.failed = c.failed /\ d.rfailed = c.rfailed /\ d.rclosed = c.rclosed
    BY <1>1, <1>7 DEF ClientKnown, ClientFacts, ClientConnType
  <2>4. Restates(c, d, s)
    BY <1>7, <2>2, <2>3 DEF Restates
  <2>5. ClientStepOf(s) /\ rat'[s] = to /\ clientAt'[s] = clientAt[s]
    BY <1>2, <1>7, <2>1, GoesR
  <2> HIDE DEF d
  <2>6. /\ (Client!IsFirst(d, s) <=> Client!IsFirst(c, s)) /\ (Dead(d, s) <=> Dead(c, s)) /\ (Ends(d) <=> Ends(c))
        /\ (Client!UpToCurrent(d, s) <=> Client!UpToCurrent(c, s))
    BY <2>3 DEF Client!IsFirst, Dead, Ends, Client!UpToCurrent
  <2>7. s \in c.pending /\ s \notin c.waiting /\ s \notin c.wakeR /\ Client!UpToCurrent(c, s)
        /\ (c.current = s \/ c.rq[s] >= Client!COMPLETE)
    BY <1>5, <1>7
  <2>8. AsksOK(d, m_requestCount, clientAt[s], to, s) /\ SendsOK(d, clientAt[s], to, s)
    BY <1>1, <1>2, <1>7, <2>3, <2>6, <2>7 DEF ClientKnown, FibersOK, AsksOK, SendsOK
  <2>9. ReadsOK(d, to, s)
    BY <1>7, <2>3, <2>6, <2>7 DEF ReadsOK
  <2>10. OwnPlace(d, s) /\ d.rq[s] # Client!WAITING
    <3>1. InPlace(c, s) /\ InPlace(d, s)
      BY <1>1, <1>2, <1>7, <2>3, <2>7 DEF ClientKnown, InPlace
    <3> QED BY <1>1, <1>2, <2>3, <2>7, <3>1 DEF ClientKnown, OwnPlace, ListOK, ListAlmost
  <2>11. s \in d.waiting => ~Client!IsFirst(d, s) /\ ~NotComing(d, s)
    BY <1>1, <1>7, <2>3, <2>6, <2>7 DEF NotComing, ClientKnown, ClientFacts
  <2>12. FibersOK(d, m_requestCount, clientAt'[s], rat'[s], s)
    BY <2>5, <2>8, <2>9 DEF FibersOK
  <2>13. d.rs[s] < Client!COMPLETE
    BY <2>3
  <2> QED BY <2>13, <2>4, <2>5, <2>10, <2>11, <2>12, ClientRestates DEF d
<1>8. CASE c.rs[s] = Client!PENDING /\ ~(c.rfailed <= s \/ c.rclosed <= s) /\ Client!IsFirst(c, s)
  <2>1. d = [c EXCEPT !.rs[s] = Client!HEADERS] /\ Client!GoR(s, "reading")
    BY <1>3, <1>8
  <2>2. d = [c EXCEPT !.rs[s] = Client!HEADERS, !.waiting = c.waiting]
    BY <1>1, <2>1 DEF ClientKnown, ClientFacts, ClientConnType
  <2> QED BY <1>7, <1>8, <2>1, <2>2
<1>9. CASE c.rs[s] = Client!PENDING /\ ~(c.rfailed <= s \/ c.rclosed <= s) /\ ~Client!IsFirst(c, s)
  <2>1. d = [c EXCEPT !.rs[s] = Client!WAITING, !.waiting = c.waiting \cup {s}] /\ Client!GoR(s, "waiting")
    BY <1>1, <1>3, <1>9 DEF ClientKnown, ClientFacts, ClientConnType
  <2> QED BY <1>7, <1>9, <2>1
<1> QED BY <1>4, <1>6, <1>8, <1>9


LEMMA WaitForRequestKeeps ==
    ASSUME ClientInv, NEW s \in Client!Requests, Client!waitForRequest(s) PROVE ClientInv' /\ GapsStay
<1> DEFINE c == clientConn
           d == clientConn'
           n == m_requestCount
           m == IF c.current = Client!End THEN s ELSE c.current
           a == IF c.current = Client!End THEN Client!HEADERS ELSE Client!WAITING
           to == IF c.current = Client!End THEN "headers" ELSE "waiting"
<1>1. ClientKnown(s)
  BY ClientKnows
<1>2. clientAt[s] = "idle" /\ s = n + 1 /\ m_requestCount' = s /\ UNCHANGED rat /\ ~Ends(c)
  BY DEF Client!waitForRequest, Client!newRequestsAllowed, Ends
<1>3. /\ rat[s] = "idle" /\ c.rs[s] = Client!PENDING /\ c.rq[s] = Client!WAITING /\ s \notin c.pending
      /\ s \notin c.waiting /\ s \notin c.wakeQ /\ s \notin c.wakeR
  BY <1>1, <1>2 DEF ClientKnown, FibersOK, AsksOK, ReadsOK
<1>4. d = [c EXCEPT !.pending = @ \cup {s}, !.current = m, !.rq[s] = a] /\ Client!GoQ(s, to)
  <2>1. c \in ClientConnType
    BY <1>1 DEF ClientKnown, ClientFacts
  <2>2. CASE c.current = Client!End
    BY <2>1, <2>2 DEF Client!waitForRequest, ClientConnType
  <2>3. CASE c.current # Client!End
    <3>1. d = [c EXCEPT !.pending = @ \cup {s}] /\ Client!GoQ(s, "waiting")
      BY <2>3 DEF Client!waitForRequest
    <3>2. c.rq = [c.rq EXCEPT ![s] = a]
      BY <1>3, <2>1, <2>3 DEF ClientConnType
    <3> QED BY <2>1, <2>3, <3>1, <3>2 DEF ClientConnType
  <2> QED BY <2>2, <2>3
<1>5. a \in 0..6 /\ m \in Nat
  BY <1>1 DEF ClientKnown, ClientFacts
<1> HIDE DEF a, m, to
<1>6. d \in ClientConnType
  BY <1>1, <1>4, <1>5 DEF ClientKnown, ClientFacts, ClientConnType
<1>7. /\ d.pending = c.pending \cup {s} /\ d.current = m /\ d.wakeQ = c.wakeQ /\ d.waiting = c.waiting
      /\ d.rs = c.rs /\ d.wakeR = c.wakeR /\ d.rq[s] = a
      /\ \A r \in Client!Requests \ {s} : d.rq[r] = c.rq[r]
      /\ d.failed = c.failed /\ d.rfailed = c.rfailed /\ d.rclosed = c.rclosed
  BY <1>1, <1>4 DEF ClientKnown, ClientFacts, ClientConnType
<1> HIDE DEF d
<1>8. ~Ends(d)
  BY <1>2, <1>7 DEF Ends
<1>9. \A r \in c.pending : r \in Client!Requests /\ r \in Nat /\ r < s /\ InPlace(c, r)
  <2> SUFFICES ASSUME NEW r \in c.pending PROVE r \in Client!Requests /\ r \in Nat /\ r < s /\ InPlace(c, r)
    OBVIOUS
  <2>1. r \in Client!Requests /\ ClientKnown(r)
    BY <1>1, ClientKnows DEF ClientKnown, ClientFacts
  <2> QED BY <1>2, <2>1 DEF ClientKnown, FibersOK, AsksOK
<1>10. ListOK(d)
  <2>1. CASE c.current = Client!End
    <3>1. m = s /\ a = Client!HEADERS
      BY <2>1 DEF m, a
    <3>2. ASSUME NEW r \in d.pending PROVE InPlace(d, r)
      BY <1>1, <1>3, <1>7, <1>9, <2>1, <3>1 DEF InPlace, ClientKnown
    <3>3. ASSUME NEW r \in Client!Requests, d.rq[r] \in {Client!HEADERS, Client!BODY} PROVE d.current = r
      BY <1>1, <1>7, <2>1, <3>1, <3>3, RequestNumbers DEF ClientKnown, ListOK, ListAlmost
    <3> QED BY <1>7, <1>8, <3>1, <3>2, <3>3 DEF ListOK, ListAlmost
  <2>2. CASE c.current # Client!End
    <3>1. m = c.current /\ a = Client!WAITING /\ c.current \in c.pending /\ c.rq[c.current] \in {Client!HEADERS, Client!BODY}
      BY <1>1, <2>2 DEF m, a, ClientKnown, ListOK, ListAlmost
    <3>2. ASSUME NEW r \in d.pending PROVE InPlace(d, r)
      BY <1>1, <1>3, <1>7, <1>9, <2>2, <3>1 DEF InPlace, ClientKnown
    <3>3. ASSUME NEW r \in Client!Requests, d.rq[r] \in {Client!HEADERS, Client!BODY} PROVE d.current = r
      BY <1>1, <1>7, <3>1, <3>3 DEF ClientKnown, ListOK, ListAlmost
    <3>4. d.current \in d.pending /\ d.rq[d.current] \in {Client!HEADERS, Client!BODY}
      BY <1>3, <1>7, <1>9, <3>1
    <3> QED BY <1>8, <3>2, <3>3, <3>4 DEF ListOK, ListAlmost
  <2> QED BY <2>1, <2>2
<1>11. ASSUME NEW r \in Client!Requests, r # s PROVE FibersOK(d, s, clientAt[r], rat[r], r)
  <2>1. ClientKnown(r)
    BY ClientKnows
  <2>2. /\ (r \in d.pending <=> r \in c.pending) /\ d.rq[r] = c.rq[r] /\ ~Dead(c, r)
        /\ (c.current # Client!End => d.current # Client!End) /\ (r > n <=> r > s)
    BY <1>2, <1>7, <1>11, <2>1 DEF Dead, ClientKnown, m
  <2>3. Client!IsFirst(c, r) => Client!IsFirst(d, r)
    BY <1>1, <1>7, <1>9, <2>1 DEF Client!IsFirst, ClientKnown
  <2>4. r \in c.pending /\ Client!UpToCurrent(c, r) => Client!UpToCurrent(d, r)
    BY <1>1, <1>7, <1>9, <2>1 DEF Client!UpToCurrent, ClientKnown, m
  <2>5. AsksOK(d, s, clientAt[r], rat[r], r)
    BY <1>2, <1>7, <2>1, <2>2 DEF ClientKnown, FibersOK, AsksOK
  <2>6. SendsOK(d, clientAt[r], rat[r], r)
    BY <1>7, <2>1, <2>2 DEF ClientKnown, FibersOK, SendsOK
  <2>7. ReadsOK(d, rat[r], r)
    BY <1>7, <2>1, <2>2, <2>3, <2>4 DEF ClientKnown, FibersOK, ReadsOK
  <2> QED BY <2>5, <2>6, <2>7 DEF FibersOK
<1>12. FibersOK(d, s, to, "idle", s)
  <2>1. CASE c.current = Client!End
    BY <1>1, <1>3, <1>7, <2>1 DEF FibersOK, AsksOK, SendsOK, ReadsOK, ClientKnown, m, a, to
  <2>2. CASE c.current # Client!End
    BY <1>1, <1>3, <1>7, <2>2 DEF FibersOK, AsksOK, SendsOK, ReadsOK, ClientKnown, m, a, to
  <2> QED BY <2>1, <2>2
<1>13. InLine(d)
  <2> SUFFICES ASSUME NEW r \in d.waiting PROVE ~Client!IsFirst(d, r) /\ ~NotComing(d, r)
    BY DEF InLine
  <2>1. r \in c.waiting /\ r \in Client!Requests /\ r # s /\ ~Client!IsFirst(c, r) /\ ~NotComing(c, r)
    BY <1>1, <1>3, <1>7 DEF ClientKnown, InLine, ClientFacts
  <2> QED BY <1>7, <2>1 DEF Client!IsFirst, NotComing
<1>14. /\ clientAt' \in [Client!Requests -> AtPlaces] /\ clientAt'[s] = to
       /\ \A r \in Client!Requests \ {s} : clientAt'[r] = clientAt[r]
  BY <1>4 DEF Client!GoQ, ClientInv, AtPlaces, to
<1>15. ClientFibers(d, s, clientAt', rat')
  BY <1>2, <1>3, <1>11, <1>12, <1>14 DEF ClientFibers, FibersOK
<1>16. ClientHolds(d, s, clientAt', rat')
  BY <1>6, <1>10, <1>13, <1>15 DEF ClientHolds
<1>17. NoGaps(c, n) => NoGaps(d, s)
  <2> SUFFICES ASSUME NoGaps(c, n) PROVE NoGaps(d, s)
    OBVIOUS
  <2>1. \A r \in c.pending, x \in Client!Requests : r <= x /\ x <= n => x \in c.pending
    BY <1>2 DEF NoGaps, UpToLast
  <2>2. \A x \in Client!Requests : x \in Nat /\ x > 0
    BY RequestNumbers
  <2>3. UpToLast(d, s)
    BY <1>1, <1>2, <1>7, <1>9, <2>1, <2>2 DEF UpToLast, ClientKnown
  <2>4. c.pending # {} => s - 1 \in c.pending
    <3> SUFFICES ASSUME NEW r \in c.pending PROVE n \in c.pending /\ s - 1 = n
      OBVIOUS
    <3>1. r \in Nat /\ r > 0 /\ r <= n /\ n <= s /\ n \in Nat /\ s - 1 = n
      BY <1>1, <1>2, <1>9, <2>2 DEF ClientKnown
    <3>2. n \in Client!Requests
      BY <1>1, <3>1, HTTPAssumption DEF Client!Requests
    <3> QED BY <2>1, <3>1, <3>2
  <2>5. Gapless(d)
    <3>1. ASSUME NEW r \in c.pending PROVE Client!IsFirst(d, r) \/ r - 1 \in d.pending \/ Beyond(d, r)
      <4>1. Client!IsFirst(c, r) \/ r - 1 \in c.pending \/ Beyond(c, r)
        BY DEF NoGaps, Gapless
      <4>2. Client!IsFirst(c, r) => Client!IsFirst(d, r)
        BY <1>1, <1>7, <1>9 DEF Client!IsFirst, ClientKnown
      <4> QED BY <1>7, <4>1, <4>2 DEF Beyond
    <3>2. Client!IsFirst(d, s) \/ s - 1 \in d.pending
      BY <1>1, <1>7, <2>4 DEF Client!IsFirst, ClientKnown
    <3> QED BY <1>7, <3>1, <3>2 DEF Gapless
  <2>6. OverFirst(d)
    <3>1. CASE c.current = Client!End
      BY <1>3, <1>7, <3>1 DEF m, OverFirst
    <3>2. CASE c.current # Client!End
      <4>1. Client!IsFirst(c, c.current) => Client!IsFirst(d, c.current)
        BY <1>1, <1>7, <1>9 DEF Client!IsFirst, ClientKnown
      <4> QED BY <1>7, <3>2, <4>1 DEF m, NoGaps, OverFirst, Beyond
    <3> QED BY <3>1, <3>2
  <2> QED BY <2>3, <2>5, <2>6 DEF NoGaps
<1>18. GapsStay
  BY <1>2, <1>17 DEF GapsStay, d
<1> QED BY <1>1, <1>2, <1>14, <1>16, <1>18 DEF ClientInv, ClientKnown, d


\* The request s has been sent, or has failed: the current one moves on, and s leaves the
\* list if its response is over.
PassedOn(c, s, a, x) ==
    Client!EraseIf(Client!Advance([c EXCEPT !.failed = x, !.rq[s] = a]), s, c.rs[s] >= Client!COMPLETE)

PassedIs(c, d, s, a, x) ==
    /\ d \in ClientConnType
    /\ d.pending = IF c.rs[s] >= Client!COMPLETE THEN c.pending \ {s} ELSE c.pending
    /\ c.current = s => d.current = Client!Following(c, s)
    /\ c.current # s => d.current = Client!End
    /\ d.rq[s] = a /\ \A r \in Client!Requests \ {s} : d.rq[r] = c.rq[r]
    /\ d.rs = c.rs /\ d.waiting = c.waiting /\ d.wakeQ = c.wakeQ /\ d.wakeR = c.wakeR
    /\ d.failed = x /\ d.rfailed = c.rfailed /\ d.rclosed = c.rclosed

LEMMA SentIs ==
    ASSUME NEW c \in ClientConnType, ListOK(c), NEW s \in Client!Requests, NEW a \in {Client!COMPLETE, Client!ERROR},
           NEW x \in BOOLEAN, c.current = s \/ Dead(c, s)
    PROVE  PassedIs(c, PassedOn(c, s, a, x), s, a, x)
<1> DEFINE f == Client!Following(c, c.current)
           g == [c EXCEPT !.failed = x, !.rq[s] = a]
           h == Client!Advance(g)
           d == PassedOn(c, s, a, x)
<1>1. ClientFacts(c) /\ s \in Nat /\ s # Client!End /\ Client!End = 0 /\ Client!End \notin c.pending
  BY ClientTypes, RequestNumbers DEF ClientFacts
<1>2. f \in Nat /\ a \in 0..6
  BY <1>1, FollowingType DEF ClientFacts
<1>3. g \in ClientConnType
  BY <1>1, <1>2 DEF ClientConnType, ClientFacts
<1>4. /\ g.pending = c.pending /\ g.current = c.current /\ g.rq = [c.rq EXCEPT ![s] = a]
      /\ g.rs = c.rs /\ g.waiting = c.waiting /\ g.wakeQ = c.wakeQ /\ g.wakeR = c.wakeR
      /\ g.failed = x /\ g.rfailed = c.rfailed /\ g.rclosed = c.rclosed
  BY DEF ClientConnType
<1> HIDE DEF g
<1>5. h = [g EXCEPT !.current = f]
  BY <1>3, <1>4 DEF Client!Advance, Client!Following, ClientConnType
<1> HIDE DEF h, f
<1>6. h \in ClientConnType
  BY <1>2, <1>3, <1>5 DEF ClientConnType
<1>7. /\ h.pending = c.pending /\ h.current = f /\ h.rq = [c.rq EXCEPT ![s] = a]
      /\ h.rs = c.rs /\ h.waiting = c.waiting /\ h.wakeQ = c.wakeQ /\ h.wakeR = c.wakeR
      /\ h.failed = x /\ h.rfailed = c.rfailed /\ h.rclosed = c.rclosed
  BY <1>3, <1>4, <1>5 DEF ClientConnType
<1>8. (c.current = s => f = Client!Following(c, s)) /\ (c.current # s => f = Client!End) /\ f # s
  <2>1. CASE c.current = s
    <3>1. f = Client!Following(c, s)
      BY <2>1 DEF f
    <3> QED BY <1>1, <2>1, <3>1, MovesPast
  <2>2. CASE c.current # s
    <3>1. c.current = Client!End
      BY <2>2 DEF Dead
    <3> QED BY <1>1, <2>2, <3>1 DEF f, Client!Following
  <2> QED BY <2>1, <2>2
<1>9. \A r \in Client!Requests \ {s} : h.rq[r] = c.rq[r]
  BY <1>1, <1>7 DEF ClientFacts
<1>10. h.rq[s] = a
  BY <1>1, <1>7 DEF ClientFacts
<1>11. d = Client!EraseIf(h, s, c.rs[s] >= Client!COMPLETE)
  BY DEF d, PassedOn, h, g
<1> HIDE DEF d
<1>12. CASE c.rs[s] >= Client!COMPLETE
  <2>1. Without(h, d, s)
    BY <1>6, <1>11, <1>12, ErasesIt DEF Client!EraseIf
  <2> QED BY <1>7, <1>8, <1>9, <1>10, <1>12, <2>1 DEF Without, d, PassedIs
<1>13. CASE ~(c.rs[s] >= Client!COMPLETE)
  <2>1. d = h
    BY <1>11, <1>13 DEF Client!EraseIf
  <2> QED BY <1>6, <1>7, <1>8, <1>9, <1>10, <1>13, <2>1 DEF d, PassedIs
<1> QED BY <1>12, <1>13

\* The next request begins.
LEMMA StartsNext ==
    ASSUME NEW d \in ClientConnType, NEW n, NEW q, NEW p, ListAlmost(d), ClientFibers(d, n, q, p), InLine(d),
           d.current # Client!End => d.rq[d.current] = Client!WAITING /\ ~Ends(d)
    PROVE  /\ ClientHolds(Client!StartCurrent(d), n, q, p)
           /\ NoGaps(d, n) => NoGaps(Client!StartCurrent(d), n)
<1> DEFINE f == d.current
           e == Client!StartCurrent(d)
<1>1. ClientFacts(d) /\ \A r \in Client!Requests : r \in Nat /\ r # Client!End
  BY ClientTypes, RequestNumbers
<1>2. CASE f = Client!End
  <2>1. e = d
    BY <1>2 DEF Client!StartCurrent
  <2>2. \A r \in d.pending : d.rq[r] # Client!WAITING
    BY <1>1, <1>2 DEF ListAlmost, InPlace
  <2> QED BY <1>2, <2>1, <2>2 DEF ClientHolds, ListOK
<1>3. CASE f # Client!End
  <2>1. f \in d.pending /\ f \in Client!Requests /\ d.rq[f] = Client!WAITING /\ ~Ends(d) /\ d.rs[f] = Client!PENDING
    BY <1>1, <1>3 DEF ListAlmost, InPlace, ClientFacts
  <2>2. e = [d EXCEPT !.rq[f] = Client!HEADERS, !.wakeQ = @ \cup {f}]
    BY <1>3 DEF Client!StartCurrent
  <2> HIDE DEF e
  <2>3. e \in ClientConnType
    BY <1>1, <2>1, <2>2 DEF ClientConnType, ClientFacts
  <2>4. /\ e.pending = d.pending /\ e.current = f /\ e.rs = d.rs /\ e.waiting = d.waiting
        /\ e.wakeQ = d.wakeQ \cup {f} /\ e.wakeR = d.wakeR
        /\ e.rq = [d.rq EXCEPT ![f] = Client!HEADERS]
        /\ e.failed = d.failed /\ e.rfailed = d.rfailed /\ e.rclosed = d.rclosed
    BY <2>2 DEF ClientConnType
  <2>5. e.rq[f] = Client!HEADERS /\ \A r \in Client!Requests \ {f} : e.rq[r] = d.rq[r]
    BY <1>1, <2>1, <2>4 DEF ClientFacts
  <2> HIDE DEF f
  <2>6. ListOK(e)
    <3>1. ASSUME NEW r \in e.pending PROVE InPlace(e, r)
      <4>1. InPlace(d, r) /\ r \in Nat /\ r \in Client!Requests
        BY <1>1, <2>4 DEF ListAlmost, ClientFacts
      <4>2. CASE r = f
        BY <1>1, <2>1, <2>4, <2>5, <4>2 DEF InPlace, ClientFacts
      <4>3. CASE r # f
        BY <2>4, <2>5, <4>1, <4>3 DEF InPlace, f
      <4> QED BY <4>2, <4>3
    <3>2. ASSUME NEW r \in Client!Requests, e.rq[r] \in {Client!HEADERS, Client!BODY} PROVE e.current = r
      BY <2>4, <2>5, <3>2 DEF ListAlmost, f
    <3>3. ~Ends(e)
      BY <2>1, <2>4 DEF Ends
    <3> QED BY <2>1, <2>4, <2>5, <3>1, <3>2, <3>3 DEF ListOK, ListAlmost
  <2>7. ASSUME NEW r \in Client!Requests
        PROVE  AsksOK(e, n, q[r], p[r], r) /\ SendsOK(e, q[r], p[r], r) /\ ReadsOK(e, p[r], r)
    <3>1. AsksOK(d, n, q[r], p[r], r) /\ SendsOK(d, q[r], p[r], r) /\ ReadsOK(d, p[r], r)
      BY DEF ClientFibers
    <3>2. ReadsOK(e, p[r], r)
      BY <2>4, <3>1 DEF ReadsOK, Client!IsFirst, Client!UpToCurrent, f
    <3>3. CASE r = f
      <4>1. q[r] = "waiting" /\ d.rs[r] = Client!PENDING /\ p[r] = "idle"
        BY <2>1, <3>1, <3>3 DEF AsksOK
      <4>2. r \in e.wakeQ /\ e.rq[r] = Client!HEADERS /\ e.rs[r] = Client!PENDING
        BY <2>4, <2>5, <3>3, <4>1
      <4>3. AsksOK(e, n, q[r], p[r], r)
        BY <3>1, <4>1, <4>2 DEF AsksOK
      <4>4. SendsOK(e, q[r], p[r], r)
        BY <4>1 DEF SendsOK
      <4> QED BY <3>2, <4>3, <4>4
    <3>4. CASE r # f
      <4>1. e.rq[r] = d.rq[r] /\ ~Dead(d, r) /\ (r \in e.wakeQ <=> r \in d.wakeQ)
        BY <1>3, <2>4, <2>5, <3>4 DEF Dead, f
      <4>2. AsksOK(e, n, q[r], p[r], r)
        BY <2>1, <2>4, <3>1, <4>1 DEF AsksOK, f
      <4>3. SendsOK(e, q[r], p[r], r)
        BY <2>4, <3>1, <4>1 DEF SendsOK
      <4> QED BY <3>2, <4>2, <4>3
    <3> QED BY <3>3, <3>4
  <2>8. InLine(e)
    BY <2>4 DEF InLine, NotComing, Client!IsFirst
  <2>9. Ends(d) <=> Ends(e)
    BY <2>4 DEF Ends
  <2>10. NoGaps(d, n) => NoGaps(e, n)
    BY <2>3, <2>4, <2>9, SameGaps DEF f
  <2> QED BY <2>3, <2>6, <2>7, <2>8, <2>10 DEF ClientHolds, ClientFibers, e
<1> QED BY <1>2, <1>3


\* Who waits for a response waits behind nobody that has not been sent.
LEMMA WaitersBefore ==
    ASSUME ClientInv, NEW s \in Client!Requests, clientConn.current = s
    PROVE  \A r \in clientConn.waiting : r <= s
<1> SUFFICES ASSUME NEW r \in clientConn.waiting PROVE r <= s
  OBVIOUS
<1>1. ClientKnown(s) /\ r \in Client!Requests
  BY ClientKnows DEF ClientKnown, ClientFacts
<1>2. ClientKnown(r)
  BY <1>1, ClientKnows
<1> QED BY <1>1, <1>2 DEF ClientKnown, FibersOK, ReadsOK, Client!UpToCurrent

\* What holds between two requests, when one has been sent or has failed.
LEMMA PassedKeeps ==
    ASSUME ClientInv, NEW s \in Client!Requests, NEW a \in {Client!COMPLETE, Client!ERROR},
           NEW x \in BOOLEAN, clientConn.failed => x,
           clientAt[s] \in {"written", "flushed", "halfClose", "failing"}, NEW to \in {"returned", "threw"},
           NEW d, PassedIs(clientConn, d, s, a, x), clientConn.current = s \/ Dead(clientConn, s)
    PROVE  /\ Beside(clientConn, d, s) /\ OwnPlace(d, s) /\ InLine(d) /\ FibersOK(d, m_requestCount, to, rat[s], s)
           /\ NoGaps(clientConn, m_requestCount) => NoGaps(d, m_requestCount)
<1> DEFINE c == clientConn
           n == m_requestCount
           f == Client!Following(c, s)
<1>1. ClientKnown(s) /\ c \in ClientConnType /\ ListOK(c) /\ InLine(c)
  BY ClientKnows DEF ClientKnown, ClientFacts
<1>2. c.current = s => \/ f = Client!End
                       \/ f \in c.pending /\ f \in Nat /\ f > s /\ f # Client!End /\ c.rs[f] = Client!PENDING
  BY <1>1, MovesPast
<1>3. c.current = s => d.current = f
  BY DEF PassedIs
<1> HIDE DEF f
<1>4. Beside(c, d, s)
  BY DEF PassedIs, Beside, Ends, Dead
<1>5. OwnPlace(d, s)
  BY <1>1, <1>2, <1>3 DEF PassedIs, OwnPlace, InPlace, ClientKnown
<1>6. InLine(d)
  <2>1. d.pending = c.pending \/ \A r \in d.waiting : r <= s
    <3>1. CASE c.current = s
      BY <3>1, WaitersBefore DEF PassedIs
    <3>2. CASE Dead(c, s)
      BY <3>2 DEF PassedIs, Dead
    <3> QED BY <3>1, <3>2
  <2>2. s \in d.waiting => ~Client!IsFirst(d, s) /\ ~NotComing(d, s)
    <3>1. s \in c.waiting => d.pending = c.pending
      BY <1>1 DEF PassedIs, ClientKnown, FibersOK, ReadsOK
    <3> QED BY <1>1, <3>1 DEF PassedIs, InLine, Client!IsFirst, NotComing
  <2> QED BY <1>1, <1>4, <2>1, <2>2, BesideLine DEF PassedIs
<1>7. FibersOK(d, n, to, rat[s], s)
  <2>1. c.rs[s] < Client!COMPLETE => (Client!IsFirst(c, s) => Client!IsFirst(d, s)) /\ (s \in d.pending <=> s \in c.pending)
    BY <1>1 DEF PassedIs, ClientKnown, Client!IsFirst
  <2>2. Client!UpToCurrent(d, s)
    BY <1>1, <1>2, <1>3 DEF PassedIs, Client!UpToCurrent, ClientKnown
  <2>3. AsksOK(d, n, to, rat[s], s)
    BY <1>1 DEF PassedIs, ClientKnown, FibersOK, AsksOK
  <2>4. SendsOK(d, to, rat[s], s)
    BY <1>1 DEF PassedIs, ClientKnown, FibersOK, SendsOK
  <2>5. ReadsOK(d, rat[s], s)
    BY <1>1, <2>1, <2>2 DEF PassedIs, ClientKnown, FibersOK, ReadsOK
  <2> QED BY <2>3, <2>4, <2>5 DEF FibersOK
<1>8. ASSUME NoGaps(c, n) PROVE NoGaps(d, n)
  <2>1. \A r : Beyond(c, r) <=> Beyond(d, r)
    BY DEF PassedIs, Beyond
  <2>2. ASSUME NEW y \in c.pending \ d.pending PROVE y = s /\ (Client!IsFirst(c, s) \/ (Beyond(c, s) /\ Ends(c)))
    <3>1. y = s /\ c.rs[s] >= Client!COMPLETE
      BY <2>2 DEF PassedIs
    <3>2. c.current = s /\ s # Client!End
      BY <1>1, <2>2, <3>1 DEF Dead, ClientKnown
    <3>3. Client!IsFirst(c, s) \/ Beyond(c, s)
      BY <1>8, <3>1, <3>2 DEF NoGaps, OverFirst
    <3>4. Beyond(c, s) => Ends(c)
      BY <1>1, RequestNumbers DEF Beyond, Ends, ClientKnown, ClientFacts
    <3> QED BY <3>1, <3>3, <3>4
  <2>3. (Ends(c) => Ends(d)) /\ d \in ClientConnType /\ d.pending \subseteq c.pending
    BY DEF PassedIs, Ends
  <2>4. OverFirst(d)
    BY <1>2, <1>3 DEF PassedIs, OverFirst
  <2> QED BY ONLY <1>1, <1>8, <2>1, <2>2, <2>3, <2>4, GapsKept
<1> QED BY <1>4, <1>5, <1>6, <1>7, <1>8

\* The end of scheduleNextRequest().
LEMMA SendingEnds ==
    ASSUME ClientInv, NEW s \in Client!Requests, clientAt[s] \in {"written", "flushed", "halfClose"},
           clientConn' = Client!StartCurrent(PassedOn(clientConn, s, Client!COMPLETE, clientConn.failed)),
           Client!GoQ(s, "returned"), UNCHANGED <<rat, m_requestCount>>
    PROVE  ClientInv' /\ GapsStay
<1> DEFINE c == clientConn
           d == PassedOn(c, s, Client!COMPLETE, c.failed)
           n == m_requestCount
<1>1. ClientKnown(s) /\ c \in ClientConnType /\ ListOK(c) /\ InLine(c)
  BY ClientKnows DEF ClientKnown, ClientFacts
<1>2. c.current = s \/ Dead(c, s)
  BY <1>1 DEF ClientKnown, FibersOK, SendsOK, ListOK, ListAlmost
<1>3. c.failed \in BOOLEAN /\ Client!COMPLETE \in {Client!COMPLETE, Client!ERROR}
  BY <1>1 DEF ClientKnown, ClientFacts
<1>4. PassedIs(c, d, s, Client!COMPLETE, c.failed)
  BY <1>1, <1>2, <1>3, SentIs
<1> HIDE DEF d
<1>5. /\ Beside(c, d, s) /\ OwnPlace(d, s) /\ InLine(d) /\ FibersOK(d, n, "returned", rat[s], s)
      /\ NoGaps(c, n) => NoGaps(d, n)
  BY <1>2, <1>3, <1>4, PassedKeeps
<1>6. ListAlmost(d) /\ d \in ClientConnType
  BY <1>1, <1>5, BesideList DEF Beside
<1>7. ClientStepOf(s) /\ clientAt'[s] = "returned" /\ rat'[s] = rat[s]
  BY GoesQ DEF AtPlaces
<1>8. ClientFibers(d, n, clientAt', rat')
  <2>1. ClientHolds(c, n, clientAt, rat) /\ \A r \in Client!Requests \ {s} : clientAt'[r] = clientAt[r] /\ rat'[r] = rat[r]
    BY <1>7 DEF ClientInv, ClientStepOf
  <2>2. FibersOK(d, n, clientAt'[s], rat'[s], s)
    BY <1>5, <1>7
  <2> QED BY ONLY <1>5, <2>1, <2>2, s \in Client!Requests, BesideFibers
<1>9. d.current # Client!End => d.rq[d.current] = Client!WAITING /\ ~Ends(d)
  <2> DEFINE f == Client!Following(c, s)
  <2>1. c.current = s /\ f # Client!End => f \in Client!Requests \ {s} /\ c.rq[f] = Client!WAITING /\ ~Ends(c)
    BY <1>1, MovesPast DEF ClientKnown, ClientFacts
  <2>2. (c.current = s => d.current = f) /\ (c.current # s => d.current = Client!End) /\ (Ends(d) <=> Ends(c))
        /\ \A r \in Client!Requests \ {s} : d.rq[r] = c.rq[r]
    BY <1>4 DEF PassedIs, Ends
  <2> HIDE DEF f
  <2> QED BY <2>1, <2>2
<1>10. ClientHolds(clientConn', n, clientAt', rat') /\ (NoGaps(d, n) => NoGaps(clientConn', n))
  <2>1. ClientHolds(Client!StartCurrent(d), n, clientAt', rat') /\ (NoGaps(d, n) => NoGaps(Client!StartCurrent(d), n))
    BY ONLY <1>5, <1>6, <1>8, <1>9, StartsNext
  <2> QED BY <2>1 DEF d
<1> QED BY <1>5, <1>7, <1>10 DEF ClientInv, ClientStepOf, GapsStay

\* A step of request s after which nobody may request any more.
LEMMA ClientRefuses ==
    ASSUME ClientInv, NEW s \in Client!Requests, NEW d, Beside(clientConn, d, s), OwnPlace(d, s), InLine(d), Ends(d),
           ClientStepOf(s), FibersOK(d, m_requestCount, clientAt'[s], rat'[s], s),
           clientConn' = Client!scheduleAllWaitingRequests(d)
    PROVE  ClientInv' /\ (NoGaps(d, m_requestCount) => NoGaps(clientConn', m_requestCount'))
<1>1. clientConn \in ClientConnType /\ ListOK(clientConn) /\ ClientHolds(clientConn, m_requestCount, clientAt, rat)
  BY DEF ClientInv, ClientHolds
<1>2. ListAlmost(d) /\ d \in ClientConnType
  BY <1>1, BesideList DEF Beside
<1>3. ClientFibers(d, m_requestCount, clientAt', rat')
  <2>1. \A r \in Client!Requests \ {s} : clientAt'[r] = clientAt[r] /\ rat'[r] = rat[r]
    BY DEF ClientStepOf
  <2> QED BY ONLY <1>1, <2>1, Beside(clientConn, d, s), FibersOK(d, m_requestCount, clientAt'[s], rat'[s], s),
                  s \in Client!Requests, BesideFibers
<1>4. InLineAlmost(d)
  BY DEF InLine, InLineAlmost
<1>5. /\ clientConn' \in ClientConnType /\ ListOK(clientConn') /\ ClientFibers(clientConn', m_requestCount, clientAt', rat')
      /\ InLine(clientConn')
  BY <1>2, <1>3, <1>4, RefusingKeeps
<1>6. NoGaps(d, m_requestCount) => NoGaps(clientConn', m_requestCount)
  BY <1>2, RefusingGaps
<1> QED BY <1>1, <1>5, <1>6 DEF ClientInv, ClientHolds, ClientStepOf

LEMMA RequestCompleteKeepsC ==
    ASSUME ClientInv, NEW s \in Client!Requests, Client!RequestComplete(s) PROVE ClientInv' /\ GapsStay
<1>1. clientConn \in ClientConnType
  BY DEF ClientInv, ClientHolds
<1>2. [clientConn EXCEPT !.failed = clientConn.failed, !.rq[s] = Client!COMPLETE] = [clientConn EXCEPT !.rq[s] = Client!COMPLETE]
  BY <1>1 DEF ClientConnType
<1>3. Client!Advance([clientConn EXCEPT !.rq[s] = Client!COMPLETE]).rs[s] = clientConn.rs[s]
  BY <1>1 DEF ClientConnType, Client!Advance
<1>4. clientConn' = Client!StartCurrent(PassedOn(clientConn, s, Client!COMPLETE, clientConn.failed))
  BY <1>2, <1>3 DEF Client!RequestComplete, PassedOn
<1> QED BY <1>4, SendingEnds DEF Client!RequestComplete

LEMMA ScheduleNextRequestKeeps ==
    ASSUME ClientInv, NEW s \in Client!Requests, Client!scheduleNextRequest(s) PROVE ClientInv' /\ GapsStay
<1>1. clientConn \in ClientConnType /\ ClientKnown(s)
  BY ClientKnows DEF ClientInv, ClientHolds
<1>2. CASE Client!Following(clientConn, s) # Client!End
  <2>1. [clientConn EXCEPT !.failed = clientConn.failed, !.rq[s] = Client!COMPLETE] = [clientConn EXCEPT !.rq[s] = Client!COMPLETE]
    BY <1>1 DEF ClientConnType
  <2>2. [clientConn EXCEPT !.rq[s] = Client!COMPLETE].rs[s] = clientConn.rs[s]
    BY <1>1 DEF ClientConnType
  <2>3. clientConn' = Client!StartCurrent(PassedOn(clientConn, s, Client!COMPLETE, clientConn.failed))
    BY <1>2, <2>1, <2>2 DEF Client!scheduleNextRequest, PassedOn
  <2> QED BY <1>2, <2>3, SendingEnds DEF Client!scheduleNextRequest
<1>3. CASE Client!Following(clientConn, s) = Client!End
  <2>1. clientAt[s] = "written" /\ Client!GoQ(s, "yielded") /\ UNCHANGED <<clientConn, rat, m_requestCount>>
    BY <1>3 DEF Client!scheduleNextRequest
  <2>2. ClientStepOf(s) /\ clientAt'[s] = "yielded" /\ rat'[s] = rat[s]
    BY <2>1, GoesQ DEF AtPlaces
  <2>3. FibersOK(clientConn, m_requestCount, "yielded", rat[s], s)
    BY <1>1, <2>1 DEF ClientKnown, FibersOK, AsksOK, SendsOK, ReadsOK
  <2> QED BY <2>1, <2>2, <2>3, ClientGoesOn
<1> QED BY <1>2, <1>3


LEMMA RequestFailedKeeps ==
    ASSUME ClientInv, NEW s \in Client!Requests, Client!requestFailed(s) PROVE ClientInv' /\ GapsStay
<1> DEFINE c == clientConn
           n == m_requestCount
           g == [c EXCEPT !.failed = TRUE, !.rq[s] = Client!ERROR]
           W == IF c.rs[s] = Client!WAITING THEN c.wakeR \cup {s} ELSE c.wakeR
           e == Client!Erase(g, s)
           d == [e EXCEPT !.rs[s] = Client!CANCELED, !.waiting = @ \ {s}, !.wakeR = W]
<1>1. ClientKnown(s) /\ c \in ClientConnType /\ ListOK(c) /\ InLine(c)
  BY ClientKnows DEF ClientKnown, ClientFacts
<1>2. clientAt[s] = "failing" /\ Client!GoQ(s, "threw") /\ UNCHANGED <<rat, m_requestCount>>
  BY DEF Client!requestFailed
<1>3. ClientStepOf(s) /\ clientAt'[s] = "threw" /\ rat'[s] = rat[s]
  BY <1>2, GoesQ DEF AtPlaces
<1>4. c.current = s \/ Dead(c, s)
  BY <1>1, <1>2 DEF ClientKnown, FibersOK, SendsOK, ListOK, ListAlmost
<1>5. CASE c.rq[s] = Client!ERROR
  <2>1. UNCHANGED clientConn
    BY <1>5 DEF Client!requestFailed
  <2>2. FibersOK(c, n, "threw", rat[s], s)
    BY <1>1, <1>2, <1>5 DEF ClientKnown, FibersOK, AsksOK, SendsOK, ReadsOK
  <2> QED BY <1>3, <2>1, <2>2, ClientGoesOn
<1>6. CASE c.rq[s] # Client!ERROR /\ ~(c.rq[s] = Client!HEADERS /\ c.rs[s] <= Client!WAITING)
  <2> DEFINE h == PassedOn(c, s, Client!ERROR, TRUE)
  <2>1. clientConn' = Client!scheduleAllWaitingRequests(h)
    BY <1>6 DEF Client!requestFailed, PassedOn
  <2>2. TRUE \in BOOLEAN /\ Client!ERROR \in {Client!COMPLETE, Client!ERROR}
    OBVIOUS
  <2>3. PassedIs(c, h, s, Client!ERROR, TRUE)
    BY <1>1, <1>4, <2>2, SentIs
  <2> HIDE DEF h
  <2>4. /\ Beside(c, h, s) /\ OwnPlace(h, s) /\ InLine(h) /\ FibersOK(h, n, "threw", rat[s], s)
        /\ NoGaps(c, n) => NoGaps(h, n)
    BY <1>2, <1>4, <2>2, <2>3, PassedKeeps
  <2>5. Ends(h)
    BY <2>3 DEF PassedIs, Ends
  <2> QED BY <1>3, <2>1, <2>4, <2>5, ClientRefuses DEF GapsStay
<1>7. CASE c.rq[s] = Client!HEADERS /\ c.rs[s] <= Client!WAITING
  <2>1. clientConn' = Client!scheduleAllWaitingRequests([e EXCEPT !.rs[s] = Client!CANCELED, !.waiting = @ \ {s},
                              !.wakeR = IF c.rs[s] = Client!WAITING THEN @ \cup {s} ELSE @])
    BY <1>7 DEF Client!requestFailed
  <2>2. c.current = s /\ s \in c.pending
    BY <1>1, <1>7 DEF ClientKnown, ListOK, ListAlmost
  <2>3. ClientFacts(c) /\ W \subseteq Client!Requests
    BY <1>1 DEF ClientKnown, ClientFacts
  <2>4. g \in ClientConnType
    BY <2>3 DEF ClientFacts, ClientConnType
  <2>5. /\ g.pending = c.pending /\ g.current = s /\ g.rq = [c.rq EXCEPT ![s] = Client!ERROR] /\ g.rs = c.rs
        /\ g.waiting = c.waiting /\ g.wakeQ = c.wakeQ /\ g.wakeR = c.wakeR
        /\ g.failed = TRUE /\ g.rfailed = c.rfailed /\ g.rclosed = c.rclosed
    BY <1>1, <2>2 DEF ClientConnType
  <2> HIDE DEF g
  <2>6. Without(g, e, s)
    BY <2>4, ErasesIt
  <2>7. Client!Following(g, s) = Client!Following(c, s)
    BY <2>5 DEF Client!Following
  <2> HIDE DEF e
  <2>8. e \in ClientConnType /\ e.wakeR = c.wakeR
    BY <2>5, <2>6 DEF Without
  <2>9. clientConn' = Client!scheduleAllWaitingRequests(d)
    BY <2>1, <2>8 DEF ClientConnType
  <2> HIDE DEF W
  <2>10. d \in ClientConnType
    BY <2>3, <2>8 DEF ClientConnType, ClientFacts
  <2>11. /\ d.pending = c.pending \ {s} /\ d.current = Client!Following(c, s) /\ d.waiting = c.waiting \ {s}
         /\ d.wakeQ = c.wakeQ /\ d.wakeR = W /\ d.failed = TRUE /\ d.rfailed = c.rfailed /\ d.rclosed = c.rclosed
         /\ d.rq[s] = Client!ERROR /\ d.rs[s] = Client!CANCELED
         /\ \A r \in Client!Requests \ {s} : d.rq[r] = c.rq[r] /\ d.rs[r] = c.rs[r]
    <3>1. /\ d.pending = e.pending /\ d.current = e.current /\ d.waiting = e.waiting \ {s}
          /\ d.wakeQ = e.wakeQ /\ d.wakeR = W /\ d.failed = e.failed /\ d.rfailed = e.rfailed /\ d.rclosed = e.rclosed
          /\ d.rq = e.rq /\ d.rs = [e.rs EXCEPT ![s] = Client!CANCELED]
      BY <2>8 DEF ClientConnType
    <3> QED BY <2>3, <2>5, <2>6, <2>7, <3>1 DEF Without, ClientFacts
  <2> HIDE DEF d
  <2>12. Beside(c, d, s) /\ Ends(d)
    <3>1. \A r \in Client!Requests \ {s} : r \in W <=> r \in c.wakeR
      BY DEF W
    <3> QED BY <2>2, <2>10, <2>11, <3>1 DEF Beside, Ends
  <2>13. OwnPlace(d, s)
    <3>1. d.current # s
      BY <1>1, <2>2, <2>11, MovesPast DEF ClientKnown
    <3> QED BY <2>11, <3>1 DEF OwnPlace
  <2>14. InLine(d)
    <3>1. \A r \in d.waiting : r <= s
      BY <2>2, <2>11, WaitersBefore
    <3> QED BY <1>1, <2>11, <2>12, <3>1, BesideLine
  <2>15. FibersOK(d, n, "threw", rat[s], s)
    <3>1. AsksOK(d, n, "threw", rat[s], s) /\ SendsOK(d, "threw", rat[s], s)
      BY <1>1, <1>2, <2>11 DEF ClientKnown, FibersOK, AsksOK, SendsOK
    <3>2. s \in d.wakeR <=> s \in c.wakeR \/ s \in c.waiting
      BY <1>1, <2>11 DEF W, ClientKnown, FibersOK, ReadsOK
    <3>3. ReadsOK(d, rat[s], s)
      BY <1>1, <1>7, <2>11, <3>2 DEF ClientKnown, FibersOK, ReadsOK
    <3> QED BY <3>1, <3>3 DEF FibersOK
  <2>16. FibersOK(d, n, clientAt'[s], rat'[s], s)
    BY <1>3, <2>15
  <2>17. NoGaps(c, n) => NoGaps(clientConn', n)
    <3> SUFFICES ASSUME NoGaps(c, n) PROVE NoGaps(clientConn', n)
      OBVIOUS
    <3> DEFINE e2 == Client!scheduleAllWaitingRequests(d)
    <3>1. /\ e2 \in ClientConnType /\ e2.pending = d.pending \ Refused(d) /\ e2.rs = d.rs
          /\ e2.current = IF d.current \in Refused(d) THEN Client!End ELSE d.current
          /\ e2.failed = d.failed /\ e2.rfailed = d.rfailed /\ e2.rclosed = d.rclosed
      BY <2>10, RefusesThem, Zenon
    <3>2. \/ d.current = Client!End /\ \A x \in c.pending : x <= s
          \/ /\ d.current \in c.pending /\ d.current \in Nat /\ d.current > s /\ d.current # Client!End
             /\ c.rq[d.current] = Client!WAITING /\ \A x \in c.pending : x > s => d.current <= x
      BY <1>1, <2>2, <2>11, MovesPast
    <3>3. \A x \in c.pending : x \in Nat /\ x \in Client!Requests /\ (x > s => c.rq[x] = Client!WAITING)
      BY <1>1, <2>2, RequestNumbers DEF ClientKnown, ClientFacts, ListOK, ListAlmost, InPlace
    <3>4. d.current # Client!End => d.current \in Refused(d)
      BY <1>1, <2>11, <3>2, <3>3 DEF Refused, ClientKnown
    <3>5. \A x \in c.pending : x > s => x \in Refused(d)
      BY <1>1, <2>11, <3>2, <3>3 DEF Refused, ClientKnown
    <3>6. \A x \in Refused(d) : x > s
      <4>1. \A x \in Refused(d) : d.current # Client!End /\ x >= d.current /\ x \in c.pending
        BY <2>11 DEF Refused
      <4> QED BY <1>1, <3>2, <3>3, <4>1 DEF ClientKnown
    <3> HIDE DEF e2
    <3>7. ASSUME NEW x \in c.pending \ e2.pending, NEW r \in e2.pending PROVE r < x
      <4>1. r \in c.pending /\ r \in Nat /\ r < s
        BY <1>1, <2>11, <3>1, <3>3, <3>5 DEF ClientKnown
      <4>2. x = s \/ x > s
        BY <2>11, <3>1, <3>6
      <4> QED BY <1>1, <3>3, <4>1, <4>2 DEF ClientKnown
    <3>8. e2.current = Client!End /\ Ends(e2) /\ (\A r : Beyond(c, r) <=> Beyond(e2, r)) /\ e2.pending \subseteq c.pending
      BY <2>11, <3>1, <3>4 DEF Ends, Beyond
    <3>9. OverFirst(e2)
      BY <3>8 DEF OverFirst
    <3>10. NoGaps(e2, n)
      BY <1>1, <3>1, <3>7, <3>8, <3>9, GapsKept
    <3> QED BY <2>9, <3>10 DEF e2
  <2>18. ClientInv'
    BY <1>3, <2>9, <2>12, <2>13, <2>14, <2>16, ClientRefuses
  <2> QED BY <1>2, <2>17, <2>18 DEF GapsStay
<1> QED BY <1>5, <1>6, <1>7


\* A step of request s after which nobody gets a response any more: as if its sending
\* fiber were at q0.
LEMMA ClientTells ==
    ASSUME ClientInv, NEW s \in Client!Requests, NEW d, Beside(clientConn, d, s), OwnPlace(d, s), Ends(d),
           s \notin d.waiting, d.pending = clientConn.pending \/ d.rfailed <= s \/ d.rclosed <= s,
           NEW q, NEW p, \A r \in Client!Requests \ {s} : q[r] = clientAt[r] /\ p[r] = rat[r],
           FibersOK(d, m_requestCount, q[s], p[s], s)
    PROVE  /\ ClientHolds(Client!scheduleAllWaiting(d), m_requestCount, q, p)
           /\ NoGaps(d, m_requestCount) => NoGaps(Client!scheduleAllWaiting(d), m_requestCount)
<1>1. /\ clientConn \in ClientConnType /\ ListOK(clientConn) /\ InLine(clientConn)
      /\ ClientHolds(clientConn, m_requestCount, clientAt, rat)
  BY DEF ClientInv, ClientHolds
<1>2. ListAlmost(d) /\ d \in ClientConnType
  BY <1>1, BesideList DEF Beside
<1>3. ClientFibers(d, m_requestCount, q, p)
  BY ONLY <1>1, Beside(clientConn, d, s), FibersOK(d, m_requestCount, q[s], p[s], s), s \in Client!Requests,
          \A r \in Client!Requests \ {s} : q[r] = clientAt[r] /\ p[r] = rat[r], BesideFibers
<1>4. InLineAlmost(d)
  BY <1>1, BesideLine
<1>5. NoGaps(d, m_requestCount) => NoGaps(Client!scheduleAllWaiting(d), m_requestCount)
  BY <1>2, TellingGaps
<1> QED BY <1>2, <1>3, <1>4, <1>5, TellingAllKeeps

\* When the first response is the last one, every gap is behind it.
LEMMA LastGaps ==
    ASSUME NEW c \in ClientConnType, ListOK(c), NEW d \in ClientConnType, NEW s \in Client!Requests, NEW n,
           d.pending \subseteq c.pending, c.pending \subseteq d.pending \cup {s},
           d.current \in {c.current, Client!End}, Ends(d),
           Client!IsFirst(c, s), d.rfailed <= s \/ d.rclosed <= s
    PROVE  NoGaps(c, n) => NoGaps(d, n)
<1> SUFFICES ASSUME NoGaps(c, n) PROVE NoGaps(d, n)
  OBVIOUS
<1>1. ClientFacts(c) /\ ClientFacts(d) /\ s \in Nat /\ \A x \in c.pending : x \in Nat
  BY ClientTypes, RequestNumbers DEF ClientFacts
<1>2. \A r \in c.pending : Beyond(d, r)
  BY <1>1 DEF Beyond, Client!IsFirst, ClientFacts
<1>3. OverFirst(d)
  BY <1>2 DEF OverFirst, ListOK, ListAlmost
<1> QED BY <1>2, <1>3, GapsKept

LEMMA ClientTold ==
    ASSUME ClientInv, NEW s \in Client!Requests, NEW d, Beside(clientConn, d, s), OwnPlace(d, s), Ends(d),
           s \notin d.waiting, d.pending = clientConn.pending \/ d.rfailed <= s \/ d.rclosed <= s,
           ClientStepOf(s), FibersOK(d, m_requestCount, clientAt'[s], rat'[s], s),
           clientConn' = Client!scheduleAllWaiting(d)
    PROVE  ClientInv' /\ (NoGaps(d, m_requestCount) => NoGaps(clientConn', m_requestCount'))
<1>1. \A r \in Client!Requests \ {s} : clientAt'[r] = clientAt[r] /\ rat'[r] = rat[r]
  BY DEF ClientStepOf
<1>2. /\ ClientHolds(Client!scheduleAllWaiting(d), m_requestCount, clientAt', rat')
      /\ NoGaps(d, m_requestCount) => NoGaps(Client!scheduleAllWaiting(d), m_requestCount)
  BY <1>1, ClientTells
<1> QED BY <1>2 DEF ClientInv, ClientStepOf

\* The response s is over or will be the last: its state becomes b, and s leaves the list
\* if `out' holds.
Over(c, e, s, b, out) ==
    /\ e \in ClientConnType
    /\ e.pending = IF out THEN c.pending \ {s} ELSE c.pending
    /\ e.current = c.current /\ e.rs = [c.rs EXCEPT ![s] = b]
    /\ e.waiting = c.waiting /\ e.rq = c.rq /\ e.wakeQ = c.wakeQ /\ e.wakeR = c.wakeR

\* Such a step of the fiber that reads s, the first response.
LEMMA OverKeepsClient ==
    ASSUME ClientInv, NEW s \in Client!Requests, NEW e, NEW b \in {Client!BODY, Client!COMPLETE, Client!ERROR},
           NEW out \in BOOLEAN, out => clientConn.rq[s] >= Client!COMPLETE /\ b # Client!BODY,
           clientConn.rq[s] >= Client!COMPLETE /\ b # Client!BODY => out,
           Over(clientConn, e, s, b, out), rat[s] \in {"reading", "read"}, Ends(clientConn) => Ends(e),
           NEW to \in {"body", "returned", "threw"}, to = "body" <=> b = Client!BODY
    PROVE  /\ Beside(clientConn, e, s) /\ OwnPlace(e, s) /\ s \notin e.waiting
           /\ FibersOK(e, m_requestCount, clientAt[s], to, s)
<1> DEFINE c == clientConn
<1>1. ClientKnown(s) /\ ListOK(c)
  BY ClientKnows DEF ClientKnown
<1>2. Client!IsFirst(c, s) /\ s \in c.pending /\ s \notin c.waiting /\ s \notin c.wakeR
  BY <1>1 DEF ClientKnown, FibersOK, ReadsOK, Client!IsFirst
<1>3. e.rs[s] = b /\ \A r \in Client!Requests \ {s} : e.rs[r] = c.rs[r]
  BY <1>1 DEF Over, ClientKnown, ClientFacts
<1>4. Beside(c, e, s) /\ s \notin e.waiting
  BY <1>2, <1>3 DEF Over, Beside
<1>5. (c.current = s => c.rq[s] \in {Client!HEADERS, Client!BODY}) /\ (c.rq[s] \in {Client!HEADERS, Client!BODY} => c.current = s)
  BY <1>1 DEF ClientKnown, ListOK, ListAlmost
<1>6. OwnPlace(e, s)
  <2>1. c.rq[s] # Client!WAITING
    BY <1>1, <1>2 DEF ClientKnown, FibersOK, ReadsOK, InPlace
  <2>2. s \in e.pending => InPlace(e, s)
    BY <1>1, <1>2, <1>3, <2>1 DEF InPlace, ClientKnown, Over
  <2>3. e.current = s => s \in e.pending
    BY <1>1, <1>2, <1>5 DEF Over, ClientKnown
  <2> QED BY <1>5, <2>2, <2>3 DEF OwnPlace, Over
<1>7. (s \in e.pending => Client!IsFirst(e, s)) /\ (Dead(c, s) => Dead(e, s))
  <2>1. e.pending \subseteq c.pending /\ ~Dead(c, s)
    BY <1>2 DEF Over, Dead
  <2> QED BY <1>2, <2>1 DEF Client!IsFirst
<1>8. clientAt[s] \notin {"idle", "waiting", "gone"} /\ rat[s] # "gone"
  BY <1>1 DEF ClientKnown, FibersOK, AsksOK, SendsOK
<1>9. AsksOK(e, m_requestCount, clientAt[s], to, s)
  BY <1>1, <1>3, <1>8 DEF ClientKnown, FibersOK, AsksOK, Over
<1>10. SendsOK(e, clientAt[s], to, s)
  BY <1>1, <1>2, <1>3, <1>7, <1>8 DEF ClientKnown, FibersOK, SendsOK, Over
<1>11. ReadsOK(e, to, s)
  BY <1>2, <1>3, <1>4, <1>7 DEF ReadsOK, Over
<1> QED BY <1>4, <1>6, <1>9, <1>10, <1>11 DEF FibersOK


LEMMA ReadCloseKeeps ==
    ASSUME ClientInv, NEW s \in Client!Requests, Client!ReadClose(s) PROVE ClientInv' /\ GapsStay
<1> DEFINE c == clientConn
<1>1. ClientKnown(s) /\ c \in ClientConnType /\ ListOK(c)
  BY ClientKnows DEF ClientKnown, ClientFacts
<1>2. rat[s] = "reading" /\ UNCHANGED <<clientAt, m_requestCount>>
  BY DEF Client!ReadClose
<1>3. PICK hasBody \in BOOLEAN :
         /\ clientConn' = Client!scheduleAllWaiting(
                [Client!EraseIf(c, s, ~hasBody /\ c.rq[s] >= Client!COMPLETE)
                     EXCEPT !.rclosed = s, !.rs[s] = IF hasBody THEN Client!BODY ELSE Client!COMPLETE])
         /\ Client!GoR(s, IF hasBody THEN "body" ELSE "returned")
  BY DEF Client!ReadClose
<1> DEFINE out == ~hasBody /\ c.rq[s] >= Client!COMPLETE
           b == IF hasBody THEN Client!BODY ELSE Client!COMPLETE
           to == IF hasBody THEN "body" ELSE "returned"
           h == Client!EraseIf(c, s, out)
           e == [h EXCEPT !.rclosed = s, !.rs[s] = b]
<1>4. clientConn' = Client!scheduleAllWaiting(e) /\ Client!GoR(s, to)
  BY <1>3
<1>5. /\ out \in BOOLEAN /\ b \in 0..6 /\ b \in {Client!BODY, Client!COMPLETE, Client!ERROR}
      /\ out => c.rq[s] >= Client!COMPLETE /\ b # Client!BODY
      /\ c.rq[s] >= Client!COMPLETE /\ b # Client!BODY => out
      /\ to \in {"body", "returned", "threw"} /\ (to = "body" <=> b = Client!BODY)
  BY <1>1 DEF ClientKnown, ClientFacts
<1> HIDE DEF out, b, to
<1>6. /\ h \in ClientConnType /\ h.current = c.current
      /\ h.pending = IF out THEN c.pending \ {s} ELSE c.pending
      /\ h.wakeQ = c.wakeQ /\ h.waiting = c.waiting /\ h.rq = c.rq /\ h.rs = c.rs /\ h.wakeR = c.wakeR
  <2>1. CASE out
    <3>1. c.current # s
      BY <1>1, <1>5, <2>1 DEF ClientKnown, ListOK, ListAlmost
    <3>2. Without(c, h, s)
      BY <1>1, <2>1, ErasesIt DEF Client!EraseIf
    <3> QED BY <2>1, <3>1, <3>2 DEF Without
  <2>2. CASE ~out
    BY <1>1, <2>2 DEF Client!EraseIf
  <2> QED BY <2>1, <2>2
<1> HIDE DEF h
<1>7. e \in ClientConnType
  BY <1>1, <1>5, <1>6 DEF ClientKnown, ClientFacts, ClientConnType
<1>8. /\ e.current = h.current /\ e.pending = h.pending /\ e.wakeQ = h.wakeQ /\ e.waiting = h.waiting
      /\ e.rq = h.rq /\ e.rs = [h.rs EXCEPT ![s] = b] /\ e.wakeR = h.wakeR /\ e.rclosed = s
  BY <1>6 DEF ClientConnType
<1> HIDE DEF e
<1>9. Over(c, e, s, b, out)
  BY <1>6, <1>7, <1>8 DEF Over
<1>10. Ends(e) /\ e.rclosed <= s
  BY <1>1, <1>8 DEF Ends, ClientKnown
<1>11. Beside(c, e, s) /\ OwnPlace(e, s) /\ s \notin e.waiting /\ FibersOK(e, m_requestCount, clientAt[s], to, s)
  BY <1>2, <1>5, <1>9, <1>10, OverKeepsClient
<1>12. ClientStepOf(s) /\ rat'[s] = to /\ clientAt'[s] = clientAt[s]
  BY <1>2, <1>4, <1>5, GoesR DEF RatPlaces
<1>13. NoGaps(c, m_requestCount) => NoGaps(e, m_requestCount)
  <2>1. Client!IsFirst(c, s)
    BY <1>1, <1>2 DEF ClientKnown, FibersOK, ReadsOK
  <2>2. e.pending \subseteq c.pending /\ c.pending \subseteq e.pending \cup {s} /\ e.current = c.current
    BY <1>9 DEF Over
  <2> QED BY <1>1, <1>7, <1>10, <2>1, <2>2, LastGaps
<1> QED BY <1>4, <1>10, <1>11, <1>12, <1>13, ClientTold DEF GapsStay

LEMMA ReadFailsKeeps ==
    ASSUME ClientInv, NEW s \in Client!Requests, Client!ReadFails(s) PROVE ClientInv' /\ GapsStay
<1> DEFINE c == clientConn
           x == IF s < c.rfailed THEN s ELSE c.rfailed
           out == c.rq[s] >= Client!COMPLETE
           g == [c EXCEPT !.rfailed = x, !.rs[s] = Client!ERROR]
           e == Client!EraseIf(g, s, out)
<1>1. ClientKnown(s) /\ c \in ClientConnType /\ ListOK(c)
  BY ClientKnows DEF ClientKnown, ClientFacts
<1>2. rat[s] = "reading" /\ UNCHANGED <<clientAt, m_requestCount>> /\ Client!GoR(s, "threw")
  BY DEF Client!ReadFails
<1>3. Client!IsFirst(c, s)
  BY <1>1, <1>2 DEF ClientKnown, FibersOK, ReadsOK
<1>4. [c EXCEPT !.rfailed = IF s < @ THEN s ELSE @, !.rs[s] = Client!ERROR] = g
  BY <1>1 DEF ClientConnType
<1>5. clientConn' = Client!scheduleAllWaiting(e)
  BY <1>3, <1>4 DEF Client!ReadFails
<1>6. /\ x \in Nat /\ x <= s /\ c.rclosed \in Nat /\ out \in BOOLEAN /\ Client!ERROR \in 0..6
      /\ out <=> c.rq[s] >= Client!COMPLETE
  BY <1>1 DEF ClientKnown, ClientFacts
<1> HIDE DEF x, out
<1>7. Over(c, e, s, Client!ERROR, out) /\ e.rfailed = x
  <2>1. g \in ClientConnType
    BY <1>1, <1>6 DEF ClientKnown, ClientFacts, ClientConnType
  <2>2. /\ g.pending = c.pending /\ g.current = c.current /\ g.rq = c.rq /\ g.rs = [c.rs EXCEPT ![s] = Client!ERROR]
        /\ g.waiting = c.waiting /\ g.wakeQ = c.wakeQ /\ g.wakeR = c.wakeR
        /\ g.failed = c.failed /\ g.rfailed = x /\ g.rclosed = c.rclosed
    BY <1>1 DEF ClientConnType
  <2> HIDE DEF g
  <2>3. CASE ~out
    BY <2>1, <2>2, <2>3 DEF Over, Client!EraseIf
  <2>4. CASE out
    <3>1. c.current # s
      BY <1>1, <1>6, <2>4 DEF ClientKnown, ListOK, ListAlmost
    <3>2. Without(g, e, s)
      BY <2>1, <2>4, ErasesIt DEF Client!EraseIf
    <3> QED BY <2>2, <2>4, <3>1, <3>2 DEF Over, Without
  <2> QED BY <2>3, <2>4
<1> HIDE DEF e
<1>8. Ends(e) /\ e.rfailed <= s
  BY <1>1, <1>6, <1>7 DEF Ends, ClientKnown
<1>9. Client!ERROR \in {Client!BODY, Client!COMPLETE, Client!ERROR} /\ Client!ERROR # Client!BODY
  OBVIOUS
<1>10. Beside(c, e, s) /\ OwnPlace(e, s) /\ s \notin e.waiting /\ FibersOK(e, m_requestCount, clientAt[s], "threw", s)
  BY <1>2, <1>6, <1>7, <1>8, <1>9, OverKeepsClient
<1>11. ClientStepOf(s) /\ rat'[s] = "threw" /\ clientAt'[s] = clientAt[s]
  BY <1>2, GoesR DEF RatPlaces
<1>12. NoGaps(c, m_requestCount) => NoGaps(e, m_requestCount)
  <2>1. e \in ClientConnType /\ e.pending \subseteq c.pending /\ c.pending \subseteq e.pending \cup {s} /\ e.current = c.current
    BY <1>7 DEF Over
  <2> QED BY <1>1, <1>3, <1>8, <2>1, LastGaps
<1> QED BY <1>5, <1>8, <1>10, <1>11, <1>12, ClientTold DEF GapsStay


\* If the current request has not begun, none is current once everybody has been told.
LEMMA NoneIsCurrent ==
    ASSUME NEW d \in ClientConnType,
           d.current = Client!End \/ (d.current \in d.pending /\ d.rq[d.current] = Client!WAITING)
    PROVE  LET e == Client!scheduleAllWaiting(d)
           IN e.current = Client!End /\ e.pending \subseteq d.pending /\ e.rq = d.rq /\ e.rfailed = d.rfailed
<1> DEFINE g == Client!scheduleAllWaitingRequests(d)
           e == Client!scheduleAllWaitingResponses(g)
<1>1. /\ g \in ClientConnType /\ g.pending = d.pending \ Refused(d) /\ g.rq = d.rq /\ g.rfailed = d.rfailed
      /\ g.current = IF d.current \in Refused(d) THEN Client!End ELSE d.current
  BY RefusesThem, Zenon
<1> HIDE DEF g
<1>2. e.pending = g.pending \ Gone(g) /\ e.rq = g.rq /\ e.rfailed = g.rfailed /\ e.current = g.current
  BY <1>1, HopelessTold, Zenon
<1>3. d.current = Client!End \/ d.current \in Refused(d)
  <2>1. d.current \in Nat
    BY ClientTypes DEF ClientFacts
  <2> QED BY <2>1 DEF Refused
<1>4. g.current = Client!End
  BY <1>1, <1>3
<1> HIDE DEF e
<1>5. e.current = Client!End /\ e.pending \subseteq d.pending /\ e.rq = d.rq /\ e.rfailed = d.rfailed
  BY <1>1, <1>2, <1>4
<1> QED BY <1>5 DEF Client!scheduleAllWaiting, e, g

\* The record after the first half of cancel().
Cancelled(c, d, s) ==
    /\ d \in ClientConnType /\ d.pending = c.pending \ {s}
    /\ c.current = s => d.current = Client!Following(c, s)
    /\ c.current # s => d.current = c.current
    /\ d.rq[s] >= Client!COMPLETE /\ d.rs[s] >= Client!COMPLETE
    /\ \A r \in Client!Requests \ {s} : d.rq[r] = c.rq[r] /\ d.rs[r] = c.rs[r]
    /\ d.waiting = c.waiting /\ d.wakeQ = c.wakeQ /\ d.wakeR = c.wakeR
    /\ d.failed = c.failed /\ d.rfailed = s /\ d.rclosed = c.rclosed

LEMMA CancelsIt ==
    ASSUME NEW c \in ClientConnType, NEW s \in Client!Requests, s \notin c.waiting, c.rs[s] # Client!WAITING,
           NEW state \in {Client!ERROR, Client!CANCELED}
    PROVE  Cancelled(c, Client!Erase([c EXCEPT !.rfailed = s,
                               !.rq[s] = IF @ < Client!COMPLETE THEN state ELSE @,
                               !.rs[s] = IF @ < Client!COMPLETE THEN state ELSE @,
                               !.waiting = @ \ {s},
                               !.wakeR = IF c.rs[s] = Client!WAITING THEN @ \cup {s} ELSE @], s), s)
<1> DEFINE a == IF c.rq[s] < Client!COMPLETE THEN state ELSE c.rq[s]
           b == IF c.rs[s] < Client!COMPLETE THEN state ELSE c.rs[s]
           g == [c EXCEPT !.rfailed = s, !.rq[s] = a, !.rs[s] = b]
           d == Client!Erase(g, s)
<1>1. ClientFacts(c) /\ s \in Nat
  BY ClientTypes, RequestNumbers
<1>2. a \in 0..6 /\ b \in 0..6 /\ a >= Client!COMPLETE /\ b >= Client!COMPLETE
  BY <1>1 DEF ClientFacts
<1>3. c.waiting = c.waiting \ {s}
  OBVIOUS
<1>4. g = [c EXCEPT !.rfailed = s,
                    !.rq[s] = IF @ < Client!COMPLETE THEN state ELSE @,
                    !.rs[s] = IF @ < Client!COMPLETE THEN state ELSE @,
                    !.waiting = @ \ {s},
                    !.wakeR = IF c.rs[s] = Client!WAITING THEN @ \cup {s} ELSE @]
  BY <1>3 DEF ClientConnType
<1> HIDE DEF a, b
<1>5. g \in ClientConnType
  BY <1>1, <1>2 DEF ClientFacts, ClientConnType
<1>6. /\ g.pending = c.pending /\ g.current = c.current /\ g.rq = [c.rq EXCEPT ![s] = a] /\ g.rs = [c.rs EXCEPT ![s] = b]
      /\ g.waiting = c.waiting /\ g.wakeQ = c.wakeQ /\ g.wakeR = c.wakeR
      /\ g.failed = c.failed /\ g.rfailed = s /\ g.rclosed = c.rclosed
  BY DEF ClientConnType
<1> HIDE DEF g
<1>7. Without(g, d, s) /\ Client!Following(g, s) = Client!Following(c, s)
  BY <1>5, <1>6, ErasesIt DEF Client!Following
<1> HIDE DEF d
<1>8. g.rq[s] = a /\ g.rs[s] = b /\ \A r \in Client!Requests \ {s} : g.rq[r] = c.rq[r] /\ g.rs[r] = c.rs[r]
  BY <1>1, <1>6 DEF ClientFacts
<1>9. Cancelled(c, d, s)
  BY <1>2, <1>6, <1>7, <1>8 DEF Cancelled, Without
<1> QED BY <1>4, <1>9 DEF d

LEMMA CancelKeepsClient ==
    ASSUME ClientInv, NEW s \in Client!Requests, NEW state \in {Client!ERROR, Client!CANCELED},
           Client!cancel(s, state), ~(clientConn.rq[s] >= Client!COMPLETE /\ clientConn.rs[s] >= Client!COMPLETE),
           rat[s] \notin {"waiting", "gone"}, clientAt[s] \notin {"idle", "waiting", "gone"}, ClientStepOf(s),
           \/ clientAt'[s] = "gone" /\ rat'[s] = "gone"
           \/ clientAt'[s] = clientAt[s] /\ rat'[s] = "threw"
    PROVE  ClientInv' /\ (Client!IsFirst(clientConn, s) \/ s <= 3 => GapsStay)
<1> DEFINE c == clientConn
           n == m_requestCount
           d == Client!Erase([c EXCEPT !.rfailed = s,
                               !.rq[s] = IF @ < Client!COMPLETE THEN state ELSE @,
                               !.rs[s] = IF @ < Client!COMPLETE THEN state ELSE @,
                               !.waiting = @ \ {s},
                               !.wakeR = IF c.rs[s] = Client!WAITING THEN @ \cup {s} ELSE @], s)
           qs == IF clientAt'[s] = "gone" THEN "gone" ELSE "threw"
           q == [clientAt' EXCEPT ![s] = qs]
           e == Client!scheduleAllWaiting(d)
<1>1. ClientKnown(s) /\ c \in ClientConnType /\ ListOK(c)
  BY ClientKnows DEF ClientKnown, ClientFacts
<1>2. s \notin c.waiting /\ c.rs[s] # Client!WAITING /\ s \notin c.wakeR /\ s \notin c.wakeQ
  BY <1>1 DEF ClientKnown, FibersOK, AsksOK, ReadsOK
<1>3. clientConn' = e
  BY DEF Client!cancel
<1>4. Cancelled(c, d, s)
  BY <1>1, <1>2, CancelsIt
<1> HIDE DEF d
<1>5. Beside(c, d, s) /\ Ends(d) /\ s \notin d.waiting /\ d.rfailed <= s
  BY <1>1, <1>2, <1>4 DEF Cancelled, Beside, Ends, ClientKnown
<1>6. c.current = s => \/ Client!Following(c, s) = Client!End
                       \/ /\ Client!Following(c, s) \in c.pending \ {s} /\ Client!Following(c, s) \in Client!Requests
                          /\ c.rq[Client!Following(c, s)] = Client!WAITING
  BY <1>1, MovesPast DEF ClientKnown, ClientFacts
<1>7. OwnPlace(d, s)
  <2>1. d.current # s
    BY <1>1, <1>4, <1>6 DEF Cancelled, ClientKnown
  <2> QED BY <1>4, <2>1 DEF Cancelled, OwnPlace
<1>8. FibersOK(d, n, qs, rat'[s], s)
  <2>1. AsksOK(d, n, qs, rat'[s], s)
    BY <1>1, <1>2, <1>4 DEF Cancelled, ClientKnown, FibersOK, AsksOK
  <2>2. SendsOK(d, qs, rat'[s], s)
    BY <1>4 DEF Cancelled, SendsOK
  <2>3. ReadsOK(d, rat'[s], s)
    BY <1>2, <1>4 DEF Cancelled, ReadsOK
  <2> QED BY <2>1, <2>2, <2>3 DEF FibersOK
<1>9. q[s] = qs /\ \A r \in Client!Requests \ {s} : q[r] = clientAt[r] /\ q[r] = clientAt'[r] /\ rat'[r] = rat[r]
  BY DEF ClientStepOf
<1> HIDE DEF q, qs
<1>10. FibersOK(d, n, q[s], rat'[s], s) /\ \A r \in Client!Requests \ {s} : q[r] = clientAt[r] /\ rat'[r] = rat[r]
  BY <1>8, <1>9
<1>11. ClientHolds(e, n, q, rat')
  BY ONLY ClientInv, s \in Client!Requests, <1>5, <1>7, <1>10, ClientTells
<1>12. clientAt'[s] \notin {"returned", "threw", "gone"} => Dead(e, s)
  <2> SUFFICES ASSUME clientAt'[s] \notin {"returned", "threw", "gone"} PROVE Dead(e, s)
    OBVIOUS
  <2>1. c.current = s \/ c.current = Client!End
    BY <1>1 DEF ClientKnown, FibersOK, SendsOK, ListOK, ListAlmost, Dead, AtPlaces
  <2>2. d \in ClientConnType /\ (d.current = Client!End \/ (d.current \in d.pending /\ d.rq[d.current] = Client!WAITING))
    BY <1>1, <1>4, <1>6, <2>1 DEF Cancelled, ClientKnown
  <2>3. e.current = Client!End /\ e.pending \subseteq d.pending /\ e.rq = d.rq /\ e.rfailed = d.rfailed
    BY <2>2, NoneIsCurrent
  <2> QED BY <1>1, <1>4, <2>3 DEF Cancelled, Dead, Ends, ClientKnown
<1> HIDE DEF e
<1>13. ClientFibers(e, n, clientAt', rat')
  <2> SUFFICES ASSUME NEW r \in Client!Requests PROVE FibersOK(e, n, clientAt'[r], rat'[r], r)
    BY DEF ClientFibers, FibersOK
  <2>1. FibersOK(e, n, q[r], rat'[r], r)
    BY <1>11 DEF ClientHolds, ClientFibers, FibersOK
  <2>2. CASE r # s
    BY <1>9, <2>1, <2>2
  <2>3. CASE r = s /\ clientAt'[s] = "gone"
    BY <1>9, <2>1, <2>3 DEF qs
  <2>4. CASE r = s /\ clientAt'[s] # "gone"
    <3>1. FibersOK(e, n, "threw", "threw", s) /\ rat'[s] = "threw" /\ clientAt'[s] = clientAt[s]
      BY <1>9, <2>1, <2>4 DEF qs
    <3>2. AsksOK(e, n, clientAt[s], "threw", s)
      BY <3>1 DEF FibersOK, AsksOK
    <3>3. SendsOK(e, clientAt[s], "threw", s)
      BY <1>12, <3>1 DEF FibersOK, SendsOK
    <3> QED BY <2>4, <3>1, <3>2, <3>3 DEF FibersOK
  <2> QED BY <2>2, <2>3, <2>4
<1>14. ClientHolds(e, n, clientAt', rat')
  BY <1>11, <1>13 DEF ClientHolds
<1>15. ASSUME Client!IsFirst(c, s) \/ s <= 3, NoGaps(c, n) PROVE NoGaps(d, n)
  <2>1. ClientFacts(c) /\ ClientFacts(d) /\ s \in Nat /\ \A x \in c.pending : x \in Nat /\ x \in Client!Requests
    BY <1>1, <1>5, ClientTypes, RequestNumbers DEF ClientFacts, Beside
  <2>2. \A r \in d.pending : Beyond(d, r) \/ r <= 2
    <3> SUFFICES ASSUME NEW r \in d.pending PROVE Beyond(d, r) \/ r <= 2
      OBVIOUS
    <3>1. r \in c.pending /\ r \in Nat /\ d.rfailed = s
      BY <1>4, <2>1 DEF Cancelled
    <3>2. r >= s => Beyond(d, r)
      BY <3>1 DEF Beyond
    <3>3. r < s => r <= 2
      BY <1>15, <2>1, <3>1 DEF Client!IsFirst
    <3> QED BY <2>1, <3>1, <3>2, <3>3
  <2>3. \A x \in c.pending \ d.pending : Beyond(d, x)
    BY <1>4, <2>1 DEF Cancelled, Beyond
  <2>4. OverFirst(d)
    <3>1. CASE c.current = s
      <4>1. d.current = Client!End \/ d.rs[d.current] = Client!PENDING
        <5>1. \/ Client!Following(c, s) = Client!End
              \/ c.rs[Client!Following(c, s)] = Client!PENDING /\ Client!Following(c, s) \in Client!Requests \ {s}
          BY <1>1, <1>6, <3>1, MovesPast DEF ClientKnown
        <5> QED BY <1>4, <3>1, <5>1 DEF Cancelled
      <4> QED BY <4>1 DEF OverFirst
    <3>2. CASE c.current # s
      <4>1. s \in c.pending
        BY <1>1 DEF ClientKnown, FibersOK, AsksOK, SendsOK, ListOK, ListAlmost, Dead, AtPlaces
      <4>2. c.current # Client!End => c.current > s
        BY <1>1, <2>1, <3>2, <4>1 DEF ClientKnown, InPlace, FibersOK, AsksOK, ClientFacts
      <4> QED BY <1>4, <2>1, <3>2, <4>2 DEF Cancelled, OverFirst, Beyond, ClientFacts
    <3> QED BY <3>1, <3>2
  <2>5. d.pending \subseteq c.pending /\ d \in ClientConnType
    BY <1>4 DEF Cancelled
  <2> QED BY ONLY <1>1, <1>5, <1>15, <2>2, <2>3, <2>4, <2>5, GapsKept
<1>16. NoGaps(d, n) => NoGaps(e, n)
  BY ONLY ClientInv, s \in Client!Requests, <1>5, <1>7, <1>10, ClientTells DEF e
<1>17. Client!IsFirst(c, s) \/ s <= 3 => GapsStay
  BY <1>3, <1>15, <1>16 DEF GapsStay, ClientStepOf
<1> QED BY <1>3, <1>14, <1>17 DEF ClientInv, ClientStepOf


LEMMA BodyFailsKeeps ==
    ASSUME ClientInv, NEW s \in Client!Requests, Client!BodyFails(s) PROVE ClientInv' /\ GapsStay
<1>1. ClientKnown(s)
  BY ClientKnows
<1>2. rat[s] = "body" /\ Client!GoR(s, "threw") /\ UNCHANGED <<clientAt, m_requestCount>>
  BY DEF Client!BodyFails
<1>3. PICK state \in {Client!ERROR, Client!CANCELED} : Client!cancel(s, state)
  BY DEF Client!BodyFails
<1>4. ClientStepOf(s) /\ rat'[s] = "threw" /\ clientAt'[s] = clientAt[s]
  BY <1>2, GoesR DEF RatPlaces
<1>5. Client!IsFirst(clientConn, s) /\ clientConn.rs[s] = Client!BODY /\ clientAt[s] \notin {"idle", "waiting", "gone"}
  BY <1>1, <1>2 DEF ClientKnown, FibersOK, AsksOK, SendsOK, ReadsOK
<1> QED BY <1>2, <1>3, <1>4, <1>5, CancelKeepsClient

LEMMA DestroyKeeps ==
    ASSUME ClientInv, NEW s \in Client!Requests, Client!Destroy(s) PROVE ClientInv' /\ (Dropped \subseteq {1, 2, 3} => GapsStay)
<1>1. ClientKnown(s)
  BY ClientKnows
<1>2. /\ clientAt[s] \notin {"idle", "waiting", "gone"} /\ rat[s] \notin {"waiting", "gone"}
      /\ Client!cancel(s, Client!CANCELED) /\ Client!GoQ(s, "gone") /\ Client!GoR(s, "gone") /\ UNCHANGED m_requestCount
  BY DEF Client!Destroy
<1>3. ClientStepOf(s) /\ rat'[s] = "gone" /\ clientAt'[s] = "gone"
  BY <1>2 DEF ClientInv, ClientStepOf, Client!GoQ, Client!GoR, AtPlaces, RatPlaces
<1>4. CASE ~(clientConn.rq[s] >= Client!COMPLETE /\ clientConn.rs[s] >= Client!COMPLETE)
  <2>1. Client!CANCELED \in {Client!ERROR, Client!CANCELED}
    OBVIOUS
  <2>2. s \in Dropped
    <3>1. clientAt[s] \in {"returned", "threw"} => clientConn.rq[s] >= Client!COMPLETE
      BY <1>1 DEF ClientKnown, FibersOK, SendsOK
    <3>2. rat[s] \in {"returned", "threw"} => clientConn.rs[s] >= Client!COMPLETE
      BY <1>1 DEF ClientKnown, FibersOK, ReadsOK
    <3> QED BY <1>4, <3>1, <3>2 DEF Client!Destroy
  <2>3. Dropped \subseteq {1, 2, 3} => s <= 3
    BY <2>2
  <2> QED BY <1>2, <1>3, <1>4, <2>1, <2>3, CancelKeepsClient
<1>5. CASE clientConn.rq[s] >= Client!COMPLETE /\ clientConn.rs[s] >= Client!COMPLETE
  <2>1. UNCHANGED clientConn
    BY <1>2, <1>5 DEF Client!cancel
  <2>2. s \notin clientConn.pending
    BY <1>1, <1>5 DEF ClientKnown, InPlace
  <2>3. s \notin clientConn.waiting /\ s \notin clientConn.wakeR /\ s \notin clientConn.wakeQ
    BY <1>1, <1>2 DEF ClientKnown, FibersOK, AsksOK, ReadsOK
  <2>4. FibersOK(clientConn, m_requestCount, "gone", "gone", s)
    <3>1. AsksOK(clientConn, m_requestCount, "gone", "gone", s)
      BY <1>1, <1>2, <1>5, <2>3 DEF ClientKnown, FibersOK, AsksOK
    <3>2. SendsOK(clientConn, "gone", "gone", s)
      BY <1>5, <2>2 DEF SendsOK
    <3>3. ReadsOK(clientConn, "gone", s)
      BY <1>5, <2>2, <2>3 DEF ReadsOK
    <3> QED BY <3>1, <3>2, <3>3 DEF FibersOK
  <2> QED BY <1>3, <2>1, <2>4, ClientGoesOn
<1> QED BY <1>4, <1>5

\* The first in the list waited for its response, and begins to read it.
BeginsReading(e, f) == [e EXCEPT !.rs[f] = Client!HEADERS, !.waiting = @ \ {f}, !.wakeR = @ \cup {f}]

LEMMA ReadsNext ==
    ASSUME NEW e \in ClientConnType, NEW n, NEW q, NEW p, ListOK(e), ClientFibers(e, n, q, p),
           NEW f \in e.waiting, Client!IsFirst(e, f), \A r \in e.waiting : ~NotComing(e, r)
    PROVE  ClientHolds(BeginsReading(e, f), n, q, p) /\ (NoGaps(e, n) => NoGaps(BeginsReading(e, f), n))
<1> DEFINE d == BeginsReading(e, f)
<1>1. ClientFacts(e) /\ f \in Client!Requests /\ f \in e.pending
  BY ClientTypes DEF ClientFacts, Client!IsFirst
<1>2. AsksOK(e, n, q[f], p[f], f) /\ SendsOK(e, q[f], p[f], f) /\ ReadsOK(e, p[f], f) /\ InPlace(e, f)
  BY <1>1 DEF ClientFibers, ListOK, ListAlmost
<1>3. p[f] = "waiting" /\ e.rs[f] = Client!WAITING /\ e.rq[f] # Client!WAITING
  BY <1>2 DEF ReadsOK, InPlace
<1>4. d \in ClientConnType
  BY <1>1 DEF BeginsReading, ClientFacts, ClientConnType
<1>5. /\ d.pending = e.pending /\ d.current = e.current /\ d.rq = e.rq /\ d.rs = [e.rs EXCEPT ![f] = Client!HEADERS]
      /\ d.waiting = e.waiting \ {f} /\ d.wakeQ = e.wakeQ /\ d.wakeR = e.wakeR \cup {f}
      /\ d.failed = e.failed /\ d.rfailed = e.rfailed /\ d.rclosed = e.rclosed
  BY DEF BeginsReading, ClientConnType
<1> HIDE DEF d
<1>6. d.rs[f] = Client!HEADERS /\ \A r \in Client!Requests \ {f} : d.rs[r] = e.rs[r]
  BY <1>1, <1>5 DEF ClientFacts
<1>7. Ends(d) <=> Ends(e)
  BY <1>5 DEF Ends
<1>8. ListOK(d)
  <2>1. ASSUME NEW r \in d.pending PROVE InPlace(d, r)
    <3>1. InPlace(e, r) /\ r \in Client!Requests
      BY <1>1, <1>5 DEF ListOK, ListAlmost, ClientFacts
    <3>2. CASE r = f
      BY <1>2, <1>3, <1>5, <1>6, <3>2 DEF InPlace
    <3>3. CASE r # f
      BY <1>5, <1>6, <3>1, <3>3 DEF InPlace
    <3> QED BY <3>2, <3>3
  <2> QED BY <1>5, <1>7, <2>1 DEF ListOK, ListAlmost
<1>9. ASSUME NEW r \in Client!Requests
      PROVE  AsksOK(d, n, q[r], p[r], r) /\ SendsOK(d, q[r], p[r], r) /\ ReadsOK(d, p[r], r)
  <2>1. AsksOK(e, n, q[r], p[r], r) /\ SendsOK(e, q[r], p[r], r) /\ ReadsOK(e, p[r], r)
    BY DEF ClientFibers
  <2>2. (Dead(e, r) => Dead(d, r)) /\ (Client!IsFirst(e, r) <=> Client!IsFirst(d, r))
        /\ (Client!UpToCurrent(e, r) <=> Client!UpToCurrent(d, r))
    BY <1>5, <1>7 DEF Dead, Client!IsFirst, Client!UpToCurrent
  <2>3. CASE r = f
    <3>1. AsksOK(d, n, q[f], p[f], f)
      BY <1>2, <1>3, <1>5, <1>6, <1>7 DEF AsksOK
    <3>2. SendsOK(d, q[f], p[f], f)
      BY <1>1, <1>2, <1>5, <2>2, <2>3 DEF SendsOK
    <3>3. ReadsOK(d, p[f], f)
      BY <1>2, <1>3, <1>5, <1>6, <2>2, <2>3 DEF ReadsOK
    <3> QED BY <2>3, <3>1, <3>2, <3>3
  <2>4. CASE r # f
    <3>1. d.rs[r] = e.rs[r] /\ (r \in d.waiting <=> r \in e.waiting) /\ (r \in d.wakeR <=> r \in e.wakeR)
      BY <1>5, <1>6, <2>4
    <3>2. AsksOK(d, n, q[r], p[r], r)
      BY <1>5, <1>7, <2>1, <3>1 DEF AsksOK
    <3>3. SendsOK(d, q[r], p[r], r)
      BY <1>5, <2>1, <2>2, <3>1 DEF SendsOK
    <3>4. ReadsOK(d, p[r], r)
      BY <1>5, <2>1, <2>2, <3>1 DEF ReadsOK
    <3> QED BY <3>2, <3>3, <3>4
  <2> QED BY <2>3, <2>4
<1>10. ASSUME NEW r \in d.waiting PROVE ~Client!IsFirst(d, r) /\ ~NotComing(d, r)
  <2>1. r # f /\ r \in e.waiting /\ r \in Nat /\ f \in Nat
    BY <1>1, <1>5, RequestNumbers DEF ClientFacts
  <2> QED BY <1>5, <2>1 DEF Client!IsFirst, NotComing
<1>11. ASSUME NoGaps(e, n) PROVE NoGaps(d, n)
  <2>1. e.current # Client!End => e.current \in Client!Requests
    BY <1>1 DEF ListOK, ListAlmost, ClientFacts
  <2>2. d.current # Client!End /\ d.rs[d.current] >= Client!COMPLETE => e.rs[d.current] >= Client!COMPLETE
    BY <1>5, <1>6, <2>1
  <2> QED BY <1>4, <1>5, <1>7, <1>11, <2>2, SameGaps
<1> QED BY <1>4, <1>8, <1>9, <1>10, <1>11 DEF ClientHolds, ClientFibers, InLine, d

LEMMA ScheduleNextResponseKeeps ==
    ASSUME ClientInv, NEW s \in Client!Requests, Client!scheduleNextResponse(s) PROVE ClientInv' /\ GapsStay
<1> DEFINE c == clientConn
           n == m_requestCount
           f == Client!Following(c, s)
           out == c.rq[s] >= Client!COMPLETE
           g == [c EXCEPT !.rs[s] = Client!COMPLETE]
           e == Client!EraseIf(g, s, out)
<1>1. ClientKnown(s) /\ c \in ClientConnType /\ ListOK(c) /\ InLine(c)
  BY ClientKnows DEF ClientKnown, ClientFacts
<1>2. rat[s] = "read" /\ UNCHANGED <<clientAt, m_requestCount>> /\ Client!GoR(s, "returned")
  BY DEF Client!scheduleNextResponse
<1>3. Client!IsFirst(c, s) /\ s \in c.pending /\ InPlace(c, s)
  BY <1>1, <1>2 DEF ClientKnown, FibersOK, ReadsOK, Client!IsFirst
<1>6. clientConn' = IF f # Client!End /\ e.rs[f] = Client!WAITING THEN BeginsReading(e, f) ELSE e
  BY DEF Client!scheduleNextResponse, BeginsReading
<1>7. /\ c.rfailed \in Nat /\ c.rclosed \in Nat /\ out \in BOOLEAN /\ Client!COMPLETE \in 0..6
      /\ out <=> c.rq[s] >= Client!COMPLETE
      /\ Client!COMPLETE \in {Client!BODY, Client!COMPLETE, Client!ERROR} /\ Client!COMPLETE # Client!BODY
  BY <1>1 DEF ClientKnown, ClientFacts
<1>8. \/ f = Client!End /\ \A x \in c.pending : ~(x > s)
      \/ f \in c.pending /\ f > s /\ f # Client!End /\ f \in Nat /\ \A x \in c.pending : x > s => f <= x
  BY <1>1, <1>3, FollowingIs, RequestNumbers DEF ClientKnown, ClientFacts
<1> HIDE DEF out, f
<1>9. Over(c, e, s, Client!COMPLETE, out) /\ e.rfailed = c.rfailed /\ e.rclosed = c.rclosed /\ e.failed = c.failed
  <2>1. g \in ClientConnType
    BY <1>1 DEF ClientKnown, ClientFacts, ClientConnType
  <2>2. /\ g.pending = c.pending /\ g.current = c.current /\ g.rq = c.rq /\ g.rs = [c.rs EXCEPT ![s] = Client!COMPLETE]
        /\ g.waiting = c.waiting /\ g.wakeQ = c.wakeQ /\ g.wakeR = c.wakeR
        /\ g.failed = c.failed /\ g.rfailed = c.rfailed /\ g.rclosed = c.rclosed
    BY <1>1 DEF ClientConnType
  <2> HIDE DEF g
  <2>3. CASE ~out
    BY <2>1, <2>2, <2>3 DEF Over, Client!EraseIf
  <2>4. CASE out
    <3>1. c.current # s
      BY <1>1, <1>7, <2>4 DEF ClientKnown, ListOK, ListAlmost
    <3>2. Without(g, e, s)
      BY <2>1, <2>4, ErasesIt DEF Client!EraseIf
    <3> QED BY <2>2, <2>4, <3>1, <3>2 DEF Over, Without
  <2> QED BY <2>3, <2>4
<1> HIDE DEF e
<1>10. Ends(e) <=> Ends(c)
  BY <1>9 DEF Ends
<1>11. Beside(c, e, s) /\ OwnPlace(e, s) /\ s \notin e.waiting /\ FibersOK(e, n, clientAt[s], "returned", s)
  BY <1>2, <1>7, <1>9, <1>10, OverKeepsClient
<1>12. ClientStepOf(s) /\ rat'[s] = "returned" /\ clientAt'[s] = clientAt[s]
  BY <1>2, GoesR DEF RatPlaces
<1>13. ListOK(e)
  <2>1. e.current = c.current /\ e.rq = c.rq
    BY <1>9 DEF Over
  <2>2. s \in e.pending => e.rq[s] # Client!WAITING
    BY <1>1, <1>2, <1>3, <2>1 DEF ClientKnown, FibersOK, ReadsOK, InPlace
  <2> QED BY <1>1, <1>10, <1>11, <2>1, <2>2, BesideList
<1>14. ASSUME NEW r \in e.waiting
       PROVE  /\ r \in c.waiting /\ r \in c.pending /\ r \in Client!Requests /\ r \in Nat /\ r > s
              /\ c.rs[r] = Client!WAITING /\ e.rs[r] = Client!WAITING /\ ~NotComing(e, r) /\ Client!UpToCurrent(c, r)
  <2>1. r \in c.waiting /\ r \in Client!Requests /\ r # s
    BY <1>1, <1>9, <1>11 DEF Over, ClientKnown, ClientFacts
  <2>2. ClientKnown(r)
    BY <2>1, ClientKnows
  <2>3. r \in c.pending /\ r \in Nat /\ c.rs[r] = Client!WAITING /\ Client!UpToCurrent(c, r)
    BY <2>1, <2>2 DEF ClientKnown, FibersOK, ReadsOK
  <2>4. ~NotComing(e, r) /\ e.rs[r] = c.rs[r]
    BY <1>1, <1>9, <1>11, <2>1 DEF InLine, NotComing, Beside
  <2>5. r > s
    BY <1>1, <1>3, <2>1, <2>3 DEF Client!IsFirst, ClientKnown
  <2> QED BY <2>1, <2>3, <2>4, <2>5
<1>17. NoGaps(c, n) => NoGaps(e, n)
  <2> SUFFICES ASSUME NoGaps(c, n) PROVE NoGaps(e, n)
    OBVIOUS
  <2>1. e \in ClientConnType /\ e.pending \subseteq c.pending /\ c.pending \subseteq e.pending \cup {s} /\ e.current = c.current
    BY <1>9 DEF Over
  <2>2. \A r : Beyond(c, r) <=> Beyond(e, r)
    BY <1>9 DEF Beyond
  <2>3. OverFirst(e)
    <3>1. CASE e.current = s
      BY <1>3, <1>13, <2>1, <3>1 DEF OverFirst, Client!IsFirst, ListOK, ListAlmost
    <3>2. CASE e.current # s
      <4>1. e.current # Client!End => e.current \in Client!Requests \ {s} /\ e.current \in e.pending
        BY <1>1, <1>13, <2>1, <3>2 DEF ListOK, ListAlmost, ClientKnown, ClientFacts
      <4>2. e.current # Client!End => e.rs[e.current] = c.rs[c.current]
        BY <1>11, <2>1, <4>1 DEF Beside
      <4> QED BY <2>1, <2>2, <4>1, <4>2 DEF NoGaps, OverFirst, Client!IsFirst
    <3> QED BY <3>1, <3>2
  <2>4. \A x \in c.pending \ e.pending : Client!IsFirst(c, x)
    BY <1>3, <2>1
  <2> QED BY <1>1, <1>10, <2>1, <2>2, <2>3, <2>4, GapsKept
<1>15. CASE f # Client!End /\ e.rs[f] = Client!WAITING
  <2>1. f \in Client!Requests /\ f # s /\ f \in c.pending
    BY <1>1, <1>8, <1>15 DEF ClientKnown, ClientFacts
  <2>2. ClientKnown(f) /\ c.rs[f] = Client!WAITING
    BY <1>11, <1>15, <2>1, ClientKnows DEF Beside
  <2>3. f \in e.waiting
    BY <1>11, <2>1, <2>2 DEF ClientKnown, FibersOK, ReadsOK, Beside
  <2>4. out
    <3>1. Client!UpToCurrent(c, f) /\ c.current \in Nat
      BY <1>1, <1>14, <2>3 DEF ClientKnown, ClientFacts
    <3> QED BY <1>1, <1>3, <1>7, <1>8, <1>15, <3>1 DEF Client!UpToCurrent, InPlace, ClientKnown
  <2>5. e.pending = c.pending \ {s}
    BY <1>9, <2>4 DEF Over
  <2>6. Client!IsFirst(e, f)
    <3>1. \A x \in c.pending : x \in Nat /\ s <= x
      BY <1>1, <1>3, RequestNumbers DEF Client!IsFirst, ClientKnown, ClientFacts
    <3> QED BY <1>1, <1>8, <1>15, <2>1, <2>5, <3>1 DEF Client!IsFirst, ClientKnown
  <2>7. ClientFibers(e, n, clientAt', rat')
    <3>1. ClientHolds(c, n, clientAt, rat) /\ \A r \in Client!Requests \ {s} : clientAt'[r] = clientAt[r] /\ rat'[r] = rat[r]
      BY <1>12 DEF ClientInv, ClientStepOf
    <3>2. FibersOK(e, n, clientAt'[s], rat'[s], s)
      BY <1>11, <1>12
    <3> QED BY ONLY <1>11, <3>1, <3>2, s \in Client!Requests, BesideFibers
  <2>8. e \in ClientConnType /\ \A r \in e.waiting : ~NotComing(e, r)
    BY <1>9, <1>14 DEF Over
  <2>9. ClientHolds(BeginsReading(e, f), n, clientAt', rat') /\ (NoGaps(e, n) => NoGaps(BeginsReading(e, f), n))
    BY <1>13, <2>3, <2>6, <2>7, <2>8, ReadsNext
  <2> QED BY <1>6, <1>12, <1>15, <1>17, <2>9 DEF ClientInv, ClientStepOf, GapsStay
<1>16. CASE ~(f # Client!End /\ e.rs[f] = Client!WAITING)
  <2>1. clientConn' = e
    BY <1>6, <1>16
  <2>2. InLine(e)
    <3> SUFFICES ASSUME NEW r \in e.waiting PROVE ~Client!IsFirst(e, r) /\ ~NotComing(e, r)
      BY DEF InLine
    <3>1. f # Client!End /\ f <= r /\ f \in Nat /\ r \in Nat /\ f # r /\ f \in c.pending /\ f # s
      BY <1>1, <1>8, <1>14, <1>16 DEF ClientKnown
    <3>2. f \in e.pending
      BY <1>11, <3>1 DEF Beside
    <3> QED BY <1>14, <3>1, <3>2 DEF Client!IsFirst
  <2>3. GapsStay
    BY <1>12, <1>17, <2>1 DEF GapsStay, ClientStepOf
  <2>4. FibersOK(e, n, clientAt'[s], rat'[s], s)
    BY <1>11, <1>12
  <2> QED BY <1>11, <1>12, <1>13, <2>1, <2>2, <2>3, <2>4, ClientMoved
<1> QED BY <1>15, <1>16


\* Only destroying a request can leave a gap that the assertion does not allow.
Few == Dropped \subseteq {1, 2, 3}

LEMMA ClientStep == ClientInv /\ [Client!HTTPClientNext]_(Client!clientVars) => ClientInv' /\ (Few => GapsStay)
<1>1. ASSUME ClientInv, UNCHANGED <<clientConn, m_requestCount, clientAt, rat>> PROVE ClientInv' /\ GapsStay
  BY <1>1 DEF ClientInv, GapsStay
<1>2. ASSUME ClientInv, NEW s \in Client!Requests, Client!Sending(s) PROVE ClientInv' /\ GapsStay
  <2>1. CASE Client!WokenRequest(s) \/ Client!doRequest(s)
    BY <1>2, <2>1, WokenRequestKeeps, DoRequestKeeps
  <2>2. CASE Client!WriteBody(s) \/ Client!Flushes(s) \/ Client!FlushEnds(s)
    BY <1>2, <2>2, WritesKeep
  <2>3. CASE Client!scheduleNextRequest(s) \/ Client!RequestComplete(s)
    BY <1>2, <2>3, ScheduleNextRequestKeeps, RequestCompleteKeepsC
  <2>4. CASE Client!requestFailed(s)
    BY <1>2, <2>4, RequestFailedKeeps
  <2> QED BY <1>2, <2>1, <2>2, <2>3, <2>4 DEF Client!Sending
<1>3. ASSUME ClientInv, NEW s \in Client!Requests, Client!Reading(s) PROVE ClientInv' /\ GapsStay
  <2>1. CASE Client!WokenResponse(s) \/ Client!ReadHeaders(s)
    BY <1>3, <2>1, WokenResponseKeeps, ReadHeadersKeeps
  <2>2. CASE Client!ReadClose(s) \/ Client!ReadFails(s)
    BY <1>3, <2>2, ReadCloseKeeps, ReadFailsKeeps
  <2>3. CASE Client!responseDone(s) \/ Client!scheduleNextResponse(s)
    BY <1>3, <2>3, ResponseDoneKeeps, ScheduleNextResponseKeeps
  <2>4. CASE Client!BodyFails(s)
    BY <1>3, <2>4, BodyFailsKeeps
  <2> QED BY <1>3, <2>1, <2>2, <2>3, <2>4 DEF Client!Reading
<1>4. ASSUME ClientInv, NEW s \in Client!Requests, Client!waitForRequest(s) \/ Client!ensureResponse(s)
      PROVE  ClientInv' /\ GapsStay
  BY <1>4, WaitForRequestKeeps, EnsureKeeps
<1>5. ASSUME ClientInv, NEW s \in Client!Requests, Client!Destroy(s) PROVE ClientInv' /\ (Few => GapsStay)
  BY <1>5, DestroyKeeps DEF Few
<1>6. ASSUME ClientInv, Client!IdleTimeout \/ UNCHANGED Client!clientVars PROVE ClientInv' /\ GapsStay
  BY <1>1, <1>6 DEF Client!IdleTimeout, Client!clientVars
<1> QED BY <1>2, <1>3, <1>4, <1>5, <1>6 DEF Client!HTTPClientNext

-----------------------------------------------------------------------------
(* What is missing in the client's list: the responses that were read to   *)
(* their end were the first of the list, and the requests that were        *)
(* refused the last.                                                       *)

CompleteFirst(c) ==
    \A r \in Client!Requests : c.rs[r] = Client!COMPLETE => \A x \in c.pending : r <= x
RefusedLast(c) ==
    \A r \in Client!Requests : c.rq[r] = Client!WAITING /\ r \notin c.pending => \A x \in c.pending : x < r
MissingOK(c) == CompleteFirst(c) /\ RefusedLast(c)

ClientConnShape ==
    [pending : SUBSET Client!Requests, current : Nat, waiting : SUBSET Nat,
     rq : [Client!Requests -> Nat], rs : [Client!Requests -> Nat],
     failed : BOOLEAN, rfailed : Nat, rclosed : Nat, allow : BOOLEAN,
     wakeQ : SUBSET Nat, wakeR : SUBSET Nat]

\* What a critical section of s makes of the record c: a response that is complete now was
\* the first, and of the requests behind the current one all are taken out or none.
OnlyLast(c, d, s) ==
    \A r \in Client!Requests \ {s} :
        c.rq[r] = Client!WAITING /\ r \in c.pending /\ r \notin d.pending => \A x \in d.pending : x < r
CompletesFirst(c, d, s) ==
    \A r \in Client!Requests :
        d.rs[r] = Client!COMPLETE => c.rs[r] = Client!COMPLETE \/ (r = s /\ Client!IsFirst(c, s))
Onward(c, d, s) ==
    /\ d \in ClientConnShape /\ d.pending \subseteq c.pending
    /\ OnlyLast(c, d, s) /\ CompletesFirst(c, d, s)
    /\ \A r \in Client!Requests \ {s} : d.rq[r] = Client!WAITING => c.rq[r] = Client!WAITING
Follows(c, d, s) ==
    Onward(c, d, s) /\ \A r \in Client!Requests \ {s} : d.rq[r] = c.rq[r]

\* s does not wait to request, and whoever is behind one that does, waits too.
WaitBehind(c, s) ==
    /\ c.rq[s] # Client!WAITING
    /\ \A r, x \in c.pending : r < x /\ c.rq[r] = Client!WAITING => c.rq[x] = Client!WAITING

LEMMA FollowsFrom ==
    ASSUME NEW c, NEW e, NEW d, NEW s \in Client!Requests, Follows(c, e, s), d \in ClientConnShape,
           d.pending = e.pending \/ d.pending = e.pending \ {s},
           \A r \in Client!Requests \ {s} : d.rq[r] = e.rq[r],
           \A r \in Client!Requests : d.rs[r] = Client!COMPLETE =>
               e.rs[r] = Client!COMPLETE \/ (r = s /\ Client!IsFirst(c, s))
    PROVE  Follows(c, d, s)
<1>1. d.pending \subseteq c.pending /\ CompletesFirst(c, d, s)
  BY DEF Follows, Onward, CompletesFirst
<1>2. OnlyLast(c, d, s)
  BY DEF Follows, Onward, OnlyLast
<1>3. \A r \in Client!Requests \ {s} : d.rq[r] = c.rq[r]
  BY DEF Follows
<1> QED BY <1>1, <1>2, <1>3 DEF Follows, Onward

\* What touches neither the list nor a state.
LEMMA OthersFollow ==
    ASSUME NEW c, NEW e, NEW s \in Client!Requests, Follows(c, e, s),
           NEW n \in Nat, NEW Q \in SUBSET Nat, NEW b \in BOOLEAN
    PROVE  /\ Follows(c, [e EXCEPT !.wakeQ = Q], s)
           /\ Follows(c, [e EXCEPT !.wakeR = Q], s)
           /\ Follows(c, [e EXCEPT !.allow = b], s)
           /\ Follows(c, [e EXCEPT !.current = n], s)
           /\ Follows(c, [e EXCEPT !.pending = e.pending \ {s}, !.current = n], s)
<1> USE DEF ClientConnShape
<1>0. e \in ClientConnShape
  BY DEF Follows, Onward
<1>1. Follows(c, [e EXCEPT !.wakeQ = Q], s)
  <2> DEFINE d == [e EXCEPT !.wakeQ = Q]
  <2>1. d \in ClientConnShape /\ d.pending = e.pending /\ d.rq = e.rq /\ d.rs = e.rs
    BY <1>0
  <2> HIDE DEF d
  <2>2. Follows(c, d, s)
    BY <2>1, FollowsFrom
  <2> QED BY <2>2 DEF d
<1>2. Follows(c, [e EXCEPT !.wakeR = Q], s)
  <2> DEFINE d == [e EXCEPT !.wakeR = Q]
  <2>1. d \in ClientConnShape /\ d.pending = e.pending /\ d.rq = e.rq /\ d.rs = e.rs
    BY <1>0
  <2> HIDE DEF d
  <2>2. Follows(c, d, s)
    BY <2>1, FollowsFrom
  <2> QED BY <2>2 DEF d
<1>3. Follows(c, [e EXCEPT !.allow = b], s)
  <2> DEFINE d == [e EXCEPT !.allow = b]
  <2>1. d \in ClientConnShape /\ d.pending = e.pending /\ d.rq = e.rq /\ d.rs = e.rs
    BY <1>0
  <2> HIDE DEF d
  <2>2. Follows(c, d, s)
    BY <2>1, FollowsFrom
  <2> QED BY <2>2 DEF d
<1>4. Follows(c, [e EXCEPT !.current = n], s)
  <2> DEFINE d == [e EXCEPT !.current = n]
  <2>1. d \in ClientConnShape /\ d.pending = e.pending /\ d.rq = e.rq /\ d.rs = e.rs
    BY <1>0
  <2> HIDE DEF d
  <2>2. Follows(c, d, s)
    BY <2>1, FollowsFrom
  <2> QED BY <2>2 DEF d
<1>5. Follows(c, [e EXCEPT !.pending = e.pending \ {s}, !.current = n], s)
  <2> DEFINE d == [e EXCEPT !.pending = e.pending \ {s}, !.current = n]
  <2>1. d \in ClientConnShape /\ d.pending = e.pending \ {s} /\ d.rq = e.rq /\ d.rs = e.rs
    BY <1>0
  <2> HIDE DEF d
  <2>2. Follows(c, d, s)
    BY <2>1, FollowsFrom
  <2> QED BY <2>2 DEF d
<1> QED BY <1>1, <1>2, <1>3, <1>4, <1>5

LEMMA ErasingFollows ==
    ASSUME NEW c, NEW e, NEW s \in Client!Requests, Follows(c, e, s)
    PROVE  /\ Follows(c, Client!Erase(e, s), s)
           /\ \A b \in BOOLEAN : Follows(c, Client!EraseIf(e, s, b), s)
           /\ Follows(c, Client!Advance(e), s)
<1>1. e.pending \subseteq Client!Requests /\ e.current \in Nat /\ s \in Nat /\ {} \in SUBSET Nat
  BY RequestNumbers DEF Follows, Onward, ClientConnShape
<1>2. Client!Following(e, s) \in Nat /\ Client!Following(e, e.current) \in Nat
  <2>1. \A x \in e.pending : x \in Nat
    BY <1>1, RequestNumbers
  <2>2. ASSUME NEW r \in Nat PROVE Client!Following(e, r) \in Nat
    <3>1. Client!Following(e, r) = Client!End \/ Client!Following(e, r) \in e.pending
      BY <1>1, FollowingIs
    <3> QED BY <2>1, <3>1, RequestNumbers
  <2> QED BY <1>1, <2>2
<1>3. Follows(c, Client!Advance(e), s)
  <2>1. Follows(c, [e EXCEPT !.current = Client!Following(e, e.current)], s)
    BY <1>1, <1>2, OthersFollow
  <2> QED BY <2>1 DEF Client!Advance
<1>4. Follows(c, Client!Erase(e, s), s)
  <2> DEFINE n == IF e.current = s THEN Client!Following(e, s) ELSE e.current
  <2>1. n \in Nat
    BY <1>1, <1>2
  <2> HIDE DEF n
  <2>2. Follows(c, [e EXCEPT !.pending = e.pending \ {s}, !.current = n], s)
    BY <1>1, <2>1, OthersFollow
  <2>3. [e EXCEPT !.pending = e.pending \ {s}].current = e.current
    BY DEF Follows, Onward, ClientConnShape
  <2> QED BY <2>2, <2>3 DEF Client!Erase, n
<1> QED BY <1>3, <1>4 DEF Client!EraseIf

LEMMA RefusingFollows ==
    ASSUME NEW c, NEW e, NEW s \in Client!Requests, Follows(c, e, s), WaitBehind(c, s)
    PROVE  Follows(c, Client!scheduleAllWaitingRequests(e), s)
<1> DEFINE W == {r \in e.pending : e.current # Client!End /\ r >= e.current /\ e.rq[r] = Client!WAITING}
           m == IF e.current \in W THEN Client!End ELSE e.current
           d == [e EXCEPT !.pending = e.pending \ W, !.current = m, !.wakeQ = e.wakeQ \cup W]
<1>1. /\ e \in ClientConnShape /\ e.pending \subseteq Client!Requests /\ e.pending \subseteq c.pending
      /\ e.current \in Nat /\ e.wakeQ \in SUBSET Nat
      /\ Client!End \in Nat /\ \A r \in Client!Requests : r \in Nat
  BY RequestNumbers DEF Follows, Onward, ClientConnShape
<1>2. e.wakeQ \cup W \in SUBSET Nat /\ m \in Nat /\ e.pending \ W \in SUBSET Client!Requests
  BY <1>1
<1>3. Client!scheduleAllWaitingRequests(e) = d
  <2>1. /\ [e EXCEPT !.pending = e.pending \ W].current = e.current
        /\ [e EXCEPT !.pending = e.pending \ W, !.current = m].wakeQ = e.wakeQ
    BY <1>1 DEF ClientConnShape
  <2> QED BY <2>1 DEF Client!scheduleAllWaitingRequests
<1>4. ASSUME NEW r \in W, NEW x \in e.pending \ W, r # s PROVE x < r
  <2>1. /\ r \in c.pending /\ x \in c.pending /\ r \in Nat /\ x \in Nat
        /\ c.rq[r] = Client!WAITING /\ x # r /\ r \in Client!Requests /\ x \in Client!Requests
    BY <1>1, <1>4 DEF Follows
  <2>2. CASE r < x
    <3>1. c.rq[x] = Client!WAITING /\ x # s
      BY <2>1, <2>2 DEF WaitBehind
    <3>2. e.rq[x] = Client!WAITING
      BY <2>1, <3>1 DEF Follows
    <3>3. x >= e.current /\ e.current # Client!End
      BY <1>1, <2>1, <2>2
    <3> QED BY <3>2, <3>3
  <2> QED BY <2>1, <2>2
<1> HIDE DEF W, m
<1>5. d \in ClientConnShape /\ d.pending = e.pending \ W /\ d.rq = e.rq /\ d.rs = e.rs
  BY <1>1, <1>2 DEF ClientConnShape
<1> HIDE DEF d
<1>6. d.pending \subseteq c.pending /\ CompletesFirst(c, d, s)
  BY <1>5 DEF Follows, Onward, CompletesFirst
<1>7. OnlyLast(c, d, s)
  <2>1. ASSUME NEW r \in Client!Requests \ {s}, NEW x \in d.pending,
               c.rq[r] = Client!WAITING, r \in c.pending, r \notin d.pending
        PROVE  x < r
    <3>1. CASE r \in e.pending
      BY <1>4, <1>5, <2>1, <3>1
    <3>2. CASE r \notin e.pending
      BY <1>5, <2>1, <3>2 DEF Follows, Onward, OnlyLast
    <3> QED BY <3>1, <3>2
  <2> QED BY <2>1 DEF OnlyLast
<1> QED BY <1>3, <1>5, <1>6, <1>7 DEF Follows, Onward

LEMMA TellingFollows ==
    ASSUME NEW c, NEW e, NEW s \in Client!Requests, Follows(c, e, s)
    PROVE  Follows(c, Client!scheduleAllWaitingResponses(e), s)
<1> DEFINE first == IF e.rfailed < e.rclosed THEN e.rfailed ELSE e.rclosed
           W == {r \in e.pending : r > first /\ e.rs[r] = Client!WAITING /\ Client!UpToCurrent(e, r)}
           g == {r \in W : e.rq[r] >= Client!COMPLETE}
           f == [r \in Client!Requests |-> IF r \in W THEN Client!ERROR ELSE e.rs[r]]
           d == [e EXCEPT !.rs = f, !.waiting = e.waiting \ W, !.wakeR = e.wakeR \cup W,
                          !.pending = e.pending \ g]
<1>1. /\ e \in ClientConnShape /\ e.pending \subseteq Client!Requests /\ e.pending \subseteq c.pending
      /\ e.waiting \in SUBSET Nat /\ e.wakeR \in SUBSET Nat /\ e.rs \in [Client!Requests -> Nat]
      /\ \A r \in Client!Requests : r \in Nat
  BY RequestNumbers DEF Follows, Onward, ClientConnShape
<1>2. W \subseteq Client!Requests /\ W \in SUBSET Nat
  BY <1>1
<1>3. f \in [Client!Requests -> Nat] /\ \A r \in Client!Requests : f[r] = Client!COMPLETE => e.rs[r] = Client!COMPLETE
  BY <1>1
<1>4. Client!scheduleAllWaitingResponses(e) = d
  <2>1. /\ [e EXCEPT !.rs = f].waiting = e.waiting
        /\ [e EXCEPT !.rs = f, !.waiting = e.waiting \ W].wakeR = e.wakeR
        /\ [e EXCEPT !.rs = f, !.waiting = e.waiting \ W, !.wakeR = e.wakeR \cup W].pending = e.pending
    BY <1>1 DEF ClientConnShape
  <2> QED BY <2>1 DEF Client!scheduleAllWaitingResponses
<1>5. \A r \in g : r # s => c.rq[r] # Client!WAITING
  BY <1>2 DEF Follows
<1>6. /\ e.waiting \ W \in SUBSET Nat /\ e.wakeR \cup W \in SUBSET Nat
      /\ e.pending \ g \in SUBSET Client!Requests
  BY <1>1, <1>2
<1> HIDE DEF W, g, f
<1>7. d \in ClientConnShape /\ d.pending = e.pending \ g /\ d.rq = e.rq /\ d.rs = f
  BY <1>1, <1>3, <1>6 DEF ClientConnShape
<1> HIDE DEF d
<1>8. d.pending \subseteq c.pending /\ CompletesFirst(c, d, s)
  BY <1>3, <1>7 DEF Follows, Onward, CompletesFirst
<1>9. OnlyLast(c, d, s)
  BY <1>5, <1>7 DEF Follows, Onward, OnlyLast
<1> QED BY <1>4, <1>7, <1>8, <1>9 DEF Follows, Onward

LEMMA TellingAllFollows ==
    ASSUME NEW c, NEW e, NEW s \in Client!Requests, Follows(c, e, s), WaitBehind(c, s)
    PROVE  Follows(c, Client!scheduleAllWaiting(e), s)
BY RefusingFollows, TellingFollows DEF Client!scheduleAllWaiting

\* The next request begins.
LEMMA StartingGoesOn ==
    ASSUME NEW c, NEW e, NEW s \in Client!Requests, Follows(c, e, s)
    PROVE  Onward(c, Client!StartCurrent(e), s)
<1>1. CASE e.current = Client!End
  BY <1>1 DEF Client!StartCurrent, Follows
<1>2. CASE e.current # Client!End
  <2> DEFINE f == [e.rq EXCEPT ![e.current] = Client!HEADERS]
             d == [e EXCEPT !.rq = f, !.wakeQ = e.wakeQ \cup {e.current}]
  <2>1. /\ e \in ClientConnShape /\ e.rq \in [Client!Requests -> Nat] /\ e.wakeQ \cup {e.current} \in SUBSET Nat
        /\ 2 \in Nat
    BY DEF Follows, Onward, ClientConnShape
  <2>2. f \in [Client!Requests -> Nat] /\ \A r \in Client!Requests : f[r] = Client!WAITING => e.rq[r] = Client!WAITING
    <3>1. \A r \in Client!Requests : f[r] = IF r = e.current THEN Client!HEADERS ELSE e.rq[r]
      BY <2>1
    <3>2. DOMAIN f = Client!Requests /\ \A r \in Client!Requests : f[r] \in Nat
      BY <2>1, <3>1
    <3>3. f = [r \in Client!Requests |-> f[r]]
      BY <2>1
    <3> HIDE DEF f
    <3> QED BY <2>1, <3>1, <3>2, <3>3
  <2>3. Client!StartCurrent(e) = d
    <3>1. [e EXCEPT !.rq = f].wakeQ = e.wakeQ
      BY <2>1 DEF ClientConnShape
    <3> QED BY <1>2, <3>1 DEF Client!StartCurrent
  <2> HIDE DEF f
  <2>4. d \in ClientConnShape /\ d.pending = e.pending /\ d.rq = f /\ d.rs = e.rs
    BY <2>1, <2>2 DEF ClientConnShape
  <2> HIDE DEF d
  <2>5. Onward(c, d, s)
    BY <2>2, <2>4 DEF Follows, Onward, OnlyLast, CompletesFirst
  <2> QED BY <2>3, <2>5
<1> QED BY <1>1, <1>2

LEMMA BehindWaits ==
    ASSUME ClientInv, NEW s \in Client!Requests, clientConn.rq[s] # Client!WAITING
    PROVE  WaitBehind(clientConn, s)
<1> DEFINE c == clientConn
<1>1. ClientFacts(c) /\ ListOK(c)
  BY ClientTypes DEF ClientInv, ClientHolds
<1>2. ASSUME NEW r \in c.pending, NEW x \in c.pending, r < x, c.rq[r] = Client!WAITING
      PROVE  c.rq[x] = Client!WAITING
  <2>1. InPlace(c, r) /\ InPlace(c, x) /\ r \in Nat /\ x \in Nat /\ c.current \in Nat
    BY <1>1, RequestNumbers DEF ListOK, ListAlmost, ClientFacts
  <2>2. c.current # Client!End /\ ~(r < c.current)
    BY <1>2, <2>1 DEF InPlace
  <2>3. x > c.current
    BY <1>2, <2>1, <2>2
  <2> QED BY <2>1, <2>2, <2>3 DEF InPlace
<1> QED BY <1>2 DEF WaitBehind

LEMMA FollowsItself ==
    ASSUME ClientInv, NEW s \in Client!Requests PROVE Follows(clientConn, clientConn, s)
<1>1. clientConn \in ClientConnType /\ Client!Requests \subseteq Nat /\ 0..6 \subseteq Nat
  BY RequestNumbers DEF ClientInv, ClientHolds
<1>2. clientConn \in ClientConnShape
  BY <1>1 DEF ClientConnType, ClientConnShape
<1> QED BY <1>2 DEF Follows, Onward, OnlyLast, CompletesFirst

LEMMA MissingKept ==
    ASSUME NEW c, NEW d, NEW s \in Client!Requests, MissingOK(c), Onward(c, d, s), d.rq[s] # Client!WAITING
    PROVE  MissingOK(d)
<1>1. CompleteFirst(d)
  <2>1. ASSUME NEW r \in Client!Requests, NEW x \in d.pending, d.rs[r] = Client!COMPLETE PROVE r <= x
    BY <2>1 DEF Onward, CompletesFirst, MissingOK, CompleteFirst, Client!IsFirst
  <2> QED BY <2>1 DEF CompleteFirst
<1>2. RefusedLast(d)
  <2>1. ASSUME NEW r \in Client!Requests, NEW x \in d.pending, d.rq[r] = Client!WAITING, r \notin d.pending
        PROVE  x < r
    <3>1. r # s /\ c.rq[r] = Client!WAITING /\ x \in c.pending
      BY <2>1 DEF Onward
    <3> QED BY <2>1, <3>1 DEF Onward, OnlyLast, MissingOK, RefusedLast
  <2> QED BY <2>1 DEF RefusedLast
<1> QED BY <1>1, <1>2 DEF MissingOK

\* What changes the request's own states.
LEMMA OwnFollows ==
    ASSUME NEW c, NEW e, NEW s \in Client!Requests, Follows(c, e, s), NEW u \in Nat, NEW v \in Nat,
           v # Client!COMPLETE \/ Client!IsFirst(c, s) \/ e.rs[s] = Client!COMPLETE,
           NEW a \in Nat, NEW W \in SUBSET Nat, NEW K \in SUBSET Nat, NEW b \in BOOLEAN
    PROVE  /\ Follows(c, [e EXCEPT !.rq[s] = u], s)
           /\ Follows(c, [e EXCEPT !.rs[s] = v], s)
           /\ Follows(c, [e EXCEPT !.rq[s] = u, !.rs[s] = v], s)
           /\ Follows(c, [e EXCEPT !.allow = b, !.rq[s] = u], s)
           /\ Follows(c, [e EXCEPT !.failed = b, !.rq[s] = u], s)
           /\ Follows(c, [e EXCEPT !.rs[s] = v, !.waiting = W, !.wakeR = K], s)
           /\ Follows(c, [e EXCEPT !.rs[s] = v, !.waiting = W], s)
           /\ Follows(c, [e EXCEPT !.rclosed = a, !.rs[s] = v], s)
           /\ Follows(c, [e EXCEPT !.rfailed = a, !.rs[s] = v], s)
           /\ Follows(c, [e EXCEPT !.rfailed = a, !.rq[s] = u, !.rs[s] = v, !.waiting = W, !.wakeR = K], s)
<1> DEFINE f == [e.rq EXCEPT ![s] = u]
           g == [e.rs EXCEPT ![s] = v]
<1>1. e \in ClientConnShape /\ e.rq \in [Client!Requests -> Nat] /\ e.rs \in [Client!Requests -> Nat]
  BY DEF Follows, Onward, ClientConnShape
<1>2. /\ f \in [Client!Requests -> Nat] /\ g \in [Client!Requests -> Nat]
      /\ \A r \in Client!Requests \ {s} : f[r] = e.rq[r]
      /\ \A r \in Client!Requests : g[r] = Client!COMPLETE =>
             e.rs[r] = Client!COMPLETE \/ (r = s /\ Client!IsFirst(c, s))
  BY <1>1
<1> HIDE DEF f, g
<1>3. \A d \in ClientConnShape :
         d.pending = e.pending /\ (d.rq = f \/ d.rq = e.rq) /\ (d.rs = g \/ d.rs = e.rs) => Follows(c, d, s)
  BY <1>2, FollowsFrom
<1>4. /\ [e EXCEPT !.rq = f].rs = e.rs /\ [e EXCEPT !.allow = b].rq = e.rq
      /\ [e EXCEPT !.failed = b].rq = e.rq /\ [e EXCEPT !.rclosed = a].rs = e.rs
      /\ [e EXCEPT !.rfailed = a].rs = e.rs /\ [e EXCEPT !.rfailed = a].rq = e.rq
      /\ [e EXCEPT !.rfailed = a, !.rq = f].rs = e.rs
  BY <1>1, <1>2 DEF ClientConnShape
<1>5. Follows(c, [e EXCEPT !.rq = f], s)
  <2> DEFINE d == [e EXCEPT !.rq = f]
  <2>1. d \in ClientConnShape /\ d.pending = e.pending /\ d.rq = f /\ d.rs = e.rs
    BY <1>1, <1>2 DEF ClientConnShape
  <2> QED BY <1>3, <2>1
<1>6. Follows(c, [e EXCEPT !.rs = g], s)
  <2> DEFINE d == [e EXCEPT !.rs = g]
  <2>1. d \in ClientConnShape /\ d.pending = e.pending /\ d.rq = e.rq /\ d.rs = g
    BY <1>1, <1>2 DEF ClientConnShape
  <2> QED BY <1>3, <2>1
<1>7. Follows(c, [e EXCEPT !.rq = f, !.rs = g], s)
  <2> DEFINE d == [e EXCEPT !.rq = f, !.rs = g]
  <2>1. d \in ClientConnShape /\ d.pending = e.pending /\ d.rq = f /\ d.rs = g
    BY <1>1, <1>2 DEF ClientConnShape
  <2> QED BY <1>3, <2>1
<1>8. Follows(c, [e EXCEPT !.allow = b, !.rq = f], s)
  <2> DEFINE d == [e EXCEPT !.allow = b, !.rq = f]
  <2>1. d \in ClientConnShape /\ d.pending = e.pending /\ d.rq = f /\ d.rs = e.rs
    BY <1>1, <1>2 DEF ClientConnShape
  <2> QED BY <1>3, <2>1
<1>9. Follows(c, [e EXCEPT !.failed = b, !.rq = f], s)
  <2> DEFINE d == [e EXCEPT !.failed = b, !.rq = f]
  <2>1. d \in ClientConnShape /\ d.pending = e.pending /\ d.rq = f /\ d.rs = e.rs
    BY <1>1, <1>2 DEF ClientConnShape
  <2> QED BY <1>3, <2>1
<1>10. Follows(c, [e EXCEPT !.rs = g, !.waiting = W, !.wakeR = K], s)
  <2> DEFINE d == [e EXCEPT !.rs = g, !.waiting = W, !.wakeR = K]
  <2>1. d \in ClientConnShape /\ d.pending = e.pending /\ d.rq = e.rq /\ d.rs = g
    BY <1>1, <1>2 DEF ClientConnShape
  <2> QED BY <1>3, <2>1
<1>11. Follows(c, [e EXCEPT !.rs = g, !.waiting = W], s)
  <2> DEFINE d == [e EXCEPT !.rs = g, !.waiting = W]
  <2>1. d \in ClientConnShape /\ d.pending = e.pending /\ d.rq = e.rq /\ d.rs = g
    BY <1>1, <1>2 DEF ClientConnShape
  <2> QED BY <1>3, <2>1
<1>12. Follows(c, [e EXCEPT !.rclosed = a, !.rs = g], s)
  <2> DEFINE d == [e EXCEPT !.rclosed = a, !.rs = g]
  <2>1. d \in ClientConnShape /\ d.pending = e.pending /\ d.rq = e.rq /\ d.rs = g
    BY <1>1, <1>2 DEF ClientConnShape
  <2> QED BY <1>3, <2>1
<1>13. Follows(c, [e EXCEPT !.rfailed = a, !.rs = g], s)
  <2> DEFINE d == [e EXCEPT !.rfailed = a, !.rs = g]
  <2>1. d \in ClientConnShape /\ d.pending = e.pending /\ d.rq = e.rq /\ d.rs = g
    BY <1>1, <1>2 DEF ClientConnShape
  <2> QED BY <1>3, <2>1
<1>14. Follows(c, [e EXCEPT !.rfailed = a, !.rq = f, !.rs = g, !.waiting = W, !.wakeR = K], s)
  <2> DEFINE d == [e EXCEPT !.rfailed = a, !.rq = f, !.rs = g, !.waiting = W, !.wakeR = K]
  <2>1. d \in ClientConnShape /\ d.pending = e.pending /\ d.rq = f /\ d.rs = g
    BY <1>1, <1>2 DEF ClientConnShape
  <2> QED BY <1>3, <2>1
<1> QED BY <1>4, <1>5, <1>6, <1>7, <1>8, <1>9, <1>10, <1>11, <1>12, <1>13, <1>14 DEF f, g

\* What every step below starts from.
Numbers == /\ 0 \in Nat /\ 1 \in Nat /\ 2 \in Nat /\ 3 \in Nat /\ 4 \in Nat /\ 5 \in Nat /\ 6 \in Nat
           /\ {} \in SUBSET Nat /\ TRUE \in BOOLEAN /\ FALSE \in BOOLEAN
StartsFrom(s) ==
    /\ Numbers /\ s \in Nat
    /\ Follows(clientConn, clientConn, s)
    /\ clientConn \in ClientConnShape
    /\ clientConn.rq \in [Client!Requests -> Nat] /\ clientConn.rs \in [Client!Requests -> Nat]
    /\ clientConn.rq[s] \in Nat /\ clientConn.rs[s] \in Nat
    /\ clientConn.waiting \in SUBSET Nat /\ clientConn.wakeQ \in SUBSET Nat /\ clientConn.wakeR \in SUBSET Nat
    /\ clientConn.rfailed \in Nat /\ clientConn.allow \in BOOLEAN
    /\ clientAt[s] \notin {"idle", "waiting"} => WaitBehind(clientConn, s)

LEMMA Starts == ASSUME ClientInv, NEW s \in Client!Requests PROVE StartsFrom(s)
<1>1. Follows(clientConn, clientConn, s)
  BY FollowsItself
<1>2. clientConn \in ClientConnShape
  BY <1>1 DEF Follows, Onward
<1>3. /\ clientConn.rq \in [Client!Requests -> Nat] /\ clientConn.rs \in [Client!Requests -> Nat]
      /\ clientConn.waiting \in SUBSET Nat /\ clientConn.wakeQ \in SUBSET Nat /\ clientConn.wakeR \in SUBSET Nat
      /\ clientConn.rfailed \in Nat /\ clientConn.allow \in BOOLEAN
  BY <1>2 DEF ClientConnShape
<1>4. clientConn.rq[s] \in Nat /\ clientConn.rs[s] \in Nat /\ s \in Nat
  BY <1>3, RequestNumbers
<1>5. AsksOK(clientConn, m_requestCount, clientAt[s], rat[s], s)
  BY DEF ClientInv, ClientHolds, ClientFibers
<1>6. clientAt[s] \notin {"idle", "waiting"} => WaitBehind(clientConn, s)
  BY <1>5, BehindWaits DEF AsksOK
<1> QED BY <1>1, <1>2, <1>3, <1>4, <1>6 DEF StartsFrom, Numbers

LEMMA WokenRequestFollows ==
    ASSUME NEW s \in Client!Requests, StartsFrom(s), Client!WokenRequest(s)
    PROVE  Onward(clientConn, clientConn', s)
<1> DEFINE c == [clientConn EXCEPT !.wakeQ = clientConn.wakeQ \ {s}]
           e == Client!EraseIf(c, s, c.rq[s] = Client!HEADERS)
<1>1. clientConn.wakeQ \ {s} \in SUBSET Nat
  BY DEF StartsFrom
<1>2. Follows(clientConn, c, s)
  BY <1>1, OthersFollow DEF StartsFrom, Numbers
<1> HIDE DEF c
<1>3. Follows(clientConn, e, s)
  <2>1. (c.rq[s] = Client!HEADERS) \in BOOLEAN
    OBVIOUS
  <2> QED BY <1>2, <2>1, ErasingFollows
<1> HIDE DEF e
<1>4. Follows(clientConn, [e EXCEPT !.rq[s] = 5, !.rs[s] = 5], s)
  <2>1. 5 # Client!COMPLETE
    OBVIOUS
  <2> QED BY <1>3, <2>1, OwnFollows DEF StartsFrom, Numbers
<1>5. clientConn' = c \/ clientConn' = [e EXCEPT !.rq[s] = 5, !.rs[s] = 5]
  BY DEF Client!WokenRequest, c, e
<1> QED BY <1>2, <1>4, <1>5 DEF Follows

LEMMA DoRequestFollows ==
    ASSUME NEW s \in Client!Requests, StartsFrom(s), Client!doRequest(s)
    PROVE  Onward(clientConn, clientConn', s)
<1> DEFINE c == clientConn
<1>1. PICK close \in BOOLEAN :
         \/ \E has \in BOOLEAN :
                clientConn' = [c EXCEPT !.allow = @ /\ ~close, !.rq[s] = IF has THEN Client!BODY ELSE @]
         \/ clientConn' = [c EXCEPT !.allow = @ /\ ~close]
  BY DEF Client!doRequest
<1> DEFINE b == c.allow /\ ~close
<1>2. b \in BOOLEAN
  BY DEF StartsFrom
<1> HIDE DEF b
<1>3. CASE clientConn' = [c EXCEPT !.allow = @ /\ ~close]
  <2>1. Follows(c, [c EXCEPT !.allow = b], s)
    BY <1>2, OthersFollow DEF StartsFrom, Numbers
  <2> QED BY <1>3, <2>1 DEF b, Follows
<1>4. ASSUME NEW has \in BOOLEAN,
             clientConn' = [c EXCEPT !.allow = @ /\ ~close, !.rq[s] = IF has THEN Client!BODY ELSE @]
      PROVE  Onward(c, clientConn', s)
  <2> DEFINE u == IF has THEN Client!BODY ELSE c.rq[s]
  <2>1. u \in Nat
    BY DEF StartsFrom
  <2>2. clientConn' = [c EXCEPT !.allow = b, !.rq[s] = u]
    <3>1. [c EXCEPT !.allow = b].rq = c.rq
      BY DEF StartsFrom, ClientConnShape
    <3> QED BY <1>4, <3>1 DEF b
  <2> HIDE DEF u
  <2>3. Follows(c, [c EXCEPT !.allow = b, !.rq[s] = u], s)
    <3>1. 0 # Client!COMPLETE
      OBVIOUS
    <3> QED BY <1>2, <2>1, <3>1, OwnFollows DEF StartsFrom, Numbers
  <2> QED BY <2>2, <2>3 DEF Follows
<1> QED BY <1>1, <1>3, <1>4

\* Sending goes on to the next request.
LEMMA SentFollows ==
    ASSUME NEW s \in Client!Requests, StartsFrom(s), NEW b \in BOOLEAN
    PROVE  LET c == [clientConn EXCEPT !.rq[s] = Client!COMPLETE]
           IN Onward(clientConn, Client!StartCurrent(Client!EraseIf(Client!Advance(c), s, b)), s)
<1> DEFINE c == [clientConn EXCEPT !.rq[s] = 4]
<1>1. Follows(clientConn, c, s)
  <2>1. 0 # Client!COMPLETE
    OBVIOUS
  <2> QED BY <2>1, OwnFollows DEF StartsFrom, Numbers
<1> HIDE DEF c
<1>2. Follows(clientConn, Client!Advance(c), s)
  BY <1>1, ErasingFollows
<1>3. Follows(clientConn, Client!EraseIf(Client!Advance(c), s, b), s)
  BY <1>2, ErasingFollows
<1>4. Onward(clientConn, Client!StartCurrent(Client!EraseIf(Client!Advance(c), s, b)), s)
  BY <1>3, StartingGoesOn
<1> QED BY <1>4 DEF c

LEMMA SendingOnFollows ==
    ASSUME NEW s \in Client!Requests, StartsFrom(s),
           Client!scheduleNextRequest(s) \/ Client!RequestComplete(s)
    PROVE  Onward(clientConn, clientConn', s)
<1>1. \/ clientConn' = clientConn
      \/ \E b \in BOOLEAN :
            LET c == [clientConn EXCEPT !.rq[s] = Client!COMPLETE]
            IN clientConn' = Client!StartCurrent(Client!EraseIf(Client!Advance(c), s, b))
  <2>1. \A x, y : (x >= y) \in BOOLEAN
    OBVIOUS
  <2> QED BY <2>1 DEF Client!scheduleNextRequest, Client!RequestComplete
<1>2. CASE clientConn' = clientConn
  BY <1>2 DEF StartsFrom, Follows
<1>3. ASSUME NEW b \in BOOLEAN,
            LET c == [clientConn EXCEPT !.rq[s] = Client!COMPLETE]
            IN clientConn' = Client!StartCurrent(Client!EraseIf(Client!Advance(c), s, b))
      PROVE  Onward(clientConn, clientConn', s)
  BY <1>3, SentFollows
<1> QED BY <1>1, <1>2, <1>3

LEMMA RequestFailedFollows ==
    ASSUME NEW s \in Client!Requests, StartsFrom(s), Client!requestFailed(s)
    PROVE  Onward(clientConn, clientConn', s)
<1> DEFINE c == [clientConn EXCEPT !.failed = TRUE, !.rq[s] = 5]
           rs == clientConn.rs[s]
           K == IF rs = Client!WAITING THEN Client!Erase(c, s).wakeR \cup {s} ELSE Client!Erase(c, s).wakeR
           W == Client!Erase(c, s).waiting \ {s}
           a == [Client!Erase(c, s) EXCEPT !.rs[s] = 6, !.waiting = W, !.wakeR = K]
           b == Client!EraseIf(Client!Advance(c), s, rs >= Client!COMPLETE)
<1>0. WaitBehind(clientConn, s)
  BY DEF StartsFrom, Client!requestFailed
<1>1. Follows(clientConn, c, s)
  <2>1. 0 # Client!COMPLETE
    OBVIOUS
  <2> QED BY <2>1, OwnFollows DEF StartsFrom, Numbers
<1> HIDE DEF c
<1>2. Follows(clientConn, Client!Erase(c, s), s)
  BY <1>1, ErasingFollows
<1>3. Follows(clientConn, b, s)
  <2>1. Follows(clientConn, Client!Advance(c), s) /\ (rs >= Client!COMPLETE) \in BOOLEAN
    BY <1>1, ErasingFollows
  <2> QED BY <2>1, ErasingFollows
<1>4. K \in SUBSET Nat /\ W \in SUBSET Nat
  BY <1>2 DEF Follows, Onward, ClientConnShape, StartsFrom
<1> HIDE DEF K, W, b
<1>5. Follows(clientConn, a, s)
  <2>1. 6 # Client!COMPLETE
    OBVIOUS
  <2> QED BY <1>2, <1>4, <2>1, OwnFollows DEF StartsFrom, Numbers
<1> HIDE DEF a
<1>6. /\ Follows(clientConn, Client!scheduleAllWaitingRequests(a), s)
      /\ Follows(clientConn, Client!scheduleAllWaitingRequests(b), s)
  BY <1>0, <1>3, <1>5, RefusingFollows
<1>7. a = [Client!Erase(c, s) EXCEPT !.rs[s] = Client!CANCELED, !.waiting = @ \ {s},
                                    !.wakeR = IF rs = Client!WAITING THEN @ \cup {s} ELSE @]
  <2> DEFINE e == Client!Erase(c, s)
             g == [e.rs EXCEPT ![s] = 6]
  <2>1. [e EXCEPT !.rs = g].waiting = e.waiting /\ [e EXCEPT !.rs = g, !.waiting = W].wakeR = e.wakeR
    BY <1>2 DEF Follows, Onward, ClientConnShape
  <2> QED BY <2>1 DEF a, W, K
<1>8. \/ clientConn' = clientConn
      \/ clientConn' = Client!scheduleAllWaitingRequests(a)
      \/ clientConn' = Client!scheduleAllWaitingRequests(b)
  BY <1>7 DEF Client!requestFailed, b, c
<1> QED BY <1>6, <1>8 DEF StartsFrom, Follows

LEMMA EnsureFollows ==
    ASSUME NEW s \in Client!Requests, StartsFrom(s), Client!ensureResponse(s)
    PROVE  Onward(clientConn, clientConn', s)
<1> DEFINE c == clientConn
           e == Client!EraseIf(c, s, c.rq[s] >= Client!COMPLETE)
<1>0. 5 # Client!COMPLETE /\ 2 # Client!COMPLETE /\ 1 # Client!COMPLETE
  OBVIOUS
<1>1. Follows(c, e, s)
  <2>1. (c.rq[s] >= Client!COMPLETE) \in BOOLEAN
    OBVIOUS
  <2> QED BY <2>1, ErasingFollows DEF StartsFrom
<1> HIDE DEF e
<1>2. Follows(c, [e EXCEPT !.rs[s] = 5], s)
  BY <1>0, <1>1, OwnFollows DEF StartsFrom, Numbers
<1>3. Follows(c, [c EXCEPT !.rs[s] = 2], s)
  BY <1>0, OwnFollows DEF StartsFrom, Numbers
<1>4. Follows(c, [c EXCEPT !.rs[s] = 1, !.waiting = c.waiting \cup {s}], s)
  <2>1. c.waiting \cup {s} \in SUBSET Nat
    BY DEF StartsFrom
  <2> QED BY <1>0, <2>1, OwnFollows DEF StartsFrom, Numbers
<1>5. [c EXCEPT !.rs = [c.rs EXCEPT ![s] = 1]].waiting = c.waiting
  BY DEF StartsFrom, ClientConnShape
<1>6. \/ clientConn' = c \/ clientConn' = [e EXCEPT !.rs[s] = 5] \/ clientConn' = [c EXCEPT !.rs[s] = 2]
      \/ clientConn' = [c EXCEPT !.rs[s] = 1, !.waiting = c.waiting \cup {s}]
  BY <1>5 DEF Client!ensureResponse, e
<1> QED BY <1>2, <1>3, <1>4, <1>6 DEF StartsFrom, Follows

LEMMA ReadingOnFollows ==
    ASSUME NEW s \in Client!Requests, StartsFrom(s), Client!WokenResponse(s) \/ Client!ReadHeaders(s)
    PROVE  Onward(clientConn, clientConn', s)
<1> DEFINE c == clientConn
<1>1. Follows(c, [c EXCEPT !.wakeR = c.wakeR \ {s}], s)
  <2>1. c.wakeR \ {s} \in SUBSET Nat
    BY DEF StartsFrom
  <2> QED BY <2>1, OthersFollow DEF StartsFrom, Numbers
<1>2. Follows(c, [c EXCEPT !.rs[s] = 3], s)
  <2>1. 3 # Client!COMPLETE
    OBVIOUS
  <2> QED BY <2>1, OwnFollows DEF StartsFrom, Numbers
<1>3. clientConn' = [c EXCEPT !.wakeR = c.wakeR \ {s}] \/ clientConn' = [c EXCEPT !.rs[s] = 3]
  BY DEF Client!WokenResponse, Client!ReadHeaders
<1> QED BY <1>1, <1>2, <1>3 DEF Follows

LEMMA ReadCloseFollows ==
    ASSUME NEW s \in Client!Requests, StartsFrom(s), WaitBehind(clientConn, s), Client!IsFirst(clientConn, s),
           Client!ReadClose(s)
    PROVE  Onward(clientConn, clientConn', s)
<1> DEFINE c == clientConn
<1>1. PICK b \in BOOLEAN :
         clientConn' = Client!scheduleAllWaiting(
                           [Client!EraseIf(c, s, ~b /\ c.rq[s] >= Client!COMPLETE)
                                EXCEPT !.rclosed = s, !.rs[s] = IF b THEN Client!BODY ELSE Client!COMPLETE])
  BY DEF Client!ReadClose
<1> DEFINE e == Client!EraseIf(c, s, ~b /\ c.rq[s] >= Client!COMPLETE)
           v == IF b THEN 3 ELSE 4
           d == [e EXCEPT !.rclosed = s, !.rs[s] = v]
<1>2. Follows(c, e, s)
  <2>1. (~b /\ c.rq[s] >= Client!COMPLETE) \in BOOLEAN
    OBVIOUS
  <2> QED BY <2>1, ErasingFollows DEF StartsFrom
<1>3. v \in Nat
  OBVIOUS
<1> HIDE DEF e, v
<1>4. Follows(c, d, s)
  BY <1>2, <1>3, OwnFollows DEF StartsFrom, Numbers
<1> HIDE DEF d
<1>5. Follows(c, Client!scheduleAllWaiting(d), s)
  BY <1>4, TellingAllFollows
<1>6. clientConn' = Client!scheduleAllWaiting(d)
  BY <1>1 DEF d, e, v
<1> QED BY <1>5, <1>6 DEF Follows

LEMMA ReadFailsFollows ==
    ASSUME NEW s \in Client!Requests, StartsFrom(s), WaitBehind(clientConn, s), Client!ReadFails(s)
    PROVE  Onward(clientConn, clientConn', s)
<1> DEFINE a == IF s < clientConn.rfailed THEN s ELSE clientConn.rfailed
           c == [clientConn EXCEPT !.rfailed = a, !.rs[s] = 5]
           e == Client!EraseIf(c, s, clientConn.rq[s] >= Client!COMPLETE)
<1>1. a \in Nat /\ 5 # Client!COMPLETE
  BY DEF StartsFrom
<1>2. [clientConn EXCEPT !.rfailed = a].rs = clientConn.rs
  BY DEF StartsFrom, ClientConnShape
<1>3. clientConn' = c \/ clientConn' = Client!scheduleAllWaiting(e)
  BY <1>2 DEF Client!ReadFails
<1> HIDE DEF a
<1>4. Follows(clientConn, c, s)
  BY <1>1, OwnFollows DEF StartsFrom, Numbers
<1> HIDE DEF c
<1>5. Follows(clientConn, e, s)
  <2>1. (clientConn.rq[s] >= Client!COMPLETE) \in BOOLEAN
    OBVIOUS
  <2> QED BY <1>4, <2>1, ErasingFollows
<1> HIDE DEF e
<1>6. Follows(clientConn, Client!scheduleAllWaiting(e), s)
  BY <1>5, TellingAllFollows
<1> QED BY <1>3, <1>4, <1>6 DEF Follows

LEMMA NextResponseFollows ==
    ASSUME NEW s \in Client!Requests, StartsFrom(s), Client!IsFirst(clientConn, s), Client!scheduleNextResponse(s)
    PROVE  Onward(clientConn, clientConn', s)
<1> DEFINE d == [clientConn EXCEPT !.rs[s] = 4]
           c == Client!EraseIf(d, s, clientConn.rq[s] >= Client!COMPLETE)
           next == Client!Following(clientConn, s)
           W == c.waiting \ {next}
           K == c.wakeR \cup {next}
           g == [c.rs EXCEPT ![next] = 2]
           f == [c EXCEPT !.rs = g, !.waiting = W, !.wakeR = K]
<1>1. Follows(clientConn, d, s)
  BY OwnFollows DEF StartsFrom, Numbers
<1> HIDE DEF d
<1>2. Follows(clientConn, c, s)
  <2>1. (clientConn.rq[s] >= Client!COMPLETE) \in BOOLEAN
    OBVIOUS
  <2> QED BY <1>1, <2>1, ErasingFollows
<1>3. clientConn' = c \/ (next # Client!End /\ clientConn' = [c EXCEPT !.rs[next] = 2, !.waiting = @ \ {next}, !.wakeR = @ \cup {next}])
  BY DEF Client!scheduleNextResponse, c, d
<1> HIDE DEF c
<1>4. ASSUME next # Client!End PROVE Follows(clientConn, f, s)
  <2>1. next \in Client!Requests /\ next \in Nat
    <3>1. clientConn.pending \subseteq Client!Requests /\ s \in Nat
      BY DEF StartsFrom, ClientConnShape
    <3> QED BY <1>4, <3>1, FollowingIs, RequestNumbers
  <2> HIDE DEF next
  <2>2. c \in ClientConnShape /\ c.rs \in [Client!Requests -> Nat] /\ W \in SUBSET Nat /\ K \in SUBSET Nat
    BY <1>2, <2>1 DEF Follows, Onward, ClientConnShape
  <2>3. g \in [Client!Requests -> Nat] /\ \A r \in Client!Requests : g[r] = Client!COMPLETE => c.rs[r] = Client!COMPLETE
    BY <2>1, <2>2
  <2> HIDE DEF W, K, g
  <2>4. f \in ClientConnShape /\ f.pending = c.pending /\ f.rq = c.rq /\ f.rs = g
    BY <2>2, <2>3 DEF ClientConnShape
  <2> HIDE DEF f
  <2> QED BY <1>2, <2>3, <2>4, FollowsFrom
<1>5. f = [c EXCEPT !.rs[next] = 2, !.waiting = @ \ {next}, !.wakeR = @ \cup {next}]
  <2>1. [c EXCEPT !.rs = g].waiting = c.waiting /\ [c EXCEPT !.rs = g, !.waiting = W].wakeR = c.wakeR
    BY <1>2 DEF Follows, Onward, ClientConnShape
  <2> QED BY <2>1
<1> HIDE DEF f
<1> QED BY <1>2, <1>3, <1>4, <1>5 DEF Follows

LEMMA CancelFollows ==
    ASSUME NEW s \in Client!Requests, StartsFrom(s), WaitBehind(clientConn, s), NEW state \in {5, 6},
           Client!cancel(s, state)
    PROVE  Onward(clientConn, clientConn', s)
<1> DEFINE c == clientConn
           u == IF c.rq[s] < Client!COMPLETE THEN state ELSE c.rq[s]
           v == IF c.rs[s] < Client!COMPLETE THEN state ELSE c.rs[s]
           K == IF c.rs[s] = Client!WAITING THEN c.wakeR \cup {s} ELSE c.wakeR
           W == c.waiting \ {s}
           d == [c EXCEPT !.rfailed = s, !.rq[s] = u, !.rs[s] = v, !.waiting = W, !.wakeR = K]
<1>1. u \in Nat /\ v \in Nat /\ K \in SUBSET Nat /\ W \in SUBSET Nat
  BY DEF StartsFrom
<1>2. v # Client!COMPLETE \/ c.rs[s] = Client!COMPLETE
  OBVIOUS
<1>3. \/ clientConn' = c
      \/ clientConn' = Client!scheduleAllWaiting(Client!Erase(d, s))
  <2> DEFINE f == [c.rq EXCEPT ![s] = u]
             g == [c.rs EXCEPT ![s] = v]
  <2>1. /\ [c EXCEPT !.rfailed = s].rq = c.rq
        /\ [c EXCEPT !.rfailed = s, !.rq = f].rs = c.rs
        /\ [c EXCEPT !.rfailed = s, !.rq = f, !.rs = g].waiting = c.waiting
        /\ [c EXCEPT !.rfailed = s, !.rq = f, !.rs = g, !.waiting = W].wakeR = c.wakeR
    BY DEF StartsFrom, ClientConnShape
  <2> QED BY <2>1 DEF Client!cancel
<1> HIDE DEF u, v, K, W
<1>4. Follows(c, d, s)
  BY <1>1, <1>2, OwnFollows DEF StartsFrom, Numbers
<1> HIDE DEF d
<1>5. Follows(c, Client!Erase(d, s), s)
  BY <1>4, ErasingFollows
<1>6. Follows(c, Client!scheduleAllWaiting(Client!Erase(d, s)), s)
  BY <1>5, TellingAllFollows
<1> QED BY <1>3, <1>6 DEF StartsFrom, Follows

LEMMA WaitForRequestMissing ==
    ASSUME ClientInv, MissingOK(clientConn), NEW s \in Client!Requests, Client!waitForRequest(s)
    PROVE  MissingOK(clientConn')
<1> DEFINE c == clientConn
           d == clientConn'
<1>1. /\ ClientFacts(c) /\ s \in Nat /\ m_requestCount \in Nat /\ s = m_requestCount + 1
      /\ \A r \in Client!Requests : r \in Nat
  BY ClientTypes, RequestNumbers DEF ClientInv, ClientHolds, Client!waitForRequest
<1>2. \A r \in Client!Requests : AsksOK(c, m_requestCount, clientAt[r], rat[r], r)
  BY DEF ClientInv, ClientHolds, ClientFibers
<1>3. ~Ends(c)
  BY DEF Client!waitForRequest, Client!newRequestsAllowed, Ends
<1>4. /\ d.pending = c.pending \cup {s} /\ d.rs = c.rs
      /\ \A r \in Client!Requests : d.rq[r] = Client!WAITING => c.rq[r] = Client!WAITING
  <2> DEFINE e == [c EXCEPT !.pending = c.pending \cup {s}]
  <2>1. e \in ClientConnType /\ e.pending = c.pending \cup {s} /\ e.rs = c.rs /\ e.rq = c.rq
    BY <1>1 DEF ClientFacts, ClientConnType
  <2>2. d = e \/ d = [e EXCEPT !.current = s, !.rq[s] = 2]
    BY DEF Client!waitForRequest
  <2> HIDE DEF e
  <2>3. CASE d = [e EXCEPT !.current = s, !.rq[s] = 2]
    <3>1. d.pending = e.pending /\ d.rs = e.rs /\ d.rq = [e.rq EXCEPT ![s] = 2]
      BY <2>1, <2>3 DEF ClientConnType
    <3>2. e.rq \in [Client!Requests -> 0..6]
      BY <1>1, <2>1 DEF ClientFacts
    <3> QED BY <2>1, <3>1, <3>2
  <2> QED BY <2>1, <2>2, <2>3
<1>5. CompleteFirst(d)
  <2>1. ASSUME NEW r \in Client!Requests, NEW x \in d.pending, d.rs[r] = Client!COMPLETE PROVE r <= x
    <3>1. CASE x = s
      <4>1. clientAt[r] # "idle"
        BY <1>2, <1>4, <2>1 DEF AsksOK
      <4>2. ~(r > m_requestCount)
        BY <1>2, <4>1 DEF AsksOK
      <4>3. r \in Nat /\ s \in Nat /\ m_requestCount \in Nat /\ s = m_requestCount + 1
        BY <1>1
      <4>4. r <= s
        BY <4>2, <4>3
      <4> QED BY <3>1, <4>4
    <3>2. CASE x # s
      BY <1>4, <2>1, <3>2 DEF MissingOK, CompleteFirst
    <3> QED BY <3>1, <3>2
  <2> QED BY <2>1 DEF CompleteFirst
<1>6. RefusedLast(d)
  <2>1. ASSUME NEW r \in Client!Requests, NEW x \in d.pending, d.rq[r] = Client!WAITING, r \notin d.pending
        PROVE  x < r
    <3>1. c.rq[r] = Client!WAITING /\ r \notin c.pending /\ r # s
      BY <1>4, <2>1
    <3>2. CASE x = s
      <4>1. clientAt[r] = "idle"
        BY <1>2, <1>3, <3>1 DEF AsksOK
      <4>2. r > m_requestCount
        BY <1>2, <4>1 DEF AsksOK
      <4> QED BY <1>1, <3>1, <3>2, <4>2
    <3>3. CASE x # s
      BY <1>4, <2>1, <3>1, <3>3 DEF MissingOK, RefusedLast
    <3> QED BY <3>2, <3>3
  <2> QED BY <2>1 DEF RefusedLast
<1> QED BY <1>5, <1>6 DEF MissingOK

LEMMA ClientMissing ==
    ASSUME ClientInv, ClientInv', MissingOK(clientConn), [Client!HTTPClientNext]_(Client!clientVars)
    PROVE  MissingOK(clientConn')
<1>0. clientAt \in [Client!Requests -> AtPlaces]
  BY DEF ClientInv
<1>1. ASSUME NEW s \in Client!Requests, clientAt'[s] \notin {"idle", "waiting"},
             Onward(clientConn, clientConn', s)
      PROVE  MissingOK(clientConn')
  <2>1. AsksOK(clientConn', m_requestCount', clientAt'[s], rat'[s], s)
    BY DEF ClientInv, ClientHolds, ClientFibers
  <2>2. clientConn'.rq[s] # Client!WAITING
    BY <1>1, <2>1 DEF AsksOK
  <2> QED BY <1>1, <2>2, MissingKept
<1>2. CASE UNCHANGED clientConn
  BY <1>2
<1>3. ASSUME NEW s \in Client!Requests, Client!Sending(s) PROVE MissingOK(clientConn')
  <2>1. StartsFrom(s)
    BY Starts
  <2>2. CASE Client!WokenRequest(s)
    <3>1. clientAt'[s] \in {"threw", "headers"}
      BY <1>0, <2>2 DEF Client!WokenRequest, Client!GoQ
    <3> QED BY <1>1, <2>1, <2>2, <3>1, WokenRequestFollows
  <2>3. CASE Client!doRequest(s)
    <3>1. clientAt'[s] \in {"body", "written", "failing"}
      BY <1>0, <2>3 DEF Client!doRequest, Client!GoQ
    <3> QED BY <1>1, <2>1, <2>3, <3>1, DoRequestFollows
  <2>4. CASE Client!WriteBody(s) \/ Client!Flushes(s) \/ Client!FlushEnds(s)
    BY <1>2, <2>4 DEF Client!WriteBody, Client!Flushes, Client!FlushEnds
  <2>5. CASE Client!scheduleNextRequest(s) \/ Client!RequestComplete(s)
    <3>1. clientAt'[s] \in {"returned", "yielded"}
      BY <1>0, <2>5 DEF Client!scheduleNextRequest, Client!RequestComplete, Client!GoQ
    <3> QED BY <1>1, <2>1, <2>5, <3>1, SendingOnFollows
  <2>6. CASE Client!requestFailed(s)
    <3>1. clientAt'[s] = "threw"
      BY <1>0, <2>6 DEF Client!requestFailed, Client!GoQ
    <3> QED BY <1>1, <2>1, <2>6, <3>1, RequestFailedFollows
  <2> QED BY <1>3, <2>2, <2>3, <2>4, <2>5, <2>6 DEF Client!Sending
<1>4. ASSUME NEW s \in Client!Requests, clientAt[s] \notin {"idle", "waiting"}, UNCHANGED clientAt,
             Onward(clientConn, clientConn', s)
      PROVE  MissingOK(clientConn')
  BY <1>1, <1>4
<1>5. ASSUME NEW s \in Client!Requests, Client!Reading(s) PROVE MissingOK(clientConn')
  <2>1. StartsFrom(s)
    BY Starts
  <2>2. AsksOK(clientConn, m_requestCount, clientAt[s], rat[s], s) /\ ReadsOK(clientConn, rat[s], s)
    BY DEF ClientInv, ClientHolds, ClientFibers
  <2>3. UNCHANGED clientAt /\ rat[s] # "idle"
    BY <1>5 DEF Client!Reading, Client!WokenResponse, Client!ReadHeaders, Client!ReadClose, Client!ReadFails,
                Client!responseDone, Client!scheduleNextResponse, Client!BodyFails
  <2>4. clientAt[s] \notin {"idle", "waiting"} /\ WaitBehind(clientConn, s)
    BY <2>1, <2>2, <2>3 DEF AsksOK, StartsFrom
  <2>5. CASE Client!WokenResponse(s) \/ Client!ReadHeaders(s)
    BY <1>4, <2>1, <2>3, <2>4, <2>5, ReadingOnFollows
  <2>6. CASE Client!ReadClose(s)
    <3>1. Client!IsFirst(clientConn, s)
      BY <2>2, <2>6 DEF ReadsOK, Client!ReadClose
    <3> QED BY <1>4, <2>1, <2>3, <2>4, <2>6, <3>1, ReadCloseFollows
  <2>7. CASE Client!ReadFails(s)
    BY <1>4, <2>1, <2>3, <2>4, <2>7, ReadFailsFollows
  <2>8. CASE Client!responseDone(s)
    BY <1>2, <2>8 DEF Client!responseDone
  <2>9. CASE Client!scheduleNextResponse(s)
    <3>1. Client!IsFirst(clientConn, s)
      BY <2>2, <2>9 DEF ReadsOK, Client!scheduleNextResponse
    <3> QED BY <1>4, <2>1, <2>3, <2>4, <2>9, <3>1, NextResponseFollows
  <2>10. CASE Client!BodyFails(s)
    <3>1. PICK state \in {5, 6} : Client!cancel(s, state)
      BY <2>10 DEF Client!BodyFails
    <3> QED BY <1>4, <2>1, <2>3, <2>4, <3>1, CancelFollows
  <2> QED BY <1>5, <2>5, <2>6, <2>7, <2>8, <2>9, <2>10 DEF Client!Reading
<1>6. ASSUME NEW s \in Client!Requests, Client!waitForRequest(s) PROVE MissingOK(clientConn')
  BY <1>6, WaitForRequestMissing
<1>7. ASSUME NEW s \in Client!Requests, Client!ensureResponse(s) PROVE MissingOK(clientConn')
  <2>1. UNCHANGED clientAt /\ clientAt[s] \notin {"idle", "waiting"}
    BY <1>7 DEF Client!ensureResponse
  <2> QED BY <1>4, <1>7, <2>1, Starts, EnsureFollows
<1>8. ASSUME NEW s \in Client!Requests, Client!Destroy(s) PROVE MissingOK(clientConn')
  <2>1. clientAt'[s] = "gone" /\ clientAt[s] \notin {"idle", "waiting"} /\ Client!cancel(s, 6)
    BY <1>0, <1>8 DEF Client!Destroy, Client!GoQ
  <2>2. StartsFrom(s) /\ WaitBehind(clientConn, s) /\ 6 \in {5, 6}
    BY <2>1, Starts DEF StartsFrom
  <2> QED BY <1>1, <2>1, <2>2, CancelFollows
<1>9. CASE Client!IdleTimeout \/ UNCHANGED Client!clientVars
  BY <1>2, <1>9 DEF Client!IdleTimeout, Client!clientVars
<1> QED BY <1>3, <1>5, <1>6, <1>7, <1>8, <1>9 DEF Client!HTTPClientNext

\* Of the requests between two of the list, those are missing whose responses failed.
LEMMA MissingFailed ==
    ASSUME ClientInv, MissingOK(clientConn), NEW r \in clientConn.pending,
           ~Client!IsFirst(clientConn, r), r - 1 \notin clientConn.pending
    PROVE  clientConn.rs[r - 1] > Client!COMPLETE
<1> DEFINE c == clientConn
           m == r - 1
<1>1. ClientFacts(c) /\ c.pending \subseteq Client!Requests /\ \A x \in c.pending : x \in Nat
  BY ClientTypes, RequestNumbers DEF ClientInv, ClientHolds, ClientFacts
<1>2. PICK x \in c.pending : x < r
  BY <1>1 DEF Client!IsFirst
<1>3. m \in Client!Requests /\ m \in Nat /\ x \in Nat /\ r \in Nat /\ x <= m /\ x # m /\ m < r
  BY <1>1, <1>2, HTTPAssumption DEF Client!Requests
<1>4. /\ AsksOK(c, m_requestCount, clientAt[m], rat[m], m) /\ SendsOK(c, clientAt[m], rat[m], m)
      /\ AsksOK(c, m_requestCount, clientAt[r], rat[r], r)
      /\ ListOK(c) /\ m_requestCount \in Nat
  BY <1>1, <1>3 DEF ClientInv, ClientHolds, ClientFibers
<1>5. clientAt[m] # "idle"
  BY <1>3, <1>4 DEF AsksOK
<1>6. clientAt[m] # "waiting"
  <2>1. SUFFICES ASSUME clientAt[m] = "waiting" PROVE FALSE
    OBVIOUS
  <2>2. c.rq[m] # Client!WAITING
    BY <1>3 DEF MissingOK, RefusedLast
  <2>3. c.rq[m] = Client!HEADERS
    BY <1>4, <2>1, <2>2 DEF AsksOK
  <2>4. c.current = m /\ m # Client!End
    BY <1>3, <1>4, <2>3, RequestNumbers DEF ListOK, ListAlmost
  <2> QED BY <1>4, <2>4 DEF ListOK, ListAlmost
<1>7. c.rs[m] >= Client!COMPLETE
  BY <1>4, <1>5, <1>6 DEF SendsOK
<1>8. c.rs[m] # Client!COMPLETE
  BY <1>2, <1>3 DEF MissingOK, CompleteFirst
<1>9. c.rs[m] \in 0..6
  BY <1>1, <1>3 DEF ClientFacts
<1> QED BY <1>7, <1>8, <1>9

\* Whoever sleeps is where it will be found: the sleeper in ensureResponse() is not first,
\* and the one in waitForRequest() is behind m_currentRequest.
LEMMA ClientForgetsNobody == ClientInv => Client!NobodyForgotten
<1> SUFFICES ASSUME ClientInv PROVE Client!NobodyForgotten
  OBVIOUS
<1> DEFINE c == clientConn
<1>1. ASSUME NEW r \in Client!Requests
      PROVE  /\ clientAt[r] = "waiting" => r \in c.wakeQ \/ (r \in c.pending /\ c.current # Client!End)
             /\ rat[r] = "waiting" => r \in c.wakeR \/ (r \in c.waiting /\ ~Client!IsFirst(c, r))
             /\ clientAt[r] = "gone" => r \notin c.pending /\ r \notin c.waiting
             /\ r \in c.wakeQ => clientAt[r] = "waiting"
             /\ r \in c.wakeR => rat[r] = "waiting"
  <2>1. /\ AsksOK(c, m_requestCount, clientAt[r], rat[r], r)
        /\ SendsOK(c, clientAt[r], rat[r], r) /\ ReadsOK(c, rat[r], r) /\ InLine(c)
    BY DEF ClientInv, ClientHolds, ClientFibers
  <2>2. /\ clientAt[r] = "waiting" => r \in c.wakeQ \/ (r \in c.pending /\ c.current # Client!End)
        /\ r \in c.wakeQ => clientAt[r] = "waiting"
    BY <2>1 DEF AsksOK
  <2>3. rat[r] = "waiting" => r \in c.wakeR \/ (r \in c.waiting /\ ~Client!IsFirst(c, r))
    BY <2>1 DEF ReadsOK, InLine
  <2>4. clientAt[r] = "gone" => r \notin c.pending /\ r \notin c.waiting
    BY <2>1 DEF SendsOK, ReadsOK
  <2>5. r \in c.wakeR => rat[r] = "waiting"
    BY <2>1 DEF ReadsOK
  <2> QED BY <2>2, <2>3, <2>4, <2>5
<1> QED BY <1>1 DEF Client!NobodyForgotten

\* Together with what is missing, what ClientConnection::invariant() is about.
LEMMA ClientAsserts == ClientInv /\ MissingOK(clientConn) => Client!invariant
<1> SUFFICES ASSUME ClientInv, MissingOK(clientConn) PROVE Client!invariant
  OBVIOUS
<1> DEFINE c == clientConn
           u == {r \in c.pending : c.rq[r] < Client!COMPLETE}
<1>1. ClientFacts(c) /\ ListOK(c) /\ ClientFibers(c, m_requestCount, clientAt, rat)
  BY ClientTypes DEF ClientInv, ClientHolds
<1>2. ASSUME NEW r \in c.pending
      PROVE  r \in Client!Requests /\ r \in Nat /\ r # Client!End /\ InPlace(c, r) /\ c.rq[r] \in 0..6 /\ c.rs[r] \in 0..6
  BY <1>1, RequestNumbers DEF ListOK, ListAlmost, ClientFacts
<1>3. ASSUME NEW r \in c.pending
      PROVE  /\ Client!IsFirst(c, r) \/ r - 1 \in c.pending \/ c.rs[r - 1] > Client!COMPLETE
             /\ c.rq[r] < Client!COMPLETE \/ c.rs[r] < Client!COMPLETE \/ c.rs[r] = Client!CANCELED
             /\ c.rs[r] > Client!WAITING => c.rq[r] > Client!WAITING
             /\ Client!IsFirst(c, r) \/ c.rs[r] <= Client!WAITING \/ c.rs[r] > Client!COMPLETE
  <2>1. Client!IsFirst(c, r) \/ r - 1 \in c.pending \/ c.rs[r - 1] > Client!COMPLETE
    BY MissingFailed
  <2>2. c.rq[r] < Client!COMPLETE \/ c.rs[r] < Client!COMPLETE
    BY <1>2 DEF InPlace
  <2>3. c.rq[r] > Client!WAITING \/ c.rq[r] = Client!WAITING
    <3>1. c.current \in Nat /\ (c.current # Client!End => c.rq[c.current] \in {Client!HEADERS, Client!BODY})
      BY <1>1 DEF ListOK, ClientFacts
    <3>2. c.current = r \/ c.current = Client!End \/ r < c.current \/ (c.current # Client!End /\ r > c.current)
      BY <1>2, <3>1
    <3> QED BY <1>2, <3>1, <3>2 DEF InPlace, Client!HEADERS, Client!BODY, Client!COMPLETE, Client!WAITING, Client!End
  <2>4. c.rs[r] > Client!WAITING => c.rq[r] > Client!WAITING
    BY <1>2, <2>3 DEF InPlace, Client!PENDING, Client!WAITING
  <2>5. ReadsOK(c, rat[r], r)
    BY <1>1, <1>2 DEF ClientFibers
  <2>6. Client!IsFirst(c, r) \/ c.rs[r] <= Client!WAITING \/ c.rs[r] > Client!COMPLETE
    BY <1>2, <2>5 DEF ReadsOK, Client!WAITING, Client!HEADERS, Client!BODY, Client!COMPLETE
  <2> QED BY <2>1, <2>2, <2>4, <2>6
<1>4. c.current # Client!End => c.current \in u
  BY <1>1 DEF ListOK, ListAlmost, Client!HEADERS, Client!BODY, Client!COMPLETE
<1>5. ASSUME NEW r \in u
      PROVE  /\ c.current # Client!End /\ c.current <= r
             /\ r # c.current => c.rq[r] = Client!WAITING
             /\ r = c.current => c.rq[r] > Client!WAITING
  <2>1. c.current \in Nat /\ (c.current # Client!End => c.rq[c.current] \in {Client!HEADERS, Client!BODY})
    BY <1>1 DEF ListOK, ClientFacts
  <2>2. r \in c.pending /\ r \in Nat /\ InPlace(c, r) /\ c.rq[r] \in 0..6 /\ c.rq[r] < Client!COMPLETE
    BY <1>2
  <2>3. c.current # Client!End /\ c.current <= r
    BY <2>1, <2>2 DEF InPlace, Client!COMPLETE
  <2>4. r # c.current => c.rq[r] = Client!WAITING
    BY <2>1, <2>2, <2>3 DEF InPlace
  <2> QED BY <2>1, <2>3, <2>4 DEF Client!HEADERS, Client!BODY, Client!WAITING
<1>6. ASSUME NEW r \in u
      PROVE  IF \E s \in u : s < r THEN c.rq[r] = Client!WAITING
             ELSE c.rq[r] > Client!WAITING /\ c.current = r
  <2>1. \A s \in u : s \in Nat /\ c.current <= s /\ c.current \in Nat
    BY <1>1, <1>2, <1>5 DEF ClientFacts
  <2>2. CASE \E s \in u : s < r
    BY <1>5, <2>1, <2>2
  <2>3. CASE ~\E s \in u : s < r
    <3>1. c.current \in u /\ ~(c.current < r)
      BY <1>4, <1>5, <2>3
    <3>2. c.current = r
      BY <2>1, <3>1
    <3> QED BY <1>5, <2>3, <3>2
  <2> QED BY <2>2, <2>3
<1>7. \A r \in c.waiting : c.rs[r] = Client!WAITING /\ r \in c.pending /\ Client!UpToCurrent(c, r)
  BY <1>1 DEF ClientFacts, ClientFibers, ReadsOK
<1>8. u = {} => c.current = Client!End
  BY <1>4
<1> QED BY <1>3, <1>6, <1>7, <1>8 DEF Client!invariant


-----------------------------------------------------------------------------
(* Together.  Both ends keep their invariants through every step of the    *)
(* composition, the steps of the other parts included.                     *)

HTTPInv == ServerInv /\ ErrorsTold(serverConn) /\ ClientInv /\ MissingOK(clientConn)
NothingMissing == NoGaps(clientConn, m_requestCount)

LEMMA HTTPInit == Init => HTTPInv /\ NothingMissing
<1> SUFFICES ASSUME Init PROVE HTTPInv /\ NothingMissing
  OBVIOUS
<1>1. Client!HTTPClientInit /\ Server!HTTPServerInit
  BY DEF Init
<1>2. clientConn.pending = {} /\ clientConn.current = Client!End
  BY <1>1 DEF Client!HTTPClientInit
<1>3. NothingMissing
  BY <1>2 DEF NothingMissing, NoGaps, Gapless, OverFirst, UpToLast
<1>4. MissingOK(clientConn)
  BY <1>2 DEF MissingOK, CompleteFirst, RefusedLast
<1>5. ErrorsTold(serverConn)
  BY <1>1, HTTPAssumption DEF Server!HTTPServerInit, ErrorsTold, ServerConnShape, Server!Never, Server!Served
<1> QED BY <1>1, <1>3, <1>4, <1>5, ServerInitInv, ClientInitInv DEF HTTPInv

LEMMA HTTPFramed ==
    ASSUME NEW u, Frame(u)
    PROVE  /\ u # "client" => UNCHANGED Client!clientVars
           /\ u # "server" => UNCHANGED Server!serverVars
<1>1. (u # "client" => UNCHANGED clientVars) /\ (u # "server" => UNCHANGED serverVars)
  BY Zenon DEF Frame
<1> QED BY <1>1 DEF clientVars, serverVars, Client!clientVars, Server!serverVars

LEMMA HTTPStep == HTTPInv /\ [Next]_vars => HTTPInv' /\ (Few /\ NothingMissing => NothingMissing')
<1> SUFFICES ASSUME HTTPInv, [Next]_vars PROVE HTTPInv' /\ (Few /\ NothingMissing => NothingMissing')
  OBVIOUS
<1>1. /\ [Client!HTTPClientNext]_(Client!clientVars)
      /\ [Server!HTTPServerNext]_(Server!serverVars)
  <2>1. CASE Client!HTTPClientNext /\ Frame("client")
    BY <2>1, HTTPFramed
  <2>2. CASE Server!HTTPServerNext /\ Frame("server")
    BY <2>2, HTTPFramed
  <2>3. CASE \E u \in {"pipe", "timeout", "ssl", "socket", "cache", "broker", "pq", "pool"} : Frame(u)
    BY <2>3, HTTPFramed
  <2>4. CASE UNCHANGED vars
    BY <2>4 DEF vars, clientVars, serverVars, Client!clientVars, Server!serverVars
  <2> QED BY <2>1, <2>2, <2>3, <2>4 DEF Next
<1>2. ServerInv'
  BY <1>1, ServerStep DEF HTTPInv
<1>3. ClientInv' /\ (Few => GapsStay)
  BY <1>1, ClientStep DEF HTTPInv
<1>4. ErrorsTold(serverConn')
  BY <1>1, ServerErrors DEF HTTPInv
<1>5. MissingOK(clientConn')
  BY <1>1, <1>3, ClientMissing DEF HTTPInv
<1> QED BY <1>2, <1>3, <1>4, <1>5 DEF HTTPInv, GapsStay, NothingMissing

LEMMA HTTPHolds == Spec => []HTTPInv
<1> QED BY HTTPInit, HTTPStep, PTL DEF Spec

\* The server's end (http/server.cpp): whatever ServerConnection::invariant() asserts of
\* the list of pending requests holds, only the newest is still being read and the
\* one that completes is the first; headers and body of a response are written when the
\* responses to all earlier requests are complete (none of them failed or was cancelled),
\* no earlier request failed, and none of them has closed the connection.  For any number
\* of requests served, in whatever order their handlers answer, fail or are cancelled.
THEOREM ServerInOrder == Spec => [](Server!ServerInvariant /\ Server!ResponsesInOrder)
<1>1. HTTPInv => Server!ServerInvariant /\ Server!ResponsesInOrder
  BY ServerInvImplies DEF HTTPInv
<1> QED BY <1>1, HTTPHolds, PTL

\* Whoever waits is where the one that has to wake it will look.  On the client's end of
\* an HTTP connection (http/client.cpp) the fiber asleep in waitForRequest() is scheduled
\* or in the list behind the request that is being sent, the one asleep in ensureResponse()
\* is scheduled or among m_waitingResponses and not first, and a destroyed request is
\* in no list, for any number of requests, whichever of them fail, are destroyed or
\* close the connection; pipes, pool, timeouts and sockets are NobodyIsForgotten.
THEOREM WaitersAreKept == Spec => []WaitersKept
<1>1. HTTPInv => Client!NobodyForgotten
  BY ClientForgetsNobody DEF HTTPInv
<1>2. (/\ Pipe!NoForgottenFiber /\ PQ!PoolNobodyForgotten
       /\ Timeout!OperationCovered /\ Sock!ScheduledOnce) /\ Client!NobodyForgotten => WaitersKept
  BY DEF WaitersKept
<1> QED BY <1>1, <1>2, HTTPHolds, NobodyIsForgotten, PTL

\* Both ends keep their lists in order, for any number of requests, any of which may fail,
\* be destroyed or close the connection.  On the client's end that is what
\* ClientConnection::invariant() is about (http/client.cpp), with one difference: the numbers
\* in the list are consecutive up to requests whose responses failed or were cancelled,
\* wherever those were; the code asserts that a gap is never before m_priorResponseFailed
\* and m_priorResponseClosed, which is not so (ConsecutiveIfFew).
THEOREM PipelinesKeepOrder == Spec => []PipelineInOrder
<1>1. HTTPInv => PipelineInOrder
  BY ClientAsserts, ServerInvImplies DEF HTTPInv, PipelineInOrder
<1> QED BY <1>1, HTTPHolds, PTL

\* What the code asserts of the numbers holds as long as only the first three requests are
\* destroyed before their responses were read: cancel() sets m_priorResponseFailed to
\* the request that is cancelled even when an earlier one had failed.
THEOREM ConsecutiveIfFew == Dropped \subseteq {1, 2, 3} => (Spec => []Client!NumbersConsecutive)
<1> SUFFICES ASSUME Few PROVE Spec => []Client!NumbersConsecutive
  BY DEF Few
<1>1. HTTPInv /\ NothingMissing => Client!NumbersConsecutive
  BY DEF NothingMissing, NoGaps, Gapless, Beyond, Client!NumbersConsecutive
<1>2. HTTPInv /\ NothingMissing /\ [Next]_vars => (HTTPInv /\ NothingMissing)'
  BY HTTPStep
<1> QED BY <1>1, <1>2, HTTPInit, PTL DEF Spec

=============================================================================
