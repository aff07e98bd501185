------------------------- MODULE ConnectionsProofs -------------------------
(***************************************************************************)
(* Proofs about Connections: what holds of PostgreSQL connections and      *)
(* their pool, of the brokers, of TLS streams, pipes, the cache of         *)
(* connections, timeouts and sockets for any number of retries, addresses, *)
(* records, bytes, callers, clients and connections.                       *)
(***************************************************************************)
EXTENDS Connections, SequenceTheorems, FiniteSetTheorems, WellFoundedInduction, TLAPS

-----------------------------------------------------------------------------
(* PostgreSQL.                                                             *)

\* No transaction is open in a session that looks good but while a Transaction is
\* active.
PQInv == /\ transaction \in {"none", "active", "ended"}
         /\ m_exceptioned \in BOOLEAN
         /\ transaction # "active" => server = "none" \/ m_conn # "ok" \/ m_exceptioned

\* What a command does: it throws, or leaves the server as it should; a session is
\* not repaired by it.
LEMMA CommandDoes ==
    ASSUME NEW command \in {"BEGIN", "COMMIT", "ROLLBACK", "query"}, NEW thrown, NEW left,
           PQ!Command(command, thrown, left)
    PROVE  /\ m_conn' = "ok" => m_conn = "ok"
           /\ server = "none" /\ (thrown \/ command # "BEGIN") => server' = "none"
           /\ ~thrown /\ command \in {"COMMIT", "ROLLBACK"} => server' = "none"
BY DEF PQ!Command, PQ!Works, PQ!Rejected

\* Connection::execute() is marked by an exception.
LEMMA ExecuteDoes ==
    ASSUME PQInv, NEW command \in {"BEGIN", "COMMIT", "ROLLBACK", "query"}, NEW thrown \in BOOLEAN,
           PQ!execute(command, thrown)
    PROVE  /\ m_exceptioned' \in BOOLEAN
           /\ m_exceptioned \/ thrown => m_exceptioned'
           /\ m_conn' = "ok" => m_conn = "ok"
           /\ server = "none" /\ command # "BEGIN" => server' = "none"
           /\ ~thrown /\ command \in {"COMMIT", "ROLLBACK"} => server' = "none"
<1>1. PQ!Command(command, thrown, "idle") /\ m_exceptioned' = (m_exceptioned \/ thrown)
  BY DEF PQ!execute
<1>2. m_exceptioned' \in BOOLEAN /\ (m_exceptioned \/ thrown => m_exceptioned')
  BY <1>1, Zenon DEF PQInv
<1>3. /\ m_conn' = "ok" => m_conn = "ok"
      /\ server = "none" /\ command # "BEGIN" => server' = "none"
      /\ ~thrown /\ command \in {"COMMIT", "ROLLBACK"} => server' = "none"
  BY <1>1, CommandDoes
<1> QED BY <1>2, <1>3

\* A step that leaves the Transaction alone and does not repair the session.
LEMMA PQStays ==
    ASSUME PQInv, UNCHANGED <<transaction, m_exceptioned>>,
           m_conn' = "ok" => m_conn = "ok", server = "none" => server' = "none"
    PROVE  PQInv'
BY DEF PQInv

LEMMA PQStep == PQInv /\ PQ!PQNext => PQInv'
<1> SUFFICES ASSUME PQInv, PQ!PQNext PROVE PQInv'
  OBVIOUS
<1>1. CASE PQ!connect \/ PQ!reset
  BY <1>1 DEF PQ!connect, PQ!reset, PQ!copyVars, PQInv
<1>2. CASE PQ!Execute
  <2>1. PICK thrown \in BOOLEAN : PQ!execute("query", thrown) /\ UNCHANGED transaction
    BY <1>2 DEF PQ!Execute
  <2>2. /\ m_exceptioned' \in BOOLEAN /\ (m_exceptioned => m_exceptioned')
        /\ m_conn' = "ok" => m_conn = "ok"
        /\ server = "none" => server' = "none"
    BY <2>1, ExecuteDoes
  <2> QED BY <2>1, <2>2 DEF PQInv
<1>3. CASE PQ!prepare \/ PQ!StatementExecute
  <2>1. /\ UNCHANGED <<transaction, m_exceptioned>>
        /\ \E thrown \in BOOLEAN : \E left \in {"results", "idle"} : PQ!Command("query", thrown, left)
    BY <1>3, Zenon DEF PQ!prepare, PQ!StatementExecute
  <2> QED BY <2>1, CommandDoes, PQStays
<1>4. CASE PQ!Begin
  <2>1. PICK thrown \in BOOLEAN : PQ!execute("BEGIN", thrown)
                                  /\ transaction' = (IF thrown THEN "none" ELSE "active")
    BY <1>4 DEF PQ!Begin
  <2>2. m_exceptioned' \in BOOLEAN /\ (thrown => m_exceptioned')
    BY <2>1, ExecuteDoes
  <2> QED BY <2>1, <2>2 DEF PQInv
<1>5. CASE PQ!commit \/ PQ!rollback
  <2>1. PICK thrown \in BOOLEAN : \E command \in {"COMMIT", "ROLLBACK"} :
                                     /\ PQ!execute(command, thrown)
                                     /\ transaction' = IF thrown THEN "active" ELSE "ended"
    BY <1>5 DEF PQ!commit, PQ!rollback
  <2>2. m_exceptioned' \in BOOLEAN /\ (~thrown => server' = "none")
    BY <2>1, ExecuteDoes
  <2> QED BY <2>1, <2>2 DEF PQInv
<1>6. CASE PQ!DestroyTransaction
  <2>1. CASE transaction = "active"
    <3>1. PICK thrown \in BOOLEAN : PQ!execute("ROLLBACK", thrown)
      BY <1>6, <2>1 DEF PQ!DestroyTransaction
    <3>2. m_exceptioned' \in BOOLEAN /\ (thrown => m_exceptioned') /\ (~thrown => server' = "none")
      BY <3>1, ExecuteDoes
    <3>3. transaction' = "none"
      BY <1>6 DEF PQ!DestroyTransaction
    <3> QED BY <3>2, <3>3 DEF PQInv
  <2>2. CASE transaction # "active"
    BY <1>6, <2>2 DEF PQ!DestroyTransaction, PQInv
  <2> QED BY <2>1, <2>2
<1>7. CASE \E out \in BOOLEAN : PQ!CopyExecute(out)
  <2>1. /\ UNCHANGED <<transaction, m_exceptioned>>
        /\ PQ!Command("query", TRUE, "idle") \/ UNCHANGED <<m_conn, server>>
    BY <1>7 DEF PQ!CopyExecute
  <2> QED BY <2>1, CommandDoes, PQStays
<1>8. CASE PQ!CopyInClose \/ PQ!CopyInDestroy
  BY <1>8, PQStays DEF PQ!CopyInClose, PQ!CopyInDestroy, PQ!putCopyEnd, PQ!Rejected
<1>9. CASE \/ PQ!CopyOutRow \/ PQ!CopyOutNothingYet \/ PQ!CopyOutEnd \/ PQ!CopyOutThrows
           \/ PQ!CopyOutAfterEnd \/ PQ!CopyOutDestroy
  BY <1>9, PQStays DEF PQ!CopyOutRow, PQ!CopyOutNothingYet, PQ!CopyOutEnd, PQ!CopyOutThrows,
     PQ!CopyOutAfterEnd, PQ!CopyOutDestroy, PQ!Rejected
<1> QED BY <1>1, <1>2, <1>3, <1>4, <1>5, <1>6, <1>7, <1>8, <1>9 DEF PQ!PQNext

-----------------------------------------------------------------------------
(* The brokers.                                                            *)

BrokerPcs == {"retry", "auth", "connect", "request", "response", "future", "redirect", "retried", "done"}

\* Where the request fiber is tells whose URI is in the request's headers, what the fiber
\* of the body may do, and that an exception of the caller's own leaves unmarked.
BrokerInv ==
    /\ pc \in BrokerPcs
    /\ body \in {"none", "running", "ended", "httpFailed", "userFailed"}
    /\ brokerPending => pc = "connect"
    /\ redirect.originalUri \in {Original} \cup moved
    /\ pc \in {"retry", "retried", "done"} => currentUri \in {Original} \cup moved
    /\ body = "running" => pc \in {"response", "future"}
    /\ body = "userFailed" =>
          /\ pc \in {"response", "future", "redirect", "retried", "done"}
          /\ pc \in {"redirect", "retried", "done"} =>
                brokerOutcome.exception # "none" /\ brokerOutcome.marked = FALSE
    /\ pc \in {"future", "redirect", "retried", "done"} /\ brokerOutcome = Broker!Returned
          => brokerStatus # "none"

LEMMA BrokerInitInv == Broker!BrokerInit => BrokerInv
BY DEF Broker!BrokerInit, BrokerInv, BrokerPcs, Broker!FreshRedirect

\* An exception is no return, and keeps its mark.
LEMMA Exceptions ==
    /\ \A x \in Broker!Failures \cup {"aborted", "circular"} : \A b \in BOOLEAN :
          Broker!Exception(x, b) # Broker!Returned
    /\ \A x \in Broker!Failures : LET e == Broker!Exception(x, FALSE)
                                  IN  e.exception # "none" /\ e.marked = FALSE
    /\ Broker!Returned.exception = "none"
BY DEF Broker!Exception, Broker!Returned, Broker!Failures

LEMMA BrokerStep == BrokerInv /\ Broker!BrokerNext => BrokerInv'
<1> SUFFICES ASSUME BrokerInv, Broker!BrokerNext PROVE BrokerInv'
  OBVIOUS
<1> USE DEF BrokerInv, BrokerPcs, Broker!NoStatus
<1>1. CASE Broker!TryAgain
  BY <1>1 DEF Broker!TryAgain, Broker!FreshRedirect
<1>2. CASE Broker!Authorize
  <2>1. CASE brokerOutcome' = brokerOutcome
    BY <1>2, <2>1 DEF Broker!Authorize
  <2>2. CASE brokerOutcome' # brokerOutcome
    <3>1. /\ pc = "auth" /\ pc' = "redirect" /\ brokerStatus = "401"
          /\ UNCHANGED <<body, brokerPending, redirect, moved, brokerStatus>>
      BY <1>2, <2>2 DEF Broker!Authorize
    <3> QED BY <3>1
  <2> QED BY <2>1, <2>2
<1>3. CASE Broker!StartConnect
  BY <1>3, Exceptions DEF Broker!StartConnect, Broker!Throw
<1>4. CASE Broker!ConnectFails
  BY <1>4, Exceptions DEF Broker!ConnectFails, Broker!Throw, Broker!Failures
<1>5. CASE Broker!cancelPending
  BY <1>5 DEF Broker!cancelPending
<1>6. CASE \E direct, withBody \in BOOLEAN : Broker!SendRequest(direct, withBody)
  BY <1>6 DEF Broker!SendRequest
<1>7. CASE Broker!DoRequest
  BY <1>7, Exceptions DEF Broker!DoRequest, Broker!Throw
<1>8. CASE Broker!doBody
  BY <1>8 DEF Broker!doBody
<1>9. CASE Broker!Response
  BY <1>9, Exceptions DEF Broker!Response
<1>10. CASE Broker!FutureWait
  BY <1>10, Exceptions DEF Broker!FutureWait, Broker!Throw
<1>11. CASE Broker!RedirectEnds
  BY <1>11 DEF Broker!RedirectEnds
<1>12. CASE Broker!RetryEnds
  BY <1>12 DEF Broker!RetryEnds
<1>13. ASSUME NEW uri \in URIs, Broker!Redirects(uri) PROVE BrokerInv'
  <2>1. /\ pc = "redirect" /\ brokerOutcome = Broker!Returned /\ brokerStatus \in {"301", "302"}
        /\ UNCHANGED <<body, brokerPending>> /\ body \notin {"running", "userFailed"} /\ ~brokerPending
    BY <1>13, Exceptions DEF Broker!Redirects
  <2>2. CASE redirect.redirects + 1 = m_maxRedirects \/ uri \in redirect.uris
    <3>1. /\ UNCHANGED <<redirect, moved, brokerStatus>> /\ pc' = "retried"
          /\ currentUri' = redirect.originalUri
      BY <1>13, <2>2 DEF Broker!Redirects
    <3> QED BY <2>1, <3>1
  <2>3. CASE ~(redirect.redirects + 1 = m_maxRedirects \/ uri \in redirect.uris)
    <3>1. /\ moved' = IF brokerStatus = "301" THEN moved \cup {uri} ELSE moved
          /\ redirect'.originalUri = IF brokerStatus = "301" THEN uri ELSE redirect.originalUri
      BY <1>13, <2>3 DEF Broker!Redirects
    <3>2. \/ pc' = "auth"
          \/ pc' = "retried" /\ currentUri' = redirect'.originalUri /\ UNCHANGED brokerStatus
      BY <1>13, <2>3 DEF Broker!Redirects
    <3> QED BY <2>1, <3>1, <3>2
  <2> QED BY <2>2, <2>3
<1> QED BY <1>1, <1>2, <1>3, <1>4, <1>5, <1>6, <1>7, <1>8, <1>9, <1>10, <1>11, <1>12, <1>13
        DEF Broker!BrokerNext

-----------------------------------------------------------------------------
(* Pipes.                                                                  *)

PipeType ==
    /\ life \in [Pipe!Ends -> {"alive", "expired", "gone"}]
    /\ pipeClosed \in [Pipe!Ends -> SUBSET {"READ", "WRITE"}]
    /\ m_otherClosed \in [Pipe!Ends -> SUBSET {"READ", "WRITE"}]
    /\ m_readBuffer \in [Pipe!Ends -> Nat]
    /\ m_cancelledRead \in [Pipe!Ends -> BOOLEAN] /\ m_cancelledWrite \in [Pipe!Ends -> BOOLEAN]
    /\ pipePending \in [Pipe!Ends -> [Pipe!Kinds -> BOOLEAN]]
    /\ doing \in [Pipe!Ends -> [Pipe!Kinds -> {"none", "read", "write", "flush"}]]
    /\ queued \in [Pipe!Ends -> [Pipe!Kinds -> Nat]]
    /\ pipeFlushed \in [Pipe!Ends -> BOOLEAN]

\* A fiber is in no call, or scheduled once, or parked in the other end.
Place(e, k) ==
    \/ doing[e][k] = "none" /\ queued[e][k] = 0 /\ ~pipePending[Pipe!Other(e)][k]
    \/ doing[e][k] # "none" /\ queued[e][k] = 1 /\ ~pipePending[Pipe!Other(e)][k]
    \/ doing[e][k] # "none" /\ queued[e][k] = 0 /\ pipePending[Pipe!Other(e)][k]

\* What a parked fiber waits for has not come.
ReaderWaits(e) ==
    /\ m_readBuffer[e] = 0
    /\ life[Pipe!Other(e)] = "alive" => ~m_cancelledRead[e]
    /\ "WRITE" \notin pipeClosed[Pipe!Other(e)]
WriterWaits(e) ==
    /\ life[Pipe!Other(e)] = "alive" => ~m_cancelledWrite[e]
    /\ "READ" \notin pipeClosed[Pipe!Other(e)]
    /\ doing[e]["writer"] = "flush" => m_readBuffer[Pipe!Other(e)] >= 1
    /\ doing[e]["writer"] # "flush" => m_readBuffer[Pipe!Other(e)] >= m_bufferSize
ParkedInVain(e, k) ==
    pipePending[Pipe!Other(e)][k] => /\ life[Pipe!Other(e)] # "gone"
                                     /\ k = "reader" => ReaderWaits(e)
                                     /\ k = "writer" => WriterWaits(e)

\* Calls are made on ends that are alive.
InCall(e, k) == /\ doing[e][k] # "none" => life[e] = "alive"
                /\ doing[e]["reader"] \in {"none", "read"}

\* What an end knows of the other one.
Knows(e) ==
    /\ life[e] = "alive" /\ "WRITE" \in pipeClosed[Pipe!Other(e)] => "WRITE" \in m_otherClosed[e]
    /\ "READ" \in m_otherClosed[e] =>
          \/ "READ" \in pipeClosed[Pipe!Other(e)]
          \/ life[Pipe!Other(e)] = "gone" /\ m_readBuffer[Pipe!Other(e)] = 0

PipeInv ==
    /\ PipeType
    /\ \A e \in Pipe!Ends : Knows(e)
    /\ \A e \in Pipe!Ends : \A k \in Pipe!Kinds : Place(e, k) /\ ParkedInVain(e, k) /\ InCall(e, k)

LEMMA TwoEnds ==
    ASSUME NEW e \in Pipe!Ends
    PROVE  /\ Pipe!Other(e) \in Pipe!Ends /\ Pipe!Other(e) # e /\ Pipe!Other(Pipe!Other(e)) = e
           /\ \A x \in Pipe!Ends : x = e \/ x = Pipe!Other(e)
           /\ "reader" \in Pipe!Kinds /\ "writer" \in Pipe!Kinds
           /\ \A k \in Pipe!Kinds : k = "reader" \/ k = "writer"
BY DEF Pipe!Ends, Pipe!Other, Pipe!Kinds

LEMMA PipeInitInv == Pipe!PipeInit => PipeInv
<1> SUFFICES ASSUME Pipe!PipeInit PROVE PipeInv
  OBVIOUS
<1> USE DEF Pipe!PipeInit
<1>1. PipeType
  BY DEF PipeType
<1>2. ASSUME NEW e \in Pipe!Ends PROVE Knows(e)
  BY <1>2, TwoEnds DEF Knows
<1>3. ASSUME NEW e \in Pipe!Ends, NEW k \in Pipe!Kinds
      PROVE  Place(e, k) /\ ParkedInVain(e, k) /\ InCall(e, k)
  <2>1. /\ doing[e][k] = "none" /\ queued[e][k] = 0 /\ pipePending[Pipe!Other(e)][k] = FALSE
        /\ doing[e]["reader"] = "none"
    BY TwoEnds
  <2> QED BY <2>1, Zenon DEF Place, ParkedInVain, InCall
<1> QED BY <1>1, <1>2, <1>3 DEF PipeInv

\* The queues after one fiber took its entry and some were scheduled.
LEMMA QueueIs ==
    ASSUME PipeType, NEW e, NEW k, NEW W, NEW x \in Pipe!Ends, NEW j \in Pipe!Kinds
    PROVE  /\ Pipe!Queue(e, k, W)[x][j] \in Nat
           /\ x = e /\ j = k /\ <<x, j>> \notin W => Pipe!Queue(e, k, W)[x][j] = 0
           /\ (x # e \/ j # k) /\ <<x, j>> \notin W => Pipe!Queue(e, k, W)[x][j] = queued[x][j]
           /\ (x # e \/ j # k) /\ <<x, j>> \in W => Pipe!Queue(e, k, W)[x][j] = queued[x][j] + 1
<1>1. Pipe!Queue(e, k, W)[x][j] = queued[x][j] + (IF <<x, j>> \in W THEN 1 ELSE 0)
                                  - (IF x = e /\ j = k THEN queued[x][j] ELSE 0)
  BY DEF Pipe!Queue
<1>2. queued[x][j] \in Nat
  BY DEF PipeType
<1> DEFINE q == queued[x][j]
           r == Pipe!Queue(e, k, W)[x][j]
<1>3. q \in Nat
  BY <1>2
<1>4. CASE x = e /\ j = k /\ <<x, j>> \in W
  <2>1. r = q + 1 - q
    BY <1>1, <1>4
  <2> HIDE DEF q, r
  <2>2. r \in Nat
    BY <1>3, <2>1
  <2> QED BY <1>4, <2>2 DEF r
<1>5. CASE x = e /\ j = k /\ <<x, j>> \notin W
  <2>1. r = q + 0 - q
    BY <1>1, <1>5
  <2> HIDE DEF q, r
  <2>2. r = 0
    BY <1>3, <2>1
  <2> QED BY <1>5, <2>2 DEF r
<1>6. CASE (x # e \/ j # k) /\ <<x, j>> \in W
  <2>1. r = q + 1 - 0
    BY <1>1, <1>6
  <2> HIDE DEF q, r
  <2>2. r \in Nat /\ r = q + 1
    BY <1>3, <2>1
  <2> QED BY <1>6, <2>2 DEF r, q
<1>7. CASE (x # e \/ j # k) /\ <<x, j>> \notin W
  <2>1. r = q + 0 - 0
    BY <1>1, <1>7
  <2> HIDE DEF q, r
  <2>2. r \in Nat /\ r = q
    BY <1>3, <2>1
  <2> QED BY <1>7, <2>2 DEF r, q
<1> QED BY <1>4, <1>5, <1>6, <1>7

LEMMA QueueType ==
    ASSUME PipeType, NEW e, NEW k, NEW W
    PROVE  Pipe!Queue(e, k, W) \in [Pipe!Ends -> [Pipe!Kinds -> Nat]]
<1>1. \A x \in Pipe!Ends : \A j \in Pipe!Kinds : Pipe!Queue(e, k, W)[x][j] \in Nat
  BY QueueIs
<1> QED BY <1>1 DEF Pipe!Queue

\* One entry of a table of tables is replaced.
LEMMA EntrySet ==
    ASSUME NEW S, NEW T, NEW V, NEW f \in [S -> [T -> V]], NEW a \in S, NEW b \in T, NEW v,
           NEW g, g = [f EXCEPT ![a][b] = v], NEW x \in S, NEW y \in T
    PROVE  /\ x = a /\ y = b => g[x][y] = v
           /\ x # a \/ y # b => g[x][y] = f[x][y]
OBVIOUS

\* A fiber has taken its entry, and nobody was scheduled.
LEMMA QueueTaken ==
    ASSUME PipeType, NEW e, NEW k, NEW x \in Pipe!Ends, NEW j \in Pipe!Kinds
    PROVE  /\ x = e /\ j = k => Pipe!Queue(e, k, {})[x][j] = 0
           /\ x # e \/ j # k => Pipe!Queue(e, k, {})[x][j] = queued[x][j]
<1>1. ASSUME NEW W, W = {}
      PROVE  /\ x = e /\ j = k => Pipe!Queue(e, k, W)[x][j] = 0
             /\ x # e \/ j # k => Pipe!Queue(e, k, W)[x][j] = queued[x][j]
  <2>1. <<x, j>> \notin W
    BY <1>1
  <2> QED BY <2>1, QueueIs
<1> QED BY <1>1

\* Who is at the top of a loop is not parked, and has taken its entry.
LEMMA AtTopFree ==
    ASSUME PipeInv, NEW e \in Pipe!Ends, NEW k \in Pipe!Kinds, NEW loop, Pipe!AtTop(e, k, loop)
    PROVE  /\ life[e] = "alive" /\ ~pipePending[Pipe!Other(e)][k]
           /\ doing[e][k] # "none" => doing[e][k] = loop
<1>1. /\ Place(e, k) /\ life[e] = "alive"
      /\ doing[e][k] = "none" \/ (doing[e][k] = loop /\ queued[e][k] > 0)
  BY DEF PipeInv, Pipe!AtTop
<1> QED BY <1>1 DEF Place

\* A call that ends without having done anything.
LEMMA CallEnds ==
    ASSUME PipeInv, NEW e \in Pipe!Ends, NEW k \in Pipe!Kinds, NEW loop, NEW outcome,
           Pipe!AtTop(e, k, loop), Pipe!Ends0(e, k, outcome)
    PROVE  PipeInv'
<1>1. /\ doing' = [doing EXCEPT ![e][k] = "none"]
      /\ queued' = Pipe!Queue(e, k, {})
      /\ pipeFlushed' \in [Pipe!Ends -> BOOLEAN]
      /\ UNCHANGED <<life, pipeClosed, m_otherClosed, m_cancelledRead, m_cancelledWrite,
                     m_readBuffer, pipePending>>
  BY DEF Pipe!Ends0, Pipe!Return, Pipe!Flushed, Pipe!flags, PipeInv, PipeType
<1>2. PipeType'
  <2>1. queued' \in [Pipe!Ends -> [Pipe!Kinds -> Nat]]
    BY <1>1, QueueType DEF PipeInv
  <2> QED BY <1>1, <2>1 DEF PipeInv, PipeType
<1>3. ASSUME NEW x \in Pipe!Ends PROVE Knows(x)'
  BY <1>1 DEF PipeInv, Knows
<1>4. ASSUME NEW x \in Pipe!Ends, NEW j \in Pipe!Kinds
      PROVE  (Place(x, j) /\ ParkedInVain(x, j) /\ InCall(x, j))'
  <2>1. /\ Place(x, j) /\ ParkedInVain(x, j) /\ InCall(x, j)
        /\ life[e] = "alive" /\ ~pipePending[Pipe!Other(e)][k]
    BY AtTopFree DEF PipeInv
  <2>2. /\ x = e /\ j = k => doing'[x][j] = "none" /\ queued'[x][j] = 0
        /\ x # e \/ j # k => doing'[x][j] = doing[x][j] /\ queued'[x][j] = queued[x][j]
    <3>1. /\ x = e /\ j = k => queued'[x][j] = 0
          /\ x # e \/ j # k => queued'[x][j] = queued[x][j]
      BY <1>1, QueueTaken DEF PipeInv
    <3>2. /\ x = e /\ j = k => doing'[x][j] = "none"
          /\ x # e \/ j # k => doing'[x][j] = doing[x][j]
      BY <1>1 DEF PipeInv, PipeType
    <3> QED BY <3>1, <3>2
  <2>3. doing'[x]["reader"] \in {"none", doing[x]["reader"]}
    BY <1>1, TwoEnds DEF PipeInv, PipeType
  <2>4. pipePending[Pipe!Other(x)][j] => doing'[x][j] = doing[x][j]
    BY <2>1, <2>2
  <2>5. Place(x, j)'
    BY <1>1, <2>1, <2>2 DEF Place
  <2>6. InCall(x, j)'
    BY <1>1, <2>1, <2>2, <2>3 DEF InCall
  <2>7. ParkedInVain(x, j)'
    BY <1>1, <2>1, <2>4 DEF ParkedInVain, ReaderWaits, WriterWaits
  <2> QED BY <2>5, <2>6, <2>7
<1> QED BY <1>2, <1>3, <1>4 DEF PipeInv

\* A call that parks its fiber in the other end for something that has not come.
LEMMA CallParks ==
    ASSUME PipeInv, NEW e \in Pipe!Ends, NEW k \in Pipe!Kinds, NEW loop \in {"read", "write", "flush"},
           k = "reader" => loop = "read",
           Pipe!AtTop(e, k, loop), Pipe!Park(e, k, loop), life[Pipe!Other(e)] = "alive",
           k = "reader" => /\ m_readBuffer[e] = 0 /\ ~m_cancelledRead[e]
                           /\ "WRITE" \notin pipeClosed[Pipe!Other(e)],
           k = "writer" => /\ ~m_cancelledWrite[e] /\ "READ" \notin pipeClosed[Pipe!Other(e)]
                           /\ loop = "flush" => m_readBuffer[Pipe!Other(e)] >= 1
                           /\ loop # "flush" => m_readBuffer[Pipe!Other(e)] >= m_bufferSize
    PROVE  PipeInv'
<1>1. /\ doing' = [doing EXCEPT ![e][k] = loop]
      /\ pipePending' = [pipePending EXCEPT ![Pipe!Other(e)][k] = TRUE]
      /\ queued' = Pipe!Queue(e, k, {})
      /\ pipeFlushed' \in [Pipe!Ends -> BOOLEAN]
      /\ UNCHANGED <<life, pipeClosed, m_otherClosed, m_cancelledRead, m_cancelledWrite, m_readBuffer>>
  BY DEF Pipe!Park, Pipe!Flushed, Pipe!flags, PipeInv, PipeType
<1>2. PipeType'
  <2>1. queued' \in [Pipe!Ends -> [Pipe!Kinds -> Nat]]
    BY <1>1, QueueType DEF PipeInv
  <2>2. pipePending' \in [Pipe!Ends -> [Pipe!Kinds -> BOOLEAN]]
    BY <1>1, Zenon DEF PipeInv, PipeType
  <2> QED BY <1>1, <2>1, <2>2 DEF PipeInv, PipeType
<1>3. ASSUME NEW x \in Pipe!Ends PROVE Knows(x)'
  BY <1>1 DEF PipeInv, Knows
<1>4. ASSUME NEW x \in Pipe!Ends, NEW j \in Pipe!Kinds
      PROVE  (Place(x, j) /\ ParkedInVain(x, j) /\ InCall(x, j))'
  <2>1. /\ Place(x, j) /\ ParkedInVain(x, j) /\ InCall(x, j)
        /\ life[e] = "alive" /\ ~pipePending[Pipe!Other(e)][k]
    BY AtTopFree DEF PipeInv
  <2>2. /\ x = e /\ j = k => doing'[x][j] = loop /\ queued'[x][j] = 0 /\ pipePending'[Pipe!Other(x)][j]
        /\ x # e \/ j # k => /\ doing'[x][j] = doing[x][j] /\ queued'[x][j] = queued[x][j]
                             /\ pipePending'[Pipe!Other(x)][j] = pipePending[Pipe!Other(x)][j]
    <3>1. /\ x = e /\ j = k => queued'[x][j] = 0
          /\ x # e \/ j # k => queued'[x][j] = queued[x][j]
      BY <1>1, QueueTaken DEF PipeInv
    <3>2. /\ x = e /\ j = k => doing'[x][j] = loop
          /\ x # e \/ j # k => doing'[x][j] = doing[x][j]
      BY <1>1 DEF PipeInv, PipeType
    <3>3. /\ x = e /\ j = k => pipePending'[Pipe!Other(x)][j]
          /\ x # e \/ j # k => pipePending'[Pipe!Other(x)][j] = pipePending[Pipe!Other(x)][j]
      <4>1. PICK o \in Pipe!Ends, p \in Pipe!Ends : o = Pipe!Other(e) /\ p = Pipe!Other(x) /\ (p = o <=> x = e)
        BY TwoEnds
      <4>2. /\ p = o /\ j = k => pipePending'[p][j] = TRUE
            /\ p # o \/ j # k => pipePending'[p][j] = pipePending[p][j]
        <5>1. pipePending' = [pipePending EXCEPT ![o][k] = TRUE]
          BY <1>1, <4>1
        <5>2. pipePending \in [Pipe!Ends -> [Pipe!Kinds -> BOOLEAN]]
          BY DEF PipeInv, PipeType
        <5> QED BY <5>1, <5>2, EntrySet, Zenon
      <4> QED BY <4>1, <4>2, Zenon
    <3> QED BY <3>1, <3>2, <3>3
  <2>3. doing'[x]["reader"] \in {"read", doing[x]["reader"]}
    BY <1>1, TwoEnds DEF PipeInv, PipeType
  <2>5. Place(x, j)'
    BY <1>1, <2>1, <2>2 DEF Place
  <2>6. InCall(x, j)'
    BY <1>1, <2>1, <2>2, <2>3 DEF InCall
  <2>7. ParkedInVain(x, j)'
    BY <1>1, <2>1, <2>2 DEF ParkedInVain, ReaderWaits, WriterWaits
  <2> QED BY <2>5, <2>6, <2>7
<1> QED BY <1>2, <1>3, <1>4 DEF PipeInv

\* What has become of the fiber j of x when those parked in o were looked for: it was
\* found there and scheduled, or it is where it was.
Scheduled(x, j) == /\ ~pipePending'[Pipe!Other(x)][j]
                   /\ \/ pipePending[Pipe!Other(x)][j] /\ queued'[x][j] = queued[x][j] + 1
                      \/ ~pipePending[Pipe!Other(x)][j] /\ queued'[x][j] = queued[x][j]
Untouched(x, j) == /\ pipePending'[Pipe!Other(x)][j] <=> pipePending[Pipe!Other(x)][j]
                   /\ queued'[x][j] = queued[x][j]
Taken(x, j) == /\ pipePending'[Pipe!Other(x)][j] <=> pipePending[Pipe!Other(x)][j]
               /\ queued'[x][j] = 0

LEMMA ParkedIs ==
    ASSUME NEW o \in Pipe!Ends, NEW w \in Pipe!Kinds, NEW x \in Pipe!Ends, NEW j \in Pipe!Kinds
    PROVE  <<x, j>> \in Pipe!Parked(o, w) <=> x = Pipe!Other(o) /\ j = w /\ pipePending[o][w]
<1>1. CASE pipePending[o][w]
  <2>1. Pipe!Parked(o, w) = {<<Pipe!Other(o), w>>}
    BY <1>1 DEF Pipe!Parked
  <2> QED BY <1>1, <2>1
<1>2. CASE ~pipePending[o][w]
  <2>1. Pipe!Parked(o, w) = {}
    BY <1>2 DEF Pipe!Parked
  <2> QED BY <1>2, <2>1
<1> QED BY <1>1, <1>2

Unparks(o, w) == pipePending' = [pipePending EXCEPT ![o][w] = FALSE]

\* One kind of fiber is looked for in o, by the fiber k of a or by none.
LEMMA OneWoken ==
    ASSUME PipeType, NEW a, NEW k, NEW o \in Pipe!Ends, NEW w \in Pipe!Kinds,
           a # Pipe!Other(o) \/ k # w,
           queued' = Pipe!Queue(a, k, Pipe!Parked(o, w)), Unparks(o, w),
           NEW x \in Pipe!Ends, NEW j \in Pipe!Kinds
    PROVE  /\ x = Pipe!Other(o) /\ j = w => Scheduled(x, j)
           /\ x # Pipe!Other(o) \/ j # w => /\ x = a /\ j = k => Taken(x, j)
                                            /\ x # a \/ j # k => Untouched(x, j)
<1>1. PICK p \in Pipe!Ends : p = Pipe!Other(x) /\ (p = o <=> x = Pipe!Other(o))
  BY TwoEnds
<1>2. /\ p = o /\ j = w => pipePending'[p][j] = FALSE
      /\ p # o \/ j # w => pipePending'[p][j] = pipePending[p][j]
  <2>1. pipePending \in [Pipe!Ends -> [Pipe!Kinds -> BOOLEAN]]
    BY DEF PipeType
  <2> QED BY <2>1, EntrySet, Zenon DEF Unparks
<1>3. PICK W : W = Pipe!Parked(o, w)
  OBVIOUS
<1>4. queued' = Pipe!Queue(a, k, W)
  BY <1>3
<1>5. <<x, j>> \in W <=> x = Pipe!Other(o) /\ j = w /\ pipePending[o][w]
  BY <1>3, ParkedIs
<1>6. /\ x = a /\ j = k /\ <<x, j>> \notin W => queued'[x][j] = 0
      /\ (x # a \/ j # k) /\ <<x, j>> \notin W => queued'[x][j] = queued[x][j]
      /\ (x # a \/ j # k) /\ <<x, j>> \in W => queued'[x][j] = queued[x][j] + 1
  BY <1>4, QueueIs
<1>7. CASE x = Pipe!Other(o) /\ j = w
  <2>1. /\ x # a \/ j # k
        /\ ~pipePending'[p][j]
        /\ <<x, j>> \in W <=> pipePending[p][j]
    BY <1>1, <1>2, <1>5, <1>7, Zenon
  <2> QED BY <1>1, <1>6, <1>7, <2>1, Zenon DEF Scheduled
<1>8. CASE x # Pipe!Other(o) \/ j # w
  <2>1. pipePending'[p][j] = pipePending[p][j] /\ <<x, j>> \notin W
    BY <1>1, <1>2, <1>5, <1>8, Zenon
  <2> QED BY <1>1, <1>6, <1>8, <2>1, Zenon DEF Taken, Untouched
<1> QED BY <1>7, <1>8

\* All the kinds of K are looked for in e.
LEMMA AllWoken ==
    ASSUME PipeType, NEW e \in Pipe!Ends, NEW K \in SUBSET Pipe!Kinds, Pipe!WakeAll(e, K),
           NEW x \in Pipe!Ends, NEW j \in Pipe!Kinds
    PROVE  /\ x = Pipe!Other(e) /\ j \in K => Scheduled(x, j)
           /\ x # Pipe!Other(e) \/ j \notin K => Untouched(x, j)
<1>1. PICK p \in Pipe!Ends : p = Pipe!Other(x) /\ (p = e <=> x = Pipe!Other(e))
  BY TwoEnds
<1>2. /\ p = e => (pipePending'[p][j] <=> pipePending[p][j] /\ j \notin K)
      /\ p # e => pipePending'[p][j] = pipePending[p][j]
  <2>1. pipePending' = [pipePending EXCEPT ![e] = [i \in Pipe!Kinds |-> pipePending[e][i] /\ i \notin K]]
    BY DEF Pipe!WakeAll
  <2>2. pipePending \in [Pipe!Ends -> [Pipe!Kinds -> BOOLEAN]]
    BY DEF PipeType
  <2>3. CASE p = e
    <3>1. pipePending'[p] = [i \in Pipe!Kinds |-> pipePending[e][i] /\ i \notin K]
      BY <2>1, <2>2, <2>3
    <3> QED BY <2>3, <3>1, Zenon
  <2>4. CASE p # e
    BY <2>1, <2>2, <2>4, Zenon
  <2> QED BY <2>3, <2>4
<1>3. PICK W : W = UNION {Pipe!Parked(e, i) : i \in K}
  OBVIOUS
<1>4. queued' = Pipe!Queue(e, "none", W)
  BY <1>3 DEF Pipe!WakeAll
<1>5. <<x, j>> \in W <=> x = Pipe!Other(e) /\ j \in K /\ pipePending[e][j]
  BY <1>3, ParkedIs
<1>6. /\ <<x, j>> \notin W => queued'[x][j] = queued[x][j]
      /\ <<x, j>> \in W => queued'[x][j] = queued[x][j] + 1
  <2>1. j # "none"
    BY DEF Pipe!Kinds
  <2> QED BY <1>4, <2>1, QueueIs
<1>7. CASE x = Pipe!Other(e) /\ j \in K
  <2>1. ~pipePending'[p][j] /\ (<<x, j>> \in W <=> pipePending[p][j])
    BY <1>1, <1>2, <1>5, <1>7, Zenon
  <2> QED BY <1>1, <1>6, <1>7, <2>1, Zenon DEF Scheduled
<1>8. CASE x # Pipe!Other(e) \/ j \notin K
  <2>1. (pipePending'[p][j] <=> pipePending[p][j]) /\ <<x, j>> \notin W
    BY <1>1, <1>2, <1>5, <1>8, Zenon
  <2> QED BY <1>1, <1>6, <1>8, <2>1, Zenon DEF Untouched
<1> QED BY <1>7, <1>8

\* A fiber that is scheduled or left alone stays in one place.
LEMMA StaysInPlace ==
    ASSUME PipeType, NEW x \in Pipe!Ends, NEW j \in Pipe!Kinds, Place(x, j), doing'[x][j] = doing[x][j],
           Scheduled(x, j) \/ Untouched(x, j)
    PROVE  Place(x, j)'
BY DEF Place, Scheduled, Untouched

\* A call of the fiber k of e that succeeds, having scheduled the other kind w of
\* fiber, if it is parked in e, and changed the buffer it was parked for.
LEMMA CallSucceeds ==
    ASSUME PipeInv, NEW e \in Pipe!Ends, NEW k \in Pipe!Kinds, NEW w \in Pipe!Kinds, k # w, NEW loop,
           Pipe!AtTop(e, k, loop), Pipe!Succeeds(e, k, w),
           m_readBuffer' \in [Pipe!Ends -> Nat],
           k = "reader" => m_readBuffer'[Pipe!Other(e)] = m_readBuffer[Pipe!Other(e)],
           k = "writer" => life[Pipe!Other(e)] = "alive" /\ m_readBuffer'[e] = m_readBuffer[e]
    PROVE  PipeInv'
<1>1. /\ doing' = [doing EXCEPT ![e][k] = "none"]
      /\ queued' = Pipe!Queue(e, k, Pipe!Parked(e, w))
      /\ pipePending' = [pipePending EXCEPT ![e][w] = FALSE]
      /\ pipeFlushed' \in [Pipe!Ends -> BOOLEAN]
      /\ UNCHANGED <<life, pipeClosed, m_otherClosed, m_cancelledRead, m_cancelledWrite>>
  BY DEF Pipe!Succeeds, Pipe!Return, Pipe!Flushed, Pipe!flags, PipeInv, PipeType
<1>2. PipeType'
  <2>1. queued' \in [Pipe!Ends -> [Pipe!Kinds -> Nat]]
    BY <1>1, QueueType DEF PipeInv
  <2>2. pipePending' \in [Pipe!Ends -> [Pipe!Kinds -> BOOLEAN]]
    BY <1>1, Zenon DEF PipeInv, PipeType
  <2> QED BY <1>1, <2>1, <2>2 DEF PipeInv, PipeType
<1>3. life[e] = "alive" /\ ~pipePending[Pipe!Other(e)][k]
  BY AtTopFree
<1>4. ASSUME NEW x \in Pipe!Ends PROVE Knows(x)'
  <2>1. Knows(x)
    BY DEF PipeInv
  <2>2. CASE x = e
    <3>1. life[Pipe!Other(e)] = "gone" => m_readBuffer'[Pipe!Other(e)] = m_readBuffer[Pipe!Other(e)]
      BY TwoEnds
    <3> QED BY <1>1, <2>1, <2>2, <3>1 DEF Knows
  <2>3. CASE x = Pipe!Other(e)
    <3>1. life[Pipe!Other(x)] # "gone"
      BY <1>3, <2>3, TwoEnds
    <3> QED BY <1>1, <2>1, <3>1 DEF Knows
  <2> QED BY <2>2, <2>3, TwoEnds
<1>5. ASSUME NEW x \in Pipe!Ends, NEW j \in Pipe!Kinds
      PROVE  (Place(x, j) /\ ParkedInVain(x, j) /\ InCall(x, j))'
  <2>1. Place(x, j) /\ ParkedInVain(x, j) /\ InCall(x, j)
    BY DEF PipeInv
  <2>2. /\ x = e /\ j = k => doing'[x][j] = "none"
        /\ x # e \/ j # k => doing'[x][j] = doing[x][j]
    BY <1>1 DEF PipeInv, PipeType
  <2>3. doing'[x]["reader"] \in {"none", doing[x]["reader"]}
    BY <1>1, TwoEnds DEF PipeInv, PipeType
  <2>4. InCall(x, j)'
    BY <1>1, <2>1, <2>2, <2>3 DEF InCall
  <2>5. /\ x = Pipe!Other(e) /\ j = w => Scheduled(x, j)
        /\ x # Pipe!Other(e) \/ j # w => /\ x = e /\ j = k => Taken(x, j)
                                         /\ x # e \/ j # k => Untouched(x, j)
    <3>1. PipeType /\ (e # Pipe!Other(e) \/ k # w)
      BY DEF PipeInv
    <3>2. queued' = Pipe!Queue(e, k, Pipe!Parked(e, w)) /\ Unparks(e, w)
      BY <1>1 DEF Unparks
    <3> QED BY <3>1, <3>2, OneWoken
  <2>6. CASE x = e /\ j = k
    <3>1. doing'[x][j] = "none" /\ queued'[x][j] = 0 /\ ~pipePending'[Pipe!Other(x)][j]
      BY <1>3, <2>2, <2>5, <2>6, TwoEnds, Zenon DEF Taken
    <3> QED BY <2>4, <3>1, Zenon DEF Place, ParkedInVain
  <2>7. CASE x = Pipe!Other(e) /\ j = w
    <3>1. Scheduled(x, j) /\ doing'[x][j] = doing[x][j]
      BY <2>2, <2>5, <2>7, Zenon
    <3>2. Place(x, j)'
      BY <2>1, <3>1, StaysInPlace DEF PipeInv
    <3> QED BY <2>4, <3>1, <3>2, Zenon DEF Scheduled, ParkedInVain
  <2>8. CASE (x # e \/ j # k) /\ (x # Pipe!Other(e) \/ j # w)
    <3>1. Untouched(x, j) /\ doing'[x][j] = doing[x][j]
      BY <2>2, <2>5, <2>8, Zenon
    <3>2. Place(x, j)'
      BY <2>1, <3>1, StaysInPlace DEF PipeInv
    <3>3. /\ j = "reader" => m_readBuffer'[x] = m_readBuffer[x]
          /\ j = "writer" => m_readBuffer'[Pipe!Other(x)] = m_readBuffer[Pipe!Other(x)]
      BY <2>8, TwoEnds
    <3>4. ParkedInVain(x, j)'
      BY <1>1, <2>1, <3>1, <3>3 DEF ParkedInVain, ReaderWaits, WriterWaits, Untouched
    <3> QED BY <2>4, <3>2, <3>4
  <2> QED BY <2>6, <2>7, <2>8
<1> QED BY <1>2, <1>4, <1>5 DEF PipeInv

\* The calls of the fibers.
LEMMA PipeFiberStep ==
    ASSUME m_bufferSize \in Nat, PipeInv, NEW e \in Pipe!Ends, Pipe!PipeFiber(e)
    PROVE  PipeInv'
<1> USE DEF Pipe!otherStream
<1>1. m_readBuffer \in [Pipe!Ends -> Nat] /\ Pipe!Other(e) \in Pipe!Ends
  BY TwoEnds DEF PipeInv, PipeType
<1>2. CASE Pipe!ReadThrows(e) \/ Pipe!ReadEof(e) \/ Pipe!WriteThrows(e)
  BY <1>2, CallEnds, TwoEnds DEF Pipe!ReadThrows, Pipe!ReadEof, Pipe!WriteThrows
<1>3. CASE Pipe!ReadBytes(e)
  <2>1. PICK todo \in 1..m_readBuffer[e] :
              /\ m_readBuffer' = [m_readBuffer EXCEPT ![e] = @ - todo]
              /\ Pipe!Succeeds(e, "reader", "writer")
    BY <1>3 DEF Pipe!ReadBytes
  <2>2. m_readBuffer[e] - todo \in Nat
    BY <1>1
  <2>3. /\ m_readBuffer' \in [Pipe!Ends -> Nat]
        /\ m_readBuffer'[Pipe!Other(e)] = m_readBuffer[Pipe!Other(e)]
    BY <1>1, <2>1, <2>2, TwoEnds
  <2>4. Pipe!AtTop(e, "reader", "read")
    BY <1>3 DEF Pipe!ReadBytes
  <2> QED BY <2>1, <2>3, <2>4, CallSucceeds, TwoEnds
<1>4. CASE Pipe!WriteBytes(e)
  <2>1. PICK todo \in 1 .. m_bufferSize - m_readBuffer[Pipe!Other(e)] :
              /\ m_readBuffer' = [m_readBuffer EXCEPT ![Pipe!Other(e)] = @ + todo]
              /\ Pipe!Succeeds(e, "writer", "reader")
    BY <1>4 DEF Pipe!WriteBytes
  <2>2. m_readBuffer[Pipe!Other(e)] + todo \in Nat
    BY <1>1
  <2>3. m_readBuffer' \in [Pipe!Ends -> Nat] /\ m_readBuffer'[e] = m_readBuffer[e]
    BY <1>1, <2>1, <2>2, TwoEnds
  <2>4. Pipe!AtTop(e, "writer", "write") /\ life[Pipe!Other(e)] = "alive"
    BY <1>4 DEF Pipe!WriteBytes, Pipe!WriteBroken
  <2> QED BY <2>1, <2>3, <2>4, CallSucceeds, TwoEnds
<1>5. CASE Pipe!ReadWaits(e)
  <2>1. /\ Pipe!AtTop(e, "reader", "read") /\ m_readBuffer[e] = 0
        /\ "WRITE" \notin m_otherClosed[e] /\ life[Pipe!Other(e)] = "alive"
    BY <1>5 DEF Pipe!ReadWaits, Pipe!ReadBroken
  <2>2. CASE m_cancelledRead[e]
    BY <1>5, <2>1, <2>2, CallEnds, TwoEnds DEF Pipe!ReadWaits
  <2>3. CASE ~m_cancelledRead[e]
    <3>1. Pipe!Park(e, "reader", "read")
      BY <1>5, <2>3 DEF Pipe!ReadWaits
    <3>2. "WRITE" \notin pipeClosed[Pipe!Other(e)]
      BY <2>1, AtTopFree, TwoEnds DEF PipeInv, Knows
    <3> QED BY <2>1, <2>3, <3>1, <3>2, CallParks, TwoEnds
  <2> QED BY <2>2, <2>3
<1>6. CASE Pipe!WriteWaits(e)
  <2>1. /\ Pipe!AtTop(e, "writer", "write") /\ m_readBuffer[Pipe!Other(e)] >= m_bufferSize
        /\ life[Pipe!Other(e)] = "alive" /\ "READ" \notin pipeClosed[Pipe!Other(e)]
    BY <1>6 DEF Pipe!WriteWaits, Pipe!WriteBroken
  <2>2. CASE m_cancelledWrite[e]
    BY <1>6, <2>1, <2>2, CallEnds, TwoEnds DEF Pipe!WriteWaits
  <2>3. CASE ~m_cancelledWrite[e]
    <3>1. Pipe!Park(e, "writer", "write")
      BY <1>6, <2>3 DEF Pipe!WriteWaits
    <3> QED BY <2>1, <2>3, <3>1, CallParks, TwoEnds
  <2> QED BY <2>2, <2>3
<1>7. CASE Pipe!flush(e)
  <2>1. Pipe!AtTop(e, "writer", "flush")
    BY <1>7 DEF Pipe!flush
  <2>2. CASE \E outcome : Pipe!Ends0(e, "writer", outcome)
    BY <2>1, <2>2, CallEnds, TwoEnds
  <2>3. CASE /\ Pipe!Park(e, "writer", "flush") /\ ~m_cancelledWrite[e]
             /\ life[Pipe!Other(e)] = "alive" /\ m_readBuffer[Pipe!Other(e)] # 0
             /\ "READ" \notin pipeClosed[Pipe!Other(e)]
    <3>1. m_readBuffer[Pipe!Other(e)] >= 1
      BY <1>1, <2>3
    <3> QED BY <2>1, <2>3, <3>1, CallParks, TwoEnds
  <2> QED BY <1>7, <2>2, <2>3 DEF Pipe!flush
<1> QED BY <1>2, <1>3, <1>4, <1>5, <1>6, <1>7 DEF Pipe!PipeFiber

\* A step in which fibers are scheduled or left alone and no call goes on.  Who is
\* still parked then has nothing new to see.
LEMMA FibersStay ==
    ASSUME PipeInv, PipeType', UNCHANGED doing,
           \A x \in Pipe!Ends : \A j \in Pipe!Kinds : Scheduled(x, j) \/ Untouched(x, j),
           \A x \in Pipe!Ends : Knows(x)',
           \A x \in Pipe!Ends : \A j \in Pipe!Kinds :
              pipePending'[Pipe!Other(x)][j] /\ ParkedInVain(x, j) => ParkedInVain(x, j)',
           \A x \in Pipe!Ends : (\E j \in Pipe!Kinds : doing[x][j] # "none") => life'[x] = life[x]
    PROVE  PipeInv'
<1>1. ASSUME NEW x \in Pipe!Ends, NEW j \in Pipe!Kinds
      PROVE  (Place(x, j) /\ ParkedInVain(x, j) /\ InCall(x, j))'
  <2>1. Place(x, j) /\ ParkedInVain(x, j) /\ InCall(x, j)
    BY DEF PipeInv
  <2>2. Place(x, j)'
    BY <2>1, StaysInPlace DEF PipeInv
  <2>3. InCall(x, j)'
    BY <2>1 DEF InCall
  <2>4. ParkedInVain(x, j)'
    <3>1. CASE pipePending'[Pipe!Other(x)][j]
      BY <2>1, <3>1
    <3>2. CASE ~pipePending'[Pipe!Other(x)][j]
      BY <3>2, Zenon DEF ParkedInVain
    <3> QED BY <3>1, <3>2
  <2> QED BY <2>2, <2>3, <2>4
<1> QED BY <1>1 DEF PipeInv

LEMMA WakeAllType ==
    ASSUME PipeType, NEW e \in Pipe!Ends, NEW K, Pipe!WakeAll(e, K)
    PROVE  /\ queued' \in [Pipe!Ends -> [Pipe!Kinds -> Nat]]
           /\ pipePending' \in [Pipe!Ends -> [Pipe!Kinds -> BOOLEAN]]
           /\ UNCHANGED <<doing, pipeFlushed>>
<1>1. queued' \in [Pipe!Ends -> [Pipe!Kinds -> Nat]]
  BY QueueType DEF Pipe!WakeAll
<1>2. pipePending' \in [Pipe!Ends -> [Pipe!Kinds -> BOOLEAN]]
  <2>1. pipePending' = [pipePending EXCEPT ![e] = [i \in Pipe!Kinds |-> pipePending[e][i] /\ i \notin K]]
    BY DEF Pipe!WakeAll
  <2>2. [i \in Pipe!Kinds |-> pipePending[e][i] /\ i \notin K] \in [Pipe!Kinds -> BOOLEAN]
    BY Zenon
  <2> QED BY <2>1, <2>2, Zenon DEF PipeType
<1> QED BY <1>1, <1>2 DEF Pipe!WakeAll

LEMMA CloseStep ==
    ASSUME PipeInv, NEW e \in Pipe!Ends, NEW type \in SUBSET {"READ", "WRITE"}, Pipe!close(e, type)
    PROVE  PipeInv'
<1> DEFINE closed == pipeClosed[e] \cup type
           K == {k \in Pipe!Kinds : (IF k = "reader" THEN "WRITE" ELSE "READ") \in closed}
<1>1. /\ life[e] = "alive"
      /\ pipeClosed' = [pipeClosed EXCEPT ![e] = closed]
      /\ life[Pipe!Other(e)] = "alive" => m_otherClosed' = [m_otherClosed EXCEPT ![Pipe!Other(e)] = closed]
      /\ life[Pipe!Other(e)] # "alive" => m_otherClosed' = m_otherClosed
      /\ Pipe!WakeAll(e, K)
      /\ UNCHANGED <<life, m_readBuffer, m_cancelledRead, m_cancelledWrite>>
  BY DEF Pipe!close, Pipe!otherStream
<1>2. /\ "WRITE" \in closed => "reader" \in K
      /\ "READ" \in closed => "writer" \in K
      /\ K \in SUBSET Pipe!Kinds
      /\ closed \in SUBSET {"READ", "WRITE"}
  BY TwoEnds DEF PipeInv, PipeType
<1> HIDE DEF K
<1>3. PipeType'
  <2>1. /\ queued' \in [Pipe!Ends -> [Pipe!Kinds -> Nat]]
        /\ pipePending' \in [Pipe!Ends -> [Pipe!Kinds -> BOOLEAN]]
        /\ UNCHANGED <<doing, pipeFlushed>>
    BY <1>1, WakeAllType DEF PipeInv
  <2>2. pipeClosed' \in [Pipe!Ends -> SUBSET {"READ", "WRITE"}]
    BY <1>1, <1>2 DEF PipeInv, PipeType
  <2>3. m_otherClosed' \in [Pipe!Ends -> SUBSET {"READ", "WRITE"}]
    <3> HIDE DEF closed
    <3>1. m_otherClosed \in [Pipe!Ends -> SUBSET {"READ", "WRITE"}]
      BY DEF PipeInv, PipeType
    <3>2. CASE life[Pipe!Other(e)] = "alive"
      BY <1>1, <1>2, <3>1, <3>2
    <3> QED BY <1>1, <3>1, <3>2
  <2> QED BY <1>1, <2>1, <2>2, <2>3 DEF PipeInv, PipeType
<1>4. \A x \in Pipe!Ends : \A j \in Pipe!Kinds :
         /\ x = Pipe!Other(e) /\ j \in K => Scheduled(x, j)
         /\ x # Pipe!Other(e) \/ j \notin K => Untouched(x, j)
  BY <1>1, <1>2, AllWoken DEF PipeInv
<1>5. ASSUME NEW x \in Pipe!Ends PROVE Knows(x)'
  <2>1. Knows(x)
    BY DEF PipeInv
  <2>2. CASE x = e
    <3>1. pipeClosed'[Pipe!Other(e)] = pipeClosed[Pipe!Other(e)] /\ m_otherClosed'[e] = m_otherClosed[e]
      BY <1>1, TwoEnds DEF PipeInv, PipeType
    <3> QED BY <1>1, <2>1, <2>2, <3>1 DEF Knows
  <2>3. CASE x = Pipe!Other(e)
    <3>1. /\ Pipe!Other(x) = e /\ pipeClosed'[e] = closed /\ pipeClosed[e] \subseteq closed
          /\ life[x] = "alive" => m_otherClosed'[x] = closed
          /\ life[x] # "alive" => m_otherClosed'[x] = m_otherClosed[x]
      BY <1>1, <2>3, TwoEnds DEF PipeInv, PipeType
    <3> HIDE DEF closed
    <3> QED BY <1>1, <2>1, <3>1 DEF Knows
  <2> QED BY <2>2, <2>3, TwoEnds
<1>6. ASSUME NEW x \in Pipe!Ends, NEW j \in Pipe!Kinds, pipePending'[Pipe!Other(x)][j], ParkedInVain(x, j)
      PROVE  ParkedInVain(x, j)'
  <2>1. Untouched(x, j) /\ (x # Pipe!Other(e) \/ j \notin K)
    BY <1>4, <1>6, Zenon DEF Scheduled
  <2>2. CASE x = e
    <3>1. pipeClosed'[Pipe!Other(x)] = pipeClosed[Pipe!Other(x)]
      BY <1>1, <2>2, TwoEnds DEF PipeInv, PipeType
    <3> QED BY <1>1, <1>3, <1>6, <2>1, <3>1, WakeAllType
            DEF ParkedInVain, ReaderWaits, WriterWaits, Untouched, PipeInv
  <2>3. CASE x = Pipe!Other(e)
    <3>1. /\ pipeClosed'[Pipe!Other(x)] = closed
          /\ j = "reader" => "WRITE" \notin closed
          /\ j = "writer" => "READ" \notin closed
      BY <1>1, <1>2, <2>1, <2>3, TwoEnds DEF PipeInv, PipeType
    <3> HIDE DEF closed
    <3> QED BY <1>1, <1>6, <2>1, <3>1, WakeAllType
            DEF ParkedInVain, ReaderWaits, WriterWaits, Untouched, PipeInv
  <2> QED BY <2>2, <2>3, TwoEnds
<1>7. \A x \in Pipe!Ends : \A j \in Pipe!Kinds : Scheduled(x, j) \/ Untouched(x, j)
  BY <1>4
<1>8. UNCHANGED <<doing, life>>
  BY <1>1, WakeAllType DEF PipeInv
<1> QED BY <1>3, <1>5, <1>6, <1>7, <1>8, FibersStay

\* A destructor tells the other end whether everything was read.
LEMMA DestructStep ==
    ASSUME PipeInv, NEW e \in Pipe!Ends, Pipe!Destruct(e)
    PROVE  PipeInv'
<1>1. /\ life[e] = "expired" /\ life' = [life EXCEPT ![e] = "gone"]
      /\ life[Pipe!Other(e)] # "alive" => m_otherClosed' = m_otherClosed
      /\ life[Pipe!Other(e)] = "alive" /\ m_readBuffer[e] = 0 => m_otherClosed' =
            [m_otherClosed EXCEPT ![Pipe!Other(e)] = @ \cup {"READ"}]
      /\ life[Pipe!Other(e)] = "alive" /\ m_readBuffer[e] # 0 => m_otherClosed' =
            [m_otherClosed EXCEPT ![Pipe!Other(e)] = @ \ {"READ"}]
      /\ Pipe!WakeAll(e, Pipe!Kinds)
      /\ UNCHANGED <<pipeClosed, m_readBuffer, m_cancelledRead, m_cancelledWrite>>
  BY DEF Pipe!Destruct, Pipe!otherStream
<1>2. /\ queued' \in [Pipe!Ends -> [Pipe!Kinds -> Nat]]
      /\ pipePending' \in [Pipe!Ends -> [Pipe!Kinds -> BOOLEAN]]
      /\ UNCHANGED <<doing, pipeFlushed>>
  BY <1>1, WakeAllType DEF PipeInv
<1>3. PipeType'
  <2>1. m_otherClosed \in [Pipe!Ends -> SUBSET {"READ", "WRITE"}] /\ Pipe!Other(e) \in Pipe!Ends
    BY TwoEnds DEF PipeInv, PipeType
  <2>2. m_otherClosed' \in [Pipe!Ends -> SUBSET {"READ", "WRITE"}]
    BY <1>1, <2>1
  <2>3. life' \in [Pipe!Ends -> {"alive", "expired", "gone"}]
    BY <1>1 DEF PipeInv, PipeType
  <2> QED BY <1>1, <1>2, <2>2, <2>3 DEF PipeInv, PipeType
<1>4. \A x \in Pipe!Ends : \A j \in Pipe!Kinds :
         /\ x = Pipe!Other(e) => Scheduled(x, j)
         /\ x # Pipe!Other(e) => Untouched(x, j)
  BY <1>1, AllWoken DEF PipeInv
<1>5. life'[e] = "gone" /\ life'[Pipe!Other(e)] = life[Pipe!Other(e)]
  BY <1>1, TwoEnds DEF PipeInv, PipeType
<1>6. ASSUME NEW x \in Pipe!Ends PROVE Knows(x)'
  <2>1. Knows(x)
    BY DEF PipeInv
  <2>2. CASE x = e
    <3>1. m_otherClosed'[e] = m_otherClosed[e]
      BY <1>1, TwoEnds DEF PipeInv, PipeType
    <3> QED BY <1>1, <1>5, <2>1, <2>2, <3>1 DEF Knows
  <2>3. CASE x = Pipe!Other(e)
    <3>1. /\ Pipe!Other(x) = e
          /\ life[x] # "alive" => m_otherClosed'[x] = m_otherClosed[x]
          /\ life[x] = "alive" /\ m_readBuffer[e] = 0 => m_otherClosed'[x] = m_otherClosed[x] \cup {"READ"}
          /\ life[x] = "alive" /\ m_readBuffer[e] # 0 => m_otherClosed'[x] = m_otherClosed[x] \ {"READ"}
      BY <1>1, <2>3, TwoEnds DEF PipeInv, PipeType
    <3> QED BY <1>1, <1>5, <2>1, <2>3, <3>1 DEF Knows
  <2> QED BY <2>2, <2>3, TwoEnds
<1>7. ASSUME NEW x \in Pipe!Ends, NEW j \in Pipe!Kinds, pipePending'[Pipe!Other(x)][j], ParkedInVain(x, j)
      PROVE  ParkedInVain(x, j)'
  <2>1. Untouched(x, j) /\ x # Pipe!Other(e)
    BY <1>4, <1>7, Zenon DEF Scheduled
  <2>2. life'[Pipe!Other(x)] = life[Pipe!Other(x)]
    BY <1>5, <2>1, TwoEnds
  <2> QED BY <1>1, <1>2, <1>7, <2>1, <2>2 DEF ParkedInVain, ReaderWaits, WriterWaits, Untouched
<1>8. \A x \in Pipe!Ends : \A j \in Pipe!Kinds : Scheduled(x, j) \/ Untouched(x, j)
  BY <1>4
<1>9. ASSUME NEW x \in Pipe!Ends, \E j \in Pipe!Kinds : doing[x][j] # "none" PROVE life'[x] = life[x]
  <2>1. life[x] = "alive"
    BY <1>9 DEF PipeInv, InCall
  <2> QED BY <1>1, <2>1 DEF PipeInv, PipeType
<1> QED BY <1>2, <1>3, <1>6, <1>7, <1>8, <1>9, FibersStay

LEMMA ExpireStep ==
    ASSUME PipeInv, NEW e \in Pipe!Ends, Pipe!Expire(e)
    PROVE  PipeInv'
<1>1. /\ life[e] = "alive" /\ \A k \in Pipe!Kinds : doing[e][k] = "none"
      /\ life' = [life EXCEPT ![e] = "expired"]
      /\ UNCHANGED <<pipeClosed, m_otherClosed, m_readBuffer, m_cancelledRead, m_cancelledWrite,
                     pipePending, doing, queued, pipeFlushed>>
  BY DEF Pipe!Expire
<1>2. PipeType'
  BY <1>1 DEF PipeInv, PipeType
<1>3. \A x \in Pipe!Ends : \/ life'[x] = life[x] /\ x # e
                           \/ life[x] = "alive" /\ life'[x] = "expired" /\ x = e
  BY <1>1 DEF PipeInv, PipeType
<1>4. ASSUME NEW x \in Pipe!Ends PROVE Knows(x)'
  BY <1>1, <1>3, TwoEnds DEF PipeInv, Knows
<1>5. ASSUME NEW x \in Pipe!Ends, NEW j \in Pipe!Kinds, ParkedInVain(x, j) PROVE ParkedInVain(x, j)'
  <2>1. life'[Pipe!Other(x)] = life[Pipe!Other(x)] \/ life'[Pipe!Other(x)] = "expired"
    BY <1>3, TwoEnds
  <2> QED BY <1>1, <1>5, <2>1 DEF ParkedInVain, ReaderWaits, WriterWaits
<1>6. \A x \in Pipe!Ends : \A j \in Pipe!Kinds : Scheduled(x, j) \/ Untouched(x, j)
  BY <1>1, Zenon DEF Untouched
<1>7. ASSUME NEW x \in Pipe!Ends, \E j \in Pipe!Kinds : doing[x][j] # "none" PROVE life'[x] = life[x]
  BY <1>1, <1>3, <1>7
<1> QED BY <1>1, <1>2, <1>4, <1>5, <1>6, <1>7, FibersStay

\* cancelRead() and cancelWrite() of e, where k is the fiber they are for.
LEMMA CancelStep ==
    ASSUME PipeInv, NEW e \in Pipe!Ends, NEW k \in Pipe!Kinds, Pipe!CancelWakes(e, k),
           k = "reader" => /\ m_cancelledRead' = [m_cancelledRead EXCEPT ![e] = TRUE]
                           /\ m_cancelledWrite' = m_cancelledWrite,
           k = "writer" => /\ m_cancelledWrite' = [m_cancelledWrite EXCEPT ![e] = TRUE]
                           /\ m_cancelledRead' = m_cancelledRead
    PROVE  PipeInv'
<1>1. /\ life[Pipe!Other(e)] = "alive" => /\ queued' = Pipe!Queue(e, "none", Pipe!Parked(Pipe!Other(e), k))
                                          /\ Unparks(Pipe!Other(e), k)
      /\ life[Pipe!Other(e)] # "alive" => UNCHANGED <<queued, pipePending>>
      /\ UNCHANGED <<life, pipeClosed, m_otherClosed, m_readBuffer, doing, pipeFlushed>>
  BY DEF Pipe!CancelWakes, Pipe!otherStream, Unparks
<1>2. PICK o \in Pipe!Ends : o = Pipe!Other(e) /\ e = Pipe!Other(o)
  BY TwoEnds
<1>3. PipeType'
  <2>1. queued' \in [Pipe!Ends -> [Pipe!Kinds -> Nat]]
    BY <1>1, QueueType DEF PipeInv, PipeType
  <2>2. pipePending \in [Pipe!Ends -> [Pipe!Kinds -> BOOLEAN]]
    BY DEF PipeInv, PipeType
  <2>3. pipePending' \in [Pipe!Ends -> [Pipe!Kinds -> BOOLEAN]]
    <3>1. CASE Unparks(o, k)
      BY <2>2, <3>1, Zenon DEF Unparks
    <3>2. CASE pipePending' = pipePending
      BY <2>2, <3>2
    <3> QED BY <1>1, <1>2, <3>1, <3>2
  <2>4. m_cancelledRead' \in [Pipe!Ends -> BOOLEAN] /\ m_cancelledWrite' \in [Pipe!Ends -> BOOLEAN]
    <3>1. m_cancelledRead \in [Pipe!Ends -> BOOLEAN] /\ m_cancelledWrite \in [Pipe!Ends -> BOOLEAN]
      BY DEF PipeInv, PipeType
    <3>2. k = "reader" \/ k = "writer"
      BY TwoEnds
    <3> QED BY <3>1, <3>2, Zenon
  <2> QED BY <1>1, <2>1, <2>3, <2>4 DEF PipeInv, PipeType
<1>4. ASSUME NEW x \in Pipe!Ends, NEW j \in Pipe!Kinds
      PROVE  /\ Scheduled(x, j) \/ Untouched(x, j)
             /\ x = e /\ j = k /\ life[o] = "alive" => Scheduled(x, j)
  <2>1. CASE life[o] = "alive"
    <3>1. queued' = Pipe!Queue(e, "none", Pipe!Parked(o, k)) /\ Unparks(o, k)
      BY <1>1, <1>2, <2>1
    <3>2. "none" # k /\ "none" # j /\ PipeType
      BY DEF Pipe!Kinds, PipeInv
    <3>3. /\ x = Pipe!Other(o) /\ j = k => Scheduled(x, j)
          /\ x # Pipe!Other(o) \/ j # k => /\ x = e /\ j = "none" => Taken(x, j)
                                           /\ x # e \/ j # "none" => Untouched(x, j)
      BY <3>1, <3>2, OneWoken
    <3> QED BY <1>2, <3>2, <3>3
  <2>2. CASE life[o] # "alive"
    <3>1. UNCHANGED <<queued, pipePending>>
      BY <1>1, <1>2, <2>2
    <3> QED BY <2>2, <3>1, Zenon DEF Untouched
  <2> QED BY <2>1, <2>2
<1>5. ASSUME NEW x \in Pipe!Ends PROVE Knows(x)'
  BY <1>1 DEF PipeInv, Knows
<1>6. ASSUME NEW x \in Pipe!Ends, NEW j \in Pipe!Kinds, pipePending'[Pipe!Other(x)][j], ParkedInVain(x, j)
      PROVE  ParkedInVain(x, j)'
  <2>1. Untouched(x, j) /\ (x # e \/ j # k \/ life[o] # "alive")
    BY <1>4, <1>6, Zenon DEF Scheduled
  <2>2. j = "reader" /\ life[Pipe!Other(x)] = "alive" => m_cancelledRead'[x] = m_cancelledRead[x]
    <3>1. CASE x = e
      BY <1>2, <2>1, <3>1, TwoEnds
    <3>2. CASE x # e
      BY <3>2, TwoEnds DEF PipeInv, PipeType
    <3> QED BY <3>1, <3>2
  <2>3. j = "writer" /\ life[Pipe!Other(x)] = "alive" => m_cancelledWrite'[x] = m_cancelledWrite[x]
    <3>1. CASE x = e
      BY <1>2, <2>1, <3>1, TwoEnds
    <3>2. CASE x # e
      BY <3>2, TwoEnds DEF PipeInv, PipeType
    <3> QED BY <3>1, <3>2
  <2> QED BY <1>1, <1>6, <2>1, <2>2, <2>3 DEF ParkedInVain, ReaderWaits, WriterWaits, Untouched
<1> QED BY <1>1, <1>3, <1>4, <1>5, <1>6, FibersStay

LEMMA PipeStep == m_bufferSize \in Nat /\ PipeInv /\ Pipe!PipeNext => PipeInv'
<1> SUFFICES ASSUME m_bufferSize \in Nat, PipeInv, NEW e \in Pipe!Ends,
                    \/ Pipe!PipeFiber(e)
                    \/ \E type \in {{"READ"}, {"WRITE"}, {"READ", "WRITE"}} : Pipe!close(e, type)
                    \/ Pipe!cancelRead(e) \/ Pipe!cancelWrite(e) \/ Pipe!Expire(e) \/ Pipe!Destruct(e)
             PROVE  PipeInv'
  BY DEF Pipe!PipeNext
<1>1. CASE Pipe!PipeFiber(e)
  BY <1>1, PipeFiberStep
<1>2. CASE \E type \in {{"READ"}, {"WRITE"}, {"READ", "WRITE"}} : Pipe!close(e, type)
  <2>1. \E type \in SUBSET {"READ", "WRITE"} : Pipe!close(e, type)
    BY <1>2
  <2> QED BY <2>1, CloseStep
<1>3. CASE Pipe!cancelRead(e)
  BY <1>3, CancelStep, TwoEnds DEF Pipe!cancelRead
<1>4. CASE Pipe!cancelWrite(e)
  BY <1>4, CancelStep, TwoEnds DEF Pipe!cancelWrite
<1> QED BY <1>1, <1>2, <1>3, <1>4, ExpireStep, DestructStep

\* The queue and the other end together hold a fiber that is in a call once.
LEMMA NobodyForgotten == PipeInv => Pipe!NoForgottenFiber
<1> SUFFICES ASSUME PipeInv, NEW e \in Pipe!Ends, NEW k \in Pipe!Kinds
             PROVE  /\ queued[e][k] + (IF pipePending[Pipe!Other(e)][k] THEN 1 ELSE 0)
                           = IF doing[e][k] = "none" THEN 0 ELSE 1
                    /\ pipePending[Pipe!Other(e)][k] =>
                          /\ life[Pipe!Other(e)] # "gone"
                          /\ k = "reader" => /\ m_readBuffer[e] = 0
                                             /\ Pipe!otherStream(e) => ~m_cancelledRead[e]
                                             /\ "WRITE" \notin pipeClosed[Pipe!Other(e)]
                          /\ k = "writer" => /\ Pipe!otherStream(e) => ~m_cancelledWrite[e]
                                             /\ "READ" \notin pipeClosed[Pipe!Other(e)]
                                             /\ m_readBuffer[Pipe!Other(e)]
                                                   >= IF doing[e][k] = "flush" THEN 1 ELSE m_bufferSize
  BY DEF Pipe!NoForgottenFiber
<1>1. Place(e, k) /\ ParkedInVain(e, k)
  BY DEF PipeInv
<1>2. queued[e][k] + (IF pipePending[Pipe!Other(e)][k] THEN 1 ELSE 0)
         = IF doing[e][k] = "none" THEN 0 ELSE 1
  BY <1>1 DEF Place
<1> QED BY <1>1, <1>2 DEF ParkedInVain, ReaderWaits, WriterWaits, Pipe!otherStream

\* Only flush() ends as "flushed".
LEMMA NoFlush ==
    ASSUME NEW e \in Pipe!Ends, NEW k, NEW outcome, pipeFlushed \in [Pipe!Ends -> BOOLEAN],
           Pipe!Flushed(e, k, outcome), k = "reader" \/ outcome # "flushed",
           NEW x \in Pipe!Ends, pipeFlushed'[x]
    PROVE  pipeFlushed[x]
<1>1. pipeFlushed' = [pipeFlushed EXCEPT ![e] = IF k = "reader" THEN @ ELSE outcome = "flushed"]
  BY DEF Pipe!Flushed
<1>2. CASE x # e
  BY <1>1, <1>2, Zenon
<1>3. CASE x = e /\ k = "reader"
  BY <1>1, <1>3, Zenon
<1>4. CASE x = e /\ k # "reader"
  <2>1. pipeFlushed'[x] = (outcome = "flushed")
    BY <1>1, <1>4
  <2> QED BY <1>4, <2>1
<1> QED BY <1>2, <1>3, <1>4

LEMMA FlushStep == PipeInv /\ (Pipe!PipeNext \/ UNCHANGED pipeFlushed) => Pipe!FlushReturns
<1> SUFFICES ASSUME PipeInv, Pipe!PipeNext \/ UNCHANGED pipeFlushed,
                    NEW x \in Pipe!Ends, pipeFlushed'[x], ~pipeFlushed[x]
             PROVE  m_readBuffer[Pipe!Other(x)] = 0 \/ "READ" \in pipeClosed[Pipe!Other(x)]
  BY DEF Pipe!FlushReturns
<1>1. pipeFlushed \in [Pipe!Ends -> BOOLEAN]
  BY DEF PipeInv, PipeType
<1>2. PICK e \in Pipe!Ends : \E k \in Pipe!Kinds : \E outcome :
         /\ Pipe!PipeFiber(e) /\ Pipe!Flushed(e, k, outcome)
         /\ (k = "reader" \/ outcome # "flushed") \/ Pipe!flush(e)
  <2>1. Pipe!PipeNext /\ pipeFlushed' # pipeFlushed
    BY Zenon
  <2>2. PICK e \in Pipe!Ends : Pipe!PipeFiber(e)
    BY <2>1 DEF Pipe!PipeNext, Pipe!close, Pipe!cancelRead, Pipe!cancelWrite, Pipe!CancelWakes,
       Pipe!Expire, Pipe!Destruct, Pipe!WakeAll
  <2>3. \E k \in Pipe!Kinds : \E outcome :
           /\ Pipe!Flushed(e, k, outcome)
           /\ (k = "reader" \/ outcome # "flushed") \/ Pipe!flush(e)
    BY <2>2 DEF Pipe!PipeFiber, Pipe!ReadThrows, Pipe!ReadBytes, Pipe!ReadEof, Pipe!ReadWaits,
       Pipe!WriteThrows, Pipe!WriteBytes, Pipe!WriteWaits, Pipe!flush, Pipe!Ends0, Pipe!Succeeds,
       Pipe!Park, Pipe!Return, Pipe!Kinds
  <2> QED BY <2>2, <2>3
<1>3. Pipe!flush(e)
  BY <1>1, <1>2, NoFlush
<1>4. CASE x # e
  BY <1>1, <1>2, <1>4, Zenon DEF Pipe!Flushed
<1>5. CASE x = e
  <2>1. PICK outcome : Pipe!Flushed(e, "writer", outcome) /\
           (outcome = "flushed" => \/ ~Pipe!otherStream(e) /\ "READ" \in m_otherClosed[e]
                                   \/ m_readBuffer[Pipe!Other(e)] = 0)
    <3>1. CASE m_cancelledWrite[e]
      BY <1>3, <3>1 DEF Pipe!flush, Pipe!Ends0, Pipe!Return
    <3>2. CASE ~m_cancelledWrite[e] /\ ~Pipe!otherStream(e) /\ "READ" \in m_otherClosed[e]
      BY <1>3, <3>2 DEF Pipe!flush, Pipe!Ends0, Pipe!Return
    <3>3. CASE ~m_cancelledWrite[e] /\ ~Pipe!otherStream(e) /\ "READ" \notin m_otherClosed[e]
      BY <1>3, <3>3 DEF Pipe!flush, Pipe!Ends0, Pipe!Return
    <3>4. CASE ~m_cancelledWrite[e] /\ Pipe!otherStream(e)
      BY <1>3, <3>4 DEF Pipe!flush, Pipe!Ends0, Pipe!Return, Pipe!Park
    <3> QED BY <3>1, <3>2, <3>3, <3>4
  <2>2. outcome = "flushed"
    BY <1>1, <2>1, NoFlush
  <2>3. Knows(e)
    BY DEF PipeInv
  <2> QED BY <1>5, <2>1, <2>2, <2>3 DEF Knows
<1> QED BY <1>4, <1>5

-----------------------------------------------------------------------------
(* TLS.                                                                    *)

Items == {"flight", "record", "close_notify"}
Peer(s) == SSL!Other(s)

SSLType ==
    /\ phase \in [SSL!Sides -> {"handshake", "open", "closing", "closed"}]
    /\ flights \in [SSL!Sides -> Nat] /\ sslWritten \in [SSL!Sides -> Nat] /\ received \in [SSL!Sides -> Nat]
    /\ m_writeBio \in [SSL!Sides -> Seq(Items)] /\ m_writeBuffer \in [SSL!Sides -> Seq(Items)]
    /\ parentBuffer \in [SSL!Sides -> Seq(Items)] /\ sslWire \in [SSL!Sides -> Seq(Items)]
    /\ m_readBio \in [SSL!Sides -> Seq(Items)]
    /\ shutdown \in [SSL!Sides -> SUBSET {"sent", "received"}] /\ blocked \in [SSL!Sides -> BOOLEAN]

\* What has left the peer's engine and is still to come to that of s.
Leaving(s) == parentBuffer[s] \o (m_writeBuffer[s] \o m_writeBio[s])
ToCome(s) == m_readBio[s] \o (sslWire[s] \o Leaving(Peer(s)))

\* a flights, then records, then c alerts.
Form(p, a, c) ==
    /\ p \in Seq(Items) /\ a + c <= Len(p)
    /\ \A i \in 1..Len(p) : /\ i <= a => p[i] = "flight"
                            /\ a < i /\ i <= Len(p) - c => p[i] = "record"
                            /\ i > Len(p) - c => p[i] = "close_notify"

\* A flight is on its way, or the peer's close_notify is.
Flies(s) == flights[s] < flights[Peer(s)]
Closes(s) == "sent" \in shutdown[Peer(s)] /\ "received" \notin shutdown[s]

\* Nothing is lost or changes place on the way: a record that was written has been read
\* or is still to come, unless close() drops it.
InOrder(s) ==
    \E a, c \in {0, 1} :
        /\ a = 1 <=> Flies(s)
        /\ c = 1 <=> Closes(s)
        /\ Form(ToCome(s), a, c)
        /\ received[s] + Len(ToCome(s)) <= sslWritten[Peer(s)] + a + c
        /\ phase[s] \in {"handshake", "open"} =>
              received[s] + Len(ToCome(s)) = sslWritten[Peer(s)] + a + c

\* A parent that is not buffered keeps nothing.
KeepsNothing(s) == s \notin Buffered => parentBuffer[s] = <<>>

\* What the phase of a side tells, and how the handshake goes to and fro.
Stage(s) ==
    /\ KeepsNothing(s)
    /\ phase[s] = "handshake" => /\ flights[s] < Flights
                                 /\ sslWritten[s] = 0 /\ received[s] = 0 /\ shutdown[s] = {}
                                 /\ Len(m_readBio[s]) <= 1
                                 /\ blocked[s] => m_readBio[s] = <<>>
    /\ phase[s] # "handshake" => flights[s] = Flights
    /\ "sent" \in shutdown[s] <=> phase[s] \in {"closing", "closed"}
    /\ "received" \in shutdown[s] => "sent" \in shutdown[Peer(s)] /\ ToCome(s) = <<>>
    /\ flights[Peer(s)] <= flights[s] + 1
    /\ Flies(s) => SSL!Mine(Peer(s), flights[Peer(s)])
    /\ flights[s] = flights[Peer(s)] => flights[s] = 0 \/ flights[s] = Flights

SSLInv == SSLType /\ \A s \in SSL!Sides : InOrder(s) /\ Stage(s)

LEMMA TwoSides ==
    ASSUME NEW s \in SSL!Sides
    PROVE  /\ Peer(s) \in SSL!Sides /\ Peer(s) # s /\ Peer(Peer(s)) = s
           /\ \A x \in SSL!Sides : x = s \/ x = Peer(s)
           /\ s = "client" <=> Peer(s) = "server"
           /\ s = "server" <=> Peer(s) = "client"
BY DEF SSL!Sides, SSL!Other, Peer

\* Flights are the sides' in turn, and the client's first.
LEMMA Turns ==
    ASSUME NEW s \in SSL!Sides, NEW n \in Nat
    PROVE  /\ SSL!Mine(Peer(s), n) <=> SSL!Mine(s, n + 1)
           /\ SSL!Mine(s, 1) <=> s = "client"
<1>1. s = "client" <=> Peer(s) # "client"
  BY TwoSides DEF SSL!Sides
<1>2. (n % 2 = 1) <=> ~((n + 1) % 2 = 1)
  OBVIOUS
<1>3. SSL!Mine(Peer(s), n) <=> SSL!Mine(s, n + 1)
  <2>1. SSL!Mine(Peer(s), n) <=> ((n % 2 = 1) <=> (Peer(s) = "client"))
    BY Zenon DEF SSL!Mine
  <2>2. SSL!Mine(s, n + 1) <=> (((n + 1) % 2 = 1) <=> (s = "client"))
    BY Zenon DEF SSL!Mine
  <2> QED BY <1>1, <1>2, <2>1, <2>2, Zenon
<1>4. 1 % 2 = 1
  OBVIOUS
<1> QED BY <1>3, <1>4, Zenon DEF SSL!Mine

LEMMA FormEmpty ==
    ASSUME NEW p, p = <<>> PROVE Form(p, 0, 0)
BY DEF Form, Items

LEMMA FormNone ==
    ASSUME NEW p, Form(p, 0, 0), Len(p) = 0 PROVE p = <<>>
BY DEF Form

\* What may be sent.
LEMMA FormFlight ==
    ASSUME NEW p, p = <<>> PROVE Form(p \o <<"flight">>, 1, 0) /\ Len(p \o <<"flight">>) = 1
<1>1. p \o <<"flight">> = <<"flight">>
  OBVIOUS
<1> QED BY <1>1 DEF Form, Items

LEMMA FormRecord ==
    ASSUME NEW p, NEW a \in {0, 1}, Form(p, a, 0)
    PROVE  Form(p \o <<"record">>, a, 0) /\ Len(p \o <<"record">>) = Len(p) + 1
<1>1. <<"record">> \in Seq(Items) /\ Len(<<"record">>) = 1 /\ p \in Seq(Items) /\ Len(p) \in Nat
  BY DEF Form, Items
<1> DEFINE q == p \o <<"record">>
<1>2. /\ q \in Seq(Items) /\ Len(q) = Len(p) + 1
      /\ \A i \in 1..Len(p) : q[i] = p[i]
      /\ q[Len(p) + 1] = "record"
  BY <1>1
<1> HIDE DEF q
<1>3. Form(q, a, 0)
  BY <1>1, <1>2 DEF Form
<1> QED BY <1>2, <1>3 DEF q

LEMMA FormClose ==
    ASSUME NEW p, NEW a \in {0, 1}, Form(p, a, 0)
    PROVE  Form(p \o <<"close_notify">>, a, 1) /\ Len(p \o <<"close_notify">>) = Len(p) + 1
<1>1. <<"close_notify">> \in Seq(Items) /\ Len(<<"close_notify">>) = 1 /\ p \in Seq(Items) /\ Len(p) \in Nat
  BY DEF Form, Items
<1> DEFINE q == p \o <<"close_notify">>
<1>2. /\ q \in Seq(Items) /\ Len(q) = Len(p) + 1
      /\ \A i \in 1..Len(p) : q[i] = p[i]
      /\ q[Len(p) + 1] = "close_notify"
  BY <1>1
<1> HIDE DEF q
<1>3. Form(q, a, 1)
  BY <1>1, <1>2 DEF Form
<1> QED BY <1>2, <1>3 DEF q

\* What is left when x has been taken.
LEMMA FormTaken ==
    ASSUME NEW x \in Seq(Items), NEW q \in Seq(Items), NEW a \in {0, 1}, NEW c \in {0, 1},
           Form(x \o q, a, c), a <= Len(x)
    PROVE  /\ Len(x \o q) = Len(x) + Len(q)
           /\ \A i \in 1..Len(x) : /\ i <= a => x[i] = "flight"
                                   /\ i > a => x[i] \in {"record", "close_notify"}
           /\ (\A i \in 1..Len(x) : x[i] # "close_notify") => Form(q, 0, c)
           /\ (\E i \in 1..Len(x) : x[i] = "close_notify") => q = <<>> /\ c = 1
<1> DEFINE p == x \o q
<1>1. /\ Len(p) = Len(x) + Len(q) /\ Len(x) \in Nat /\ Len(q) \in Nat
      /\ \A i \in 1..Len(x) : p[i] = x[i] /\ i \in 1..Len(p)
      /\ \A i \in 1..Len(q) : p[Len(x) + i] = q[i] /\ Len(x) + i \in 1..Len(p)
  OBVIOUS
<1>2. /\ a + c <= Len(p)
      /\ \A i \in 1..Len(p) : /\ i <= a => p[i] = "flight"
                              /\ a < i /\ i <= Len(p) - c => p[i] = "record"
                              /\ i > Len(p) - c => p[i] = "close_notify"
  BY DEF Form
<1> HIDE DEF p
<1>3. ASSUME NEW i \in 1..Len(x)
      PROVE  /\ i <= a => x[i] = "flight"
             /\ i > a => x[i] \in {"record", "close_notify"}
             /\ x[i] = "close_notify" => Len(q) = 0 /\ c = 1
  <2>1. p[i] = x[i] /\ i \in 1..Len(p)
    BY <1>1
  <2>2. /\ i <= a => p[i] = "flight"
        /\ a < i /\ i <= Len(p) - c => p[i] = "record"
        /\ i > Len(p) - c => p[i] = "close_notify"
    BY <1>2, <2>1
  <2> QED BY <1>1, <2>1, <2>2
<1>4. ASSUME \A i \in 1..Len(x) : x[i] # "close_notify" PROVE Form(q, 0, c)
  <2>1. c <= Len(q)
    <3>1. CASE c = 0 \/ Len(q) # 0
      BY <1>1, <3>1
    <3>2. CASE c = 1 /\ Len(q) = 0
      <4>1. Len(x) \in 1..Len(p) /\ Len(x) > Len(p) - c /\ Len(x) \in 1..Len(x)
        BY <1>1, <1>2, <3>2
      <4> QED BY <1>1, <1>2, <1>4, <4>1
    <3> QED BY <3>1, <3>2
  <2>2. ASSUME NEW i \in 1..Len(q)
        PROVE  /\ 0 < i /\ i <= Len(q) - c => q[i] = "record"
               /\ i > Len(q) - c => q[i] = "close_notify"
    <3>1. p[Len(x) + i] = q[i] /\ Len(x) + i \in 1..Len(p)
      BY <1>1
    <3>2. /\ a < Len(x) + i /\ Len(x) + i <= Len(p) - c => p[Len(x) + i] = "record"
          /\ Len(x) + i > Len(p) - c => p[Len(x) + i] = "close_notify"
      BY <1>2, <3>1
    <3> QED BY <1>1, <3>1, <3>2
  <2> QED BY <1>1, <2>1, <2>2 DEF Form
<1>5. ASSUME \E i \in 1..Len(x) : x[i] = "close_notify" PROVE q = <<>> /\ c = 1
  BY <1>3, <1>5
<1> QED BY <1>1, <1>3, <1>4, <1>5 DEF p

LEMMA SSLInitInv == Flights \in Nat \ {0} /\ SSL!SSLInit => SSLInv
<1> SUFFICES ASSUME Flights \in Nat \ {0}, SSL!SSLInit PROVE SSLInv
  OBVIOUS
<1>1. SSLType
  BY DEF SSL!SSLInit, SSLType
<1>2. ASSUME NEW s \in SSL!Sides PROVE InOrder(s) /\ Stage(s)
  <2>1. /\ flights[s] = 0 /\ flights[Peer(s)] = 0 /\ shutdown[s] = {} /\ shutdown[Peer(s)] = {}
        /\ received[s] = 0 /\ sslWritten[Peer(s)] = 0 /\ sslWritten[s] = 0 /\ phase[s] = "handshake"
        /\ m_readBio[s] = <<>> /\ sslWire[s] = <<>> /\ parentBuffer[Peer(s)] = <<>>
        /\ m_writeBuffer[Peer(s)] = <<>> /\ m_writeBio[Peer(s)] = <<>>
    BY TwoSides DEF SSL!SSLInit
  <2>2. ToCome(s) = <<>>
    BY <2>1 DEF ToCome, Leaving
  <2>3. Form(ToCome(s), 0, 0) /\ Len(ToCome(s)) = 0
    BY <2>2, FormEmpty
  <2>4. ~Flies(s) /\ ~Closes(s)
    BY <2>1 DEF Flies, Closes
  <2>5. InOrder(s)
    BY <2>1, <2>3, <2>4 DEF InOrder
  <2>6. Stage(s)
    BY <2>1, <2>4, TwoSides DEF Stage, KeepsNothing, SSL!SSLInit
  <2> QED BY <2>5, <2>6
<1> QED BY <1>1, <1>2 DEF SSLInv

LEMMA Regrouped ==
    ASSUME NEW p \in Seq(Items), NEW q \in Seq(Items), NEW r \in Seq(Items)
    PROVE  /\ p \o (q \o r) = (p \o q) \o r
           /\ p \o q \in Seq(Items) /\ q \o r \in Seq(Items) /\ p \o (q \o r) \in Seq(Items)
           /\ p \o <<>> = p
<1>1. p \o (q \o r) = (p \o q) \o r
  OBVIOUS
<1>2. p \o q \in Seq(Items) /\ q \o r \in Seq(Items)
  OBVIOUS
<1>3. p \o (q \o r) \in Seq(Items)
  BY <1>2
<1>4. p \o <<>> = p
  BY ConcatEmptySeq, Zenon
<1> QED BY <1>1, <1>2, <1>3, <1>4

\* What a step of s takes and sends: x of what was to come to it, and y to its peer.
Takes(s, x) == /\ m_readBio' \in [SSL!Sides -> Seq(Items)]
               /\ m_readBio[s] = x \o m_readBio'[s] /\ m_readBio'[Peer(s)] = m_readBio[Peer(s)]
Sends(s, y) ==
    /\ m_writeBio' \in [SSL!Sides -> Seq(Items)] /\ m_writeBuffer' \in [SSL!Sides -> Seq(Items)]
    /\ parentBuffer' \in [SSL!Sides -> Seq(Items)] /\ sslWire' \in [SSL!Sides -> Seq(Items)]
    /\ sslWire'[Peer(s)] \o Leaving(s)' = (sslWire[Peer(s)] \o Leaving(s)) \o y
    /\ sslWire'[s] = sslWire[s] /\ Leaving(Peer(s))' = Leaving(Peer(s))
    /\ KeepsNothing(s)' /\ parentBuffer'[Peer(s)] = parentBuffer[Peer(s)]

\* flush() loses nothing and changes no order.
LEMMA FlushedSends ==
    ASSUME SSLType, NEW s \in SSL!Sides, NEW y \in Seq(Items), NEW toParent,
           SSL!Flushed(s, m_writeBio[s] \o y, toParent)
    PROVE  Sends(s, y)
<1> DEFINE wb == m_writeBuffer[s]
           bio == m_writeBio[s]
           pb == parentBuffer[s]
           w == sslWire[Peer(s)]
           kept == pb \o (wb \o (bio \o y))
<1>1. PICK o \in SSL!Sides : o = Peer(s) /\ o = SSL!Other(s) /\ o # s
  BY TwoSides DEF Peer
<1>2. wb \in Seq(Items) /\ bio \in Seq(Items) /\ pb \in Seq(Items) /\ w \in Seq(Items)
  BY <1>1 DEF SSLType
<1>3. kept \in Seq(Items) /\ <<>> \in Seq(Items)
  BY <1>2
<1>4. /\ m_writeBio' = [m_writeBio EXCEPT ![s] = <<>>]
      /\ m_writeBuffer' = [m_writeBuffer EXCEPT ![s] = <<>>]
      /\ \/ /\ parentBuffer' = [parentBuffer EXCEPT ![s] = <<>>]
            /\ sslWire' = [sslWire EXCEPT ![o] = w \o kept]
         \/ /\ parentBuffer' = [parentBuffer EXCEPT ![s] = kept] /\ s \in Buffered
            /\ sslWire' = [sslWire EXCEPT ![o] = w]
  BY <1>1 DEF SSL!Flushed
<1>5. kept = pb \o (wb \o (bio \o y))
  OBVIOUS
<1> HIDE DEF wb, bio, pb, w, kept
<1>11. w \o kept = (w \o (pb \o (wb \o bio))) \o y
  <2>1. wb \o (bio \o y) = (wb \o bio) \o y /\ wb \o bio \in Seq(Items)
    BY <1>2, Regrouped, SMTT(30)
  <2>2. pb \o ((wb \o bio) \o y) = (pb \o (wb \o bio)) \o y /\ pb \o (wb \o bio) \in Seq(Items)
    BY <1>2, <2>1, Regrouped, SMTT(30)
  <2>3. w \o ((pb \o (wb \o bio)) \o y) = (w \o (pb \o (wb \o bio))) \o y
    BY <1>2, <2>2, Regrouped, SMTT(30)
  <2> QED BY <1>5, <2>1, <2>2, <2>3
<1>6. /\ m_writeBio' \in [SSL!Sides -> Seq(Items)] /\ m_writeBuffer' \in [SSL!Sides -> Seq(Items)]
      /\ m_writeBio'[s] = <<>> /\ m_writeBuffer'[s] = <<>>
      /\ m_writeBio'[o] = m_writeBio[o] /\ m_writeBuffer'[o] = m_writeBuffer[o]
  BY <1>1, <1>3, <1>4 DEF SSLType
<1>7. /\ parentBuffer' \in [SSL!Sides -> Seq(Items)] /\ sslWire' \in [SSL!Sides -> Seq(Items)]
      /\ parentBuffer'[o] = parentBuffer[o] /\ sslWire'[s] = sslWire[s]
      /\ \/ parentBuffer'[s] = <<>> /\ sslWire'[o] = w \o kept
         \/ parentBuffer'[s] = kept /\ sslWire'[o] = w /\ s \in Buffered
  <2>1. w \o kept \in Seq(Items)
    BY <1>2, <1>3, Regrouped
  <2>2. PICK z : z = w \o kept
    OBVIOUS
  <2>3. parentBuffer \in [SSL!Sides -> Seq(Items)] /\ sslWire \in [SSL!Sides -> Seq(Items)]
    BY DEF SSLType
  <2>4. CASE parentBuffer' = [parentBuffer EXCEPT ![s] = <<>>] /\ sslWire' = [sslWire EXCEPT ![o] = z]
    BY ONLY <1>1, <1>3, <2>1, <2>2, <2>3, <2>4, s \in SSL!Sides
  <2>5. CASE /\ parentBuffer' = [parentBuffer EXCEPT ![s] = kept] /\ sslWire' = [sslWire EXCEPT ![o] = w]
             /\ s \in Buffered
    BY ONLY <1>1, <1>2, <1>3, <2>3, <2>5, s \in SSL!Sides
  <2> QED BY <1>4, <2>2, <2>4, <2>5
<1>8. Leaving(o)' = Leaving(o)
  BY <1>6, <1>7 DEF Leaving
<1>9. sslWire'[o] \o Leaving(s)' = w \o kept
  <2>1. Leaving(s)' = parentBuffer'[s]
    BY <1>3, <1>6, <1>7 DEF Leaving
  <2>2. CASE parentBuffer'[s] = <<>> /\ sslWire'[o] = w \o kept
    <3>1. (w \o kept) \o <<>> = w \o kept
      BY <1>2, <1>3, Regrouped
    <3> QED BY <2>1, <2>2, <3>1
  <2> QED BY <1>7, <2>1, <2>2
<1>10. sslWire[Peer(s)] \o Leaving(s) = w \o (pb \o (wb \o bio))
  BY DEF Leaving, w, pb, wb, bio
<1>12. KeepsNothing(s)'
  BY <1>7 DEF KeepsNothing
<1> QED BY <1>1, <1>6, <1>7, <1>8, <1>9, <1>10, <1>11, <1>12 DEF Sends

LEMMA TakesAndSends ==
    ASSUME SSLType, NEW s \in SSL!Sides, NEW x \in Seq(Items), NEW y \in Seq(Items),
           Takes(s, x), Sends(s, y)
    PROVE  /\ ToCome(s) \in Seq(Items) /\ ToCome(s)' \in Seq(Items)
           /\ ToCome(Peer(s)) \in Seq(Items) /\ ToCome(Peer(s))' \in Seq(Items)
           /\ ToCome(s) = x \o ToCome(s)'
           /\ ToCome(Peer(s))' = ToCome(Peer(s)) \o y
<1>1. PICK o \in SSL!Sides : o = Peer(s) /\ s = Peer(o)
  BY TwoSides
<1>2. /\ Leaving(s) \in Seq(Items) /\ Leaving(s)' \in Seq(Items)
      /\ Leaving(o) \in Seq(Items) /\ Leaving(o)' \in Seq(Items)
  BY <1>1 DEF SSLType, Leaving, Sends
<1>3. /\ m_readBio[s] \in Seq(Items) /\ m_readBio'[s] \in Seq(Items) /\ m_readBio[o] \in Seq(Items)
      /\ sslWire[s] \in Seq(Items) /\ sslWire'[s] \in Seq(Items)
      /\ sslWire[o] \in Seq(Items) /\ sslWire'[o] \in Seq(Items)
  BY <1>1 DEF SSLType, Takes, Sends
<1> DEFINE u == sslWire[s] \o Leaving(o)
           v == sslWire[o] \o Leaving(s)
<1>4. u \in Seq(Items) /\ v \in Seq(Items) /\ v \o y \in Seq(Items)
  BY <1>2, <1>3, Regrouped
<1>5. /\ ToCome(s) = m_readBio[s] \o u /\ ToCome(s)' = m_readBio'[s] \o u
      /\ ToCome(o) = m_readBio[o] \o v /\ ToCome(o)' = m_readBio[o] \o (v \o y)
  BY <1>1 DEF ToCome, Takes, Sends
<1> HIDE DEF u, v
<1>6. (x \o m_readBio'[s]) \o u = x \o (m_readBio'[s] \o u)
  <2>1. PICK r \in Seq(Items) : r = m_readBio'[s]
    BY <1>3
  <2>2. x \o (r \o u) = (x \o r) \o u
    BY ONLY x \in Seq(Items), r \in Seq(Items), <1>4
  <2> QED BY ONLY <2>1, <2>2
<1>7. m_readBio[o] \o (v \o y) = (m_readBio[o] \o v) \o y
  <2>1. PICK r \in Seq(Items) : r = m_readBio[o]
    BY <1>3
  <2>2. r \o (v \o y) = (r \o v) \o y
    BY ONLY y \in Seq(Items), r \in Seq(Items), <1>4
  <2> QED BY ONLY <2>1, <2>2
<1>8. /\ m_readBio[s] \o u \in Seq(Items) /\ m_readBio'[s] \o u \in Seq(Items)
      /\ m_readBio[o] \o v \in Seq(Items) /\ m_readBio[o] \o (v \o y) \in Seq(Items)
  BY <1>3, <1>4, Regrouped
<1> QED BY <1>1, <1>5, <1>6, <1>7, <1>8 DEF Takes

\* What the parent has kept goes out.
ParentFlushes(s) == /\ sslWire' = [sslWire EXCEPT ![SSL!Other(s)] = @ \o parentBuffer[s]]
                    /\ parentBuffer' = [parentBuffer EXCEPT ![s] = <<>>]
                    /\ UNCHANGED <<m_writeBio, m_writeBuffer>>

LEMMA OthersSend ==
    ASSUME SSLType, NEW s \in SSL!Sides, KeepsNothing(s)
    PROVE  /\ UNCHANGED <<m_writeBio, m_writeBuffer, parentBuffer, sslWire>> => Sends(s, <<>>)
           /\ (\E toParent : SSL!Flushed(s, m_writeBio[s], toParent)) => Sends(s, <<>>)
           /\ ParentFlushes(s) => Sends(s, <<>>)
           /\ SSL!write(s) => Sends(s, <<"record">>)
<1> DEFINE wb == m_writeBuffer[s]
           bio == m_writeBio[s]
           pb == parentBuffer[s]
           w == sslWire[Peer(s)]
<1>1. PICK o \in SSL!Sides : o = Peer(s) /\ o = SSL!Other(s) /\ o # s
  BY TwoSides DEF Peer
<1>2. /\ wb \in Seq(Items) /\ bio \in Seq(Items) /\ pb \in Seq(Items) /\ w \in Seq(Items)
      /\ <<>> \in Seq(Items) /\ <<"record">> \in Seq(Items)
  BY <1>1 DEF SSLType, Items
<1>3. Leaving(s) = pb \o (wb \o bio) /\ w = sslWire[o]
  BY <1>1 DEF Leaving
<1> HIDE DEF wb, bio, pb, w
<1>10. wb \o bio \in Seq(Items)
  BY ONLY <1>2
<1>4. pb \o (wb \o bio) \in Seq(Items) /\ w \o (pb \o (wb \o bio)) \in Seq(Items)
  BY ONLY <1>2
<1>5. (w \o (pb \o (wb \o bio))) \o <<>> = w \o (pb \o (wb \o bio))
  BY ONLY <1>4
<1>6. UNCHANGED <<m_writeBio, m_writeBuffer, parentBuffer, sslWire>> => Sends(s, <<>>)
  BY <1>1, <1>3, <1>5 DEF Sends, Leaving, SSLType, w, KeepsNothing
<1>7. (\E toParent : SSL!Flushed(s, m_writeBio[s], toParent)) => Sends(s, <<>>)
  <2>1. m_writeBio[s] \o <<>> = m_writeBio[s]
    BY DEF SSLType
  <2> QED BY <1>2, <2>1, FlushedSends
<1>8. ASSUME ParentFlushes(s) PROVE Sends(s, <<>>)
  <2>1. PICK z \in Seq(Items) : z = w \o pb /\ z \o (<<>> \o (wb \o bio)) = w \o (pb \o (wb \o bio))
    <3>1. PICK v \in Seq(Items) : v = wb \o bio
      BY ONLY <1>10
    <3>2. (w \o pb) \o v = w \o (pb \o v)
      BY ONLY <1>2, v \in Seq(Items)
    <3>3. <<>> \o v = v /\ w \o pb \in Seq(Items)
      BY ONLY <1>2, v \in Seq(Items)
    <3> QED BY ONLY <3>1, <3>2, <3>3
  <2>2. sslWire' = [sslWire EXCEPT ![o] = z]
    BY <1>1, <1>3, <1>8, <2>1 DEF pb, ParentFlushes
  <2>3. /\ sslWire' \in [SSL!Sides -> Seq(Items)] /\ parentBuffer' \in [SSL!Sides -> Seq(Items)]
        /\ sslWire'[o] = z /\ sslWire'[s] = sslWire[s]
        /\ parentBuffer'[s] = <<>> /\ parentBuffer'[o] = parentBuffer[o]
    <3>1. parentBuffer' = [parentBuffer EXCEPT ![s] = <<>>]
      BY <1>8 DEF ParentFlushes
    <3>2. sslWire \in [SSL!Sides -> Seq(Items)] /\ parentBuffer \in [SSL!Sides -> Seq(Items)]
      BY DEF SSLType
    <3>3. sslWire' \in [SSL!Sides -> Seq(Items)] /\ sslWire'[o] = z /\ sslWire'[s] = sslWire[s]
      BY ONLY <1>1, <2>2, <3>2, z \in Seq(Items), o \in SSL!Sides, s \in SSL!Sides
    <3>4. <<>> \in Seq(Items)
      BY ONLY <1>2
    <3>5. /\ parentBuffer' \in [SSL!Sides -> Seq(Items)]
          /\ parentBuffer'[s] = <<>> /\ parentBuffer'[o] = parentBuffer[o]
      BY ONLY <1>1, <3>1, <3>2, <3>4, o \in SSL!Sides, s \in SSL!Sides
    <3> QED BY <3>3, <3>5
  <2>4. Leaving(s)' = <<>> \o (wb \o bio) /\ Leaving(o)' = Leaving(o)
    BY <1>8, <2>3 DEF Leaving, wb, bio, ParentFlushes
  <2>5. sslWire'[o] \o Leaving(s)' = (w \o (pb \o (wb \o bio))) \o <<>>
    BY <1>5, <2>1, <2>3, <2>4
  <2> QED BY <1>1, <1>3, <1>8, <2>3, <2>4, <2>5 DEF Sends, SSLType, KeepsNothing, ParentFlushes
<1>9. ASSUME SSL!write(s) PROVE Sends(s, <<"record">>)
  <2>1. /\ m_writeBio' = [m_writeBio EXCEPT ![s] = <<"record">>]
        /\ m_writeBuffer' = [m_writeBuffer EXCEPT ![s] = <<>>]
        /\ \/ parentBuffer' = [parentBuffer EXCEPT ![s] = pb \o (wb \o bio)] /\ UNCHANGED sslWire
              /\ s \in Buffered
           \/ sslWire' = [sslWire EXCEPT ![o] = w \o (wb \o bio)] /\ UNCHANGED parentBuffer /\ pb = <<>>
    BY <1>1, <1>9 DEF SSL!write, pb, wb, bio, w, KeepsNothing
  <2>2. /\ m_writeBio' \in [SSL!Sides -> Seq(Items)] /\ m_writeBuffer' \in [SSL!Sides -> Seq(Items)]
        /\ m_writeBio'[s] = <<"record">> /\ m_writeBuffer'[s] = <<>>
        /\ m_writeBio'[o] = m_writeBio[o] /\ m_writeBuffer'[o] = m_writeBuffer[o]
    BY <1>1, <1>2, <2>1 DEF SSLType
  <2>3. PICK z \in Seq(Items) : z = pb \o (wb \o bio)
                                /\ w \o (z \o (<<>> \o <<"record">>)) = (w \o z) \o <<"record">>
    <3>1. PICK z \in Seq(Items) : z = pb \o (wb \o bio)
      BY ONLY <1>4
    <3>2. PICK r \in Seq(Items) : r = <<"record">>
      BY <1>2
    <3>3. w \o (z \o r) = (w \o z) \o r
      BY ONLY <1>2, z \in Seq(Items), r \in Seq(Items)
    <3>4. <<>> \o r = r
      BY ONLY r \in Seq(Items)
    <3> QED BY ONLY <3>1, <3>2, <3>3, <3>4
  <2>4. CASE /\ parentBuffer' = [parentBuffer EXCEPT ![s] = pb \o (wb \o bio)] /\ UNCHANGED sslWire
             /\ s \in Buffered
    <3>1. parentBuffer' = [parentBuffer EXCEPT ![s] = z]
      BY <2>3, <2>4
    <3>2. /\ parentBuffer' \in [SSL!Sides -> Seq(Items)]
          /\ parentBuffer'[s] = z /\ parentBuffer'[o] = parentBuffer[o]
      BY <1>1, <3>1 DEF SSLType
    <3>3. Leaving(s)' = z \o (<<>> \o <<"record">>) /\ Leaving(o)' = Leaving(o)
      BY <2>2, <3>2 DEF Leaving
    <3>4. sslWire'[o] \o Leaving(s)' = (w \o (pb \o (wb \o bio))) \o <<"record">>
      BY <1>3, <2>3, <2>4, <3>3
    <3> QED BY <1>1, <1>3, <2>2, <2>4, <3>2, <3>3, <3>4 DEF Sends, SSLType, KeepsNothing
  <2>5. CASE sslWire' = [sslWire EXCEPT ![o] = w \o (wb \o bio)] /\ UNCHANGED parentBuffer /\ pb = <<>>
    <3>1. PICK t \in Seq(Items) : t = w \o (wb \o bio)
             /\ t \o (<<>> \o (<<>> \o <<"record">>)) = (w \o (<<>> \o (wb \o bio))) \o <<"record">>
      <4>1. PICK v \in Seq(Items) : v = wb \o bio
        BY ONLY <1>10
      <4>2. PICK r \in Seq(Items) : r = <<"record">>
        BY <1>2
      <4>3. <<>> \o v = v /\ <<>> \o r = r
        BY ONLY v \in Seq(Items), r \in Seq(Items)
      <4>4. w \o v \in Seq(Items)
        BY ONLY <1>2, v \in Seq(Items)
      <4>5. (w \o v) \o (<<>> \o (<<>> \o r)) = (w \o (<<>> \o v)) \o r
        BY ONLY <4>3
      <4> QED BY ONLY <4>1, <4>2, <4>4, <4>5
    <3>2. sslWire' = [sslWire EXCEPT ![o] = t]
      BY <2>5, <3>1
    <3>3. sslWire' \in [SSL!Sides -> Seq(Items)] /\ sslWire'[o] = t /\ sslWire'[s] = sslWire[s]
      BY <1>1, <3>2 DEF SSLType
    <3>4. Leaving(s)' = <<>> \o (<<>> \o <<"record">>) /\ Leaving(o)' = Leaving(o)
      BY <1>1, <2>2, <2>5 DEF Leaving, pb
    <3>5. sslWire'[o] \o Leaving(s)' = (w \o (pb \o (wb \o bio))) \o <<"record">>
      BY ONLY <2>5, <3>1, <3>3, <3>4
    <3> QED BY <1>1, <1>3, <2>2, <2>5, <3>3, <3>4, <3>5 DEF Sends, SSLType, KeepsNothing
  <2> QED BY <2>1, <2>4, <2>5
<1> QED BY <1>6, <1>7, <1>8, <1>9

\* What one side does leaves what is to come to the other in order.
\* One more has been written, and one more is to come.
LEMMA OneMore ==
    ASSUME NEW n \in Nat, NEW m \in Nat, NEW w \in Nat, NEW a \in {0, 1}
    PROVE  /\ n + m <= w + a + 0 => n + (m + 1) <= (w + 1) + a + 0 /\ n + (m + 1) <= w + a + 1
           /\ n + m = w + a + 0 => n + (m + 1) = (w + 1) + a + 0 /\ n + (m + 1) = w + a + 1
OBVIOUS

LEMMA PeerInOrder ==
    ASSUME SSLInv, NEW s \in SSL!Sides, NEW y \in Seq(Items), ToCome(Peer(s))' = ToCome(Peer(s)) \o y,
           UNCHANGED flights, received'[Peer(s)] = received[Peer(s)], phase'[Peer(s)] = phase[Peer(s)],
           shutdown'[Peer(s)] = shutdown[Peer(s)], sslWritten'[s] \in Nat,
           \/ /\ y = <<>> /\ sslWritten'[s] = sslWritten[s]
              /\ "sent" \in shutdown'[s] <=> "sent" \in shutdown[s]
           \/ /\ y = <<"record">> /\ sslWritten'[s] = sslWritten[s] + 1
              /\ "sent" \notin shutdown'[s] /\ "sent" \notin shutdown[s]
           \/ /\ y = <<"close_notify">> /\ sslWritten'[s] = sslWritten[s]
              /\ "sent" \in shutdown'[s] /\ "sent" \notin shutdown[s]
    PROVE  InOrder(Peer(s))'
<1>1. PICK o \in SSL!Sides : o = Peer(s) /\ s = Peer(o)
  BY TwoSides
<1>2. PICK a \in {0, 1}, c \in {0, 1} :
        /\ a = 1 <=> Flies(o)
        /\ c = 1 <=> Closes(o)
        /\ Form(ToCome(o), a, c)
        /\ received[o] + Len(ToCome(o)) <= sslWritten[s] + a + c
        /\ phase[o] \in {"handshake", "open"} => received[o] + Len(ToCome(o)) = sslWritten[s] + a + c
  BY <1>1 DEF SSLInv, InOrder
<1>3. PICK p, q : p = ToCome(o) /\ q = ToCome(o)' /\ q = p \o y
  BY <1>1
<1>4. p \in Seq(Items) /\ Len(p) \in Nat /\ received[o] \in Nat /\ sslWritten[s] \in Nat
  <2>1. p \in Seq(Items)
    BY <1>2, <1>3 DEF Form
  <2>2. received[o] \in Nat /\ sslWritten[s] \in Nat
    BY DEF SSLInv, SSLType
  <2>3. Len(p) \in Nat
    BY ONLY <2>1
  <2> QED BY <2>1, <2>2, <2>3
<1>5. Flies(o)' <=> Flies(o)
  BY <1>1 DEF Flies
<1>6. CASE y = <<>>
  <2>1. q = p
    BY ONLY <1>3, <1>4, <1>6
  <2>2. sslWritten'[s] = sslWritten[s] /\ (Closes(o)' <=> Closes(o))
    BY <1>1, <1>6 DEF Closes
  <2> QED BY <1>1, <1>2, <1>3, <1>5, <2>1, <2>2 DEF InOrder
<1>7. CASE y = <<"record">>
  <2>1. sslWritten'[s] = sslWritten[s] + 1 /\ ~Closes(o) /\ ~Closes(o)'
    BY <1>1, <1>7 DEF Closes
  <2>2. c = 0
    BY <1>2, <2>1
  <2>3. Form(q, a, 0) /\ Len(q) = Len(p) + 1
    BY <1>2, <1>3, <1>7, <2>2, FormRecord
  <2>4. /\ received'[o] + Len(q) <= sslWritten'[s] + a + 0
        /\ phase'[o] \in {"handshake", "open"} => received'[o] + Len(q) = sslWritten'[s] + a + 0
    <3>1. received'[o] = received[o] /\ phase'[o] = phase[o] /\ sslWritten'[s] = sslWritten[s] + 1
      BY <1>1, <2>1
    <3>2. /\ received[o] + Len(p) <= sslWritten[s] + a + 0
          /\ phase[o] \in {"handshake", "open"} => received[o] + Len(p) = sslWritten[s] + a + 0
      BY <1>2, <1>3, <2>2
    <3>3. Len(q) = Len(p) + 1
      BY <2>3
    <3>4. received[o] \in Nat /\ Len(p) \in Nat /\ sslWritten[s] \in Nat
      BY <1>4
    <3>5. PICK n \in Nat, m \in Nat, w \in Nat : n = received[o] /\ m = Len(p) /\ w = sslWritten[s]
      BY <3>4
    <3>6. /\ n + (m + 1) <= (w + 1) + a + 0
          /\ phase[o] \in {"handshake", "open"} => n + (m + 1) = (w + 1) + a + 0
      <4>1. n + m <= w + a + 0 /\ (phase[o] \in {"handshake", "open"} => n + m = w + a + 0)
        BY ONLY <3>2, <3>5
      <4> QED BY ONLY <4>1, OneMore, n \in Nat, m \in Nat, w \in Nat, a \in {0, 1}
    <3>7. received'[o] = n /\ Len(q) = m + 1 /\ sslWritten'[s] = (w + 1) /\ phase'[o] = phase[o]
      BY ONLY <3>1, <3>3, <3>5
    <3> QED BY ONLY <3>6, <3>7
  <2> QED BY <1>1, <1>2, <1>3, <1>5, <2>1, <2>3, <2>4 DEF InOrder
<1>8. CASE y = <<"close_notify">>
  <2>1. "sent" \notin shutdown[s] /\ "sent" \in shutdown'[s] /\ sslWritten'[s] = sslWritten[s]
    BY <1>8
  <2>2. "received" \notin shutdown[o]
    BY <1>1, <2>1 DEF SSLInv, Stage
  <2>3. ~Closes(o) /\ Closes(o)'
    BY <1>1, <2>1, <2>2 DEF Closes
  <2>4. c = 0
    BY <1>2, <2>3
  <2>5. Form(q, a, 1) /\ Len(q) = Len(p) + 1
    BY <1>2, <1>3, <1>8, <2>4, FormClose
  <2>6. /\ received'[o] + Len(q) <= sslWritten'[s] + a + 1
        /\ phase'[o] \in {"handshake", "open"} => received'[o] + Len(q) = sslWritten'[s] + a + 1
    <3>1. received'[o] = received[o] /\ phase'[o] = phase[o] /\ sslWritten'[s] = sslWritten[s]
      BY <1>1, <2>1
    <3>2. /\ received[o] + Len(p) <= sslWritten[s] + a + 0
          /\ phase[o] \in {"handshake", "open"} => received[o] + Len(p) = sslWritten[s] + a + 0
      BY <1>2, <1>3, <2>4
    <3>3. Len(q) = Len(p) + 1
      BY <2>5
    <3>4. received[o] \in Nat /\ Len(p) \in Nat /\ sslWritten[s] \in Nat
      BY <1>4
    <3>5. PICK n \in Nat, m \in Nat, w \in Nat : n = received[o] /\ m = Len(p) /\ w = sslWritten[s]
      BY <3>4
    <3>6. /\ n + (m + 1) <= w + a + 1
          /\ phase[o] \in {"handshake", "open"} => n + (m + 1) = w + a + 1
      <4>1. n + m <= w + a + 0 /\ (phase[o] \in {"handshake", "open"} => n + m = w + a + 0)
        BY ONLY <3>2, <3>5
      <4> QED BY ONLY <4>1, OneMore, n \in Nat, m \in Nat, w \in Nat, a \in {0, 1}
    <3>7. received'[o] = n /\ Len(q) = m + 1 /\ sslWritten'[s] = w /\ phase'[o] = phase[o]
      BY ONLY <3>1, <3>3, <3>5
    <3> QED BY ONLY <3>6, <3>7
  <2> QED BY <1>1, <1>2, <1>3, <1>5, <2>3, <2>5, <2>6 DEF InOrder
<1> QED BY <1>6, <1>7, <1>8

\* What a side that is through with the handshake takes: records, which it may count, or
\* the end, after which there is nothing.
LEMMA OwnInOrder ==
    ASSUME SSLInv, Flights \in Nat, NEW s \in SSL!Sides, NEW x \in Seq(Items), ToCome(s) = x \o ToCome(s)',
           ToCome(s)' \in Seq(Items), phase[s] # "handshake", UNCHANGED flights, received'[s] \in Nat,
           sslWritten'[Peer(s)] = sslWritten[Peer(s)], shutdown'[Peer(s)] = shutdown[Peer(s)],
           phase'[s] \in {"handshake", "open"} => phase[s] = "open",
           \/ /\ \A i \in 1..Len(x) : x[i] # "close_notify"
              /\ "received" \in shutdown'[s] <=> "received" \in shutdown[s]
              /\ received'[s] <= received[s] + Len(x)
              /\ phase'[s] \in {"handshake", "open"} => received'[s] = received[s] + Len(x)
           \/ /\ \E i \in 1..Len(x) : x[i] = "close_notify"
              /\ "received" \in shutdown'[s] /\ received'[s] = received[s]
              /\ phase'[s] \in {"handshake", "open"} => Len(x) = 1
    PROVE  /\ InOrder(s)'
           /\ "received" \in shutdown[s] => ToCome(s)' = <<>>
           /\ (\E i \in 1..Len(x) : x[i] = "close_notify") =>
                 "sent" \in shutdown[Peer(s)] /\ ToCome(s)' = <<>>
<1>1. PICK o \in SSL!Sides : o = Peer(s) /\ s = Peer(o)
  BY TwoSides
<1>2. PICK a \in {0, 1}, c \in {0, 1} :
        /\ a = 1 <=> Flies(s)
        /\ c = 1 <=> Closes(s)
        /\ Form(ToCome(s), a, c)
        /\ received[s] + Len(ToCome(s)) <= sslWritten[o] + a + c
        /\ phase[s] \in {"handshake", "open"} => received[s] + Len(ToCome(s)) = sslWritten[o] + a + c
  BY <1>1 DEF SSLInv, InOrder
<1>3. ~Flies(s) /\ a = 0
  <2>1. flights[s] = Flights /\ flights[o] <= Flights
    <3>1. Stage(s) /\ Stage(o) /\ flights[o] \in Nat
      BY DEF SSLInv, SSLType
    <3>2. flights[o] < Flights \/ flights[o] = Flights
      BY <3>1 DEF Stage
    <3>3. flights[s] = Flights
      BY <3>1 DEF Stage
    <3> QED BY <3>1, <3>2, <3>3
  <2>2. flights[s] \in Nat /\ flights[o] \in Nat
    BY DEF SSLInv, SSLType
  <2>3. ~(flights[s] < flights[o])
    BY <2>1, <2>2
  <2>4. ~Flies(s)
    BY <1>1, <2>3 DEF Flies
  <2> QED BY <1>2, <2>4
<1>4. ~Flies(s)'
  BY <1>1, <1>3 DEF Flies
<1>5. PICK p, q \in Seq(Items) : p = ToCome(s) /\ q = ToCome(s)' /\ p = x \o q
  BY ConcatProperties
<1>6. /\ Len(p) = Len(x) + Len(q)
      /\ (\A i \in 1..Len(x) : x[i] # "close_notify") => Form(q, 0, c)
      /\ (\E i \in 1..Len(x) : x[i] = "close_notify") => q = <<>> /\ c = 1
  BY <1>2, <1>3, <1>5, FormTaken
<1>7. /\ Len(x) \in Nat /\ Len(q) \in Nat /\ received[s] \in Nat /\ sslWritten[o] \in Nat
      /\ sslWritten'[o] = sslWritten[o] /\ shutdown'[o] = shutdown[o]
  <2>1. received[s] \in Nat /\ sslWritten[o] \in Nat
    BY DEF SSLInv, SSLType
  <2>2. Len(x) \in Nat /\ Len(q) \in Nat
    BY ONLY x \in Seq(Items), q \in Seq(Items)
  <2> QED BY <1>1, <2>1, <2>2
<1>8. "received" \in shutdown[s] => q = <<>> /\ Len(x) = 0
  <2>1. ASSUME "received" \in shutdown[s] PROVE p = <<>>
    BY <1>5, <2>1 DEF SSLInv, Stage
  <2> QED BY <1>5, <1>6, <1>7, <2>1
<1>9. CASE \A i \in 1..Len(x) : x[i] # "close_notify"
  <2>1. Form(q, 0, c) /\ (Closes(s)' <=> Closes(s))
    BY <1>1, <1>6, <1>7, <1>9 DEF Closes
  <2>2. /\ received'[s] <= received[s] + Len(x)
        /\ phase'[s] \in {"handshake", "open"} => received'[s] = received[s] + Len(x)
    BY <1>9
  <2>3. received'[s] + Len(q) <= sslWritten'[o] + 0 + c
    BY <1>2, <1>3, <1>5, <1>6, <1>7, <2>2
  <2>4. phase'[s] \in {"handshake", "open"} => received'[s] + Len(q) = sslWritten'[o] + 0 + c
    BY <1>2, <1>3, <1>5, <1>6, <1>7, <2>2
  <2>5. InOrder(s)'
    BY <1>1, <1>2, <1>4, <1>5, <2>1, <2>3, <2>4 DEF InOrder
  <2> QED BY <1>5, <1>8, <1>9, <2>5
<1>10. CASE \E i \in 1..Len(x) : x[i] = "close_notify"
  <2>1. /\ "received" \in shutdown'[s] /\ received'[s] = received[s]
        /\ phase'[s] \in {"handshake", "open"} => Len(x) = 1
    BY <1>10
  <2>2. q = <<>> /\ c = 1 /\ Closes(s) /\ ~Closes(s)' /\ Len(q) = 0 /\ Len(x) >= 1
    BY <1>2, <1>6, <1>7, <1>10, <2>1, SMTT(30) DEF Closes
  <2>3. Form(q, 0, 0)
    BY <2>2, FormEmpty
  <2>4. /\ received'[s] + Len(q) <= sslWritten'[o] + 0 + 0
        /\ phase'[s] \in {"handshake", "open"} => received'[s] + Len(q) = sslWritten'[o] + 0 + 0
    BY <1>2, <1>3, <1>5, <1>6, <1>7, <2>1, <2>2
  <2>5. InOrder(s)'
    BY <1>1, <1>4, <1>5, <2>2, <2>3, <2>4 DEF InOrder
  <2>6. "sent" \in shutdown[o]
    BY <1>1, <2>2 DEF Closes
  <2> QED BY <1>1, <1>5, <2>2, <2>5, <2>6
<1> QED BY <1>9, <1>10

\* What s takes: records, which it may count, or the end.
Took(s, x) ==
    \/ /\ \A i \in 1..Len(x) : x[i] # "close_notify"
       /\ "received" \in shutdown'[s] <=> "received" \in shutdown[s]
       /\ received'[s] <= received[s] + Len(x)
       /\ phase'[s] \in {"handshake", "open"} => received'[s] = received[s] + Len(x)
    \/ /\ \E i \in 1..Len(x) : x[i] = "close_notify"
       /\ "received" \in shutdown'[s] /\ received'[s] = received[s]
       /\ phase'[s] \in {"handshake", "open"} => Len(x) = 1

\* What s sends: nothing, a record, or the end.
Sent(s, y) ==
    \/ /\ y = <<>> /\ sslWritten'[s] = sslWritten[s]
       /\ "sent" \in shutdown'[s] <=> "sent" \in shutdown[s]
    \/ /\ y = <<"record">> /\ sslWritten'[s] = sslWritten[s] + 1
       /\ "sent" \notin shutdown'[s] /\ "sent" \notin shutdown[s]
    \/ /\ y = <<"close_notify">> /\ sslWritten'[s] = sslWritten[s]
       /\ "sent" \in shutdown'[s] /\ "sent" \notin shutdown[s]

\* A step of a side that is through with the handshake.
LEMMA OpenStep ==
    ASSUME SSLInv, Flights \in Nat, NEW s \in SSL!Sides, NEW x \in Seq(Items), NEW y \in Seq(Items),
           Takes(s, x), Sends(s, y), Took(s, x), Sent(s, y), UNCHANGED flights,
           phase[s] # "handshake", phase'[s] # "handshake",
           phase'[s] = "open" => phase[s] = "open",
           "sent" \in shutdown'[s] <=> phase'[s] \in {"closing", "closed"},
           phase' \in [SSL!Sides -> {"handshake", "open", "closing", "closed"}],
           sslWritten' \in [SSL!Sides -> Nat], received' \in [SSL!Sides -> Nat],
           shutdown' \in [SSL!Sides -> SUBSET {"sent", "received"}], blocked' \in [SSL!Sides -> BOOLEAN],
           phase'[Peer(s)] = phase[Peer(s)], sslWritten'[Peer(s)] = sslWritten[Peer(s)],
           received'[Peer(s)] = received[Peer(s)], shutdown'[Peer(s)] = shutdown[Peer(s)],
           blocked'[Peer(s)] = blocked[Peer(s)]
    PROVE  SSLInv'
<1>1. PICK o \in SSL!Sides : o = Peer(s) /\ s = Peer(o) /\ s # o /\ \A z \in SSL!Sides : z = s \/ z = o
  BY TwoSides
<1>2. SSLType'
  <2>1. flights' \in [SSL!Sides -> Nat]
    BY DEF SSLInv, SSLType
  <2> QED BY <2>1 DEF SSLType, Takes, Sends
<1>3. /\ ToCome(s)' \in Seq(Items) /\ ToCome(s) = x \o ToCome(s)' /\ ToCome(o)' = ToCome(o) \o y
      /\ ToCome(o) \in Seq(Items)
  BY <1>1, TakesAndSends DEF SSLInv
<1>4. sslWritten'[s] \in Nat /\ received'[s] \in Nat
  OBVIOUS
<1>5. InOrder(o)'
  BY <1>1, <1>3, <1>4, PeerInOrder DEF Sent
<1>6. /\ InOrder(s)'
      /\ "received" \in shutdown[s] => ToCome(s)' = <<>>
      /\ (\E i \in 1..Len(x) : x[i] = "close_notify") => "sent" \in shutdown[o] /\ ToCome(s)' = <<>>
  BY <1>1, <1>3, <1>4, OwnInOrder DEF Took
<1>7. Stage(s) /\ Stage(o)
  BY DEF SSLInv
<1>8. KeepsNothing(s)' /\ KeepsNothing(o)'
  <2>1. KeepsNothing(o)
    BY <1>7 DEF Stage
  <2> QED BY <1>1, <2>1 DEF Sends, KeepsNothing
<1>9. Stage(s)'
  <2>1. "received" \in shutdown'[s] => "sent" \in shutdown'[o] /\ ToCome(s)' = <<>>
    <3>1. "received" \in shutdown[s] => "sent" \in shutdown[o]
      BY <1>1, <1>7 DEF Stage
    <3> QED BY <1>1, <1>6, <3>1 DEF Took
  <2>2. flights'[s] = Flights
    BY <1>7 DEF Stage
  <2>3. /\ flights'[o] <= flights'[s] + 1
        /\ Flies(s)' => SSL!Mine(o, flights'[o])
        /\ flights'[s] = flights'[o] => flights'[s] = 0 \/ flights'[s] = Flights
    BY <1>1, <1>7 DEF Stage, Flies
  <2> QED BY <1>1, <1>8, <2>1, <2>2, <2>3 DEF Stage
<1>10. Stage(o)'
  <2>1. "received" \in shutdown'[o] => "sent" \in shutdown'[s] /\ ToCome(o)' = <<>>
    <3>1. ASSUME "received" \in shutdown'[o] PROVE "sent" \in shutdown'[s] /\ ToCome(o)' = <<>>
      <4>1. "sent" \in shutdown[s] /\ ToCome(o) = <<>>
        BY <1>1, <1>7, <3>1 DEF Stage
      <4>2. y = <<>> /\ "sent" \in shutdown'[s]
        BY <4>1 DEF Sent
      <4>3. ToCome(o)' = <<>>
        BY <1>3, <4>1, <4>2
      <4> QED BY <4>2, <4>3
    <3> QED BY <3>1
  <2>2. /\ phase'[o] = "handshake" => /\ flights'[o] < Flights
                                      /\ sslWritten'[o] = 0 /\ received'[o] = 0 /\ shutdown'[o] = {}
                                      /\ Len(m_readBio'[o]) <= 1
                                      /\ blocked'[o] => m_readBio'[o] = <<>>
        /\ phase'[o] # "handshake" => flights'[o] = Flights
        /\ "sent" \in shutdown'[o] <=> phase'[o] \in {"closing", "closed"}
    BY <1>1, <1>7 DEF Stage, Takes
  <2>3. /\ flights'[s] <= flights'[o] + 1
        /\ Flies(o)' => SSL!Mine(s, flights'[s])
        /\ flights'[o] = flights'[s] => flights'[o] = 0 \/ flights'[o] = Flights
    BY <1>1, <1>7 DEF Stage, Flies
  <2> QED BY <1>1, <1>8, <2>1, <2>2, <2>3 DEF Stage
<1> QED BY <1>1, <1>2, <1>5, <1>6, <1>9, <1>10 DEF SSLInv

LEMMA ArrivesStep == ASSUME SSLInv, NEW s \in SSL!Sides, SSL!Arrives(s) PROVE SSLInv'
<1>1. PICK o \in SSL!Sides : o = Peer(s) /\ s = Peer(o) /\ s # o /\ \A z \in SSL!Sides : z = s \/ z = o
  BY TwoSides
<1>2. PICK w \in Seq(Items), r \in Seq(Items) : w = sslWire[s] /\ r = m_readBio[s]
  BY DEF SSLInv, SSLType
<1>3. /\ blocked[s] /\ w # <<>>
      /\ m_readBio' = [m_readBio EXCEPT ![s] = r \o <<Head(w)>>]
      /\ sslWire' = [sslWire EXCEPT ![s] = Tail(w)]
      /\ blocked' = [blocked EXCEPT ![s] = FALSE]
      /\ UNCHANGED <<phase, flights, sslWritten, received, m_writeBio, m_writeBuffer, parentBuffer, shutdown>>
  BY <1>2 DEF SSL!Arrives
<1>4. PICK h \in Seq(Items), t \in Seq(Items) : h = <<Head(w)>> /\ t = Tail(w) /\ h \o t = w /\ Len(h) = 1
  <2>1. <<Head(w)>> \in Seq(Items) /\ Tail(w) \in Seq(Items) /\ Len(<<Head(w)>>) = 1
    BY ONLY <1>3, w \in Seq(Items)
  <2>2. <<Head(w)>> \o Tail(w) = w
    BY ONLY <1>3, w \in Seq(Items)
  <2> QED BY ONLY <2>1, <2>2, Zenon
<1>5. r \o h \in Seq(Items)
  BY ONLY r \in Seq(Items), h \in Seq(Items)
<1>6. PICK g \in Seq(Items) : g = r \o h
  BY ONLY <1>5
<1>7. /\ m_readBio' \in [SSL!Sides -> Seq(Items)] /\ m_readBio'[s] = g /\ m_readBio'[o] = m_readBio[o]
      /\ sslWire' \in [SSL!Sides -> Seq(Items)] /\ sslWire'[s] = t /\ sslWire'[o] = sslWire[o]
  <2>1. m_readBio' = [m_readBio EXCEPT ![s] = g] /\ sslWire' = [sslWire EXCEPT ![s] = t]
    BY <1>3, <1>4, <1>6
  <2> QED BY <1>1, <2>1 DEF SSLInv, SSLType
<1>8. blocked' \in [SSL!Sides -> BOOLEAN] /\ ~blocked'[s] /\ (blocked'[o] <=> blocked[o])
  BY <1>1, <1>3, Zenon DEF SSLInv, SSLType
<1>9. SSLType'
  BY <1>3, <1>7, <1>8 DEF SSLInv, SSLType
<1>10. ToCome(o)' = ToCome(o)
  BY <1>1, <1>3, <1>7 DEF ToCome, Leaving
<1>11. ToCome(s)' = ToCome(s)
  <2>1. PICK v \in Seq(Items) : v = Leaving(o)
    <3>1. Leaving(o) \in Seq(Items)
      BY DEF SSLInv, SSLType, Leaving
    <3> QED BY ONLY <3>1
  <2>2. Leaving(o)' = v
    BY <1>3, <2>1 DEF Leaving
  <2>3. r \o ((h \o t) \o v) = (r \o h) \o (t \o v)
    <3>1. PICK k \in Seq(Items) : k = t \o v
      BY ONLY t \in Seq(Items), v \in Seq(Items), Regrouped
    <3>2. (h \o t) \o v = h \o (t \o v)
      BY ONLY t \in Seq(Items), v \in Seq(Items), h \in Seq(Items)
    <3>3. r \o (h \o k) = (r \o h) \o k
      BY ONLY r \in Seq(Items), k \in Seq(Items), h \in Seq(Items)
    <3> QED BY ONLY <3>1, <3>2, <3>3
  <2>4. ToCome(s) = r \o (w \o v) /\ ToCome(s)' = g \o (t \o v)
    BY <1>1, <1>2, <1>7, <2>1, <2>2 DEF ToCome
  <2> QED BY ONLY <1>4, <1>6, <2>3, <2>4
<1>12. ASSUME NEW z \in SSL!Sides PROVE InOrder(z)' /\ Stage(z)'
  <2>1. /\ ToCome(z)' = ToCome(z) /\ (Flies(z)' <=> Flies(z)) /\ (Closes(z)' <=> Closes(z))
        /\ InOrder(z) /\ Stage(z)
    BY <1>1, <1>3, <1>10, <1>11 DEF Flies, Closes, SSLInv
  <2>2. InOrder(z)'
    BY <1>3, <2>1 DEF InOrder
  <2>3. phase[z] = "handshake" => Len(m_readBio'[z]) <= 1 /\ (blocked'[z] => m_readBio'[z] = <<>>)
    <3>1. CASE z = s
      <4>1. phase[s] = "handshake" => r = <<>>
        BY <1>2, <1>3, <2>1, <3>1 DEF Stage
      <4>2. phase[s] = "handshake" => Len(g) = 1
        <5>1. Len(r \o h) = Len(r) + Len(h)
          BY ONLY r \in Seq(Items), h \in Seq(Items)
        <5>2. r = <<>> => Len(r) = 0
          OBVIOUS
        <5>3. Len(h) = 1
          BY ONLY <1>4
        <5>4. g = r \o h
          BY ONLY <1>6
        <5> QED BY ONLY <4>1, <5>1, <5>2, <5>3, <5>4
      <4>3. phase[s] = "handshake" => Len(m_readBio'[s]) <= 1
        <5>1. m_readBio'[s] = g
          BY ONLY <1>7
        <5>2. PICK n : n = Len(g)
          OBVIOUS
        <5>3. phase[s] = "handshake" => n <= 1
          BY ONLY <4>2, <5>2
        <5> QED BY ONLY <5>1, <5>2, <5>3, Zenon
      <4> QED BY <1>8, <3>1, <4>3, Zenon
    <3>2. CASE z = o
      BY <1>7, <1>8, <2>1, <3>2 DEF Stage
    <3> QED BY <1>1, <3>1, <3>2
  <2>4. Stage(z)'
    BY <1>3, <2>1, <2>3 DEF Stage, KeepsNothing
  <2> QED BY <2>2, <2>4
<1> QED BY <1>9, <1>12 DEF SSLInv

LEMMA WriteStep == ASSUME SSLInv, Flights \in Nat, NEW s \in SSL!Sides, SSL!write(s) \/ SSL!flush(s) PROVE SSLInv'
<1>1. Peer(s) \in SSL!Sides /\ Peer(s) # s /\ SSLType /\ Stage(s)
  BY TwoSides DEF SSLInv
<1>2. /\ phase[s] = "open"
      /\ UNCHANGED <<phase, flights, received, m_readBio, shutdown, blocked>>
  BY DEF SSL!write, SSL!flush
<1>3. PICK x \in Seq(Items) : x = <<>>
  <2>1. <<>> \in Seq(Items)
    OBVIOUS
  <2> QED BY ONLY <2>1
<1>4. Takes(s, x)
  <2>1. x \o m_readBio[s] = m_readBio[s]
    BY <1>1, <1>3 DEF SSLType
  <2> QED BY <1>1, <1>2, <2>1 DEF Takes, SSLType
<1>5. Took(s, x)
  <2>1. Len(x) = 0 /\ received[s] \in Nat /\ received[s] + 0 = received[s]
    BY <1>1, <1>3 DEF SSLType
  <2> QED BY <1>2, <2>1 DEF Took
<1>6. "sent" \notin shutdown[s]
  BY <1>1, <1>2 DEF Stage
<1>7. PICK y \in Seq(Items) : Sends(s, y) /\ Sent(s, y) /\ sslWritten' \in [SSL!Sides -> Nat]
                              /\ sslWritten'[Peer(s)] = sslWritten[Peer(s)]
  <2>1. CASE SSL!write(s)
    <3>1. <<"record">> \in Seq(Items) /\ Sends(s, <<"record">>)
      BY <1>1, <2>1, OthersSend DEF Stage, Items
    <3>2. sslWritten' = [sslWritten EXCEPT ![s] = @ + 1]
      BY <2>1 DEF SSL!write
    <3>3. /\ sslWritten' \in [SSL!Sides -> Nat] /\ sslWritten'[Peer(s)] = sslWritten[Peer(s)]
          /\ sslWritten'[s] = sslWritten[s] + 1
      BY <1>1, <3>2, SMTT(30) DEF SSLType
    <3>4. Sent(s, <<"record">>)
      BY <1>2, <1>6, <3>3 DEF Sent
    <3> QED BY <3>1, <3>3, <3>4
  <2>2. CASE SSL!flush(s)
    <3>3. \E toParent : SSL!Flushed(s, m_writeBio[s], toParent)
      BY <2>2, Zenon DEF SSL!flush
    <3>1. <<>> \in Seq(Items) /\ Sends(s, <<>>)
      BY <1>1, <3>3, OthersSend DEF Stage
    <3>2. UNCHANGED sslWritten
      BY <2>2 DEF SSL!flush
    <3> QED BY <1>1, <1>2, <3>1, <3>2 DEF Sent, SSLType
  <2> QED BY <2>1, <2>2
<1>8. phase'[s] = "open" /\ "sent" \notin shutdown'[s]
  BY <1>2, <1>6
<1>9. /\ phase' \in [SSL!Sides -> {"handshake", "open", "closing", "closed"}]
      /\ received' \in [SSL!Sides -> Nat] /\ blocked' \in [SSL!Sides -> BOOLEAN]
      /\ shutdown' \in [SSL!Sides -> SUBSET {"sent", "received"}]
  BY <1>1, <1>2 DEF SSLType
<1> QED BY <1>2, <1>4, <1>5, <1>7, <1>8, <1>9, OpenStep

LEMMA ReadStep == ASSUME SSLInv, Flights \in Nat, NEW s \in SSL!Sides, SSL!read(s) PROVE SSLInv'
<1>1. Peer(s) \in SSL!Sides /\ Peer(s) # s /\ SSLType /\ Stage(s)
  BY TwoSides DEF SSLInv
<1>2. /\ phase[s] = "open" /\ "received" \notin shutdown[s]
      /\ UNCHANGED <<phase, flights, sslWritten, m_writeBio, m_writeBuffer, parentBuffer, sslWire>>
  BY DEF SSL!read
<1>3. <<>> \in Seq(Items) /\ Sends(s, <<>>)
  BY <1>1, <1>2, OthersSend DEF Stage
<1>4. PICK r \in Seq(Items) : r = m_readBio[s]
  BY <1>1 DEF SSLType
<1>5. "sent" \notin shutdown[s]
  BY <1>1, <1>2 DEF Stage
<1>6. \E x \in Seq(Items) :
        /\ Takes(s, x) /\ Took(s, x) /\ ("sent" \in shutdown'[s] <=> "sent" \in shutdown[s])
        /\ received' \in [SSL!Sides -> Nat] /\ received'[Peer(s)] = received[Peer(s)]
        /\ shutdown' \in [SSL!Sides -> SUBSET {"sent", "received"}]
        /\ shutdown'[Peer(s)] = shutdown[Peer(s)]
        /\ blocked' \in [SSL!Sides -> BOOLEAN] /\ blocked'[Peer(s)] = blocked[Peer(s)]
  <2>1. CASE r = <<>>
    <3>1. UNCHANGED <<received, shutdown, m_readBio>> /\ blocked' = [blocked EXCEPT ![s] = TRUE]
      BY <1>4, <2>1 DEF SSL!read
    <3>2. blocked' \in [SSL!Sides -> BOOLEAN] /\ blocked'[Peer(s)] = blocked[Peer(s)]
      BY <1>1, <3>1, Zenon DEF SSLType
    <3>3. Takes(s, <<>>)
      <4>1. <<>> \o m_readBio[s] = m_readBio[s]
        BY <1>1 DEF SSLType
      <4> QED BY <1>1, <3>1, <4>1 DEF Takes, SSLType
    <3>4. Took(s, <<>>)
      <4>1. Len(<<>>) = 0 /\ received[s] \in Nat /\ received[s] + 0 = received[s]
        BY <1>1 DEF SSLType
      <4> QED BY <3>1, <4>1 DEF Took
    <3> QED BY <1>1, <1>3, <3>1, <3>2, <3>3, <3>4 DEF SSLType
  <2>2. CASE r # <<>>
    <3>1. PICK x \in Seq(Items), t \in Seq(Items) :
             x = <<Head(r)>> /\ t = Tail(r) /\ x \o t = r /\ Len(x) = 1 /\ x[1] = Head(r)
      <4>1. <<Head(r)>> \in Seq(Items) /\ Tail(r) \in Seq(Items) /\ Len(<<Head(r)>>) = 1
        BY ONLY <2>2, r \in Seq(Items)
      <4>2. <<Head(r)>> \o Tail(r) = r
        BY ONLY <2>2, r \in Seq(Items)
      <4> QED BY ONLY <4>1, <4>2, Zenon
    <3>2. /\ m_readBio' = [m_readBio EXCEPT ![s] = t] /\ UNCHANGED blocked
          /\ x[1] = "record" => received' = [received EXCEPT ![s] = @ + 1] /\ UNCHANGED shutdown
          /\ x[1] # "record" => /\ shutdown' = [shutdown EXCEPT ![s] = @ \cup {"received"}]
                                /\ UNCHANGED received
      BY <1>4, <2>2, <3>1 DEF SSL!read
    <3>3. Takes(s, x)
      BY <1>1, <1>4, <3>1, <3>2 DEF Takes, SSLType
    <3>4. x[1] = "record" \/ x[1] = "close_notify"
      <4>1. ToCome(s) = x \o ToCome(s)' /\ ToCome(s)' \in Seq(Items)
        BY <1>1, <1>3, <3>3, TakesAndSends
      <4>2. PICK a \in {0, 1}, c \in {0, 1} : (a = 1 <=> Flies(s)) /\ Form(ToCome(s), a, c)
        BY DEF SSLInv, InOrder
      <4>3. a = 0
        <5>1. PICK o \in SSL!Sides : o = Peer(s)
          BY <1>1
        <5>2. Stage(s) /\ Stage(o) /\ flights[o] \in Nat /\ flights[s] \in Nat
          BY DEF SSLInv, SSLType
        <5>3. flights[s] = Flights /\ (flights[o] < Flights \/ flights[o] = Flights)
          BY <1>2, <5>2 DEF Stage
        <5>4. ~(flights[s] < flights[o])
          BY <5>2, <5>3
        <5> QED BY <4>2, <5>1, <5>4 DEF Flies
      <4>4. x[1] \in {"record", "close_notify"}
        <5>1. PICK q \in Seq(Items) : q = ToCome(s)'
          BY <4>1
        <5>2. Form(x \o q, a, c) /\ a <= Len(x)
          BY <3>1, <4>1, <4>2, <4>3, <5>1
        <5>3. \A i \in 1..Len(x) : i > a => x[i] \in {"record", "close_notify"}
          BY ONLY <5>2, x \in Seq(Items), q \in Seq(Items), a \in {0, 1}, c \in {0, 1}, FormTaken
        <5> QED BY ONLY <3>1, <4>3, <5>3
      <4> QED BY <4>4
    <3>5. received[s] \in Nat
      BY <1>1 DEF SSLType
    <3>6. CASE x[1] = "record"
      <4>1. received' \in [SSL!Sides -> Nat] /\ received'[Peer(s)] = received[Peer(s)]
            /\ received'[s] = received[s] + 1
        <5>1. received' = [received EXCEPT ![s] = received[s] + 1] /\ received \in [SSL!Sides -> Nat]
          BY <1>1, <3>2, <3>6 DEF SSLType
        <5>2. received[s] + 1 \in Nat
          BY ONLY <3>5
        <5> QED BY ONLY <1>1, <5>1, <5>2, s \in SSL!Sides
      <4>2. Took(s, x)
        BY <3>1, <3>2, <3>5, <3>6, <4>1 DEF Took
      <4> QED BY <1>1, <3>2, <3>3, <3>6, <4>1, <4>2 DEF SSLType
    <3>7. CASE x[1] = "close_notify"
      <4>1. /\ shutdown' \in [SSL!Sides -> SUBSET {"sent", "received"}]
            /\ shutdown'[Peer(s)] = shutdown[Peer(s)] /\ shutdown'[s] = shutdown[s] \cup {"received"}
        <5>1. /\ shutdown' = [shutdown EXCEPT ![s] = shutdown[s] \cup {"received"}]
              /\ shutdown \in [SSL!Sides -> SUBSET {"sent", "received"}]
          BY <1>1, <3>2, <3>7 DEF SSLType
        <5> QED BY ONLY <1>1, <5>1, s \in SSL!Sides
      <4>2. Took(s, x)
        BY <3>1, <3>2, <3>7, <4>1 DEF Took
      <4> QED BY <1>1, <3>2, <3>3, <3>7, <4>1, <4>2 DEF SSLType
    <3> QED BY <3>4, <3>6, <3>7
  <2> QED BY <2>1, <2>2
<1>7. Sent(s, <<>>) /\ "sent" \notin shutdown'[s]
  BY <1>2, <1>5, <1>6 DEF Sent
<1>8. phase' \in [SSL!Sides -> {"handshake", "open", "closing", "closed"}] /\ sslWritten' \in [SSL!Sides -> Nat]
  BY <1>1, <1>2 DEF SSLType
<1> QED BY <1>2, <1>3, <1>6, <1>7, <1>8, OpenStep

LEMMA CloseCallStep == ASSUME SSLInv, Flights \in Nat, NEW s \in SSL!Sides, SSL!close(s) PROVE SSLInv'
<1>1. Peer(s) \in SSL!Sides /\ Peer(s) # s /\ SSLType /\ Stage(s)
  BY TwoSides DEF SSLInv
<1>2. /\ phase[s] = "open" /\ phase' = [phase EXCEPT ![s] = "closing"]
      /\ shutdown' = [shutdown EXCEPT ![s] = shutdown[s] \cup {"sent"}]
      /\ SSL!Flushed(s, m_writeBio[s] \o <<"close_notify">>, FALSE)
      /\ UNCHANGED <<flights, sslWritten, received, m_readBio, blocked>>
  BY DEF SSL!close
<1>3. <<>> \in Seq(Items) /\ <<"close_notify">> \in Seq(Items)
  BY DEF Items
<1>4. Takes(s, <<>>)
  <2>1. <<>> \o m_readBio[s] = m_readBio[s]
    BY <1>1 DEF SSLType
  <2> QED BY <1>1, <1>2, <2>1 DEF Takes, SSLType
<1>5. Sends(s, <<"close_notify">>)
  BY <1>1, <1>2, <1>3, FlushedSends
<1>6. /\ phase' \in [SSL!Sides -> {"handshake", "open", "closing", "closed"}]
      /\ phase'[s] = "closing" /\ phase'[Peer(s)] = phase[Peer(s)]
  <2>1. phase \in [SSL!Sides -> {"handshake", "open", "closing", "closed"}]
    BY <1>1 DEF SSLType
  <2> QED BY ONLY <1>1, <1>2, <2>1, s \in SSL!Sides
<1>7. /\ shutdown' \in [SSL!Sides -> SUBSET {"sent", "received"}]
      /\ shutdown'[s] = shutdown[s] \cup {"sent"} /\ shutdown'[Peer(s)] = shutdown[Peer(s)]
  <2>1. shutdown \in [SSL!Sides -> SUBSET {"sent", "received"}]
    BY <1>1 DEF SSLType
  <2> QED BY ONLY <1>1, <1>2, <2>1, s \in SSL!Sides
<1>8. "sent" \notin shutdown[s]
  BY <1>1, <1>2 DEF Stage
<1>9. Sent(s, <<"close_notify">>)
  BY <1>2, <1>7, <1>8 DEF Sent
<1>10. Took(s, <<>>)
  <2>1. Len(<<>>) = 0 /\ received[s] \in Nat /\ received[s] + 0 = received[s]
    BY <1>1 DEF SSLType
  <2>2. "received" \in shutdown'[s] <=> "received" \in shutdown[s]
    BY <1>7
  <2> QED BY <1>2, <2>1, <2>2 DEF Took
<1>11. /\ sslWritten' \in [SSL!Sides -> Nat] /\ received' \in [SSL!Sides -> Nat]
       /\ blocked' \in [SSL!Sides -> BOOLEAN]
  BY <1>1, <1>2 DEF SSLType
<1>12. "sent" \in shutdown'[s]
  BY <1>7
<1> QED BY <1>2, <1>3, <1>4, <1>5, <1>6, <1>7, <1>9, <1>10, <1>11, <1>12, OpenStep

LEMMA ClosingStep == ASSUME SSLInv, Flights \in Nat, NEW s \in SSL!Sides, SSL!Closing(s) PROVE SSLInv'
<1>1. Peer(s) \in SSL!Sides /\ Peer(s) # s /\ SSLType /\ Stage(s)
  BY TwoSides DEF SSLInv
<1>2. /\ phase[s] = "closing" /\ m_readBio' = [m_readBio EXCEPT ![s] = <<>>]
      /\ UNCHANGED <<flights, sslWritten, received>>
  BY DEF SSL!Closing
<1>3. PICK x \in Seq(Items) : x = m_readBio[s]
  BY <1>1 DEF SSLType
<1>4. <<>> \in Seq(Items) /\ x \o <<>> = x /\ Len(x) \in Nat
  BY ONLY x \in Seq(Items)
<1>5. Takes(s, x)
  <2>1. m_readBio \in [SSL!Sides -> Seq(Items)]
    BY <1>1 DEF SSLType
  <2>2. /\ m_readBio' \in [SSL!Sides -> Seq(Items)] /\ m_readBio'[s] = <<>>
        /\ m_readBio'[Peer(s)] = m_readBio[Peer(s)]
    BY ONLY <1>1, <1>2, <1>4, <2>1, s \in SSL!Sides
  <2> QED BY <1>3, <1>4, <2>2 DEF Takes
<1>6. received[s] \in Nat /\ received[s] <= received[s] + Len(x)
  <2>1. received[s] \in Nat
    BY <1>1 DEF SSLType
  <2> QED BY ONLY <1>4, <2>1
<1>7. "sent" \in shutdown[s]
  BY <1>1, <1>2 DEF Stage
<1>8. sslWritten' \in [SSL!Sides -> Nat] /\ received' \in [SSL!Sides -> Nat]
  BY <1>1, <1>2 DEF SSLType
<1>9. CASE "received" \in shutdown[s] \/ "close_notify" \in {x[i] : i \in 1..Len(x)}
  <2>1. /\ phase' = [phase EXCEPT ![s] = "closed"]
        /\ shutdown' = [shutdown EXCEPT ![s] = shutdown[s] \cup {"received"}]
        /\ ParentFlushes(s) /\ UNCHANGED blocked
    BY <1>3, <1>9 DEF SSL!Closing, ParentFlushes
  <2>2. Sends(s, <<>>)
    BY <1>1, <2>1, OthersSend DEF Stage
  <2>3. /\ phase' \in [SSL!Sides -> {"handshake", "open", "closing", "closed"}]
        /\ phase'[s] = "closed" /\ phase'[Peer(s)] = phase[Peer(s)]
    <3>1. phase \in [SSL!Sides -> {"handshake", "open", "closing", "closed"}]
      BY <1>1 DEF SSLType
    <3> QED BY ONLY <1>1, <2>1, <3>1, s \in SSL!Sides
  <2>4. /\ shutdown' \in [SSL!Sides -> SUBSET {"sent", "received"}]
        /\ shutdown'[s] = shutdown[s] \cup {"received"} /\ shutdown'[Peer(s)] = shutdown[Peer(s)]
    <3>1. shutdown \in [SSL!Sides -> SUBSET {"sent", "received"}]
      BY <1>1 DEF SSLType
    <3> QED BY ONLY <1>1, <2>1, <3>1, s \in SSL!Sides
  <2>5. Sent(s, <<>>)
    BY <1>2, <2>4 DEF Sent
  <2>6. Took(s, x)
    <3>1. CASE \E i \in 1..Len(x) : x[i] = "close_notify"
      BY <1>2, <2>3, <2>4, <3>1 DEF Took
    <3>2. CASE \A i \in 1..Len(x) : x[i] # "close_notify"
      <4>1. "received" \in shutdown[s] /\ "received" \in shutdown'[s]
        BY <1>9, <2>4, <3>2
      <4> QED BY <1>2, <1>6, <2>3, <3>2, <4>1 DEF Took
    <3> QED BY <3>1, <3>2
  <2>7. "sent" \in shutdown'[s] /\ blocked' \in [SSL!Sides -> BOOLEAN]
    BY <1>1, <1>7, <2>1, <2>4 DEF SSLType
  <2> QED BY <1>2, <1>4, <1>5, <1>8, <2>1, <2>2, <2>3, <2>4, <2>5, <2>6, <2>7, OpenStep
<1>10. CASE ~("received" \in shutdown[s] \/ "close_notify" \in {x[i] : i \in 1..Len(x)})
  <2>1. SSL!WantRead(s, m_writeBio[s]) /\ UNCHANGED <<phase, shutdown>>
    BY <1>3, <1>10 DEF SSL!Closing
  <2>2. \E toParent : SSL!Flushed(s, m_writeBio[s], toParent)
    BY <2>1, Zenon DEF SSL!WantRead
  <2>3. Sends(s, <<>>)
    BY <1>1, <2>2, OthersSend DEF Stage
  <2>4. blocked' \in [SSL!Sides -> BOOLEAN] /\ blocked'[Peer(s)] = blocked[Peer(s)]
    <3>1. blocked \in [SSL!Sides -> BOOLEAN] /\ blocked' = [blocked EXCEPT ![s] = TRUE]
      BY <1>1, <2>1 DEF SSL!WantRead, SSLType
    <3> QED BY <1>1, <3>1, Zenon
  <2>5. Sent(s, <<>>)
    BY <1>2, <2>1 DEF Sent
  <2>6. Took(s, x)
    <3>1. \A i \in 1..Len(x) : x[i] # "close_notify"
      BY <1>10
    <3> QED BY <1>2, <1>6, <2>1, <3>1 DEF Took
  <2>7. /\ phase' \in [SSL!Sides -> {"handshake", "open", "closing", "closed"}]
        /\ shutdown' \in [SSL!Sides -> SUBSET {"sent", "received"}]
    BY <1>1, <2>1 DEF SSLType
  <2> QED BY <1>2, <1>4, <1>5, <1>7, <1>8, <2>1, <2>3, <2>4, <2>5, <2>6, <2>7, OpenStep
<1> QED BY <1>9, <1>10

\* Where a side is in the handshake that has sent no more flights than its peer.
LEMMA BeforeAnswer ==
    ASSUME SSLInv, Flights \in Nat \ {0}, NEW s \in SSL!Sides, NEW o \in SSL!Sides, o = Peer(s),
           phase[s] = "handshake"
    PROVE  /\ flights[s] <= flights[o] => ToCome(o) = <<>> /\ received[o] = 0
           /\ "received" \notin shutdown[o]
           /\ flights[o] < Flights => /\ sslWritten[o] = 0 /\ shutdown[o] = {}
                                      /\ Flies(s) => Len(ToCome(s)) = 1
                                      /\ ~Flies(s) => ToCome(s) = <<>>
           /\ m_readBio[s] # <<>> => Flies(s)
<1>1. s = Peer(o) /\ SSLType /\ Stage(s) /\ Stage(o) /\ InOrder(s) /\ InOrder(o)
  BY TwoSides DEF SSLInv
<1>2. flights[s] \in Nat /\ flights[o] \in Nat /\ received[o] \in Nat /\ received[s] \in Nat
  BY <1>1 DEF SSLType
<1>3. flights[s] < Flights /\ sslWritten[s] = 0 /\ received[s] = 0 /\ shutdown[s] = {}
  BY <1>1 DEF Stage
<1>4. "received" \notin shutdown[o]
  BY <1>1, <1>3 DEF Stage
<1>5. ASSUME flights[s] <= flights[o] PROVE ToCome(o) = <<>> /\ received[o] = 0
  <2>1. ~Flies(o) /\ ~Closes(o)
    BY <1>1, <1>2, <1>3, <1>5 DEF Flies, Closes
  <2>2. PICK p : p = ToCome(o)
    OBVIOUS
  <2>6. PICK a \in {0, 1}, c \in {0, 1} :
          /\ a = 1 <=> Flies(o)
          /\ c = 1 <=> Closes(o)
          /\ Form(p, a, c) /\ received[o] + Len(p) <= sslWritten[s] + a + c
    BY <1>1, <2>2 DEF InOrder
  <2>7. a = 0 /\ c = 0
    BY <2>1, <2>6
  <2>3. Form(p, 0, 0) /\ received[o] + Len(p) <= 0
    BY <1>3, <2>6, <2>7
  <2>4. Len(p) \in Nat
    BY <2>3 DEF Form
  <2>5. Len(p) = 0 /\ received[o] = 0
    BY ONLY <1>2, <2>3, <2>4
  <2> QED BY <2>2, <2>3, <2>5, FormNone
<1>6. ASSUME flights[o] < Flights
      PROVE  /\ sslWritten[o] = 0 /\ shutdown[o] = {}
             /\ Flies(s) => Len(ToCome(s)) = 1
             /\ ~Flies(s) => ToCome(s) = <<>>
  <2>1. phase[o] = "handshake"
    BY <1>1, <1>2, <1>6 DEF Stage
  <2>2. sslWritten[o] = 0 /\ shutdown[o] = {}
    BY <1>1, <2>1 DEF Stage
  <2>3. PICK p : p = ToCome(s)
    OBVIOUS
  <2>4. PICK a \in {0, 1} : (a = 1 <=> Flies(s)) /\ Form(p, a, 0) /\ received[s] + Len(p) = 0 + a + 0
    BY <1>1, <2>2, <2>3 DEF InOrder, Closes
  <2>5. Len(p) \in Nat
    BY <2>4 DEF Form
  <2>6. Len(p) = a
    BY ONLY <1>3, <2>4, <2>5
  <2>7. ~Flies(s) => p = <<>>
    BY <2>4, <2>6, FormNone
  <2> QED BY <2>2, <2>3, <2>4, <2>6, <2>7
<1>7. ASSUME m_readBio[s] # <<>>, ~Flies(s) PROVE FALSE
  <2>1. flights[o] < Flights
    BY <1>2, <1>3, <1>7 DEF Flies
  <2>2. ToCome(s) = <<>>
    BY <1>6, <1>7, <2>1
  <2>3. PICK r \in Seq(Items), v \in Seq(Items) : r = m_readBio[s] /\ r \o v = <<>>
    <3>1. m_readBio[s] \in Seq(Items) /\ sslWire[s] \in Seq(Items) /\ Leaving(o) \in Seq(Items)
      BY <1>1 DEF SSLType, Leaving
    <3>2. sslWire[s] \o Leaving(o) \in Seq(Items)
      BY ONLY <3>1
    <3> QED BY <2>2, <3>1, <3>2 DEF ToCome
  <2>4. r = <<>>
    BY ONLY <2>3, r \in Seq(Items), v \in Seq(Items)
  <2> QED BY <1>7, <2>3, <2>4
<1> QED BY <1>4, <1>5, <1>6, <1>7

\* A step of the handshake: x is taken in and y is said, and the flights of s are now k.
LEMMA AnswerStep ==
    ASSUME SSLInv, Flights \in Nat \ {0}, NEW s \in SSL!Sides, NEW o \in SSL!Sides, o = Peer(s),
           NEW x \in Seq(Items), NEW y \in Seq(Items), NEW k \in Nat,
           Takes(s, x), Sends(s, y), m_readBio'[s] = <<>>,
           phase[s] = "handshake",
           flights' \in [SSL!Sides -> Nat], flights'[s] = k, flights'[o] = flights[o],
           phase' \in [SSL!Sides -> {"handshake", "open", "closing", "closed"}], phase'[o] = phase[o],
           k = Flights => phase'[s] = "open",
           k < Flights => phase'[s] = "handshake",
           blocked' \in [SSL!Sides -> BOOLEAN], blocked'[o] = blocked[o],
           UNCHANGED <<sslWritten, received, shutdown>>,
           \/ /\ y = <<"flight">> /\ k = flights[o] + 1 /\ flights[o] < Flights /\ SSL!Mine(s, k)
              /\ ToCome(s)' = <<>> /\ flights[s] <= flights[o]
           \/ /\ y = <<>> /\ k = Flights /\ flights[o] = Flights /\ Len(x) = 1 /\ Flies(s)
    PROVE  SSLInv'
<1>1. s = Peer(o) /\ s # o /\ SSLType /\ Stage(s) /\ Stage(o) /\ InOrder(s) /\ InOrder(o)
      /\ \A z \in SSL!Sides : z = s \/ z = o
  BY TwoSides DEF SSLInv
<1>2. SSLType'
  <2>1. /\ sslWritten' \in [SSL!Sides -> Nat] /\ received' \in [SSL!Sides -> Nat]
        /\ shutdown' \in [SSL!Sides -> SUBSET {"sent", "received"}]
    BY <1>1 DEF SSLType
  <2> QED BY <2>1 DEF SSLType, Takes, Sends
<1>3. flights[s] \in Nat /\ flights[o] \in Nat /\ sslWritten[o] \in Nat /\ received[s] \in Nat
  BY <1>1 DEF SSLType
<1>4. /\ flights[s] < Flights /\ sslWritten[s] = 0 /\ received[s] = 0 /\ shutdown[s] = {}
      /\ flights[s] <= flights[o] /\ "received" \notin shutdown[o]
  BY <1>1, <1>3, BeforeAnswer DEF Stage, Flies
<1>5. ToCome(o) = <<>> /\ received[o] = 0
  BY <1>4, BeforeAnswer
<1>6. /\ ToCome(s)' \in Seq(Items) /\ ToCome(s) = x \o ToCome(s)' /\ ToCome(o)' = ToCome(o) \o y
  BY <1>1, TakesAndSends
<1>7. KeepsNothing(s)' /\ KeepsNothing(o)'
  <2>1. KeepsNothing(o)
    BY <1>1 DEF Stage
  <2> QED BY <2>1 DEF Sends, KeepsNothing
<1>8. ~Closes(o)' /\ (Closes(s)' <=> Closes(s))
  BY <1>1, <1>4 DEF Closes
<1>9. /\ sslWritten'[s] = 0 /\ received'[s] = 0 /\ shutdown'[s] = {} /\ received'[o] = 0
      /\ sslWritten'[o] = sslWritten[o] /\ shutdown'[o] = shutdown[o]
  BY <1>4, <1>5
<1>10. CASE /\ y = <<"flight">> /\ k = flights[o] + 1 /\ flights[o] < Flights /\ SSL!Mine(s, k)
            /\ ToCome(s)' = <<>> /\ flights[s] <= flights[o]
  <2>1. Flies(o)' /\ ~Flies(s)'
    BY <1>1, <1>3, <1>10 DEF Flies
  <2>2. sslWritten[o] = 0 /\ shutdown[o] = {} /\ ~Closes(s)'
    BY <1>8, <1>10, BeforeAnswer DEF Closes
  <2>3. Form(ToCome(o)', 1, 0) /\ Len(ToCome(o)') = 1
    <3>1. PICK p : p = ToCome(o)
      OBVIOUS
    <3>2. Form(p \o <<"flight">>, 1, 0) /\ Len(p \o <<"flight">>) = 1
      BY ONLY <1>5, <3>1, FormFlight
    <3> QED BY <1>6, <1>10, <3>1, <3>2
  <2>4. InOrder(o)'
    <3>1. received'[o] + Len(ToCome(o)') = sslWritten'[s] + 1 + 0
      BY <1>9, <2>3
    <3>2. received'[o] + Len(ToCome(o)') <= sslWritten'[s] + 1 + 0
      BY <1>9, <2>3
    <3> QED BY <1>1, <1>8, <2>1, <2>3, <3>1, <3>2 DEF InOrder
  <2>5. Form(ToCome(s)', 0, 0) /\ Len(ToCome(s)') = 0
    BY <1>10, FormEmpty
  <2>6. InOrder(s)'
    BY <1>9, <2>1, <2>2, <2>5 DEF InOrder
  <2>7. phase'[o] = "handshake"
    BY <1>1, <1>3, <1>10 DEF Stage
  <2>8. k <= Flights
    BY <1>3, <1>10
  <2>9. Stage(o)'
    <3>1. /\ flights'[o] < Flights /\ Len(m_readBio'[o]) <= 1 /\ (blocked'[o] => m_readBio'[o] = <<>>)
          /\ flights'[s] <= flights'[o] + 1 /\ flights'[o] # flights'[s]
      BY <1>1, <1>3, <1>10, <2>7 DEF Stage, Takes
    <3> QED BY <1>1, <1>7, <1>9, <1>10, <2>2, <2>7, <3>1 DEF Stage
  <2>10. Stage(s)'
    <3>1. /\ flights'[o] <= flights'[s] + 1 /\ flights'[o] # flights'[s]
          /\ flights'[s] < Flights \/ flights'[s] = Flights
      BY <1>3, <1>10, <2>8
    <3>2. Len(m_readBio'[s]) <= 1
      OBVIOUS
    <3>3. phase'[s] = "handshake" => flights'[s] < Flights
      BY <3>1
    <3>4. phase'[s] # "handshake" => flights'[s] = Flights
      BY <3>1
    <3>5. phase'[s] \notin {"closing", "closed"}
      BY <3>1
    <3> QED BY <1>7, <1>9, <2>1, <3>1, <3>2, <3>3, <3>4, <3>5 DEF Stage
  <2> QED BY <1>1, <1>2, <2>4, <2>6, <2>9, <2>10 DEF SSLInv
<1>11. CASE y = <<>> /\ k = Flights /\ flights[o] = Flights /\ Len(x) = 1 /\ Flies(s)
  <2>1. ~Flies(o)' /\ ~Flies(s)'
    BY <1>1, <1>3, <1>11 DEF Flies
  <2>2. ToCome(o)' = <<>>
    BY <1>5, <1>6, <1>11
  <2>3. InOrder(o)'
    <3>1. Form(ToCome(o)', 0, 0) /\ Len(ToCome(o)') = 0
      BY <2>2, FormEmpty
    <3> QED BY <1>1, <1>8, <1>9, <2>1, <3>1 DEF InOrder
  <2>4. PICK p \in Seq(Items), q \in Seq(Items) : p = ToCome(s) /\ q = ToCome(s)' /\ p = x \o q
    <3>1. PICK q \in Seq(Items) : q = ToCome(s)'
      BY <1>6
    <3>2. x \o q \in Seq(Items)
      BY ONLY x \in Seq(Items), q \in Seq(Items)
    <3> QED BY <1>6, <3>1, <3>2
  <2>5. PICK c \in {0, 1} : (c = 1 <=> Closes(s)) /\ Form(p, 1, c) /\ received[s] + Len(p) = sslWritten[o] + 1 + c
    BY <1>1, <1>11, <2>4 DEF InOrder
  <2>6. /\ Len(p) = Len(x) + Len(q)
        /\ \A i \in 1..Len(x) : i <= 1 => x[i] = "flight"
        /\ (\A i \in 1..Len(x) : x[i] # "close_notify") => Form(q, 0, c)
    <3>1. Form(x \o q, 1, c) /\ 1 <= Len(x)
      BY <1>11, <2>4, <2>5
    <3>2. /\ Len(x \o q) = Len(x) + Len(q)
          /\ \A i \in 1..Len(x) : i <= 1 => x[i] = "flight"
          /\ (\A i \in 1..Len(x) : x[i] # "close_notify") => Form(q, 0, c)
      BY ONLY <3>1, x \in Seq(Items), q \in Seq(Items), c \in {0, 1}, FormTaken
    <3> QED BY <2>4, <3>2
  <2>7. Form(q, 0, c) /\ Len(q) \in Nat
    <3>1. \A i \in 1..Len(x) : x[i] # "close_notify"
      BY <1>11, <2>6
    <3> QED BY <2>6, <3>1 DEF Form
  <2>8. received'[s] + Len(q) = sslWritten'[o] + 0 + c
    <3>1. Len(x) = 1
      BY <1>11
    <3> QED BY <1>3, <1>4, <1>9, <2>5, <2>6, <2>7, <3>1, SMTT(30)
  <2>9. InOrder(s)'
    <3>1. received'[s] + Len(q) <= sslWritten'[o] + 0 + c
      BY <1>3, <1>9, <2>8
    <3> QED BY <1>8, <2>1, <2>4, <2>5, <2>7, <2>8, <3>1 DEF InOrder
  <2>10. phase[o] # "handshake"
    BY <1>1, <1>3, <1>11 DEF Stage
  <2>11. flights'[s] = Flights /\ flights'[o] = Flights /\ phase'[s] = "open" /\ Flights <= Flights + 1
    BY <1>11
  <2>12. Stage(s)'
    BY <1>7, <1>9, <2>1, <2>11 DEF Stage
  <2>13. Stage(o)'
    BY <1>1, <1>4, <1>7, <1>9, <2>1, <2>10, <2>11 DEF Stage
  <2> QED BY <1>1, <1>2, <2>3, <2>9, <2>12, <2>13 DEF SSLInv
<1> QED BY <1>10, <1>11

LEMMA HandshakeStep ==
    ASSUME SSLInv, Flights \in Nat \ {0}, NEW s \in SSL!Sides, SSL!Handshake(s)
    PROVE  SSLInv'
<1>1. PICK o \in SSL!Sides : o = Peer(s) /\ s = Peer(o) /\ s # o /\ \A z \in SSL!Sides : z = s \/ z = o
  BY TwoSides
<1>2. SSLType /\ Stage(s) /\ Stage(o) /\ InOrder(s) /\ InOrder(o) /\ phase[s] = "handshake"
  BY DEF SSLInv, SSL!Handshake
<1>3. PICK r \in Seq(Items), n \in Nat, m \in Nat : r = m_readBio[s] /\ n = flights[s] /\ m = flights[o]
  BY <1>2 DEF SSLType
<1>4. n < Flights /\ Len(r) \in Nat /\ Len(r) <= 1 /\ (r # <<>> => Len(r) = 1) /\ m <= n + 1
  <2>1. n < Flights /\ Len(r) <= 1 /\ m <= n + 1
    BY <1>1, <1>2, <1>3 DEF Stage
  <2>2. PICK l \in Nat : l = Len(r) /\ (r # <<>> => l # 0)
    BY ONLY r \in Seq(Items)
  <2>3. l <= 1 /\ (r # <<>> => l = 1)
    BY <2>1, <2>2
  <2> QED BY <2>1, <2>2, <2>3
<1>5. <<>> \in Seq(Items) /\ <<"flight">> \in Seq(Items) /\ Len(<<"flight">>) = 1 /\ Len(<<>>) = 0
  BY DEF Items
<1>6. m_readBio' = [m_readBio EXCEPT ![s] = <<>>] /\ UNCHANGED <<sslWritten, received, shutdown>>
  BY DEF SSL!Handshake
<1>7. /\ m_readBio' \in [SSL!Sides -> Seq(Items)] /\ m_readBio'[s] = <<>>
      /\ m_readBio'[o] = m_readBio[o]
  <2>1. m_readBio \in [SSL!Sides -> Seq(Items)]
    BY <1>2 DEF SSLType
  <2> QED BY ONLY <1>1, <1>5, <1>6, <2>1, s \in SSL!Sides
<1>8. Takes(s, r)
  <2>1. r \o <<>> = r
    BY ONLY r \in Seq(Items)
  <2> QED BY <1>1, <1>3, <1>7, <2>1 DEF Takes
\* What a step that says y, and counts k flights, does.
<1> DEFINE Does(y, k) ==
             /\ flights' = [flights EXCEPT ![s] = k]
             /\ \/ /\ k = Flights /\ phase' = [phase EXCEPT ![s] = "open"]
                   /\ SSL!Flushed(s, m_writeBio[s] \o y, FALSE) /\ UNCHANGED blocked
                \/ /\ k # Flights /\ SSL!Flushed(s, m_writeBio[s] \o y, TRUE)
                   /\ blocked' = [blocked EXCEPT ![s] = TRUE] /\ UNCHANGED phase
<1>9. ASSUME NEW y \in Seq(Items), NEW k \in Nat, Does(y, k)
      PROVE  /\ Sends(s, y) /\ flights' \in [SSL!Sides -> Nat] /\ flights'[s] = k /\ flights'[o] = flights[o]
             /\ phase' \in [SSL!Sides -> {"handshake", "open", "closing", "closed"}] /\ phase'[o] = phase[o]
             /\ k = Flights => phase'[s] = "open"
             /\ k < Flights => phase'[s] = "handshake"
             /\ blocked' \in [SSL!Sides -> BOOLEAN] /\ blocked'[o] = blocked[o]
  <2>1. Sends(s, y)
    BY <1>2, <1>9, FlushedSends
  <2>2. flights' \in [SSL!Sides -> Nat] /\ flights'[s] = k /\ flights'[o] = flights[o]
    <3>1. flights \in [SSL!Sides -> Nat] /\ flights' = [flights EXCEPT ![s] = k]
      BY <1>2, <1>9 DEF SSLType
    <3> QED BY ONLY <1>1, <3>1, s \in SSL!Sides, k \in Nat
  <2>3. phase \in [SSL!Sides -> {"handshake", "open", "closing", "closed"}] /\ blocked \in [SSL!Sides -> BOOLEAN]
    BY <1>2 DEF SSLType
  <2>4. CASE k = Flights
    <3>1. phase' = [phase EXCEPT ![s] = "open"] /\ UNCHANGED blocked
      BY <1>9, <2>4
    <3>2. /\ phase' \in [SSL!Sides -> {"handshake", "open", "closing", "closed"}] /\ phase'[o] = phase[o]
          /\ phase'[s] = "open"
      BY ONLY <1>1, <2>3, <3>1, s \in SSL!Sides
    <3> QED BY <2>1, <2>2, <2>3, <2>4, <3>1, <3>2
  <2>5. CASE k # Flights
    <3>1. UNCHANGED phase /\ blocked' = [blocked EXCEPT ![s] = TRUE]
      BY <1>9, <2>5
    <3>2. blocked' \in [SSL!Sides -> BOOLEAN] /\ blocked'[o] = blocked[o]
      BY <1>1, <2>3, <3>1, Zenon
    <3>3. k = Flights => phase'[s] = "open"
      BY <2>5
    <3> QED BY <1>2, <2>1, <2>2, <2>3, <3>1, <3>2, <3>3
  <2> QED BY <2>4, <2>5
<1> DEFINE Answered(y, k) ==
             \/ /\ y = <<"flight">> /\ k = flights[o] + 1 /\ flights[o] < Flights /\ SSL!Mine(s, k)
                /\ ToCome(s)' = <<>> /\ flights[s] <= flights[o]
             \/ /\ y = <<>> /\ k = Flights /\ flights[o] = Flights /\ Len(r) = 1 /\ Flies(s)
<1>13. ASSUME NEW y \in Seq(Items), NEW k \in Nat, Does(y, k), Answered(y, k) PROVE SSLInv'
  <2>1. /\ Sends(s, y) /\ flights' \in [SSL!Sides -> Nat] /\ flights'[s] = k /\ flights'[o] = flights[o]
        /\ phase' \in [SSL!Sides -> {"handshake", "open", "closing", "closed"}] /\ phase'[o] = phase[o]
        /\ k = Flights => phase'[s] = "open"
        /\ k < Flights => phase'[s] = "handshake"
        /\ blocked' \in [SSL!Sides -> BOOLEAN] /\ blocked'[o] = blocked[o]
    <3> HIDE DEF Does
    <3> QED BY <1>9, <1>13
  <2> QED BY <1>1, <1>2, <1>6, <1>7, <1>8, <1>13, <2>1, AnswerStep
<1>14. ASSUME ~(n = 0 /\ s = "client"), n + Len(r) + 0 \in Nat,
              Len(r) = 0 \/ (Len(r) > 0 /\ SSL!Answers(s, n + Len(r)) = <<>>)
       PROVE  Does(<<>>, n + Len(r) + 0)
  <2>1. PICK l : l = Len(r)
    OBVIOUS
  <2>2. PICK said : said = <<>> /\ Len(said) = 0
    BY <1>5
  <2>3. said = IF l > 0 THEN SSL!Answers(s, n + l) ELSE <<>>
    BY <1>14, <2>1, <2>2
  <2>4. /\ flights' = [flights EXCEPT ![s] = n + l + Len(said)]
        /\ IF n + l + Len(said) = Flights
           THEN phase' = [phase EXCEPT ![s] = "open"] /\ SSL!Flushed(s, m_writeBio[s] \o said, FALSE) /\ UNCHANGED blocked
           ELSE SSL!WantRead(s, m_writeBio[s] \o said) /\ UNCHANGED phase
    <3> DEFINE first == IF flights[s] = 0 /\ s = "client" THEN 1 ELSE 0
               words == IF first = 1 THEN <<"flight">>
                        ELSE IF Len(m_readBio[s]) > 0 THEN SSL!Answers(s, flights[s] + Len(m_readBio[s])) ELSE <<>>
               all == flights[s] + Len(m_readBio[s]) + Len(words)
    <3>1. first # 1
      BY <1>3, <1>14
    <3> HIDE DEF first
    <3>2. words = said
      BY <1>3, <2>1, <2>3, <3>1
    <3>3. /\ flights' = [flights EXCEPT ![s] = all]
          /\ IF all = Flights
             THEN /\ phase' = [phase EXCEPT ![s] = "open"] /\ SSL!Flushed(s, m_writeBio[s] \o words, FALSE)
                  /\ UNCHANGED blocked
             ELSE SSL!WantRead(s, m_writeBio[s] \o words) /\ UNCHANGED phase
      BY DEF SSL!Handshake, first
    <3> HIDE DEF words
    <3> QED BY <1>3, <2>1, <3>2, <3>3
  <2>5. CASE n + l + Len(said) = Flights
    BY <2>1, <2>2, <2>4, <2>5
  <2>6. CASE n + l + Len(said) # Flights
    BY <2>1, <2>2, <2>4, <2>6 DEF SSL!WantRead
  <2> QED BY <2>5, <2>6
<1>10. CASE n = 0 /\ s = "client"
  <2>1. ~Flies(s)
    <3>1. ASSUME Flies(s) PROVE FALSE
      <4>1. m = 1 /\ SSL!Mine(o, m)
        BY <1>1, <1>2, <1>3, <1>4, <1>10, <3>1 DEF Stage, Flies
      <4>2. o = "client"
        BY <4>1, Turns
      <4> QED BY <1>1, <1>10, <4>2
    <3> QED BY <3>1
  <2>2. m = 0 /\ r = <<>> /\ m < Flights
    <3>1. ~(n < m)
      BY <1>1, <1>3, <2>1 DEF Flies
    <3>2. m = 0 /\ m < Flights
      BY ONLY <1>4, <1>10, <3>1, n \in Nat, m \in Nat
    <3>3. r = <<>>
      BY <1>1, <1>2, <1>3, <2>1, BeforeAnswer
    <3> QED BY <3>2, <3>3
  <2>3. ToCome(s) = <<>>
    BY <1>1, <1>2, <1>3, <2>1, <2>2, BeforeAnswer
  <2>4. Does(<<"flight">>, 1)
    <3>1. Len(r) = 0 /\ 0 + 0 + 1 = 1
      BY <1>5, <2>2
    <3> QED BY <1>3, <1>5, <1>10, <2>2, <3>1 DEF SSL!Handshake, SSL!WantRead
  <2>5. SSL!Mine(s, 1)
    BY <1>10, Turns
  <2>6. ToCome(s)' = <<>>
    <3>1. ToCome(s) = <<>> \o ToCome(s)' /\ ToCome(s)' \in Seq(Items)
      BY <1>2, <1>5, <1>8, <1>9, <2>2, <2>4, TakesAndSends
    <3> QED BY <2>3, <3>1
  <2>7. PICK y \in Seq(Items), k \in Nat :
          Does(y, k) /\ y = <<"flight">> /\ k = m + 1 /\ SSL!Mine(s, k) /\ n <= m
    <3>1. 1 \in Nat /\ 1 = m + 1 /\ n <= m
      BY <1>10, <2>2
    <3> HIDE DEF Does
    <3> QED BY <1>5, <2>4, <2>5, <3>1
  <2>8. Answered(y, k)
    BY <1>3, <2>2, <2>6, <2>7
  <2> QED BY <1>13, <2>7, <2>8
<1>11. CASE ~(n = 0 /\ s = "client") /\ r = <<>>
  <2>1. Does(<<>>, n)
    <3>1. Len(r) = 0 /\ n + 0 + 0 = n
      BY <1>5, <1>11
    <3>2. n # Flights
      BY <1>4
    <3> QED BY <1>3, <1>11, <1>14, <3>1, <3>2
  <2>2. Sends(s, <<>>)
    BY <1>5, <1>9, <2>1
  <2>3. ToCome(s)' = ToCome(s) /\ ToCome(o)' = ToCome(o)
    <3>1. /\ ToCome(s) = <<>> \o ToCome(s)' /\ ToCome(s)' \in Seq(Items)
          /\ ToCome(o)' = ToCome(o) \o <<>> /\ ToCome(o) \in Seq(Items)
      BY <1>1, <1>2, <1>5, <1>8, <1>11, <2>2, TakesAndSends
    <3> QED BY <3>1
  <2>4. UNCHANGED <<phase, flights>> /\ blocked' \in [SSL!Sides -> BOOLEAN] /\ blocked'[o] = blocked[o]
    <3>1. n # Flights
      BY <1>4
    <3>2. UNCHANGED phase /\ flights' = [flights EXCEPT ![s] = flights[s]]
      BY <1>3, <2>1, <3>1
    <3>3. flights' = flights
      BY <1>2, <3>2 DEF SSLType
    <3>4. blocked' \in [SSL!Sides -> BOOLEAN] /\ blocked'[o] = blocked[o]
      <4> HIDE DEF Does
      <4> QED BY <1>5, <1>9, <2>1
    <3> QED BY <3>2, <3>3, <3>4
  <2>5. SSLType'
    <3>1. /\ phase' \in [SSL!Sides -> {"handshake", "open", "closing", "closed"}] /\ flights' \in [SSL!Sides -> Nat]
          /\ sslWritten' \in [SSL!Sides -> Nat] /\ received' \in [SSL!Sides -> Nat]
          /\ shutdown' \in [SSL!Sides -> SUBSET {"sent", "received"}]
      BY <1>2, <1>6, <2>4 DEF SSLType
    <3> QED BY <1>7, <2>2, <2>4, <3>1 DEF SSLType, Sends
  <2>6. InOrder(s)' /\ InOrder(o)'
    BY <1>1, <1>2, <1>6, <2>3, <2>4 DEF InOrder, Flies, Closes
  <2>7. KeepsNothing(s)' /\ KeepsNothing(o)'
    <3>1. KeepsNothing(o)
      BY <1>2 DEF Stage
    <3> QED BY <1>1, <2>2, <3>1 DEF Sends, KeepsNothing
  <2>8. Stage(s)'
    <3>1. Len(m_readBio'[s]) <= 1
      BY <1>7
    <3> QED BY <1>1, <1>2, <1>6, <1>7, <2>3, <2>4, <2>7, <3>1 DEF Stage, Flies
  <2>9. Stage(o)'
    BY <1>1, <1>2, <1>6, <1>7, <2>3, <2>4, <2>7 DEF Stage, Flies
  <2> QED BY <1>1, <2>5, <2>6, <2>8, <2>9 DEF SSLInv
<1>12. CASE ~(n = 0 /\ s = "client") /\ r # <<>>
  <2>1. Flies(s) /\ m = n + 1 /\ n <= m /\ m <= Flights /\ SSL!Mine(s, m + 1)
    <3>1. Flies(s)
      BY <1>1, <1>2, <1>3, <1>12, BeforeAnswer
    <3>2. m = n + 1 /\ n <= m /\ m <= Flights
      <4>1. n < m
        BY <1>1, <1>3, <3>1 DEF Flies
      <4> QED BY ONLY <1>4, <4>1, n \in Nat, m \in Nat, Flights \in Nat \ {0}
    <3>3. SSL!Mine(o, m)
      BY <1>1, <1>2, <1>3, <3>1 DEF Stage
    <3> QED BY <1>1, <3>1, <3>2, <3>3, Turns
  <2>2. Len(r) = 1
    BY <1>4, <1>12
  <2>3. CASE m < Flights
    <3>1. Does(<<"flight">>, m + 1)
      <4>1. n + 1 = m /\ 1 > 0
        BY <2>1
      <4> QED BY <1>3, <1>5, <1>12, <2>1, <2>2, <2>3, <4>1 DEF SSL!Handshake, SSL!WantRead, SSL!Answers
    <3>2. ToCome(s)' = <<>>
      <4>1. Len(ToCome(s)) = 1
        BY <1>1, <1>2, <1>3, <2>1, <2>3, BeforeAnswer
      <4>2. ToCome(s) = r \o ToCome(s)' /\ ToCome(s)' \in Seq(Items)
        <5>1. Sends(s, <<"flight">>)
          <6>1. m + 1 \in Nat
            OBVIOUS
          <6> HIDE DEF Does
          <6> QED BY <1>5, <1>9, <3>1, <6>1
        <5> QED BY <1>2, <1>5, <1>8, <5>1, TakesAndSends
      <4>3. PICK q \in Seq(Items) : q = ToCome(s)'
        BY <4>2
      <4>4. Len(r \o q) = 1
        BY <4>1, <4>2, <4>3
      <4>5. q = <<>>
        BY ONLY <2>2, <4>4, r \in Seq(Items), q \in Seq(Items)
      <4> QED BY <4>3, <4>5
    <3>3. PICK y \in Seq(Items), k \in Nat :
            Does(y, k) /\ y = <<"flight">> /\ k = m + 1 /\ SSL!Mine(s, k)
      <4>1. m + 1 \in Nat
        OBVIOUS
      <4> HIDE DEF Does
      <4> QED BY <1>5, <2>1, <3>1, <4>1
    <3>4. Answered(y, k)
      BY <1>3, <2>1, <2>3, <3>2, <3>3
    <3> QED BY <1>13, <3>3, <3>4
  <2>4. CASE m = Flights
    <3>1. Does(<<>>, m)
      <4>1. n + 1 = m /\ 1 > 0 /\ m + 0 = m /\ ~(m < Flights)
        BY <2>1, <2>4
      <4>2. SSL!Answers(s, n + 1) = <<>>
        BY <4>1 DEF SSL!Answers
      <4> QED BY <1>12, <1>14, <2>2, <2>4, <4>1, <4>2
    <3>2. Answered(<<>>, m)
      BY <1>3, <2>1, <2>2, <2>4
    <3> QED BY <1>5, <1>13, <3>1, <3>2
  <2> QED BY <2>1, <2>3, <2>4
<1> QED BY <1>10, <1>11, <1>12

LEMMA SSLStep == Flights \in Nat \ {0} /\ SSLInv /\ SSL!SSLNext => SSLInv'
<1> SUFFICES ASSUME Flights \in Nat \ {0}, SSLInv, SSL!SSLNext PROVE SSLInv'
  OBVIOUS
<1>1. PICK s \in SSL!Sides : \/ SSL!Handshake(s) \/ SSL!Arrives(s) \/ SSL!write(s) \/ SSL!flush(s)
                             \/ SSL!read(s) \/ SSL!close(s) \/ SSL!Closing(s)
  BY DEF SSL!SSLNext
<1>2. Flights \in Nat
  OBVIOUS
<1> QED BY <1>1, <1>2, HandshakeStep, ArrivesStep, WriteStep, ReadStep, CloseCallStep, ClosingStep

LEMMA Delivered == SSLInv => SSL!SSLDelivers
<1> SUFFICES ASSUME SSLInv, NEW s \in SSL!Sides
             PROVE  /\ received[s] <= sslWritten[SSL!Other(s)]
                    /\ phase[s] = "open" /\ "received" \in shutdown[s] => received[s] = sslWritten[SSL!Other(s)]
  BY DEF SSL!SSLDelivers
<1>1. PICK o \in SSL!Sides : o = Peer(s) /\ o = SSL!Other(s)
  BY TwoSides DEF Peer
<1>2. received[s] \in Nat /\ sslWritten[o] \in Nat
  BY DEF SSLInv, SSLType
<1>7. PICK p : p = ToCome(s)
  OBVIOUS
<1>3. PICK a \in {0, 1}, c \in {0, 1} :
        /\ Form(p, a, c) /\ received[s] + Len(p) <= sslWritten[o] + a + c
        /\ phase[s] \in {"handshake", "open"} => received[s] + Len(p) = sslWritten[o] + a + c
  BY <1>1, <1>7 DEF SSLInv, InOrder
<1>4. Len(p) \in Nat /\ a + c <= Len(p)
  BY <1>3 DEF Form
<1>5. received[s] <= sslWritten[o]
  BY ONLY <1>2, <1>3, <1>4
<1>6. ASSUME phase[s] = "open", "received" \in shutdown[s] PROVE received[s] = sslWritten[o]
  <2>1. p = <<>>
    BY <1>6, <1>7 DEF SSLInv, Stage
  <2>2. Len(p) = 0
    BY <2>1
  <2>3. received[s] + Len(p) = sslWritten[o] + a + c
    BY <1>3, <1>6
  <2> QED BY ONLY <1>2, <1>4, <2>2, <2>3, a \in {0, 1}, c \in {0, 1}
<1> QED BY <1>1, <1>5, <1>6

-----------------------------------------------------------------------------
(* The cache of connections.                                               *)

Info == [blanks : Nat, live : SUBSET Nat, lastFailed : Nat]
Places == {"idle", "waiting", "connecting", "got", "failed", "priorFailed", "aborted"}

\* What an entry holds has been made.
Made(conns) == conns \in [Cache!Endpoints -> Info] /\ \A e \in Cache!Endpoints : \A c \in conns[e].live : c <= made

CacheType ==
    /\ made \in Nat /\ clock \in Nat /\ cacheClosed \in BOOLEAN /\ forced \in BOOLEAN
    /\ Made(m_conns)
    /\ cacheAt \in [Callers -> Places] /\ route \in [Callers -> Routes] /\ start \in [Callers -> Nat]
    /\ leg \in [Callers -> Nat] /\ \A f \in Callers : leg[f] \in 1..Len(route[f])

Attempts(e) == {f \in Callers : cacheAt[f] = "connecting" /\ Cache!Endpoint(f) = e}

\* The placeholders of an end point are its attempts, and whoever waits counts on one.
Held(e) ==
    /\ m_conns[e].blanks = Cardinality(Attempts(e))
    /\ \A g \in Callers : cacheAt[g] = "waiting" /\ Cache!Endpoint(g) = e /\ g \notin woken => m_conns[e].blanks > 0

\* Nobody has a choice of proxies: one end point serves each caller.
OneWay == \A r \in Routes : Len(r) = 1

CacheInv ==
    /\ CacheType
    /\ ~cacheClosed => gone \subseteq woken /\ \A e \in Cache!Endpoints : Held(e)
    /\ OneWay => Cache!HostLimit

LEMMA CacheCardinality == ASSUME NEW S PROVE Cache!Cardinality(S) = Cardinality(S)
BY DEF Cardinality, Cache!Cardinality

\* The end points are those of the routes.
LEMMA OnRoute ==
    ASSUME NEW r \in Routes, NEW i \in 1..Len(r) PROVE r[i] \in Cache!Endpoints
BY DEF Cache!Endpoints

LEMMA EndpointIs ==
    ASSUME CacheType, NEW f \in Callers PROVE Cache!Endpoint(f) \in Cache!Endpoints
BY OnRoute DEF CacheType, Cache!Endpoint

\* How many connections an entry holds.
LEMMA Sizes ==
    ASSUME NEW info \in Info, NEW n \in Nat, \A c \in info.live : c <= n
    PROVE  /\ IsFiniteSet(info.live) /\ Cardinality(info.live) \in Nat
           /\ Cache!Size(info) \in Nat /\ Cache!Size(info) = info.blanks + Cardinality(info.live)
           /\ Cache!Size(info) = 0 => info.blanks = 0 /\ info.live = {}
           /\ info.live = {} => Cache!Size(info) = info.blanks
<1>1. info.live \in SUBSET Nat /\ info.blanks \in Nat
  BY DEF Info
<1>2. IsFiniteSet(info.live)
  BY <1>1, FS_BoundedSetOfNaturals
<1>3. Cardinality(info.live) \in Nat /\ (Cardinality(info.live) = 0 <=> info.live = {})
  BY <1>2, FS_CardinalityType, FS_EmptySet
<1>4. Cache!Size(info) = info.blanks + Cardinality(info.live)
  BY CacheCardinality DEF Cache!Size
<1> QED BY <1>1, <1>2, <1>3, <1>4

\* An entry that is empty is taken out of the map, and holds the same.
LEMMA KeptIs ==
    ASSUME NEW info \in Info, NEW n \in Nat, \A c \in info.live : c <= n
    PROVE  /\ Cache!Kept(info) \in Info
           /\ Cache!Kept(info).blanks = info.blanks /\ Cache!Kept(info).live = info.live
<1>1. CASE Cache!Size(info) = 0
  <2>1. info.blanks = 0 /\ info.live = {}
    BY <1>1, Sizes
  <2>2. Cache!Kept(info) = [blanks |-> 0, live |-> {}, lastFailed |-> MaxClock + 1]
    BY <1>1 DEF Cache!Kept, Cache!NoInfo, Cache!Never
  <2>3. MaxClock + 1 \in Nat
    BY CacheAssumption
  <2> QED BY <2>1, <2>2, <2>3 DEF Info
<1>2. CASE Cache!Size(info) # 0
  BY <1>2 DEF Cache!Kept
<1> QED BY <1>1, <1>2

\* Connections go from the map, placeholders stay.
Trims(conns) ==
    /\ Made(conns)
    /\ \A e \in Cache!Endpoints : conns[e].blanks = m_conns[e].blanks /\ conns[e].live \subseteq m_conns[e].live

LEMMA TrimsSize ==
    ASSUME CacheType, NEW conns, Trims(conns), NEW e \in Cache!Endpoints
    PROVE  Cache!Size(conns[e]) <= Cache!Size(m_conns[e])
<1>1. /\ conns[e] \in Info /\ m_conns[e] \in Info /\ made \in Nat
      /\ \A c \in conns[e].live : c <= made
      /\ \A c \in m_conns[e].live : c <= made
  BY DEF CacheType, Trims, Made
<1>2. conns[e].blanks = m_conns[e].blanks /\ conns[e].live \subseteq m_conns[e].live /\ conns[e].blanks \in Nat
  BY <1>1 DEF Trims, Info
<1>3. /\ IsFiniteSet(m_conns[e].live) /\ Cardinality(m_conns[e].live) \in Nat
      /\ Cache!Size(m_conns[e]) = m_conns[e].blanks + Cardinality(m_conns[e].live)
      /\ Cache!Size(conns[e]) = conns[e].blanks + Cardinality(conns[e].live)
      /\ Cardinality(conns[e].live) \in Nat
  BY <1>1, Sizes
<1>4. Cardinality(conns[e].live) <= Cardinality(m_conns[e].live)
  BY <1>2, <1>3, FS_Subset
<1> QED BY <1>2, <1>3, <1>4

Less(conns, e) == \E S : conns[e] = Cache!Without(m_conns[e], S)

LEMMA Trimmed ==
    ASSUME CacheType, NEW conns, conns = [e \in Cache!Endpoints |-> conns[e]],
           \A e \in Cache!Endpoints : Less(conns, e)
    PROVE  Trims(conns)
<1>1. ASSUME NEW e \in Cache!Endpoints
      PROVE  /\ conns[e] \in Info /\ conns[e].blanks = m_conns[e].blanks
             /\ conns[e].live \subseteq m_conns[e].live
             /\ \A c \in conns[e].live : c <= made
  <2>1. m_conns[e] \in Info /\ made \in Nat /\ \A c \in m_conns[e].live : c <= made
    BY DEF CacheType, Made
  <2>2. PICK S : conns[e] = Cache!Kept([m_conns[e] EXCEPT !.live = m_conns[e].live \ S])
    BY DEF Less, Cache!Without
  <2>3. PICK info : info = [m_conns[e] EXCEPT !.live = m_conns[e].live \ S]
    OBVIOUS
  <2>4. /\ info \in Info /\ info.blanks = m_conns[e].blanks /\ info.live = m_conns[e].live \ S
    BY <2>1, <2>3 DEF Info
  <2>5. \A c \in info.live : c <= made
    BY <2>1, <2>4
  <2>6. conns[e] = Cache!Kept(info)
    BY <2>2, <2>3
  <2> QED BY <2>1, <2>4, <2>5, <2>6, KeptIs
<1>2. conns \in [Cache!Endpoints -> Info]
  BY <1>1
<1> QED BY <1>1, <1>2 DEF Trims, Made

\* Nobody but who has been woken is left behind on an entry that has gone.
LEMMA LeftWoken ==
    ASSUME CacheType, NEW conns, Made(conns), gone \subseteq woken,
           \A e \in Cache!Endpoints : \A g \in Callers :
               cacheAt[g] = "waiting" /\ Cache!Endpoint(g) = e /\ g \notin woken' => conns[e].blanks > 0,
           woken \subseteq woken'
    PROVE  Cache!LeftBehind(conns) \subseteq woken'
<1> SUFFICES ASSUME NEW g \in Callers, cacheAt[g] = "waiting", Cache!Size(conns[Cache!Endpoint(g)]) = 0, g \notin woken'
             PROVE  FALSE
  BY DEF Cache!LeftBehind
<1>1. PICK e \in Cache!Endpoints : e = Cache!Endpoint(g)
  BY EndpointIs
<1>2. conns[e].blanks > 0
  BY <1>1
<1>3. conns[e] \in Info /\ made \in Nat /\ \A c \in conns[e].live : c <= made
  BY DEF CacheType, Made
<1>4. conns[e].blanks = 0
  BY <1>1, <1>3, Sizes
<1> QED BY <1>2, <1>4

\* A placeholder for e.
Blank(conns, e) == [conns EXCEPT ![e].blanks = @ + 1]

LEMMA BlankAdded ==
    ASSUME NEW conns \in [Cache!Endpoints -> Info], NEW e \in Cache!Endpoints, m_conns' = Blank(conns, e)
    PROVE  /\ m_conns' \in [Cache!Endpoints -> Info]
           /\ m_conns'[e].blanks = conns[e].blanks + 1
           /\ \A x \in Cache!Endpoints : /\ m_conns'[x].live = conns[x].live
                                         /\ x # e => m_conns'[x] = conns[x]
<1>1. conns \in [Cache!Endpoints -> Info] /\ conns[e] \in Info /\ conns[e].blanks \in Nat
  BY DEF Info
<1>2. PICK info : info = [conns[e] EXCEPT !.blanks = conns[e].blanks + 1]
  OBVIOUS
<1>3. info \in Info /\ info.blanks = conns[e].blanks + 1 /\ info.live = conns[e].live
  BY <1>1, <1>2 DEF Info
<1>4. m_conns' = [conns EXCEPT ![e] = info]
  BY <1>2 DEF Blank
<1> QED BY ONLY <1>1, <1>3, <1>4, e \in Cache!Endpoints

\* A caller moves on, and leaves a placeholder if it is to connect.  conns is the map
\* without what it had there.
Moves(f, j, to, conns) ==
    /\ cacheAt' = [cacheAt EXCEPT ![f] = to] /\ leg' = [leg EXCEPT ![f] = j] /\ UNCHANGED route
    /\ \/ to = "connecting" /\ m_conns' = Blank(conns, route[f][j])
       \/ to # "connecting" /\ m_conns' = conns /\ (to = "waiting" => conns[route[f][j]].blanks > 0)

\* The placeholders of the others, and those that they count on.
Rest(f, conns) == \A e \in Cache!Endpoints : conns[e].blanks = Cardinality(Attempts(e) \ {f})
Counting(f, conns) ==
    \A e \in Cache!Endpoints : \A g \in Callers :
        cacheAt[g] = "waiting" /\ Cache!Endpoint(g) = e /\ g \notin woken' /\ g # f => conns[e].blanks > 0

LEMMA MoveTypes ==
    ASSUME CacheType, NEW f \in Callers, NEW j \in 1..Len(route[f]), NEW to \in Places,
           NEW conns \in [Cache!Endpoints -> Info],
           Moves(f, j, to, conns)
    PROVE  /\ m_conns' \in [Cache!Endpoints -> Info]
           /\ \A e \in Cache!Endpoints : m_conns'[e].live = conns[e].live
           /\ cacheAt' \in [Callers -> Places] /\ route' \in [Callers -> Routes]
           /\ leg' \in [Callers -> Nat] /\ \A g \in Callers : leg'[g] \in 1..Len(route'[g])
           /\ cacheAt'[f] = to /\ leg'[f] = j
           /\ \A g \in Callers \ {f} : cacheAt'[g] = cacheAt[g] /\ leg'[g] = leg[g]
<1>1. route[f][j] \in Cache!Endpoints
  BY OnRoute DEF CacheType
<1>2. m_conns' \in [Cache!Endpoints -> Info] /\ \A e \in Cache!Endpoints : m_conns'[e].live = conns[e].live
  <2>1. CASE to = "connecting"
    BY <1>1, <2>1, BlankAdded DEF Moves
  <2>2. CASE to # "connecting"
    BY <2>2 DEF Moves
  <2> QED BY <2>1, <2>2
<1>3. j \in Nat
  BY CacheAssumption DEF CacheType
<1> QED BY <1>2, <1>3 DEF Moves, CacheType

LEMMA CallerMoves ==
    ASSUME CacheType, NEW f \in Callers, NEW j \in 1..Len(route[f]), NEW to \in Places,
           NEW conns \in [Cache!Endpoints -> Info],
           Moves(f, j, to, conns), Rest(f, conns), Counting(f, conns)
    PROVE  \A e \in Cache!Endpoints : Held(e)'
<1> SUFFICES ASSUME NEW e \in Cache!Endpoints PROVE Held(e)'
  OBVIOUS
<1>1. PICK x \in Cache!Endpoints : x = route[f][j]
  BY OnRoute DEF CacheType
<1>2. /\ cacheAt'[f] = to /\ leg'[f] = j /\ route' = route
      /\ \A g \in Callers \ {f} : cacheAt'[g] = cacheAt[g] /\ leg'[g] = leg[g]
  BY MoveTypes DEF Moves
<1>3. /\ Cache!Endpoint(f)' = x
      /\ \A g \in Callers \ {f} : Cache!Endpoint(g)' = Cache!Endpoint(g)
  BY <1>1, <1>2 DEF Cache!Endpoint
<1> DEFINE A == Attempts(e) \ {f}
<1>4. Attempts(e)' = IF to = "connecting" /\ x = e THEN A \cup {f} ELSE A
  BY <1>2, <1>3 DEF Attempts
<1>5. IsFiniteSet(A) /\ f \notin A
  BY CacheAssumption, FS_Subset DEF Attempts
<1>6. conns[e].blanks = Cardinality(A) /\ conns[e].blanks \in Nat
  BY DEF Info, Rest
<1> HIDE DEF A
<1>7. m_conns'[e].blanks = IF to = "connecting" /\ x = e THEN conns[e].blanks + 1 ELSE conns[e].blanks
  <2>1. CASE to = "connecting"
    BY <1>1, <2>1, BlankAdded DEF Moves
  <2>2. CASE to # "connecting"
    BY <2>2 DEF Moves
  <2> QED BY <2>1, <2>2
<1>8. m_conns'[e].blanks = Cardinality(Attempts(e)')
  <2>1. Cardinality(A \cup {f}) = Cardinality(A) + 1
    BY <1>5, FS_AddElement
  <2> QED BY <1>4, <1>6, <1>7, <2>1
<1>9. ASSUME NEW g \in Callers, cacheAt'[g] = "waiting", Cache!Endpoint(g)' = e, g \notin woken'
      PROVE  m_conns'[e].blanks > 0
  <2>1. CASE g = f
    <3>1. to = "waiting" /\ x = e
      BY <1>2, <1>3, <1>9, <2>1
    <3>2. conns[e].blanks > 0
      BY <1>1, <3>1 DEF Moves
    <3> QED BY <1>7, <3>1, <3>2
  <2>2. CASE g # f
    <3>1. cacheAt[g] = "waiting" /\ Cache!Endpoint(g) = e
      BY <1>2, <1>3, <1>9, <2>2
    <3>2. conns[e].blanks > 0
      BY <1>9, <2>2, <3>1 DEF Counting
    <3> QED BY <1>6, <1>7, <3>2
  <2> QED BY <2>1, <2>2
<1> QED BY <1>8, <1>9 DEF Held

LEMMA MoveSize ==
    ASSUME CacheType, NEW f \in Callers, NEW j \in 1..Len(route[f]), NEW to \in Places, NEW n \in Nat,
           NEW conns \in [Cache!Endpoints -> Info], Moves(f, j, to, conns), NEW e \in Cache!Endpoints,
           \A c \in conns[e].live : c <= n
    PROVE  /\ Cache!Size(conns[e]) \in Nat
           /\ to = "connecting" /\ e = route[f][j] => Cache!Size(m_conns'[e]) = Cache!Size(conns[e]) + 1
           /\ to # "connecting" \/ e # route[f][j] => Cache!Size(m_conns'[e]) = Cache!Size(conns[e])
<1>1. PICK x \in Cache!Endpoints : x = route[f][j]
  BY OnRoute DEF CacheType
<1>2. conns[e] \in Info /\ conns[e].blanks \in Nat
  BY DEF Info
<1>3. /\ Cache!Size(conns[e]) \in Nat /\ Cache!Size(conns[e]) = conns[e].blanks + Cardinality(conns[e].live)
      /\ Cardinality(conns[e].live) \in Nat
  BY <1>2, Sizes
<1>4. CASE to = "connecting" /\ x = e
  <2>1. m_conns'[e].blanks = conns[e].blanks + 1 /\ m_conns'[e].live = conns[e].live
    BY <1>1, <1>4, BlankAdded DEF Moves
  <2>2. Cache!Size(m_conns'[e]) = m_conns'[e].blanks + Cardinality(m_conns'[e].live)
    BY CacheCardinality DEF Cache!Size
  <2> QED BY <1>1, <1>2, <1>3, <1>4, <2>1, <2>2
<1>5. CASE to # "connecting" \/ x # e
  <2>1. m_conns'[e] = conns[e]
    BY <1>1, <1>5, BlankAdded DEF Moves
  <2> QED BY <1>1, <1>3, <1>5, <2>1
<1> QED BY <1>4, <1>5

\* A step in which f moves, and nobody else does.
LEMMA MoveStep ==
    ASSUME CacheInv, NEW f \in Callers, NEW j \in 1..Len(route[f]), NEW to \in Places,
           NEW conns \in [Cache!Endpoints -> Info], Moves(f, j, to, conns),
           made' \in Nat, \A e \in Cache!Endpoints : \A c \in conns[e].live : c <= made',
           start' \in [Callers -> Nat], UNCHANGED <<cacheClosed, clock>>, forced' \in BOOLEAN,
           ~cacheClosed => gone' \subseteq woken' /\ Rest(f, conns) /\ Counting(f, conns),
           OneWay /\ ~forced' =>
               \A e \in Cache!Endpoints :
                   /\ Cache!Size(conns[e]) <= m_connectionsPerHost
                   /\ to = "connecting" /\ e = route[f][j] => Cache!Size(conns[e]) < m_connectionsPerHost
    PROVE  CacheInv'
<1>1. CacheType
  BY DEF CacheInv
<1>2. /\ m_conns' \in [Cache!Endpoints -> Info]
      /\ \A e \in Cache!Endpoints : m_conns'[e].live = conns[e].live
      /\ cacheAt' \in [Callers -> Places] /\ route' \in [Callers -> Routes]
      /\ leg' \in [Callers -> Nat] /\ \A g \in Callers : leg'[g] \in 1..Len(route'[g])
  BY <1>1, MoveTypes
<1>3. CacheType'
  <2>1. Made(m_conns)'
    BY <1>2 DEF Made
  <2>2. clock' \in Nat /\ cacheClosed' \in BOOLEAN
    BY <1>1 DEF CacheType
  <2> QED BY <1>2, <2>1, <2>2 DEF CacheType
<1>4. ~cacheClosed' => gone' \subseteq woken' /\ \A e \in Cache!Endpoints : Held(e)'
  BY <1>1, CallerMoves
<1>5. ASSUME OneWay, ~forced', NEW e \in Cache!Endpoints PROVE Cache!Size(m_conns'[e]) <= m_connectionsPerHost
  <2>1. /\ Cache!Size(conns[e]) <= m_connectionsPerHost
        /\ to = "connecting" /\ e = route[f][j] => Cache!Size(conns[e]) < m_connectionsPerHost
    BY <1>5
  <2>2. /\ Cache!Size(conns[e]) \in Nat
        /\ to = "connecting" /\ e = route[f][j] => Cache!Size(m_conns'[e]) = Cache!Size(conns[e]) + 1
        /\ to # "connecting" \/ e # route[f][j] => Cache!Size(m_conns'[e]) = Cache!Size(conns[e])
    BY <1>1, MoveSize
  <2> QED BY <2>1, <2>2, CacheAssumption
<1>6. OneWay => Cache!HostLimit'
  BY <1>5 DEF Cache!HostLimit
<1>7. OneWay' <=> OneWay
  BY DEF OneWay
<1> QED BY <1>3, <1>4, <1>6, <1>7 DEF CacheInv

\* Who is not connecting has no placeholder.
LEMMA TrimsRest ==
    ASSUME CacheInv, ~cacheClosed, NEW f \in Callers, cacheAt[f] # "connecting", NEW conns, Trims(conns),
           woken \subseteq woken' \cup {f}
    PROVE  Rest(f, conns) /\ Counting(f, conns)
<1>1. ASSUME NEW e \in Cache!Endpoints
      PROVE  /\ conns[e].blanks = Cardinality(Attempts(e) \ {f})
             /\ \A g \in Callers : cacheAt[g] = "waiting" /\ Cache!Endpoint(g) = e /\ g \notin woken' /\ g # f
                                      => conns[e].blanks > 0
  <2>1. conns[e].blanks = m_conns[e].blanks /\ Held(e)
    BY DEF Trims, CacheInv
  <2>2. Attempts(e) \ {f} = Attempts(e)
    BY DEF Attempts
  <2> QED BY <2>1, <2>2 DEF Held
<1> QED BY <1>1 DEF Rest, Counting

LEMMA TrimsLimit ==
    ASSUME CacheInv, OneWay, ~forced, NEW conns, Trims(conns), NEW e \in Cache!Endpoints
    PROVE  Cache!Size(conns[e]) <= m_connectionsPerHost
<1>1. Cache!Size(conns[e]) <= Cache!Size(m_conns[e]) /\ Cache!Size(m_conns[e]) <= m_connectionsPerHost
  BY TrimsSize DEF CacheInv, Cache!HostLimit
<1>2. Cache!Size(conns[e]) \in Nat /\ Cache!Size(m_conns[e]) \in Nat
  <2>1. /\ conns[e] \in Info /\ m_conns[e] \in Info /\ made \in Nat
        /\ \A c \in conns[e].live : c <= made
        /\ \A c \in m_conns[e].live : c <= made
    BY DEF CacheInv, CacheType, Trims, Made
  <2> QED BY <2>1, Sizes
<1> QED BY <1>1, <1>2, CacheAssumption

LEMMA ConnectDoes ==
    ASSUME CacheType, NEW f \in Callers, NEW i \in 1..Len(route[f]), NEW conns, Cache!Connect(f, i, conns),
           UNCHANGED route
    PROVE  Moves(f, i, "connecting", conns) /\ start' \in [Callers -> Nat]
BY DEF Cache!Connect, Cache!Go, Moves, Blank, CacheType

\* A set of numbers has a least one.
LEMMA LeastOf ==
    ASSUME NEW S \in SUBSET Nat, S # {} PROVE \E x \in S : \A y \in S : x <= y
<1> DEFINE R == {p \in Nat \X Nat : p[1] < p[2]}
<1>1. R = OpToRel(<, Nat)
  BY Zenon DEF OpToRel
<1>2. IsWellFoundedOn(R, Nat)
  BY <1>1, NatLessThanWellFounded, Zenon
<1> HIDE DEF R
<1>3. PICK x \in S : \A y \in S : ~(<<y, x>> \in R)
  BY <1>2, WFMin, Zenon
<1>4. \A a, b \in Nat : a < b => <<a, b>> \in R
  BY DEF R
<1>5. ASSUME NEW y \in S, y < x PROVE FALSE
  <2>1. <<y, x>> \in R
    BY <1>4, <1>5
  <2> QED BY <1>3, <2>1, Zenon
<1> QED BY <1>5

\* FromCache() serves f, makes it wait for a placeholder, or has it connect.
LEMMA FromCacheDoes ==
    ASSUME CacheType, NEW f \in Callers, NEW i \in 1..Len(route[f]), NEW conns, Made(conns),
           Cache!FromCache(f, i, conns), UNCHANGED route
    PROVE  /\ start' \in [Callers -> Nat]
           /\ \/ /\ Moves(f, 1, "connecting", conns)
                 /\ i = 1 => Cache!Size(conns[route[f][1]]) < m_connectionsPerHost
              \/ \E j \in 1..Len(route[f]) : \E to \in {"got", "waiting"} : Moves(f, j, to, conns)
<1> DEFINE legs == {j \in i..Len(route[f]) : Cache!Size(conns[route[f][j]]) >= m_connectionsPerHost}
           first == CHOOSE j \in legs : \A k \in legs : j <= k
           info == conns[route[f][first]]
<1>1. Len(route[f]) \in Nat \ {0} /\ i \in Nat /\ 1 \in 1..Len(route[f])
  BY CacheAssumption DEF CacheType
<1>2. ASSUME NEW j \in 1..Len(route[f])
      PROVE  /\ Cache!Size(conns[route[f][j]]) \in Nat
             /\ conns[route[f][j]].live = {} => Cache!Size(conns[route[f][j]]) = conns[route[f][j]].blanks
  <2>1. PICK e \in Cache!Endpoints : e = route[f][j]
    BY OnRoute DEF CacheType
  <2>2. conns[e] \in Info /\ made \in Nat /\ \A c \in conns[e].live : c <= made
    BY SMTT(30) DEF CacheType, Made
  <2> QED BY <2>1, <2>2, Sizes
<1>3. /\ legs = {} => Cache!Connect(f, 1, conns)
      /\ legs # {} => /\ leg' = [leg EXCEPT ![f] = first] /\ m_conns' = conns
                      /\ info.live # {} => Cache!Go(f, "got") /\ UNCHANGED <<start, seen, failure>>
                      /\ info.live = {} => Cache!Wait(f, info)
  BY DEF Cache!FromCache
<1>4. CASE legs = {}
  <2>1. Moves(f, 1, "connecting", conns) /\ start' \in [Callers -> Nat]
    BY <1>1, <1>3, <1>4, ConnectDoes
  <2>2. i = 1 => Cache!Size(conns[route[f][1]]) < m_connectionsPerHost
    BY <1>1, <1>2, <1>4, CacheAssumption
  <2> QED BY <2>1, <2>2
<1>5. CASE legs # {}
  <2>1. first \in legs
    <3>1. legs \in SUBSET Nat
      BY <1>1
    <3> HIDE DEF legs
    <3>2. \E j \in legs : \A k \in legs : j <= k
      BY <1>5, <3>1, LeastOf
    <3> QED BY <3>2
  <2>2. /\ first \in 1..Len(route[f])
        /\ Cache!Size(conns[route[f][first]]) >= m_connectionsPerHost
    BY <1>1, <2>1
  <2>3. PICK j \in 1..Len(route[f]) : j = first
    BY <2>2
  <2> HIDE DEF legs, first
  <2>4. CASE info.live # {}
    <3>1. Moves(f, j, "got", conns)
      BY <1>3, <1>5, <2>3, <2>4 DEF Moves, Cache!Go
    <3>2. start' \in [Callers -> Nat]
      BY <1>3, <1>5, <2>4 DEF CacheType
    <3> QED BY <3>1, <3>2
  <2>5. CASE info.live = {}
    <3>1. conns[route[f][j]].blanks > 0
      <4>1. PICK n : n = Cache!Size(conns[route[f][j]])
        OBVIOUS
      <4>2. n \in Nat /\ n = conns[route[f][j]].blanks /\ n >= m_connectionsPerHost
        BY <1>2, <2>2, <2>3, <2>5, <4>1
      <4> QED BY ONLY <4>2, CacheAssumption
    <3>2. Moves(f, j, "waiting", conns)
      BY <1>3, <1>5, <2>3, <2>5, <3>1 DEF Moves, Cache!Wait, Cache!Go
    <3>3. start' \in [Callers -> Nat]
      BY <1>3, <1>5, <2>5 DEF CacheType, Cache!Wait
    <3> QED BY <3>2, <3>3
  <2> QED BY <2>4, <2>5
<1> QED BY <1>4, <1>5

\* f is sent away, without a placeholder.
LEMMA Leaves ==
    ASSUME CacheType, NEW f \in Callers, NEW to, to \notin {"connecting", "waiting"},
           NEW conns, m_conns' = conns, UNCHANGED <<leg, route>>, Cache!Go(f, to)
    PROVE  leg[f] \in 1..Len(route[f]) /\ Moves(f, leg[f], to, conns)
<1>1. leg' = [leg EXCEPT ![f] = leg[f]]
  BY DEF CacheType
<1> QED BY <1>1 DEF CacheType, Moves, Cache!Go

LEMMA NothingTrimmed == CacheType => Trims(m_conns)
BY DEF CacheType, Trims

LEMMA GetStep ==
    ASSUME CacheInv, NEW f \in Callers, NEW force, Cache!getConnection(f, force), force \in BOOLEAN
    PROVE  CacheInv'
<1>1. CacheType /\ cacheAt[f] = "idle" /\ UNCHANGED <<cacheClosed, made, route, woken, clock>>
  BY DEF CacheInv, Cache!getConnection
<1>2. forced' = (forced \/ force)
  BY DEF Cache!getConnection
<1>3. forced' \in BOOLEAN /\ (~forced' => ~forced /\ ~force)
  BY <1>1, <1>2, Zenon DEF CacheType
<1>4. made' \in Nat
  BY <1>1 DEF CacheType
<1>5. CASE cacheClosed
  <2>1. Cache!Go(f, "aborted") /\ UNCHANGED <<m_conns, leg, start>>
    BY <1>5 DEF Cache!getConnection
  <2>2. leg[f] \in 1..Len(route[f]) /\ Moves(f, leg[f], "aborted", m_conns)
    BY <1>1, <2>1, Leaves
  <2>3. start' \in [Callers -> Nat] /\ m_conns \in [Cache!Endpoints -> Info]
        /\ \A e \in Cache!Endpoints : \A c \in m_conns[e].live : c <= made'
    BY <1>1, <2>1 DEF CacheType, Made
  <2>4. OneWay /\ ~forced' => \A e \in Cache!Endpoints : Cache!Size(m_conns[e]) <= m_connectionsPerHost
    BY <1>3 DEF CacheInv, Cache!HostLimit
  <2>5. "aborted" \in Places /\ "aborted" # "connecting"
    BY DEF Places
  <2> QED BY <1>1, <1>3, <1>4, <1>5, <2>2, <2>3, <2>4, <2>5, MoveStep
<1>6. CASE ~cacheClosed
  <2>1. PICK conns : /\ conns = Cache!cleanOutDeadConns(m_conns)
                     /\ force => Cache!Connect(f, 1, conns)
                     /\ ~force => Cache!FromCache(f, 1, conns)
                     /\ gone' = Cache!LeftBehind(conns)
    BY <1>6 DEF Cache!getConnection
  <2>2. Trims(conns)
    <3>1. conns = [e \in Cache!Endpoints |-> Cache!Without(m_conns[e], dead)]
      BY <2>1 DEF Cache!cleanOutDeadConns
    <3>2. conns = [e \in Cache!Endpoints |-> conns[e]]
      BY ONLY <3>1
    <3>3. ASSUME NEW e \in Cache!Endpoints PROVE Less(conns, e)
      <4>1. conns[e] = Cache!Without(m_conns[e], dead)
        BY ONLY <3>1, e \in Cache!Endpoints
      <4> QED BY ONLY <4>1, Zenon DEF Less
    <3> QED BY ONLY <1>1, <3>2, <3>3, Trimmed
  <2>3. Made(conns) /\ conns \in [Cache!Endpoints -> Info]
        /\ \A e \in Cache!Endpoints : \A c \in conns[e].live : c <= made'
    BY <1>1, <2>2 DEF Trims, Made
  <2>4. Rest(f, conns) /\ Counting(f, conns)
    BY <1>1, <1>6, <2>2, TrimsRest
  <2>5. gone' \subseteq woken'
    <3>1. gone \subseteq woken
      BY <1>6 DEF CacheInv
    <3>2. \A e \in Cache!Endpoints : \A g \in Callers :
            cacheAt[g] = "waiting" /\ Cache!Endpoint(g) = e /\ g \notin woken' => conns[e].blanks > 0
      BY <1>1, <2>4 DEF Counting
    <3> QED BY <1>1, <2>1, <2>3, <3>1, <3>2, LeftWoken
  <2>6. 1 \in 1..Len(route[f])
    BY <1>1, CacheAssumption DEF CacheType
  <2>7. OneWay /\ ~forced' => \A e \in Cache!Endpoints : Cache!Size(conns[e]) <= m_connectionsPerHost
    BY <1>3, <2>2, TrimsLimit
  <2>8. "connecting" \in Places /\ "got" \in Places /\ "waiting" \in Places
    BY DEF Places
  <2>9. CASE force
    <3>1. Moves(f, 1, "connecting", conns) /\ start' \in [Callers -> Nat]
      BY <1>1, <2>1, <2>6, <2>9, ConnectDoes
    <3> QED BY <1>1, <1>3, <1>4, <2>3, <2>4, <2>5, <2>6, <2>8, <2>9, <3>1, MoveStep
  <2>10. CASE ~force
    <3>1. /\ start' \in [Callers -> Nat]
          /\ \/ /\ Moves(f, 1, "connecting", conns)
                /\ Cache!Size(conns[route[f][1]]) < m_connectionsPerHost
             \/ \E j \in 1..Len(route[f]) : \E to \in {"got", "waiting"} : Moves(f, j, to, conns)
      BY <1>1, <2>1, <2>3, <2>6, <2>10, FromCacheDoes
    <3>2. CASE Moves(f, 1, "connecting", conns) /\ Cache!Size(conns[route[f][1]]) < m_connectionsPerHost
      BY <1>1, <1>3, <1>4, <2>3, <2>4, <2>5, <2>6, <2>7, <2>8, <3>1, <3>2, MoveStep
    <3>3. ASSUME NEW j \in 1..Len(route[f]), NEW to \in {"got", "waiting"}, Moves(f, j, to, conns)
          PROVE  CacheInv'
      BY <1>1, <1>3, <1>4, <2>3, <2>4, <2>5, <2>7, <2>8, <3>1, <3>3, MoveStep
    <3> QED BY <3>1, <3>2, <3>3
  <2> QED BY <2>9, <2>10
<1> QED BY <1>5, <1>6

LEMMA WaitEndsStep ==
    ASSUME CacheInv, NEW f \in Callers, Cache!WaitEnds(f) PROVE CacheInv'
<1>1. /\ CacheType /\ cacheAt[f] = "waiting" /\ UNCHANGED <<cacheClosed, made, route, forced, clock>>
      /\ woken' = woken \ {f} /\ gone' = gone \ {f}
  BY DEF CacheInv, Cache!WaitEnds
<1>2. /\ made' \in Nat /\ forced' \in BOOLEAN /\ Trims(m_conns) /\ Made(m_conns)
      /\ m_conns \in [Cache!Endpoints -> Info]
      /\ \A e \in Cache!Endpoints : \A c \in m_conns[e].live : c <= made'
  BY <1>1, NothingTrimmed DEF CacheType, Made
<1>3. ~cacheClosed => gone' \subseteq woken' /\ Rest(f, m_conns) /\ Counting(f, m_conns)
  <2>1. woken \subseteq woken' \cup {f}
    BY <1>1
  <2>2. ~cacheClosed => gone' \subseteq woken'
    BY <1>1 DEF CacheInv
  <2> QED BY <1>1, <1>2, <2>1, <2>2, TrimsRest
<1>4. OneWay /\ ~forced' => \A e \in Cache!Endpoints : Cache!Size(m_conns[e]) <= m_connectionsPerHost
  BY <1>1 DEF CacheInv, Cache!HostLimit
<1>5. /\ "connecting" \in Places /\ "got" \in Places /\ "waiting" \in Places
      /\ "priorFailed" \in Places /\ "aborted" \in Places
  BY DEF Places
<1>6. ASSUME NEW to \in {"priorFailed", "aborted"}, Cache!Go(f, to), UNCHANGED <<m_conns, leg, start>>
      PROVE  CacheInv'
  <2>1. leg[f] \in 1..Len(route[f]) /\ Moves(f, leg[f], to, m_conns)
    BY <1>1, <1>6, Leaves
  <2>2. start' \in [Callers -> Nat] /\ to \in Places /\ to # "connecting"
    BY <1>1, <1>5, <1>6 DEF CacheType
  <2> QED BY <1>1, <1>2, <1>3, <1>4, <2>1, <2>2, MoveStep
<1>7. CASE Cache!FromCache(f, leg[f], m_conns)
  <2>1. /\ leg[f] \in 1..Len(route[f]) /\ 1 \in 1..Len(route[f])
        /\ OneWay => leg[f] = 1
    <3>1. PICK r \in Routes : r = route[f]
      BY <1>1 DEF CacheType
    <3>2. PICK n \in Nat \ {0} : n = Len(r) /\ (OneWay => n = 1)
      BY CacheAssumption DEF OneWay
    <3>3. PICK l : l = leg[f] /\ l \in 1..n
      BY <1>1, <3>1, <3>2 DEF CacheType
    <3>4. (OneWay => l = 1) /\ 1 \in 1..n
      BY ONLY <3>2, <3>3, n \in Nat \ {0}
    <3> QED BY <3>1, <3>2, <3>3, <3>4
  <2>2. /\ start' \in [Callers -> Nat]
        /\ \/ /\ Moves(f, 1, "connecting", m_conns)
              /\ leg[f] = 1 => Cache!Size(m_conns[route[f][1]]) < m_connectionsPerHost
           \/ \E j \in 1..Len(route[f]) : \E to \in {"got", "waiting"} : Moves(f, j, to, m_conns)
    BY <1>1, <1>2, <1>7, <2>1, FromCacheDoes
  <2>3. CASE /\ Moves(f, 1, "connecting", m_conns)
             /\ leg[f] = 1 => Cache!Size(m_conns[route[f][1]]) < m_connectionsPerHost
    BY <1>1, <1>2, <1>3, <1>4, <1>5, <2>1, <2>2, <2>3, MoveStep
  <2>4. ASSUME NEW j \in 1..Len(route[f]), NEW to \in {"got", "waiting"}, Moves(f, j, to, m_conns)
        PROVE  CacheInv'
    BY <1>1, <1>2, <1>3, <1>4, <1>5, <2>2, <2>4, MoveStep
  <2> QED BY <2>2, <2>3, <2>4
<1> QED BY <1>6, <1>7 DEF Cache!WaitEnds

LEMMA AskAgainStep ==
    ASSUME CacheInv, NEW f \in Callers, Cache!AskAgain(f) PROVE CacheInv'
<1>1. /\ CacheType /\ cacheAt[f] \in {"got", "failed", "priorFailed"}
      /\ UNCHANGED <<m_conns, cacheClosed, made, route, start, woken, gone, forced, clock>>
      /\ Cache!Go(f, "idle") /\ leg' = [leg EXCEPT ![f] = 1]
  BY DEF CacheInv, Cache!AskAgain
<1>2. Moves(f, 1, "idle", m_conns)
  BY <1>1 DEF Moves, Cache!Go
<1>3. /\ made' \in Nat /\ forced' \in BOOLEAN /\ Trims(m_conns) /\ start' \in [Callers -> Nat]
      /\ m_conns \in [Cache!Endpoints -> Info]
      /\ \A e \in Cache!Endpoints : \A c \in m_conns[e].live : c <= made'
  BY <1>1, NothingTrimmed DEF CacheType, Made
<1>4. ~cacheClosed => gone' \subseteq woken' /\ Rest(f, m_conns) /\ Counting(f, m_conns)
  <2>1. woken \subseteq woken' \cup {f} /\ cacheAt[f] # "connecting"
    BY <1>1
  <2>2. ~cacheClosed => gone' \subseteq woken'
    BY <1>1 DEF CacheInv
  <2> QED BY <1>3, <2>1, <2>2, TrimsRest
<1>5. OneWay /\ ~forced' => \A e \in Cache!Endpoints : Cache!Size(m_conns[e]) <= m_connectionsPerHost
  BY <1>1 DEF CacheInv, Cache!HostLimit
<1>6. 1 \in 1..Len(route[f]) /\ "idle" \in Places /\ "idle" # "connecting"
  BY <1>1, CacheAssumption DEF CacheType, Places
<1> QED BY <1>1, <1>2, <1>3, <1>4, <1>5, <1>6, MoveStep

\* An attempt of f has a placeholder, and the others have theirs.
LEMMA AttemptHeld ==
    ASSUME CacheInv, ~cacheClosed, NEW f \in Callers, cacheAt[f] = "connecting", NEW e \in Cache!Endpoints
    PROVE  /\ m_conns[e].blanks \in Nat
           /\ e = Cache!Endpoint(f) => /\ m_conns[e].blanks >= 1
                                       /\ Cardinality(Attempts(e) \ {f}) = m_conns[e].blanks - 1
           /\ e # Cache!Endpoint(f) => Cardinality(Attempts(e) \ {f}) = m_conns[e].blanks
<1>1. m_conns[e].blanks = Cardinality(Attempts(e)) /\ m_conns[e].blanks \in Nat
  BY DEF CacheInv, Held, CacheType, Made, Info
<1>2. IsFiniteSet(Attempts(e))
  BY CacheAssumption, FS_Subset DEF Attempts
<1>3. /\ f \in Attempts(e) => Cardinality(Attempts(e) \ {f}) = Cardinality(Attempts(e)) - 1
      /\ f \notin Attempts(e) => Attempts(e) \ {f} = Attempts(e)
  BY <1>2, FS_RemoveElement
<1>4. f \in Attempts(e) <=> e = Cache!Endpoint(f)
  BY DEF Attempts
<1>5. f \in Attempts(e) => m_conns[e].blanks # 0
  BY <1>1, <1>2, FS_EmptySet
<1>6. PICK b \in Nat : b = m_conns[e].blanks
  BY <1>1
<1>9. PICK n : n = Cardinality(Attempts(e) \ {f})
  OBVIOUS
<1>7. /\ e = Cache!Endpoint(f) => n = b - 1 /\ b # 0
      /\ e # Cache!Endpoint(f) => n = b
  BY <1>1, <1>3, <1>4, <1>5, <1>6, <1>9
<1>8. b # 0 => b >= 1
  OBVIOUS
<1> QED BY <1>6, <1>7, <1>8, <1>9

LEMMA ConnectedStep ==
    ASSUME CacheInv, NEW f \in Callers, Cache!Connected(f) PROVE CacheInv'
<1>1. /\ CacheType /\ cacheAt[f] = "connecting"
      /\ UNCHANGED <<cacheClosed, route, leg, start, gone, forced, clock>>
  BY DEF CacheInv, Cache!Connected
<1>2. start' \in [Callers -> Nat] /\ forced' \in BOOLEAN /\ made \in Nat
  BY <1>1 DEF CacheType
<1>3. CASE cacheClosed
  <2>1. Cache!Go(f, "aborted") /\ UNCHANGED <<m_conns, made, woken>>
    BY <1>3 DEF Cache!Connected
  <2>2. leg[f] \in 1..Len(route[f]) /\ Moves(f, leg[f], "aborted", m_conns)
    BY <1>1, <2>1, Leaves
  <2>3. m_conns \in [Cache!Endpoints -> Info] /\ \A e \in Cache!Endpoints : \A c \in m_conns[e].live : c <= made'
    BY <1>1, <2>1 DEF CacheType, Made
  <2>4. OneWay /\ ~forced' => \A e \in Cache!Endpoints : Cache!Size(m_conns[e]) <= m_connectionsPerHost
    BY <1>1 DEF CacheInv, Cache!HostLimit
  <2>5. "aborted" \in Places /\ "aborted" # "connecting" /\ made' \in Nat
    BY <1>2, <2>1 DEF Places
  <2> QED BY <1>1, <1>2, <1>3, <2>2, <2>3, <2>4, <2>5, MoveStep
<1>4. CASE ~cacheClosed
  <2>1. PICK e \in Cache!Endpoints : e = Cache!Endpoint(f)
    BY <1>1, EndpointIs
  <2>2. PICK info : info = [m_conns[e] EXCEPT !.blanks = m_conns[e].blanks - 1, !.live = m_conns[e].live \cup {made + 1}]
    OBVIOUS
  <2>3. PICK conns : conns = [m_conns EXCEPT ![e] = info]
    OBVIOUS
  <2>4. /\ made' = made + 1 /\ m_conns' = conns /\ Cache!Go(f, "got")
        /\ woken' = woken \cup (Cache!Waiting(e) \ gone)
    BY <1>4, <2>1, <2>2, <2>3 DEF Cache!Connected
  <2>5. /\ m_conns \in [Cache!Endpoints -> Info] /\ m_conns[e] \in Info
        /\ \A x \in Cache!Endpoints : \A c \in m_conns[x].live : c \in Nat /\ c <= made
    BY <1>1 DEF CacheType, Made, Info
  <2>6. /\ m_conns[e].blanks \in Nat /\ m_conns[e].blanks >= 1
        /\ Cardinality(Attempts(e) \ {f}) = m_conns[e].blanks - 1
    BY <1>1, <1>4, <2>1, AttemptHeld
  <2>7. info \in Info /\ info.blanks = m_conns[e].blanks - 1 /\ info.live = m_conns[e].live \cup {made + 1}
    <3>1. PICK b \in Nat : b = m_conns[e].blanks - 1
      BY <2>6
    <3>2. PICK l \in SUBSET Nat : l = m_conns[e].live \cup {made + 1}
      <4>1. m_conns[e].live \in SUBSET Nat /\ made + 1 \in Nat
        BY <1>2, <2>5 DEF Info
      <4> QED BY ONLY <4>1
    <3>3. info = [m_conns[e] EXCEPT !.blanks = b, !.live = l]
      BY ONLY <2>2, <3>1, <3>2, Zenon
    <3>4. info \in Info /\ info.blanks = b /\ info.live = l
      BY ONLY <2>5, <3>3, b \in Nat, l \in SUBSET Nat DEF Info
    <3> QED BY ONLY <3>1, <3>2, <3>4
  <2>8. conns \in [Cache!Endpoints -> Info] /\ conns[e] = info /\ \A x \in Cache!Endpoints : x # e => conns[x] = m_conns[x]
    BY ONLY <2>3, <2>5, <2>7, e \in Cache!Endpoints
  <2>9. \A x \in Cache!Endpoints : \A c \in conns[x].live : c <= made'
    BY <1>2, <2>4, <2>5, <2>7, <2>8
  <2>10. Rest(f, conns)
    BY <1>1, <1>4, <2>1, <2>6, <2>7, <2>8, AttemptHeld DEF Rest
  <2>11. gone \subseteq woken
    BY <1>4 DEF CacheInv
  <2>12. Counting(f, conns)
    <3> SUFFICES ASSUME NEW x \in Cache!Endpoints, NEW g \in Callers,
                        cacheAt[g] = "waiting", Cache!Endpoint(g) = x, g \notin woken'
                 PROVE  conns[x].blanks > 0
      BY DEF Counting
    <3>1. x # e
      BY <2>4, <2>11 DEF Cache!Waiting
    <3>2. m_conns[x].blanks > 0
      BY <1>4, <2>4 DEF CacheInv, Held
    <3> QED BY <2>8, <3>1, <3>2
  <2>13. gone' \subseteq woken'
    BY <1>1, <2>4, <2>11
  <2>14. Cache!Size(conns[e]) = Cache!Size(m_conns[e])
    <3>1. /\ IsFiniteSet(m_conns[e].live) /\ Cardinality(m_conns[e].live) \in Nat
          /\ Cache!Size(m_conns[e]) = m_conns[e].blanks + Cardinality(m_conns[e].live)
      BY <1>2, <2>5, Sizes
    <3>2. made + 1 \notin m_conns[e].live
      BY <1>2, <2>5
    <3>3. Cardinality(info.live) = Cardinality(m_conns[e].live) + 1
      BY <2>7, <3>1, <3>2, FS_AddElement
    <3>4. Cache!Size(info) = info.blanks + Cardinality(info.live)
      BY CacheCardinality DEF Cache!Size
    <3> QED BY <2>6, <2>7, <2>8, <3>1, <3>3, <3>4
  <2>15. OneWay /\ ~forced' => \A x \in Cache!Endpoints : Cache!Size(conns[x]) <= m_connectionsPerHost
    BY <1>1, <2>8, <2>14 DEF CacheInv, Cache!HostLimit
  <2>16. leg[f] \in 1..Len(route[f]) /\ Moves(f, leg[f], "got", conns)
    BY <1>1, <2>4, Leaves
  <2>17. "got" \in Places /\ "got" # "connecting" /\ made' \in Nat
    BY <1>2, <2>4 DEF Places
  <2> QED BY <1>1, <1>2, <2>8, <2>9, <2>10, <2>12, <2>13, <2>15, <2>16, <2>17, MoveStep
<1> QED BY <1>3, <1>4

LEMMA ConnectFailsStep ==
    ASSUME CacheInv, NEW f \in Callers, Cache!ConnectFails(f) PROVE CacheInv'
<1>1. /\ CacheType /\ cacheAt[f] = "connecting"
      /\ UNCHANGED <<cacheClosed, made, route, forced, clock>>
  BY DEF CacheInv, Cache!ConnectFails
<1>2. made' \in Nat /\ forced' \in BOOLEAN /\ made \in Nat /\ start[f] \in Nat
  BY <1>1 DEF CacheType
<1>3. PICK r \in Routes, l \in Nat : r = route[f] /\ l = leg[f] /\ l \in 1..Len(r)
  BY <1>1 DEF CacheType
<1>4. Len(r) \in Nat /\ (OneWay => ~(l < Len(r)))
  <2>1. PICK n \in Nat \ {0} : n = Len(r)
    BY CacheAssumption
  <2>2. l \in 1..n
    BY <1>3, <2>1
  <2>3. OneWay => n = 1
    BY <2>1 DEF OneWay
  <2>4. OneWay => ~(l < n)
    BY ONLY <2>2, <2>3, n \in Nat \ {0}
  <2> QED BY ONLY <2>1, <2>4
\* Whatever conns it leaves, f goes on to the next proxy or gives up.
<1>5. ASSUME NEW conns \in [Cache!Endpoints -> Info],
             \A e \in Cache!Endpoints : \A c \in conns[e].live : c <= made,
             ~cacheClosed => gone' \subseteq woken' /\ Rest(f, conns) /\ Counting(f, conns),
             OneWay /\ ~forced => \A e \in Cache!Endpoints : Cache!Size(conns[e]) <= m_connectionsPerHost,
             \/ leg[f] < Len(route[f]) /\ Cache!Connect(f, leg[f] + 1, conns)
             \/ m_conns' = conns /\ Cache!Go(f, "failed") /\ UNCHANGED <<leg, start>>
      PROVE  CacheInv'
  <2>1. "connecting" \in Places /\ "failed" \in Places /\ "failed" # "connecting"
    BY DEF Places
  <2>2. CASE leg[f] < Len(route[f]) /\ Cache!Connect(f, leg[f] + 1, conns)
    <3>1. PICK j \in 1..Len(route[f]) : j = leg[f] + 1
      BY <1>3, <1>4, <2>2
    <3>2. Moves(f, j, "connecting", conns) /\ start' \in [Callers -> Nat]
      BY <1>1, <2>2, <3>1, ConnectDoes
    <3>3. ~OneWay
      BY <1>3, <1>4, <2>2
    <3> QED BY <1>1, <1>2, <1>5, <2>1, <3>2, <3>3, MoveStep
  <2>3. CASE m_conns' = conns /\ Cache!Go(f, "failed") /\ UNCHANGED <<leg, start>>
    <3>1. leg[f] \in 1..Len(route[f]) /\ Moves(f, leg[f], "failed", conns)
      BY <1>1, <2>3, Leaves
    <3>2. start' \in [Callers -> Nat]
      BY <1>1, <2>3 DEF CacheType
    <3> QED BY <1>1, <1>2, <1>5, <2>1, <3>1, <3>2, MoveStep
  <2> QED BY <1>5, <2>2, <2>3
<1>6. CASE cacheClosed
  <2>1. \/ leg[f] < Len(route[f]) /\ Cache!Connect(f, leg[f] + 1, m_conns)
        \/ m_conns' = m_conns /\ Cache!Go(f, "failed") /\ UNCHANGED <<leg, start>>
    BY <1>6 DEF Cache!ConnectFails
  <2>2. m_conns \in [Cache!Endpoints -> Info] /\ \A e \in Cache!Endpoints : \A c \in m_conns[e].live : c <= made
    BY <1>1 DEF CacheType, Made
  <2>3. OneWay /\ ~forced => \A e \in Cache!Endpoints : Cache!Size(m_conns[e]) <= m_connectionsPerHost
    BY DEF CacheInv, Cache!HostLimit
  <2> QED BY <1>5, <1>6, <2>1, <2>2, <2>3
<1>7. CASE ~cacheClosed
  <2>1. PICK e \in Cache!Endpoints : e = Cache!Endpoint(f)
    BY <1>1, EndpointIs
  <2>2. PICK b \in Nat : /\ m_conns[e].blanks = b + 1 /\ Cardinality(Attempts(e) \ {f}) = b
                         /\ b = m_conns[e].blanks - 1
    <3>1. /\ m_conns[e].blanks \in Nat /\ m_conns[e].blanks >= 1
          /\ Cardinality(Attempts(e) \ {f}) = m_conns[e].blanks - 1
      BY <1>1, <1>7, <2>1, AttemptHeld
    <3> QED BY <3>1
  <2>3. PICK info : info = [m_conns[e] EXCEPT !.blanks = m_conns[e].blanks - 1, !.lastFailed = start[f]]
    OBVIOUS
  <2>4. PICK conns : conns = [m_conns EXCEPT ![e] = Cache!WithFailure(m_conns[e], start[f])]
    OBVIOUS
  <2>5. /\ woken' = woken \cup (Cache!Waiting(e) \ gone) /\ gone' = Cache!LeftBehind(conns)
        /\ \/ leg[f] < Len(route[f]) /\ Cache!Connect(f, leg[f] + 1, conns)
           \/ m_conns' = conns /\ Cache!Go(f, "failed") /\ UNCHANGED <<leg, start>>
    BY <1>7, <2>1, <2>4 DEF Cache!ConnectFails, Cache!Told
  <2>6. /\ m_conns \in [Cache!Endpoints -> Info] /\ m_conns[e] \in Info
        /\ \A x \in Cache!Endpoints : \A c \in m_conns[x].live : c <= made
    BY <1>1 DEF CacheType, Made
  <2>7. info \in Info /\ info.blanks = b /\ info.live = m_conns[e].live
    <3>1. PICK t \in Nat : t = start[f]
      BY <1>2
    <3>2. info = [m_conns[e] EXCEPT !.blanks = b, !.lastFailed = t]
      BY ONLY <2>2, <2>3, <3>1, Zenon
    <3> QED BY ONLY <2>6, <3>2, b \in Nat, t \in Nat DEF Info
  <2>8. /\ Cache!Kept(info) \in Info /\ Cache!Kept(info).blanks = b /\ Cache!Kept(info).live = m_conns[e].live
    BY <1>2, <2>6, <2>7, KeptIs
  <2>9. /\ conns \in [Cache!Endpoints -> Info] /\ conns[e].blanks = b /\ conns[e].live = m_conns[e].live
        /\ \A x \in Cache!Endpoints : x # e => conns[x] = m_conns[x]
    <3>1. conns = [m_conns EXCEPT ![e] = Cache!Kept(info)]
      BY ONLY <2>3, <2>4 DEF Cache!WithFailure
    <3> QED BY ONLY <2>6, <2>8, <3>1, e \in Cache!Endpoints
  <2>10. \A x \in Cache!Endpoints : \A c \in conns[x].live : c <= made
    BY <2>6, <2>9
  <2>11. Rest(f, conns)
    <3>1. ASSUME NEW x \in Cache!Endpoints PROVE conns[x].blanks = Cardinality(Attempts(x) \ {f})
      <4>1. x # e => Cardinality(Attempts(x) \ {f}) = m_conns[x].blanks
        BY <1>1, <1>7, <2>1, AttemptHeld
      <4> QED BY <2>2, <2>9, <4>1
    <3> QED BY <3>1 DEF Rest
  <2>12. gone \subseteq woken
    BY <1>7 DEF CacheInv
  <2>13. \A x \in Cache!Endpoints : \A g \in Callers :
            cacheAt[g] = "waiting" /\ Cache!Endpoint(g) = x /\ g \notin woken' => conns[x].blanks > 0
    <3> SUFFICES ASSUME NEW x \in Cache!Endpoints, NEW g \in Callers,
                        cacheAt[g] = "waiting", Cache!Endpoint(g) = x, g \notin woken'
                 PROVE  conns[x].blanks > 0
      OBVIOUS
    <3>1. x # e
      BY <2>5, <2>12 DEF Cache!Waiting
    <3>2. m_conns[x].blanks > 0
      BY <1>7, <2>5 DEF CacheInv, Held
    <3> QED BY <2>9, <3>1, <3>2
  <2>14. Counting(f, conns)
    BY <2>13 DEF Counting
  <2>15. gone' \subseteq woken'
    <3>1. Made(conns) /\ woken \subseteq woken'
      BY <2>5, <2>9, <2>10 DEF Made
    <3> QED BY <1>1, <2>5, <2>12, <2>13, <3>1, LeftWoken
  <2>16. OneWay /\ ~forced => \A x \in Cache!Endpoints : Cache!Size(conns[x]) <= m_connectionsPerHost
    <3> SUFFICES ASSUME OneWay, ~forced, NEW x \in Cache!Endpoints
                 PROVE  Cache!Size(conns[x]) <= m_connectionsPerHost
      OBVIOUS
    <3>1. Cache!Size(m_conns[x]) <= m_connectionsPerHost
      BY DEF CacheInv, Cache!HostLimit
    <3>2. CASE x = e
      <4>1. /\ Cardinality(m_conns[e].live) \in Nat
            /\ Cache!Size(m_conns[e]) = m_conns[e].blanks + Cardinality(m_conns[e].live)
        BY <1>2, <2>6, Sizes
      <4>2. Cache!Size(conns[e]) = conns[e].blanks + Cardinality(conns[e].live)
        BY CacheCardinality DEF Cache!Size
      <4>3. PICK n \in Nat : n = Cardinality(m_conns[e].live)
        BY <4>1
      <4>4. Cache!Size(m_conns[e]) = b + 1 + n /\ Cache!Size(conns[e]) = b + n
        BY <2>2, <2>9, <4>1, <4>2, <4>3
      <4>5. b + 1 + n <= m_connectionsPerHost
        BY <3>1, <3>2, <4>4
      <4>6. b + n <= m_connectionsPerHost
        BY ONLY <4>5, b \in Nat, n \in Nat, CacheAssumption
      <4> QED BY <3>2, <4>4, <4>6
    <3>3. CASE x # e
      BY <2>9, <3>1, <3>3
    <3> QED BY <3>2, <3>3
  <2> QED BY <1>5, <2>5, <2>9, <2>10, <2>11, <2>14, <2>15, <2>16
<1> QED BY <1>6, <1>7

\* A step in which no caller moves.
LEMMA CallersStay ==
    ASSUME CacheInv, UNCHANGED <<made, cacheAt, route, leg, start, forced>>, clock' \in Nat,
           Trims(m_conns'), cacheClosed' \in BOOLEAN, cacheClosed => cacheClosed',
           woken \subseteq woken', ~cacheClosed' => gone' \subseteq woken'
    PROVE  CacheInv'
<1>1. CacheType
  BY DEF CacheInv
<1>2. CacheType'
  <2>1. Made(m_conns)'
    BY DEF Trims, Made
  <2> QED BY <1>1, <2>1 DEF CacheType
<1>3. ASSUME ~cacheClosed', NEW e \in Cache!Endpoints PROVE Held(e)'
  <2>1. Held(e) /\ m_conns'[e].blanks = m_conns[e].blanks
    BY <1>3 DEF CacheInv, Trims
  <2>2. Attempts(e)' = Attempts(e) /\ \A g \in Callers : Cache!Endpoint(g)' = Cache!Endpoint(g)
    BY DEF Attempts, Cache!Endpoint
  <2> QED BY <2>1, <2>2 DEF Held
<1>4. ASSUME OneWay PROVE Cache!HostLimit'
  <2>1. ASSUME ~forced, NEW e \in Cache!Endpoints PROVE Cache!Size(m_conns'[e]) <= m_connectionsPerHost
    BY <1>4, <2>1, TrimsLimit
  <2> QED BY <2>1 DEF Cache!HostLimit
<1>5. OneWay' <=> OneWay
  BY DEF OneWay
<1> QED BY <1>2, <1>3, <1>4, <1>5 DEF CacheInv

LEMMA CacheStep == CacheInv /\ Cache!CacheNext => CacheInv'
<1> SUFFICES ASSUME CacheInv, Cache!CacheNext PROVE CacheInv'
  OBVIOUS
<1>1. CacheType /\ Trims(m_conns) /\ clock \in Nat /\ cacheClosed \in BOOLEAN
  BY NothingTrimmed DEF CacheInv, CacheType
\* Those who wait and have not been woken count on a placeholder.
<1>2. ASSUME ~cacheClosed, NEW conns, Trims(conns), woken \subseteq woken'
      PROVE  Cache!LeftBehind(conns) \subseteq woken'
  <2>1. \A e \in Cache!Endpoints : \A g \in Callers :
          cacheAt[g] = "waiting" /\ Cache!Endpoint(g) = e /\ g \notin woken' => conns[e].blanks > 0
    BY <1>2 DEF CacheInv, Held, Trims
  <2>2. gone \subseteq woken /\ Made(conns)
    BY <1>2 DEF CacheInv, Trims
  <2> QED BY <1>1, <1>2, <2>1, <2>2, LeftWoken
<1>3. CASE \E f \in Callers : \/ \E force \in ForceNew : Cache!getConnection(f, force)
                              \/ Cache!WaitEnds(f) \/ Cache!Connected(f) \/ Cache!ConnectFails(f)
                              \/ Cache!AskAgain(f)
  <2>1. ForceNew \subseteq BOOLEAN
    BY CacheAssumption
  <2> QED BY <1>3, <2>1, GetStep, WaitEndsStep, ConnectedStep, ConnectFailsStep, AskAgainStep
<1>4. CASE (\E c \in Cache!Connections : Cache!Dies(c)) \/ Cache!Tick
  <2>1. UNCHANGED <<m_conns, cacheClosed, made, cacheAt, route, leg, start, woken, gone, forced>>
    BY <1>4 DEF Cache!Dies, Cache!Tick
  <2>2. clock' \in Nat
    BY <1>1, <1>4 DEF Cache!Dies, Cache!Tick
  <2>3. Trims(m_conns') /\ (~cacheClosed' => gone' \subseteq woken')
    BY <1>1, <2>1 DEF CacheInv
  <2> QED BY <1>1, <2>1, <2>2, <2>3, CallersStay
<1>5. ASSUME NEW c \in Cache!Connections, Cache!dropConnection(c) PROVE CacheInv'
  <2>1. PICK e \in Cache!Endpoints :
          m_conns' = [m_conns EXCEPT ![e] = Cache!Without(m_conns[e], {c})]
    BY <1>5 DEF Cache!dropConnection
  <2>2. /\ UNCHANGED <<cacheClosed, made, cacheAt, route, leg, start, woken, forced, clock>>
        /\ gone' = Cache!LeftBehind(m_conns')
    BY <1>5 DEF Cache!dropConnection
  <2>3. PICK info : info = [m_conns[e] EXCEPT !.live = m_conns[e].live \ {c}]
    OBVIOUS
  <2>4. m_conns[e] \in Info /\ m_conns \in [Cache!Endpoints -> Info] /\ made \in Nat
        /\ \A x \in Cache!Endpoints : \A d \in m_conns[x].live : d <= made
    BY <1>1 DEF CacheType, Made
  <2>5. info \in Info /\ info.blanks = m_conns[e].blanks /\ info.live = m_conns[e].live \ {c}
    BY ONLY <2>3, <2>4 DEF Info
  <2>6. PICK kept : kept = Cache!Kept(info) /\ kept = Cache!Without(m_conns[e], {c})
    BY <2>3 DEF Cache!Without
  <2>7. kept \in Info /\ kept.blanks = m_conns[e].blanks /\ kept.live \subseteq m_conns[e].live
    BY <2>4, <2>5, <2>6, KeptIs
  <2>8. m_conns' = [m_conns EXCEPT ![e] = kept]
    BY <2>1, <2>6
  <2>9. /\ m_conns' \in [Cache!Endpoints -> Info]
        /\ \A x \in Cache!Endpoints : /\ m_conns'[x].blanks = m_conns[x].blanks
                                      /\ m_conns'[x].live \subseteq m_conns[x].live
    BY ONLY <2>4, <2>7, <2>8, e \in Cache!Endpoints
  <2>10. Trims(m_conns')
    BY <2>4, <2>9 DEF Trims, Made
  <2>11. ~cacheClosed' => gone' \subseteq woken'
    BY <1>2, <2>2, <2>10
  <2> QED BY <1>1, <2>2, <2>10, <2>11, CallersStay
<1>6. CASE Cache!closeIdleConnections
  <2>1. /\ UNCHANGED <<cacheClosed, made, cacheAt, route, leg, start, forced, clock>>
        /\ woken \subseteq woken' /\ gone' = Cache!LeftBehind(m_conns')
        /\ m_conns' = [e \in Cache!Endpoints |-> Cache!Without(m_conns[e], m_conns[e].live)]
    BY <1>6 DEF Cache!closeIdleConnections
  <2>2. PICK conns : conns = m_conns'
    OBVIOUS
  <2>3. conns = [e \in Cache!Endpoints |-> conns[e]]
    BY ONLY <2>1, <2>2
  <2>4. ASSUME NEW e \in Cache!Endpoints PROVE Less(conns, e)
    <3>1. conns[e] = Cache!Without(m_conns[e], m_conns[e].live)
      BY ONLY <2>1, <2>2, e \in Cache!Endpoints
    <3> QED BY ONLY <3>1, Zenon DEF Less
  <2>5. Trims(conns)
    BY ONLY <1>1, <2>3, <2>4, Trimmed
  <2>6. ~cacheClosed' => gone' \subseteq woken'
    BY <1>2, <2>1, <2>2, <2>5
  <2> QED BY <1>1, <2>1, <2>2, <2>5, <2>6, CallersStay
<1>7. CASE Cache!abortConnections
  <2>1. /\ UNCHANGED <<made, cacheAt, route, leg, start, forced, clock>> /\ cacheClosed' = TRUE
        /\ m_conns' = [e \in Cache!Endpoints |-> Cache!NoInfo]
    BY <1>7 DEF Cache!abortConnections
  <2>2. Cache!NoInfo \in Info /\ Cache!NoInfo.live = {} /\ Cache!NoInfo.blanks = 0
    BY CacheAssumption DEF Info, Cache!NoInfo, Cache!Never
  <2>3. CacheType'
    <3>1. Made(m_conns)'
      BY <2>1, <2>2 DEF Made
    <3>2. cacheClosed' \in BOOLEAN
      BY <2>1
    <3> QED BY <1>1, <2>1, <3>1, <3>2 DEF CacheType
  <2>4. Cache!HostLimit'
    <3>1. Cache!Size(Cache!NoInfo) = 0 /\ 0 <= m_connectionsPerHost
      BY <2>2, CacheCardinality, FS_EmptySet, CacheAssumption DEF Cache!Size
    <3> QED BY <2>1, <3>1 DEF Cache!HostLimit
  <2> QED BY <2>1, <2>3, <2>4 DEF CacheInv
<1> QED BY <1>3, <1>4, <1>5, <1>6, <1>7 DEF Cache!CacheNext

LEMMA CacheInitInv == Cache!CacheInit => CacheInv
<1> SUFFICES ASSUME Cache!CacheInit PROVE CacheInv
  OBVIOUS
<1>1. /\ m_conns = [e \in Cache!Endpoints |-> Cache!NoInfo] /\ made = 0 /\ gone = {} /\ woken = {}
      /\ cacheAt = [f \in Callers |-> "idle"] /\ leg = [f \in Callers |-> 1] /\ start = [f \in Callers |-> 0]
      /\ route \in [Callers -> Routes] /\ clock = 0 /\ cacheClosed = FALSE /\ forced = FALSE
  BY DEF Cache!CacheInit
<1>2. Cache!NoInfo \in Info /\ Cache!NoInfo.live = {} /\ Cache!NoInfo.blanks = 0
  BY CacheAssumption DEF Info, Cache!NoInfo, Cache!Never
<1>3. CacheType
  <2>1. Made(m_conns)
    BY <1>1, <1>2 DEF Made
  <2>2. cacheAt \in [Callers -> Places] /\ leg \in [Callers -> Nat] /\ start \in [Callers -> Nat]
    BY <1>1 DEF Places
  <2>3. \A f \in Callers : leg[f] \in 1..Len(route[f])
    BY <1>1, CacheAssumption
  <2>4. made \in Nat /\ clock \in Nat /\ cacheClosed \in BOOLEAN /\ forced \in BOOLEAN
    BY <1>1
  <2> QED BY <1>1, <2>1, <2>2, <2>3, <2>4 DEF CacheType
<1>4. ASSUME NEW e \in Cache!Endpoints PROVE Held(e)
  <2>1. Attempts(e) = {} /\ m_conns[e].blanks = 0
    BY <1>1, <1>2 DEF Attempts
  <2> QED BY <1>1, <2>1, FS_EmptySet DEF Held
<1>5. Cache!HostLimit
  <2>1. Cache!Size(Cache!NoInfo) = 0 /\ 0 <= m_connectionsPerHost
    BY <1>2, CacheCardinality, FS_EmptySet, CacheAssumption DEF Cache!Size
  <2> QED BY <1>1, <2>1 DEF Cache!HostLimit
<1> QED BY <1>1, <1>3, <1>4, <1>5 DEF CacheInv

LEMMA PlaceholdersHeld == CacheInv => Cache!PlaceholdersMatch
<1> SUFFICES ASSUME CacheInv, ~cacheClosed, NEW e \in Cache!Endpoints
             PROVE  /\ m_conns[e].blanks = Cache!Cardinality({f \in Callers : cacheAt[f] = "connecting" /\ Cache!Endpoint(f) = e})
                    /\ Cache!Waiting(e) \ woken # {} => m_conns[e].blanks > 0
                    /\ gone \subseteq woken
  BY DEF Cache!PlaceholdersMatch
<1>1. Held(e) /\ gone \subseteq woken
  BY DEF CacheInv
<1>2. m_conns[e].blanks = Cache!Cardinality(Attempts(e))
  BY <1>1, CacheCardinality DEF Held
<1>3. Cache!Waiting(e) \ woken # {} => m_conns[e].blanks > 0
  BY <1>1 DEF Held, Cache!Waiting
<1> QED BY <1>1, <1>2, <1>3 DEF Attempts

-----------------------------------------------------------------------------
(* Timeouts.                                                               *)

\* What the parts of a TimeoutStream are.
TimeoutType ==
    /\ timeoutSet \in [Timeout!Handlers -> BOOLEAN]
    /\ m_lastTimedOut \in [Timeout!Handlers -> {"NONE", "TIMING", "TIMEDOUT"}]
    /\ m_timer \in [Timeout!Handlers -> {"null", "armed", "fired"}]
    /\ late \in [Timeout!Handlers -> Nat]
    /\ op \in [Timeout!Directions -> {"none", "io", "aborted", "done", "failed"}]
    /\ toggled \in [Timeout!Directions -> BOOLEAN] /\ timeoutCancelled \in [Timeout!Directions -> BOOLEAN]

\* An operation whose timeout was not switched off is still timed, or cancelled; it has a
\* timer only if there was a timeout when it began.
Timed(d) ==
    /\ op[d] = "io" /\ ~toggled[d] => /\ m_lastTimedOut[d] = "TIMING" \/ timeoutCancelled[d]
                                      /\ ~timeoutSet[d] => m_timer[d] = "null"
    /\ op[d] = "none" => m_lastTimedOut[d] # "TIMING"

\* What OperationCovered says of d.
Covered(d) ==
    /\ (op[d] = "io" /\ timeoutSet[d] /\ ~toggled[d]) =>
          \/ m_timer[d] = "armed" \/ timeoutCancelled[d]
          \/ late[d] > 0 /\ m_lastTimedOut[d] = "TIMING"
    /\ op[d] = "none" => m_timer[d] = "null"

TimeoutInv == TimeoutType /\ \A d \in Timeout!Directions : Timed(d) /\ Covered(d)

LEMMA TimeoutSides ==
    /\ Timeout!Directions = {"read", "write"}
    /\ Timeout!Handlers = {"read", "write", "idle"}
BY DEF Timeout!Directions, Timeout!Handlers

LEMMA TimerExpires == ASSUME TimeoutInv, NEW h \in Timeout!Handlers, Timeout!Expire(h) PROVE TimeoutInv'
<1>1. TimeoutType'
  BY DEF Timeout!Expire, TimeoutInv, TimeoutType
<1>2. ASSUME NEW d \in Timeout!Directions PROVE Timed(d)' /\ Covered(d)'
  <2>1. Timed(d) /\ Covered(d) /\ TimeoutType /\ d \in Timeout!Handlers
    BY TimeoutSides DEF TimeoutInv
  <2>2. /\ m_timer[h] = "armed" /\ m_timer' = [m_timer EXCEPT ![h] = "fired"]
        /\ late' = [late EXCEPT ![h] = late[h] + 1]
        /\ UNCHANGED <<timeoutSet, m_lastTimedOut, op, timeoutCancelled, toggled>>
    BY DEF Timeout!Expire
  <2>3. Timed(d)'
    BY <2>1, <2>2 DEF Timed, TimeoutType
  <2>4. Covered(d)'
    BY <2>1, <2>2 DEF Timed, Covered, TimeoutType
  <2> QED BY <2>3, <2>4
<1> QED BY <1>1, <1>2 DEF TimeoutInv

LEMMA OnTimeoutStep == ASSUME TimeoutInv, NEW h \in Timeout!Handlers, Timeout!onTimeout(h) PROVE TimeoutInv'
<1>1. /\ late[h] > 0 /\ late' = [late EXCEPT ![h] = late[h] - 1]
      /\ UNCHANGED <<timeoutSet, m_timer, op, toggled>>
  BY DEF Timeout!onTimeout
<1>2. CASE m_lastTimedOut[h] = "TIMING"
  <2>1. /\ m_lastTimedOut' = [m_lastTimedOut EXCEPT ![h] = "TIMEDOUT"]
        /\ timeoutCancelled' = [d \in Timeout!Directions |-> timeoutCancelled[d] \/ h \in {d, "idle"}]
    BY <1>2 DEF Timeout!onTimeout
  <2>2. TimeoutType'
    BY <1>1, <2>1 DEF TimeoutInv, TimeoutType
  <2>3. ASSUME NEW d \in Timeout!Directions PROVE Timed(d)' /\ Covered(d)'
    <3>1. Timed(d) /\ Covered(d) /\ TimeoutType /\ d \in Timeout!Handlers
      BY TimeoutSides DEF TimeoutInv
    <3>2. CASE h = d
      <4>1. timeoutCancelled'[d] = TRUE /\ m_lastTimedOut'[d] = "TIMEDOUT"
        BY <2>1, <3>1, <3>2 DEF TimeoutType
      <4> QED BY <1>1, <3>1, <4>1 DEF Timed, Covered
    <3>3. CASE h # d
      <4>1. late'[d] = late[d] /\ m_lastTimedOut'[d] = m_lastTimedOut[d] /\ (timeoutCancelled[d] => timeoutCancelled'[d])
        BY <1>1, <2>1, <3>1, <3>3 DEF TimeoutType
      <4> QED BY <1>1, <3>1, <4>1 DEF Timed, Covered
    <3> QED BY <3>2, <3>3
  <2> QED BY <2>2, <2>3 DEF TimeoutInv
<1>3. CASE m_lastTimedOut[h] # "TIMING"
  <2>1. /\ m_lastTimedOut' = m_lastTimedOut
        /\ timeoutCancelled' \in [Timeout!Directions -> BOOLEAN]
        /\ \A d \in Timeout!Directions : timeoutCancelled'[d] <=> timeoutCancelled[d]
    <3>1. timeoutCancelled' = [d \in Timeout!Directions |-> timeoutCancelled[d] \/ (m_lastTimedOut[h] = "TIMING" /\ h \in {d, "idle"})]
      BY DEF Timeout!onTimeout
    <3>2. m_lastTimedOut' = m_lastTimedOut
      BY <1>3 DEF Timeout!onTimeout
    <3> QED BY <1>3, <3>1, <3>2
  <2>2. TimeoutType'
    BY <1>1, <2>1 DEF TimeoutInv, TimeoutType
  <2>3. ASSUME NEW d \in Timeout!Directions PROVE Timed(d)' /\ Covered(d)'
    <3>1. Timed(d) /\ Covered(d) /\ TimeoutType /\ d \in Timeout!Handlers
      BY TimeoutSides DEF TimeoutInv
    <3>2. (timeoutCancelled'[d] <=> timeoutCancelled[d]) /\ (h # d => late'[d] = late[d])
      BY <1>1, <2>1, <3>1 DEF TimeoutType
    <3> QED BY <1>1, <1>3, <2>1, <3>1, <3>2 DEF Timed, Covered
  <2> QED BY <2>2, <2>3 DEF TimeoutInv
<1> QED BY <1>2, <1>3

LEMMA SetTimeoutStep ==
    ASSUME TimeoutInv, NEW h \in Timeout!Handlers, NEW set \in BOOLEAN, Timeout!setTimeout(h, set)
    PROVE  TimeoutInv'
<1>1. /\ timeoutSet' = [timeoutSet EXCEPT ![h] = set]
      /\ toggled' = [d \in Timeout!Directions |-> toggled[d] \/ (d = h /\ ~set)]
      /\ UNCHANGED <<late, op, timeoutCancelled>>
  BY DEF Timeout!setTimeout
<1>2. PICK t, l :
        /\ m_timer' = [m_timer EXCEPT ![h] = t] /\ m_lastTimedOut' = [m_lastTimedOut EXCEPT ![h] = l]
        /\ m_timer[h] # "null" /\ set => t = m_timer[h] /\ l = m_lastTimedOut[h]
        /\ m_timer[h] # "null" /\ ~set => t = "null" /\ l = "NONE"
        /\ m_timer[h] = "null" => /\ l = m_lastTimedOut[h]
                                  /\ t = IF set /\ (m_lastTimedOut[h] = "TIMING" \/ h = "idle") THEN "armed" ELSE "null"
  BY DEF Timeout!setTimeout, Timeout!m_autoStart
<1>3. TimeoutType'
  <2>1. t \in {"null", "armed", "fired"} /\ l \in {"NONE", "TIMING", "TIMEDOUT"}
    BY <1>2 DEF TimeoutInv, TimeoutType
  <2> QED BY <1>1, <1>2, <2>1 DEF TimeoutInv, TimeoutType
<1>4. ASSUME NEW d \in Timeout!Directions PROVE Timed(d)' /\ Covered(d)'
  <2>1. Timed(d) /\ Covered(d) /\ TimeoutType /\ d \in Timeout!Handlers /\ d # "idle"
    BY TimeoutSides DEF TimeoutInv
  <2>2. CASE h # d
    <3>1. /\ timeoutSet'[d] = timeoutSet[d] /\ (toggled'[d] <=> toggled[d])
          /\ m_timer'[d] = m_timer[d] /\ m_lastTimedOut'[d] = m_lastTimedOut[d]
      BY <1>1, <1>2, <2>1, <2>2 DEF TimeoutType
    <3> QED BY <1>1, <2>1, <3>1 DEF Timed, Covered
  <2>3. CASE h = d /\ ~set
    <3>1. toggled'[d] = TRUE /\ m_timer'[d] = t /\ (m_timer[d] = "null" => t = "null")
          /\ m_lastTimedOut'[d] = l /\ (l = "NONE" \/ l = m_lastTimedOut[d])
      BY <1>1, <1>2, <2>1, <2>3 DEF TimeoutType
    <3> QED BY <1>1, <2>1, <3>1 DEF Timed, Covered
  <2>4. CASE h = d /\ set
    <3>1. /\ timeoutSet'[d] /\ (toggled'[d] <=> toggled[d])
          /\ m_timer'[d] = t /\ m_lastTimedOut'[d] = m_lastTimedOut[d]
      BY <1>1, <1>2, <2>1, <2>4 DEF TimeoutType
    <3>2. Timed(d)'
      BY <1>1, <2>1, <3>1 DEF Timed
    <3>3. CASE m_timer[d] = "null"
      <4>1. op[d] = "none" => m_lastTimedOut[d] # "TIMING"
        BY <2>1 DEF Timed
      <4>2. t = IF m_lastTimedOut[d] = "TIMING" THEN "armed" ELSE "null"
        BY <1>2, <2>1, <2>4, <3>3
      <4> QED BY <1>1, <2>1, <3>1, <3>3, <4>1, <4>2 DEF Timed, Covered
    <3>4. CASE m_timer[d] # "null"
      <4>1. t = m_timer[d]
        BY <1>2, <2>4, <3>4
      <4> QED BY <1>1, <2>1, <3>1, <3>4, <4>1 DEF Timed, Covered
    <3> QED BY <3>2, <3>3, <3>4
  <2> QED BY <2>2, <2>3, <2>4
<1> QED BY <1>3, <1>4 DEF TimeoutInv

LEMMA StartStep == ASSUME TimeoutInv, NEW e \in Timeout!Directions, Timeout!Start(e) PROVE TimeoutInv'
<1>1. op[e] = "none" /\ UNCHANGED <<timeoutSet, late, timeoutCancelled>>
  BY DEF Timeout!Start
<1>2. CASE UNCHANGED <<op, m_lastTimedOut, m_timer, toggled>>
  <2>1. TimeoutType'
    BY <1>1, <1>2 DEF TimeoutInv, TimeoutType
  <2>2. ASSUME NEW d \in Timeout!Directions PROVE Timed(d)' /\ Covered(d)'
    BY <1>1, <1>2 DEF TimeoutInv, Timed, Covered
  <2> QED BY <2>1, <2>2 DEF TimeoutInv
<1>3. CASE ~UNCHANGED <<op, m_lastTimedOut, m_timer, toggled>>
  <2>1. PICK t :
          /\ op' = [op EXCEPT ![e] = "io"] /\ toggled' = [toggled EXCEPT ![e] = FALSE]
          /\ m_lastTimedOut' = [m_lastTimedOut EXCEPT ![e] = "TIMING", !["idle"] = "TIMING"]
          /\ m_timer' = [m_timer EXCEPT ![e] = t] /\ t = IF timeoutSet[e] THEN "armed" ELSE m_timer[e]
    BY <1>3 DEF Timeout!Start
  <2>2. e \in Timeout!Handlers /\ e # "idle" /\ "idle" \in Timeout!Handlers /\ TimeoutType
    BY TimeoutSides DEF TimeoutInv
  <2>3. TimeoutType'
    <3>1. t \in {"null", "armed", "fired"}
      BY <2>1, <2>2 DEF TimeoutType
    <3> QED BY <1>1, <2>1, <2>2, <3>1 DEF TimeoutType
  <2>4. ASSUME NEW d \in Timeout!Directions PROVE Timed(d)' /\ Covered(d)'
    <3>1. Timed(d) /\ Covered(d) /\ d \in Timeout!Handlers /\ d # "idle"
      BY TimeoutSides DEF TimeoutInv
    <3>2. CASE d = e
      <4>1. m_timer[e] = "null"
        BY <1>1, <3>1, <3>2 DEF Covered
      <4>2. op'[d] = "io" /\ m_lastTimedOut'[d] = "TIMING" /\ m_timer'[d] = t
        BY <2>1, <2>2, <3>1, <3>2 DEF TimeoutType
      <4> QED BY <1>1, <2>1, <4>1, <4>2, <3>2 DEF Timed, Covered
    <3>3. CASE d # e
      <4>1. op'[d] = op[d] /\ m_lastTimedOut'[d] = m_lastTimedOut[d] /\ m_timer'[d] = m_timer[d] /\ toggled'[d] = toggled[d]
        BY <2>1, <2>2, <3>1, <3>3 DEF TimeoutType
      <4> QED BY <1>1, <3>1, <4>1 DEF Timed, Covered
    <3> QED BY <3>2, <3>3
  <2> QED BY <2>3, <2>4 DEF TimeoutInv
<1> QED BY <1>2, <1>3

\* The parent's call ends.
LEMMA ParentStep ==
    ASSUME TimeoutInv, NEW e \in Timeout!Directions, Timeout!ParentAborts(e) \/ Timeout!ParentEnds(e)
    PROVE  TimeoutInv'
<1>1. PICK o \in {"aborted", "done", "failed"} : op' = [op EXCEPT ![e] = o]
  BY DEF Timeout!ParentAborts, Timeout!ParentEnds
<1>2. op[e] = "io" /\ UNCHANGED <<timeoutSet, m_lastTimedOut, m_timer, late, timeoutCancelled, toggled>>
  BY DEF Timeout!ParentAborts, Timeout!ParentEnds, Timeout!handlerVars
<1>3. TimeoutType'
  BY <1>1, <1>2 DEF TimeoutInv, TimeoutType
<1>4. ASSUME NEW d \in Timeout!Directions PROVE Timed(d)' /\ Covered(d)'
  <2>1. Timed(d) /\ Covered(d)
    BY DEF TimeoutInv
  <2>2. op'[d] \in {"aborted", "done", "failed"} \/ op'[d] = op[d]
    BY <1>1 DEF TimeoutInv, TimeoutType
  <2> QED BY <1>2, <2>1, <2>2 DEF Timed, Covered
<1> QED BY <1>3, <1>4 DEF TimeoutInv

\* Finish() has cleared the handler of e; it may have changed that of the idle timer.
Cleared(e) ==
    /\ m_timer' \in [Timeout!Handlers -> {"null", "armed", "fired"}]
    /\ m_lastTimedOut' \in [Timeout!Handlers -> {"NONE", "TIMING", "TIMEDOUT"}]
    /\ m_timer'[e] = "null" /\ m_lastTimedOut'[e] = "NONE"
    /\ \A h \in Timeout!Handlers \ {e, "idle"} : m_timer'[h] = m_timer[h] /\ m_lastTimedOut'[h] = m_lastTimedOut[h]

LEMMA FinishStep == ASSUME TimeoutInv, NEW e \in Timeout!Directions, Timeout!Finish(e) PROVE TimeoutInv'
<1>1. /\ op[e] \in {"aborted", "done", "failed"} /\ op' = [op EXCEPT ![e] = "none"]
      /\ UNCHANGED <<timeoutSet, late, timeoutCancelled, toggled>>
  BY DEF Timeout!Finish, TimeoutInv, TimeoutType
<1>2. TimeoutType /\ e \in Timeout!Handlers /\ e # "idle" /\ "idle" \in Timeout!Handlers
  BY TimeoutSides DEF TimeoutInv
<1>3. Cleared(e)
  <2>1. ASSUME NEW hs, e \in hs, hs \subseteq {e, "idle"}, Timeout!Cancelled(hs)
        PROVE  Cleared(e)
    BY <1>2, <2>1 DEF Cleared, TimeoutType, Timeout!Cancelled
  <2>2. CASE op[e] \in {"aborted", "failed"}
    <3>1. \E hs : e \in hs /\ hs \subseteq {e, "idle"} /\ Timeout!Cancelled(hs)
      <4>1. Timeout!Cancelled({e}) \/ Timeout!Cancelled({e, "idle"})
        BY <2>2 DEF Timeout!Finish
      <4> QED BY <4>1
    <3> QED BY <2>1, <3>1
  <2>3. CASE op[e] = "done"
    <3>1. /\ m_timer' = [m_timer EXCEPT ![e] = "null"]
          /\ m_lastTimedOut' = [m_lastTimedOut EXCEPT ![e] = "NONE", !["idle"] = "TIMING"]
      BY <2>3 DEF Timeout!Finish
    <3> QED BY <1>2, <3>1 DEF Cleared, TimeoutType
  <2> QED BY <1>1, <2>2, <2>3
<1>4. TimeoutType'
  BY <1>1, <1>2, <1>3 DEF Cleared, TimeoutType
<1>5. ASSUME NEW d \in Timeout!Directions PROVE Timed(d)' /\ Covered(d)'
  <2>1. Timed(d) /\ Covered(d) /\ d \in Timeout!Handlers /\ d # "idle"
    BY TimeoutSides DEF TimeoutInv
  <2>2. CASE d = e
    BY <1>1, <1>2, <1>3, <2>2 DEF Cleared, Timed, Covered, TimeoutType
  <2>3. CASE d # e
    <3>1. op'[d] = op[d] /\ m_timer'[d] = m_timer[d] /\ m_lastTimedOut'[d] = m_lastTimedOut[d]
      BY <1>1, <1>2, <1>3, <2>1, <2>3 DEF Cleared, TimeoutType
    <3> QED BY <1>1, <2>1, <3>1 DEF Timed, Covered
  <2> QED BY <2>2, <2>3
<1> QED BY <1>4, <1>5 DEF TimeoutInv

LEMMA TimeoutStep == TimeoutInv /\ Timeout!TimeoutNext => TimeoutInv'
<1> SUFFICES ASSUME TimeoutInv, Timeout!TimeoutNext PROVE TimeoutInv'
  OBVIOUS
<1>1. CASE \E h \in Timeout!Handlers : Timeout!Expire(h) \/ Timeout!onTimeout(h) \/ \E set \in BOOLEAN : Timeout!setTimeout(h, set)
  BY <1>1, TimerExpires, OnTimeoutStep, SetTimeoutStep, Zenon
<1>2. CASE \E d \in Timeout!Directions : Timeout!Start(d) \/ Timeout!ParentAborts(d) \/ Timeout!ParentEnds(d) \/ Timeout!Finish(d)
  BY <1>2, StartStep, ParentStep, FinishStep, Zenon
<1> QED BY <1>1, <1>2, Zenon DEF Timeout!TimeoutNext

LEMMA TimeoutInitInv == Timeout!TimeoutInit => TimeoutInv
BY TimeoutSides DEF Timeout!TimeoutInit, TimeoutInv, TimeoutType, Timed, Covered

LEMMA TimeoutFramed == TimeoutInv /\ UNCHANGED timeoutVars => TimeoutInv'
BY DEF TimeoutInv, TimeoutType, Timed, Covered, timeoutVars

LEMMA TimeoutCovers == TimeoutInv => Timeout!OperationCovered
BY DEF TimeoutInv, Covered, Timeout!OperationCovered

-----------------------------------------------------------------------------
(* Sockets.                                                                *)

\* Event, timer and cancellation schedule a parked fiber once between them.
SocketInv ==
    /\ sat \in {"idle", "try", "again", "registered", "parked"}
    /\ sat \in {"registered", "parked"} => (registered = TRUE /\ scheduled = 0) \/ (registered = FALSE /\ scheduled = 1)
    /\ sat \notin {"registered", "parked"} => registered = FALSE

LEMMA SocketStep == SocketInv /\ Sock!SocketNext => SocketInv'
<1> SUFFICES ASSUME SocketInv, Sock!SocketNext PROVE SocketInv'
  OBVIOUS
<1> USE DEF SocketInv
<1>1. CASE \E k \in Sock!Operations : Sock!Begin(k)
  BY <1>1 DEF Sock!Begin, Sock!Return
<1>2. CASE Sock!Try
  BY <1>2 DEF Sock!Try, Sock!Return
<1>3. CASE Sock!RegisterEvent
  BY <1>3 DEF Sock!RegisterEvent
<1>4. CASE Sock!Park
  BY <1>4 DEF Sock!Park, Sock!CancelEvent
<1>5. CASE Sock!Resume
  BY <1>5 DEF Sock!Resume, Sock!Return
<1>6. ASSUME NEW e, Sock!cancelIo(e), UNCHANGED sat PROVE SocketInv'
  BY <1>6 DEF Sock!cancelIo, Sock!CancelEvent
<1>7. CASE Sock!Cancel \/ Sock!TimerSteps
  BY <1>6, <1>7 DEF Sock!Cancel, Sock!TimerSteps, Sock!Expire, Sock!OnTimer
<1>8. CASE Sock!Trigger
  BY <1>8 DEF Sock!Trigger
<1>9. CASE Sock!Ready \/ Sock!onRemoteClose \/ Sock!shutdown
  BY <1>9 DEF Sock!Ready, Sock!onRemoteClose, Sock!shutdown
<1> QED BY <1>1, <1>2, <1>3, <1>4, <1>5, <1>7, <1>8, <1>9 DEF Sock!SocketNext, Sock!FiberSteps

LEMMA SocketOnce == SocketInv => Sock!ScheduledOnce
BY DEF SocketInv, Sock!ScheduledOnce

LEMMA SocketInitInv == Sock!SocketInit => SocketInv
BY DEF SocketInv, Sock!SocketInit

LEMMA SocketFramed == SocketInv /\ UNCHANGED socketVars => SocketInv'
BY DEF SocketInv, socketVars

-----------------------------------------------------------------------------
(* The pool of PostgreSQL connections.                                     *)

Fibers == Clients \cup {Destructor}

PoolType ==
    /\ m_total \in Nat /\ m_freeConnections \in Seq({"ok", "bad"}) /\ m_busyConnections \in SUBSET Clients
    /\ poolStatus \in [Clients -> {"ok", "bad"}]
    /\ waiters \in Seq(Fibers) /\ wokenUp \in SUBSET Fibers
    /\ where \in [Fibers -> {"out", "waiting", "using", "gone"}]
    /\ refused \in BOOLEAN /\ shrunk \in BOOLEAN

InList(f) == \E i \in 1..Len(waiters) : waiters[i] = f
InWait(f) == f \in wokenUp \/ InList(f)

\* The condition's list and the line for the mutex hold nobody twice.
ListsApart ==
    /\ \A i \in 1..Len(waiters) : waiters[i] \notin wokenUp
    /\ \A i, j \in 1..Len(waiters) : waiters[i] = waiters[j] => i = j

\* A fiber that waits is in one of them; and nobody asks while the pool is destroyed.
PoolPlaces ==
    /\ ListsApart
    /\ \A f \in Fibers : where[f] = "waiting" <=> InWait(f)
    /\ \A f \in Clients : f \in m_busyConnections <=> where[f] = "using"
    /\ where[Destructor] # "using"
    /\ where[Destructor] # "out" => \A f \in Clients : where[f] # "waiting"

\* How many connections there are.
InPool == Len(m_freeConnections) + Cardinality(m_busyConnections)

\* There are too many only after the pool was made smaller, and then none is free.
PoolSize == m_freeConnections # <<>> \/ shrunk = FALSE => InPool <= m_total

\* Somebody is in line for every free connection, unless the pool is going; and the
\* destructor is told of the last one.
PoolTold ==
    /\ (waiters # <<>> /\ refused = FALSE) =>
          Len(m_freeConnections) <= Cardinality(wokenUp) \/ where[Destructor] = "waiting"
    /\ (where[Destructor] = "waiting" /\ m_busyConnections = {} /\ shrunk = FALSE) => Destructor \in wokenUp

PoolInv == PoolType /\ PoolPlaces /\ PoolSize /\ PoolTold

LEMMA PQCardinality == ASSUME NEW S PROVE PQ!Cardinality(S) = Cardinality(S)
BY DEF Cardinality, PQ!Cardinality

LEMMA FibersCount == ASSUME NEW S \in SUBSET Fibers PROVE IsFiniteSet(S) /\ Cardinality(S) \in Nat
<1>1. IsFiniteSet(Fibers)
  BY PoolAssumption, FS_AddElement DEF Fibers
<1> QED BY <1>1, FS_Subset, FS_CardinalityType

LEMMA PoolCounts ==
    ASSUME PoolType
    PROVE  /\ Len(m_freeConnections) \in Nat /\ Cardinality(m_busyConnections) \in Nat /\ Cardinality(wokenUp) \in Nat
           /\ Cardinality(m_busyConnections) = 0 => m_busyConnections = {}
           /\ \A f \in Clients \ m_busyConnections :
                 Cardinality(m_busyConnections \cup {f}) = Cardinality(m_busyConnections) + 1
           /\ \A f \in m_busyConnections : Cardinality(m_busyConnections \ {f}) = Cardinality(m_busyConnections) - 1
           /\ \A f \in Fibers \ wokenUp : Cardinality(wokenUp \cup {f}) = Cardinality(wokenUp) + 1
           /\ \A f \in wokenUp : Cardinality(wokenUp \ {f}) = Cardinality(wokenUp) - 1
<1>1. IsFiniteSet(Clients) /\ IsFiniteSet(Fibers)
  BY PoolAssumption, FS_AddElement DEF Fibers
<1>2. IsFiniteSet(m_busyConnections) /\ IsFiniteSet(wokenUp)
  BY <1>1, FS_Subset DEF PoolType
<1>3. Len(m_freeConnections) \in Nat
  BY DEF PoolType
<1> QED BY <1>2, <1>3, FS_CardinalityType, FS_EmptySet, FS_AddElement, FS_RemoveElement

\* Nobody in the list is anywhere else.
LEMMA ListedWaits ==
    ASSUME PoolType, PoolPlaces, NEW i \in 1..Len(waiters)
    PROVE  waiters[i] \in Fibers /\ where[waiters[i]] = "waiting" /\ waiters[i] \notin wokenUp
<1>1. waiters[i] \in Fibers
  BY DEF PoolType
<1>2. InWait(waiters[i])
  BY DEF InWait, InList
<1> QED BY <1>1, <1>2 DEF PoolPlaces, ListsApart

\* f gets in the list.
LEMMA Listed ==
    ASSUME PoolType, PoolPlaces, NEW f \in Fibers, ~InList(f),
           waiters' = Append(waiters, f), wokenUp' = wokenUp \ {f}
    PROVE  ListsApart' /\ \A g \in Fibers : InWait(g)' <=> InWait(g) \/ g = f
<1>1. waiters \in Seq(Fibers) /\ Len(waiters) \in Nat
  BY DEF PoolType
<1>2. /\ Len(waiters') = Len(waiters) + 1 /\ waiters'[Len(waiters) + 1] = f
      /\ \A i \in 1..Len(waiters) : waiters'[i] = waiters[i]
  BY <1>1
<1>3. \A i \in 1..Len(waiters) : waiters[i] # f
  BY DEF InList
<1>4. ListsApart'
  <2>1. ListsApart
    BY DEF PoolPlaces
  <2> QED BY <1>1, <1>2, <1>3, <2>1 DEF ListsApart
<1>5. ASSUME NEW g \in Fibers PROVE InList(g)' <=> InList(g) \/ g = f
  <2>1. CASE InList(g)'
    BY <1>1, <1>2, <2>1 DEF InList
  <2>2. CASE InList(g)
    BY <1>1, <1>2, <2>2 DEF InList
  <2>3. CASE g = f
    <3>1. Len(waiters) + 1 \in 1..Len(waiters')
      BY <1>1, <1>2
    <3> QED BY <1>2, <2>3, <3>1 DEF InList
  <2> QED BY <2>1, <2>2, <2>3
<1>6. ASSUME NEW g \in Fibers PROVE InWait(g)' <=> InWait(g) \/ g = f
  BY <1>5 DEF InWait
<1> QED BY <1>4, <1>6

\* m_condition.signal() loses nobody.
LEMMA Signalled ==
    ASSUME PoolType, PoolPlaces, PQ!signal
    PROVE  /\ ListsApart' /\ \A g \in Fibers : InWait(g)' <=> InWait(g)
           /\ waiters' \in Seq(Fibers) /\ wokenUp' \in SUBSET Fibers
           /\ waiters = <<>> => waiters' = <<>> /\ wokenUp' = wokenUp
           /\ waiters # <<>> => waiters[1] \in Fibers \ wokenUp /\ wokenUp' = wokenUp \cup {waiters[1]}
<1>1. waiters \in Seq(Fibers) /\ Len(waiters) \in Nat /\ wokenUp \in SUBSET Fibers /\ ListsApart
  BY DEF PoolType, PoolPlaces
<1>2. CASE waiters = <<>>
  <2>1. UNCHANGED <<waiters, wokenUp>>
    BY <1>2 DEF PQ!signal
  <2> QED BY <1>1, <1>2, <2>1 DEF ListsApart, InWait, InList
<1>3. CASE waiters # <<>>
  <2>1. 1 \in 1..Len(waiters) /\ waiters[1] \in Fibers \ wokenUp
    BY <1>1, <1>3 DEF ListsApart
  <2>2. waiters' = Tail(waiters) /\ wokenUp' = wokenUp \cup {waiters[1]}
    BY <1>3 DEF PQ!signal
  <2>3. /\ waiters' \in Seq(Fibers) /\ Len(waiters') = Len(waiters) - 1
        /\ \A i \in 1..Len(waiters') : i + 1 \in 1..Len(waiters) /\ waiters'[i] = waiters[i + 1]
    BY <1>1, <1>3, <2>2
  <2>4. ListsApart'
    BY <1>1, <2>1, <2>2, <2>3 DEF ListsApart
  <2>5. ASSUME NEW g \in Fibers PROVE InWait(g)' <=> InWait(g)
    <3>1. ASSUME InList(g), g # waiters[1] PROVE InList(g)'
      <4>1. PICK i \in 1..Len(waiters) : waiters[i] = g
        BY <3>1 DEF InList
      <4>2. i - 1 \in 1..Len(waiters') /\ (i - 1) + 1 = i
        BY <1>1, <2>3, <3>1, <4>1
      <4> QED BY <2>3, <4>1, <4>2 DEF InList
    <3>2. ASSUME InList(g)' PROVE InList(g)
      BY <2>3, <3>2 DEF InList
    <3>3. g = waiters[1] => InList(g) /\ g \in wokenUp'
      BY <2>1, <2>2 DEF InList
    <3> QED BY <2>2, <3>1, <3>2, <3>3 DEF InWait
  <2> QED BY <1>1, <1>3, <2>1, <2>2, <2>3, <2>4, <2>5
<1> QED BY <1>2, <1>3

\* The places, when f alone moves.
LEMMA PlacesKept ==
    ASSUME PoolType, PoolPlaces, NEW f \in Fibers, NEW to \in {"out", "waiting", "using", "gone"},
           where' = [where EXCEPT ![f] = to], ListsApart',
           \A g \in Fibers \ {f} : InWait(g)' <=> InWait(g),
           to = "waiting" <=> InWait(f)',
           \A g \in Clients \ {f} : g \in m_busyConnections' <=> g \in m_busyConnections,
           f \in Clients => (f \in m_busyConnections' <=> to = "using"),
           f \in Clients /\ to = "waiting" => where[Destructor] = "out",
           f = Destructor => to # "using" /\ \A g \in Clients : where[g] # "waiting"
    PROVE  PoolPlaces'
<1>1. /\ \A g \in Fibers \ {f} : where'[g] = where[g]
      /\ where'[f] = to /\ Destructor \in Fibers /\ Clients \subseteq Fibers /\ Destructor \notin Clients
  BY PoolAssumption DEF PoolType, Fibers
<1>2. ASSUME NEW g \in Fibers PROVE where'[g] = "waiting" <=> InWait(g)'
  BY <1>1 DEF PoolPlaces
<1>3. ASSUME NEW g \in Clients PROVE g \in m_busyConnections' <=> where'[g] = "using"
  BY <1>1 DEF PoolPlaces
<1>4. where'[Destructor] # "using"
  BY <1>1 DEF PoolPlaces
<1>5. ASSUME where'[Destructor] # "out", NEW g \in Clients PROVE where'[g] # "waiting"
  <2>1. CASE f = Destructor
    BY <1>1, <2>1
  <2>2. CASE f # Destructor
    <3>1. f \in Clients /\ where[Destructor] # "out"
      BY <1>1, <1>5, <2>2 DEF Fibers
    <3> QED BY <1>1, <3>1 DEF PoolPlaces
  <2> QED BY <2>1, <2>2
<1> QED BY <1>2, <1>3, <1>4, <1>5 DEF PoolPlaces

\* f waits, for the first time or again.
LEMMA JoinStep ==
    ASSUME PoolInv, NEW f \in Fibers, where[f] = "out" \/ f \in wokenUp,
           waiters' = Append(waiters, f), wokenUp' = wokenUp \ {f}, where' = [where EXCEPT ![f] = "waiting"],
           UNCHANGED <<m_total, m_freeConnections, m_busyConnections, poolStatus, refused, shrunk>>,
           f \in Clients => where[Destructor] = "out" /\ m_freeConnections = <<>>,
           f = Destructor => m_busyConnections # {} /\ \A g \in Clients : where[g] # "waiting"
    PROVE  PoolInv'
<1>1. PoolType /\ PoolPlaces /\ PoolSize
  BY DEF PoolInv
<1>2. ~InList(f)
  BY <1>1, ListedWaits DEF InList, PoolPlaces
<1>3. PoolType'
  <2>1. waiters' \in Seq(Fibers) /\ wokenUp' \in SUBSET Fibers
    BY <1>1 DEF PoolType
  <2> QED BY <1>1, <2>1 DEF PoolType
<1>4. ListsApart' /\ \A g \in Fibers : InWait(g)' <=> InWait(g) \/ g = f
  BY <1>1, <1>2, Listed
<1>5. PoolPlaces'
  <2>1. where[f] # "using"
    BY <1>1 DEF PoolPlaces, InWait
  <2>2. f \in Clients => f \notin m_busyConnections
    BY <1>1, <2>1 DEF PoolPlaces
  <2>3. InWait(f)' /\ \A g \in Fibers \ {f} : InWait(g)' <=> InWait(g)
    BY <1>4
  <2>4. /\ \A g \in Clients \ {f} : g \in m_busyConnections' <=> g \in m_busyConnections
        /\ f \in Clients => ~(f \in m_busyConnections')
    BY <2>2
  <2> QED BY <1>1, <1>4, <2>3, <2>4, PlacesKept
<1>6. PoolSize'
  BY <1>1 DEF PoolSize, InPool
<1>7. PoolTold'
  <2>1. Destructor \in Fibers /\ (f \in Clients \/ f = Destructor)
    BY DEF Fibers
  <2>2. CASE f = Destructor
    <3>1. where'[Destructor] = "waiting" /\ m_busyConnections' # {}
      BY <1>1, <2>2 DEF PoolType
    <3> QED BY <3>1 DEF PoolTold
  <2>3. CASE f \in Clients
    <3>1. where'[Destructor] = "out" /\ m_freeConnections' = <<>>
      BY <1>1, <2>1, <2>3, PoolAssumption DEF PoolType
    <3>2. Len(m_freeConnections)' = 0 /\ Cardinality(wokenUp)' \in Nat
      <4>1. wokenUp' \in SUBSET Fibers
        BY <1>3 DEF PoolType
      <4> QED BY <3>1, <4>1, FibersCount
    <3> QED BY <3>1, <3>2 DEF PoolTold
  <2> QED BY <2>1, <2>2, <2>3
<1> QED BY <1>3, <1>5, <1>6, <1>7 DEF PoolInv

\* f gets the first of fr, or fails to connect it.
LEMMA ObtainStep ==
    ASSUME PoolInv, NEW f \in Clients, where[f] = "out" \/ f \in wokenUp, where[Destructor] = "out",
           NEW fr \in Seq({"ok", "bad"}), fr # <<>>, Len(fr) + Cardinality(m_busyConnections) <= m_total,
           PQ!Obtain(f, fr), wokenUp' = wokenUp \ {f}, UNCHANGED <<waiters, m_total, shrunk>>,
           waiters # <<>> /\ refused = FALSE => Len(fr) <= Cardinality(wokenUp') + 1
    PROVE  PoolInv'
<1>1. PoolType /\ PoolPlaces /\ f \in Fibers /\ Destructor \in Fibers /\ f # Destructor
  BY PoolAssumption DEF PoolInv, Fibers
<1>2. ~InList(f)
  BY <1>1, ListedWaits DEF InList, PoolPlaces
<1>3. where[f] # "using" /\ f \notin m_busyConnections
  BY <1>1 DEF PoolPlaces, InWait
<1>4. Len(fr) \in Nat \ {0} /\ Tail(fr) \in Seq({"ok", "bad"}) /\ Len(Tail(fr)) = Len(fr) - 1
  OBVIOUS
<1>5. ListsApart' /\ ~InWait(f)' /\ \A g \in Fibers \ {f} : InWait(g)' <=> InWait(g)
  <2>1. ListsApart'
    BY <1>1 DEF PoolPlaces, ListsApart
  <2> QED BY <1>2, <2>1 DEF InWait, InList
<1>6. wokenUp' \in SUBSET Fibers /\ waiters' \in Seq(Fibers)
  BY <1>1 DEF PoolType
<1>7. Cardinality(m_busyConnections) \in Nat /\ m_total \in Nat
  BY <1>1, PoolCounts DEF PoolType
<1>8. CASE where' = [where EXCEPT ![f] = "using"]
  <2>1. /\ m_freeConnections' = Tail(fr) /\ m_busyConnections' = m_busyConnections \cup {f}
        /\ poolStatus' = [poolStatus EXCEPT ![f] = "ok"] /\ UNCHANGED refused
    <3>1. where'[f] = "using"
      BY <1>1, <1>8 DEF PoolType
    <3>2. where' # [where EXCEPT ![f] = "out"]
      BY <1>1, <3>1 DEF PoolType
    <3> QED BY <3>2 DEF PQ!Obtain
  <2>2. PoolType'
    BY <1>1, <1>4, <1>6, <1>8, <2>1 DEF PoolType
  <2>3. PoolPlaces'
    BY <1>1, <1>5, <1>8, <2>1, PlacesKept
  <2>4. Cardinality(m_busyConnections') = Cardinality(m_busyConnections) + 1
    BY <1>1, <1>3, <2>1, PoolCounts
  <2>5. Len(m_freeConnections') = Len(fr) - 1
    BY <1>4, <2>1
  <2>6. PoolSize'
    BY <1>4, <1>7, <2>4, <2>5 DEF PoolSize, InPool
  <2>7. PoolTold'
    <3>1. where'[Destructor] = "out"
      BY <1>1, <1>8 DEF PoolType
    <3>2. Cardinality(wokenUp') \in Nat
      BY <1>6, FibersCount
    <3>3. waiters' # <<>> /\ refused' = FALSE => Len(m_freeConnections') <= Cardinality(wokenUp')
      BY <1>4, <2>1, <2>5, <3>2
    <3> QED BY <3>1, <3>3 DEF PoolTold
  <2> QED BY <2>2, <2>3, <2>6, <2>7 DEF PoolInv
<1>9. CASE where' # [where EXCEPT ![f] = "using"]
  <2>1. /\ m_freeConnections' = fr /\ where' = [where EXCEPT ![f] = "out"] /\ refused' = TRUE
        /\ UNCHANGED <<m_busyConnections, poolStatus>>
    BY <1>9 DEF PQ!Obtain
  <2>2. PoolType'
    BY <1>1, <1>6, <2>1 DEF PoolType
  <2>3. PoolPlaces'
    BY <1>1, <1>3, <1>5, <2>1, PlacesKept
  <2>4. PoolSize'
    BY <2>1 DEF PoolSize, InPool
  <2>5. PoolTold'
    <3>1. where'[Destructor] = "out"
      BY <1>1, <2>1 DEF PoolType
    <3> QED BY <2>1, <3>1 DEF PoolTold
  <2> QED BY <2>2, <2>3, <2>4, <2>5 DEF PoolInv
<1> QED BY <1>8, <1>9

LEMMA GetConnectionStep == ASSUME PoolInv, NEW f \in Clients, PQ!getConnection(f) PROVE PoolInv'
<1>1. PoolType /\ PoolPlaces /\ PoolSize /\ PoolTold /\ f \in Fibers
  BY DEF PoolInv, Fibers
<1>2. where[f] = "out" /\ where[Destructor] = "out" /\ UNCHANGED <<m_total, wokenUp, shrunk>>
  BY DEF PQ!getConnection
<1>3. f \notin wokenUp /\ wokenUp' = wokenUp \ {f}
  BY <1>1, <1>2 DEF PoolPlaces, InWait
<1>4. PICK fr : /\ fr = IF m_freeConnections = <<>> /\ Cardinality(m_busyConnections) < m_total
                        THEN <<"bad">> ELSE m_freeConnections
                /\ (fr = <<>> /\ PQ!Waits(f)) \/ (fr # <<>> /\ PQ!Obtain(f, fr) /\ UNCHANGED waiters)
  BY PQCardinality DEF PQ!getConnection
<1>5. /\ Len(m_freeConnections) \in Nat /\ Cardinality(m_busyConnections) \in Nat /\ Cardinality(wokenUp) \in Nat
      /\ m_total \in Nat
  BY <1>1, PoolCounts DEF PoolType
<1>6. CASE fr = <<>>
  <2>1. m_freeConnections = <<>> /\ PQ!Waits(f)
    BY <1>4, <1>6
  <2>2. UNCHANGED <<m_freeConnections, m_busyConnections, poolStatus, refused>>
    BY <2>1 DEF PQ!Waits
  <2>3. waiters' = Append(waiters, f) /\ where' = [where EXCEPT ![f] = "waiting"]
    BY <2>1 DEF PQ!Waits
  <2> QED BY <1>1, <1>2, <1>3, <2>1, <2>2, <2>3, JoinStep, PoolAssumption
<1>7. CASE fr # <<>> /\ fr = m_freeConnections
  <2>1. fr \in Seq({"ok", "bad"}) /\ PQ!Obtain(f, fr) /\ UNCHANGED waiters
    BY <1>1, <1>4, <1>7 DEF PoolType
  <2>2. Len(fr) + Cardinality(m_busyConnections) <= m_total
    BY <1>1, <1>7 DEF PoolSize, InPool
  <2>3. waiters # <<>> /\ refused = FALSE => Len(fr) <= Cardinality(wokenUp)
    BY <1>1, <1>2, <1>7 DEF PoolTold
  <2>4. waiters # <<>> /\ refused = FALSE => Len(fr) <= Cardinality(wokenUp') + 1
    BY <1>2, <1>5, <1>7, <2>3
  <2> QED BY <1>2, <1>3, <1>7, <2>1, <2>2, <2>4, ObtainStep
<1>8. CASE fr # <<>> /\ fr # m_freeConnections
  <2>1. fr = <<"bad">> /\ Cardinality(m_busyConnections) < m_total /\ PQ!Obtain(f, fr) /\ UNCHANGED waiters
    BY <1>4, <1>8
  <2>2. fr \in Seq({"ok", "bad"}) /\ Len(fr) = 1
    BY <2>1
  <2>3. Len(fr) + Cardinality(m_busyConnections) <= m_total
    BY <1>5, <2>1, <2>2
  <2>4. Len(fr) <= Cardinality(wokenUp') + 1
    BY <1>2, <1>5, <2>2
  <2> QED BY <1>2, <1>3, <1>8, <2>1, <2>2, <2>3, <2>4, ObtainStep
<1> QED BY <1>6, <1>7, <1>8

LEMMA WaitReturnsStep == ASSUME PoolInv, NEW f \in Clients, PQ!WaitReturns(f) PROVE PoolInv'
<1>1. PoolType /\ PoolPlaces /\ PoolSize /\ PoolTold /\ f \in Fibers
  BY DEF PoolInv, Fibers
<1>2. f \in wokenUp /\ wokenUp' = wokenUp \ {f} /\ UNCHANGED <<m_total, shrunk>>
  BY DEF PQ!WaitReturns
<1>3. where[Destructor] = "out"
  <2>1. where[f] = "waiting"
    BY <1>1, <1>2 DEF PoolPlaces, InWait
  <2> QED BY <1>1, <2>1 DEF PoolPlaces
<1>4. CASE m_freeConnections = <<>>
  <2>1. PQ!Waits(f)
    BY <1>4 DEF PQ!WaitReturns
  <2>2. UNCHANGED <<m_freeConnections, m_busyConnections, poolStatus, refused>>
    BY <2>1 DEF PQ!Waits
  <2>3. waiters' = Append(waiters, f) /\ where' = [where EXCEPT ![f] = "waiting"]
    BY <2>1 DEF PQ!Waits
  <2> QED BY <1>1, <1>2, <1>3, <1>4, <2>2, <2>3, JoinStep, PoolAssumption
<1>5. CASE m_freeConnections # <<>>
  <2>1. PICK fr : fr = m_freeConnections
    OBVIOUS
  <2>2. fr \in Seq({"ok", "bad"}) /\ fr # <<>> /\ PQ!Obtain(f, fr) /\ UNCHANGED waiters
    BY <1>1, <1>5, <2>1 DEF PoolType, PQ!WaitReturns
  <2>3. Len(fr) + Cardinality(m_busyConnections) <= m_total
    BY <1>1, <1>5, <2>1 DEF PoolSize, InPool
  <2>4. Cardinality(wokenUp') = Cardinality(wokenUp) - 1 /\ Cardinality(wokenUp) \in Nat /\ Len(fr) \in Nat
    BY <1>1, <1>2, <2>1, PoolCounts
  <2>5. waiters # <<>> /\ refused = FALSE => Len(fr) <= Cardinality(wokenUp)
    BY <1>1, <1>3, <2>1 DEF PoolTold
  <2>6. waiters # <<>> /\ refused = FALSE => Len(fr) <= Cardinality(wokenUp') + 1
    BY <2>4, <2>5
  <2> QED BY <1>2, <1>3, <2>2, <2>3, <2>6, ObtainStep
<1> QED BY <1>4, <1>5

LEMMA ReleaseStep == ASSUME PoolInv, NEW f \in Clients, PQ!releaseConnection(f) PROVE PoolInv'
<1> DEFINE n == Cardinality(m_busyConnections)
           l == Len(m_freeConnections)
           w == Cardinality(wokenUp)
<1>1. PoolType /\ PoolPlaces /\ PoolSize /\ PoolTold /\ f \in Fibers /\ Destructor \in Fibers /\ f # Destructor
  BY PoolAssumption DEF PoolInv, Fibers
<1>2. /\ f \in m_busyConnections /\ m_busyConnections' = m_busyConnections \ {f}
      /\ where' = [where EXCEPT ![f] = "out"] /\ UNCHANGED <<m_total, poolStatus, refused, shrunk>>
  BY DEF PQ!releaseConnection
<1>3. /\ Cardinality(m_busyConnections \ {f}) = n - 1 /\ l \in Nat /\ n \in Nat /\ w \in Nat /\ m_total \in Nat
      /\ Cardinality(m_busyConnections') = n - 1
  BY <1>1, <1>2, PoolCounts DEF PoolType
<1>4. \/ /\ (n - 1) + l < m_total /\ m_freeConnections' = <<poolStatus[f]>> \o m_freeConnections /\ PQ!signal
      \/ ~((n - 1) + l < m_total) /\ UNCHANGED <<m_freeConnections, waiters, wokenUp>>
  BY <1>3, PQCardinality DEF PQ!releaseConnection
<1>5. InPool = l + n /\ InPool' = Len(m_freeConnections') + (n - 1)
  BY <1>3 DEF InPool
<1>6. where[f] = "using" /\ ~InWait(f) /\ where'[Destructor] = where[Destructor]
  BY <1>1, <1>2 DEF PoolPlaces, PoolType
<1> HIDE DEF n, l, w
<1>7. ASSUME ListsApart', \A g \in Fibers : InWait(g)' <=> InWait(g) PROVE PoolPlaces'
  <2>1. /\ \A g \in Clients \ {f} : g \in m_busyConnections' <=> g \in m_busyConnections
        /\ ~(f \in m_busyConnections') /\ ~InWait(f)'
    BY <1>1, <1>2, <1>6, <1>7
  <2> QED BY <1>1, <1>2, <1>7, <2>1, PlacesKept
<1>8. CASE (n - 1) + l < m_total /\ m_freeConnections' = <<poolStatus[f]>> \o m_freeConnections /\ PQ!signal
  <2>1. /\ ListsApart' /\ \A g \in Fibers : InWait(g)' <=> InWait(g)
        /\ waiters' \in Seq(Fibers) /\ wokenUp' \in SUBSET Fibers
        /\ waiters = <<>> => waiters' = <<>> /\ wokenUp' = wokenUp
        /\ waiters # <<>> => waiters[1] \in Fibers \ wokenUp /\ wokenUp' = wokenUp \cup {waiters[1]}
    BY <1>1, <1>8, Signalled
  <2>2. m_freeConnections' \in Seq({"ok", "bad"}) /\ Len(m_freeConnections') = l + 1
    <3>1. m_freeConnections \in Seq({"ok", "bad"}) /\ poolStatus[f] \in {"ok", "bad"}
      BY <1>1 DEF PoolType
    <3> QED BY <1>8, <3>1 DEF l
  <2>3. PoolType'
    BY <1>1, <1>2, <2>1, <2>2 DEF PoolType
  <2>4. PoolPlaces'
    BY <1>7, <2>1
  <2>5. PoolSize'
    BY <1>2, <1>3, <1>5, <1>8, <2>2 DEF PoolSize
  <2>6. PoolTold'
    <3>1. ASSUME waiters' # <<>>, refused' = FALSE, where'[Destructor] # "waiting"
          PROVE  Len(m_freeConnections') <= Cardinality(wokenUp')
      <4>1. waiters # <<>> /\ l <= w
        BY <1>1, <1>2, <1>6, <2>1, <3>1 DEF PoolTold, l, w
      <4>2. Cardinality(wokenUp') = w + 1
        BY <1>1, <2>1, <4>1, PoolCounts DEF w
      <4> QED BY <1>3, <2>2, <4>1, <4>2
    <3>2. ASSUME where'[Destructor] = "waiting" PROVE Destructor \in wokenUp'
      <4>1. Destructor \in wokenUp \/ InList(Destructor)
        BY <1>1, <1>6, <3>2 DEF PoolPlaces, InWait
      <4>2. ASSUME InList(Destructor) PROVE waiters # <<>> /\ waiters[1] = Destructor
        <5>1. 1 \in 1..Len(waiters) /\ waiters # <<>>
          BY <1>1, <4>2 DEF InList, PoolType
        <5>2. waiters[1] \in Fibers /\ where[waiters[1]] = "waiting"
          BY <1>1, <5>1, ListedWaits
        <5> QED BY <1>1, <1>6, <3>2, <5>1, <5>2 DEF PoolPlaces, Fibers
      <4> QED BY <2>1, <4>1, <4>2
    <3> QED BY <3>1, <3>2 DEF PoolTold
  <2> QED BY <2>3, <2>4, <2>5, <2>6 DEF PoolInv
<1>9. CASE ~((n - 1) + l < m_total) /\ UNCHANGED <<m_freeConnections, waiters, wokenUp>>
  <2>1. PoolType'
    BY <1>1, <1>2, <1>9 DEF PoolType
  <2>2. PoolPlaces'
    <3>1. ListsApart' /\ \A g \in Fibers : InWait(g)' <=> InWait(g)
      BY <1>1, <1>9 DEF PoolPlaces, ListsApart, InWait, InList
    <3> QED BY <1>7, <3>1
  <2>3. Len(m_freeConnections') = l
    BY <1>9 DEF l
  <2>4. PoolSize'
    BY <1>1, <1>2, <1>3, <1>5, <1>9, <2>3 DEF PoolSize
  <2>5. PoolTold'
    <3>1. ASSUME shrunk' = FALSE PROVE FALSE
      <4>1. l + n <= m_total
        BY <1>1, <1>2, <1>5, <3>1 DEF PoolSize
      <4> QED BY <1>3, <1>9, <4>1
    <3> QED BY <1>1, <1>2, <1>6, <1>9, <3>1 DEF PoolTold
  <2> QED BY <2>1, <2>2, <2>4, <2>5 DEF PoolInv
<1> QED BY <1>4, <1>8, <1>9

LEMMA ResizeStep == ASSUME PoolInv, NEW t \in Totals, PQ!resize(t) PROVE PoolInv'
<1> DEFINE b == Cardinality(m_busyConnections)
           l == Len(m_freeConnections)
<1>1. PoolType /\ PoolPlaces /\ PoolSize /\ PoolTold
  BY DEF PoolInv
<1>2. t \in Nat /\ b \in Nat /\ l \in Nat /\ m_total \in Nat /\ m_freeConnections \in Seq({"ok", "bad"})
  BY <1>1, PoolCounts, PoolAssumption DEF PoolType
<1>3. PICK x \in Nat : /\ x = IF l + b > t THEN (l + b) - t ELSE 0
                       /\ m_freeConnections' = SubSeq(m_freeConnections, x + 1, l)
  <2>1. PQ!Connections(m_freeConnections) = l + b
    BY PQCardinality DEF PQ!Connections
  <2>2. (IF l + b > t THEN (l + b) - t ELSE 0) \in Nat
    BY <1>2
  <2> QED BY <2>1, <2>2 DEF PQ!resize
<1>4. m_total' = t /\ UNCHANGED <<m_busyConnections, poolStatus, waiters, wokenUp, where, refused>>
  BY DEF PQ!resize
<1>5. shrunk' \in BOOLEAN /\ (shrunk' = FALSE => shrunk = FALSE /\ m_total <= t)
  <2>1. shrunk' = (shrunk \/ t < m_total)
    BY DEF PQ!resize
  <2>2. shrunk' = FALSE => ~(t < m_total) /\ ~shrunk
    BY <2>1
  <2>3. shrunk \in BOOLEAN
    BY <1>1 DEF PoolType
  <2> QED BY <1>2, <2>1, <2>2, <2>3
<1>6. /\ m_freeConnections' \in Seq({"ok", "bad"})
      /\ Len(m_freeConnections') = IF x + 1 <= l THEN l - x ELSE 0
  <2> HIDE DEF b
  <2>1. PICK s \in Seq({"ok", "bad"}) : s = m_freeConnections /\ l = Len(s)
    BY <1>2
  <2>2. SubSeq(s, x + 1, Len(s)) \in Seq({"ok", "bad"}) /\ Len(SubSeq(s, x + 1, Len(s))) = IF x + 1 <= Len(s) THEN Len(s) - x ELSE 0
    BY ONLY x \in Nat, s \in Seq({"ok", "bad"})
  <2> QED BY <1>3, <2>1, <2>2
<1>7. PoolType'
  BY <1>1, <1>2, <1>4, <1>5, <1>6 DEF PoolType
<1>8. PoolPlaces'
  BY <1>1, <1>4 DEF PoolPlaces, ListsApart, InWait, InList
<1>9. PICK k \in Nat : k = Len(m_freeConnections') /\ k = IF x + 1 <= l THEN l - x ELSE 0
  <2>1. Len(m_freeConnections') \in Nat
    BY <1>6
  <2> QED BY <1>6, <2>1
<1>10. m_freeConnections' # <<>> => k > 0
  BY <1>6, <1>9
<1>11. PoolSize'
  <2>1. InPool = l + b /\ InPool' = k + b
    BY <1>4, <1>9 DEF InPool
  <2>2. shrunk = FALSE => l + b <= m_total
    BY <1>1, <2>1 DEF PoolSize
  <2> HIDE DEF b, l
  <2>3. k > 0 => k + b <= t
    BY <1>2, <1>3, <1>9
  <2>4. shrunk' = FALSE => k + b <= t
    BY <1>2, <1>3, <1>5, <1>9, <2>2
  <2> QED BY <1>4, <1>10, <2>1, <2>3, <2>4 DEF PoolSize
<1>12. PoolTold'
  <2>1. Cardinality(wokenUp) \in Nat /\ k <= l
    BY <1>1, <1>2, <1>9, PoolCounts
  <2>2. ASSUME waiters' # <<>>, refused' = FALSE, where'[Destructor] # "waiting" PROVE k <= Cardinality(wokenUp')
    <3>1. l <= Cardinality(wokenUp)
      BY <1>1, <1>4, <2>2 DEF PoolTold
    <3> QED BY <1>2, <1>4, <2>1, <3>1
  <2>3. (where'[Destructor] = "waiting" /\ m_busyConnections' = {} /\ shrunk' = FALSE) => Destructor \in wokenUp'
    BY <1>1, <1>4, <1>5 DEF PoolTold
  <2> QED BY <1>9, <2>2, <2>3 DEF PoolTold
<1> QED BY <1>7, <1>8, <1>11, <1>12 DEF PoolInv

\* ~ConnectionPool(), when it is called and when it is woken.
LEMMA DestructorStep ==
    ASSUME PoolInv, where[Destructor] = "out" \/ Destructor \in wokenUp,
           \A g \in Clients : where[g] # "waiting", PQ!DestructorWaits, wokenUp' = wokenUp \ {Destructor},
           UNCHANGED <<m_total, m_freeConnections, m_busyConnections, poolStatus, refused, shrunk>>
    PROVE  PoolInv'
<1>1. PoolType /\ PoolPlaces /\ PoolSize /\ PoolTold /\ Destructor \in Fibers /\ Destructor \notin Clients
  BY PoolAssumption DEF PoolInv, Fibers
<1>2. CASE waiters' = Append(waiters, Destructor) /\ where' = [where EXCEPT ![Destructor] = "waiting"] /\ m_busyConnections # {}
  BY <1>1, <1>2, JoinStep
<1>3. CASE m_busyConnections = {} /\ where' = [where EXCEPT ![Destructor] = "gone"] /\ UNCHANGED waiters
  <2>1. ~InList(Destructor)
    BY <1>1, ListedWaits DEF InList, PoolPlaces
  <2>2. waiters = <<>>
    <3>1. ASSUME waiters # <<>> PROVE FALSE
      <4>1. 1 \in 1..Len(waiters)
        BY <1>1, <3>1 DEF PoolType
      <4>2. waiters[1] \in Fibers /\ where[waiters[1]] = "waiting"
        BY <1>1, <4>1, ListedWaits
      <4>3. waiters[1] = Destructor
        BY <4>2 DEF Fibers
      <4> QED BY <2>1, <4>1, <4>3 DEF InList
    <3> QED BY <3>1
  <2>3. PoolType'
    BY <1>1, <1>3 DEF PoolType
  <2>4. ListsApart' /\ ~InWait(Destructor)' /\ \A g \in Fibers \ {Destructor} : InWait(g)' <=> InWait(g)
    <3>1. ListsApart'
      BY <1>1, <1>3 DEF PoolPlaces, ListsApart
    <3> QED BY <1>3, <2>1, <3>1 DEF InWait, InList
  <2>5. PoolPlaces'
    BY <1>1, <1>3, <2>4, PlacesKept
  <2>6. PoolSize'
    BY <1>1 DEF PoolSize, InPool
  <2>7. PoolTold'
    <3>1. where'[Destructor] = "gone" /\ waiters' = <<>>
      BY <1>1, <1>3, <2>2 DEF PoolType
    <3> QED BY <3>1 DEF PoolTold
  <2> QED BY <2>3, <2>5, <2>6, <2>7 DEF PoolInv
<1> QED BY <1>2, <1>3 DEF PQ!DestructorWaits

LEMMA GoesBadStep == ASSUME PoolInv, PQ!GoesBad PROVE PoolInv'
<1>1. PoolType /\ PoolPlaces /\ PoolSize /\ PoolTold
  BY DEF PoolInv
<1>2. UNCHANGED <<m_total, m_busyConnections, waiters, wokenUp, where, refused, shrunk>>
  BY DEF PQ!GoesBad
<1>3. /\ m_freeConnections' \in Seq({"ok", "bad"}) /\ Len(m_freeConnections') = Len(m_freeConnections)
      /\ poolStatus' \in [Clients -> {"ok", "bad"}]
  <2>1. m_freeConnections \in Seq({"ok", "bad"}) /\ poolStatus \in [Clients -> {"ok", "bad"}]
    BY <1>1 DEF PoolType
  <2>2. CASE \E f \in m_busyConnections : poolStatus' = [poolStatus EXCEPT ![f] = "bad"] /\ UNCHANGED m_freeConnections
    BY <2>1, <2>2
  <2>3. CASE (\E i \in DOMAIN m_freeConnections : m_freeConnections' = [m_freeConnections EXCEPT ![i] = "bad"]) /\ UNCHANGED poolStatus
    BY <2>1, <2>3
  <2> QED BY <2>2, <2>3 DEF PQ!GoesBad
<1>4. PoolType'
  BY <1>1, <1>2, <1>3 DEF PoolType
<1>5. PoolPlaces'
  BY <1>1, <1>2 DEF PoolPlaces, ListsApart, InWait, InList
<1>6. InPool' = InPool /\ (m_freeConnections' # <<>> => m_freeConnections # <<>>)
  BY <1>1, <1>2, <1>3 DEF InPool, PoolType
<1>7. PoolSize'
  BY <1>1, <1>2, <1>6 DEF PoolSize
<1>8. PoolTold'
  BY <1>1, <1>2, <1>3 DEF PoolTold
<1> QED BY <1>4, <1>5, <1>7, <1>8 DEF PoolInv

LEMMA PoolStep == PoolInv /\ PQ!PoolNext => PoolInv'
<1> SUFFICES ASSUME PoolInv, PQ!PoolNext PROVE PoolInv'
  OBVIOUS
<1>1. CASE \E f \in Clients : PQ!getConnection(f) \/ PQ!WaitReturns(f) \/ PQ!releaseConnection(f)
  BY <1>1, GetConnectionStep, WaitReturnsStep, ReleaseStep, Zenon
<1>2. CASE \E t \in Totals : PQ!resize(t)
  BY <1>2, ResizeStep, Zenon
<1>3. CASE PQ!GoesBad
  BY <1>3, GoesBadStep
<1>4. PoolType /\ PoolPlaces /\ Destructor \in Fibers
  BY DEF PoolInv, Fibers
<1>5. CASE PQ!Destroy
  <2>1. wokenUp' = wokenUp \ {Destructor}
    BY <1>4, <1>5 DEF PQ!Destroy, PoolPlaces, InWait
  <2> QED BY <1>5, <2>1, DestructorStep DEF PQ!Destroy
<1>6. CASE PQ!DestructorReturns
  <2>1. \A g \in Clients : where[g] # "waiting"
    <3>1. where[Destructor] = "waiting"
      BY <1>4, <1>6 DEF PQ!DestructorReturns, PoolPlaces, InWait
    <3> QED BY <1>4, <3>1 DEF PoolPlaces
  <2> QED BY <1>6, <2>1, DestructorStep DEF PQ!DestructorReturns
<1> QED BY <1>1, <1>2, <1>3, <1>5, <1>6, Zenon DEF PQ!PoolNext

LEMMA PoolInitInv == PQ!PoolInit => PoolInv
<1> SUFFICES ASSUME PQ!PoolInit PROVE PoolInv
  OBVIOUS
<1>1. /\ m_total \in Nat /\ m_freeConnections = [i \in 1..m_total |-> "bad"] /\ m_busyConnections = {}
      /\ poolStatus = [f \in Clients |-> "bad"] /\ waiters = <<>> /\ wokenUp = {}
      /\ where = [f \in Fibers |-> "out"] /\ refused = FALSE /\ shrunk = FALSE
  BY PoolAssumption DEF PQ!PoolInit, Fibers
<1>2. m_freeConnections \in Seq({"ok", "bad"}) /\ Len(m_freeConnections) = m_total
  BY <1>1
<1>3. PoolType
  <2>1. waiters \in Seq(Fibers)
    BY <1>1
  <2>2. poolStatus \in [Clients -> {"ok", "bad"}] /\ where \in [Fibers -> {"out", "waiting", "using", "gone"}]
    BY <1>1
  <2>3. m_busyConnections \in SUBSET Clients /\ wokenUp \in SUBSET Fibers /\ refused \in BOOLEAN /\ shrunk \in BOOLEAN
    BY <1>1
  <2> QED BY <1>1, <1>2, <2>1, <2>2, <2>3 DEF PoolType
<1>4. PoolPlaces
  BY <1>1 DEF PoolPlaces, ListsApart, InWait, InList, Fibers
<1>5. PoolSize
  BY <1>1, <1>2, FS_EmptySet DEF PoolSize, InPool
<1>6. PoolTold
  BY <1>1 DEF PoolTold, Fibers
<1> QED BY <1>3, <1>4, <1>5, <1>6 DEF PoolInv

LEMMA PoolFramed == PoolInv /\ UNCHANGED poolVars => PoolInv'
<1> SUFFICES ASSUME PoolInv, UNCHANGED poolVars PROVE PoolInv'
  OBVIOUS
<1> USE DEF poolVars
<1>1. PoolType'
  BY DEF PoolInv, PoolType
<1>2. PoolPlaces'
  BY DEF PoolInv, PoolPlaces, ListsApart, InWait, InList
<1>3. PoolSize' /\ PoolTold'
  BY DEF PoolInv, PoolSize, PoolTold, InPool
<1> QED BY <1>1, <1>2, <1>3 DEF PoolInv

LEMMA PoolForgetsNobody == PoolInv => PQ!PoolNobodyForgotten
<1> SUFFICES ASSUME PoolInv PROVE PQ!PoolNobodyForgotten
  OBVIOUS
<1>1. PQ!Connections(m_freeConnections) = InPool /\ PQ!Cardinality(wokenUp) = Cardinality(wokenUp)
  BY PQCardinality DEF PQ!Connections, InPool
<1>2. refused \in BOOLEAN /\ shrunk \in BOOLEAN
  BY DEF PoolInv, PoolType
<1>3. m_freeConnections # <<>> => PQ!Connections(m_freeConnections) <= m_total
  BY <1>1 DEF PoolInv, PoolSize
<1>4. /\ (waiters # <<>> /\ ~refused) => Len(m_freeConnections) <= PQ!Cardinality(wokenUp) \/ where[Destructor] = "waiting"
      /\ (where[Destructor] = "waiting" /\ m_busyConnections = {} /\ ~shrunk) => Destructor \in wokenUp
  <2>1. (~refused => refused = FALSE) /\ (~shrunk => shrunk = FALSE)
    BY <1>2
  <2> QED BY <1>1, <2>1 DEF PoolInv, PoolTold
<1>5. ASSUME NEW f \in Clients, where[f] = "waiting" PROVE f \in wokenUp \/ PQ!Contains(waiters, f)
  BY <1>5 DEF PoolInv, PoolPlaces, InWait, InList, Fibers, PQ!Contains
<1> QED BY <1>3, <1>4, <1>5 DEF PQ!PoolNobodyForgotten

-----------------------------------------------------------------------------
(* Together.  A step of one part leaves the others alone.                  *)

ConnInv == /\ PQInv /\ PoolInv /\ BrokerInv /\ CacheInv
           /\ PipeInv /\ SSLInv /\ TimeoutInv /\ SocketInv

LEMMA Framed ==
    ASSUME NEW u, Frame(u)
    PROVE  /\ u # "pipe" => UNCHANGED pipeVars
           /\ u # "ssl" => UNCHANGED sslVars
           /\ u # "broker" => UNCHANGED brokerVars
           /\ u # "pq" => UNCHANGED pqVars
           /\ u # "cache" => UNCHANGED cacheVars
           /\ u # "timeout" => UNCHANGED timeoutVars
           /\ u # "socket" => UNCHANGED socketVars
           /\ u # "pool" => UNCHANGED poolVars
BY Zenon DEF Frame

LEMMA PQFramed == PQInv /\ UNCHANGED pqVars => PQInv'
BY DEF PQInv, pqVars

LEMMA BrokerFramed == BrokerInv /\ UNCHANGED brokerVars => BrokerInv'
BY DEF BrokerInv, brokerVars

LEMMA PipeFramed == PipeInv /\ UNCHANGED pipeVars => PipeInv'
<1> SUFFICES ASSUME PipeInv, UNCHANGED pipeVars PROVE PipeInv'
  OBVIOUS
<1> USE DEF pipeVars
<1>1. PipeType'
  BY DEF PipeInv, PipeType
<1>2. ASSUME NEW e \in Pipe!Ends PROVE Knows(e)'
  BY DEF PipeInv, Knows
<1>3. ASSUME NEW e \in Pipe!Ends, NEW k \in Pipe!Kinds PROVE Place(e, k)' /\ ParkedInVain(e, k)' /\ InCall(e, k)'
  <2>1. Place(e, k) /\ ParkedInVain(e, k) /\ InCall(e, k)
    BY DEF PipeInv
  <2>2. (Place(e, k)' <=> Place(e, k)) /\ (InCall(e, k)' <=> InCall(e, k))
    BY DEF Place, InCall
  <2>3. (ReaderWaits(e)' <=> ReaderWaits(e)) /\ (WriterWaits(e)' <=> WriterWaits(e))
    BY DEF ReaderWaits, WriterWaits
  <2>4. ParkedInVain(e, k)'
    BY <2>1, <2>3 DEF ParkedInVain
  <2> QED BY <2>1, <2>2, <2>4
<1> QED BY <1>1, <1>2, <1>3 DEF PipeInv

LEMMA SSLFramed == SSLInv /\ UNCHANGED sslVars => SSLInv'
<1> SUFFICES ASSUME SSLInv, UNCHANGED sslVars PROVE SSLInv'
  OBVIOUS
<1> USE DEF sslVars
<1>1. SSLType'
  BY DEF SSLInv, SSLType
<1>2. ASSUME NEW s \in SSL!Sides PROVE InOrder(s)' /\ Stage(s)'
  <2>1. InOrder(s) /\ Stage(s)
    BY DEF SSLInv
  <2>2. ToCome(s)' = ToCome(s) /\ (Flies(s)' <=> Flies(s)) /\ (Closes(s)' <=> Closes(s))
    BY DEF ToCome, Leaving, Flies, Closes
  <2>3. InOrder(s)'
    BY <2>1, <2>2 DEF InOrder
  <2>4. Stage(s)'
    BY <2>1, <2>2 DEF Stage, KeepsNothing
  <2> QED BY <2>3, <2>4
<1> QED BY <1>1, <1>2 DEF SSLInv

LEMMA CacheFramed == CacheInv /\ UNCHANGED cacheVars => CacheInv'
<1> SUFFICES ASSUME CacheInv, UNCHANGED cacheVars PROVE CacheInv'
  OBVIOUS
<1>1. Trims(m_conns')
  <2>1. Trims(m_conns) /\ m_conns' = m_conns
    BY NothingTrimmed DEF CacheInv, cacheVars
  <2> QED BY <2>1
<1>2. UNCHANGED <<made, cacheAt, route, leg, start, forced>> /\ UNCHANGED <<clock, cacheClosed, woken, gone>>
  BY DEF cacheVars
<1>3. clock' \in Nat /\ cacheClosed' \in BOOLEAN /\ (cacheClosed => cacheClosed')
  BY <1>2 DEF CacheInv, CacheType
<1>4. woken \subseteq woken' /\ (~cacheClosed' => gone' \subseteq woken')
  BY <1>2 DEF CacheInv
<1> QED BY <1>1, <1>2, <1>3, <1>4, CallersStay

\* What a step of u leaves alone keeps its invariant.
LEMMA OthersKept ==
    ASSUME ConnInv, NEW u, Frame(u)
    PROVE  /\ u # "pipe" => PipeInv'
           /\ u # "ssl" => SSLInv'
           /\ u # "broker" => BrokerInv'
           /\ u # "pq" => PQInv'
           /\ u # "cache" => CacheInv'
           /\ u # "timeout" => TimeoutInv'
           /\ u # "socket" => SocketInv'
           /\ u # "pool" => PoolInv'
<1>1. /\ PQInv /\ PoolInv /\ BrokerInv /\ CacheInv
      /\ PipeInv /\ SSLInv /\ TimeoutInv /\ SocketInv
  BY DEF ConnInv
<1> QED BY <1>1, Framed, PQFramed, PoolFramed, BrokerFramed, CacheFramed, PipeFramed, SSLFramed, TimeoutFramed, SocketFramed, Zenon

LEMMA ConnInit == Init => ConnInv
<1> SUFFICES ASSUME Init PROVE ConnInv
  OBVIOUS
<1>1. PQInv
  BY DEF Init, PQ!PQInit, PQInv
<1> QED BY <1>1, PoolInitInv, BrokerInitInv, CacheInitInv, PipeInitInv, SSLInitInv, TimeoutInitInv, SocketInitInv,
           ConnectionsAssumption DEF Init, ConnInv

LEMMA ConnStep == ConnInv /\ [Next]_vars => ConnInv'
<1> SUFFICES ASSUME ConnInv, [Next]_vars PROVE ConnInv'
  OBVIOUS
<1> USE DEF ConnInv
<1>1. CASE Pipe!PipeNext /\ Frame("pipe")
  BY <1>1, PipeStep, ConnectionsAssumption, OthersKept
<1>2. CASE SSL!SSLNext /\ Frame("ssl")
  BY <1>2, SSLStep, ConnectionsAssumption, OthersKept
<1>3. CASE Broker!BrokerNext /\ Frame("broker")
  BY <1>3, BrokerStep, OthersKept
<1>4. CASE PQ!PQNext /\ Frame("pq")
  BY <1>4, PQStep, OthersKept
<1>5. CASE Cache!CacheNext /\ Frame("cache")
  BY <1>5, CacheStep, OthersKept
<1>6. CASE Timeout!TimeoutNext /\ Frame("timeout")
  BY <1>6, TimeoutStep, OthersKept
<1>7. CASE Sock!SocketNext /\ Frame("socket")
  BY <1>7, SocketStep, OthersKept
<1>8. CASE PQ!PoolNext /\ Frame("pool")
  BY <1>8, PoolStep, OthersKept
<1>9. CASE Frame("client") \/ Frame("server")
  BY <1>9, OthersKept
<1>10. CASE UNCHANGED vars
  <2>1. Frame("client")
    BY <1>10 DEF vars, Frame
  <2> QED BY <2>1, OthersKept
<1> QED BY <1>1, <1>2, <1>3, <1>4, <1>5, <1>6, <1>7, <1>8, <1>9, <1>10 DEF Next

LEMMA ConnHolds == Spec => []ConnInv
<1> QED BY ConnInit, ConnStep, PTL DEF Spec

\* flush() of a pipe (streams/pipe.cpp) returns only when the other end has read
\* everything that was written, or has declared that it will not read: for every
\* buffer size and any number of fibers that write, however their calls, close(),
\* cancelRead(), cancelWrite() and the destructors of the ends come between.
THEOREM FlushIsRead == Spec => FlushMeansRead
<1>1. ConnInv /\ [Next]_vars => [Pipe!FlushReturns]_vars
  <2> SUFFICES ASSUME ConnInv, Next PROVE Pipe!FlushReturns
    OBVIOUS
  <2>1. CASE Pipe!PipeNext
    BY <2>1, FlushStep DEF ConnInv
  <2>2. CASE \E u \in {"timeout", "ssl", "socket", "client", "server", "cache", "broker", "pq", "pool"} : Frame(u)
    <3>1. UNCHANGED pipeFlushed
      BY <2>2, Framed DEF pipeVars
    <3> QED BY <3>1, FlushStep DEF ConnInv
  <2> QED BY <2>1, <2>2 DEF Next
<1> QED BY <1>1, ConnHolds, PTL DEF Spec, FlushMeansRead

\* Whatever the number of flights, records, redirects, retries, addresses and rows: a
\* TLS stream (streams/ssl.cpp) delivers what was written, in order and up to the end; a
\* broker (http/broker.cpp) restores the URI, leaves no socket pending and does not
\* swallow an exception of the body; and a transaction (pq/transaction.cpp) that is gone
\* has left none open on a connection that looks good.
THEOREM CallsLeaveClean == Spec => []LeavesClean
<1>1. ConnInv => LeavesClean
  <2> SUFFICES ASSUME ConnInv PROVE LeavesClean
    OBVIOUS
  <2>1. SSL!SSLDelivers
    BY Delivered DEF ConnInv
  <2>2. Broker!BrokerReturns
    <3>1. BrokerInv
      BY DEF ConnInv
    <3>2. body = "userFailed" /\ pc = "done" => brokerOutcome # Broker!Returned
      BY <3>1 DEF BrokerInv, Broker!Returned, Broker!Exception
    <3> QED BY <3>1, <3>2 DEF BrokerInv, Broker!BrokerReturns, Broker!InBase, Broker!NoStatus
  <2>3. PQ!NotLeftInTransaction
    BY DEF ConnInv, PQInv, PQ!NotLeftInTransaction, PQ!statusOK
  <2> QED BY <2>1, <2>2, <2>3 DEF LeavesClean
<1> QED BY <1>1, ConnHolds, PTL

\* WaitersKept but for the HTTP client.  A fiber parked in an end of a pipe is where the
\* other end will look for it, and one that need not wait has been scheduled
\* (streams/pipe.cpp); nobody sleeps in a pool of connections that has one for it, nor its
\* destructor when all are back, unless connect() threw or the pool was made smaller
\* (pq/connectionpool.cpp); an operation under a timeout has a timer that can still end it
\* (streams/timeout.cpp); and event, timer and cancellation schedule a fiber inside a
\* socket operation once between them (socket.cpp).  For any number of clients, calls,
\* operations and changes of the timeouts.
THEOREM NobodyIsForgotten ==
    Spec => [](/\ Pipe!NoForgottenFiber /\ PQ!PoolNobodyForgotten
               /\ Timeout!OperationCovered /\ Sock!ScheduledOnce)
<1>1. ConnInv => /\ Pipe!NoForgottenFiber /\ PQ!PoolNobodyForgotten
                 /\ Timeout!OperationCovered /\ Sock!ScheduledOnce
  BY NobodyForgotten, PoolForgetsNobody, TimeoutCovers, SocketOnce DEF ConnInv
<1> QED BY <1>1, ConnHolds, PTL

\* ConnectionCache::getConnectionViaProxy() (http/broker.cpp) opens connections without
\* the lock: for any number of callers, end points, candidate proxies and connections, while
\* the cache is open its placeholders are the attempts in progress, whoever waits for one
\* and has not been woken waits for an attempt that is still to end, and whoever waited for
\* an entry that is gone has been woken.
THEOREM PlaceholdersAreAttempts == Spec => []Cache!PlaceholdersMatch
<1>1. ConnInv => Cache!PlaceholdersMatch
  BY PlaceholdersHeld DEF ConnInv
<1> QED BY <1>1, ConnHolds, PTL

\* When nobody has a choice of proxies, a host moreover never has more connections, those
\* being opened included, than m_connectionsPerHost allows (http/broker.cpp), until a caller
\* forces a new one.  With a choice, getConnection() goes on to the next proxy after a
\* failure without looking how many connections that one has.
THEOREM CacheCountsHold == OneWay => (Spec => []CacheCounts)
<1> SUFFICES ASSUME OneWay PROVE Spec => []CacheCounts
  OBVIOUS
<1>1. ConnInv => CacheCounts
  BY PlaceholdersHeld DEF ConnInv, CacheInv, CacheCounts
<1> QED BY <1>1, ConnHolds, PTL
=============================================================================
