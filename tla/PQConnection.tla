---------------------------- MODULE PQConnection ----------------------------
(***************************************************************************)
(* pq/connection.cpp, transaction.cpp, copy.cpp and the execution of       *)
(* statements: a PQ::Connection in the hands of one fiber, with a          *)
(* Transaction, and the streams of COPY.  With an IOManager the calls are  *)
(* asynchronous: libpq then refuses a command until all results of the one *)
(* before were fetched, down to the NULL; PQexec() and the like discard    *)
(* what is left instead.  libpq and the server are external: a command     *)
(* works, is rejected, or the connection is lost during it.                *)
(*                                                                         *)
(* And pq/connectionpool.cpp, below, to which a connection is no more than *)
(* what its status() says.                                                 *)
(***************************************************************************)
EXTENDS Naturals, Sequences, FiniteSets, SequencesExt

CONSTANTS
    MaxRows,      \* bound: rows that a COPY OUT sends
    Clients,      \* fibers that use connections of the pool
    Destructor,   \* the fiber that destroys the pool
    Totals        \* values of m_total, given to the constructor and to resize()

VARIABLES
    async,             \* m_scheduler is set
    m_conn,            \* the PGconn: "none", "ok" or "bad" (PQstatus)
    m_exceptioned,
    pending,           \* libpq: "idle", "results" (not all fetched), "copyIn" or "copyOut"
    server,            \* the session's transaction: "none", "open" or "failed"
    transaction,       \* the Transaction object: "none", "active" or "ended" (m_active)
    copy,              \* the COPY stream: "none", "in" or "out", "...End" when its m_conn is reset
    rows,              \* rows that the server has not sent yet
    eof                \* the last read() of COPY OUT returned 0

pqVars == <<async, m_conn, m_exceptioned, pending, server, transaction, copy, rows, eof>>
copyVars == <<copy, rows, eof>>

PQInit ==
    /\ async \in BOOLEAN
    /\ m_conn = "none" /\ m_exceptioned = FALSE /\ pending = "idle" /\ server = "none"
    /\ transaction = "none" /\ copy = "none" /\ rows = 0 /\ eof = FALSE

\* Connection::status() = CONNECTION_OK.
statusOK == m_conn = "ok" /\ ~m_exceptioned

-----------------------------------------------------------------------------
\* connect() replaces the PGconn, so that streams lose their weak pointer to it;
\* reset() keeps it.  Both begin a new session, or throw.
connect ==
    /\ m_exceptioned' = FALSE
    /\ m_conn' \in {"ok", "bad"}
    /\ pending' = "idle" /\ server' = "none"
    /\ copy' = CASE copy = "in" -> "inEnd" [] copy = "out" -> "outEnd" [] OTHER -> copy
    /\ UNCHANGED <<async, transaction, rows, eof>>
reset ==
    /\ m_conn # "none"
    /\ m_exceptioned' = FALSE
    /\ m_conn' \in {"ok", "bad"}
    /\ pending' = "idle" /\ server' = "none"
    /\ UNCHANGED <<async, transaction, copyVars>>

\* The server's part: what `command' does to the session, if it works or not.
\* COMMIT ends a failed transaction too, by rolling it back.
Works(command) == CASE command = "BEGIN" -> IF server = "none" THEN "open" ELSE server
                    [] command \in {"COMMIT", "ROLLBACK"} -> "none"
                    [] OTHER -> server
Rejected(command) == IF server = "none" \/ command = "COMMIT" THEN "none" ELSE "failed"

\* A COPY IN that PQexec() ends is an error to the server.
Discards == ~async /\ pending = "copyIn" /\ server = "open"

(***************************************************************************)
(* PreparedStatement::execute(): PQsend..., flush, and the loop that       *)
(* fetches results until NULL; or PQexec....  `thrown' says how it ended,  *)
(* `left' what it leaves unfetched when the result is an error.            *)
(***************************************************************************)
Command(command, thrown, left) ==
    \/ /\ m_conn # "ok" \/ (async /\ pending # "idle")        \* refused by PQsend...
       /\ thrown
       /\ UNCHANGED <<m_conn, pending, server>>
    \/ /\ m_conn = "ok" /\ (async => pending = "idle")
       /\ \/ /\ ~thrown
             /\ server = "failed" => command \in {"COMMIT", "ROLLBACK"}
             /\ ~(Discards /\ command = "query")
             /\ server' = Works(command) /\ pending' = "idle" /\ UNCHANGED m_conn
          \/ /\ thrown
             /\ command # "ROLLBACK"                           \* the server takes it always
             /\ server' = Rejected(command) /\ pending' = left /\ UNCHANGED m_conn
          \/ /\ thrown
             /\ m_conn' = "bad" /\ pending' = "idle" /\ server' = "none"

\* Mutant: the wrapper does not mark the connection.
executeUnmarked(command, thrown) ==
    m_conn # "none" /\ Command(command, thrown, "idle") /\ UNCHANGED m_exceptioned

\* Connection::execute(): an exception makes status() bad until the next connect().
execute(command, thrown) ==
    /\ m_conn # "none"
    /\ Command(command, thrown, "idle")
    /\ m_exceptioned' = (m_exceptioned \/ thrown)

Execute == \E thrown \in BOOLEAN : /\ execute("query", thrown)
                                   /\ UNCHANGED <<async, transaction, copyVars>>

\* prepare() of a named statement leaves the loop at the first error, before the NULL
\* was fetched; PQprepare() fetches it.  Neither it nor the statement's own execute()
\* marks the connection.
prepare ==
    /\ m_conn # "none"
    /\ \E thrown \in BOOLEAN : Command("query", thrown, IF async THEN "results" ELSE "idle")
    /\ UNCHANGED <<async, m_exceptioned, transaction, copyVars>>
StatementExecute ==
    /\ m_conn # "none"
    /\ \E thrown \in BOOLEAN : Command("query", thrown, "idle")
    /\ UNCHANGED <<async, m_exceptioned, transaction, copyVars>>

-----------------------------------------------------------------------------
\* Transaction: when BEGIN throws there is no object; commit() and rollback() leave it
\* active when they throw; the destructor rolls back an active one and swallows.
Begin ==
    /\ transaction = "none"
    /\ \E thrown \in BOOLEAN : /\ execute("BEGIN", thrown)
                               /\ transaction' = IF thrown THEN "none" ELSE "active"
    /\ UNCHANGED <<async, copyVars>>
commit ==
    /\ transaction = "active"
    /\ \E thrown \in BOOLEAN : /\ execute("COMMIT", thrown)
                               /\ transaction' = IF thrown THEN "active" ELSE "ended"
    /\ UNCHANGED <<async, copyVars>>
rollback ==
    /\ transaction = "active"
    /\ \E thrown \in BOOLEAN : /\ execute("ROLLBACK", thrown)
                               /\ transaction' = IF thrown THEN "active" ELSE "ended"
    /\ UNCHANGED <<async, copyVars>>
DestroyTransaction ==
    /\ transaction # "none" /\ transaction' = "none"
    /\ IF transaction = "active" THEN \E thrown \in BOOLEAN : execute("ROLLBACK", thrown)
       ELSE UNCHANGED <<m_conn, m_exceptioned, pending, server>>
    /\ UNCHANGED <<async, copyVars>>

-----------------------------------------------------------------------------
\* CopyParams::execute(): the command is accepted, and the connection is in COPY mode,
\* or it fails like any other.
CopyExecute(out) ==
    /\ copy = "none" /\ m_conn # "none"
    /\ \/ /\ Command("query", TRUE, "idle") /\ UNCHANGED copyVars
       \/ /\ m_conn = "ok" /\ server # "failed" /\ (async => pending = "idle") /\ ~Discards
          /\ pending' = IF out THEN "copyOut" ELSE "copyIn"
          /\ copy' = IF out THEN "out" ELSE "in"
          /\ rows' \in IF out THEN 0..MaxRows ELSE {0}
          /\ eof' = FALSE
          /\ UNCHANGED <<m_conn, server>>
    /\ UNCHANGED <<async, m_exceptioned, transaction>>

\* putCopyEnd(): the loop over the results leaves at an error, before the NULL.
putCopyEnd(error, thrown) ==
    \/ /\ pending # "copyIn" \/ m_conn # "ok"
       /\ thrown
       /\ UNCHANGED <<m_conn, pending, server>>
    \/ /\ pending = "copyIn" /\ m_conn = "ok"
       /\ \/ ~thrown /\ ~error /\ pending' = "idle" /\ UNCHANGED <<m_conn, server>>
          \/ thrown /\ pending' = "results" /\ server' = Rejected("query") /\ UNCHANGED m_conn
          \/ thrown /\ m_conn' = "bad" /\ pending' = "idle" /\ server' = "none"

\* close() resets the stream's pointer only when that works; the destructor aborts a COPY
\* that was not closed, and swallows.
CopyInClose ==
    /\ copy \in {"in", "inEnd"}
    /\ IF copy = "inEnd" THEN UNCHANGED <<m_conn, pending, server, copy>>
       ELSE \E thrown \in BOOLEAN : /\ putCopyEnd(FALSE, thrown)
                                    /\ copy' = IF thrown THEN "in" ELSE "inEnd"
    /\ UNCHANGED <<async, m_exceptioned, transaction, rows, eof>>
CopyInDestroy ==
    /\ copy \in {"in", "inEnd"} /\ copy' = "none"
    /\ IF copy = "in" THEN \E thrown \in BOOLEAN : putCopyEnd(TRUE, thrown)
       ELSE UNCHANGED <<m_conn, pending, server>>
    /\ UNCHANGED <<async, m_exceptioned, transaction, rows, eof>>

(***************************************************************************)
(* CopyOutStream::read().  PQgetCopyData() gives a row; or, when called    *)
(* asynchronously, 0 when none has come: the fiber then waits for the      *)
(* socket, but the `continue' that follows ends its do ... while (false),  *)
(* and the call returns the 0 bytes in m_readBuffer.  Or -1, the end: the  *)
(* results are fetched.  Or -2, and it throws.                             *)
(***************************************************************************)
CopyOutRow ==
    /\ copy = "out" /\ pending = "copyOut" /\ m_conn = "ok" /\ rows > 0
    /\ rows' = rows - 1 /\ eof' = FALSE
    /\ UNCHANGED <<async, m_conn, m_exceptioned, pending, server, transaction, copy>>
CopyOutNothingYet ==
    /\ copy = "out" /\ pending = "copyOut" /\ m_conn = "ok" /\ async
    /\ eof' = TRUE
    /\ UNCHANGED <<async, m_conn, m_exceptioned, pending, server, transaction, copy, rows>>
CopyOutEnd ==
    /\ copy = "out" /\ pending = "copyOut" /\ m_conn = "ok" /\ rows = 0
    /\ copy' = "outEnd"
    /\ \/ pending' = "idle" /\ eof' = TRUE /\ UNCHANGED server
       \/ pending' = "results" /\ server' = Rejected("query") /\ eof' = FALSE   \* throws
    /\ UNCHANGED <<async, m_conn, m_exceptioned, transaction, rows>>
CopyOutThrows ==
    /\ copy = "out" /\ eof' = FALSE
    /\ IF pending # "copyOut" \/ m_conn # "ok" THEN UNCHANGED <<m_conn, pending, server>>
       ELSE m_conn' = "bad" /\ pending' = "idle" /\ server' = "none"
    /\ UNCHANGED <<async, m_exceptioned, transaction, copy, rows>>
CopyOutAfterEnd ==
    /\ copy = "outEnd" /\ eof' = TRUE
    /\ UNCHANGED <<async, m_conn, m_exceptioned, pending, server, transaction, copy, rows>>
\* CopyOutStream has no destructor of its own.
CopyOutDestroy ==
    /\ copy \in {"out", "outEnd"} /\ copy' = "none" /\ rows' = 0 /\ eof' = FALSE
    /\ UNCHANGED <<async, m_conn, m_exceptioned, pending, server, transaction>>

PQNext ==
    \/ connect \/ reset \/ Execute \/ prepare \/ StatementExecute
    \/ Begin \/ commit \/ rollback \/ DestroyTransaction
    \/ \E out \in BOOLEAN : CopyExecute(out)
    \/ CopyInClose \/ CopyInDestroy
    \/ CopyOutRow \/ CopyOutNothingYet \/ CopyOutEnd \/ CopyOutThrows \/ CopyOutAfterEnd \/ CopyOutDestroy

PQSpec == PQInit /\ [][PQNext]_pqVars

-----------------------------------------------------------------------------
\* Whatever failed in between (a statement, a COPY, the connection, the COMMIT or the
\* ROLLBACK itself): once the Transaction object is gone, the session is in no
\* transaction, or status() is bad and the pool will connect anew.
NotLeftInTransaction == transaction = "none" => server = "none" \/ ~statusOK

\* "A return value of 0 is the only reliable method of detecting EOF" (stream.h).
CopyOutNoFalseEof == eof => rows = 0

-----------------------------------------------------------------------------
(***************************************************************************)
(* The pool.  Every operation holds m_mutex, also while it connects, and   *)
(* lets go of it only in m_condition.wait(): so getConnection is one step  *)
(* up to the wait and one after it.  A connection goes bad when its server *)
(* goes away, when a statement throws, or (connectionExpired) when it has  *)
(* been free for too long.                                                 *)
(***************************************************************************)
VARIABLES
    m_total,
    m_freeConnections,   \* statuses, "ok" or "bad"
    m_busyConnections,   \* the clients that hold one
    status,              \* status[f]: status of the one that f holds
    waiters, wokenUp,    \* m_condition's list, and fibers it handed to m_mutex
    where,               \* where each fiber is
    refused, shrunk      \* history: a connect() threw; resize() made the pool smaller

poolVars == <<m_total, m_freeConnections, m_busyConnections, status, waiters, wokenUp, where,
              refused, shrunk>>

PoolInit ==
    /\ m_total \in Totals
    /\ m_freeConnections = [i \in 1..m_total |-> "bad"]       \* not connected yet
    /\ m_busyConnections = {} /\ status = [f \in Clients |-> "bad"]
    /\ waiters = <<>> /\ wokenUp = {}
    /\ where = [f \in Clients \cup {Destructor} |-> "out"]
    /\ refused = FALSE /\ shrunk = FALSE

Connections(free) == Len(free) + Cardinality(m_busyConnections)

\* m_condition.signal(): the first fiber gets in line for m_mutex.
signal == IF waiters = <<>> THEN UNCHANGED <<waiters, wokenUp>>
          ELSE waiters' = Tail(waiters) /\ wokenUp' = wokenUp \cup {Head(waiters)}

\* The rest of getConnection(), once a connection is free: one that is expired or bad
\* is connected anew, which may throw and leaves it where it is.
Obtain(f, free) ==
    \/ /\ m_freeConnections' = Tail(free)
       /\ m_busyConnections' = m_busyConnections \cup {f}
       /\ status' = [status EXCEPT ![f] = "ok"]
       /\ where' = [where EXCEPT ![f] = "using"]
       /\ UNCHANGED refused
    \/ /\ Head(free) = "bad"
       /\ m_freeConnections' = free
       /\ where' = [where EXCEPT ![f] = "out"]
       /\ refused' = TRUE
       /\ UNCHANGED <<m_busyConnections, status>>

\* The loop: the fiber waits as long as none is free.
Waits(f) == /\ waiters' = Append(waiters, f)
            /\ where' = [where EXCEPT ![f] = "waiting"]
            /\ UNCHANGED <<m_freeConnections, m_busyConnections, status, refused>>

getConnection(f) ==
    LET free == IF m_freeConnections = <<>> /\ Cardinality(m_busyConnections) < m_total
                THEN <<"bad">> ELSE m_freeConnections
    IN /\ where[f] = "out" /\ where[Destructor] = "out"
       /\ \/ free = <<>> /\ Waits(f)
          \/ free # <<>> /\ Obtain(f, free) /\ UNCHANGED waiters
       /\ UNCHANGED <<m_total, wokenUp, shrunk>>

WaitReturns(f) ==
    /\ f \in wokenUp /\ wokenUp' = wokenUp \ {f}
    /\ \/ m_freeConnections = <<>> /\ Waits(f)
       \/ m_freeConnections # <<>> /\ Obtain(f, m_freeConnections) /\ UNCHANGED waiters
    /\ UNCHANGED <<m_total, shrunk>>

\* Mutant: the size is compared before the connection leaves the busy list.
releaseConnectionLate(f) ==
    /\ f \in m_busyConnections
    /\ m_busyConnections' = m_busyConnections \ {f}
    /\ IF Connections(m_freeConnections) < m_total
       THEN m_freeConnections' = <<status[f]>> \o m_freeConnections /\ signal
       ELSE UNCHANGED <<m_freeConnections, waiters, wokenUp>>
    /\ where' = [where EXCEPT ![f] = "out"]
    /\ UNCHANGED <<m_total, status, refused, shrunk>>

\* The deleter of the pointer that getConnection() returned.  A connection that the pool
\* has no room for is dropped, and nobody is told.
releaseConnection(f) ==
    LET busy == m_busyConnections \ {f}
    IN /\ f \in m_busyConnections
       /\ m_busyConnections' = busy
       /\ IF Cardinality(busy) + Len(m_freeConnections) < m_total
          THEN /\ m_freeConnections' = <<status[f]>> \o m_freeConnections
               /\ signal
          ELSE UNCHANGED <<m_freeConnections, waiters, wokenUp>>
       /\ where' = [where EXCEPT ![f] = "out"]
       /\ UNCHANGED <<m_total, status, refused, shrunk>>

\* Erases free connections while there are too many.
resize(n) ==
    LET excess == IF Connections(m_freeConnections) > n THEN Connections(m_freeConnections) - n ELSE 0
    IN /\ where[Destructor] = "out"
       /\ m_total' = n
       /\ m_freeConnections' = SubSeq(m_freeConnections, excess + 1, Len(m_freeConnections))
       /\ shrunk' = (shrunk \/ n < m_total)
       /\ UNCHANGED <<m_busyConnections, status, waiters, wokenUp, where, refused>>

\* ~ConnectionPool(), when nobody is in getConnection(), waits until no connection is busy.
DestructorWaits ==
    \/ m_busyConnections = {} /\ where' = [where EXCEPT ![Destructor] = "gone"] /\ UNCHANGED waiters
    \/ /\ m_busyConnections # {} /\ waiters' = Append(waiters, Destructor)
       /\ where' = [where EXCEPT ![Destructor] = "waiting"]
Destroy ==
    /\ where[Destructor] = "out" /\ \A f \in Clients : where[f] # "waiting"
    /\ DestructorWaits
    /\ UNCHANGED <<m_total, m_freeConnections, m_busyConnections, status, wokenUp, refused, shrunk>>
DestructorReturns ==
    /\ Destructor \in wokenUp /\ wokenUp' = wokenUp \ {Destructor}
    /\ DestructorWaits
    /\ UNCHANGED <<m_total, m_freeConnections, m_busyConnections, status, refused, shrunk>>

GoesBad ==
    /\ \/ \E f \in m_busyConnections : status' = [status EXCEPT ![f] = "bad"] /\ UNCHANGED m_freeConnections
       \/ /\ \E i \in DOMAIN m_freeConnections : m_freeConnections' = [m_freeConnections EXCEPT ![i] = "bad"]
          /\ UNCHANGED status
    /\ UNCHANGED <<m_total, m_busyConnections, waiters, wokenUp, where, refused, shrunk>>

PoolNext ==
    \/ \E f \in Clients : getConnection(f) \/ WaitReturns(f) \/ releaseConnection(f)
    \/ \E n \in Totals : resize(n)
    \/ Destroy \/ DestructorReturns \/ GoesBad

PoolSpec == PoolInit /\ [][PoolNext]_poolVars

-----------------------------------------------------------------------------
\* The pool keeps no more than m_total connections once all that are too many have been
\* given back.  Nobody sleeps while a connection is free for it, unless whoever was told
\* of it failed to connect; and the destructor does not sleep when nothing is busy, unless
\* the pool was made smaller.
PoolNobodyForgotten ==
    /\ m_freeConnections # <<>> => Connections(m_freeConnections) <= m_total
    /\ (waiters # <<>> /\ ~refused) =>
          \/ Len(m_freeConnections) <= Cardinality(wokenUp)
          \/ where[Destructor] = "waiting"
    /\ (where[Destructor] = "waiting" /\ m_busyConnections = {} /\ ~shrunk) => Destructor \in wokenUp
    /\ \A f \in Clients : where[f] = "waiting" => f \in wokenUp \/ Contains(waiters, f)
=============================================================================
