---------------------------- MODULE Connections ----------------------------
(***************************************************************************)
(* The parts of the library in which fibers wait for one another, for a    *)
(* peer or for a timer on the way to a connection: pipes, timeouts, TLS,   *)
(* sockets, the two ends of an HTTP connection, the cache of connections   *)
(* and the broker of requests above them, and the PostgreSQL connections   *)
(* with their pool.  `use' says which of them a behaviour is about; the    *)
(* others stay in their initial state.                                     *)
(***************************************************************************)
EXTENDS Naturals, Sequences, FiniteSets

CONSTANTS
    m_bufferSize, Writers, MaxBytes,                                    \* PipeStream
    MaxOps, MaxConfig,                                                  \* TimeoutStream
    Flights, MaxRecords, Buffered,                                      \* SSLStream
    MaxCalls, Timeouts,                                                 \* Socket
    MaxRequests, MaxConcurrent, Bodies, Dropped, Uses,                  \* HTTPClient
    MaxServed,                                                          \* HTTPServer
    Callers, Routes, m_connectionsPerHost, ForceNew, MaxConnections, MaxClock,  \* ConnectionCache
    URIs, Original, m_maxRedirects, MaxRetries, MaxAttempts, Addresses, \* RequestBroker
    MaxRows, Clients, Destructor, Totals                                \* PQConnection

\* A handshake has flights (a pipe may have no room: then nothing is ever written).
ASSUME ConnectionsAssumption == m_bufferSize \in Nat /\ Flights \in Nat \ {0}

\* Somebody asks for a connection, by way of one end point at least, and a host may
\* have one.
ASSUME CacheAssumption ==
    /\ IsFiniteSet(Callers) /\ m_connectionsPerHost \in Nat \ {0} /\ MaxClock \in Nat
    /\ \A r \in Routes : Len(r) \in Nat \ {0}
    /\ ForceNew \subseteq BOOLEAN

ASSUME HTTPAssumption == MaxRequests \in Nat /\ MaxServed \in Nat \ {0}

\* The pool's sizes are numbers, and the fiber that destroys it is none of its clients.
ASSUME PoolAssumption == IsFiniteSet(Clients) /\ Destructor \notin Clients /\ Totals \subseteq Nat

VARIABLES
    use,
    life, pipeClosed, m_otherClosed, m_readBuffer, m_cancelledRead, m_cancelledWrite,
    pipePending, doing, queued, pipeWritten, pipeFlushed,
    timeoutSet, m_lastTimedOut, m_permaTimedOut, m_timer, late, op, timeoutCancelled,
    timeoutOutcome, toggled, expired, ops, configs,
    phase, flights, sslWritten, received, m_writeBio, m_writeBuffer, parentBuffer,
    sslWire, m_readBio, shutdown, blocked,
    call, kind, sat, ready, registered, scheduled, timers, hasTimeout, socketCancelled,
    result, socketConn,
    how, clientConn, m_requestCount, clientAt, rat, clientWire, clientFlushed, consumed,
    m_stream, clientClosed, m_idleTimer,
    serverConn, serverAt, m_willClose, m_pipeline, serverCancelled, serverClosed,
    m_conns, cacheClosed, made, dead, cacheAt, route, leg, start, woken, seen, gone,
    failure, forced, clock,
    pc, brokerOutcome, brokerStatus, currentUri, base, redirect, attempts, retries,
    body, brokerPending, m_cancelled, address, moved,
    async, m_conn, m_exceptioned, pending, server, transaction, copy, rows, eof,
    m_total, m_freeConnections, m_busyConnections, poolStatus, waiters, wokenUp, where,
    refused, shrunk

pipeVars == <<life, pipeClosed, m_otherClosed, m_readBuffer, m_cancelledRead, m_cancelledWrite,
              pipePending, doing, queued, pipeWritten, pipeFlushed>>
timeoutVars == <<timeoutSet, m_lastTimedOut, m_permaTimedOut, m_timer, late, op, timeoutCancelled,
                 timeoutOutcome, toggled, expired, ops, configs>>
sslVars == <<phase, flights, sslWritten, received, m_writeBio, m_writeBuffer, parentBuffer,
             sslWire, m_readBio, shutdown, blocked>>
socketVars == <<call, kind, sat, ready, registered, scheduled, timers, hasTimeout,
                socketCancelled, result, socketConn>>
clientVars == <<how, clientConn, m_requestCount, clientAt, rat, clientWire, clientFlushed,
                consumed, m_stream, clientClosed, m_idleTimer>>
serverVars == <<serverConn, serverAt, m_willClose, m_pipeline, serverCancelled, serverClosed>>
cacheVars == <<m_conns, cacheClosed, made, dead, cacheAt, route, leg, start, woken, seen, gone,
               failure, forced, clock>>
brokerVars == <<pc, brokerOutcome, brokerStatus, currentUri, base, redirect, attempts, retries,
                body, brokerPending, m_cancelled, address, moved>>
pqVars == <<async, m_conn, m_exceptioned, pending, server, transaction, copy, rows, eof>>
poolVars == <<m_total, m_freeConnections, m_busyConnections, poolStatus, waiters, wokenUp, where,
              refused, shrunk>>
vars == <<use, pipeVars, timeoutVars, sslVars, socketVars, clientVars, serverVars, cacheVars,
          brokerVars, pqVars, poolVars>>

Pipe == INSTANCE PipeStream WITH m_closed <- pipeClosed, m_pending <- pipePending,
                                 written <- pipeWritten, flushed <- pipeFlushed
Timeout == INSTANCE TimeoutStream WITH cancelled <- timeoutCancelled, outcome <- timeoutOutcome
SSL == INSTANCE SSLStream WITH written <- sslWritten, wire <- sslWire
Sock == INSTANCE Socket WITH cancelled <- socketCancelled, conn <- socketConn
Client == INSTANCE HTTPClient WITH conn <- clientConn, at <- clientAt, wire <- clientWire,
                                   flushed <- clientFlushed, closed <- clientClosed
Server == INSTANCE HTTPServer WITH conn <- serverConn, at <- serverAt,
                                   cancelled <- serverCancelled, closed <- serverClosed
Cache == INSTANCE ConnectionCache WITH m_closed <- cacheClosed, at <- cacheAt
Broker == INSTANCE RequestBroker WITH outcome <- brokerOutcome, status <- brokerStatus,
                                      m_pending <- brokerPending
PQ == INSTANCE PQConnection WITH status <- poolStatus

-----------------------------------------------------------------------------
\* A choice that the initial state of a component leaves open is made only when the
\* component is in use.
Settled ==
    /\ use = "socket" \/ hasTimeout = CHOOSE t \in Timeouts : TRUE
    /\ use = "client" \/ how = CHOOSE h \in Uses : TRUE
    /\ use = "cache" \/ route = CHOOSE r \in [Callers -> Routes] : TRUE
    /\ use = "pq" \/ async = FALSE
    /\ use = "pool" \/ m_total = CHOOSE n \in Totals : TRUE

Init ==
    /\ use \in {"pipe", "timeout", "ssl", "socket", "client", "server", "cache", "broker", "pq", "pool"}
    /\ Settled
    /\ Pipe!PipeInit /\ Timeout!TimeoutInit /\ SSL!SSLInit /\ Sock!SocketInit
    /\ Client!HTTPClientInit /\ Server!HTTPServerInit /\ Cache!CacheInit /\ Broker!BrokerInit
    /\ PQ!PQInit /\ PQ!PoolInit

\* A step of one component leaves the others alone.
Frame(u) ==
    /\ UNCHANGED use
    /\ IF u = "pipe" THEN TRUE ELSE UNCHANGED pipeVars
    /\ IF u = "timeout" THEN TRUE ELSE UNCHANGED timeoutVars
    /\ IF u = "ssl" THEN TRUE ELSE UNCHANGED sslVars
    /\ IF u = "socket" THEN TRUE ELSE UNCHANGED socketVars
    /\ IF u = "client" THEN TRUE ELSE UNCHANGED clientVars
    /\ IF u = "server" THEN TRUE ELSE UNCHANGED serverVars
    /\ IF u = "cache" THEN TRUE ELSE UNCHANGED cacheVars
    /\ IF u = "broker" THEN TRUE ELSE UNCHANGED brokerVars
    /\ IF u = "pq" THEN TRUE ELSE UNCHANGED pqVars
    /\ IF u = "pool" THEN TRUE ELSE UNCHANGED poolVars

Next ==
    \/ use = "pipe" /\ Pipe!PipeNext /\ Frame("pipe")
    \/ use = "timeout" /\ Timeout!TimeoutNext /\ Frame("timeout")
    \/ use = "ssl" /\ SSL!SSLNext /\ Frame("ssl")
    \/ use = "socket" /\ Sock!SocketNext /\ Frame("socket")
    \/ use = "client" /\ Client!HTTPClientNext /\ Frame("client")
    \/ use = "server" /\ Server!HTTPServerNext /\ Frame("server")
    \/ use = "cache" /\ Cache!CacheNext /\ Frame("cache")
    \/ use = "broker" /\ Broker!BrokerNext /\ Frame("broker")
    \/ use = "pq" /\ PQ!PQNext /\ Frame("pq")
    \/ use = "pool" /\ PQ!PoolNext /\ Frame("pool")

(***************************************************************************)
(* Schedulers run what is scheduled and timers expire.  Where the bounds   *)
(* make behaviours finite it is enough that somebody goes on while anybody *)
(* can; in a pipe and in the cache, where calls can be repeated for ever,  *)
(* every fiber has its own fairness.                                       *)
(***************************************************************************)
Progress ==
    \/ use = "timeout" /\ Timeout!TimeoutProgress /\ Frame("timeout")
    \/ use = "ssl" /\ SSL!SSLProgress /\ Frame("ssl")
    \/ use = "socket" /\ Sock!SocketProgress /\ Frame("socket")
    \/ use = "client" /\ Client!ClientProgress /\ Frame("client")
    \/ use = "server" /\ Server!ServerProgress /\ Frame("server")

Fairness == WF_vars(Progress) /\ Pipe!PipeFairness /\ Cache!CacheFairness

Spec == Init /\ [][Next]_vars /\ Fairness

-----------------------------------------------------------------------------
\* Whoever waits is where the one that has to wake it will look: a reader or writer parked
\* in the other end of a pipe, a request queued behind another, a client of the pool.  An
\* operation under a timeout has a timer that can still end it, and event, timer and
\* cancellation wake a fiber inside a socket operation once between them.
WaitersKept ==
    /\ Pipe!NoForgottenFiber
    /\ Client!NobodyForgotten
    /\ PQ!PoolNobodyForgotten
    /\ Timeout!OperationCovered
    /\ Sock!ScheduledOnce

\* Requests and responses on one connection keep their order on both sides, whichever of
\* them fails, is destroyed or closes the connection meanwhile: in the client's list only
\* requests whose responses failed are missing, and the server writes no response before
\* all the earlier ones are complete.
PipelineInOrder == Client!invariant /\ Server!ServerInvariant /\ Server!ResponsesInOrder

\* The cache's placeholders are its attempts in progress, and a host has no more
\* connections than allowed, though connections are opened without the lock.
CacheCounts == Cache!PlaceholdersMatch /\ Cache!HostLimit

\* What a call or an object leaves behind is what its caller may count on: a TLS stream
\* delivers what was written, a broker restores the URI and has no socket pending, and a
\* transaction that is gone has left no transaction open on a connection that looks good.
LeavesClean == SSL!SSLDelivers /\ Broker!BrokerReturns /\ PQ!NotLeftInTransaction

\* flush() of a pipe returns only when the other end has read everything, or has declared
\* that it will not read.
FlushMeansRead == [][Pipe!FlushReturns]_vars

\* What the n-th call waits for, each component's in turn: the other end of a pipe that
\* goes, a turn on an HTTP connection of either side, an attempt to connect, a timeout or a
\* cancellation, the other side of TLS.
Waits(n) ==
    \/ n <= 2 /\ (Pipe!CallLeftAlone(n, "reader") \/ Timeout!UnderTimeout(<<"read", "write">>[n]))
    \/ n <= 2 /\ use = "ssl" /\ SSL!SSLUnderWay
    \/ n > 2 /\ (Pipe!CallLeftAlone(n - 2, "writer") \/ Sock!CancelledWaits)
    \/ n \in Client!Requests /\ Client!RequestWaits(n)
    \/ n \in Server!Served /\ Server!RequestServed(n)
    \/ n \in Callers /\ Cache!CallerWaits(n)

\* No call waits for ever for something that has happened, that another fiber of this
\* process is to do, or that a timer is to end.
WaitsEnd == \A n \in 1..4 : []<>~Waits(n)

-----------------------------------------------------------------------------
\* A value of Routes that a configuration cannot write: everybody asks for the same
\* host, without a proxy.
MCRoutes == {<<"a">>}
=============================================================================
