--------------------------- MODULE ConnectionCache ---------------------------
(***************************************************************************)
(* The ConnectionCache of http/broker.cpp.  Fibers ask it for a connection *)
(* to a host, directly or by way of candidate proxies (a sequence of end   *)
(* points).  A fiber that has to make a connection leaves a placeholder in *)
(* the list and lets go of m_mutex; others may wait for it on the          *)
(* condition of the end point.  Connections die, are dropped when they are *)
(* idle or their peer closes, and may be closed or aborted all at once.    *)
(***************************************************************************)
EXTENDS Naturals, Sequences, FiniteSets

CONSTANTS
    Callers,
    Routes,               \* the sequences of end points that are asked for
    m_connectionsPerHost,
    ForceNew,             \* values of forceNewConnection
    MaxConnections,       \* bound: connections made
    MaxClock              \* bound

Endpoints == UNION {{route[i] : i \in 1..Len(route)} : route \in Routes}
Connections == 1..MaxConnections
Never == MaxClock + 1                \* ~0ull

VARIABLES
    m_conns,     \* m_conns[e]: ConnectionInfo: blanks (placeholders), live (connections),
                 \* lastFailed; an entry with neither is not in the map
    m_closed,
    made,        \* connections made so far
    dead,        \* those that allow no new requests
    at,          \* where each caller is
    route, leg,  \* what it asks for, and how far it has got in it
    start,       \* when it began to wait or to connect
    woken,       \* callers that the condition has scheduled
    seen,        \* lastFailedConnectionTimestamp of the ConnectionInfo f waits on
    gone,        \* callers that wait on a ConnectionInfo that has left the map
    failure,     \* history: an attempt has failed since f began to wait for it
    forced,      \* history: somebody has forced a new connection
    clock        \* TimerManager::now()

cacheVars == <<m_conns, m_closed, made, dead, at, route, leg, start, woken, seen, gone, failure, forced, clock>>

NoInfo == [blanks |-> 0, live |-> {}, lastFailed |-> Never]
Size(info) == info.blanks + Cardinality(info.live)
Kept(info) == IF Size(info) = 0 THEN NoInfo ELSE info    \* erased from the map when empty

CacheInit ==
    /\ m_conns = [e \in Endpoints |-> NoInfo] /\ m_closed = FALSE
    /\ made = 0 /\ dead = {}
    /\ at = [f \in Callers |-> "idle"] /\ route \in [Callers -> Routes]
    /\ leg = [f \in Callers |-> 1] /\ start = [f \in Callers |-> 0]
    /\ woken = {} /\ seen = [f \in Callers |-> Never] /\ gone = {}
    /\ failure = [f \in Callers |-> FALSE] /\ forced = FALSE /\ clock = 0

Endpoint(f) == route[f][leg[f]]
Go(f, to) == at' = [at EXCEPT ![f] = to]
Waiting(e) == {f \in Callers : at[f] = "waiting" /\ Endpoint(f) = e}

\* An entry without some of its connections, and one in which an attempt has failed that
\* began at t: the first placeholder goes.
Without(info, lost) == Kept([info EXCEPT !.live = @ \ lost])
WithFailure(info, t) == Kept([info EXCEPT !.blanks = @ - 1, !.lastFailed = t])

\* Takes dead connections out of the map.
cleanOutDeadConns(conns) == [e \in Endpoints |-> Without(conns[e], dead)]

\* Those who wait on an entry that conns no longer has (they hold on to the entry).
LeftBehind(conns) == gone \cup {f \in Callers : at[f] = "waiting" /\ Size(conns[Endpoint(f)]) = 0}

\* getConnectionViaProxy() up to lock.unlock(): a placeholder, and f connects.
Connect(f, i, conns) ==
    /\ leg' = [leg EXCEPT ![f] = i]
    /\ m_conns' = [conns EXCEPT ![route[f][i]].blanks = @ + 1]
    /\ start' = [start EXCEPT ![f] = clock]
    /\ Go(f, "connecting")

\* condition.wait()
Wait(f, info) ==
    /\ start' = [start EXCEPT ![f] = clock]
    /\ seen' = [seen EXCEPT ![f] = info.lastFailed]
    /\ failure' = [failure EXCEPT ![f] = FALSE]
    /\ Go(f, "waiting")

\* Mutant of FromCache: one connection too many.
FromCacheLate(f, i, conns) ==
    LET legs == {j \in i..Len(route[f]) : Size(conns[route[f][j]]) > m_connectionsPerHost}
        first == CHOOSE j \in legs : \A k \in legs : j <= k
        info == conns[route[f][first]]
    IN IF legs = {} THEN Connect(f, 1, conns) /\ UNCHANGED <<seen, failure>>
       ELSE /\ leg' = [leg EXCEPT ![f] = first] /\ m_conns' = conns
            /\ IF info.live # {} THEN Go(f, "got") /\ UNCHANGED <<start, seen, failure>>
               ELSE Wait(f, info)

\* getConnectionViaProxyFromCache() for the legs from i on: a host with as many
\* connections as it may have serves f, with one of them or when one gets ready.
\* If there is no such host f makes a connection.
FromCache(f, i, conns) ==
    LET legs == {j \in i..Len(route[f]) : Size(conns[route[f][j]]) >= m_connectionsPerHost}
        first == CHOOSE j \in legs : \A k \in legs : j <= k
        info == conns[route[f][first]]
    IN IF legs = {} THEN Connect(f, 1, conns) /\ UNCHANGED <<seen, failure>>
       ELSE /\ leg' = [leg EXCEPT ![f] = first] /\ m_conns' = conns
            /\ IF info.live # {} THEN Go(f, "got") /\ UNCHANGED <<start, seen, failure>>
               ELSE Wait(f, info)

getConnection(f, forceNewConnection) ==
    /\ at[f] = "idle"
    /\ IF m_closed THEN Go(f, "aborted") /\ UNCHANGED <<m_conns, leg, start, seen, gone, failure>>
       ELSE LET conns == cleanOutDeadConns(m_conns)
            IN /\ IF forceNewConnection THEN Connect(f, 1, conns) /\ UNCHANGED <<seen, failure>>
                  ELSE FromCache(f, 1, conns)
               /\ gone' = LeftBehind(conns)
    /\ forced' = (forced \/ forceNewConnection)
    /\ UNCHANGED <<m_closed, made, dead, route, woken, clock>>

\* Back from condition.wait().
WaitEnds(f) ==
    /\ at[f] = "waiting" /\ f \in woken
    /\ woken' = woken \ {f} /\ gone' = gone \ {f}
    /\ IF seen[f] <= start[f]
       THEN Go(f, "priorFailed") /\ UNCHANGED <<m_conns, leg, start, seen, failure>>
       ELSE IF m_closed THEN Go(f, "aborted") /\ UNCHANGED <<m_conns, leg, start, seen, failure>>
       ELSE FromCache(f, leg[f], m_conns)
    /\ UNCHANGED <<m_closed, made, dead, route, forced, clock>>

\* The stream is connected, and the lock has been taken again.
Connected(f) ==
    /\ at[f] = "connecting" /\ made < MaxConnections
    /\ IF m_closed THEN Go(f, "aborted") /\ UNCHANGED <<m_conns, made, woken>>
       ELSE /\ made' = made + 1
            /\ m_conns' = [m_conns EXCEPT ![Endpoint(f)].blanks = @ - 1,
                                          ![Endpoint(f)].live = @ \cup {made'}]
            /\ woken' = woken \cup (Waiting(Endpoint(f)) \ gone)
            /\ Go(f, "got")
    /\ UNCHANGED <<m_closed, dead, route, leg, start, seen, gone, failure, forced, clock>>

\* Mutant of Told: the waiters are left alone.
ToldNobody(e) == {}

\* Whom a failed attempt at e tells.
Told(e) == Waiting(e) \ gone

\* Connecting throws.  Unless the cache has been aborted the first placeholder goes and
\* every waiter is told.  In the same critical section getConnection() goes on with the
\* next proxy, if there is one and it catches the exception.
ConnectFails(f) ==
    /\ at[f] = "connecting"
    /\ LET told == IF m_closed THEN {} ELSE Told(Endpoint(f))
           conns == IF m_closed THEN m_conns
                    ELSE [m_conns EXCEPT ![Endpoint(f)] = WithFailure(@, start[f])]
       IN /\ woken' = woken \cup told
          /\ seen' = [g \in Callers |-> IF g \in told THEN start[f] ELSE seen[g]]
          /\ failure' = [g \in Callers |-> failure[g] \/ g \in told]
          /\ gone' = LeftBehind(conns)
          /\ \/ leg[f] < Len(route[f]) /\ Connect(f, leg[f] + 1, conns)
             \/ m_conns' = conns /\ Go(f, "failed") /\ UNCHANGED <<leg, start>>
    /\ UNCHANGED <<m_closed, made, dead, route, forced, clock>>

-----------------------------------------------------------------------------
\* A connection stops to take requests.
Dies(c) ==
    /\ c <= made /\ c \notin dead
    /\ dead' = dead \cup {c}
    /\ UNCHANGED <<m_conns, m_closed, made, at, route, leg, start, woken, seen, gone, failure, forced, clock>>

\* The callback of its idle timer, or of a peer that closed.
dropConnection(c) ==
    /\ \E e \in Endpoints : /\ c \in m_conns[e].live
                            /\ m_conns' = [m_conns EXCEPT ![e] = Without(@, {c})]
    /\ dead' = dead \cup {c} /\ gone' = LeftBehind(m_conns')
    /\ UNCHANGED <<m_closed, made, at, route, leg, start, woken, seen, failure, forced, clock>>

AllWaiting == {f \in Callers : at[f] = "waiting" /\ f \notin gone}
AllLive == UNION {m_conns[e].live : e \in Endpoints}

closeIdleConnections ==
    /\ AllLive \cup AllWaiting # {}
    /\ m_conns' = [e \in Endpoints |-> Without(m_conns[e], m_conns[e].live)]
    /\ dead' = dead \cup AllLive
    /\ woken' = woken \cup AllWaiting /\ gone' = LeftBehind(m_conns')
    /\ UNCHANGED <<m_closed, made, at, route, leg, start, seen, failure, forced, clock>>

abortConnections ==
    /\ ~m_closed /\ m_closed' = TRUE
    /\ m_conns' = [e \in Endpoints |-> NoInfo]
    /\ dead' = dead \cup AllLive
    /\ woken' = woken \cup AllWaiting /\ gone' = LeftBehind(m_conns')
    /\ UNCHANGED <<made, at, route, leg, start, seen, failure, forced, clock>>

\* A caller asks again, later on.
AskAgain(f) ==
    /\ at[f] \in {"got", "failed", "priorFailed"}
    /\ Go(f, "idle") /\ leg' = [leg EXCEPT ![f] = 1]
    /\ UNCHANGED <<m_conns, m_closed, made, dead, route, start, woken, seen, gone, failure, forced, clock>>

Tick == /\ clock < MaxClock /\ clock' = clock + 1
        /\ UNCHANGED <<m_conns, m_closed, made, dead, at, route, leg, start, woken, seen, gone, failure, forced>>

CacheNext ==
    \/ \E f \in Callers : \/ \E force \in ForceNew : getConnection(f, force)
                          \/ WaitEnds(f) \/ Connected(f) \/ ConnectFails(f)
                          \/ AskAgain(f)
    \/ \E c \in Connections : Dies(c) \/ dropConnection(c)
    \/ closeIdleConnections \/ abortConnections \/ Tick

\* Fibers run, and an attempt to connect ends.
CacheFairness ==
    \A f \in Callers : WF_cacheVars(WaitEnds(f) \/ Connected(f) \/ ConnectFails(f))
CacheSpec == CacheInit /\ [][CacheNext]_cacheVars /\ CacheFairness

-----------------------------------------------------------------------------
\* Until the cache is aborted, the placeholders of an end point are its attempts in
\* progress, no more and no less (an attempt that succeeds finds one), a fiber that
\* waits can count on one of them, and what the cache holds was made and stays under
\* the limit.
PlaceholdersMatch ==
    ~m_closed => \A e \in Endpoints :
        /\ m_conns[e].blanks = Cardinality({f \in Callers : at[f] = "connecting" /\ Endpoint(f) = e})
        /\ Waiting(e) \ woken # {} => m_conns[e].blanks > 0
        /\ gone \subseteq woken

\* "The maximum number of separate connections to allow to a specific host at a time."
HostLimit == ~forced => \A e \in Endpoints : Size(m_conns[e]) <= m_connectionsPerHost

\* Nobody waits for ever.
CallerWaits(f) == at[f] \in {"waiting", "connecting"}
CallersReturn == \A f \in Callers : []<>~CallerWaits(f)

\* A caller is told that a prior connection failed only if one did while it waited; a
\* success unblocks "all waiters for them to choose an existing connection".
FailsOnlyForFailure == \A f \in Callers : at[f] = "priorFailed" => failure[f]
=============================================================================
