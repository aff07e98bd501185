----------------------------- MODULE HTTPClient -----------------------------
(***************************************************************************)
(* A ClientConnection and its pipelined ClientRequests (http/client.cpp).  *)
(* A request is called by its m_requestNumber.  It is used by two fibers:  *)
(* one asks for it, sends its headers and its body, the other reads the    *)
(* response.  What m_mutex protects is the record `conn', and the          *)
(* functions that are called with the mutex held are operators on it; an   *)
(* action is a critical section, with the I/O that goes before it.         *)
(* Requests that waitForRequest() refuses touch nothing and are left out.  *)
(* A request is put at the end of m_pendingRequests in the critical        *)
(* section that gives it the next number, and never moves: the list is     *)
(* the set of its requests, in the order of their numbers.                 *)
(***************************************************************************)
EXTENDS Naturals, Sequences, FiniteSetsExt

CONSTANTS
    MaxRequests,     \* bound
    MaxConcurrent,   \* bound: requests, if how = "concurrent"
    Bodies,          \* the requests that may have a body
    Dropped,         \* the requests that may be destroyed before their response was read
    Uses             \* how requests are used: subset of {"sequential", "concurrent"}

Requests == 1..MaxRequests
End == 0                            \* m_pendingRequests.end()
Never == MaxRequests + 1            \* ~0ull

\* The order of ClientRequest::State.
PENDING == 0
WAITING == 1
HEADERS == 2
BODY == 3
COMPLETE == 4
ERROR == 5
CANCELED == 6

VARIABLES
    how,             \* "concurrent": a response may be asked for while its request is sent
    conn,            \* pending, current: the list, and m_currentRequest; waiting: m_waitingResponses;
                     \* rq, rs: m_requestState, m_responseState; failed: m_priorRequestFailed;
                     \* rfailed, rclosed: m_priorResponseFailed, m_priorResponseClosed;
                     \* allow: m_allowNewRequests; wakeQ, wakeR: fibers that are scheduled
    m_requestCount,
    at, rat,         \* where the two fibers of a request are
    wire,            \* requests in the order their headers were written
    flushed,         \* how many of them the server has got
    consumed,        \* responses read to their end
    m_stream,        \* the half closed or cancelled: subset of {"READ", "WRITE"}
    closed,          \* halves that the connection closed itself
    m_idleTimer      \* armed

clientVars == <<how, conn, m_requestCount, at, rat, wire, flushed, consumed, m_stream, closed,
                m_idleTimer>>
streamVars == <<wire, flushed, consumed, m_stream, closed>>

HTTPClientInit ==
    /\ how \in Uses
    /\ conn = [pending |-> {}, current |-> End, waiting |-> {},
               rq |-> [r \in Requests |-> WAITING], rs |-> [r \in Requests |-> PENDING],
               failed |-> FALSE, rfailed |-> Never, rclosed |-> Never, allow |-> TRUE,
               wakeQ |-> {}, wakeR |-> {}]
    /\ m_requestCount = 0
    /\ at = [r \in Requests |-> "idle"] /\ rat = [r \in Requests |-> "idle"]
    /\ wire = <<>> /\ flushed = 0 /\ consumed = 0 /\ m_stream = {} /\ closed = {}
    /\ m_idleTimer = FALSE

-----------------------------------------------------------------------------
\* Operators on the record: iterators, and what is done under the mutex.
\* UpToCurrent: m_currentRequest or before it, where responses can be awaited.
Following(c, r) == LET later == {x \in c.pending : x > r}
                   IN IF r \notin c.pending \/ later = {} THEN End ELSE Min(later)
IsFirst(c, r) == r \in c.pending /\ \A x \in c.pending : r <= x
UpToCurrent(c, r) == c.current = End \/ r <= c.current

\* pop_front() and erase(it); m_currentRequest goes on if it was there.
Erase(c, r) ==
    [c EXCEPT !.pending = @ \ {r},
              !.current = IF @ = r THEN Following(c, r) ELSE @]

EraseIf(c, r, cond) == IF cond THEN Erase(c, r) ELSE c

Advance(c) == [c EXCEPT !.current = Following(c, @)]

\* Lets the request that m_currentRequest points to begin.
StartCurrent(c) ==
    IF c.current = End THEN c
    ELSE [c EXCEPT !.rq[c.current] = HEADERS, !.wakeQ = @ \cup {c.current}]

\* Mutant of scheduleAllWaitingRequests: forgets who waits behind the current request.
scheduleFirstWaitingRequest(c) ==
    LET W == {r \in {c.current} \ {End} : c.rq[r] = WAITING}
    IN [c EXCEPT !.pending = @ \ W, !.wakeQ = @ \cup W]

\* From m_currentRequest on, whoever waits to request is scheduled and taken out.
scheduleAllWaitingRequests(c) ==
    LET W == {r \in c.pending : c.current # End /\ r >= c.current /\ c.rq[r] = WAITING}
    IN [c EXCEPT !.pending = @ \ W,
                 !.current = IF @ \in W THEN End ELSE @,
                 !.wakeQ = @ \cup W]

\* Up to m_currentRequest, whoever waits for a response that will not come.
scheduleAllWaitingResponses(c) ==
    LET first == IF c.rfailed < c.rclosed THEN c.rfailed ELSE c.rclosed
        W == {r \in c.pending : r > first /\ c.rs[r] = WAITING /\ UpToCurrent(c, r)}
        gone == {r \in W : c.rq[r] >= COMPLETE}
    IN [c EXCEPT !.rs = [r \in Requests |-> IF r \in W THEN ERROR ELSE @[r]],
                 !.waiting = @ \ W, !.wakeR = @ \cup W,
                 !.pending = @ \ gone]

scheduleAllWaiting(c) == scheduleAllWaitingResponses(scheduleAllWaitingRequests(c))

GoQ(r, to) == at' = [at EXCEPT ![r] = to]
GoR(r, to) == rat' = [rat EXCEPT ![r] = to]

-----------------------------------------------------------------------------
\* waitForRequest().
newRequestsAllowed == /\ conn.allow /\ ~conn.failed
                      /\ conn.rclosed = Never /\ conn.rfailed = Never

waitForRequest(r) ==
    /\ at[r] = "idle" /\ r = m_requestCount + 1
    /\ how = "concurrent" => r <= MaxConcurrent
    /\ newRequestsAllowed
    /\ m_requestCount' = r
    /\ m_idleTimer' = FALSE
    /\ LET c == [conn EXCEPT !.pending = @ \cup {r}]
       IN IF conn.current = End
          THEN conn' = [c EXCEPT !.current = r, !.rq[r] = HEADERS] /\ GoQ(r, "headers")
          ELSE conn' = c /\ GoQ(r, "waiting")
    /\ UNCHANGED <<how, rat, streamVars>>

WokenRequest(r) ==
    /\ at[r] = "waiting" /\ r \in conn.wakeQ
    /\ LET c == [conn EXCEPT !.wakeQ = @ \ {r}]
       IN IF conn.failed \/ conn.rclosed # Never \/ conn.rfailed # Never
          THEN /\ conn' = [EraseIf(c, r, c.rq[r] = HEADERS) EXCEPT !.rq[r] = ERROR, !.rs[r] = ERROR]
               /\ GoQ(r, "threw")
          ELSE conn' = c /\ GoQ(r, "headers")
    /\ UNCHANGED <<how, m_requestCount, rat, streamVars, m_idleTimer>>

\* doRequest(): the headers, which may say that the connection will be closed.
doRequest(r) ==
    /\ at[r] = "headers" /\ conn.rq[r] = HEADERS
    /\ \E close \in BOOLEAN :
          \/ /\ "WRITE" \notin m_stream
             /\ wire' = Append(wire, r)
             /\ \E body \in BOOLEAN :
                   /\ body => r \in Bodies
                   /\ conn' = [conn EXCEPT !.allow = @ /\ ~close,
                                           !.rq[r] = IF body THEN BODY ELSE @]
                   /\ GoQ(r, IF body THEN "body" ELSE "written")
          \/ /\ conn' = [conn EXCEPT !.allow = @ /\ ~close]
             /\ GoQ(r, "failing") /\ UNCHANGED wire
    /\ UNCHANGED <<how, m_requestCount, rat, flushed, consumed, m_stream, closed, m_idleTimer>>

\* requestDone(): the body is complete, the trailer is written after it.
requestDone(r) == conn.rq[r] = BODY /\ "WRITE" \notin m_stream /\ GoQ(r, "written")

\* The body, through requestStream() or requestMultipart().  The stream of a
\* request that was cancelled is cut off, and its callbacks are gone.
WriteBody(r) ==
    /\ at[r] = "body"
    /\ \/ requestDone(r)
       \/ conn.rq[r] = BODY /\ GoQ(r, "failing")
       \/ conn.rq[r] > COMPLETE /\ GoQ(r, "threw")
    /\ UNCHANGED <<how, conn, m_requestCount, rat, streamVars, m_idleTimer>>

\* scheduleNextRequest(): the next one may begin, or this one has to flush and lets
\* others try to pipeline first.
scheduleNextRequest(r) ==
    /\ at[r] = "written"
    /\ LET c == [conn EXCEPT !.rq[r] = COMPLETE]
       IN IF Following(conn, r) # End
          THEN /\ conn' = StartCurrent(EraseIf(Advance(c), r, c.rs[r] >= COMPLETE))
               /\ GoQ(r, "returned")
          ELSE GoQ(r, "yielded") /\ UNCHANGED conn
    /\ UNCHANGED <<how, m_requestCount, rat, streamVars, m_idleTimer>>

\* Mutant of Flushes: does not flush when somebody queued up meanwhile nor when nobody did.
FlushesNever(r) ==
    /\ at[r] = "yielded"
    /\ GoQ(r, "flushed")
    /\ UNCHANGED <<how, m_requestCount, conn, rat, streamVars, m_idleTimer>>

\* It is still the last, or somebody queued up meanwhile.
Flushes(r) ==
    /\ at[r] = "yielded"
    /\ GoQ(r, IF Following(conn, conn.current) = End THEN "flushing" ELSE "flushed")
    /\ UNCHANGED <<how, m_requestCount, conn, rat, streamVars, m_idleTimer>>

FlushEnds(r) ==
    /\ at[r] = "flushing"
    /\ \/ "WRITE" \notin m_stream /\ GoQ(r, IF conn.allow THEN "flushed" ELSE "halfClose")
          /\ flushed' = Len(wire)
       \/ GoQ(r, "failing") /\ UNCHANGED flushed
    /\ UNCHANGED <<how, m_requestCount, conn, rat, wire, consumed, m_stream, closed, m_idleTimer>>

\* The rest of scheduleNextRequest(), after the flush (or instead of it).
RequestComplete(r) ==
    /\ at[r] \in {"flushed", "halfClose"}
    /\ LET c == Advance([conn EXCEPT !.rq[r] = COMPLETE])
           over == c.rs[r] >= COMPLETE
           closetype == IF over /\ (c.rclosed <= r \/ c.rfailed <= r) THEN {"READ", "WRITE"}
                        ELSE IF at[r] = "halfClose" THEN {"WRITE"} ELSE {}
       IN /\ conn' = StartCurrent(EraseIf(c, r, over))
          /\ closed' = closed \cup closetype
          /\ m_stream' = m_stream \cup closetype
    /\ GoQ(r, "returned")
    /\ UNCHANGED <<how, m_requestCount, rat, wire, flushed, consumed, m_idleTimer>>

\* requestFailed(): writing or flushing threw.
requestFailed(r) ==
    /\ at[r] = "failing"
    /\ GoQ(r, "threw")
    /\ LET c == [conn EXCEPT !.failed = TRUE, !.rq[r] = ERROR]
           rs == conn.rs[r]
           fails == IF conn.rq[r] = HEADERS /\ rs <= WAITING
                    THEN [Erase(c, r) EXCEPT !.rs[r] = CANCELED, !.waiting = @ \ {r},
                              !.wakeR = IF rs = WAITING THEN @ \cup {r} ELSE @]
                    ELSE EraseIf(Advance(c), r, rs >= COMPLETE)
       IN IF conn.rq[r] = ERROR THEN UNCHANGED <<conn, m_stream>>
          ELSE /\ conn' = scheduleAllWaitingRequests(fails)
               /\ m_stream' = IF conn.rq[r] = HEADERS /\ rs = HEADERS
                              THEN m_stream \cup {"READ"} ELSE m_stream
    /\ UNCHANGED <<how, m_requestCount, rat, wire, flushed, consumed, closed, m_idleTimer>>

-----------------------------------------------------------------------------
\* ensureResponse(), called once the request has been returned to its user.
ensureResponse(r) ==
    /\ rat[r] = "idle" 
    /\ at[r] \in {"returned", "threw"} \/ (how = "concurrent" /\ at[r] \notin {"idle", "waiting", "gone"})
    /\ conn.rq[r] # WAITING
    /\ IF conn.rs[r] # PENDING THEN GoR(r, "returned") /\ UNCHANGED conn
       ELSE IF conn.rfailed <= r \/ conn.rclosed <= r
       THEN /\ conn' = [EraseIf(conn, r, conn.rq[r] >= COMPLETE) EXCEPT !.rs[r] = ERROR]
            /\ GoR(r, "threw")
       ELSE IF IsFirst(conn, r)
       THEN conn' = [conn EXCEPT !.rs[r] = HEADERS] /\ GoR(r, "reading")
       ELSE /\ conn' = [conn EXCEPT !.rs[r] = WAITING, !.waiting = @ \cup {r}]
            /\ GoR(r, "waiting")
    /\ UNCHANGED <<how, m_requestCount, at, streamVars, m_idleTimer>>

WokenResponse(r) ==
    /\ rat[r] = "waiting" /\ r \in conn.wakeR
    /\ conn' = [conn EXCEPT !.wakeR = @ \ {r}]
    /\ GoR(r, IF conn.rs[r] > COMPLETE THEN "threw" ELSE "reading")
    /\ UNCHANGED <<how, m_requestCount, at, streamVars, m_idleTimer>>

\* The server's answer to the first request that it has not answered.
Answered(r) == "READ" \notin m_stream /\ Len(wire) > consumed

\* The headers say that the connection is kept, and whether a body follows.
ReadHeaders(r) ==
    /\ rat[r] = "reading" /\ Answered(r) /\ conn.rs[r] = HEADERS
    /\ conn' = [conn EXCEPT !.rs[r] = BODY]
    /\ \/ GoR(r, "body") /\ UNCHANGED consumed
       \/ GoR(r, "read") /\ consumed' = consumed + 1
    /\ UNCHANGED <<how, m_requestCount, at, wire, flushed, m_stream, closed, m_idleTimer>>

\* They say that it is closed (or the body ends with it): whoever comes later fails.
\* After a CONNECT that succeeded, which has no body, the stream is left open for the
\* tunnel.
ReadClose(r) ==
    /\ rat[r] = "reading" /\ Answered(r) /\ conn.rs[r] = HEADERS
    /\ \E hasBody, connect \in BOOLEAN :
          /\ connect => ~hasBody
          /\ conn' = scheduleAllWaiting(
                [EraseIf(conn, r, ~hasBody /\ conn.rq[r] >= COMPLETE)
                     EXCEPT !.rclosed = r, !.rs[r] = IF hasBody THEN BODY ELSE COMPLETE])
          /\ GoR(r, IF hasBody THEN "body" ELSE "returned")
          /\ consumed' = IF hasBody THEN consumed ELSE consumed + 1
          /\ closed' = IF hasBody \/ connect THEN closed ELSE closed \cup {"READ"}
          /\ m_stream' = m_stream \cup closed'
    /\ UNCHANGED <<how, m_requestCount, at, wire, flushed, m_idleTimer>>

\* Reading throws, the response is malformed, or the request was cancelled.
ReadFails(r) ==
    /\ rat[r] = "reading"
    /\ LET c == [conn EXCEPT !.rfailed = IF r < @ THEN r ELSE @, !.rs[r] = ERROR]
       IN conn' = IF IsFirst(conn, r)
                  THEN scheduleAllWaiting(EraseIf(c, r, conn.rq[r] >= COMPLETE)) ELSE c
    /\ GoR(r, "threw")
    /\ UNCHANGED <<how, m_requestCount, at, streamVars, m_idleTimer>>

\* responseDone(): the body and the trailer have been read.
responseDone(r) ==
    /\ rat[r] = "body" /\ "READ" \notin m_stream
    /\ consumed' = consumed + 1
    /\ GoR(r, "read")
    /\ UNCHANGED <<how, m_requestCount, at, conn, wire, flushed, m_stream, closed, m_idleTimer>>

\* Mutant of scheduleNextResponse: the next response is not started.
scheduleNextResponseForgets(r) ==
    /\ rat[r] = "read"
    /\ conn' = EraseIf([conn EXCEPT !.rs[r] = COMPLETE], r, conn.rq[r] >= COMPLETE)
    /\ GoR(r, "returned")
    /\ UNCHANGED <<how, m_requestCount, at, streamVars, m_idleTimer>>

scheduleNextResponse(r) ==
    /\ rat[r] = "read"
    /\ LET next == Following(conn, r)
           c == EraseIf([conn EXCEPT !.rs[r] = COMPLETE], r, conn.rq[r] >= COMPLETE)
           closes == conn.rq[r] >= COMPLETE /\ (c.rclosed <= r \/ c.rfailed <= r)
       IN /\ conn' = IF next # End /\ c.rs[next] = WAITING
                     THEN [c EXCEPT !.rs[next] = HEADERS, !.waiting = @ \ {next},
                                    !.wakeR = @ \cup {next}]
                     ELSE c
          /\ m_idleTimer' = (next = End \/ m_idleTimer)
          /\ closed' = IF closes THEN closed \cup {"READ"} ELSE closed
          /\ m_stream' = m_stream \cup closed'
    /\ GoR(r, "returned")
    /\ UNCHANGED <<how, m_requestCount, at, wire, flushed, consumed>>

-----------------------------------------------------------------------------
\* cancel(abort = true), with the state (ERROR or CANCELED) that it leaves.
cancel(r, state) ==
    IF conn.rq[r] >= COMPLETE /\ conn.rs[r] >= COMPLETE THEN UNCHANGED <<conn, m_stream>>
    ELSE LET c == [conn EXCEPT !.rfailed = r,
                               !.rq[r] = IF @ < COMPLETE THEN state ELSE @,
                               !.rs[r] = IF @ < COMPLETE THEN state ELSE @,
                               !.waiting = @ \ {r},
                               !.wakeR = IF conn.rs[r] = WAITING THEN @ \cup {r} ELSE @]
         IN /\ conn' = scheduleAllWaiting(Erase(c, r))
            /\ m_stream' = m_stream \cup {"WRITE"} \cup (IF IsFirst(conn, r) THEN {"READ"} ELSE {})

\* The body stream threw: the callback that responseStream() installed; or the
\* trailer was bad.
BodyFails(r) ==
    /\ rat[r] = "body"
    /\ \E state \in {ERROR, CANCELED} : cancel(r, state)
    /\ GoR(r, "threw")
    /\ UNCHANGED <<how, m_requestCount, at, wire, flushed, consumed, closed, m_idleTimer>>

\* ~ClientRequest(), when nobody is in a call on the request.  Its user may not have
\* sent it yet, nor read the response.
Destroy(r) ==
    /\ at[r] \in {"returned", "threw"} \cup {x \in {"headers", "body"} : r \in Dropped}
    /\ rat[r] \in {"returned", "threw"} \cup {x \in {"idle", "body"} : r \in Dropped}
    /\ cancel(r, CANCELED)
    /\ GoQ(r, "gone") /\ GoR(r, "gone")
    /\ UNCHANGED <<how, m_requestCount, wire, flushed, consumed, closed, m_idleTimer>>

\* The callback of the idle timer (m_idleDg): the connection is closed.
IdleTimeout ==
    /\ m_idleTimer /\ m_idleTimer' = FALSE
    /\ m_stream' = {"READ", "WRITE"}
    /\ UNCHANGED <<how, m_requestCount, conn, at, rat, wire, flushed, consumed, closed>>

-----------------------------------------------------------------------------
Sending(r) == \/ WokenRequest(r) \/ doRequest(r) \/ WriteBody(r) \/ scheduleNextRequest(r)
              \/ Flushes(r) \/ FlushEnds(r) \/ RequestComplete(r) \/ requestFailed(r)
Reading(r) == \/ WokenResponse(r) \/ ReadHeaders(r) \/ ReadClose(r) \/ ReadFails(r)
              \/ responseDone(r) \/ scheduleNextResponse(r) \/ BodyFails(r)

HTTPClientNext ==
    \/ \E r \in Requests : \/ waitForRequest(r) \/ ensureResponse(r) \/ Destroy(r)
                           \/ Sending(r) \/ Reading(r)
    \/ IdleTimeout

\* Fibers run, and the users of requests ask for their responses.  A server answers what
\* it has got, or the connection ends: the one on which a write failed does.
ClientProgress ==
    \E r \in Requests :
        \/ Sending(r) \/ ensureResponse(r) \/ WokenResponse(r) \/ scheduleNextResponse(r)
        \/ (flushed > consumed \/ conn.failed) /\ Reading(r)

HTTPClientSpec == HTTPClientInit /\ [][HTTPClientNext]_clientVars /\ WF_clientVars(ClientProgress)

-----------------------------------------------------------------------------
\* ClientConnection::invariant(), which every critical section asserts when it begins.
\* Its first conjunct says what the code keeps to whatever request is destroyed: of those
\* between two requests of the list only some whose responses failed or were cancelled
\* are missing.  What the code asserts instead is NumbersConsecutive.
invariant ==
    LET p == conn.pending
        unrequested == {r \in p : conn.rq[r] < COMPLETE}
    IN /\ \A r \in p :
             /\ IsFirst(conn, r) \/ r - 1 \in p \/ conn.rs[r - 1] > COMPLETE
             /\ conn.rq[r] < COMPLETE \/ conn.rs[r] < COMPLETE \/ conn.rs[r] = CANCELED
             /\ conn.rs[r] > WAITING => conn.rq[r] > WAITING
             /\ IsFirst(conn, r) \/ conn.rs[r] <= WAITING \/ conn.rs[r] > COMPLETE
       /\ \A r \in unrequested :
             IF \E s \in unrequested : s < r THEN conn.rq[r] = WAITING
             ELSE conn.rq[r] > WAITING /\ conn.current = r
       /\ unrequested = {} => conn.current = End
       /\ \A r \in conn.waiting : conn.rs[r] = WAITING /\ r \in p /\ UpToCurrent(conn, r)

\* The assertion on the numbers: the list has a gap only from a failure on.  It fails when
\* two of four requests are destroyed, 2 before 4 while 1 and 3 are in the list: cancel()
\* sets m_priorResponseFailed to the later one, and the gap before 3 is not allowed any more.
NumbersConsecutive ==
    \A r \in conn.pending :
        \/ IsFirst(conn, r) \/ r - 1 \in conn.pending
        \/ r >= conn.rfailed \/ r >= conn.rclosed

\* The request that is being sent is the one m_currentRequest points to, whatever
\* happens to its response, or to others, meanwhile.
CurrentIsSending ==
    \A r \in Requests :
        /\ at[r] \in {"written", "yielded", "flushing", "flushed", "halfClose"} =>
              conn.current = r /\ conn.rq[r] \in {HEADERS, BODY}
        /\ (at[r] = "failing" /\ conn.rq[r] # ERROR) =>
              /\ conn.current = r /\ conn.rq[r] \in {HEADERS, BODY}
              /\ conn.rs[r] >= COMPLETE => IsFirst(conn, r)

\* A fiber reads the response to its own request: the first that the server owes.  The
\* connection closes its reading half only when nobody reads, and its writing half
\* when nobody will write.
ResponseIsOwn ==
    \A r \in Requests :
        /\ rat[r] \in {"reading", "body"} /\ conn.rs[r] \in {HEADERS, BODY} /\ "READ" \notin m_stream =>
              IsFirst(conn, r) /\ (Len(wire) > consumed => wire[consumed + 1] = r)
        /\ "READ" \in closed => rat[r] \notin {"reading", "body"}
        /\ "WRITE" \in closed => at[r] \notin {"body", "flushing"}

\* Whoever is asleep in waitForRequest() or ensureResponse() is in the list, and so
\* found by whoever ends, or already scheduled.  A destroyed request is in no list.
NobodyForgotten ==
    \A r \in Requests :
        /\ at[r] = "waiting" => r \in conn.wakeQ \/ (r \in conn.pending /\ conn.current # End)
        /\ rat[r] = "waiting" => r \in conn.wakeR \/ (r \in conn.waiting /\ ~IsFirst(conn, r))
        /\ at[r] = "gone" => r \notin conn.pending /\ r \notin conn.waiting
        /\ r \in conn.wakeQ => at[r] = "waiting"
        /\ r \in conn.wakeR => rat[r] = "waiting"

\* A request that waits for its turn, or for its response on a connection that can write.
RequestWaits(r) ==
    \/ at[r] = "waiting"
    \/ rat[r] \in {"waiting", "reading"} /\ "WRITE" \notin m_stream

\* Every request that asked is let in or refused, and no response is awaited for ever:
\* somebody flushes what was pipelined, unless cancel() stopped the connection from
\* writing.
RequestsEnd == \A r \in Requests : []<>~RequestWaits(r)

\* The idle timer runs only when no request is pending.
IdleMeansIdle == m_idleTimer => conn.pending = {}
=============================================================================
