----------------------------- MODULE HTTPServer -----------------------------
(***************************************************************************)
(* A ServerConnection and its ServerRequests (http/server.cpp), which are  *)
(* called by their m_requestNumber.  Each is read by a fiber of its own,   *)
(* which then calls the handler (m_dg); the handler may ask for the next   *)
(* request to be read meanwhile, read the request's body, respond, return  *)
(* or throw, as it likes.  What m_mutex protects is the record `conn'; an  *)
(* action is a critical section, with the I/O that goes before it.         *)
(* Requests are put at the end of m_pendingRequests as they get their      *)
(* numbers, and never move: the list is the set of its requests, in the    *)
(* order of their numbers.                                                 *)
(***************************************************************************)
EXTENDS Naturals, FiniteSetsExt

CONSTANT MaxServed                  \* bound: requests on the connection

Served == 1..MaxServed
Never == MaxServed + 1              \* ~0ull

\* The order of ServerRequest::State.
PENDING == 0
WAITING == 1
HEADERS == 2
BODY == 3
COMPLETE == 4
ERROR == 5

VARIABLES
    conn,            \* pending, waiting: m_pendingRequests, m_waitingResponses; count;
                     \* rq, rs: the request's and the response's state; qfailed, qclosed,
                     \* rclosed: m_priorRequestFailed, m_priorRequestClosed, m_priorResponseClosed;
                     \* wake: fibers that are scheduled; started: requests to be read
    at,              \* where the fiber of a request is
    m_willClose, m_pipeline,
    cancelled,       \* cancelRead() and cancelWrite() were called on m_stream
    closed           \* it was closed

serverVars == <<conn, at, m_willClose, m_pipeline, cancelled, closed>>

HTTPServerInit ==
    /\ conn = [pending |-> {}, waiting |-> {}, count |-> 0,
               rq |-> [r \in Served |-> HEADERS], rs |-> [r \in Served |-> PENDING],
               qfailed |-> Never, qclosed |-> Never, rclosed |-> Never, wake |-> {}, started |-> {}]
    /\ at = [r \in Served |-> "none"]
    /\ m_willClose = [r \in Served |-> FALSE] /\ m_pipeline = [r \in Served |-> FALSE]
    /\ cancelled = FALSE /\ closed = FALSE

-----------------------------------------------------------------------------
\* What is done under the mutex, as operators on the record.
IsFirst(c, r) == r \in c.pending /\ \A x \in c.pending : r <= x
After(c, r) == LET later == {x \in c.pending : x > r} IN IF later = {} THEN Never ELSE Min(later)
Erase(c, r) == [c EXCEPT !.pending = @ \ {r}]
EraseIf(c, r, cond) == IF cond THEN Erase(c, r) ELSE c

\* Mutant of scheduleNextRequest: does not see that a later request exists already.
scheduleNextRequestTwice(c, r) ==
    IF c.rq[r] = COMPLETE /\ c.qfailed = Never /\ c.count < MaxServed
    THEN [c EXCEPT !.count = @ + 1, !.pending = @ \cup {c.count + 1},
                   !.started = @ \cup {c.count + 1}]
    ELSE c

\* A request is read when the last one has been, and nothing ended the connection.
scheduleNextRequest(c, r) ==
    IF /\ r = c.count /\ c.rq[r] = COMPLETE
       /\ c.qfailed = Never /\ c.qclosed = Never /\ c.rclosed = Never
       /\ r < MaxServed
    THEN [c EXCEPT !.count = r + 1, !.pending = @ \cup {r + 1}, !.started = @ \cup {r + 1}]
    ELSE c

scheduleAllWaitingResponses(c) ==
    LET first == IF c.qfailed < c.rclosed THEN c.qfailed ELSE c.rclosed
        W == {r \in c.pending \cap c.waiting : r >= first}
    IN [c EXCEPT !.waiting = @ \ W, !.wake = @ \cup W,
                 !.pending = @ \ W]

Failed(c, r) == [c EXCEPT !.qfailed = IF r < @ THEN r ELSE @]

\* A request whose response is waiting to be written may begin.
StartResponse(c, r) ==
    IF r \in c.waiting
    THEN [c EXCEPT !.waiting = @ \ {r}, !.rs[r] = HEADERS, !.wake = @ \cup {r}] ELSE c

\* cancel(): nothing if both are complete.
Over(r) == conn.rq[r] >= COMPLETE /\ conn.rs[r] >= COMPLETE
cancel(r) ==
    IF Over(r) THEN conn
    ELSE scheduleAllWaitingResponses(Failed(
            [Erase(conn, r) EXCEPT !.rq[r] = IF @ < COMPLETE THEN ERROR ELSE @,
                                   !.rs[r] = IF @ < COMPLETE THEN ERROR ELSE @], r))

Go(r, to) == at' = [at EXCEPT ![r] = to]
Cancels(r, to) == /\ conn' = cancel(r) /\ cancelled' = (cancelled \/ ~Over(r)) /\ Go(r, to)
                  /\ UNCHANGED <<m_willClose, m_pipeline, closed>>

processRequests ==
    /\ conn.count = 0
    /\ conn' = [conn EXCEPT !.count = 1, !.pending = {1}, !.started = {1}]
    /\ UNCHANGED <<at, m_willClose, m_pipeline, cancelled, closed>>

-----------------------------------------------------------------------------
\* requestComplete() for the record, and whether it closes the reading half.
requestComplete(c, r, willClose) ==
    LET done == [c EXCEPT !.rq[r] = COMPLETE, !.qclosed = IF willClose THEN r ELSE @]
        popped == EraseIf(done, r, c.rs[r] >= COMPLETE)
    IN IF ~willClose /\ (c.rs[r] >= COMPLETE \/ m_pipeline[r])
       THEN scheduleNextRequest(popped, r) ELSE popped

\* doRequest(): the stream ended or failed before the headers.
ReadEnds(r) == r \in conn.started /\ at[r] = "none" /\ Cancels(r, "ending")

\* They were no HTTP, or nothing the server supports: respondError().
ReadBad(r) ==
    /\ r \in conn.started /\ at[r] = "none" /\ ~cancelled /\ ~closed
    /\ \E parsed \in BOOLEAN, close \in BOOLEAN :
          /\ ~parsed => close
          /\ conn' = [conn EXCEPT !.rq[r] = ERROR, !.qclosed = IF parsed THEN @ ELSE r]
          /\ m_willClose' = [m_willClose EXCEPT ![r] = close]
    /\ Go(r, "handler")
    /\ UNCHANGED <<m_pipeline, cancelled, closed>>

ReadRequest(r) ==
    /\ r \in conn.started /\ at[r] = "none" /\ ~cancelled /\ ~closed
    /\ \E close \in BOOLEAN, body \in BOOLEAN :
          /\ conn' = IF body THEN [conn EXCEPT !.rq[r] = BODY] ELSE requestComplete(conn, r, close)
          /\ m_willClose' = [m_willClose EXCEPT ![r] = close]
    /\ Go(r, "handler")
    /\ UNCHANGED <<m_pipeline, cancelled, closed>>

processNextRequest(r) ==
    /\ at[r] = "handler" /\ ~m_pipeline[r] /\ conn.rs[r] # ERROR
    /\ m_pipeline' = [m_pipeline EXCEPT ![r] = TRUE]
    /\ conn' = scheduleNextRequest(conn, r)
    /\ UNCHANGED <<at, m_willClose, cancelled, closed>>

\* The handler, or discardRequestBody(), reads the body to its end.
requestDone(r) ==
    /\ at[r] = "handler" /\ conn.rq[r] = BODY /\ ~cancelled /\ ~closed
    /\ conn' = requestComplete(conn, r, m_willClose[r])
    /\ UNCHANGED <<at, m_willClose, m_pipeline, cancelled, closed>>

RequestBodyFails(r) == at[r] = "handler" /\ conn.rq[r] = BODY /\ Cancels(r, "ending")

-----------------------------------------------------------------------------
\* commit(): the response may close the connection too.
RespondsNow(c, r, willClose) ==
    LET begun == [c EXCEPT !.rs[r] = HEADERS]
    IN IF willClose THEN scheduleAllWaitingResponses([begun EXCEPT !.rclosed = r]) ELSE begun

\* Mutant of commit: does not wait for its turn.
commitBarges(r) ==
    /\ at[r] = "handler" /\ conn.rs[r] = PENDING
    /\ conn' = RespondsNow(conn, r, m_willClose[r]) /\ Go(r, "writing")
    /\ UNCHANGED <<m_willClose, m_pipeline, cancelled, closed>>

commit(r) ==
    /\ at[r] = "handler" /\ conn.rs[r] = PENDING
    /\ \E close \in {m_willClose[r], TRUE} :
          /\ m_willClose' = [m_willClose EXCEPT ![r] = close]
          /\ IF conn.qfailed < r \/ conn.rclosed < r
             THEN conn' = Erase(conn, r) /\ Go(r, "ending")
             ELSE IF IsFirst(conn, r)
             THEN conn' = RespondsNow(conn, r, close) /\ Go(r, "writing")
             ELSE /\ conn' = [conn EXCEPT !.rs[r] = WAITING, !.waiting = @ \cup {r}]
                  /\ Go(r, "waiting")
    /\ UNCHANGED <<m_pipeline, cancelled, closed>>

Woken(r) ==
    /\ at[r] = "waiting" /\ r \in conn.wake
    /\ LET c == [conn EXCEPT !.wake = @ \ {r}]
       IN IF conn.qfailed <= r \/ conn.rclosed <= r
          THEN conn' = c /\ Go(r, "ending")
          ELSE conn' = RespondsNow(c, r, m_willClose[r]) /\ Go(r, "writing")
    /\ UNCHANGED <<m_willClose, m_pipeline, cancelled, closed>>

Fails(r) == /\ conn' = scheduleAllWaitingResponses(Failed(conn, r)) /\ Go(r, "ending")
            /\ UNCHANGED <<m_willClose, m_pipeline, cancelled, closed>>

\* The headers are written, and a body is to follow or the response is done.
WriteHeaders(r) ==
    /\ at[r] = "writing" /\ ~cancelled /\ ~closed
    /\ \/ Go(r, "handler") /\ conn' = [conn EXCEPT !.rs[r] = BODY]
       \/ Go(r, "completing") /\ UNCHANGED conn
    /\ UNCHANGED <<m_willClose, m_pipeline, cancelled, closed>>

WriteHeadersFails(r) == at[r] = "writing" /\ Fails(r)

responseDone(r) ==
    /\ at[r] = "handler" /\ conn.rs[r] = BODY /\ ~cancelled /\ ~closed
    /\ Go(r, "completing")
    /\ UNCHANGED <<conn, m_willClose, m_pipeline, cancelled, closed>>

\* The response's body stream throws; or the handler threw or returned after the
\* headers were committed, and finish() cancels.
ResponseCancelled(r) == at[r] = "handler" /\ conn.rs[r] = BODY /\ Cancels(r, "ending")

\* responseComplete(): close() or flush().
Closes(r) ==
    /\ at[r] = "completing" /\ ~cancelled
    /\ closed' = (closed \/ m_willClose[r])
    /\ Go(r, "completed")
    /\ UNCHANGED <<conn, m_willClose, m_pipeline, cancelled>>

CloseFails(r) == /\ at[r] = "completing"
                 /\ IF m_willClose[r] THEN Cancels(r, "ending") ELSE Fails(r)

\* Its first critical section: the next response begins at once, or, if there is no
\* next request, one is read.
responseComplete(r) ==
    /\ at[r] = "completed"
    /\ LET next == After(conn, r)
           done == EraseIf([conn EXCEPT !.rs[r] = COMPLETE], r, conn.rq[r] >= COMPLETE)
           closes(c) == [c EXCEPT !.rclosed = IF m_willClose[r] THEN r ELSE @]
       IN IF next \in conn.waiting
          THEN conn' = StartResponse(scheduleNextRequest(done, r), next) /\ Go(r, "handler")
          ELSE /\ conn' = closes(IF next = Never THEN scheduleNextRequest(conn, r) ELSE conn)
               /\ Go(r, "unlocked")
    /\ UNCHANGED <<m_willClose, m_pipeline, cancelled, closed>>

\* Mutant of ResponseLeaves: nobody looks who queued up in the meantime.
ResponseLeavesAlone(r) ==
    /\ at[r] = "unlocked"
    /\ conn' = EraseIf([conn EXCEPT !.rs[r] = COMPLETE], r, conn.rq[r] >= COMPLETE)
    /\ Go(r, "handler")
    /\ UNCHANGED <<m_willClose, m_pipeline, cancelled, closed>>

\* Its second one: somebody may have queued up meanwhile.
ResponseLeaves(r) ==
    /\ at[r] = "unlocked"
    /\ LET c == EraseIf([conn EXCEPT !.rs[r] = COMPLETE], r, conn.rq[r] >= COMPLETE)
       IN conn' = StartResponse(c, After(c, 0))
    /\ Go(r, "handler")
    /\ UNCHANGED <<m_willClose, m_pipeline, cancelled, closed>>

-----------------------------------------------------------------------------
\* finish(): the response is complete, and so is the request unless the connection
\* will be closed anyway.
finish(r) ==
    /\ at[r] = "handler" /\ conn.rs[r] >= COMPLETE
    /\ conn.rq[r] # BODY \/ m_willClose[r]
    /\ Go(r, "ending")
    /\ UNCHANGED <<conn, m_willClose, m_pipeline, cancelled, closed>>

\* ~ServerRequest(), when its fiber has ended.
Destroy(r) == at[r] = "ending" /\ Cancels(r, "gone")

\* ServerConnection::cancel().
CancelConnection ==
    /\ ~cancelled /\ cancelled' = TRUE
    /\ UNCHANGED <<conn, at, m_willClose, m_pipeline, closed>>

HTTPServerStep(r) ==
    \/ ReadEnds(r) \/ ReadBad(r) \/ ReadRequest(r) \/ requestDone(r) \/ RequestBodyFails(r)
    \/ commit(r) \/ Woken(r) \/ WriteHeaders(r) \/ WriteHeadersFails(r) \/ responseDone(r)
    \/ ResponseCancelled(r) \/ Closes(r) \/ CloseFails(r) \/ responseComplete(r)
    \/ ResponseLeaves(r) \/ finish(r) \/ Destroy(r)

HTTPServerNext ==
    \/ processRequests \/ CancelConnection
    \/ \E r \in Served : processNextRequest(r) \/ HTTPServerStep(r)

\* Fibers run: handlers return, and the peer sends or the connection ends.
ServerProgress == \E r \in Served : HTTPServerStep(r)
HTTPServerSpec == HTTPServerInit /\ [][HTTPServerNext]_serverVars /\ WF_serverVars(ServerProgress)

-----------------------------------------------------------------------------
\* ServerConnection::invariant(), which every critical section asserts when it begins,
\* and what the functions assert of the places where requests are in the list.
ServerInvariant ==
    LET p == conn.pending
    IN /\ \A r \in p :
             /\ conn.rq[r] < COMPLETE \/ conn.rs[r] < COMPLETE
             /\ IsFirst(conn, r) \/ conn.rs[r] < COMPLETE
             /\ conn.rq[r] < COMPLETE => \A x \in p : x <= r
       /\ \A r \in conn.waiting : conn.rs[r] = WAITING /\ r \in p
       /\ \A r \in Served :
             /\ at[r] \in {"completed", "unlocked"} => IsFirst(conn, r)
             /\ (at[r] = "handler" /\ conn.rq[r] = BODY) => r \in p /\ \A x \in p : x <= r
             /\ at[r] = "gone" => r \notin p /\ r \notin conn.waiting

\* Responses go out one at a time, in the order of the requests, and none after one
\* that failed or was cancelled (its state is ERROR), that could not be read, or that
\* closes the connection.
ResponsesInOrder ==
    \A r \in Served :
        at[r] \in {"writing", "completing", "completed", "unlocked"} \/ (conn.rs[r] = BODY) =>
            /\ \A s \in 1 .. r - 1 : conn.rs[s] = COMPLETE
            /\ conn.qfailed >= r /\ conn.rclosed >= r

\* Whoever waits to respond gets its turn, or is told that there will be none, and
\* every request that was read is destroyed in the end.
RequestServed(r) == at[r] \notin {"none", "gone"}
ServedRequestsEnd == \A r \in Served : []<>~RequestServed(r)

\* cancel() "aborts this request, and any subsequent requests or responses": the
\* response to an earlier request goes on.
PriorResponsesGoOn ==
    [][\A r, s \in Served :
          (Cancels(r, at'[r]) /\ ~cancelled /\ cancelled' /\ s < r)
              => ~(at[s] \in {"writing", "completing"} \/ conn.rs[s] = BODY)]_serverVars
=============================================================================
