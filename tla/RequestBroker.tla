--------------------------- MODULE RequestBroker ---------------------------
(***************************************************************************)
(* One request through the chain that createRequestBroker() builds:        *)
(* RetryRequestBroker over RedirectRequestBroker over AuthRequestBroker    *)
(* over BaseRequestBroker (http/broker.cpp, http/auth.cpp).  The base      *)
(* broker gets a connection by way of a SocketStreamBroker, that tries the *)
(* addresses of the host in turn, and has a second fiber (doBody) send the *)
(* body; that fiber works on variables of the base broker's frame.  What   *)
(* the server, the network and the caller's callbacks do is left open.     *)
(***************************************************************************)
EXTENDS Naturals

CONSTANTS
    URIs,            \* what a request may be redirected to
    Original,        \* what the caller asks for
    m_maxRedirects,
    MaxRetries,      \* the delayDg refuses a retry count above this
    MaxAttempts,     \* bound: how often the callback gives credentials
    Addresses        \* number of addresses of a host

VARIABLES
    pc,           \* where the request fiber is
    outcome,      \* what leaves the broker that is about to end
    status,       \* of the last response
    currentUri,   \* requestHeaders.requestLine.uri, which belongs to the caller
    base,         \* BaseRequestBroker::request(): originalUri
    redirect,     \* RedirectRequestBroker::request(): originalUri, uris, redirects
    attempts,     \* AuthRequestBroker::request()
    retries,      \* *retries of RetryRequestBroker
    body,         \* the doBody fiber
    m_pending, m_cancelled, address,   \* SocketStreamBroker
    moved         \* history: URIs that a followed 301 named

brokerVars == <<pc, outcome, status, currentUri, base, redirect, attempts, retries, body,
                m_pending, m_cancelled, address, moved>>

PathOnly == "path"      \* what is sent over a direct connection
NoStatus == "none"
\* What doRequest() and response() throw; "other" is what no broker looks for.
Failures == {"socket", "priorRequest", "eof", "other"}
\* An exception, and whether it carries the errinfo_source that RetryRequestBroker asks for.
Exception(x, marked) == [exception |-> x, marked |-> marked]
Returned == Exception("none", FALSE)

FreshRedirect(uri) == [originalUri |-> uri, uris |-> {uri}, redirects |-> 0]

BrokerInit ==
    /\ pc = "retry" /\ outcome = Returned /\ status = NoStatus
    /\ currentUri = Original /\ base = Original /\ redirect = FreshRedirect(Original)
    /\ attempts = 0 /\ retries = 0 /\ body = "none"
    /\ m_pending = FALSE /\ m_cancelled = FALSE /\ address = 0 /\ moved = {}

\* RetryRequestBroker::request() calls its parent.
TryAgain ==
    /\ pc = "retry"
    /\ redirect' = FreshRedirect(currentUri)
    /\ attempts' = 0 /\ status' = NoStatus /\ pc' = "auth"
    /\ UNCHANGED <<outcome, currentUri, base, retries, body, m_pending, m_cancelled, address, moved>>

\* The loop of AuthRequestBroker::request() up to parent()->request(): the callback gives
\* credentials or not; if it does not after a 401 (or a proxy's 407, which has a callback
\* and a count of its own) the response is the caller's.  If it does, that response is
\* finished first, which may throw (the third disjunct).
Authorize ==
    /\ pc = "auth"
    /\ \/ /\ \/ status = NoStatus /\ attempts' = 1
             \/ status = "401" /\ attempts < MaxAttempts /\ attempts' = attempts + 1
          /\ base' = currentUri /\ address' = 1 /\ pc' = "connect" /\ UNCHANGED outcome
       \/ /\ status = "401" /\ pc' = "redirect"
          /\ UNCHANGED <<outcome, attempts, base, address>>
       \/ /\ status = "401" /\ attempts < MaxAttempts
          /\ \E x \in Failures : outcome' = Exception(x, FALSE)
          /\ pc' = "redirect" /\ UNCHANGED <<attempts, base, address>>
    /\ UNCHANGED <<status, currentUri, redirect, retries, body, m_pending, m_cancelled, moved>>

-----------------------------------------------------------------------------
\* BaseRequestBroker::request() throws: the caller's URI is put back first.
Throw(x) == outcome' = x /\ currentUri' = base /\ pc' = "redirect"

\* SocketStreamBroker::getStream(): one more address, unless it has been cancelled.
StartConnect ==
    /\ pc = "connect" /\ ~m_pending
    /\ IF m_cancelled THEN Throw(Exception("aborted", TRUE)) /\ UNCHANGED m_pending
       ELSE m_pending' = TRUE /\ UNCHANGED <<pc, outcome, currentUri>>
    /\ UNCHANGED <<status, base, redirect, attempts, retries, body, m_cancelled, address, moved>>

\* socket->connect() fails, or has been cancelled: the next address, or the exception.
ConnectFails ==
    /\ pc = "connect" /\ m_pending /\ m_pending' = FALSE
    /\ IF address < Addresses THEN address' = address + 1 /\ UNCHANGED <<pc, outcome, currentUri>>
       ELSE /\ Throw(Exception(IF m_cancelled THEN "aborted" ELSE "socket", TRUE))
            /\ UNCHANGED address
    /\ UNCHANGED <<status, base, redirect, attempts, retries, body, m_cancelled, moved>>

\* SocketStreamBroker::cancelPending(), by way of ConnectionCache::abortConnections().
cancelPending ==
    /\ ~m_cancelled /\ m_cancelled' = TRUE
    /\ UNCHANGED <<pc, outcome, status, currentUri, base, redirect, attempts, retries, body,
                   m_pending, address, moved>>

\* Connected (perhaps just before it was cancelled).  Over a direct connection only the
\* path is sent.  A request without a body is sent at once, otherwise a fiber is scheduled.
SendRequest(direct, withBody) ==
    /\ pc = "connect" /\ m_pending /\ m_pending' = FALSE
    /\ currentUri' = CASE withBody -> base [] direct -> PathOnly [] OTHER -> currentUri
    /\ body' = IF withBody THEN "running" ELSE "none"
    /\ pc' = IF withBody THEN "response" ELSE "request"
    /\ UNCHANGED <<outcome, status, base, redirect, attempts, retries, m_cancelled, address, moved>>

\* doRequest() of a request without a body.
DoRequest ==
    /\ pc = "request"
    /\ \/ pc' = "response" /\ currentUri' = base /\ UNCHANGED outcome
       \/ \E x \in Failures : Throw(Exception(x, TRUE))
    /\ UNCHANGED <<status, base, redirect, attempts, retries, body, m_pending, m_cancelled, address, moved>>

\* doBody(): bodyDg returns, or throws once the request has failed, or of its own accord.
doBody ==
    /\ body = "running"
    /\ body' \in {"ended", "httpFailed", "userFailed"}
    /\ UNCHANGED <<pc, outcome, status, currentUri, base, redirect, attempts, retries,
                   m_pending, m_cancelled, address, moved>>

\* request->response() returns, or throws an exception that carries no mark.
Response ==
    /\ pc = "response" /\ pc' = "future"
    /\ \/ status' \in {"ok", "301", "302", "401"} /\ outcome' = Returned
       \/ \E x \in Failures : outcome' = Exception(x, FALSE) /\ UNCHANGED status
    /\ UNCHANGED <<currentUri, base, redirect, attempts, retries, body, m_pending, m_cancelled, address, moved>>

\* Mutant of FutureWait: a response that failed is reported at once.
FutureWaitOnSuccess ==
    /\ pc = "future" /\ (body # "running" \/ outcome # Returned)
    /\ IF outcome = Returned /\ body # "userFailed"
       THEN pc' = (IF status = "401" THEN "auth" ELSE "redirect") /\ UNCHANGED <<outcome, currentUri>>
       ELSE Throw(outcome)
    /\ UNCHANGED <<status, base, redirect, attempts, retries, body, m_pending, m_cancelled, address, moved>>

\* future.wait(), and what then counts: an exception of the body before one of the
\* response; a response even if the body could not be sent; but never instead of an
\* exception of the caller's own.
FutureWait ==
    /\ pc = "future" /\ body # "running"
    /\ \/ /\ outcome = Returned /\ body # "userFailed"
          /\ pc' = (IF status = "401" THEN "auth" ELSE "redirect")
          /\ UNCHANGED <<outcome, currentUri>>
       \/ outcome # Returned /\ body \in {"none", "ended"} /\ Throw(outcome)
       \/ /\ outcome # Returned /\ body = "httpFailed"
          /\ \E x \in Failures : Throw(Exception(x, TRUE))
       \/ body = "userFailed" /\ \E x \in Failures : Throw(Exception(x, FALSE))
    /\ UNCHANGED <<status, base, redirect, attempts, retries, body, m_pending, m_cancelled, address, moved>>

-----------------------------------------------------------------------------
\* Back in RedirectRequestBroker::request() with a response that is no redirection, or one
\* it does not handle (the second disjunct), or an exception: the caller's URI again.
RedirectEnds ==
    /\ pc = "redirect"
    /\ \/ outcome # Returned \/ status \notin {"301", "302"}
       \/ outcome = Returned /\ status \in {"301", "302"}
    /\ currentUri' = redirect.originalUri /\ pc' = "retried"
    /\ UNCHANGED <<outcome, status, base, redirect, attempts, retries, body, m_pending, m_cancelled, address, moved>>

\* A redirection that it does handle: the response is finished, which may throw (the
\* second disjunct), and the request is sent again.
Redirects(uri) ==
    /\ pc = "redirect" /\ outcome = Returned /\ status \in {"301", "302"}
    /\ IF redirect.redirects + 1 = m_maxRedirects \/ uri \in redirect.uris
       THEN /\ outcome' = Exception("circular", FALSE)
            /\ currentUri' = redirect.originalUri /\ pc' = "retried"
            /\ UNCHANGED <<redirect, moved, attempts, status>>
       ELSE /\ redirect' = [originalUri |-> IF status = "301" THEN uri ELSE redirect.originalUri,
                            uris |-> redirect.uris \cup {uri}, redirects |-> redirect.redirects + 1]
            /\ moved' = IF status = "301" THEN moved \cup {uri} ELSE moved
            /\ \/ /\ currentUri' = uri /\ pc' = "auth" /\ attempts' = 0 /\ status' = NoStatus
                  /\ UNCHANGED outcome
               \/ /\ \E x \in Failures : outcome' = Exception(x, FALSE)
                  /\ currentUri' = redirect'.originalUri /\ pc' = "retried"
                  /\ UNCHANGED <<attempts, status>>
    /\ UNCHANGED <<base, retries, body, m_pending, m_cancelled, address>>

\* Mutant of RetryEnds: anything is tried again.
RetryEndsAny ==
    /\ pc = "retried"
    /\ IF outcome # Returned /\ retries < MaxRetries
       THEN retries' = retries + 1 /\ pc' = "retry"
       ELSE pc' = "done" /\ UNCHANGED retries
    /\ outcome' = Returned
    /\ UNCHANGED <<status, currentUri, base, redirect, attempts, body, m_pending, m_cancelled, address, moved>>

\* RetryRequestBroker::request(): errors of the connection and of the HTTP layer are tried
\* again while the callback agrees; the failure of a prior request does not count.
RetryEnds ==
    LET counted == outcome.marked /\ outcome.exception \in {"socket", "eof"}
        again == \/ counted /\ retries + 1 <= MaxRetries
                 \/ outcome.marked /\ outcome.exception = "priorRequest" /\ retries + 1 <= MaxRetries
    IN /\ pc = "retried"
       /\ retries' = CASE outcome = Returned -> 0 [] counted -> retries + 1 [] OTHER -> retries
       /\ IF again THEN pc' = "retry" /\ outcome' = Returned ELSE pc' = "done" /\ UNCHANGED outcome
       /\ UNCHANGED <<status, currentUri, base, redirect, attempts, body, m_pending, m_cancelled, address, moved>>

BrokerNext ==
    \/ TryAgain \/ Authorize \/ StartConnect \/ ConnectFails \/ cancelPending
    \/ \E direct, withBody \in BOOLEAN : SendRequest(direct, withBody)
    \/ DoRequest \/ doBody \/ Response \/ FutureWait
    \/ RedirectEnds \/ RetryEnds
    \/ \E uri \in URIs : Redirects(uri)

BrokerSpec == BrokerInit /\ [][BrokerNext]_brokerVars

-----------------------------------------------------------------------------
\* doBody() works on the future, the exception and the flag in the frame of
\* BaseRequestBroker::request(): that frame is not left while it runs.
InBase == pc \in {"connect", "request", "response", "future"}
\* When the request is over the caller's URI is what it was, or where it has permanently
\* moved to; no socket is pending; an exception of the caller's bodyDg is neither swallowed
\* nor answered with another request; and a response comes from a request that was sent.
BrokerReturns ==
    /\ body = "running" => InBase
    /\ pc = "done" => /\ currentUri \in {Original} \cup moved
                      /\ ~m_pending
                      /\ outcome = Returned => body # "userFailed" /\ status # NoStatus
    /\ body = "userFailed" => pc \notin {"retry", "auth", "connect", "request"}

\* "Retries connection error and PriorRequestFailed errors": none of them ends a request
\* while the callback still agrees to another try.
RetriesPriorFailure ==
    pc = "done" /\ outcome.exception \in {"socket", "priorRequest"} /\ body # "userFailed"
       => retries >= MaxRetries
=============================================================================
