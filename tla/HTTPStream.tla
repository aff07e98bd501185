----------------------------- MODULE HTTPStream -----------------------------
(***************************************************************************)
(* HTTPStream (streams/http.cpp): a remote entity as a seekable stream.    *)
(* Reads turn into GET requests for ranges of it, that are conditional on  *)
(* the ETag; a request that fails is made again from where the stream is.  *)
(* The entity may change at any time and servers know ranges and           *)
(* conditions or not.  A write is a PUT that a second fiber (startWrite,   *)
(* which runs doWrite) carries out; the two meet at two futures.           *)
(***************************************************************************)
EXTENDS Naturals

CONSTANTS
    MaxVersion,   \* bound: versions of the entity
    Sizes,        \* its possible sizes
    Advices,      \* values of m_readAdvice
    Lengths,      \* of the caller's reads
    MaxOffset,    \* bound: offsets that the caller seeks
    Word,         \* 2^64 of the unsigned arithmetic
    Repeats       \* whether the broker may run the body again (a redirect, a 401)

All == Word - 1   \* ~0ull
Minus(a, b) == (a + Word - b) % Word
LesserOf(a, b) == IF a < b THEN a ELSE b
GreaterOf(a, b) == IF a < b THEN b ELSE a

VARIABLES
    entity,        \* the server's: version (its ETag) and size
    server,        \* what it supports: range, ifRange, ifMatch, and whether it says the
                   \* size of the entity in the Content-Range of a part of it
    stream,        \* parent(): none, null, put, or the body of a response: what version,
                   \* from which offset, how many bytes are left
    m_pos, m_size, m_eTag, m_readAdvice, m_readRequested,
    believed,      \* the version that the caller has been told of
    last,          \* the last byte read: where the stream was, what it is
    caller,        \* where the calling fiber is
    writer,        \* where the startWrite fiber is
    writing        \* m_writeInProgress, m_abortWrite, m_writeRequest, m_writeException,
                   \* and the futures m_writeFuture and m_writeFuture2 (signalled or not)

readVars == <<stream, m_pos, m_size, m_eTag, m_readRequested, believed, last>>
httpStreamVars == <<entity, server, readVars, m_readAdvice, caller, writer, writing>>

Unknown == Word          \* m_size == -1, or no m_eTag
NoSize == Word + 1       \* m_size == -2
NoStream == [kind |-> "none"]
NullStream == [kind |-> "null"]
Put == [kind |-> "put"]
Body(offset, left) == [kind |-> "body", version |-> entity.version, offset |-> offset, left |-> left]

HTTPStreamInit ==
    /\ entity \in [version : {1}, size : Sizes]
    /\ server \in [range : BOOLEAN, ifRange : BOOLEAN, ifMatch : BOOLEAN, instance : BOOLEAN]
    /\ ~server.range => ~server.ifRange /\ server.instance
    /\ stream = NoStream /\ m_pos = 0 /\ m_size = Unknown /\ m_eTag \in {Unknown, 1}
    /\ m_readAdvice \in Advices /\ m_readRequested = 0
    /\ believed = m_eTag /\ last = [pos |-> 0, offset |-> 0, version |-> 0, n |-> 1]
    /\ caller = "idle" /\ writer = "none"
    /\ writing = [progress |-> FALSE, abort |-> FALSE, request |-> FALSE, exception |-> FALSE,
                  future |-> FALSE, future2 |-> FALSE]

-----------------------------------------------------------------------------
\* start(length): does it need a request, for which part, and what the server answers.
NeedsRequest == stream.kind \in {"none", "put"} \/ m_readRequested = 0
Ranged(length) == m_pos # 0 \/ (m_readAdvice # All /\ length # All)
Requested(length) ==
    IF Ranged(length) /\ length # All THEN GreaterOf(length, m_readAdvice) ELSE All
Partial(length) ==
    /\ Ranged(length) /\ server.range
    /\ m_pos # 0 /\ m_eTag # Unknown /\ server.ifRange => m_eTag = entity.version
Refused(length) ==
    \/ m_eTag # Unknown /\ m_pos = 0 /\ server.ifMatch /\ m_eTag # entity.version
    \/ Partial(length) /\ m_pos >= entity.size
Same == m_eTag \in {Unknown, entity.version}
First(version) == IF m_eTag = Unknown THEN version ELSE believed

\* m_size, from the Content-Range, or else from the Content-Length, which is then that of
\* a part.
Size(part, length) == IF part /\ ~server.instance
                      THEN LesserOf(entity.size - m_pos, length) ELSE entity.size

\* Mutant of Answer: what a server without ranges sends is taken as it comes.
AnswerUnskipped(length) ==
    /\ ~Refused(length) /\ Same
    /\ m_size' = Size(Partial(length), Requested(length)) /\ m_eTag' = entity.version
    /\ stream' = Body(IF Partial(length) THEN m_pos ELSE 0, entity.size)
    /\ m_readRequested' = Requested(length) /\ believed' = First(entity.version)
    /\ UNCHANGED m_pos

\* The response is taken: the same entity as before, or the first one.  What a server
\* without ranges sends is skipped up to m_pos.
Answer(length) ==
    /\ ~Refused(length) /\ Same /\ (Partial(length) \/ m_pos <= entity.size)
    /\ m_size' = Size(Partial(length), Requested(length)) /\ m_eTag' = entity.version
    /\ stream' = Body(m_pos, IF Partial(length) THEN LesserOf(entity.size - m_pos, Requested(length))
                             ELSE entity.size - m_pos)
    /\ m_readRequested' = IF ~Partial(length) /\ m_pos # 0 THEN All ELSE Requested(length)
    /\ believed' = First(entity.version)
    /\ UNCHANGED m_pos

\* The skipping fails: the response is noted, the old parent stays.
SkipFails(length) ==
    /\ ~Refused(length) /\ Same /\ ~Partial(length) /\ m_pos # 0
    /\ m_size' = entity.size /\ m_eTag' = entity.version
    /\ m_readRequested' = All /\ believed' = First(entity.version)
    /\ stream' = (IF stream.kind = "put" THEN NoStream ELSE stream)
    /\ UNCHANGED m_pos

\* The response is another entity's: EntityChangedException, back to the beginning.
Changed(length) ==
    /\ ~Refused(length) /\ ~Same
    /\ m_size' = Size(Partial(length), Requested(length)) /\ m_eTag' = entity.version /\ m_pos' = 0
    /\ stream' = IF m_pos # 0 /\ Partial(length) THEN NoStream
                 ELSE Body(0, IF Partial(length) THEN LesserOf(entity.size, Requested(length))
                              ELSE entity.size)
    /\ m_readRequested' = Requested(length) /\ believed' = entity.version

\* The broker throws, or the status is an error.  m_readRequested is set already, and a
\* parent that has been read to its end stays.
StartFails(length) ==
    /\ stream' = (IF stream.kind = "put" THEN NoStream ELSE stream)
    /\ m_readRequested' = Requested(length)
    /\ UNCHANGED <<m_pos, m_size, m_eTag, believed>>

AtEnd == m_size < Word /\ m_pos >= m_size
Idle == caller = "idle" /\ ~writing.progress
writeVars == <<entity, server, m_readAdvice, caller, writer, writing>>

\* Everything that was asked for has been read: one more byte is read to make the old
\* response end, and MORDOR_VERIFY says that there is none.  (If that throws, it is
\* ignored.)  There is one when the server has sent more than it was asked for.
Unfinished == stream.kind = "body" /\ stream.left > 0

start(length) ==
    /\ Idle /\ NeedsRequest
    /\ \/ Unfinished /\ caller' = "asserts" /\ UNCHANGED <<stream, m_pos, m_size, m_eTag, m_readRequested, believed>>
       \/ /\ IF AtEnd THEN stream' = NullStream /\ UNCHANGED <<m_pos, m_size, m_eTag, m_readRequested, believed>>
             ELSE Answer(length) \/ SkipFails(length) \/ Changed(length) \/ StartFails(length)
          /\ UNCHANGED caller
    /\ UNCHANGED <<last, entity, server, m_readAdvice, writer, writing>>

\* What read() does after start(): n bytes, of length at most, from the parent.
read(length, n) ==
    /\ Idle /\ ~NeedsRequest /\ stream.kind = "body"
    /\ n \in (IF stream.left = 0 THEN {0} ELSE 1..LesserOf(length, stream.left))
    /\ m_pos' = m_pos + n /\ m_readRequested' = Minus(m_readRequested, n)
    /\ stream' = [stream EXCEPT !.offset = @ + n, !.left = @ - n]
    /\ last' = [pos |-> m_pos, offset |-> stream.offset, version |-> stream.version, n |-> n]
    /\ UNCHANGED <<m_size, m_eTag, believed>> /\ UNCHANGED writeVars

\* The body of the response breaks off: clearParent(true), and another try if the delay
\* callback agrees.
ReadFails ==
    /\ Idle /\ ~NeedsRequest /\ stream.kind = "body"
    /\ stream' = NoStream
    /\ UNCHANGED <<m_pos, m_size, m_eTag, m_readRequested, believed, last>> /\ UNCHANGED writeVars

\* seek(): forward within what has been requested by reading, or anew.  If reading fails,
\* or even meets another entity, the exception is dropped.
seek(offset) ==
    LET skip == offset - m_pos
    IN /\ Idle /\ offset # m_pos
       /\ m_pos' = offset
       /\ \/ /\ offset > m_pos /\ m_readRequested # All /\ stream.kind = "body"
             /\ (m_pos + m_readRequested) % Word > offset
             /\ \/ /\ stream.left >= skip
                   /\ stream' = [stream EXCEPT !.offset = @ + skip, !.left = @ - skip]
                   /\ m_readRequested' = Minus(m_readRequested, skip)
                   /\ UNCHANGED <<m_size, m_eTag>>
                \/ stream' = NoStream /\ UNCHANGED <<m_readRequested, m_size, m_eTag>>
                \/ /\ ~Same /\ m_eTag' = entity.version
                   /\ \/ m_size' = entity.size
                      \/ /\ server.range /\ ~server.instance
                         /\ \E p \in m_pos .. offset - 1 : p < entity.size /\ m_size' = entity.size - p
                   /\ stream' = NoStream /\ UNCHANGED m_readRequested
          \/ /\ \/ offset < m_pos \/ m_readRequested = All \/ stream.kind # "body"
                \/ (m_pos + m_readRequested) % Word <= offset
             /\ stream' = NoStream /\ UNCHANGED <<m_readRequested, m_size, m_eTag>>
       /\ UNCHANGED <<believed, last>> /\ UNCHANGED writeVars

\* stat(): HEAD, if the size is not known.
stat ==
    /\ Idle /\ m_size = Unknown
    /\ stream' = NoStream
    /\ \/ /\ m_size' = entity.size /\ m_eTag' = entity.version /\ believed' = entity.version
          /\ m_pos' = IF Same THEN m_pos ELSE 0
       \/ UNCHANGED <<m_size, m_eTag, believed, m_pos>>
    /\ UNCHANGED <<m_readRequested, last>> /\ UNCHANGED writeVars

\* checkModified(): GET unless the ETag is the same; the caller is told whether it is.
checkModified ==
    LET partial == Ranged(0) /\ server.range
        left == entity.size - m_pos
    IN /\ Idle /\ m_eTag # Unknown
       /\ m_readRequested' = IF Ranged(0) /\ m_readAdvice # 0 THEN m_readAdvice ELSE All
       /\ \/ /\ m_eTag = entity.version          \* NOT_MODIFIED, with the size or without
             /\ stream' = NoStream /\ m_size' \in {entity.size, NoSize} /\ UNCHANGED <<m_eTag, believed>>
          \/ stream' = NoStream /\ UNCHANGED <<m_size, m_eTag, believed>>     \* an error
          \/ /\ m_eTag # entity.version /\ (partial => m_pos < entity.size)
             /\ m_size' = Size(partial, m_readRequested')
             /\ m_eTag' = entity.version /\ believed' = entity.version
             /\ stream' = IF m_pos > entity.size THEN NoStream
                          ELSE Body(m_pos, IF partial THEN LesserOf(left, m_readRequested') ELSE left)
       /\ UNCHANGED <<m_pos, last>> /\ UNCHANGED writeVars

\* Somebody stores another version.
EntityChanges ==
    /\ entity.version < MaxVersion
    /\ \E s \in Sizes : entity' = [version |-> entity.version + 1, size |-> s]
    /\ UNCHANGED <<server, readVars, m_readAdvice, caller, writer, writing>>

-----------------------------------------------------------------------------
\* write() without a PUT in progress: startWrite() is scheduled, and waited for.  (The
\* NullStream of a read at the end takes writes too, and then close() waits.)
write ==
    /\ caller = "idle" /\ stream.kind # "put" /\ ~writing.progress /\ m_pos < MaxOffset
    /\ stream' = (IF stream.kind = "null" THEN stream ELSE NoStream)
    /\ \/ /\ stream.kind = "null" /\ caller' = "closeWaitsNull"
          /\ writing' = [writing EXCEPT !.future = FALSE, !.future2 = TRUE] /\ UNCHANGED writer
       \/ /\ stream.kind # "null" /\ caller' = "writeWaits" /\ writer' = "scheduled"
          /\ writing' = [writing EXCEPT !.exception = FALSE, !.future = FALSE, !.progress = TRUE]
    /\ UNCHANGED <<m_pos, m_size, m_eTag, m_readRequested, believed, last, entity, server, m_readAdvice>>

WriterOnly == UNCHANGED <<m_pos, m_size, m_eTag, m_readRequested, believed, last,
                          entity, server, m_readAdvice, caller>>
\* The end of startWrite().
WriterEnds(request, exception) ==
    /\ writer' = "none" /\ UNCHANGED stream /\ WriterOnly
    /\ writing' = [writing EXCEPT !.request = request, !.exception = exception,
                                  !.progress = FALSE, !.future = TRUE]

\* doWrite() up to its wait.
doWrite ==
    /\ writer = "scheduled" /\ writer' = "body" /\ stream' = Put /\ WriterOnly
    /\ writing' = [writing EXCEPT !.future2 = FALSE, !.future = TRUE]
\* Its end: the body is complete, or given up.
doWriteEnds ==
    /\ writer = "body" /\ writing.future2 /\ WriterOnly
    /\ writer' = (IF writing.abort THEN "aborted" ELSE "response")
    /\ UNCHANGED <<stream, writing>>
\* startWrite() ends: with a response, with an exception, or aborted, which is no
\* exception if it was asked for.
startWriteEnds ==
    \/ writer = "response" /\ WriterEnds(TRUE, FALSE)
    \/ writer \in {"scheduled", "response"} /\ WriterEnds(writing.request, TRUE)
    \/ writer = "aborted" /\ WriterEnds(writing.request, FALSE)
\* A redirect or a challenge: the broker wants the body once more.
BodyAgain ==
    /\ Repeats /\ writer = "response" /\ writer' = "scheduled" /\ WriterOnly
    /\ UNCHANGED <<stream, writing>>

PutOnly == UNCHANGED <<m_size, m_eTag, m_readRequested, believed, last, entity, server,
                       m_readAdvice, writer, stream, writing>>
\* Back in write(): the exception, or bytes for the request's body.
writeReturns ==
    /\ caller = "writeWaits" /\ writing.future /\ caller' = "idle"
    /\ m_pos' = IF writing.exception THEN m_pos ELSE m_pos + 1
    /\ PutOnly
writeMore ==
    /\ caller = "idle" /\ stream.kind = "put" /\ m_pos < MaxOffset
    /\ m_pos' = m_pos + 1 /\ UNCHANGED caller /\ PutOnly

CallerOnly == UNCHANGED <<m_pos, m_size, m_eTag, m_readRequested, believed, last,
                          entity, server, m_readAdvice, writer>>
\* close(WRITE) of a PUT.
close ==
    /\ caller = "idle" /\ stream.kind = "put"
    /\ stream' = NoStream /\ caller' = "closeWaits"
    /\ writing' = [writing EXCEPT !.future = FALSE, !.future2 = TRUE] /\ CallerOnly
closeReturns ==
    /\ caller = "closeWaits" /\ writing.future /\ caller' = "idle"
    /\ writing' = [writing EXCEPT !.request = FALSE]
    /\ CallerOnly /\ UNCHANGED stream
\* clearParent() while a write is in progress (any read, seek, stat() or the destructor).
clearParent ==
    /\ caller = "idle" /\ writing.progress /\ caller' = "clearWaits"
    /\ writing' = [writing EXCEPT !.abort = TRUE, !.future = FALSE, !.future2 = TRUE]
    /\ CallerOnly /\ UNCHANGED stream
clearParentReturns ==
    /\ caller = "clearWaits" /\ writing.future /\ caller' = "idle"
    /\ stream' = NoStream /\ CallerOnly /\ UNCHANGED writing

HTTPStreamNext ==
    \/ \E length \in Lengths : start(length) \/ \E n \in 0..length : read(length, n)
    \/ start(IF m_readAdvice = 0 THEN All ELSE 0)
    \/ ReadFails \/ stat \/ checkModified \/ EntityChanges
    \/ \E offset \in 0..MaxOffset : seek(offset)
    \/ write \/ doWrite \/ doWriteEnds \/ startWriteEnds \/ BodyAgain
    \/ writeReturns \/ writeMore \/ close \/ closeReturns \/ clearParent \/ clearParentReturns

HTTPStreamSpec == HTTPStreamInit /\ [][HTTPStreamNext]_httpStreamVars

-----------------------------------------------------------------------------
\* Whatever the server supports, whichever requests fail and whenever the entity changes:
\* what a read returns is the part of one version of the entity that belongs at m_pos, the
\* version that the stream reports as its eTag; a stream goes on where it is; and a caller
\* that waits for the other fiber is not alone, nor does that fiber wait for a caller that
\* has gone.  A response is finished with bytes left in it, which start() asserts against,
\* only when the server has sent the entity instead of the range.
ReadsEntity ==
    /\ last.offset = last.pos
    /\ stream.kind = "body" => /\ stream.offset = m_pos
                               /\ stream.left > 0 => stream.version = m_eTag
    /\ caller \in {"writeWaits", "closeWaits", "clearWaits"} => writing.future \/ writer # "none"
    /\ writer = "body" /\ ~writing.future2 => caller = "idle" \/ writing.future
    /\ writing.progress <=> writer # "none"
    /\ caller = "asserts" => ~server.range \/ entity.version > 1

\* "A return value of 0 is the only reliable method of detecting EOF": a read returns no bytes only at the end of the version it reads.
NoFalseEof == last.n = 0 /\ last.version = entity.version => last.pos >= entity.size

\* start(): MORDOR_VERIFY(parent()->read(&byte, 1) == 0).  It does not hold.
FinishedWhenRead == caller # "asserts"

\* close(): MORDOR_ASSERT(m_writeRequest), when the write has thrown no exception.
WriteRequestThere ==
    caller = "closeWaits" /\ writing.future /\ ~writing.exception => writing.request

\* A caller learns of another version by an exception before it reads from it.
ToldOfChange == stream.kind = "body" /\ stream.left > 0 => stream.version = believed
=============================================================================
