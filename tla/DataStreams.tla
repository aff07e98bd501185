---------------------------- MODULE DataStreams ----------------------------
(***************************************************************************)
(* The parts of the library that carry bytes, each used by one fiber at a  *)
(* time: buffers and streams, compression and zip files, the bodies and    *)
(* ranges of HTTP messages, the dispatch of requests to servlets and the   *)
(* parameters of SQL statements.  `use' says which of them a behaviour is  *)
(* about; the others stay in their initial state.                          *)
(***************************************************************************)
EXTENDS Naturals, Sequences

CONSTANTS
    Bytes, Arrays, MaxLen, MaxRoom, BufferSegments, MaxArg,             \* Buffer
    m_bufferSize, MaxSize, CallLengths,                                 \* BufferedStream
    MaxMemory, CatSizes, m_size, SourceSize, chunkSize, Unlimited,      \* PositionedStreams
    MaxWritten, MaxPiece, MaxThrows,                                    \* CompressStream
    MaxFiles, ZipLengths, Max32,                                        \* Zip
    Alphabet, MaxInput, supportsUnread,                                 \* RagelParser
    MaxBody, WriteSizes, Faults,                                        \* MessageBody
    MaxVersion, HttpSizes, Advices, HttpLengths, MaxOffset, Word, Repeats, \* HTTPStream
    EntitySizes, Firsts, Seconds, MaxRanges, TagValues,                 \* RangeResponse
    Hosts, Requests, MaxServlets, Servlets,                             \* Servlet
    Types, MaxParams, MaxStorage                                        \* PQStatement

VARIABLES
    use,
    buffer, memory, content,
    seekable, m_allowPartialReads, bufferedStream, reference, answer, aborted,
    kind, m_original, m_read, m_offset, overran, m_it, filePos, catPos, seen, limitPos,
    parentPos, parentSize,
    toTransfer, exact, toNull, source, target, readBuffer, totalRead, transferPhase,
    lzma, accepted, counted, strm, m_outBuffer, parent, m_closed, m_inBuffer, output,
    compressPhase, throws,
    writeSeek, readSeek, mode, archive, scratch, streams, m_centralDirectory,
    m_currentFile, m_fileStream, zipPos, entries, data,
    input, ragelStream, buffers, state, m_fullString, total, ragelPhase,
    message, wire, bodySent, sender, pos, m_nextChunk, got, receiver, notified,
    entity, server, httpStream, httpPos, httpSize, m_eTag, m_readAdvice,
    m_readRequested, believed, last, caller, writer, writing,
    request, response, verdict, parts, conditions,
    m_enableWildcard, m_servlets, servletPhase, uri, path, segments, i, vhost, servlet,
    named, statement, bound, statementSent

\* The texts given to a parser, and the entity tags of conditional requests.
Inputs == UNION {[1..n -> Alphabet] : n \in 0..MaxInput}
NoETag == [value |-> "", weak |-> FALSE, unspecified |-> TRUE]
ETags == [value : TagValues, weak : BOOLEAN, unspecified : {FALSE}] \cup {NoETag}

Buf == INSTANCE Buffer WITH MaxSegments <- BufferSegments
Buffered == INSTANCE BufferedStream WITH stream <- bufferedStream
Positioned == INSTANCE PositionedStreams WITH m_pos <- catPos, Sizes <- CatSizes,
                                              phase <- transferPhase
Compress == INSTANCE CompressStream WITH phase <- compressPhase
ZipFile == INSTANCE Zip WITH m_pos <- zipPos, Lengths <- ZipLengths
Ragel == INSTANCE RagelParser WITH stream <- ragelStream, phase <- ragelPhase
Body == INSTANCE MessageBody WITH sent <- bodySent
HStream == INSTANCE HTTPStream WITH stream <- httpStream, m_pos <- httpPos, m_size <- httpSize,
                                    Sizes <- HttpSizes, Lengths <- HttpLengths
Ranges == INSTANCE RangeResponse
Dispatcher == INSTANCE Servlet WITH phase <- servletPhase
Statement == INSTANCE PQStatement WITH sent <- statementSent

Uses == {"buffer", "buffered", "positioned", "transfer", "compress", "zip", "ragel", "body",
         "http", "range", "servlet", "statement"}
bufferVars == <<buffer, memory, content>>
bufferedVars == <<seekable, m_allowPartialReads, bufferedStream, reference, answer, aborted>>
positionedVars == <<kind, m_original, m_read, m_offset, overran, m_it, filePos, catPos, seen,
                    limitPos, parentPos, parentSize>>
transferVars == <<toTransfer, exact, toNull, source, target, readBuffer, totalRead,
                  transferPhase>>
compressVars == <<lzma, accepted, counted, strm, m_outBuffer, parent, m_closed, m_inBuffer,
                  output, compressPhase, throws>>
zipVars == <<writeSeek, readSeek, mode, archive, scratch, streams, m_centralDirectory,
             m_currentFile, m_fileStream, zipPos, entries, data>>
ragelVars == <<input, ragelStream, buffers, state, m_fullString, total, ragelPhase>>
bodyVars == <<message, wire, bodySent, sender, pos, m_nextChunk, got, receiver, notified>>
httpStreamVars == <<entity, server, httpStream, httpPos, httpSize, m_eTag, m_readAdvice,
                    m_readRequested, believed, last, caller, writer, writing>>
rangeVars == <<request, response, verdict, parts, conditions>>
servletVars == <<m_enableWildcard, m_servlets, servletPhase, uri, path, segments, i, vhost,
                 servlet>>
statementVars == <<named, statement, bound, statementSent>>
vars == <<use, bufferVars, bufferedVars, positionedVars, transferVars, compressVars, zipVars,
          ragelVars, bodyVars, httpStreamVars, rangeVars, servletVars, statementVars>>

-----------------------------------------------------------------------------
\* A choice that the initial state of a component leaves open is made only when the
\* component is in use.
Settled ==
    /\ \/ use = "positioned"
       \/ kind = "memory" /\ parentSize = 0 /\ filePos = [k \in DOMAIN CatSizes |-> 0]
    /\ use = "buffered" \/ (seekable = TRUE /\ m_allowPartialReads = TRUE)
    /\ use = "transfer" \/ (toTransfer = 0 /\ exact = FALSE /\ toNull = FALSE)
    /\ use = "compress" \/ lzma = FALSE
    /\ use = "zip" \/ (writeSeek = TRUE /\ readSeek = TRUE)
    /\ use = "ragel" \/ input = <<>>
    /\ use = "body" \/ message = CHOOSE m \in Body!Messages : TRUE
    /\ \/ use = "http"
       \/ /\ entity = CHOOSE e \in [version : {1}, size : HttpSizes] : TRUE
          /\ server = [range |-> TRUE, ifRange |-> TRUE, ifMatch |-> TRUE, instance |-> TRUE]
          /\ m_readAdvice = CHOOSE n \in Advices : TRUE
          /\ m_eTag = 1
    /\ \/ use = "range"
       \/ /\ request = [head |-> FALSE, te |-> FALSE, ifRange |-> TRUE, range |-> <<>>]
          /\ response = [length |-> 1, sized |-> TRUE, seekable |-> TRUE, pos |-> 0]
          /\ conditions = [getOrHead |-> TRUE, match |-> {}, noneMatch |-> {}, eTag |-> NoETag]
    /\ use = "servlet" \/ m_enableWildcard = TRUE
    /\ use = "statement" \/ named = FALSE

Init ==
    /\ use \in Uses /\ Settled
    /\ Buf!BufferInit /\ Buffered!BufferedInit /\ Positioned!PositionedInit
    /\ Positioned!TransferInit /\ Compress!CompressInit /\ ZipFile!ZipInit
    /\ Ragel!RagelInit /\ Body!BodyInit /\ HStream!HTTPStreamInit
    /\ Ranges!RangeInit /\ Dispatcher!ServletInit /\ Statement!StatementInit

\* A step of one component leaves the others alone.
Frame(u) ==
    /\ UNCHANGED use
    /\ IF u = "buffer" THEN TRUE ELSE UNCHANGED bufferVars
    /\ IF u = "buffered" THEN TRUE ELSE UNCHANGED bufferedVars
    /\ IF u = "positioned" THEN TRUE ELSE UNCHANGED positionedVars
    /\ IF u = "transfer" THEN TRUE ELSE UNCHANGED transferVars
    /\ IF u = "compress" THEN TRUE ELSE UNCHANGED compressVars
    /\ IF u = "zip" THEN TRUE ELSE UNCHANGED zipVars
    /\ IF u = "ragel" THEN TRUE ELSE UNCHANGED ragelVars
    /\ IF u = "body" THEN TRUE ELSE UNCHANGED bodyVars
    /\ IF u = "http" THEN TRUE ELSE UNCHANGED httpStreamVars
    /\ IF u = "range" THEN TRUE ELSE UNCHANGED rangeVars
    /\ IF u = "servlet" THEN TRUE ELSE UNCHANGED servletVars
    /\ IF u = "statement" THEN TRUE ELSE UNCHANGED statementVars

Next ==
    \/ use = "buffer" /\ Buf!BufferNext /\ Frame("buffer")
    \/ use = "buffered" /\ Buffered!BufferedNext /\ Frame("buffered")
    \/ use = "positioned" /\ Positioned!PositionedNext /\ Frame("positioned")
    \/ use = "transfer" /\ Positioned!TransferNext /\ Frame("transfer")
    \/ use = "compress" /\ Compress!CompressNext /\ Frame("compress")
    \/ use = "zip" /\ ZipFile!ZipNext /\ Frame("zip")
    \/ use = "ragel" /\ Ragel!RagelNext /\ Frame("ragel")
    \/ use = "body" /\ Body!BodyNext /\ Frame("body")
    \/ use = "http" /\ HStream!HTTPStreamNext /\ Frame("http")
    \/ use = "range" /\ Ranges!RangeNext /\ Frame("range")
    \/ use = "servlet" /\ Dispatcher!ServletNext /\ Frame("servlet")
    \/ use = "statement" /\ Statement!StatementNext /\ Frame("statement")

Spec == Init /\ [][Next]_vars

-----------------------------------------------------------------------------
\* Whatever mix of reserves, copies, consumes, splices and truncations led there, a
\* Buffer reads as the string of bytes put in and not taken out, and its segments and
\* counters account for exactly those bytes and for its room, over several segments.  The
\* streams over a buffer or a file give a caller the bytes of its own position:
\* BufferedStream with its two buffers, until truncate() takes a pending write from its
\* place, MemoryStream, CatStream and LimitedStream with their cached positions, and
\* transferStream() with its two buffers in flight.
BytesInPlace ==
    /\ use = "buffer" => Buf!ReadsAsString /\ Buf!SegmentsConsistent
    /\ use = "buffered" => Buffered!BufferedTransparent
    /\ use = "positioned" => Positioned!ReadsAtPosition
    /\ use = "transfer" => Positioned!TransfersInOrder

\* What is written through a compressing stream whose parent may throw is read back whole
\* and once.  The directory of a zip file describes its entries, and in a plain one every
\* entry is listed and gives its own data, in whatever order the entries are accessed; an
\* entry that is current gives nothing when it is not the first to be accessed.
PacksAndUnpacks ==
    /\ use = "compress" => Compress!CompressedIntact
    /\ use = "zip" => ZipFile!ZipWellFormed /\ ZipFile!ZipReadsBack

\* Message framing does not depend on how the bytes arrive: the receiver of a body gets
\* the body that was sent and leaves the next message on the connection, and a parser
\* that is fed in pieces finds the tokens of the whole text and leaves the rest unread.
FramingHolds ==
    /\ use = "body" => Body!BodyIntact
    /\ use = "ragel" => Ragel!PiecesDoNotMatter

\* The bytes that HTTPStream gives at a position are those of the entity there, and the
\* ranges that respondStream() sends are those asked for, under a Content-Range that says
\* so unless a suffix is one of several.
RangesRight ==
    /\ use = "http" => HStream!ReadsEntity
    /\ use = "range" => Ranges!RangesAnswered

\* A request reaches the servlet registered for the longest prefix of its resolved path,
\* a plain one before a wildcard, and of two wildcards the one whose first "*" comes
\* later, unless a segment that sorts before "*" is in its place.
Dispatched ==
    use = "servlet" => Dispatcher!DispatchesMostSpecific /\ Dispatcher!PathResolved

\* A statement is sent with the values that were bound to its parameters.
StatementSends == use = "statement" => Statement!SendsWhatWasBound

-----------------------------------------------------------------------------
\* Values that a configuration cannot write: CatStream over streams of 2, 0 and 1
\* bytes; and servlets and requests, with absolute paths, whose first segment is empty.
\* Two wildcards meet at "/a/a", and at "/!/a", where "!" sorts before "*".
MCCatSizes == <<2, 0, 1>>
MCServlets ==
    [host : {"", "h"}, path : {<<"", "">>, <<"", "*">>, <<"", "a", "*">>}]
    \cup [host : {""}, path : {<<"", "a">>, <<"", "*", "a">>, <<"", "!", "*">>}]
MCRequests ==
    {<<"">> \o p : p \in UNION {[1..n -> {"", "a", ".", ".."}] : n \in 1..3} \cup {<<"!", "">>, <<"!", "a">>}}
=============================================================================
