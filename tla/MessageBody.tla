---------------------------- MODULE MessageBody -----------------------------
(***************************************************************************)
(* The body of an HTTP message: Connection::hasMessageBody() and           *)
(* getStream() (http/connection.cpp) choose its framing from the headers,  *)
(* ChunkedStream (http/chunked.cpp) or a strict LimitedStream writes and   *)
(* reads it, a NotifyStream (streams/notify.h) reports its end.  The wire  *)
(* is a sequence of lines and bytes; byte i of a body has n = i, and n =    *)
(* -1 is the beginning of the message that follows.                        *)
(***************************************************************************)
EXTENDS Integers, Sequences

CONSTANTS
    MaxBody,       \* bound on the length of a body
    WriteSizes,    \* lengths the sender passes to write()
    Faults         \* whether the connection may be cut

VARIABLES
    message,       \* the headers both sides see
    wire,          \* lines and bytes written so far
    sent,          \* length of the body written so far
    sender,        \* "body", "done", "cut"
    pos,           \* what the receiver has read of the wire
    m_nextChunk,   \* ChunkedStream: bytes left in the chunk, HEADER or FOOTER
    got,           \* body bytes the receiver's read() gave
    receiver,      \* "reading", "eof", "exception"
    notified       \* calls of notifyOnEof and notifyOnException

bodyVars == <<message, wire, sent, sender, pos, m_nextChunk, got, receiver, notified>>

UNKNOWN == -1      \* no Content-Length
HEADER == -1       \* ~0: a chunk header comes next
FOOTER == -2       \* ~0 - 1: the CRLF after a chunk comes next

Messages == [method : {"GET", "HEAD", "CONNECT", "TRACE"}, status : {"INVALID", "200", "204"},
             chunked : BOOLEAN, length : {UNKNOWN} \cup 0..MaxBody, multipart : BOOLEAN]

hasMessageBody(m, includeEmpty) ==
    /\ ~(m.method = "CONNECT" /\ m.status \in {"INVALID", "200"})
    /\ ~(m.method = "TRACE" /\ m.status = "INVALID")
    /\ ~(m.method = "HEAD" /\ m.status # "INVALID")
    /\ m.status # "204"
    /\ \/ m.chunked
       \/ m.length = 0 /\ includeEmpty
       \/ m.length > 0
       \/ m.length = UNKNOWN /\ (m.multipart \/ m.status # "INVALID")

\* getStream(): transfer codings before a length, and otherwise no framing at all.
Framing(m) == IF m.chunked THEN "chunked"
              ELSE IF m.length # UNKNOWN THEN "limited"
              ELSE "close"

NextMessage == <<[line |-> FALSE, n |-> -1]>>

\* The sender makes a body only if it is not known to be empty; what follows is then
\* written at once.
BodyInit ==
    /\ message \in Messages
    /\ IF hasMessageBody(message, FALSE) THEN wire = <<>> /\ sender = "body"
                                         ELSE wire = NextMessage /\ sender = "done"
    /\ sent = 0 /\ pos = 0 /\ m_nextChunk = HEADER /\ got = <<>> /\ notified = <<>>
    /\ receiver = IF hasMessageBody(message, TRUE) THEN "reading" ELSE "none"

CRLF == -1         \* the empty line; a chunk header is a line with its length
BodyBytes(n) == [i \in 1..n |-> [line |-> FALSE, n |-> sent + i]]
Line(n) == <<[line |-> TRUE, n |-> n]>>

ReceiverSame == UNCHANGED <<pos, m_nextChunk, got, receiver, notified>>

\* Mutant of write: the chunk's length is taken before the write is limited.
writeShort(n) ==
    LET len == IF n < MaxBody - sent THEN n ELSE MaxBody - sent
    IN /\ sender = "body" /\ (Framing(message) = "limited" => n <= message.length - sent)
       /\ wire' = IF Framing(message) = "chunked" THEN wire \o Line(n) \o BodyBytes(len) \o Line(CRLF)
                  ELSE wire \o BodyBytes(len)
       /\ sent' = sent + len
       /\ UNCHANGED <<message, sender>> /\ ReceiverSame

\* ChunkedStream::write(), LimitedStream::write() or the bare stream.
write(n) ==
    /\ sender = "body" /\ n <= MaxBody - sent
    /\ Framing(message) = "limited" => n <= message.length - sent
    /\ wire' = IF Framing(message) = "chunked" THEN wire \o Line(n) \o BodyBytes(n) \o Line(CRLF)
               ELSE wire \o BodyBytes(n)
    /\ sent' = sent + n
    /\ UNCHANGED <<message, sender>> /\ ReceiverSame

\* ChunkedStream::close() writes the last chunk's header; the connection goes on with
\* the next message unless its end is what ends the body.
close ==
    /\ sender = "body" /\ sender' = "done"
    /\ Framing(message) = "limited" => sent = message.length
    /\ wire' = CASE Framing(message) = "chunked" -> wire \o Line(0) \o NextMessage
                 [] Framing(message) = "limited" -> wire \o NextMessage
                 [] OTHER -> wire
    /\ UNCHANGED <<message, sent>> /\ ReceiverSame

\* The connection breaks: what was not read yet may be lost.
Cut(n) == /\ Faults /\ sender # "cut" /\ sender' = "cut"
          /\ wire' = SubSeq(wire, 1, n)
          /\ UNCHANGED <<message, sent>> /\ ReceiverSame

\* read() of the parent gives 0: nothing more will come.
AtEof == pos = Len(wire) /\ (sender = "cut" \/ (sender = "done" /\ Framing(message) = "close"))

\* NotifyStream::read()
\* The receiver stops at its first end; the code would notify at every further read of 0.
Ends(how) == receiver' = how /\ notified' = Append(notified, how)

\* getDelimited() throws at the end of the stream, and strtoull() finds no digits in
\* a line that is no chunk header.
ReadLine ==
    /\ receiver = "reading" /\ Framing(message) = "chunked" /\ m_nextChunk < 0
    /\ \/ /\ AtEof /\ Ends("exception") /\ UNCHANGED <<pos, m_nextChunk>>
       \/ /\ pos < Len(wire) /\ pos' = pos + 1
          /\ IF ~wire[pos + 1].line \/ (m_nextChunk = FOOTER) # (wire[pos + 1].n = CRLF)
             THEN Ends("exception") /\ UNCHANGED m_nextChunk
             ELSE IF m_nextChunk = FOOTER
             THEN m_nextChunk' = HEADER /\ UNCHANGED <<receiver, notified>>
             ELSE /\ m_nextChunk' = wire[pos + 1].n
                  /\ IF m_nextChunk' = 0 THEN Ends("eof") ELSE UNCHANGED <<receiver, notified>>
    /\ UNCHANGED <<message, wire, sent, sender, got>>

Left == CASE Framing(message) = "chunked" -> m_nextChunk
          [] Framing(message) = "limited" -> message.length - Len(got)
          [] OTHER -> MaxBody

\* read() within a chunk, up to the limit, or to the end of the connection.  An end
\* that comes too early is an exception to a strict LimitedStream only.
ReadBytes(n) ==
    /\ receiver = "reading" /\ (Framing(message) = "chunked" => m_nextChunk >= 0)
    /\ \/ /\ Left > 0 /\ pos < Len(wire) /\ n <= Left /\ n <= Len(wire) - pos
          /\ pos' = pos + n /\ got' = got \o [i \in 1..n |-> wire[pos + i].n]
          /\ m_nextChunk' = IF Framing(message) # "chunked" THEN m_nextChunk
                            ELSE IF m_nextChunk = n THEN FOOTER ELSE m_nextChunk - n
          /\ UNCHANGED <<receiver, notified>>
       \/ /\ n = 1 /\ (Left = 0 \/ AtEof)
          /\ Ends(IF Left > 0 /\ Framing(message) = "limited" THEN "exception" ELSE "eof")
          /\ UNCHANGED <<pos, got, m_nextChunk>>
    /\ UNCHANGED <<message, wire, sent, sender>>

BodyNext == \/ \E n \in WriteSizes : write(n)
            \/ close \/ ReadLine
            \/ \E n \in pos..Len(wire) : Cut(n)
            \/ \E n \in 1..MaxBody : ReadBytes(n)

BodySpec == BodyInit /\ [][BodyNext]_bodyVars

-----------------------------------------------------------------------------
\* The whole body was received, and nothing of what follows it.
Whole == CASE Framing(message) = "limited" -> Len(got) = message.length
           [] Framing(message) = "chunked" -> Len(got) = sent /\ sender # "body" /\ m_nextChunk = 0
           [] OTHER -> Len(got) = sent /\ sender # "body"

\* Sender and receiver agree on every body: the receiver gets a prefix of what was
\* written and never a byte of the next message; if the connection lasts, an end of
\* file means the whole body and leaves the receiver where the next message starts,
\* and nothing but a broken connection is an exception.  A receiver that stops at its
\* first end of file is notified once (NotifyStream notifies at every further one, and at
\* close()).  They also agree that there is no body.
BodyIntact ==
    /\ got = [i \in 1..Len(got) |-> i]
    /\ (receiver = "eof" /\ sender # "cut") =>
          /\ Whole
          /\ (Framing(message) # "close" /\ sender = "done") => SubSeq(wire, pos + 1, Len(wire)) = NextMessage
    /\ (receiver = "exception" => sender = "cut") /\ Len(notified) <= 1
    /\ receiver = "none" => sender # "body"

\* A body that is cut short is not taken for a complete one where the framing tells
\* its length: "A return value of 0 is the only reliable method of detecting EOF".
PrematureEndNoticed == (receiver = "eof" /\ Framing(message) # "close") => Whole
=============================================================================
