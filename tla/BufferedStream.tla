--------------------------- MODULE BufferedStream ---------------------------
(***************************************************************************)
(* BufferedStream (streams/buffered.cpp) over a parent that reads and      *)
(* writes short and fails at any call.  With `seekable' the parent is a    *)
(* file with one position; without, it is a connection: what comes in is   *)
(* file from pos on, what goes out is sink.  `reference' is what the calls *)
(* that returned without an exception should have made of the stream.      *)
(***************************************************************************)
EXTENDS Integers, Sequences, SequencesExt, FiniteSetsExt

CONSTANTS
    m_bufferSize,
    MaxSize,       \* bound: bytes of the file, and sent through the connection
    CallLengths    \* bytes in one call to read() or write()

VARIABLES
    seekable,      \* supportsSeek()
    m_allowPartialReads,
    stream,        \* the parent's file, pos and sink; m_readBuffer and m_writeBuffer
    reference,     \* text: the stream's bytes, at: its position, sent: bytes written,
                   \* lost: truncate() has taken a pending write from its place
    answer,        \* what the last call returned, and what it should have
    aborted        \* an assertion failed

bufferedVars == <<seekable, m_allowPartialReads, stream, reference, answer, aborted>>

From(s, i) == SubSeq(s, i + 1, Len(s))
Upto(s, n) == SubSeq(s, 1, IF n < Len(s) THEN n ELSE Len(s))
\* A file cut, or made longer with zeros, to n bytes.
Resized(s, n) == Upto(s, n) \o [i \in 1 .. n - Len(s) |-> 0]
\* s with the bytes of t in place of its own, from position `at' on.
Overlay(s, at, t) == IF t = <<>> THEN s ELSE Resized(s, at) \o t \o From(s, at + Len(t))
RoundUp(n) == ((n - 1) \div m_bufferSize + 1) * m_bufferSize

\* What callers write, and what the parent holds at first.
Written(n) == [i \in 1..n |-> 10 + i]

BufferedInit ==
    /\ seekable \in BOOLEAN /\ m_allowPartialReads \in BOOLEAN
    /\ stream = [file |-> [i \in 1 .. MaxSize - 1 |-> i], pos |-> 0, sink |-> <<>>,
                 readBuffer |-> <<>>, writeBuffer |-> <<>>]
    /\ reference = [text |-> [i \in 1 .. MaxSize - 1 |-> i], at |-> 0, sent |-> <<>>,
                    lost |-> FALSE]
    /\ answer = <<<<>>, <<>>>>
    /\ aborted = FALSE

-----------------------------------------------------------------------------
\* Outcomes of a call that may throw: the stream after it, and whether it returned.
Returned(s) == [stream |-> s, ok |-> TRUE]
Thrown(s) == [stream |-> s, ok |-> FALSE]

\* parent()->seek() back over what was read ahead, before writing.
SeekBack(s) == IF seekable THEN [s EXCEPT !.pos = @ - Len(s.readBuffer), !.readBuffer = <<>>] ELSE s

\* The parent has taken the first n bytes of m_writeBuffer.
Wrote(s, n) ==
    LET t == SeekBack(s)
        out == Upto(s.writeBuffer, n)
    IN IF seekable
       THEN [t EXCEPT !.file = Overlay(@, t.pos, out), !.pos = @ + n, !.writeBuffer = From(@, n)]
       ELSE [t EXCEPT !.sink = @ \o out, !.writeBuffer = From(@, n)]

\* flush(): parent()->write() until m_writeBuffer is empty, or a call throws.
flush(s) ==
    LET n == Len(s.writeBuffer)
    IN IF n = 0 THEN {Returned(s)}
       ELSE {Returned(Wrote(s, n))} \cup {Thrown(Wrote(s, k)) : k \in 0 .. n - 1}

FlushIfSeekable(s) == IF seekable THEN flush(s) ELSE {Returned(s)}

\* Mutant of flushWrite: the write is not backed out when its exception is forwarded.
flushWriteKeeps(s, length) ==
    LET n == Len(s.writeBuffer)
        left(k) == Wrote(s, k)
    IN IF n < m_bufferSize THEN {Returned(s)}
       ELSE {Returned(left(k)) : k \in n - m_bufferSize + 1 .. n}
            \cup {IF n - k >= length THEN Thrown(left(k)) ELSE Returned(left(k)) :
                    k \in 0 .. n - m_bufferSize}

\* flushWrite(): the same until less than m_bufferSize is left.  When a call throws,
\* a write that is still whole in the buffer is backed out and the exception goes
\* on; otherwise it is swallowed.
flushWrite(s, length) ==
    LET n == Len(s.writeBuffer)
        left(k) == Wrote(s, k)
    IN IF n < m_bufferSize THEN {Returned(s)}
       ELSE {Returned(left(k)) : k \in n - m_bufferSize + 1 .. n}
            \cup {IF n - k >= length
                  THEN Thrown([left(k) EXCEPT !.writeBuffer = Upto(@, n - k - length)])
                  ELSE Returned(left(k)) : k \in 0 .. n - m_bufferSize}

\* The parent has delivered n more bytes into m_readBuffer.
Fetched(s, n) == [s EXCEPT !.pos = @ + n, !.readBuffer = @ \o SubSeq(s.file, s.pos + 1, s.pos + n)]
Available(s) == IF s.pos < Len(s.file) THEN Len(s.file) - s.pos ELSE 0

\* readInternal(): how many bytes the loop may fetch for r missing ones, and
\* whether it ended with an exception.  Calls are for r rounded up to a multiple
\* of the buffer size; the loop goes on while bytes are missing, the parent is not
\* at its end and partial reads are not allowed.
Fetches(s, r) ==
    LET most == Max({p + RoundUp(r - p) : p \in 0 .. r - 1})
        once == {n \in 1..RoundUp(r) : n <= Available(s)}
        enough == {n \in r..most : n <= Available(s)}
        end == IF Available(s) < r THEN {Available(s)} ELSE {}
    IN IF m_allowPartialReads
       THEN [done |-> once \cup ({0} \cap end), failed |-> {0}]
       ELSE [done |-> enough \cup end, failed |-> {n \in 0 .. r - 1 : n <= Available(s)}]

\* find(): bytes fetched until Stop(m_readBuffer), in reads of up to m_bufferSize.
FetchUntil(s, Stop(_)) ==
    IF Stop(s.readBuffer) THEN {0}
    ELSE {n \in 1..Available(s) :
             /\ Stop(Fetched(s, n).readBuffer) \/ n = Available(s)
             /\ \E p \in 0 .. n - 1 : n - p <= m_bufferSize /\ ~Stop(Fetched(s, p).readBuffer)}
         \cup ({0} \cap {Available(s)})

-----------------------------------------------------------------------------
Frame == UNCHANGED <<seekable, m_allowPartialReads>>

\* A call that throws in the flush before it does anything else.
FlushFails == \E o \in FlushIfSeekable(stream) :
                 /\ ~o.ok /\ stream' = o.stream
                 /\ UNCHANGED <<reference, answer, aborted>>

Read(length) ==
    \/ FlushFails
    \/ \E o \in FlushIfSeekable(stream) :
        LET s == o.stream
            buffered == Len(Upto(s.readBuffer, length))
            r == length - buffered
            Give(t) ==
                LET n == Len(Upto(t.readBuffer, length))
                IN /\ stream' = [t EXCEPT !.readBuffer = From(@, n)]
                   /\ answer' = <<Upto(t.readBuffer, n), SubSeq(reference.text, reference.at + 1,
                                                                reference.at + n)>>
                   /\ reference' = [reference EXCEPT !.at = @ + n]
        IN /\ o.ok
           /\ UNCHANGED aborted
           /\ IF r = 0 \/ (buffered > 0 /\ m_allowPartialReads) THEN Give(s)
              ELSE \/ \E n \in Fetches(s, r).done : Give(Fetched(s, n))
                   \/ \E n \in Fetches(s, r).failed :
                        IF buffered + n = 0 THEN stream' = s /\ UNCHANGED <<reference, answer>>
                        ELSE Give(Fetched(s, n))

Write(length) ==
    LET s == [stream EXCEPT !.writeBuffer = @ \o Written(length)]
        r == reference
    IN /\ (IF seekable THEN r.at ELSE Len(r.sent)) + length <= MaxSize
       /\ \E o \in flushWrite(s, length) :
            /\ stream' = o.stream
            /\ reference' = IF ~o.ok THEN r
                            ELSE IF seekable THEN [r EXCEPT !.text = Overlay(@, r.at, Written(length)),
                                                            !.at = @ + length]
                            ELSE [r EXCEPT !.sent = @ \o Written(length)]
       /\ UNCHANGED <<answer, aborted>>

\* seek(), to `target' from any anchor.  bufferedPos, parentPos and the size are
\* taken before the flush and used after it; no position at the end matches while a
\* pending write still makes the parent longer.
Seek(target, anchor) ==
    LET parentPos == stream.pos
        bufferedPos == parentPos - Len(stream.readBuffer) + Len(stream.writeBuffer)
        Moved(t) == stream' = t /\ reference' = [reference EXCEPT !.at = target] /\ UNCHANGED aborted
    IN /\ seekable /\ UNCHANGED answer
       /\ IF target = bufferedPos /\ (anchor # "END" \/ target <= Len(stream.file))
          THEN UNCHANGED <<stream, reference, aborted>>
          ELSE \/ FlushFails
               \/ \E o \in flush(stream) :
                    LET s == o.stream
                        ahead == target - bufferedPos
                    IN /\ o.ok
                       /\ IF IF anchor = "CURRENT" THEN ahead > 0 /\ ahead <= Len(s.readBuffer)
                             ELSE target >= bufferedPos /\ target <= parentPos
                          THEN IF ahead <= Len(s.readBuffer)
                               THEN Moved([s EXCEPT !.readBuffer = From(@, ahead)])
                               ELSE aborted' = TRUE /\ stream' = s /\ UNCHANGED reference
                          ELSE Moved([s EXCEPT !.readBuffer = <<>>, !.pos = target])

\* truncate() drops what was read ahead without seeking back, so the caller's position
\* moves forward by as much, and a write that is still pending, having been made before
\* that position, is lost from its place.  The position may be past the new end.
Truncate(size) ==
    LET Cut(s) == /\ stream' = [s EXCEPT !.readBuffer = <<>>, !.file = Resized(@, size)]
                  /\ reference' = [reference EXCEPT !.text = Resized(@, size),
                                                    !.at = @ + Len(s.readBuffer),
                                                    !.lost = @ \/ (s.readBuffer # <<>> /\ s.writeBuffer # <<>>)]
                  /\ UNCHANGED <<answer, aborted>>
    IN /\ seekable
       /\ IF stream.pos + Len(stream.writeBuffer) >= size
          THEN FlushFails \/ \E o \in flush(stream) : o.ok /\ Cut(o.stream)
          ELSE Cut(stream)

Flush == \E o \in flush(stream) : stream' = o.stream /\ UNCHANGED <<reference, answer, aborted>>

\* find(delim, sanitySize) and getDelimited().
Find(delim, sanitySize) ==
    LET Hit(b) == {i \in DOMAIN Upto(b, sanitySize + 1) : b[i] = delim}
        Stop(b) == Hit(b) # {} \/ Len(b) > sanitySize
        text == Upto(From(reference.text, reference.at), sanitySize + 1)
        where == {i \in DOMAIN text : text[i] = delim}
    IN \/ FlushFails
       \/ \E o \in FlushIfSeekable(stream) :
            /\ o.ok
            /\ \E n \in FetchUntil(o.stream, Stop) :
                  LET t == Fetched(o.stream, n) IN
                  /\ stream' = t
                  /\ answer' = <<Min(Hit(t.readBuffer) \cup {MaxSize + 1}), Min(where \cup {MaxSize + 1})>>
            /\ UNCHANGED <<reference, aborted>>

\* unread(), of bytes that were read: supportsUnread() rules out a file.
Unread == /\ ~seekable /\ reference.at > 0
          /\ stream' = [stream EXCEPT !.readBuffer = <<reference.text[reference.at]>> \o @]
          /\ reference' = [reference EXCEPT !.at = @ - 1]
          /\ UNCHANGED <<answer, aborted>>

\* A behaviour is followed until an assertion fails or a write is lost from its place,
\* after which there is no reference to compare with.
BufferedNext ==
    /\ ~aborted /\ ~reference.lost /\ Frame
    /\ \/ \E length \in CallLengths : Read(length) \/ Write(length)
       \/ \E target \in 0..Len(reference.text), anchor \in {"BEGIN", "CURRENT", "END"} : Seek(target, anchor)
       \/ \E size \in 0..MaxSize : Truncate(size)
       \/ Flush \/ Unread
       \/ \E delim \in {2, 11} : Find(delim, 1)

BufferedSpec == BufferedInit /\ [][BufferedNext]_bufferedVars

-----------------------------------------------------------------------------
\* Whatever is buffered in either direction, however short the parent reads and
\* writes and wherever it throws, the stream is the one its caller sees: the parent
\* with the pending write laid over it, at the position of the caller; every byte
\* accepted by write() is sent or pending, and only those; and every read() and
\* find() answers from it; as long as truncate() has not taken a write from its place.
BufferedTransparent ==
    LET s == stream
        base == s.pos - Len(s.readBuffer)
    IN ~aborted /\ ~reference.lost =>
        /\ answer[1] = answer[2]
        /\ IF seekable
           THEN /\ reference.text = Overlay(s.file, base, s.writeBuffer)
                /\ reference.at = base + Len(s.writeBuffer)
                /\ s.readBuffer = SubSeq(s.file, base + 1, s.pos)
           ELSE /\ From(reference.text, reference.at) = s.readBuffer \o From(s.file, s.pos)
                /\ reference.sent = s.sink \o s.writeBuffer

\* seek() never consumes more than is buffered (Buffer::consume asserts it).
SeekWithinBuffer == ~aborted
=============================================================================
