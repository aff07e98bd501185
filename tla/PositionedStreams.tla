------------------------- MODULE PositionedStreams -------------------------
(***************************************************************************)
(* The streams that keep a position of their own: MemoryStream             *)
(* (streams/memory.cpp), which keeps the unread rest in a buffer of its    *)
(* own, CatStream (cat.cpp) over files it moves one after the other, and   *)
(* LimitedStream (limited.cpp) over one.  `seen' is what CatStream's last  *)
(* read() returned and what lies at its position in the concatenation.     *)
(*                                                                         *)
(* And transferStream() (transfer.cpp), which copies one to another: two   *)
(* buffers are read into and written from in turn, the read of one chunk   *)
(* beside the write of the chunk before it.  Both streams may be short and *)
(* may throw.                                                              *)
(***************************************************************************)
EXTENDS Integers, Sequences, SequencesExt, FiniteSetsExt

CONSTANTS
    MaxMemory,     \* bound: bytes of a memory stream
    Sizes,         \* the sizes of the files that are concatenated: a sequence
    m_size,        \* LimitedStream's limit
    SourceSize, chunkSize, Unlimited    \* transferStream()

VARIABLES
    kind,                              \* which of the three
    m_original, m_read, m_offset,      \* MemoryStream
    overran,                           \* a write ended at or past the old end
    m_it, filePos, m_pos, seen,        \* CatStream, and the files' positions
    limitPos, parentPos, parentSize,   \* LimitedStream, and its parent
    toTransfer, exact, toNull,         \* transferStream()'s arguments; Unlimited is ~0
    source, target,                    \* bytes left in src, bytes written to dst
    readBuffer, totalRead, phase       \* phase: "first", "loop", "last", or how it ended

memoryVars == <<m_original, m_read, m_offset, overran>>
catVars == <<m_it, filePos, m_pos, seen>>
limitedVars == <<limitPos, parentPos, parentSize>>
positionedVars == <<kind, memoryVars, catVars, limitedVars>>
transferVars == <<toTransfer, exact, toNull, source, target, readBuffer, totalRead, phase>>

Rest(s, i) == SubSeq(s, i + 1, Len(s))
First(s, n) == SubSeq(s, 1, Min({n, Len(s)}))
Zeros(n) == [i \in 1..n |-> 0]

\* File i holds bytes that tell every place of the concatenation apart.
Start(i) == MapThenSumSet(LAMBDA j : Sizes[j], 1 .. i - 1)
Total == Start(Len(Sizes) + 1)
File(i) == [k \in 1..Sizes[i] |-> Start(i) + k]
Whole == [k \in 1..Total |-> k]

PositionedInit ==
    /\ kind \in {"memory", "cat", "limited"}
    /\ m_original = <<1, 2>> /\ m_read = <<1, 2>> /\ m_offset = 0 /\ overran = FALSE
    /\ m_it = 1 /\ filePos \in {p \in [DOMAIN Sizes -> 0..1] : p[1] = 0} /\ m_pos = 0
    /\ limitPos = 0 /\ parentPos = 0 /\ parentSize \in 0 .. m_size + 1
    /\ seen = <<<<>>, <<>>>>

-----------------------------------------------------------------------------
\* MemoryStream
MemoryRead(length) ==
    LET n == Min({length, Len(m_read)})
    IN /\ m_read' = Rest(m_read, n) /\ m_offset' = m_offset + n
       /\ UNCHANGED <<m_original, overran>>

\* truncate(): m_read is cut to what is left, or rebuilt after zeros are appended.
Resized(size) ==
    LET now == Len(m_original)
        longer == m_original \o Zeros(size - now)
    IN CASE size = now -> [original |-> m_original, read |-> m_read]
         [] size < now -> [original |-> First(m_original, size),
                           read |-> IF m_offset > size THEN <<>> ELSE First(m_read, size - m_offset)]
         [] size > now -> [original |-> longer, read |-> Rest(longer, Min({m_offset, size}))]

\* An overwrite that ends before the old end rebuilds m_read; one that reaches it
\* leaves m_read as it was.
MemoryWrite(data) ==
    LET size == Len(m_original)
        end == m_offset + Len(data)
        late == Rest(m_original, end)
        grown == Resized(m_offset)
    IN /\ end <= MaxMemory
       /\ m_offset' = end
       /\ overran' = (overran \/ (m_offset < size /\ end >= size)) 
       /\ CASE m_offset = size -> m_original' = m_original \o data /\ UNCHANGED m_read
            [] m_offset > size -> m_original' = grown.original \o data /\ m_read' = grown.read
            [] m_offset < size -> /\ m_original' = First(m_original, m_offset) \o data \o late
                                  /\ m_read' = IF end < size THEN late ELSE m_read

\* seek() from BEGIN, or backwards, rebuilds m_read; a forward seek from CURRENT
\* consumes it, and does nothing when the position is past the end.
SeekBegin(offset) ==
    /\ m_read' = Rest(m_original, Min({offset, Len(m_original)}))
    /\ m_offset' = offset /\ overran' = FALSE
    /\ UNCHANGED m_original

SeekForward(offset) ==
    /\ m_offset <= Len(m_original)
    /\ m_offset + offset <= MaxMemory
    /\ m_read' = Rest(m_read, Min({offset, Len(m_original) - m_offset}))
    /\ m_offset' = m_offset + offset
    /\ UNCHANGED <<m_original, overran>>

MemorySeek(to, anchor) ==
    IF anchor = "BEGIN" \/ to < m_offset THEN SeekBegin(to) ELSE SeekForward(to - m_offset)

MemoryTruncate(size) ==
    /\ m_original' = Resized(size).original /\ m_read' = Resized(size).read
    /\ overran' = (overran /\ size <= Len(m_original))
    /\ UNCHANGED m_offset

Memory == /\ \/ \E n \in 1..2 : MemoryRead(n) \/ MemoryWrite([i \in 1..n |-> 10 + i])
             \/ \E size \in 0..MaxMemory : MemoryTruncate(size)
             \/ \E to \in 0..MaxMemory, anchor \in {"BEGIN", "CURRENT"} : MemorySeek(to, anchor)
          /\ kind = "memory" /\ UNCHANGED <<kind, catVars, limitedVars>>

-----------------------------------------------------------------------------
\* Mutant of CatRead: the next file is read from where it stands.
CatReadNoSeek(length) ==
    LET left == {i \in m_it .. Len(Sizes) : filePos[i] < Sizes[i]}
        i == IF left = {} THEN Len(Sizes) + 1 ELSE Min(left)
    IN IF left = {} THEN /\ m_it' = i /\ seen' = <<<<>>, First(Rest(Whole, m_pos), length)>>
                         /\ UNCHANGED <<filePos, m_pos>>
       ELSE LET data == First(Rest(File(i), filePos[i]), length)
            IN /\ m_it' = i /\ filePos' = [filePos EXCEPT ![i] = @ + Len(data)]
               /\ m_pos' = m_pos + Len(data)
               /\ seen' = <<data, First(Rest(Whole, m_pos), Len(data))>>

\* CatStream::read(): a file that is at its end gives way to the next, which is
\* moved to its beginning first; it returns as soon as one gives bytes.
CatRead(length) ==
    LET At(i) == IF i = m_it THEN filePos[i] ELSE 0
        left == {i \in m_it .. Len(Sizes) : At(i) < Sizes[i]}
        i == IF left = {} THEN Len(Sizes) + 1 ELSE Min(left)
        moved == [j \in DOMAIN Sizes |-> IF j > m_it /\ j <= i THEN 0 ELSE filePos[j]]
    IN IF left = {} THEN /\ m_it' = i /\ filePos' = moved /\ UNCHANGED m_pos
                         /\ seen' = <<<<>>, First(Rest(Whole, m_pos), length)>>
       ELSE LET data == First(Rest(File(i), At(i)), length)
            IN /\ m_it' = i /\ filePos' = [moved EXCEPT ![i] = @ + Len(data)]
               /\ m_pos' = m_pos + Len(data)
               /\ seen' = <<data, First(Rest(Whole, m_pos), Len(data))>>

\* CatStream::seek(): throws at or above the size; only the file it lands in moves, and
\* it moves (back) even if the position stays: only seek(0, CURRENT) returns at once.
CatSeek(newPos) ==
    LET i == CHOOSE j \in DOMAIN Sizes : Start(j) <= newPos /\ newPos < Start(j + 1)
    IN /\ newPos < Total
       /\ m_it' = i /\ filePos' = [filePos EXCEPT ![i] = newPos - Start(i)]
       /\ m_pos' = newPos
       /\ UNCHANGED seen

Cat == /\ (\E n \in 1..2 : CatRead(n)) \/ (\E p \in 0..Total : CatSeek(p))
       /\ kind = "cat" /\ UNCHANGED <<kind, memoryVars, limitedVars>>

-----------------------------------------------------------------------------
\* LimitedStream over a parent that may hold less, or more, than m_size.
LimitedRead(length) ==
    LET n == Min({length, m_size - limitPos, parentSize - parentPos})
    IN /\ limitPos < m_size /\ parentPos < parentSize
       /\ limitPos' = limitPos + n /\ parentPos' = parentPos + n
       /\ UNCHANGED parentSize

LimitedWrite(length) ==
    /\ limitPos < m_size                      \* else WriteBeyondEofException
    /\ \E n \in 1..Min({length, m_size - limitPos}) :
          /\ limitPos' = limitPos + n /\ parentPos' = parentPos + n
          /\ parentSize' = Max({parentSize, parentPos + n})

LimitedSeek(offset, anchor) ==
    LET size == Min({m_size, parentSize})
        to == IF anchor = "END" THEN offset + size ELSE offset
    IN /\ to >= 0 /\ to <= parentSize
       /\ limitPos' = to /\ parentPos' = to
       /\ UNCHANGED parentSize

LimitedUnread == /\ limitPos > 0
                 /\ limitPos' = limitPos - 1 /\ parentPos' = parentPos - 1
                 /\ UNCHANGED parentSize

Limited == /\ \/ \E n \in 1..2 : LimitedRead(n) \/ LimitedWrite(n)
              \/ \E offset \in -1 .. m_size + 1, anchor \in {"BEGIN", "END"} : LimitedSeek(offset, anchor)
              \/ LimitedUnread
           /\ kind = "limited" /\ UNCHANGED <<kind, memoryVars, catVars>>

PositionedNext == Memory \/ Cat \/ Limited

PositionedSpec == PositionedInit /\ [][PositionedNext]_positionedVars

-----------------------------------------------------------------------------
\* transferStream()
SourceBytes == [i \in 1..SourceSize |-> i]

TransferInit ==
    /\ toTransfer \in (0 .. SourceSize + 1) \cup {Unlimited}
    /\ exact \in (IF toTransfer = Unlimited THEN {FALSE} ELSE BOOLEAN)
    /\ toNull \in BOOLEAN
    /\ source = SourceBytes /\ target = <<>> /\ readBuffer = <<>> /\ totalRead = 0
    /\ phase = IF toTransfer = 0 THEN "returned" ELSE "first"

todo == Min({chunkSize} \cup (IF toTransfer = Unlimited THEN {} ELSE {toTransfer - totalRead}))

\* readOne(): n bytes, none only at the end of the source.
ReadOne(n) == /\ IF source = <<>> THEN n = 0 ELSE n \in 1..Min({todo, Len(source)})
              /\ source' = SubSeq(source, n + 1, Len(source))
              /\ totalRead' = totalRead + n

Over(n) == toTransfer # Unlimited /\ totalRead + n >= toTransfer

\* Where a read of n bytes leads: the end of the source is an error if the length
\* is exact.
After(n) == IF n = 0 THEN IF exact /\ ~Over(n) THEN "eof" ELSE "returned"
            ELSE IF Over(n) THEN "last" ELSE "loop"

FirstRead == /\ phase = "first"
             /\ \E n \in 0..chunkSize : /\ ReadOne(n) /\ phase' = After(n)
                                        /\ readBuffer' = SubSeq(source, 1, n)
             /\ UNCHANGED <<toTransfer, exact, toNull, target>>

\* The loop for NullStream only reads.
NullRead == /\ phase \in {"loop", "last"} /\ toNull
            /\ \/ /\ phase = "last" /\ phase' = "returned" /\ UNCHANGED <<source, totalRead>>
               \/ /\ phase = "loop" /\ \E n \in 0..chunkSize : ReadOne(n) /\ phase' = After(n)
            /\ readBuffer' = <<>>
            /\ UNCHANGED <<toTransfer, exact, toNull, target>>

\* Mutant of Exchange: the chunk that was read last is dropped at the end of the source.
ExchangeDrops ==
    /\ phase = "loop" /\ ~toNull
    /\ \E n \in 0..chunkSize : /\ ReadOne(n) /\ phase' = After(n)
                               /\ readBuffer' = SubSeq(source, 1, n)
                               /\ target' = IF n = 0 THEN target ELSE target \o readBuffer
    /\ UNCHANGED <<toTransfer, exact, toNull>>

\* parallel_do(): the next chunk is read into the other buffer while this one is
\* written to the end.
Exchange ==
    /\ phase = "loop" /\ ~toNull
    /\ \E n \in 0..chunkSize : /\ ReadOne(n) /\ phase' = After(n)
                               /\ readBuffer' = SubSeq(source, 1, n)
                               /\ target' = target \o readBuffer
    /\ UNCHANGED <<toTransfer, exact, toNull>>

LastWrite == /\ phase = "last" /\ ~toNull
             /\ target' = target \o readBuffer
             /\ phase' = "returned" /\ readBuffer' = <<>>
             /\ UNCHANGED <<toTransfer, exact, toNull, source, totalRead>>

\* A read or a write throws: part of a chunk may have been written.
TransferThrows ==
    /\ phase \in {"first", "loop", "last"}
    /\ \E n \in 0..Len(readBuffer) :
          target' = IF toNull THEN target ELSE target \o SubSeq(readBuffer, 1, n)
    /\ phase' = "threw"
    /\ UNCHANGED <<toTransfer, exact, toNull, source, readBuffer, totalRead>>

TransferNext == FirstRead \/ NullRead \/ Exchange \/ LastWrite \/ TransferThrows

TransferSpec == TransferInit /\ [][TransferNext]_transferVars /\ WF_transferVars(TransferNext)

-----------------------------------------------------------------------------
\* What a read() returns is what lies at the stream's position: in the
\* concatenation, wherever the files stood and whichever seeks came before; and in
\* memory, unless a write ran to the old end since m_read was rebuilt.  A limited
\* stream is where its parent is, and never makes it longer than the limit.
ReadsAtPosition ==
    /\ overran \/ m_read = Rest(m_original, m_offset)
    /\ m_it <= Len(Sizes) => m_pos = Start(m_it) + filePos[m_it]
    /\ seen[1] = seen[2]
    /\ limitPos = parentPos /\ parentSize <= m_size + 1

\* MemoryStream: "Reset our read buffer to the current stream pos" after a write.
ReadBufferAtOffset == m_read = Rest(m_original, m_offset)

\* However the chunks fall, what was written is a prefix of the source; when the
\* call returns it is the whole of what was read and counted, which is what was
\* asked for, or everything there was if an exact length was not.
TransfersInOrder ==
    /\ IsPrefix(target, SourceBytes)
    /\ (phase = "returned" /\ ~toNull) => Len(target) = totalRead
    /\ phase = "returned" =>
          totalRead = IF toTransfer = Unlimited THEN SourceSize
                      ELSE IF exact THEN toTransfer ELSE Min({toTransfer, SourceSize})
    /\ phase = "eof" => toTransfer > SourceSize
=============================================================================
