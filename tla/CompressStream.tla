--------------------------- MODULE CompressStream ---------------------------
(***************************************************************************)
(* ZlibStream (streams/zlib.cpp) and LZMAStream (streams/lzma2.cpp): first *)
(* a stream is written through the compressor, in pieces, over a parent    *)
(* that may throw at any write; then what arrived is read through the      *)
(* decompressor.  A compressed unit stands for one byte written, "END" for *)
(* the trailer; the library decides when units come out.                   *)
(***************************************************************************)
EXTENDS Naturals, Sequences, SequencesExt

CONSTANTS
    MaxWritten,    \* bound on the bytes written
    MaxPiece,      \* the longest piece of one write()
    MaxThrows      \* bound on the exceptions of the parent

VARIABLES
    lzma,          \* LZMAStream instead of ZlibStream
    accepted,      \* bytes that write() took
    counted,       \* how many of them the caller was told of
    strm,          \* m_strm: units inside the library
    m_outBuffer,
    parent,        \* what the parent stream holds
    m_closed,
    m_inBuffer,
    output,        \* what the reader got
    phase,         \* "writing", "closed", "failed" close, "reading", or how that ended
    throws

compressVars == <<lzma, accepted, counted, strm, m_outBuffer, parent, m_closed, m_inBuffer, output,
                  phase, throws>>

END == 0

CompressInit ==
    /\ lzma \in BOOLEAN
    /\ accepted = <<>> /\ counted = 0 /\ strm = <<>> /\ m_outBuffer = <<>> /\ parent = <<>>
    /\ m_closed = FALSE /\ m_inBuffer = <<>> /\ output = <<>> /\ phase = "writing" /\ throws = 0

Cut(s, n) == SubSeq(s, n + 1, Len(s))

\* flushBuffer(): the parent takes everything, or throws after some writes (`sent' went
\* with an earlier flushBuffer() of the same call).
FlushAll(out) == /\ parent' = parent \o out /\ m_outBuffer' = <<>> /\ UNCHANGED throws

FlushThrows(sent, out) ==
    /\ throws < MaxThrows /\ throws' = throws + 1 /\ out # <<>>
    /\ \E n \in 0..(Len(out) - 1) :
          parent' = parent \o sent \o SubSeq(out, 1, n) /\ m_outBuffer' = Cut(out, n)

ReaderSame == UNCHANGED <<lzma, m_inBuffer, output>>

\* write(): the buffer first; if that throws nothing was taken.
WriteRefused == /\ phase = "writing" /\ ~m_closed
                /\ FlushThrows(<<>>, m_outBuffer)
                /\ UNCHANGED <<accepted, counted, strm, m_closed, phase>> /\ ReaderSame

\* Mutant of WriteTakes: what is left in m_outBuffer is overtaken by the new units.
WriteOvertakes(piece, k) ==
    LET inside == strm \o piece
    IN /\ phase = "writing" /\ ~m_closed
       /\ accepted' = accepted \o piece
       /\ strm' = Cut(inside, k)
       /\ parent' = parent \o SubSeq(inside, 1, k)
       /\ counted' = counted + Len(piece)
       /\ UNCHANGED <<m_outBuffer, throws, m_closed, phase>> /\ ReaderSame

\* Then the library takes a piece and lets k units out.  Of what the parent throws
\* now only std::runtime_error is swallowed: the library's own exceptions, which do
\* not derive from it, leave write() after the piece was taken.
WriteTakes(piece, k) ==
    LET inside == strm \o piece
        out == m_outBuffer \o SubSeq(inside, 1, k)
    IN /\ phase = "writing" /\ ~m_closed
       /\ accepted' = accepted \o piece
       /\ strm' = Cut(inside, k)
       /\ \/ FlushAll(out) /\ counted' = counted + Len(piece)
          \/ FlushThrows(m_outBuffer, SubSeq(inside, 1, k)) /\ counted' \in {counted, counted + Len(piece)}
       /\ UNCHANGED <<m_closed, phase>> /\ ReaderSame

\* flush(): ZlibStream empties the library with Z_SYNC_FLUSH, LZMAStream only its buffer.
Emitted == IF lzma THEN <<>> ELSE strm

flush == /\ phase = "writing" /\ ~m_closed
         /\ \/ FlushAll(m_outBuffer \o Emitted) /\ strm' = (IF lzma THEN strm ELSE <<>>)
            \/ FlushThrows(<<>>, m_outBuffer) /\ UNCHANGED strm
            \/ FlushThrows(m_outBuffer, Emitted) /\ strm' = <<>>
         /\ UNCHANGED <<accepted, counted, m_closed, phase>> /\ ReaderSame

\* flush(Z_FINISH) and finish() over a parent that throws: m_closed is set before the
\* last flushBuffer().  finish() does not flush first, but whenever its buffer is full.
FinishThrows ==
    \/ /\ FlushThrows(<<>>, m_outBuffer) /\ UNCHANGED <<strm, m_closed>>
    \/ /\ FlushThrows(m_outBuffer, Append(strm, END)) /\ strm' = <<>> /\ m_closed' = TRUE

finish ==
    \/ /\ FlushThrows(<<>>, m_outBuffer \o Append(strm, END)) /\ strm' = <<>> /\ m_closed' = TRUE
    \/ \E j \in 0..Len(strm) :
          /\ FlushThrows(<<>>, m_outBuffer \o SubSeq(strm, 1, j)) /\ strm' = Cut(strm, j)
          /\ UNCHANGED m_closed

\* close() of the compressor; after one that failed with m_closed set a second close()
\* does not try again.
close ==
    /\ phase \in {"writing", "failed"}
    /\ \/ /\ m_closed /\ phase' = "closed" /\ UNCHANGED <<strm, m_outBuffer, parent, m_closed, throws>>
       \/ /\ ~m_closed /\ phase' = "closed"
          /\ FlushAll(m_outBuffer \o Append(strm, END)) /\ strm' = <<>> /\ m_closed' = TRUE
       \/ /\ ~m_closed /\ phase' = "failed"
          /\ IF lzma THEN finish ELSE FinishThrows
    /\ UNCHANGED <<accepted, counted>> /\ ReaderSame

\* The decompressor is opened on what arrived.
Reopen == /\ phase \in {"closed", "failed"}
          /\ phase' = "reading" /\ m_closed' = FALSE /\ strm' = <<>> /\ m_outBuffer' = <<>>
          /\ UNCHANGED <<accepted, counted, parent, throws>> /\ ReaderSame

\* read(): inflate() or lzma_code() takes n units of m_inBuffer and gives bytes; with
\* neither input nor output it asks for more, and the end of the parent before the
\* trailer is an error.
ReadMore == /\ phase = "reading" /\ m_inBuffer = <<>> /\ strm = <<>> /\ ~m_closed
            /\ IF parent = <<>> THEN phase' = "unexpected eof" /\ UNCHANGED <<m_inBuffer, parent>>
               ELSE /\ UNCHANGED phase
                    /\ \E n \in 1..Len(parent) : m_inBuffer' = SubSeq(parent, 1, n) /\ parent' = Cut(parent, n)
            /\ UNCHANGED <<lzma, accepted, counted, strm, m_outBuffer, m_closed, output, throws>>

ReadTakes == /\ phase = "reading" /\ m_inBuffer # <<>> /\ ~m_closed
             /\ \E n \in 1..Len(m_inBuffer) :
                   /\ m_inBuffer' = Cut(m_inBuffer, n)
                   /\ strm' = strm \o SubSeq(m_inBuffer, 1, n)
             /\ UNCHANGED <<lzma, accepted, counted, m_outBuffer, parent, m_closed, output, phase, throws>>

\* Mutant of ReadGives: nothing decompressed yet counts as the end.
ReadGivesNothing ==
    /\ phase = "reading" /\ ~m_closed /\ strm # <<>>
    /\ IF Head(strm) = END
       THEN m_closed' = TRUE /\ strm' = <<>> /\ UNCHANGED <<output, phase>>
       ELSE /\ \E n \in 0..Len(strm) :
                  /\ END \notin {strm[i] : i \in 1..n}
                  /\ output' = output \o SubSeq(strm, 1, n) /\ strm' = Cut(strm, n)
                  /\ phase' = IF n = 0 THEN "eof" ELSE phase
            /\ UNCHANGED m_closed
    /\ UNCHANGED <<lzma, accepted, counted, m_outBuffer, parent, m_inBuffer, throws>>

\* It returns bytes; a call that gave none goes round the loop again.  The trailer
\* ends the stream (for LZMAStream when the parent has ended, too).
ReadGives ==
    /\ phase = "reading" /\ ~m_closed /\ strm # <<>>
    /\ IF Head(strm) = END
       THEN m_closed' = TRUE /\ strm' = <<>> /\ UNCHANGED output
       ELSE /\ \E n \in 1..Len(strm) :
                  /\ END \notin {strm[i] : i \in 1..n}
                  /\ output' = output \o SubSeq(strm, 1, n) /\ strm' = Cut(strm, n)
            /\ UNCHANGED m_closed
    /\ UNCHANGED <<lzma, accepted, counted, m_outBuffer, parent, m_inBuffer, phase, throws>>

ReadEnd == /\ phase = "reading" /\ m_closed /\ phase' = "eof"
           /\ UNCHANGED <<lzma, accepted, counted, strm, m_outBuffer, parent, m_closed, m_inBuffer, output, throws>>

Pieces == {[i \in 1..n |-> Len(accepted) + i] :
              n \in 1..(IF MaxWritten - Len(accepted) < MaxPiece THEN MaxWritten - Len(accepted) ELSE MaxPiece)}

CompressNext ==
    \/ WriteRefused \/ flush \/ close \/ Reopen \/ ReadMore \/ ReadTakes \/ ReadGives \/ ReadEnd
    \/ \E piece \in Pieces : \E k \in 0..(Len(strm) + Len(piece)) : WriteTakes(piece, k)

CompressSpec == CompressInit /\ [][CompressNext]_compressVars

-----------------------------------------------------------------------------
\* However units are held back and however often the parent throws, they arrive in
\* order and once: after a close() that did not have to be repeated the reader gets
\* exactly the accepted bytes and then the end, and it never sees an end early.
CompressedIntact ==
    /\ phase = "writing" => parent \o m_outBuffer \o strm = accepted
    /\ IsPrefix(output, accepted)
    /\ phase = "eof" => output = accepted
    /\ (phase = "unexpected eof") => throws > 0

\* "If an exception is thrown, you can be assured that nothing was written to the
\* underlying implementation": write() throws only if it did not take the bytes.
ThrowMeansNotWritten == counted = Len(accepted)

\* "flush() ensures that nothing is left in internal buffers".
FlushMeansWritten ==
    [][flush /\ throws' = throws => parent' = accepted]_compressVars
=============================================================================
