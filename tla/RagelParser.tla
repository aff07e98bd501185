---------------------------- MODULE RagelParser -----------------------------
(***************************************************************************)
(* RagelParser (ragel.cpp): a generated machine is fed a stream piece by   *)
(* piece.  Its mark points at the beginning of a token that may lie in an  *)
(* earlier piece, so the text from the mark on is kept in m_fullString.    *)
(* exec() stands for any generated machine: tokens of "a" that end with a  *)
(* ";", a "." that ends the message, anything else is an error.            *)
(***************************************************************************)
EXTENDS Naturals, Sequences, SequencesExt

CONSTANTS
    Inputs,            \* what the stream may hold
    supportsUnread     \* of the stream

VARIABLES
    input,             \* all of it
    stream,            \* what read() has not given yet
    buffers,           \* segments of the buffer that were not consumed
    state,             \* what exec() keeps: cs, mark (0 if NULL, else the index it points at), tokens
    m_fullString,
    total,
    phase              \* "parsing", or how run() ended: "complete", "error", "eof"

ragelVars == <<input, stream, buffers, state, m_fullString, total, phase>>

RagelInit == /\ input \in Inputs /\ stream = input
             /\ buffers = <<>> /\ m_fullString = <<>> /\ total = 0 /\ phase = "parsing"
             /\ state = [cs |-> "start", mark |-> 0, tokens |-> <<>>]

\* One character of text at p: MARK at the first character of a token, the token is
\* taken from the mark to p at its end.
Char(text, p, s) ==
    CASE text[p] = "a" /\ s.cs = "start" -> [s EXCEPT !.cs = "token", !.mark = p]
      [] text[p] = "a" /\ s.cs = "token" -> s
      [] text[p] = ";" /\ s.cs = "token" ->
            [cs |-> "start", mark |-> 0, tokens |-> Append(s.tokens, SubSeq(text, s.mark, p - 1))]
      [] text[p] = "." /\ s.cs = "start" -> [s EXCEPT !.cs = "final"]
      [] OTHER -> [s EXCEPT !.cs = "error"]

\* The machine stops behind the last character of the message, and at an error.
exec(text, from, s) ==
    LET After[p \in from..Len(text)] == IF p = from THEN s
            ELSE IF After[p - 1].cs \in {"final", "error"} THEN After[p - 1] ELSE Char(text, p, After[p - 1])
        stops == {p \in (from + 1)..Len(text) : After[p].cs = "final" /\ After[p - 1].cs # "final"}
                 \cup {p - 1 : p \in {p \in (from + 1)..Len(text) :
                                        After[p].cs = "error" /\ After[p - 1].cs # "error"}}
    IN [s |-> After[Len(text)], p |-> IF stops = {} THEN Len(text) ELSE CHOOSE p \in stops : \A q \in stops : p <= q]

\* read(): up to two segments of new data; 0 at the end, where run(NULL, 0, true) only
\* tells the machine.
Read == /\ phase = "parsing" /\ buffers = <<>> /\ state.cs \notin {"final", "error"}
        /\ IF stream = <<>>
           THEN phase' = "eof" /\ UNCHANGED <<stream, buffers>>
           ELSE /\ \E n \in 1..Len(stream) : \E k \in 1..n :
                     /\ buffers' = <<SubSeq(stream, 1, k)>> \o (IF k < n THEN <<SubSeq(stream, k + 1, n)>> ELSE <<>>)
                     /\ stream' = SubSeq(stream, n + 1, Len(stream))
                /\ UNCHANGED phase
        /\ UNCHANGED <<input, state, m_fullString, total>>

\* Mutant of run: m_fullString is kept whole, but the mark goes to its beginning.
runKeeps ==
    LET piece == Head(buffers)
        text == IF state.mark # 0 THEN m_fullString \o piece ELSE piece
        r == exec(text, Len(text) - Len(piece), state)
        consumed == r.p - (Len(text) - Len(piece))
    IN /\ phase = "parsing" /\ buffers # <<>> /\ state.cs \notin {"final", "error"}
       /\ state' = [r.s EXCEPT !.mark = IF @ = 0 THEN 0 ELSE 1]
       /\ m_fullString' = IF r.s.mark = 0 THEN <<>> ELSE text
       /\ total' = total + consumed
       /\ buffers' = (IF consumed < Len(piece) THEN <<SubSeq(piece, consumed + 1, Len(piece))>> ELSE <<>>) \o Tail(buffers)
       /\ UNCHANGED <<input, stream, phase>>

\* run(buffer, length, false) for the next segment: behind m_fullString if there is a
\* mark; afterwards the text before the mark goes and the mark is moved.
run ==
    LET piece == Head(buffers)
        text == IF state.mark # 0 THEN m_fullString \o piece ELSE piece
        r == exec(text, Len(text) - Len(piece), state)
        consumed == r.p - (Len(text) - Len(piece))
    IN /\ phase = "parsing" /\ buffers # <<>> /\ state.cs \notin {"final", "error"}
       /\ state' = [r.s EXCEPT !.mark = IF @ = 0 THEN 0 ELSE 1]
       /\ m_fullString' = IF r.s.mark = 0 THEN <<>> ELSE SubSeq(text, r.s.mark, Len(text))
       /\ total' = total + consumed
       /\ buffers' = (IF consumed < Len(piece) THEN <<SubSeq(piece, consumed + 1, Len(piece))>> ELSE <<>>) \o Tail(buffers)
       /\ UNCHANGED <<input, stream, phase>>

\* The end of run(Stream &): what the buffer still holds goes back.
unread == /\ phase = "parsing" /\ state.cs \in {"final", "error"}
          /\ phase' = IF state.cs = "final" THEN "complete" ELSE "error"
          /\ stream' = IF supportsUnread THEN FlattenSeq(buffers) \o stream ELSE stream
          /\ buffers' = <<>>
          /\ UNCHANGED <<input, state, m_fullString, total>>

RagelNext == Read \/ run \/ unread
RagelSpec == RagelInit /\ [][RagelNext]_ragelVars

-----------------------------------------------------------------------------
\* However the stream is cut into pieces, the parser does what it does with the whole
\* input in one piece: same tokens, same end, same count, and with unread() the stream
\* goes on right behind the message.
PiecesDoNotMatter ==
    phase # "parsing" =>
        LET whole == exec(input, 0, [cs |-> "start", mark |-> 0, tokens |-> <<>>])
        IN /\ state.tokens = whole.s.tokens /\ state.cs = whole.s.cs /\ total = whole.p
           /\ supportsUnread => stream = SubSeq(input, whole.p + 1, Len(input))
=============================================================================
