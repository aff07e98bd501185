--------------------------- MODULE RangeResponse ---------------------------
(***************************************************************************)
(* http/server.cpp: respondStream(), which answers a GET or HEAD, with or  *)
(* without Range and If-Range, from a stream that may or may not know its  *)
(* size or seek; and ifMatch(), which answers for it when a precondition   *)
(* fails.  Arithmetic is that of a word; ~0ull, its largest value, stands  *)
(* for an unknown size, for the `first' of a suffix range (-n) and for the *)
(* `second' of an open one (n-).                                           *)
(***************************************************************************)
EXTENDS Naturals, Sequences, FiniteSets, FiniteSetsExt, Functions

CONSTANTS
    Word,         \* 2^64
    EntitySizes,  \* how long the stream is
    Firsts, Seconds,   \* of ranges, besides ~0ull
    MaxRanges,    \* ranges in a request
    ETags         \* [value, weak, unspecified]; unspecified: * in a list, or no entity

VARIABLES
    request,      \* head, te (trailers are acceptable), ifRange (it holds), range
    response,     \* the stream: length, sized, seekable; pos
    verdict,      \* "new", "none" yet, "304", "412", "ranges", "full", "416", "eof" (threw), "sent"
    parts,        \* Content-Range and bytes (a set) of each part that was sent
    conditions    \* getOrHead, match (If-Match), noneMatch (If-None-Match), eTag of the entity

rangeVars == <<request, response, verdict, parts, conditions>>

Ones == Word - 1
Plus(a, b) == (a + b) % Word
Minus(a, b) == (a + Word - b) % Word
TagLists == {s \in SUBSET ETags : \A t \in s : t.unspecified => s = {t}}
Ranges == (Firsts \X (Seconds \cup {Ones})) \cup ({Ones} \X Seconds)

RangeInit ==
    /\ \/ /\ request \in [head : BOOLEAN, te : BOOLEAN, ifRange : BOOLEAN,
                           range : UNION {[1..n -> Ranges] : n \in 0..MaxRanges}]
          /\ response \in [length : EntitySizes, sized : BOOLEAN, seekable : BOOLEAN, pos : {0}]
          /\ conditions = [getOrHead |-> TRUE, match |-> {}, noneMatch |-> {},
                           eTag |-> [value |-> "", weak |-> FALSE, unspecified |-> TRUE]]
       \/ /\ request = [head |-> FALSE, te |-> FALSE, ifRange |-> TRUE, range |-> <<>>]
          /\ response = [length |-> 1, sized |-> TRUE, seekable |-> TRUE, pos |-> 0]
          /\ conditions \in [getOrHead : BOOLEAN, match : TagLists, noneMatch : TagLists, eTag : ETags]
    /\ verdict = "new" /\ parts = <<>>

size == IF response.sized THEN response.length ELSE Ones
trailers == ~response.sized /\ request.te

-----------------------------------------------------------------------------
\* The loop over the ranges: what stops it at the i-th, if anything.  previousLast is
\* that of the range before.
previousLast(i) == IF i = 1 THEN 0
                   ELSE IF request.range[i - 1][1] = Ones THEN Minus(size, 1) ELSE request.range[i - 1][2]
Full(i) ==
    LET first == request.range[i][1]
        second == request.range[i][2]
    IN \/ first > second /\ first # Ones
       \/ first = Ones /\ size = Ones
       \/ first = Ones /\ second >= size
       \/ first = 0 /\ second >= Minus(size, 1)
       \/ i > 1 /\ first <= previousLast(i) /\ ~response.seekable
Unsatisfiable(i) ==
    LET first == request.range[i][1]
    IN first >= size /\ size # Ones /\ first # Ones

\* An invalid range (first after last) is found before one that is out of the entity.
FirstCheck(i) == request.range[i][1] > request.range[i][2] /\ request.range[i][1] # Ones
Stops == {i \in DOMAIN request.range : Full(i) \/ Unsatisfiable(i)}

FullEntity == \/ request.range = <<>> \/ (size = Ones /\ ~trailers)
              \/ (trailers /\ Len(request.range) > 1) \/ ~request.ifRange

Validate ==
    /\ verdict = "none"
    /\ verdict' = IF FullEntity THEN "full"
                  ELSE IF Stops = {} THEN "ranges"
                  ELSE LET i == Min(Stops)
                       IN IF Unsatisfiable(i) /\ ~FirstCheck(i) THEN "416" ELSE "full"
    /\ UNCHANGED <<request, response, parts, conditions>>

\* transferStream() of n bytes from pos: the bytes, and whether it ended without an
\* exception.  A count of ~0ull means up to the end of the stream, however near that is.
Sent(pos, n) == {b \in pos .. pos + n - 1 : b < response.length}
Complete(pos, n) == n \in {0, Ones} \/ pos + n <= response.length
After(pos, n) == IF n = Ones THEN Max({pos, response.length}) ELSE pos + n

\* A part of a multipart answer.  Note that `last' is set for a range with a first
\* byte only, and is ~0ull otherwise.
PartOf(r) ==
    IF r[1] = Ones THEN [first |-> IF r[2] > size THEN 0 ELSE Minus(size, r[2]), last |-> Ones]
    ELSE [first |-> r[1], last |-> Min({r[2], Minus(size, 1)})]
currentPos == IF parts = <<>> THEN 0 ELSE Plus(parts[Len(parts)].last, 1)

\* Mutant: currentPos is the last byte, not the one after it.
NextPartOff ==
    LET cr == PartOf(request.range[Len(parts) + 1])
        skip == Minus(cr.first, IF parts = <<>> THEN 0 ELSE parts[Len(parts)].last)
        n == Plus(Minus(cr.last, cr.first), 1)
        pos == IF response.seekable THEN cr.first ELSE After(response.pos, skip)
    IN /\ verdict = "ranges" /\ Len(request.range) > 1 /\ ~request.head
       /\ Len(parts) < Len(request.range)
       /\ IF (~response.seekable /\ ~Complete(response.pos, skip)) \/ ~Complete(pos, n)
          THEN verdict' = "eof" /\ UNCHANGED <<response, parts>>
          ELSE /\ parts' = Append(parts, [first |-> cr.first, last |-> cr.last, bytes |-> Sent(pos, n)])
               /\ response' = [response EXCEPT !.pos = After(pos, n)]
               /\ UNCHANGED verdict
       /\ UNCHANGED <<request, conditions>>

NextPart ==
    LET cr == PartOf(request.range[Len(parts) + 1])
        skip == Minus(cr.first, currentPos)
        n == Plus(Minus(cr.last, cr.first), 1)
        pos == IF response.seekable THEN cr.first ELSE After(response.pos, skip)
    IN /\ verdict = "ranges" /\ Len(request.range) > 1 /\ ~request.head
       /\ Len(parts) < Len(request.range)
       /\ IF (~response.seekable /\ ~Complete(response.pos, skip)) \/ ~Complete(pos, n)
          THEN verdict' = "eof" /\ UNCHANGED <<response, parts>>
          ELSE /\ parts' = Append(parts, [first |-> cr.first, last |-> cr.last, bytes |-> Sent(pos, n)])
               /\ response' = [response EXCEPT !.pos = After(pos, n)]
               /\ UNCHANGED verdict
       /\ UNCHANGED <<request, conditions>>

MultipartEnds ==
    /\ verdict = "ranges" /\ Len(request.range) > 1
    /\ request.head \/ Len(parts) = Len(request.range)
    /\ verdict' = "sent"
    /\ UNCHANGED <<request, response, parts, conditions>>

\* One range.  When the size is not known, the stream is read to tell whether it reaches
\* the first byte, and the Content-Range goes into the trailers.
SinglePart ==
    LET r == request.range[1]
        cr == IF trailers THEN [first |-> r[1], last |-> r[2]]
              ELSE IF r[1] = Ones
              THEN [first |-> IF r[2] > size THEN 0 ELSE Minus(size, r[2]), last |-> Minus(size, 1)]
              ELSE PartOf(r)
        bytes == {b \in cr.first .. cr.last : b < response.length}
    IN /\ verdict = "ranges" /\ Len(request.range) = 1
       /\ IF trailers /\ cr.first >= response.length
          THEN verdict' = "416" /\ UNCHANGED parts
          ELSE /\ verdict' = "sent"
               /\ parts' = IF request.head /\ trailers THEN <<>>
                           ELSE <<[first |-> cr.first,
                                   last |-> IF trailers THEN cr.first + Cardinality(bytes) - 1 ELSE cr.last,
                                   bytes |-> IF request.head THEN {} ELSE bytes]>>
       /\ UNCHANGED <<request, response, conditions>>

FullPart ==
    /\ verdict = "full" /\ verdict' = "sent"
    /\ parts' = <<[first |-> 0, last |-> Minus(size, 1),
                   bytes |-> IF request.head THEN {} ELSE Sent(0, response.length)]>>
    /\ UNCHANGED <<request, response, conditions>>

-----------------------------------------------------------------------------
\* http.h: ETag.
strongCompare(a, b) == ~a.weak /\ ~b.weak /\ a.unspecified = b.unspecified /\ a.value = b.value
weakCompare(a, b) == a.unspecified = b.unspecified /\ a.value = b.value
IsStar(tags) == Cardinality(tags) = 1 /\ \A t \in tags : t.unspecified

\* ifMatch(), which handlers call before they respond: 200 stands for going on.
Answer(c) ==
    LET matched == \E t \in c.noneMatch : IF c.getOrHead THEN weakCompare(t, c.eTag) ELSE strongCompare(t, c.eTag)
    IN CASE \/ IsStar(c.match) /\ c.eTag.unspecified
            \/ ~IsStar(c.match) /\ c.match # {} /\ ~\E t \in c.match : strongCompare(t, c.eTag) -> "412"
         [] OTHER -> IF \/ IsStar(c.noneMatch) /\ ~c.eTag.unspecified
                        \/ ~IsStar(c.noneMatch) /\ matched
                     THEN IF c.getOrHead THEN "304" ELSE "412"
                     ELSE "200"
ifMatch ==
    /\ verdict = "new"
    /\ verdict' = IF Answer(conditions) = "200" THEN "none" ELSE Answer(conditions)
    /\ UNCHANGED <<request, response, parts, conditions>>

RangeNext == ifMatch \/ Validate \/ NextPart \/ MultipartEnds \/ SinglePart \/ FullPart

RangeSpec == RangeInit /\ [][RangeNext]_rangeVars

-----------------------------------------------------------------------------
\* The bytes that a range asks for.
Wanted(r) == {b \in 0 .. response.length - 1 :
                 IF r[1] = Ones THEN b + r[2] >= response.length ELSE r[1] <= b /\ b <= r[2]}

\* What is said of the i-th part.  A suffix among several ranges is sent as if its last
\* byte were ~0ull: its Content-Range says so, and a stream that does not seek is then
\* taken to be at the beginning again.
Suffix(r) == r[1] = Ones
PartRight(i) ==
    LET multi == Len(request.range) > 1
    IN /\ (~multi \/ response.seekable \/ \A j \in 1..i : ~Suffix(request.range[j])) =>
             parts[i].bytes = Wanted(request.range[i])
       /\ (~multi \/ ~Suffix(request.range[i])) /\ parts[i].bytes # {} =>
             parts[i].bytes = parts[i].first .. parts[i].last

\* Whatever the stream can do, the client gets the bytes it asked for under a
\* Content-Range that says which they are, or the whole entity; 416 only if a range lies
\* behind its end; and never half an answer.  A suffix among several ranges is the
\* exception: its part has a wrong Content-Range, may have no bytes if the stream cannot
\* seek, and as a rule the answer breaks off there.  The same tags in If-Match and
\* If-None-Match let no request through.
RangesAnswered ==
    /\ (verdict = "sent" /\ ~request.head) =>
          \/ Len(parts) = 1 /\ parts[1].bytes = 0 .. response.length - 1
          \/ Len(parts) = Len(request.range) /\ \A i \in DOMAIN parts : PartRight(i)
    /\ verdict = "416" => \E r \in Range(request.range) : ~Suffix(r) /\ r[1] >= response.length
    /\ verdict = "eof" => Len(request.range) > 1 /\ \E r \in Range(request.range) : Suffix(r)
    /\ (conditions.match = conditions.noneMatch /\ conditions.match # {}) =>
          verdict \in {"new", "304", "412"}

\* Every part is the one that was asked for, under its own Content-Range, a suffix of the
\* entity too (RFC 2616, 14.16).  It does not hold.
EveryPartRight ==
    (verdict = "sent" /\ Len(request.range) > 1 /\ Len(parts) = Len(request.range)) =>
        \A i \in DOMAIN parts : /\ parts[i].bytes = Wanted(request.range[i])
                                /\ parts[i].bytes = parts[i].first .. parts[i].last
=============================================================================
