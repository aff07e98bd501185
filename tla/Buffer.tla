------------------------------- MODULE Buffer -------------------------------
(***************************************************************************)
(* Buffer (streams/buffer.cpp): a list of segments, each a window on a     *)
(* shared array whose first w bytes can be read and the rest written, with *)
(* counters of both and an iterator to the first segment that has room.    *)
(* Arrays are kept apart from segments, because slices, copies of other    *)
(* buffers and the halves of a split segment share them.  `content' is     *)
(* what a plain byte string would hold after the same calls.               *)
(***************************************************************************)
EXTENDS Integers, Sequences, SequencesExt, FiniteSets, FiniteSetsExt

CONSTANTS
    Bytes,
    Arrays,       \* bound: the arrays that can be alive at once, 1..n
    MaxLen,       \* bound: readable bytes of a buffer
    MaxRoom,      \* bound: writable bytes of a buffer
    MaxSegments,  \* bound: segments of a buffer
    MaxArg        \* bound: bytes in one call

VARIABLES
    buffer,       \* buffer[b]: m_segments, index of m_writeIt, both counters
    memory,       \* memory[a]: the bytes of array a
    content       \* content[b]: the reference

bufferVars == <<buffer, memory, content>>

Names == {"x", "y"}

\* Segments: array, offset of the window, its length and m_writeIndex.
Segment(a, off, len, w) == [arr |-> a, off |-> off, len |-> len, w |-> w]
Room(s) == s.len - s.w
Slice(s) == Segment(s.arr, s.off, s.w, s.w)              \* Segment(s.readBuffer())
Consumed(s, n) == Segment(s.arr, s.off + n, s.len - n, s.w - n)

\* The cells of a list of segments that hold the readable, and the writable, bytes.
ReadCells(q) == FlattenSeq([i \in DOMAIN q |-> [j \in 1..q[i].w |-> <<q[i].arr, q[i].off + j>>]])
WriteCells(q) ==
    FlattenSeq([i \in DOMAIN q |-> [j \in 1..Room(q[i]) |-> <<q[i].arr, q[i].off + q[i].w + j>>]])

At(mem, cells) == [i \in DOMAIN cells |-> mem[cells[i][1]][cells[i][2]]]
Stored(mem, cells, data) ==
    [a \in Arrays |-> [k \in DOMAIN mem[a] |->
        LET hit == {i \in DOMAIN data : cells[i] = <<a, k>>}
        IN IF hit = {} THEN mem[a][k] ELSE data[Max(hit)]]]

Sum(q, Size(_)) == MapThenSumSet(LAMBDA i : Size(q[i]), DOMAIN q)
Before(q, i) == MapThenSumSet(LAMBDA j : q[j].w, 1 .. i - 1)

Empty == [segs |-> <<>>, it |-> 1, read |-> 0, write |-> 0]

BufferInit == /\ buffer = [b \in Names |-> Empty]
              /\ memory = [a \in Arrays |-> <<>>]
              /\ content = [b \in Names |-> <<>>]

-----------------------------------------------------------------------------
\* A new array of n bytes, whatever they are, that no segment uses.
Live == UNION {{buffer[b].segs[i].arr : i \in DOMAIN buffer[b].segs} : b \in Names}
Free == Arrays \ Live
New == Min(Free)
Garbage == CHOOSE v \in Bytes : TRUE
Fresh(n) == [memory EXCEPT ![New] = [i \in 1..n |-> Garbage]]

\* reserve() and adopt(): a segment with room goes to the front of an empty
\* buffer, else to the end.
AddRoom(B, a, n) ==
    LET s == Segment(a, 0, n, 0)
    IN [B EXCEPT !.segs = IF B.read = 0 THEN <<s>> \o @ ELSE Append(@, s),
                 !.it = IF B.read = 0 THEN 1 ELSE IF B.write = 0 THEN Len(B.segs) + 1 ELSE @,
                 !.write = @ + n]

\* Split any mixed read/write segment at m_writeIt.
Split(B) ==
    IF B.it > Len(B.segs) \/ B.segs[B.it].w = 0 THEN B
    ELSE LET s == B.segs[B.it]
         IN [B EXCEPT !.segs = SubSeq(@, 1, B.it - 1) \o <<Slice(s), Consumed(s, s.w)>>
                                  \o SubSeq(@, B.it + 1, Len(@)),
                      !.it = @ + 1]

Compacted(B) ==
    IF B.it > Len(B.segs) THEN B
    ELSE LET s == B.segs[B.it]
             q == SubSeq(B.segs, 1, B.it - 1) \o IF s.w > 0 THEN <<Slice(s)>> ELSE <<>>
         IN [B EXCEPT !.segs = q, !.it = Len(q) + 1, !.write = 0]

\* The loop of produce(): segments from m_writeIt on are filled one after the other.
Produced(B, n) ==
    LET q == B.segs
        Ahead(i) == MapThenSumSet(LAMBDA j : Room(q[j]), B.it .. i - 1)
        k(i) == IF i < B.it THEN 0 ELSE Min({Room(q[i]), Max({0, n - Ahead(i)})})
        done == [i \in DOMAIN q |-> [q[i] EXCEPT !.w = @ + k(i)]]
    IN [segs |-> done,
        it |-> Min({Len(q) + 1} \cup {i \in DOMAIN q : i >= B.it /\ Room(done[i]) > 0}),
        read |-> B.read + n, write |-> B.write - n]

\* The loop of consume(): from the front; a segment without bytes or room goes.
ConsumedFront(B, n) ==
    LET q == B.segs
        k(i) == Min({q[i].w, Max({0, n - Before(q, i)})})
        rest == [i \in DOMAIN q |-> Consumed(q[i], k(i))]
        gone == {i \in DOMAIN q : rest[i].len = 0}
    IN [B EXCEPT !.segs = SelectSeq(rest, LAMBDA s : s.len > 0),
                 !.it = @ - Cardinality(gone), !.read = @ - n]

Truncated(B, n) ==
    LET S == Split(B)
        q == S.segs
        keep == {i \in DOMAIN q : q[i].w = 0 \/ Before(q, i) < n}
        cut(i) == LET k == Min({q[i].w, n - Before(q, i)})
                  IN IF q[i].w > 0 THEN Segment(q[i].arr, q[i].off, k, k) ELSE q[i]
        gone == Len(q) - Cardinality(keep)
    IN [S EXCEPT !.segs = [i \in 1..Cardinality(keep) |->
                              cut(CHOOSE j \in keep : Cardinality({m \in keep : m <= j}) = i)],
                 !.it = @ - gone, !.read = n]

\* copyIn(Buffer): n bytes of B from position pos, as windows on its arrays.  The
\* first window extends the last segment when it continues it in the same array.
Windows(B, n, pos) ==
    LET q == B.segs
        from(i) == Max({0, pos - Before(q, i)})
        k(i) == Min({Max({0, q[i].w - from(i)}), n - Max({0, Before(q, i) - pos})})
    IN SelectSeq([i \in DOMAIN q |-> IF k(i) > 0 THEN Segment(q[i].arr, q[i].off + from(i), k(i), k(i))
                                     ELSE Segment(q[i].arr, 0, 0, 0)],
                 LAMBDA s : s.len > 0)

\* Mutant of Continues: the first window extends the last segment of any array.
ContinuesAny(s, t) == s.off + s.w = t.off

Continues(s, t) == s.off + s.w = t.off /\ s.arr = t.arr

Appended(B, C, n, pos) ==
    LET S == Split(B)
        new == Windows(C, n, pos)
        prev == S.segs[S.it - 1]
        merge == /\ S.read # 0 /\ pos < C.segs[1].w
                 /\ Continues(prev, new[1])
        head == IF merge THEN SubSeq(S.segs, 1, S.it - 2)
                                \o <<Segment(prev.arr, prev.off, prev.len + new[1].len,
                                             prev.w + new[1].len)>> \o Tail(new)
                ELSE SubSeq(S.segs, 1, S.it - 1) \o new
    IN [S EXCEPT !.segs = head \o SubSeq(@, S.it, Len(@)), !.it = Len(head) + 1, !.read = @ + n]

-----------------------------------------------------------------------------
\* find(): the delimiter may lie across segments.
Find(B, string) ==
    LET q == B.segs
        text(i) == At(memory, ReadCells(<<q[i]>>))
        first(t, p) == {j \in p .. Len(t) : t[j] = string[1]}
        Scan[i \in 1 .. Len(q) + 1, p \in 1 .. MaxLen + 1, soFar \in 0..Len(string), total \in 0..MaxLen] ==
            IF soFar = Len(string) THEN total
            ELSE IF i > Len(q) THEN -1
            ELSE IF p > q[i].w THEN Scan[i + 1, 1, soFar, total]
            ELSE IF soFar = 0
                 THEN IF first(text(i), p) = {} THEN Scan[i + 1, 1, 0, total + q[i].w - p + 1]
                      ELSE Scan[i, Min(first(text(i), p)) + 1, 1, total + Min(first(text(i), p)) - p]
            ELSE LET m == Min({q[i].w - p + 1, Len(string) - soFar})
                 IN IF SubSeq(text(i), p, p + m - 1) = SubSeq(string, soFar + 1, soFar + m)
                    THEN Scan[i, p + m, soFar + m, total]
                    ELSE Scan[i, p, 0, total + soFar]
    IN Scan[1, 1, 0, 0]

\* opCmp(): 0 if the buffers are equal, for buffers of the same length.
Same(B, C) ==
    LET bounds(q) == {Before(q, i) : i \in 1 .. Len(q) + 1}
        cuts == bounds(B.segs) \cup bounds(C.segs)
        piece(q, c) == SubSeq(At(memory, ReadCells(q)), c + 1, Min({d \in cuts : d > c}))
    IN \A c \in cuts \ {B.read} : piece(B.segs, c) = piece(C.segs, c)

-----------------------------------------------------------------------------
\* Buffer b becomes B; bytes of `mem' that no segment can read are forgotten.
Becomes(b, B, mem, string) ==
    /\ B.write <= MaxRoom /\ Len(B.segs) <= MaxSegments
    /\ buffer' = [buffer EXCEPT ![b] = B]
    /\ content' = [content EXCEPT ![b] = string]
    /\ memory' = LET segs == {buffer'[c].segs[i] : <<c, i>> \in {p \in Names \X (1 .. MaxSegments) :
                                                               p[2] <= Len(buffer'[p[1]].segs)}}
                     Seen(a, k) == \E s \in segs : s.arr = a /\ k > s.off /\ k <= s.off + s.w
                     Size(a) == Max({0} \cup {s.off + s.len : s \in {t \in segs : t.arr = a}})
                 IN [a \in Arrays |-> [k \in 1..Size(a) |->
                        IF Seen(a, k) /\ k \in DOMAIN mem[a] THEN mem[a][k] ELSE Garbage]]

reserve(b, n) ==
    LET B == buffer[b] IN
    /\ B.write < n /\ Free # {}
    /\ Becomes(b, AddRoom(B, New, n * 2 - B.write), Fresh(n * 2 - B.write), content[b])

adopt(b, n) == /\ Free # {}
               /\ Becomes(b, AddRoom(buffer[b], New, n), Fresh(n), content[b])

compact(b) == Becomes(b, Compacted(buffer[b]), memory, content[b])

clear(b, room) ==
    LET B == buffer[b]
        q == SubSeq(B.segs, B.it, Len(B.segs))
    IN Becomes(b, IF room THEN Empty
                  ELSE [B EXCEPT !.read = 0, !.it = 1,
                           !.segs = IF q = <<>> THEN q ELSE <<Consumed(q[1], q[1].w)>> \o Tail(q)],
               memory, <<>>)

\* writeBuffer(n, coalesce): the buffer whose first writable bytes are handed out.
\* The caller stores `data' there and calls produce() for the bytes it stored.
WriteBuffer(b, data, asked) ==
    LET B == buffer[b]
        fits == B.write > 0 /\ Room(B.segs[B.it]) >= asked
        C == Compacted(B)
        size == asked * 2
        R == IF fits THEN B ELSE AddRoom(C, New, size)
        mem == IF fits THEN memory ELSE Fresh(size)
    IN /\ Len(data) <= asked /\ B.read + Len(data) <= MaxLen
       /\ fits \/ Free # {}
       /\ Becomes(b, Produced(R, Len(data)),
                  Stored(mem, WriteCells(SubSeq(R.segs, R.it, Len(R.segs))), data),
                  content[b] \o data)

\* writeBuffers(): the same with several pieces, after reserve().
WriteBuffers(b, data) ==
    LET B == buffer[b]
        short == B.write < Len(data)
        size == Len(data) * 2 - B.write
        R == IF short THEN AddRoom(B, New, size) ELSE B
        mem == IF short THEN Fresh(size) ELSE memory
    IN /\ B.read + Len(data) <= MaxLen
       /\ ~short \/ Free # {}
       /\ Becomes(b, Produced(R, Len(data)),
                  Stored(mem, WriteCells(SubSeq(R.segs, R.it, Len(R.segs))), data),
                  content[b] \o data)

\* copyIn(data): into the room there is, and one new segment for the rest.
copyIn(b, data) ==
    LET B == buffer[b]
        k == Min({Len(data), B.write})
        R == Produced(B, k)
        rest == Len(data) - k
        mem == Stored(memory, WriteCells(SubSeq(B.segs, B.it, Len(B.segs))), SubSeq(data, 1, k))
    IN /\ B.read + Len(data) <= MaxLen
       /\ rest = 0 \/ Free # {}
       /\ IF rest = 0 THEN Becomes(b, R, mem, content[b] \o data)
          ELSE Becomes(b, [R EXCEPT !.segs = Append(@, Segment(New, 0, rest, rest)),
                                    !.it = @ + 1, !.read = @ + rest],
                       [mem EXCEPT ![New] = SubSeq(data, k + 1, Len(data))], content[b] \o data)

CopyBuffer(b, c, n, pos) ==
    /\ b # c /\ pos + n <= buffer[c].read /\ buffer[b].read + n <= MaxLen
    /\ Becomes(b, Appended(buffer[b], buffer[c], n, pos), memory,
               content[b] \o SubSeq(content[c], pos + 1, pos + n))

consume(b, n) == /\ n <= buffer[b].read
                 /\ Becomes(b, ConsumedFront(buffer[b], n), memory,
                            SubSeq(content[b], n + 1, Len(content[b])))

truncate(b, n) == /\ n < buffer[b].read
                  /\ Becomes(b, Truncated(buffer[b], n), memory, SubSeq(content[b], 1, n))

\* readBuffer(n, true): the segments are joined, in the room at m_writeIt if it is
\* large enough, else in a new array.
Coalesce(b, n) ==
    LET B == buffer[b]
        q == B.segs
        inPlace == B.it <= Len(q) /\ Room(q[B.it]) >= B.read
        s == q[B.it]
        all == At(memory, ReadCells(q))
        joined(a, off) == [segs |-> <<Segment(a, off, B.read, B.read)>>, it |-> 2,
                           read |-> B.read, write |-> 0]
    IN /\ n <= B.read /\ B.read > 0 /\ q[1].w < n
       /\ inPlace \/ Free # {}
       /\ IF inPlace
          THEN Becomes(b, joined(s.arr, s.off + s.w), Stored(memory, WriteCells(<<s>>), all), content[b])
          ELSE Becomes(b, joined(New, 0), [memory EXCEPT ![New] = all], content[b])

\* getDelimited(delimiter, true, include) returns what comes before the delimiter.
getDelimited(b, delimiter, include) ==
    LET at == Find(buffer[b], delimiter)
        n == IF at = -1 THEN buffer[b].read ELSE at + Len(delimiter)
    IN /\ buffer[b].read > 0 /\ include \in BOOLEAN
       /\ Becomes(b, ConsumedFront(buffer[b], n), memory, SubSeq(content[b], n + 1, Len(content[b])))

Strings(n) == UNION {[1..k -> Bytes] : k \in 1..n}

\* What callers write: enough for the bytes of one call to be told apart.
Data == {[i \in 1..n |-> i - 1] : n \in 1..MaxArg}

\* y is written, consumed and copied from and to; x sees every operation.
BufferNext ==
    \/ \E n \in 1..MaxArg : reserve("x", n)
    \/ \E n \in 1..MaxArg : adopt("x", n) \/ consume("x", n) \/ consume("y", n)
    \/ compact("x") \/ clear("x", TRUE) \/ clear("x", FALSE)
    \/ \E n \in 0..MaxLen : truncate("x", n) \/ Coalesce("x", n)
    \/ \E data \in Data :
          \/ copyIn("x", data) \/ copyIn("y", data) \/ WriteBuffers("x", data)
          \/ \E asked \in 1..MaxArg : WriteBuffer("x", data, asked)
    \/ \E b, c \in Names, n \in 1..MaxArg, pos \in 0..MaxLen : CopyBuffer(b, c, n, pos)
    \/ \E v \in Bytes : getDelimited("x", <<v>>, TRUE)

BufferSpec == BufferInit /\ [][BufferNext]_bufferVars

-----------------------------------------------------------------------------
\* A buffer reads as the byte string that the same calls would have made, though
\* its segments share arrays with other buffers and with one another; and copying
\* out, comparing and searching for a delimiter (of one byte, or one whose first
\* byte does not come again in it) agree with it.
ReadsAsString ==
    \A b \in Names :
        LET text == At(memory, ReadCells(buffer[b].segs))
            Match(d) == {k \in 0 .. Len(text) - Len(d) : SubSeq(text, k + 1, k + Len(d)) = d}
        IN /\ text = content[b]
           /\ \A d \in Strings(3) : (\A i \in 2..Len(d) : d[i] # d[1]) =>
                 Find(buffer[b], d) = IF Match(d) = {} THEN -1 ELSE Min(Match(d))
           /\ \A c \in Names : buffer[b].read = buffer[c].read =>
                 (Same(buffer[b], buffer[c]) <=> content[b] = content[c])

\* What Buffer::invariant() asserts of the counters and of the order of the segments:
\* the counters are those of the segments, bytes come before room, m_writeIt is the
\* first segment with room, and no two pieces of room next to each other are one.  Its
\* assertion that the bytes are optimally merged too is OptimallyMerged.
SegmentsConsistent ==
    \A b \in Names :
        LET B == buffer[b]
            q == B.segs
            withRoom == {i \in DOMAIN q : Room(q[i]) > 0}
        IN /\ \A i \in DOMAIN q : 0 <= q[i].w /\ q[i].w <= q[i].len
           /\ \A i, j \in DOMAIN q : i < j /\ i \in withRoom => q[j].w = 0
           /\ B.read = Sum(q, LAMBDA s : s.w) /\ B.write = Sum(q, Room)
           /\ B.it = Min(withRoom \cup {Len(q) + 1})
           /\ \A i \in withRoom \ {Len(q)} :
                 ~(q[i].arr = q[i + 1].arr /\ q[i].off + q[i].len = q[i + 1].off)

\* The rest of Buffer::invariant(), "We should keep segments optimally merged together":
\* bytes that follow one another in one array are in one segment.  It does not hold.
\* copyIn(Buffer) compares only with the first segment of the other buffer, and bytes
\* written into the room that truncate() or copyIn(Buffer) has split off stay apart
\* from the bytes before it.
OptimallyMerged ==
    \A b \in Names :
        LET q == buffer[b].segs
        IN \A i \in 1 .. Len(q) - 1 :
              Room(q[i]) = 0 /\ q[i + 1].w # 0 => ~Continues(q[i], q[i + 1])

\* find() returns where the string first occurs.
FindsFirst ==
    \A b \in Names : \A d \in Strings(3) :
        LET text == content[b]
            Match == {k \in 0 .. Len(text) - Len(d) : SubSeq(text, k + 1, k + Len(d)) = d}
        IN Find(buffer[b], d) = IF Match = {} THEN -1 ELSE Min(Match)
=============================================================================
