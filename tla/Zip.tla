-------------------------------- MODULE Zip ---------------------------------
(***************************************************************************)
(* Zip and ZipEntry (zip.cpp): an archive is written file by file, closed, *)
(* and opened again.  The archive is a sequence of blocks (local header    *)
(* with its name, extra field, a unit of compressed data, data descriptor, *)
(* central directory record, end records) and positions count blocks.      *)
(***************************************************************************)
EXTENDS Integers, Sequences, FiniteSets

CONSTANTS
    MaxFiles,      \* bound: files are named 1, 2, ...
    Lengths,       \* compressed and plain sizes of a file, in units
    Max32          \* 0xffffffff: larger sizes and offsets need Zip64

VARIABLES
    writeSeek,     \* supportsSeek() of the stream that is written
    readSeek,      \* supportsSeek() and supportsSize() of the stream that is read
    mode,          \* "write", "closed", "read", or how reading ended
    archive,       \* what m_stream holds
    scratch,       \* m_scratchFile
    streams,       \* what was written to its streams: [size, csize]
    m_centralDirectory,
    m_currentFile, \* 0, or the place of the entry in m_centralDirectory, or Scratch
    m_fileStream,  \* where it reads, its limit, whether its end is notified, and
                   \* whether it has been read to its end
    m_pos,         \* m_stream->tell() of the reader
    entries,       \* names that getNextEntry() returned
    data           \* the last read of a whole file since getNextEntry(): how it ended,
                   \* the name of the file asked for and of the one that came, and
                   \* whether it was of the current file and not the first access

zipVars == <<writeSeek, readSeek, mode, archive, scratch, streams, m_centralDirectory, m_currentFile,
             m_fileStream, m_pos, entries, data>>
readerVars == <<m_fileStream, m_pos, entries, data>>

Scratch == MaxFiles + 1
Least(n) == IF n < Max32 THEN n ELSE Max32
Block(p) == IF p < Len(archive) THEN archive[p + 1] ELSE [kind |-> "none"]

\* ZipEntry::clear() and the constructor; -1: size not known.
Clear == [name |-> 0, size |-> -1, csize |-> -1, start |-> 0, descriptor |-> FALSE]

Nothing == [asked |-> 0, name |-> 0, how |-> "none", again |-> FALSE]

ZipInit == /\ writeSeek \in BOOLEAN /\ readSeek \in BOOLEAN
           /\ mode = "write" /\ archive = <<>> /\ scratch = Clear
           /\ streams = [size |-> 0, csize |-> 0]
           /\ m_centralDirectory = <<>> /\ m_currentFile = 0
           /\ m_fileStream = [at |-> 0, limit |-> 0, descriptor |-> FALSE, done |-> TRUE]
           /\ m_pos = 0 /\ entries = <<>> /\ data = Nothing

IsZip64(entry) == entry.size = -1 \/ entry.size >= Max32

\* ZipEntry::commit(): the local header, and an empty Zip64 field unless a data
\* descriptor will follow.
commit(entry) ==
    LET unknown == IF IsZip64(entry) THEN Max32 ELSE 0
        extra == IsZip64(entry) /\ ~entry.descriptor
    IN <<[kind |-> "local", name |-> entry.name, descriptor |-> entry.descriptor,
          csize |-> unknown, size |-> unknown, extra |-> extra]>>
       \o (IF extra THEN <<[kind |-> "extra", size |-> 0, csize |-> 0]>> ELSE <<>>)

Units(name, n) == [i \in 1..n |-> [kind |-> "data", name |-> name, last |-> i = n]]

\* Mutant of CloseEntry: the sizes in the local header are left as they were.
CloseEntryUnpatched ==
    IF scratch.descriptor
    THEN Append(archive, [kind |-> "descriptor", zip64 |-> IsZip64(scratch), size |-> streams.size,
                          csize |-> streams.csize])
    ELSE archive

\* ZipEntry::close(): the data descriptor, or the sizes patched into the local header
\* and its extra field.
CloseEntry ==
    IF scratch.descriptor
    THEN Append(archive, [kind |-> "descriptor", zip64 |-> IsZip64(scratch), size |-> streams.size,
                          csize |-> streams.csize])
    ELSE [i \in 1..Len(archive) |->
            CASE i = scratch.start + 1 ->
                    [archive[i] EXCEPT !.size = Least(streams.size), !.csize = Least(streams.csize)]
              [] i = scratch.start + 2 /\ IsZip64(scratch) ->
                    [kind |-> "extra", size |-> streams.size, csize |-> streams.csize]
              [] OTHER -> archive[i]]

WithScratch == Append(m_centralDirectory, [scratch EXCEPT !.size = streams.size, !.csize = streams.csize])

\* addFile() closes the file before and puts it into the directory.
addFile ==
    /\ mode = "write" /\ scratch.name < MaxFiles /\ (m_currentFile # 0 => scratch.name # 0)
    /\ IF m_currentFile # 0
       THEN archive' = CloseEntry /\ m_centralDirectory' = WithScratch
       ELSE UNCHANGED <<archive, m_centralDirectory>>
    /\ scratch' = Clear /\ m_currentFile' = Scratch
    /\ UNCHANGED <<writeSeek, readSeek, mode, streams, readerVars>>

\* The caller names the file, declares its size or not, and writes it to stream().
stream(size, csize, declared) ==
    LET entry == [name |-> Len(m_centralDirectory) + 1, size |-> IF declared THEN size ELSE -1,
                  csize |-> -1, start |-> Len(archive), descriptor |-> ~writeSeek]
    IN /\ mode = "write" /\ m_currentFile # 0 /\ scratch.name = 0
       /\ scratch' = entry
       /\ archive' = archive \o commit(entry) \o Units(entry.name, csize)
       /\ streams' = [size |-> size, csize |-> csize]
       /\ UNCHANGED <<writeSeek, readSeek, mode, m_centralDirectory, m_currentFile, readerVars>>

\* close(): the central directory.  Values that do not fit are 0xffffffff and follow
\* in the record's Zip64 field, in this order.
Wide(entry) == SelectSeq(<<entry.size, entry.csize, entry.start>>, LAMBDA n : n >= Max32)

Record(entry) == [kind |-> "file", name |-> entry.name, size |-> Least(entry.size),
                  csize |-> Least(entry.csize), start |-> Least(entry.start), extra |-> Wide(entry)]

close ==
    LET closed == IF m_currentFile # 0 THEN CloseEntry ELSE archive
        directory == IF m_currentFile # 0 THEN WithScratch ELSE m_centralDirectory
        start == Len(closed)
        files == [i \in 1..Len(directory) |-> Record(directory[i])]
    IN /\ mode = "write" /\ (m_currentFile # 0 => scratch.name # 0)
       /\ mode' = "closed"
       /\ m_centralDirectory' = directory /\ m_currentFile' = 0 /\ scratch' = Clear
       /\ archive' = closed \o files
             \o (IF start >= Max32
                 THEN <<[kind |-> "eocd64", entries |-> Len(files), start |-> start],
                        [kind |-> "locator", offset |-> start + Len(files)]>>
                 ELSE <<>>)
             \o <<[kind |-> "eocd", entries |-> Len(files), start |-> Least(start)]>>
       /\ UNCHANGED <<writeSeek, readSeek, streams, readerVars>>

-----------------------------------------------------------------------------
\* The extra field is read from two bytes too early: `extra' is not advanced over the
\* length, which becomes the low half of the first value.
ReadWide(extra, j) == extra[j] * 65536 + IF j = 1 THEN 8 * Len(extra) ELSE 0

WidePlace(r, which) == Cardinality({w \in {"size", "csize", "start"} :
                           /\ r[w] = Max32
                           /\ w = which \/ w = "size" \/ (w = "csize" /\ which = "start")})

ReadField(r, which) == IF r[which] = Max32 THEN ReadWide(r.extra, WidePlace(r, which)) ELSE r[which]

ReadRecord(r) == [name |-> r.name, size |-> ReadField(r, "size"), csize |-> ReadField(r, "csize"),
                  start |-> ReadField(r, "start"), descriptor |-> FALSE]

\* The constructor in READ mode: end records, central directory, back to 0.
open ==
    LET last == archive[Len(archive)]
        locator == archive[Len(archive) - 1]
        end == IF Len(archive) > 1 /\ locator.kind = "locator" THEN Block(locator.offset) ELSE last
    IN /\ mode = "closed" /\ mode' = "read"
       /\ m_centralDirectory' = IF readSeek THEN [i \in 1..end.entries |-> ReadRecord(Block(end.start + i - 1))]
                                ELSE <<>>
       /\ UNCHANGED <<writeSeek, readSeek, archive, scratch, streams, m_currentFile, readerVars>>

\* The Zip64 field of a local header, read in the same way, and only if both sizes are
\* said to be there.
LocalSizes(header, extra) ==
    IF header.extra /\ header.size = Max32 /\ header.csize = Max32
    THEN [size |-> ReadWide(<<extra.size, extra.csize>>, 1), csize |-> ReadWide(<<extra.size, extra.csize>>, 2)]
    ELSE [size |-> header.size, csize |-> header.csize]

Entry(i) == IF i = Scratch THEN scratch ELSE m_centralDirectory[i]

\* Where getNextEntry() looks for the next header: m_extraFieldsLength is never set,
\* and nothing accounts for a data descriptor.
Skipped == IF m_currentFile = 0 THEN m_pos
           ELSE Entry(m_currentFile).start + 1 + Entry(m_currentFile).csize

\* getNextEntry(): an entry of the directory with this name and place, or the scratch
\* entry with what the local header says.  On a stream that cannot seek the rest of
\* the current file is skipped through stream(), whose overload for writing asserts.
getNextEntry ==
    LET p == Skipped
        header == Block(p)
        known == {i \in 1..Len(m_centralDirectory) :
                     m_centralDirectory[i].name = header.name /\ m_centralDirectory[i].start = p}
        after == p + 1 + IF header.extra THEN 1 ELSE 0
    IN /\ mode = "read"
       /\ IF m_currentFile # 0 /\ ~readSeek
          THEN mode' = "asserts" /\ UNCHANGED <<scratch, m_currentFile, m_fileStream, m_pos, entries>>
          ELSE IF header.kind # "local"
          THEN /\ mode' = "end" /\ m_currentFile' = 0 /\ m_pos' = p
               /\ UNCHANGED <<scratch, m_fileStream, entries>>
          ELSE /\ scratch' = [name |-> header.name, start |-> p, descriptor |-> FALSE,
                              size |-> (IF known = {} THEN LocalSizes(header, Block(p + 1)) ELSE header).size,
                              csize |-> (IF known = {} THEN LocalSizes(header, Block(p + 1)) ELSE header).csize]
               /\ m_currentFile' = IF known = {} THEN Scratch ELSE CHOOSE i \in known : TRUE
               /\ m_pos' = after
               /\ m_fileStream' = [at |-> after, descriptor |-> header.descriptor, done |-> FALSE,
                                   limit |-> IF known = {} THEN LocalSizes(header, Block(p + 1)).csize
                                             ELSE m_centralDirectory[CHOOSE i \in known : TRUE].csize]
               /\ entries' = Append(entries, header.name)
               /\ UNCHANGED mode
       /\ data' = Nothing
       /\ UNCHANGED <<writeSeek, readSeek, archive, streams, m_centralDirectory>>

\* The units of one file from p on, if they are all there.
FileAt(p) == {n \in 1..(Len(archive) - p) :
                 /\ \A i \in 1..n : Block(p + i - 1).kind = "data" /\ (Block(p + i - 1).last <=> i = n)}

\* The descriptor is read into m_currentFile: four bytes for each size that is not
\* 0xffffffff there, so the second one is the upper half of the first if the writer
\* used eight.
Described(entry, d) == [entry EXCEPT !.csize = d.csize,
                                     !.size = IF d.zip64 /\ @ # Max32 THEN 0 ELSE d.size]

\* The caller reads stream s to its end, for the file `asked': the deflate stream takes
\* up to `limit' units of m_stream, and onFileEOF() reads the data descriptor behind
\* them.  (What it takes for one where there is none is not followed: the read counts as
\* failed.)  A stream that is at its end gives nothing more and tells nobody.
Read(s, asked, again) ==
    LET Gave(name, how) == [asked |-> asked, name |-> name, how |-> how, again |-> again]
        p == s.at + IF s.limit < Len(archive) - s.at THEN s.limit ELSE Len(archive) - s.at
        found == \E n \in FileAt(s.at) : n <= s.limit
        d == Block(p)
        described == ~s.done /\ found /\ s.descriptor /\ d.kind = "descriptor"
    IN /\ m_fileStream' = [s EXCEPT !.done = TRUE]
       /\ m_pos' = IF s.done THEN m_pos ELSE p
       /\ mode' = IF described /\ m_currentFile = 0 THEN "asserts" ELSE mode
       /\ data' = IF s.done THEN Gave(0, "nothing")
                  ELSE IF ~found \/ (s.descriptor /\ ~described) THEN Gave(0, "eof")
                  ELSE Gave(Block(s.at).name, "read")
       /\ IF described /\ m_currentFile # 0
          THEN IF m_currentFile = Scratch
               THEN scratch' = Described(scratch, d) /\ UNCHANGED m_centralDirectory
               ELSE m_centralDirectory' = [m_centralDirectory EXCEPT ![m_currentFile] = Described(@, d)]
                    /\ UNCHANGED scratch
          ELSE UNCHANGED <<scratch, m_centralDirectory>>

\* stream() const of the current entry is m_fileStream as it is, whoever took it last.
ReadCurrent == /\ mode = "read" /\ m_currentFile # 0
               /\ Read(m_fileStream, Entry(m_currentFile).name, data # Nothing)
               /\ UNCHANGED <<writeSeek, readSeek, archive, streams, m_currentFile, entries>>

\* stream() const of an entry of getAllEntries() that is not the current one.
ReadAny(i) ==
    LET entry == m_centralDirectory[i]
        header == Block(entry.start)
        s == [at |-> entry.start + 1 + (IF header.extra THEN 1 ELSE 0), limit |-> entry.csize,
              descriptor |-> header.descriptor, done |-> FALSE]
    IN /\ mode \in {"read", "end"} /\ i # m_currentFile
       /\ IF header.kind # "local"
          THEN /\ data' = [asked |-> entry.name, name |-> 0, how |-> "corrupt", again |-> FALSE]
               /\ UNCHANGED <<mode, scratch, m_centralDirectory, m_fileStream, m_pos>>
          ELSE Read(s, entry.name, FALSE)
       /\ UNCHANGED <<writeSeek, readSeek, archive, streams, m_currentFile, entries>>

ZipNext == \/ addFile \/ \E size, csize \in Lengths, declared \in BOOLEAN : stream(size, csize, declared)
           \/ close \/ open \/ getNextEntry \/ ReadCurrent
           \/ \E i \in 1..Len(m_centralDirectory) : ReadAny(i)

ZipSpec == ZipInit /\ [][ZipNext]_zipVars

-----------------------------------------------------------------------------
\* What the archive says of its files to a reader that follows the format: the place
\* of the central directory from the end records, wide values from the Zip64 fields.
Told(r, which) == IF r[which] = Max32 THEN r.extra[WidePlace(r, which)] ELSE r[which]

Directory ==
    LET locator == archive[Len(archive) - 1]
        end == IF locator.kind = "locator" THEN Block(locator.offset) ELSE archive[Len(archive)]
    IN [i \in 1..end.entries |-> Block(end.start + i - 1)]

\* Every archive that close() completed is well formed, however files were declared
\* and wherever Zip64 sets in: each record of the directory leads to the local header
\* of its file, behind which lie exactly the units it counts, and a local header
\* without a descriptor says the same sizes.
ZipWellFormed ==
    (mode = "closed" /\ Len(archive) > 1) =>
       LET files == Directory
       IN \A i \in 1..Len(files) :
             LET start == Told(files[i], "start")
                 local == Block(start)
             IN /\ local.kind = "local" /\ local.name = i
                /\ Told(files[i], "csize") \in FileAt(start + 1 + (IF local.extra THEN 1 ELSE 0))
                /\ ~local.descriptor => local.size = files[i].size /\ local.csize = files[i].csize

\* Archives that reading gets right: no Zip64 fields, no descriptors, streams that seek.
Plain == /\ readSeek /\ writeSeek
         /\ \A p \in 1..Len(archive) : /\ archive[p].kind \notin {"extra", "eocd64"}
                                       /\ archive[p].kind = "file" => archive[p].extra = <<>>

\* Such an archive gives back its files.  A listing from the first file on misses none,
\* whatever was read in between; and in whatever order streams are asked for, one at a
\* time, a read gives the whole file it was asked for.  Only the current file, when it is
\* not the first that was accessed since getNextEntry(), gives nothing, as stream() then
\* hands out the exhausted stream of the file before.
ZipReadsBack ==
    Plain =>
       /\ (mode = "end" /\ entries # <<>>) =>
             \A i \in 1..Len(m_centralDirectory) : i >= entries[1] => entries[i + 1 - entries[1]] = i
       /\ data.how \in {"none", "read"} \cup (IF data.again THEN {"nothing"} ELSE {})
       /\ data.name \in {0, data.asked}

\* What zip.h says of stream(), "accessing the stream() of another ZipEntry will
\* implicitly close the previously accessed one": asked for again, a stream starts again.
\* It does not hold of the current file.
ReadsWhenAsked == Plain => data.how # "nothing"

\* "It fully supports non-seekable streams for both reading and writing": the files
\* of an archive can be listed one after the other.
ListsAllFiles ==
    (mode \in {"end", "asserts"} /\ entries # <<>> /\ Head(entries) = 1) =>
        Len(entries) = Cardinality({p \in 1..Len(archive) : archive[p].kind = "file"})
=============================================================================
