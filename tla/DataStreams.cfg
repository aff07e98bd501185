SPECIFICATION Spec
CONSTANTS
    Bytes = {0, 1}
    Arrays = {1, 2}
    MaxLen = 2
    MaxRoom = 4
    BufferSegments = 3
    MaxArg = 2
    m_bufferSize = 2
    MaxSize = 4
    CallLengths = {1, 3}
    MaxMemory = 4
    CatSizes <- MCCatSizes
    m_size = 2
    SourceSize = 4
    chunkSize = 2
    Unlimited = 99
    MaxWritten = 3
    MaxPiece = 2
    MaxThrows = 2
    MaxFiles = 2
    ZipLengths = {1, 2, 9}
    Max32 = 8
    Alphabet = {"a", ";", "."}
    MaxInput = 5
    supportsUnread = TRUE
    MaxBody = 3
    WriteSizes = {1, 2}
    Faults = TRUE
    MaxVersion = 2
    HttpSizes = {1, 2}
    Advices = {1, 15}
    HttpLengths = {2}
    MaxOffset = 2
    Word = 16
    Repeats = TRUE
    EntitySizes = {0, 1, 3}
    Firsts = {0, 1, 2}
    Seconds = {0, 1, 2}
    MaxRanges = 2
    TagValues = {"x", "y"}
    Hosts = {"", "h"}
    Requests <- MCRequests
    MaxServlets = 2
    Servlets <- MCServlets
    Types = {"int", "ptime"}
    MaxParams = 2
    MaxStorage = 4
INVARIANTS BytesInPlace PacksAndUnpacks FramingHolds RangesRight Dispatched StatementSends
\* A caller that has its bytes, its answer or an exception stops.
CHECK_DEADLOCK FALSE
