SPECIFICATION Spec
CONSTANTS
    m_bufferSize = 1
    Writers = {1}
    MaxBytes = 2
    MaxOps = 2
    MaxConfig = 2
    Flights = 4
    MaxRecords = 2
    Buffered = {}
    MaxCalls = 2
    Timeouts = {TRUE, FALSE}
    MaxRequests = 4
    MaxConcurrent = 3
    Bodies = {1, 2}
    Dropped = {2, 4}
    Uses = {"sequential", "concurrent"}
    MaxServed = 3
    Callers = {1, 2, 3}
    Routes <- MCRoutes
    m_connectionsPerHost = 1
    ForceNew = {FALSE}
    MaxConnections = 2
    MaxClock = 1
    URIs = {"u1", "u2"}
    Original = "u1"
    m_maxRedirects = 3
    MaxRetries = 1
    MaxAttempts = 2
    Addresses = 2
    MaxRows = 2
    Clients = {c1, c2, c3}
    Destructor = d
    Totals = {1, 2}
INVARIANTS WaitersKept PipelineInOrder CacheCounts LeavesClean
PROPERTIES FlushMeansRead WaitsEnd
\* A fiber may wait for a peer that does nothing, and calls come to an end.
CHECK_DEADLOCK FALSE
