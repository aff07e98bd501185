SPECIFICATION FairSpec
CONSTANTS
    Threads = {t1}
    InitialThreads = 1
    Sizes = {}
    Careful = TRUE
    Fibers = {f1}
    Clients = {c1}
    AnyThread = AnyThread
    None = None
    m_batchSize = 1
    MaxWakeups = 1
    MaxYields = 1
    Pinning = FALSE
    Slots = {s1}
    TickleFd = TickleFd
\* The question is whether the queued work runs, not how the wait looks.
CHECK_DEADLOCK FALSE
PROPERTY WorkRuns
