SPECIFICATION FairSpec
CONSTANTS
    Threads = {t1, t2}
    InitialThreads = 2
    Sizes = {}
    Careful = TRUE
    Fibers = {f1, f2}
    Clients = {c1}
    AnyThread = AnyThread
    None = None
    m_batchSize = 1
    MaxWakeups = 1
    MaxYields = 1
    Pinning = TRUE
    MaxPosts = 3
PROPERTIES WorkRuns StopReturns
