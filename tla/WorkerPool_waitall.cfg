SPECIFICATION Spec
CONSTANTS
    Threads = {t1, t2}
    InitialThreads = 2
    Sizes = {}
    Careful = TRUE
    Fibers = {f1, f2}
    Clients = {c1}
    AnyThread = AnyThread
    None = None
    m_batchSize = 1
    MaxWakeups = 2
    MaxYields = 1
    Pinning = FALSE
    MaxPosts = 3
INVARIANT NoDoubleRun
