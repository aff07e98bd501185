SPECIFICATION Spec
CONSTANTS
    Threads = {t1, t2}
    InitialThreads = 2
    Sizes = {}
    Careful = TRUE
    Fibers = {f1, f2}
    Clients = {c1}
    AnyThread = AnyThread
    None = None
    m_batchSize = 1
    MaxWakeups = 1
    MaxYields = 1
    Pinning = FALSE
    Slots = {s1, s2}
    TickleFd = TickleFd
SYMMETRY FiberSymmetry
\* The lost wake-up of IOManager_lost.cfg can leave every thread in epoll_wait.
CHECK_DEADLOCK FALSE
INVARIANTS PendingCountExact IONoLostWakeup IOStopDrains
