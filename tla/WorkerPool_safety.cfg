SPECIFICATION Spec
CONSTANTS
    Threads = {t1, t2}
    InitialThreads = 1
    Sizes = {1, 2}
    Careful = TRUE
    Fibers = {f1, f2, f3}
    Clients = {c1}
    AnyThread = AnyThread
    None = None
    m_batchSize = 2
    MaxWakeups = 1
    MaxYields = 1
    Pinning = TRUE
    MaxPosts = 3
\* A pool made smaller may lose a thread to an exception, or the tickle that stop() needs.
CHECK_DEADLOCK FALSE
SYMMETRY FiberSymmetry
INVARIANTS NoDoubleRun OneThreadPerFiber ActiveCountExact NoLostWakeup StopDrains
