SPECIFICATION Spec
CONSTANTS
    Fibers = {f1, f2, f3}
    None = None
    N = 3
    initialConcurrency = 1
    MaxNotifies = 3
    MaxDepth = 2
    MaxSets = 3
    Jobs = {1, 2, 3}
    Workers = {1, 2, 3}
    parallelism = 2
    Rounds = 2
    Threads = {t}
    Stacks = {a, b}
    NoFiber = NoFiber
    Scheduled = {a, b}
    Main = Main
    Root = Root
    m_batchSize = 2
    MaxCalls = 2
INVARIANTS WaiterInOnePlace HandedOverOnce FutureReturns CallerAloneAfterwards StateMatchesContext
PROPERTY BlockedReturns
\* Every fiber may be waiting with nobody left to wake it, and waitAll returns.
CHECK_DEADLOCK FALSE
