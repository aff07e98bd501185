SPECIFICATION OrderSpec
CONSTANTS
    Fibers = {f1, f2, f3, f4}
    None = None
    SignalHoldsMutex = FALSE
INVARIANTS IInv ExactlyOnePlace ConditionFIFO
PROPERTIES ReturnsAsOwner NoBarging MonitorSpec LockReturns SignalledReturns
\* Every fiber may be asleep in wait() with nobody left to signal it.
CHECK_DEADLOCK FALSE
