SPECIFICATION Spec
CONSTANTS
    Timers = {t1, t2}
    Dispatchers = {d1, d2}
    Delays = {1, 2}
    Start = 2
    End = 4
    MaxBacks = 1
    MaxTickles = 1
    Threshold = 1
    Width = 16
    Milli = 2
    Ints = 4
SYMMETRY TimerSymmetry
VIEW TimerView
INVARIANTS ArmedInSet CancelledNeverRuns NoOversleep
PROPERTY NeverEarly
\* A bounded clock stops, and then everybody may wait.
CHECK_DEADLOCK FALSE
