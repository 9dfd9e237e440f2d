SPECIFICATION SpecDb
CONSTANTS
    Keys = {k1, k2}
    Values = {v1, v2}
    Durations = {0, 1, 2}
    None = None
    Callers = {c1, c2}
    Guard = Guard
    MaxTime = 3
INVARIANTS IndexAgrees NoMissedDeadline ShutdownNotMissed NothingMissed
PROPERTIES PurgeTaskEnds CppPurgeTaskEnds ImplementsStore
CHECK_DEADLOCK FALSE
