SPECIFICATION Spec
CONSTANTS
    Clients = {c1, c2, c3}
    MaxConnections = 2
    MaxBackoff = 2
INVARIANTS ActiveCounts DoneTimerWatched StoppedMeansDrained
PROPERTIES ShutdownCompletesWithoutClients
CHECK_DEADLOCK FALSE
