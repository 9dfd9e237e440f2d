SPECIFICATION Spec
CONSTANTS
    Clients = {c1, c2, c3}
    MaxConnections = 2
    MaxBackoff = 2
INVARIANTS PermitsConserved StoppedMeansDrained
PROPERTIES NoCommandAfterShutdown ShutdownCompletes ClosedConnectionsEnd
CHECK_DEADLOCK FALSE
