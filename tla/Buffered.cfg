SPECIFICATION SpecBuffered
CONSTANTS
    Callers = {c1, c2, c3}
    Capacity = 1
    MaxCalls = 3
    Requests <- SomeRequests
    NotYet = NotYet
    GivenUp = GivenUp
PROPERTIES ImplementsCalls CallsReturn
CHECK_DEADLOCK FALSE
