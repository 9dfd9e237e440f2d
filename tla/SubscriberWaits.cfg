SPECIFICATION SpecSession
CONSTANTS
    a = a
    b = b
    Channels = {a, b}
    Other = Other
    Initial <- OneChannel
    Commands <- NoCommands
    Calls <- SomeCalls
    MaxCommands = 2
    MaxMessages = 1
    MaxWhile = 1
    Capacity = 2
    NoStream = NoStream
PROPERTY UnsubscribeAllReturns
CHECK_DEADLOCK FALSE
