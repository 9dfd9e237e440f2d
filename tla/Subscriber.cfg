SPECIFICATION SpecSession
CONSTANTS
    a = a
    b = b
    Channels = {a, b}
    Other = Other
    Initial <- OneChannel
    Commands <- SomeCommands
    Calls <- SomeCalls
    MaxCommands = 2
    MaxMessages = 3
    MaxWhile = 1
    Capacity = 2
    NoStream = NoStream
INVARIANTS MessagesWithinSubscriptions MessagesOnceInOrder ListAgrees FailsOnlyFor
PROPERTIES MessagesWritten LoopEnds CallsReturn
CHECK_DEADLOCK FALSE
