SPECIFICATION Spec
CONSTANTS
    a = a
    b = b
    Channels = {a, b}
    Other = Other
    Initial <- OneChannel
    Commands <- AllCommands
    MaxCommands = 2
    MaxMessages = 2
INVARIANTS MessagesWithinSubscriptions SocketAndShutdownWatched
PROPERTIES LoopEnds CommandsApplied
CHECK_DEADLOCK FALSE
