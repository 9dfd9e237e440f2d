SPECIFICATION Spec
CONSTANTS
    a = a
    b = b
    Channels = {a, b}
    Other = Other
    Initial <- TwoChannels
    Commands <- NoCommands
    MaxCommands = 0
    MaxMessages = 2
PROPERTY MessagesWritten
CHECK_DEADLOCK FALSE
