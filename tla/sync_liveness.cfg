\* Every transport but the last may be lost at any time.
\* The system stops when the bounds are used up.
SPECIFICATION LiveSpec
CONSTANTS
    chat = chat
    annotations = annotations
    Channels <- Chats
    Resent <- Chats
    ReplayCapacity = 2
    Restore = "failing"
    Async = FALSE
    Forgets = TRUE
    Overtakes = FALSE
    MaxActions = 2
    MaxEvents = 1
    MaxTransports = 3
PROPERTY EveryActionSettles
CHECK_DEADLOCK FALSE
