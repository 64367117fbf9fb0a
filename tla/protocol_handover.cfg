\* Handshakes overlap on three sockets, each passed to another process.
\* The system stops when the bound on sockets is used up.
SPECIFICATION LiveSpec
CONSTANTS
    MaxMsgs <- ClientOnce
    MaxSockets = 3
    IdSpace = 8
    Handover = TRUE
INVARIANTS
    HandshakeSwallowsNothing
    StaleAnswerNeverFatal
    ConnectedIsWatched
PROPERTY EverythingAcknowledged
CHECK_DEADLOCK FALSE
