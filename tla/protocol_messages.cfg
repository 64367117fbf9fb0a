\* One socket is lost while both ends talk (a management connection).
SPECIFICATION Spec
CONSTANTS
    MaxMsgs <- ClientTalksMore
    MaxSockets = 2
    IdSpace = 8
    Handover = FALSE
INVARIANTS
    TypeOK
    ExactlyOnceInOrder
    KeptUntilReceived
    ReplayNeverNeeded
PROPERTY ChannelSpec
