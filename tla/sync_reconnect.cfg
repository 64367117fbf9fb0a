\* A chat and annotations, queued actions and a server that forgets; two
\* transports are lost.  The replay buffer holds two envelopes, so that all
\* three answers to a reconnection are given.
\* The system stops when the bounds are used up.
SPECIFICATION Spec
CONSTANTS
    chat = chat
    annotations = annotations
    Channels <- ChatAndAnnotations
    Resent <- Chats
    ReplayCapacity = 2
    Restore = "warm"
    Async = TRUE
    Forgets = TRUE
    Overtakes = FALSE
    MaxActions = 2
    MaxEvents = 1
    MaxTransports = 3
INVARIANTS
    InSync
    LiveSubscriptionsAreServed
    AppliedAtMostOnce
    ActionsInOrder
    OwnActionShownOnce
PROPERTY FollowerSpec
CHECK_DEADLOCK FALSE
