\* Two clients share a session that is created or on disk.
\* The system stops when everybody has let go and the bounds are used up.
SPECIFICATION LiveSpec
CONSTANTS
    window = window
    other = other
    Clients <- Two
    Creator = window
    MaxEntries <- Twice
    MaxRefs = 2
    MaxTurns = 1
INVARIANTS
    InSync
    CountsWhatIsHeld
    SubscribedIsPinned
    ShownIsServed
    LeaksOnlyInTheWindow
PROPERTY ReleasedInTheEnd
CHECK_DEADLOCK FALSE
