\* Two keys, one value, updates that may fail.
\* The system stops when it is closed.
SPECIFICATION LiveSpec
CONSTANTS
    key = key
    other = other
    NoValue = NoValue
    Keys <- Two
    Values = {1}
    Failing = TRUE
    MaxWrites = 4
INVARIANTS
    StoredOrOnItsWay
    DiskIsASnapshot
    ClosedIsStored
PROPERTIES
    FlushedMeansSettled
    EverythingSettles
CHECK_DEADLOCK FALSE
