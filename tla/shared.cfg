\* Two windows write, close and come back.
\* The system stops when the bounds are used up.
SPECIFICATION LiveSpec
CONSTANTS
    first = first
    second = second
    NoValue = NoValue
    Nothing = Nothing
    Windows <- Two
    Values = {1, 2}
    MaxWrites = 3
    MaxOpens = 3
INVARIANTS
    Agreement
    LastWriteStays
PROPERTY QuietInTheEnd
CHECK_DEADLOCK FALSE
