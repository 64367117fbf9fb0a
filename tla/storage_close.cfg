\* The update that close() waits for fails.
\* The system stops when it is closed.
SPECIFICATION LiveSpec
CONSTANTS
    key = key
    other = other
    NoValue = NoValue
    Keys <- One
    Values = {1, 2}
    Failing = TRUE
    MaxWrites = 2
PROPERTY CloseEnds
CHECK_DEADLOCK FALSE
