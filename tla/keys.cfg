\* A call and the command, with two keys, while the user edits settings.
SPECIFICATION LiveSpec
CONSTANTS
    call1 = call1
    command = command
    oldKey = oldKey
    newKey = newKey
    None = None
    Failed = Failed
    Calls <- OneCall
    Commands <- OneCommand
    Keys <- TwoKeys
    EnvKeys <- OneOrUnset
    Persistent = TRUE
    MaxEdits = 1
PROPERTIES
    KeyKept
    ReadsAreAtomic
    EveryCallEnds
CHECK_DEADLOCK FALSE
