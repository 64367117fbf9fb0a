\* The command runs while a call migrates the deprecated setting.
SPECIFICATION Spec
CONSTANTS
    call1 = call1
    command = command
    oldKey = oldKey
    newKey = newKey
    None = None
    Failed = Failed
    Calls <- OneCall
    Commands <- OneCommand
    Keys <- TwoKeys
    EnvKeys <- Unset
    Persistent = TRUE
    MaxEdits = 0
INVARIANT SavedKeyStays
CHECK_DEADLOCK FALSE
