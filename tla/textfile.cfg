\* Two of the user's edits, undos, redos and saves by command, and two mishaps:
\* a write of another program, a failure of the file system, a crash of the
\* window.  The system stops when the bounds are used up.
SPECIFICATION Spec
CONSTANTS
    MaxChanges = 2
    MaxMishaps = 2
INVARIANTS
    CleanIsOnDisk
    BackupIsCurrent
PROPERTIES
    OverwritesOnlyTheKnown
    ReloadsKeepEdits
CHECK_DEADLOCK FALSE
