SPECIFICATION MCSpec
CONSTANTS
    MaxTime = 2
    MaxMsgs = 4
    MaxFaults = 0
    MaxReads = 1
    Zones = {0}
    MaxFileSize = 1
    MaxTimeInterval = 0
    TargetMaxLogFiles = 2
    NoteChars = 0
    ExtraBytes = 1
    MarkBytes = 0
    MaxBytes = 2
    Threads = {a, b}
    Loggers = {l1, l2}
    Id <- MCId
    MaxAttaches = 3
    MaxSteps = 4
    MaxCrumbs = 2
    MaxCalls = 3
CHECK_DEADLOCK FALSE
INVARIANTS LogGoesWithReports RedactionIsRequired DataOfReports DestinationsAreOwned
