SPECIFICATION FairSpec
CONSTANTS
    MaxTime = 2
    MaxMsgs = 3
    MaxFaults = 1
    Zones = {0}
    MaxFileSize = 2
    MaxTimeInterval = 2
    TargetMaxLogFiles = 1
    NoteChars = 1
    ExtraBytes = 1
    MarkBytes = 1
    MaxBytes = 3
INVARIANTS FileSizeBounded
PROPERTIES ImplementsDurableLog QueueDrains OnlyExcessRemoved
