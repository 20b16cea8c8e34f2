SPECIFICATION Spec
CONSTANTS
    MaxTime = 3
    MaxMsgs = 3
    MaxFaults = 2
    Zones = {0, 1}
    MaxFileSize = 2
    MaxTimeInterval = 2
    TargetMaxLogFiles = 1
    NoteChars = 0
    ExtraBytes = 0
    MarkBytes = 0
    MaxBytes = 2
INVARIANTS TypeOK Accounted NoSilentDrop
PROPERTY ArchivesTrimmed
