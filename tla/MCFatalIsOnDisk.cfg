SPECIFICATION Spec
CONSTANTS
    MaxTime = 1
    MaxMsgs = 1
    MaxFaults = 0
    Zones = {0}
    MaxFileSize = 2
    MaxTimeInterval = 2
    TargetMaxLogFiles = 1
    NoteChars = 0
    ExtraBytes = 1
    MarkBytes = 1
    MaxBytes = 3
INVARIANT FatalIsOnDisk
