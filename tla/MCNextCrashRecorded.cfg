SPECIFICATION MCSpec
CONSTANTS
    MaxTime = 2
    MaxLaunches = 3
    MaxReports = 1
    MaxEvents = 2
    MaxFails = 1
    FatalSignals <- MCSignals
    MaxReserved = 3
    MaxSets = 3
    MaxReportCount = 1
    IdsPerSecond = 2
    SecondsOfIds = 2
    MaxStored = 3
    Unconvertible = {2}
PROPERTY NextCrashRecorded
CHECK_DEADLOCK FALSE
