SPECIFICATION MCSpec
CONSTANTS
    Threads = {"a", "b", "mach", "new"}
    AtFirst = {"a", "b", "mach"}
    Reserved = {"mach"}
    MaxHandlers = 2
    Listed = {"main", "worker", "quiet"}
    Named = {"main", "worker"}
    MaxUpdates = 2
    Reports = {"user", "snapshot"}
    Callers = {"a", "b"}
    Hashes <- SomeHashes
    MaxBacktraces = 3
    MaxNesting = 2
    HookedImages = {"a", "b", "c"}
    SlotsOf <- SomeSlots
    MaxFailures = 1
    MachCodes <- SomeCodes
    Releasers = {"t", "u"}
    Addresses = {"a", "b"}
    SlotOf <- SomeSlotOf
    Classes = {"NSString", "NSException"}
    Exceptions = {"NSException"}
    MaxObjects = 3
    Loggers = {"t", "u"}
    Numbers = {3, 4, 5}
    MaxLines = 1
    MaxLogs = 2
    MaxFiles = 1
CHECK_DEADLOCK FALSE
INVARIANTS SearchOfObjects ThreadListIsLive CallersOfBlocks AddressesAreNamed
    CallsReachTheFunction HandlersSuspend CrashIsDescribed
PROPERTIES CursorStandsStill
