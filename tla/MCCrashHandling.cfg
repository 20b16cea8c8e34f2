SPECIFICATION FairSpec
CONSTANTS
    t1 = t1
    t2 = t2
    Primary = Primary
    Secondary = Secondary
    Nobody = Nobody
    AppThreads <- MCThreads
    Budgets <- MCBudgets
CHECK_DEADLOCK FALSE
INVARIANTS ReportImpliesNoted NobodyLeftSuspended LoneCrashIsReported
PROPERTIES  LoneFatalEventEndsProcess
