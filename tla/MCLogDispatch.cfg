SPECIFICATION Spec
CONSTANTS
    t1 = t1
    t2 = t2
    Threads <- MCThreads
    Scenarios <- MCScenarios
    MaxBreadcrumbs = 2
SYMMETRY ThreadSymmetry
CHECK_DEADLOCK FALSE
INVARIANTS TypeOK LinesInCallOrder EventHasItsDetails
PROPERTY DeliveredAsConfigured
