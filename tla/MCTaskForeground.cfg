SPECIFICATION ServiceSpec
CONSTANTS
    m1 = m1
    m2 = m2
    s1 = s1
    Rows <- MCThreeRows
    Manual <- MCTwoManual
    Limit = 2
    MaxFailures = 1
INVARIANTS
    TypeOK
    SingleFlight
    ShutdownDrains
PROPERTIES
    OwnerEndsRow
    ImplementsLifecycle
    QueuedRunAdvances
    ShutdownStopsClaims
CHECK_DEADLOCK FALSE
