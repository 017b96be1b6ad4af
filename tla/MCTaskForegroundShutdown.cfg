SPECIFICATION FairSpec
CONSTANTS
    m1 = m1
    m2 = m2
    s1 = s1
    Rows <- MCRows
    Manual <- MCManual
    Limit = 1
    MaxFailures = 1
PROPERTIES
    ShutdownReturns
CHECK_DEADLOCK FALSE
