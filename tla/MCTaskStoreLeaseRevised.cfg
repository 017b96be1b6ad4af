SPECIFICATION FairSpec
CONSTANTS
    NumTasks = 1
    MaxRevision = 2
    MaxTime = 3
    MaxRollbacks = 0
    MaxManual = 1
    LeaseDuration = 1
    Grace = 0
    GlobalLimit = 1
    Trigger <- MCOneTrigger
    Policy <- MCOnePolicy
PROPERTIES
    ExpiredLeaseSettles
CHECK_DEADLOCK FALSE
