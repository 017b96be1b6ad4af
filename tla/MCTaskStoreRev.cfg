SPECIFICATION FairSpec
CONSTANTS
    NumTasks = 1
    MaxRevision = 2
    MaxTime = 4
    MaxRollbacks = 1
    MaxManual = 0
    LeaseDuration = 1
    Grace = 0
    GlobalLimit = 1
    Trigger <- MCOneTrigger
    Policy <- MCOnePolicy
INVARIANTS
    TypeOK
    EvidenceMatches
    AtMostOneAttempt
    WindowAccounted
    ExpiredSettleable
PROPERTIES
    FinishedForever
    SettlesUnlessRevised
CHECK_DEADLOCK FALSE
