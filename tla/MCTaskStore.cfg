SPECIFICATION Spec
CONSTANTS
    NumTasks = 2
    MaxRevision = 1
    MaxTime = 4
    MaxRollbacks = 0
    MaxManual = 1
    LeaseDuration = 1
    Grace = 0
    GlobalLimit = 1
    Trigger <- MCTrigger
    Policy <- MCPolicy
INVARIANTS
    CapacityRespected
    PlanFitsCapacity
PROPERTIES
    ImplementsLifecycle
CHECK_DEADLOCK FALSE
