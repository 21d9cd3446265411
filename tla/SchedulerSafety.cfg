SPECIFICATION Spec
CONSTANTS
    init = init
    t1 = t1
    t2 = t2
    Task <- MCTask
    InitTask = init
    NoTask = NoTask
    NumberOfTasksC = 3
    Priority = 1
    AllocationMayFail = TRUE
    MinCounter <- MCMinCounter
    MaxCounter = 3
    MaxNesting = 1
    MaxGuardTicks = 2
SYMMETRY MCSymmetry
INVARIANTS
    GuardDiscipline
    SuspendedInsideGuard
    CurrentOwnsStack
    ProcessIDsUnique
    NewTaskHasSlot
    UserRunsOnOwnTables
    RunningCounterBounded
    IrqMaskedOnlyAtReturn
    IInv
PROPERTIES
    ZombieNeverResumed
    ImplementsTaskSwitching
CHECK_DEADLOCK FALSE
