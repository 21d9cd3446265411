SPECIFICATION FairSpec
CONSTANTS
    init = init
    t1 = t1
    t2 = t2
    Task <- MCTask
    InitTask = init
    NoTask = NoTask
    NumberOfTasksC = 3
    Priority = 1
    AllocationMayFail = FALSE
    MinCounter <- MCMinCounterLive
    MaxCounter = 3
    MaxNesting = 1
    MaxGuardTicks = 1
PROPERTIES
    RunningTaskRuns
    SchedulingEnds
CHECK_DEADLOCK FALSE
