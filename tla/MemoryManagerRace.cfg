SPECIFICATION Spec
CONSTANTS
    first = first
    t1 = t1
    t2 = t2
    Task <- MCTwoTasks
    FirstTask = first
    PageCount = 26
    Entries = 2
    VA <- MCVA
    ConcurrentFaults = TRUE
INVARIANT
    ChosenPageIsUnused
CHECK_DEADLOCK FALSE
