SPECIFICATION Spec
CONSTANTS
    first = first
    t1 = t1
    t2 = t2
    Task <- MCTask
    FirstTask = first
    PageCount = 4
    Entries = 2
    VA <- MCVA
    ConcurrentFaults = FALSE
SYMMETRY MCSymmetry
INVARIANT
    MapTableReturnsTable
CHECK_DEADLOCK FALSE
