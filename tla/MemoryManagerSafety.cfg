SPECIFICATION Spec
CONSTANTS
    first = first
    t1 = t1
    t2 = t2
    Task <- MCTask
    FirstTask = first
    PageCount = 26
    Entries = 2
    VA <- MCVA
    ConcurrentFaults = FALSE
SYMMETRY MCSymmetry
INVARIANTS
    PagesHaveOneUse
    BitsetExact
    TablesMatchBooks
    ForkCopiesMemory
PROPERTIES
    MemoryIsPrivate
CHECK_DEADLOCK FALSE
