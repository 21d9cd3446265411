SPECIFICATION Spec
CONSTANTS
    init = init
    first = first
    child = child
    Task <- MCTask
    InitTask = init
    FirstTask = first
    NoTask = NoTask
    UserStack = {1}
    Addr = {1, 2}
    LastPC = 2
    MaxNesting = 2
INVARIANT
    AbortArguments
CHECK_DEADLOCK FALSE
