SPECIFICATION Spec
CONSTANTS
    init = init
    first = first
    child = child
    Task <- MCTask
    InitTask = init
    FirstTask = first
    NoTask = NoTask
    UserStack = {1}
    Addr = {1}
    LastPC = 2
    MaxNesting = 2
INVARIANTS
    FirstFrameIsUser
    EretReturnsToFrame
PROPERTIES
    ImplementsUserMachine
CHECK_DEADLOCK FALSE
