SPECIFICATION Spec
CONSTANTS
    ReadWord <- MCReadWord
    GivenAddress <- MCGivenAddress
INVARIANTS
    GettersReturnLast
    OtherBitsKept
    VisitedAsItself
CHECK_DEADLOCK FALSE
