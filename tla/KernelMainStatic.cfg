SPECIFICATION KernelSpec
CONSTANTS
    PageSize = 2
    PointersPerTable = 4
    Start = 2
    CodePages <- MCCodePages
    PgDirPages = 22
    DeviceBaseAddress = 96
    DeviceSize = 32
    MaxPageCount = 8
    FirmwareLevels = {1, 2, 3}
    FirmwareWords <- MCFirmwareWords
    InitArray <- MCInitArray
    FiniArray <- MCFiniArray
    PointerBytes = 8
    OUTPUT_DEVICE_TREE = TRUE
    Writers = {parent, child}
    FirstWriter = parent
    StringLength <- MCStringLength
    FifoSize = 1
    FirmwareIO <- MCFirmwareIO
    Characters <- MCCharacters
    WordBits = 8
    Pieces <- MCPieces
    UnfinishedTails <- MCUnfinishedTails
    ArgumentLists <- MCArgumentLists
    BufferSizes = {1, 4, 9}
    DTBAddress = 8
    IndentLevels = 8
    StringListNames <- MCStringListNames
    StringNames <- MCStringNames
    UInt32Names <- MCUInt32Names
    Trees <- MCTrees
INVARIANT StaticConstruction
CHECK_DEADLOCK FALSE
