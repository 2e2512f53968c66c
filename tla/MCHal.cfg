CONSTANTS
    Alarms = {"jtag", "app"}
    TickMod = 6
    TickRate = 2
    Usec = 4
    JBuf = 3
    JDepth = 2
    JReadMark = 0
    JWriteMark = 1
    JTimeout = 1
    JNever = 5
    MaxHostBytes = 3
    MaxHostMoves = 2
    UBuf = 3
    MaxWire = 4
    MaxFd = 5
    Devices = {"jtag", "uart"}
    Sections = 2
    PWord = 2
    MaxPerf = 5
    HeapStart = 2
    HeapLimit = 22
    Words = {0, 1, 2, 3, 4, 5, 6, 7, 8, 9, 10, 11, 12, 13}
    Layout <- MCLayout
    IntMax = 7
    LoopsPerUs = 2
    HexBase = 4
    HexDigits = 3
    FifoDepth = 2
    MaxFifo = 4
    MaxCalls = 2
    Lines = {0, 1, 2}
    MaxNest = 2
    MaxOps = 4
    IsrOps = 1
    MaxHeapCalls = 4
SPECIFICATION MCSpec
CHECK_DEADLOCK FALSE
INVARIANTS HalInv TimeKept BytesKept IrqInv
PROPERTIES LocksHold CallsReturn
