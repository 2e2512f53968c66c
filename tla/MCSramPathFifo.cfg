CONSTANTS
    P_SRAM_ADDR_W = 2
    P_ARB_LEN = 4
    Word = {0, 1}
    StWord = {0, 1}
    MmAddr = {}
    MmOps = {"rd"}
SPECIFICATION MCFifoSpec
INVARIANTS TypeOK NoOverrun FlagsExact
PROPERTIES FifoSpec
