CONSTANTS
    P_SRAM_ADDR_W = 2
    P_ARB_LEN = 4
    Word = {0, 1}
    StWord = {0}
    MmAddr = {0}
    MmOps = {"rd", "wr"}
SPECIFICATION MCSpec
INVARIANTS NoSpuriousAck MmWriteLands MmReadServed
