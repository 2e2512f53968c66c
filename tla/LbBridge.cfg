CONSTANTS
    Target = {"acortex_blk", "sram_ctrl", "fgyrus"}
    Val = {0, 1}
    XtnDepth = 2
    MaxReads = 2
SPECIFICATION FairSpec
INVARIANTS BridgeInv
PROPERTIES RegBusSpec BusAnswers
