CONSTANTS
    Files <- MixFiles
    MaxAvail = 2
    PcmDepth = 6
    Afull = 1
    MmFiles = {2}
    HostResets = TRUE
SPECIFICATION MCFairSpec
INVARIANTS ParserInv FramesInOrder
PROPERTIES StreamRead
