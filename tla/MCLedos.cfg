SPECIFICATION MCSpec
CONSTANTS
    Rates = {2}
    CapDepth = 2
    MaxNacks = 2
    MaxCalls = 2
    LineLen = 6
    MaxArgs = 1
    MaxKeys = 7
    MaxReads = 1
    Half = 8
    HdrBytes = 6
    HdrWords = 2
    MaxWords = 9
    BodyLen = 3
    ExtLen = 2
    PathBytes = {0, 42, 46, 47, 65, 97, 129, 161, 229}
    Capacities = {127, 200, 8185, 8300, 131300, 524411, 4200000}
    Dividable = {40000}
    Shares = {0, 40, 60, 3000}
    AuSizes = {0, 3000, 65536}
    EraseBlocks = {1, 64, 32768}
    Places = {"a", "b"}
    Share = 1
    FilObjs = {"x", "y", "z"}
    WriteMode = 256
    MaxMounts = 2
    IdMod = 4
CHECK_DEADLOCK FALSE
INVARIANTS AudioInv ShellInv RegistersAgree NamesAgree OptionsSound
PROPERTIES DropReturns
