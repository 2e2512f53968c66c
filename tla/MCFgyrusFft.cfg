CONSTANTS
    P_NO_STAGES = 3
    DivLat = 16
    Gap = 3
    Small = {1, 4, 6}
    AcResets = {0}
    MaxLg = 7
SPECIFICATION MCFairSpec
INVARIANTS EngineInv EngineIsDft
PROPERTIES FrameCompletes
