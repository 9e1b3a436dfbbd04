SPECIFICATION Spec
CONSTANTS
    Regions <- MCRegions
    Arguments <- MCArguments
    MaxRegions = 2
    Words = 16
    PATCH_CONTENT_SIZE = 8
    PATCH_NUM_BLOCKS = 3
    READ_LATENCY = 4
    CAM_WRITE = 3
    CONFIG_GAP = 2
    MinGap = 3
    MaxStrobes = 5
    BurstAddrs = {4, 11, 15}
    MaxSessions = 2
    LaterArguments <- MCLaterArguments
    KeptBases = {6}
    KeptLoads = {13, 16}
INVARIANTS BlocksCover InjectedRight PatchNeverMissed OthersUntouched
CHECK_DEADLOCK FALSE
