SPECIFICATION Spec
CONSTANTS
    Streams <- MCStreams
    HookLen = 2
    MaxBlock = 5
    MaxJunk = 1
    StopAddr = 201
    HasFile = TRUE
INVARIANTS
    NothingElseLost
    LostByteDetected
    FileIsStream
    Attribution
    HookDispatch
    OverflowIsFatal
CHECK_DEADLOCK FALSE
