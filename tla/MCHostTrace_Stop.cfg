SPECIFICATION Spec
CONSTANTS
    Streams <- MCStreams
    HookLen = 2
    MaxBlock = 5
    MaxJunk = 1
    StopAddr = 201
    HasFile = TRUE
INVARIANT StopsOnTouch
CHECK_DEADLOCK FALSE
