SPECIFICATION Spec
CONSTANTS
    FPGA_PART = "ours"
    NULL = "NULL"
    Files <- MCFiles
    Whole = 3
    BLOCK_SIZE = 2
    MaxSessions = 2
    MaxJunk = 1
INVARIANT ReconfiguredWhenAsked
CHECK_DEADLOCK FALSE
