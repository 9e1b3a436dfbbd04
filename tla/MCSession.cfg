SPECIFICATION FairSpec
CONSTANTS
    FPGA_PART = "ours"
    NULL = "NULL"
    Files <- MCFiles
    Whole = 3
    BLOCK_SIZE = 2
    MaxSessions = 3
    MaxJunk = 1
INVARIANTS FailsOnlyForCause AsAsked TracedFromReset StreamIsClean
PROPERTY SessionProgresses
CHECK_DEADLOCK FALSE
