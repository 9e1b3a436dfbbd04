SPECIFICATION Spec
CONSTANTS
    Files <- MCFiles
    Limits <- MCLimits
    BufSize = 6
    MemSize = 32
INVARIANTS LossBounded OpsAreBursts GoodFileDecoded
PROPERTY Terminates
CHECK_DEADLOCK FALSE
