SPECIFICATION EngineSpec
CONSTANTS
    Half = 6
    TsMax = 3
    BurstMax = 7
    READ_LATENCY = 4
    WRITE_LATENCY = 3
    MaxLatchRun = 3
    MaxTraced = 9
INVARIANTS TypeOK ClockAccounting AtMostOneWrap WordLag
