SPECIFICATION FairSpec
CONSTANTS
    NumTransfers = 3
    PacketsPerTransfer = 2
    MaxBlocks = 3
INVARIANTS DeliveredInOrder PoolConserved
PROPERTY CaptureEnds
CHECK_DEADLOCK FALSE
