SPECIFICATION Spec
CONSTANTS
    NumTransfers = 2
    PacketsPerTransfer = 2
    MaxBlocks = 3
PROPERTY StopsWhenTold
CHECK_DEADLOCK FALSE
