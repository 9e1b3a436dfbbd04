SPECIFICATION FairSpec
CONSTANTS
    NumWords = 16
    MaxWritesPerRead = 1
    MaxRequests = 4
INVARIANTS TypeOK NoTornResponse
PROPERTY ImplementsMailbox
CHECK_DEADLOCK FALSE
