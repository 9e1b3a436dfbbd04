SPECIFICATION FairSpec
CONSTANTS
    BUF_SIZE = 3
    MaxPackets = 5
    MaxSent = 24
    NumCommands = 3
    BadCommands <- MCBadCommands
INVARIANTS SentInOrder NoSilentLoss CommandsInOrder
PROPERTIES ImplementsChannel BothDirectionsFlow
