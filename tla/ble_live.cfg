SPECIFICATION FairSpec
CONSTANTS
    QueueDepth = 1
    MaxCommands = 2
    MaxEvents = 1
    MaxExpiries = 1
    MaxGeneration = 0
    Initiates = FALSE
PROPERTIES HandoffHonoured GuardReturned
CHECK_DEADLOCK FALSE
