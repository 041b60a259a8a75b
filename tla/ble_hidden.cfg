SPECIFICATION Spec
CONSTANTS
    QueueDepth = 2
    MaxCommands = 2
    MaxEvents = 1
    MaxExpiries = 0
    MaxGeneration = 1
    Initiates = FALSE
INVARIANTS HiddenTruth
CHECK_DEADLOCK FALSE
