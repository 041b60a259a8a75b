SPECIFICATION Spec
CONSTANTS
    QueueDepth = 1
    MaxCommands = 2
    MaxEvents = 1
    MaxExpiries = 1
    MaxGeneration = 1
    Initiates = TRUE
INVARIANTS WatchdogHeld
PROPERTIES HiddenQuiet FaultKept
CHECK_DEADLOCK FALSE
