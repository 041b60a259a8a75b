SPECIFICATION FairSpec
CONSTANTS
    GenerationModulus = 2
    QueueDepth = 1
    FaultReason = {"diagnostic"}
    FaultContext = {"task"}
    Command = {"attach", "detach"}
    StopsMidCallback = TRUE
INVARIANTS OneCommand NotInstalledAbsent
PROPERTIES GuardReleased
