SPECIFICATION FairSpec
CONSTANTS
    MaxGeneration = 3
    RuntimeFaults = TRUE
    Watchdog = TRUE
\* A faulted system stops until it is reset.
CHECK_DEADLOCK FALSE
INVARIANTS
    TypeOK
    Owned
    NoStaleRoute
    RetiresExactly
PROPERTY
    GateReopens
