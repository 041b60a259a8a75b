SPECIFICATION Spec
CONSTANTS
    Peer = {p1, p2}
    NoPeer = none
INVARIANTS NeverLegacy RemovedWhole HealthyWhole
PROPERTIES OthersKept GoneForGood
