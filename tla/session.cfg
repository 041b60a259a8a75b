SPECIFICATION FairSpec
CONSTANTS
    MaxSession = 2
    MaxId = 1
    MaxEpoch = 1
    Nonce = {n1}
    Content = {c1}
    Command = {"report", "transition"}
INVARIANTS OwnersTold
PROPERTIES PerformedOnce PerformedInOrder NoStrayRevocation FailureHonoured
