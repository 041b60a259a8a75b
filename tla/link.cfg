SPECIFICATION LinkSpec
CONSTANTS
    MaxSession = 2
    MaxId = 1
    MaxEpoch = 1
    Nonce = {1, 2}
    MaxNonce = 2
    MaxCalls = 2
    Content = {c1}
    Command = {"report", "transition"}
    MaxTries = 2
    Capacity = 2
INVARIANTS AnswerOfItsRequest DoneOnce RefusedIsUndone
