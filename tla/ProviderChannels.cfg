SPECIFICATION Spec
CONSTANTS
    Chars = {"a", "b"}
    Secret <- MCSecret
    Marker = "*"
    Deltas <- MCChannels
    MaxCalls = 2
    Pieces = 1
    MaxChunk = 2
    MaxBytes = 4
    MaxEvents = 3
INVARIANTS
    ReasoningStaysOut
CHECK_DEADLOCK FALSE
