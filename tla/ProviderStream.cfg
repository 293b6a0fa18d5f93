SPECIFICATION FairSpec
CONSTANTS
    Chars = {"a", "b"}
    Secret <- MCSecret
    Marker = "*"
    Deltas <- MCDeltas
    MaxCalls = 2
    Pieces = 1
    MaxChunk = 2
    MaxBytes = 4
    MaxEvents = 3
INVARIANTS
    ShownIsRedacted
    CredentialIsHidden
    AllOrNothing
    RecordIsTrue
PROPERTIES
    TurnEnds
CHECK_DEADLOCK FALSE
