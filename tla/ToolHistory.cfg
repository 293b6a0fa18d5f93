SPECIFICATION Spec
CONSTANTS
    Actions = {read, ghost}
    Registered = {read}
    Allowed = {read}
    Asked = {}
    Gated = {}
    Previewable = {}
    HasResolver = TRUE
    Projected = FALSE
    HostSurface = {read}
    Ticks = FALSE
    ProviderIds = {11}
    Sizes = {1, 3}
    MaxHistoryItems = 4
    MaxHistoryBytes = 6
    MaxToolRounds = 1
    MaxTextEvents = 1
    MaxToolCalls = 2
    MaxRevision = 0
    MaxGrants = 1
INVARIANTS
    TypeOK
    TranscriptValid
    BoundaryIsUser
    RejectedNotCommitted
CHECK_DEADLOCK FALSE
