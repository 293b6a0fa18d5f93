SPECIFICATION FairSpec
CONSTANTS
    Actions = {edit, read}
    Registered = {edit, read}
    Allowed = {read}
    Asked = {edit}
    Gated = {edit}
    Previewable = {edit}
    HasResolver = TRUE
    Projected = TRUE
    HostSurface = {}
    Ticks = TRUE
    ProviderIds = {11}
    Sizes = {1}
    MaxHistoryItems = 2
    MaxHistoryBytes = 9
    MaxToolRounds = 2
    MaxTextEvents = 1
    MaxToolCalls = 1
    MaxRevision = 1
    MaxGrants = 1
INVARIANTS
    ApprovalsSpentOnce
    RoundsBounded
PROPERTIES ResponseEnds
CHECK_DEADLOCK FALSE
