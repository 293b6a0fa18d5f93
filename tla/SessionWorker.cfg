SPECIFICATION FairSpec
CONSTANTS
    CmdCap = 1
    EvtCap = 1
    HasPane = TRUE
    IdSpace = 2
    UiCommands = {"Prompt", "Cancel", "ModelsFetch", "Reload"}
INVARIANTS
    TypeOK
    ExchangeTable
    OnlyApprovedRan
    IdleIsSettled
    FlushedOnce
    StoppedIsLast
PROPERTIES
    NothingStartsAfterStop
    StopEndsWorker
