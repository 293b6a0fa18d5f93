SPECIFICATION BridgeSpec
CONSTANTS
    CmdCap = 2
    EvtCap = 3
    HasPane = FALSE
    IdSpace = 2
    UiCommands = {"Prompt", "Cancel", "ContextReport", "PanelsReport", "SetModel", "ModelsFetch", "Rebuild", "Reload"}
    SubmitCap = 2
    Lines = {"Prompt"}
    TypeAhead = TRUE
INVARIANT NoDeadlock
