SPECIFICATION BridgeSpec
CONSTANTS
    CmdCap = 1
    EvtCap = 1
    HasPane = FALSE
    IdSpace = 2
    UiCommands = {"Prompt", "Cancel", "ContextReport", "PanelsReport", "SetModel", "ModelsFetch", "Rebuild", "Reload"}
    SubmitCap = 1
    Lines = {"Prompt", "Provider", "Exit"}
    TypeAhead = TRUE
PROPERTIES
    Spec
