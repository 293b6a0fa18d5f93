SPECIFICATION FairSpec
CONSTANTS
    Cap = 2
    PipeSize = 2
    MaxBytes = 5
INVARIANTS
    OutputIsTrue
    NothingLeft
PROPERTIES
    ToolAnswers
CHECK_DEADLOCK FALSE
