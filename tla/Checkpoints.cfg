SPECIFICATION FairSpec
CONSTANTS
    Contents = {a, b}
    Absent = Absent
    MaxIds = 2
    MaxCheckpoints = 1
    MaxForeign = 1
    MaxFaults = 2
INVARIANTS
    PreimageSurvives
    ClassifiedTruly
PROPERTIES
    ImplementsEditLog
    MutationEnds
CHECK_DEADLOCK FALSE
