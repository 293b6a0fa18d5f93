SPECIFICATION Spec
CONSTANTS
    Ids = {1, 2}
    Digests = {a, b}
    Readers = {a}
    Executors = {b}
    Authority = {"read"}
    MaxHostCalls = 1
INVARIANTS
    TypeOK
    HostAgrees
    AnswersAreTrue
PROPERTIES
    RebuildKeeps
