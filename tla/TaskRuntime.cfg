SPECIFICATION Spec
CONSTANTS
    Steps = {s1}
    Criteria = {c1, c2}
    UserCriteria = {c2}
    EvidenceIds = {e1, e2}
    PlanIds = {p1, p2}
    FlowPlan = p1
    NoPlan = NoPlan
    MaxRevisions = 2
    MaxPlans = 3
CONSTRAINT OneAspect
INVARIANTS
    TypeOK
    CompletedIsProven
    ApprovalIsExact
PROPERTIES
    TerminalIsFinal
CHECK_DEADLOCK FALSE
