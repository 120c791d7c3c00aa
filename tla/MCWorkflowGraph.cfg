SPECIFICATION GraphFairSpec
CONSTANTS
    None = None
    Workflows <- AllWorkflows
    Keys = {"k"}
    Selectors = {"x", "y"}
    OtherSelector = "other"
    ConfigLimit = 5
    MaxRuns = 3
    MaxStep = 22
CHECK_DEADLOCK FALSE
INVARIANTS
    VerdictIsReference
    VisitsSurviveResume
    GateBeforeWork
PROPERTIES
    RunEnds
