SPECIFICATION FairSpec
CONSTANTS
    n1 = n1
    n2 = n2
    c1 = c1
    c2 = c2
    c3 = c3
    Nodes = {n1, n2}
    Calls = {c1, c2, c3}
    Owner <- MCOwner
    Journaled = {c1}
    Entry = n1
    MaxSteps = 2
    MaxToolCalls = 2
    MaxResumes = 1
    Faults = {"crash", "io"}
INVARIANTS
    AlwaysResumable
    ReportedIsDurable
    WithinToolCalls
PROPERTIES
    EffectOnlyWhilePending
    CommandReturns
