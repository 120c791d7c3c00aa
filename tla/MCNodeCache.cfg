SPECIFICATION CacheFairSpec
CONSTANTS
    r1 = r1
    r2 = r2
    o1 = o1
    o2 = o2
    k1 = k1
    Runs = {r1, r2}
    Keys = {k1}
    Outputs = {o1, o2}
    MaxEntries = 0
    Faults = {"crash", "power", "damage", "tmp"}
    Nothing = Nothing
INVARIANTS
    OnlyAccepted
    PromiseSurvives
PROPERTIES
    NodeCompletes
