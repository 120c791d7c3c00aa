SPECIFICATION FairSpec
CONSTANTS
    None = None
    Nodes = {"a", "b"}
    MaxStep = 2
    MaxTurns = 2
    MaxRestarts = 2
CHECK_DEADLOCK FALSE
INVARIANTS
    AnsweredFromItsPrefix
    AlwaysRecoverable
PROPERTIES
    CallsReturn
