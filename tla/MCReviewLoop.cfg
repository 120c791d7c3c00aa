SPECIFICATION Spec
CONSTANTS
    None = None
    Candidates = {c1, c2}
    Helpers = {h1}
    Fingerprints <- MCFingerprints
    Turns <- MCTurns
    MaxRevisions = 2
    MaxSameDefectRounds = 1
    MaxModelTurns = 5
    MaxToolCalls = 2
    MaxCount = 7
INVARIANTS
    PublishedWasAccepted
    BillIsComplete
PROPERTIES
    LoopEnds
