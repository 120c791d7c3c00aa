SPECIFICATION Spec

CONSTANTS
    p1 = p1
    p2 = p2
    i1 = i1
    i2 = i2
    None = None
    Procs <- MCProcs
    Ids <- MCIds
    Attempts = 2
    MaxStarts = 2
    MaxResumes = 1
    MaxSaves = 2
    MaxKills = 1
    MaxLosses = 2

SYMMETRY Symmetry
INVARIANTS
    PublishedIsResumable
    VisibleMeansComplete
