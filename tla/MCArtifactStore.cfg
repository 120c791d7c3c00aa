SPECIFICATION Spec
CONSTANTS
    p1 = p1
    p2 = p2
    c1 = c1
    i1 = i1
    i2 = i2
    i3 = i3
    Procs = {p1, p2}
    Contents = {c1}
    MaxCapability = 3
    Inodes = {i1, i2, i3}
    Policies = {"ExpiresAt"}
    Faults = {"write", "unlink", "crash", "power", "foreign", "teardown"}
    NoInode = NoInode
    NoContent = NoContent
SYMMETRY StoreSymmetry
VIEW WhatMatters
CHECK_DEADLOCK FALSE
INVARIANTS
    VisibleIsWhole
    ConfirmedSurvives
