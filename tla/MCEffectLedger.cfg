SPECIFICATION FairSpec
CONSTANTS
    h1 = h1
    h2 = h2
    k1 = k1
    d1 = d1
    d2 = d2
    alice = alice
    slot1 = slot1
    rule1 = rule1
    rule2 = rule2
    Hosts = {h1, h2}
    Keys = {k1}
    Digests = {d1, d2}
    Approvers = {alice}
    Slots = {slot1}
    Rules = {rule1, rule2}
    Requests <- RenewedRequests
    HandlerFuel = 2
    MaxTime = 2
    NoHost = NoHost
    NoDigest = NoDigest
    NoRule = NoRule
INVARIANTS
    HistoryNeverCorrupt
    CommittedIsReal
PROPERTIES
    NoLateDispatch
    ImplementsLifecycle
    CallReturns
