SPECIFICATION FairSpec
CONSTANTS
    a1 = a1
    a2 = a2
    Callers = {a1, a2}
    Calls <- BridgeCalls
    Registration <- FullRegistration
    CallCaps <- ShellCaps
    NeedsApproval <- ReadNeedsApproval
    Grantable <- GrantMail
    Expiries = {1}
    Authority <- FullAuthority
    MaxThreads = 2
    MaxTime = 1
    NoCaller = NoCaller
    NoGrant = NoGrant
INVARIANTS
    OncePerKey
PROPERTIES
    AnswersAreApproved
    LockIsReleased
