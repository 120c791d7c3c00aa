SPECIFICATION FairSpec
CONSTANTS
    None = None
    Offers <- AllOffers
    MaxCandidates = 2
    MaxRetries = 1
    MaxOutput = 1
    MaxFrames = 2
    MaxCalls = 2
CHECK_DEADLOCK FALSE
INVARIANTS
    SessionIsATranscript
    AskedWasAuthorized
PROPERTIES
    CallEnds
