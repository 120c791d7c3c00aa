SPECIFICATION ControllerSpec
CONSTANTS
    search = search
    fetch = fetch
    Tools = {search, fetch}
    MaxModelTurns = 1
    MaxToolCalls = 3
    MaxCallsPerTool = 2
    MaxWallTime = 5
    MaxIdleTime = 3
    MaxToolTime = 2
    MaxToolOutputBytes = 2
    MaxElapsed = 6
    NoTool = NoTool
CHECK_DEADLOCK FALSE
INVARIANTS
    WithinCeilings
    EveryCallClosedOnce
PROPERTIES
    TimeoutIsEarliest
