CONSTANTS
    Workers = {w1, w2}
    NoWorker = NoWorker
    Requests <- MCLowRequests
    InitGovernance = {"rules"}
    InitConsents = {{}}
    InitPostures = {2}
    SetupAdapters = {"mock_adapter"}
    TokenTTL = 0
    MaxClock = 0
    MaxStops = 1
    MaxIntegrityChanges = 0
SPECIFICATION Spec
INVARIANT
    StopSweepComplete
