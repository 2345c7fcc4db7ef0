CONSTANTS
    Workers = {w1}
    NoWorker = NoWorker
    Requests <- MCLowRequests
    InitGovernance = {"rules"}
    InitConsents = {{}}
    InitPostures = {2}
    SetupAdapters = {"mock_adapter"}
    TokenTTL = 0
    MaxClock = 0
    MaxStops = 0
    MaxIntegrityChanges = 2
SPECIFICATION Spec
INVARIANT
    IntegrityRespected
