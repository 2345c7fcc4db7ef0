CONSTANTS
    Workers = {w1}
    NoWorker = NoWorker
    Requests <- MCLowRequests
    InitGovernance = {"empty"}
    InitConsents = {{}}
    InitPostures = {2}
    SetupAdapters = {"mock_adapter"}
    TokenTTL = 0
    MaxClock = 0
    MaxStops = 0
    MaxIntegrityChanges = 0
SPECIFICATION Spec
INVARIANT
    GovernanceFailClosed
