CONSTANTS
    Workers = {w1, w2}
    NoWorker = NoWorker
    Requests <- MCRequests
    InitGovernance = {"rules"}
    InitConsents = {{}}
    InitPostures = {2}
    SetupAdapters = {"mock_adapter"}
    TokenTTL = 0
    MaxClock = 1
    MaxStops = 1
    MaxIntegrityChanges = 1
SPECIFICATION Spec
SYMMETRY WorkerSymmetry
INVARIANTS
    TypeOK
    CorridorOrder
\* PROPERTIES
\*    RequestsComplete
