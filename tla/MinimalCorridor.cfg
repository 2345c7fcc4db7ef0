SPECIFICATION Spec
CONSTANTS
    N = 3
    Principals = {"p1", "p2"}
    TTL = 1
    MaxClock = 3
INVARIANT PipelineReceipts
PROPERTY CSpec
