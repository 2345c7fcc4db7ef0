\* Well-behaved callers: they may reuse a metadata map but keep no pointer.
SPECIFICATION Spec
CONSTANTS
    Ids = {"a"}
    Contents = {"c1", "c2"}
    Records = {"", "r1", "r2"}
    CallerMaps = {m1}
INVARIANTS
    TypeOK
    VerifiedMeansPromoted

    
