CONSTANTS
    Postures = {0, 1, 2, 3, 4, 5}
    OutputLens = {0, 4, 8}
    Budgets = {0, 6}
SPECIFICATION Spec
INVARIANTS
    DecideMatchesSpec
    EgressContract
    PostureGraduated
