SPECIFICATION Spec
CONSTANTS
    Suites <- MCSuites
    InitialSuite = "s0"
    IdsOf <- MCIdsOf
    MaxRuns = 2
    None = None
INVARIANTS
    CurrentIsDerived
PROPERTIES
    RefreshIsAllOrNothing
CHECK_DEADLOCK FALSE
