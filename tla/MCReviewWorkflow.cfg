CONSTANTS
    rq1 = rq1
    rq2 = rq2
    rq3 = rq3
    ag1 = ag1
    ag2 = ag2
    None = None
    Requests <- MCTwoRequests
    MaxProposals = 2
    MaxCase = 2
    InitialCases <- MCInitialCases
    Agents <- MCTwoAgents
    Attempts = 1
    MaxStarts = 1
SPECIFICATION Spec
INVARIANTS
    DecisionMatchesSuite
    ProcessingHasJob
    NoDeadEnd
PROPERTIES
    ClosedStaysClosed
    FreshIdsWhenGiven
SYMMETRY MCSymmetry
CHECK_DEADLOCK FALSE
