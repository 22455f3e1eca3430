CONSTANTS
    rq1 = rq1
    rq2 = rq2
    rq3 = rq3
    ag1 = ag1
    ag2 = ag2
    None = None
    Requests <- MCOneRequest
    MaxProposals = 2
    MaxCase = 2
    InitialCases <- MCInitialCases
    Agents <- MCTwoAgents
    Attempts = 2
    MaxStarts = 1
SPECIFICATION FairSpec
PROPERTY ProcessingEnds
CHECK_DEADLOCK FALSE
