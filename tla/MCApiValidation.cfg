SPECIFICATION Spec
CONSTANTS
    Configurations <- MCConfigurations
    Replies <- MCReplies
    PathParams <- MCPathParams
    MaxCandidates = 2
    FailuresToAbort = 3
INVARIANTS PolicyKept StopsWhenTold EvidenceEarned Accounted
