SPECIFICATION Spec
CONSTANTS
    Configurations <- MCProfile
    Replies <- MCOneReply
    PathParams <- MCPathParams
    MaxCandidates = 2
    FailuresToAbort = 3
INVARIANT OwnDataOnly
