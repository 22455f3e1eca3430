CONSTANTS
    Runs = {r1}
    UIRuns = {r1}
    Watched = {r1}
    Faulty = {r1}
    NoRun = NoRun
    NStages = 1
    Attempts = 1
    MaxEvents = 3
    ReplayLimit = 2
SPECIFICATION FairSpec
INVARIANTS
    LogKept
    EndSeen
PROPERTIES
    CancelEnds
    StreamEnds
CHECK_DEADLOCK FALSE
