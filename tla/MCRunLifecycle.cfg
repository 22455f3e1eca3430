CONSTANTS
    Runs = {r1, r2}
    UIRuns = {r1}
    Watched = {}
    Faulty = {r1}
    NoRun = NoRun
    NStages = 1
    Attempts = 2
    MaxEvents = 1
    ReplayLimit = 2
SPECIFICATION Spec
INVARIANTS
    CancelKept
    ResultIsLastWord
    ArchiveBehindRow
    NoStageOutlivesRun
PROPERTY OneOutcome
CHECK_DEADLOCK FALSE
