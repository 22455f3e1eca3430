SPECIFICATION Spec
CONSTANTS
    Phase2Runs = {p1, p2}
    BugIds = {b1}
    Judgements <- MCJudgements
    Analyses <- MCAnalyses
    Paths = {"tests", "spec", "config"}
    Above <- MCAbove
    History <- MCHistory
    MustDescribe = {"tests"}
    FromStages = {4}
    Attempts = 2
    MaxVersion = 2
    None = None
    Torn = Torn
INVARIANTS OnlyApprovedBytes FindingsWereAccepted ContractTraced ProjectionHolds
SYMMETRY MCSymmetry
CHECK_DEADLOCK FALSE
