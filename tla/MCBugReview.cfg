SPECIFICATION Spec
CONSTANTS
    Claims <- MCClaims
    First <- MCFirst
    KeyOf <- MCKeyOf
    Actions = {"accept", "edit"}
    Confirmed = {"c1"}
    MaxBugs = 2
    MaxRuns = 1
    MaxDecisions = 2
    Doubtful = Doubtful
    None = None
INVARIANTS
    DecisionKept
    HistoryMatches
PROPERTIES
    DecidesWhatWasShown
CHECK_DEADLOCK FALSE
