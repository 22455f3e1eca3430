SPECIFICATION Spec
CONSTANTS
    Locations <- MCLocations
    Views <- MCViews
    Page <- MCPage
    Shows <- MCShows
    Links <- MCLinks
    Says <- MCSays
    Leads <- MCLeads
    Entry = "form"
    Origin <- MCOrigin
    AuxOrigins <- MCAuxOrigins
    Unsafe <- MCUnsafe
    NoView = "none"
    MaxLocations = 2
    MaxStates = 4
    MaxPerLocation = 3
    MaxActions = 2
    MaxNavigation = 5
    MaxObservations = 1
    MaxActed = 3
    Attempts = 2
INVARIANTS NothingDropped RulesSatisfiable
PROPERTIES OutcomesSeen FlowAnswered ContinuationFollowed
CHECK_DEADLOCK FALSE
