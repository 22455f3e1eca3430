CONSTANTS
    ui = ui
    manual = manual
    refresh = refresh
    rq1 = rq1
    rq2 = rq2
    m = m
    r = r
    NoPid = NoPid
    Server = ui
    Pids <- MCPids
    Claims <- MCClaims
    PidOf <- MCPidOf
SPECIFICATION LockSpec
INVARIANTS
    ExclusionUnlessStaleOrNested
    LockCoversWork
