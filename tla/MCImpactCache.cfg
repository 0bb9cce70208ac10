SPECIFICATION ImpactSpec
CONSTANTS
    s1 = s1
    s2 = s2
    r1 = r1
    c1 = c1
    None = None
    Services = {s1, s2}
    Graphs <- MCGraphs
    Runs = {r1}
    Calls = {c1}
    About <- MCAbout
    BatchSizes = {1, 2}
    MaxRefreshes = 2
    MaxInvalidations = 1
INVARIANTS StaleOnlyIfOvertaken BatchAccounts
PROPERTIES PrecomputeReturns
\* The runs and the call may have ended.
CHECK_DEADLOCK FALSE
