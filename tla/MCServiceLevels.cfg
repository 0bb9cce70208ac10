SPECIFICATION Spec
CONSTANTS
    r1 = r1
    r2 = r2
    r3 = r3
    i1 = i1
    i2 = i2
    Requests <- MCRequests
    Ids <- MCIds
    Definitions <- MCDefinitions
    Rates = {0, 1, 2}
    Slots = 1
    None = None
SYMMETRY Symmetry
\* Each request makes one call.
CHECK_DEADLOCK FALSE
INVARIANTS
    OrphansAccounted
    AlertsFollowStatus
