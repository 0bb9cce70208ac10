SPECIFICATION FairSpec
CONSTANTS
    r1 = r1
    r2 = r2
    r3 = r3
    k1 = k1
    k2 = k2
    Requests <- MCRequests
    Keys <- MCKeys
    KeyOf <- MCKeyOf
    Window = 1
    MaxRetries = 2
    MaxFailures = 1
    Listed = 1
INVARIANTS
    SequentialRequestsOnce
    RetriedOnlyAfterError
    StatusTellsOutcome
PROPERTIES
    RetryingIsEnqueued
\* All requests may have ended, and all be listed.
CHECK_DEADLOCK FALSE
