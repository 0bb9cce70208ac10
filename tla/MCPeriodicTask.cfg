SPECIFICATION FairSpec
CONSTANTS
    Ids <- MCIds
    MaxTries = 1
    MaxStarts = 2
    MaxFailures = 1
INVARIANTS
    ChainsAccounted
    NoSilentEnd
PROPERTIES
    KeepsRefreshing
\* The process may have started as often as it can.
CHECK_DEADLOCK FALSE
