SPECIFICATION GatewayOrBufferSpec
CONSTANTS
    r1 = r1
    r2 = r2
    r3 = r3
    a1 = a1
    a2 = a2
    l1 = l1
    l2 = l2
    s1 = s1
    Requests <- MCRequests
    Asks <- MCAsks
    Alerts <- MCAlerts
    Severe <- MCSevere
    None = None
    MaxTries = 2
    MaxLost = 2
    Records <- MCRecords
    Loops <- MCLoops
    Stoppers <- MCStoppers
    BufferSize = 2
SYMMETRY Symmetry
\* Requests may have ended, and a process that has ended takes no step.
CHECK_DEADLOCK FALSE
INVARIANTS
    ResponseTellsOutcome
    FiresAreCounted
    RecordInOnePlace
    NoLostWakeup
    StopLeavesNothingDue
