SPECIFICATION FairSpec
CONSTANTS
    r1 = r1
    r2 = r2
    l1 = l1
    l2 = l2
    s1 = s1
    s2 = s2
    Records <- MCRecords
    Loops <- MCLoops
    Stoppers <- MCStoppers
    BufferSize = 2
PROPERTIES
    BufferedIsFlushed
    ImplementsSink
\* A process that has ended takes no step.
CHECK_DEADLOCK FALSE
