SPECIFICATION FairSpec
CONSTANTS
    t1 = t1
    t2 = t2
    Threads <- MCThreads
    Backends = 1
    MaxCalls = 3
    None = None
INVARIANTS
    StatsAreCurrent
    CopiesAreCurrent
    TornOnlyByRefresh
PROPERTIES
    MonotonicAnswers
    CallsReturn
\* All calls may have been made.
CHECK_DEADLOCK FALSE
