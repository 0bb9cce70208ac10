SPECIFICATION Spec
CONSTANTS
    r1 = r1
    u1 = u1
    None = None
    Generated = Generated
    Requests = {r1}
    Users = {u1}
    Custom <- MCCustom
    Intents <- MCIntents
    Texts <- MCTexts
    MaxSessions = 2
    MaxPools = 3
    MaxDeletions = 1
    Budget = 10
INVARIANTS RoutedByKeyword OnlyWhatIsPermitted ToolsKeepTheirName
\* The request may have ended, and nothing be left to change.
CHECK_DEADLOCK FALSE
