SPECIFICATION QuerySpec
CONSTANTS
    N = 4
    Loops = {1}
    MaxEdges = 5
    Weights = {1, 3}
    Important = {2}
    Conditions <- MCConditions
    MaxPaths = 4
    Services = {1, 2, 3, 4}
    Graphs <- MCGraphs
    Root = 1
    Limit = 2
    MaxRebuilds = 1
    MaxRepeats = 1
    Namespaces = {"n1", "n2"}
    Objects <- MCObjects
    MaxChanges = 1
    MaxErrors = 1
    MaxRuns = 2
INVARIANTS
    ReachIsFound
    PathsAreFound
    StructureIsFound
    ImpactIsOfItsTime
    NothingLost
    GraphIsOfCluster
    RowsFollowGraph
