SPECIFICATION TraversalSpec
CONSTANTS
    N = 5
    Loops = {}
    MaxEdges = 5
    Weights = {}
    Important = {}
    Conditions = {}
    MaxPaths = 1
INVARIANT TraversalIsComplete
