SPECIFICATION Spec
CONSTANTS
    r1 = r1  r2 = r2  r3 = r3
    i1 = i1  i2 = i2
    n1 = n1  n2 = n2
    Requests = {r1, r2, r3}
    Ids = {i1, i2}
    Names = {n1, n2}
    MaxRestarts = 1
    None = None
SYMMETRY Symmetry
INVARIANTS EditsAreKept TablesAgree
PROPERTIES RemovalIsFinal
