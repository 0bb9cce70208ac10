SPECIFICATION Spec
CONSTANTS
    r1 = r1  r2 = r2  r3 = r3
    n1 = n1  n2 = n2
    e1 = e1  e2 = e2
    x1 = x1
    k1 = k1  k2 = k2
    Requests = {r1, r2, r3}
    Names = {n1, n2}
    Emails = {e1, e2}
    Roles = {x1}
    Keys = {k1, k2}
    None = None
SYMMETRY Symmetry
INVARIANTS EditsAreKept AnswersTell
PROPERTIES RevokedStaysRevoked
