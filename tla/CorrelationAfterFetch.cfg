\* The default single worker and two interleaved requests.
SPECIFICATION Spec
CONSTANTS
    Worker = {w1}
    Session = {s1, s2}
    ClientId = {c1}
    Uuid = {u1, u2}
    MaxRequests = 2
    None = None
SYMMETRY MCSymmetry
CHECK_DEADLOCK FALSE
INVARIANTS
    LinesOwn
