\* Two workers, two connections, two requests; the bound stops the system.
SPECIFICATION Spec
CONSTANTS
    Worker = {w1, w2}
    Session = {s1, s2}
    ClientId = {c1}
    Uuid = {u1, u2}
    MaxRequests = 2
    None = None
SYMMETRY MCSymmetry
CHECK_DEADLOCK FALSE
INVARIANTS
    TypeOK
    InlineLinesOwn
    GeneratedIdAnnounced
