SPECIFICATION Spec
CONSTANTS
    User = {u1}
    Sid = {s1, s2, s3}
    Req = {r1, r2}
    None = None
    MaxEvents = 0
SYMMETRY Symmetry
INVARIANTS
    ReuseRevokesEverythingSpawned
CHECK_DEADLOCK FALSE
