SPECIFICATION Spec
CHECK_DEADLOCK FALSE
CONSTANTS
    u1 = u1
    u2 = u2
    r1 = r1
    r2 = r2
    e1 = e1
    e2 = e2
    p1 = p1
    User = {u1, u2}
    Email = {e1, e2}
    Password = {p1, p2}
    Token = {k1, k2}
    Req = {r1, r2}
    Forms <- AccountsForms
    Calls <- AccountsCalls
    None = None
SYMMETRY Symmetry
INVARIANTS
    TypeOK
    VerifiedEmailProven
PROPERTIES
    NoLostUpdate
    TokenOnce
