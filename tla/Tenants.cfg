SPECIFICATION Spec
CONSTANTS
    u1 = u1
    u2 = u2
    r1 = r1
    r2 = r2
    User = {u1, u2}
    Sub = {x, y, z}
    Dom = {d}
    Slug = {x, y}
    Probes = 2
    Req = {r1, r2}
    Calls <- TenantsCalls
    Leaving = {u2}
    None = None
INVARIANTS
    AnswerIsStored
PROPERTIES
    NoAddressLost
