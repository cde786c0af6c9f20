SPECIFICATION Spec
CHECK_DEADLOCK FALSE
CONSTANTS
    u1 = u1
    i1 = i1
    i2 = i2
    e1 = e1
    e2 = e2
    User = {u1, u2, u3}
    Email = {e1, e2}
    Identity = {i1, i2}
    Profiles <- OAuthProfiles
    Early <- OAuthEarly
    Hop = {h1, h2, h3}
    Code = {c1, c2}
    Req = {r1, r2}
    None = None
SYMMETRY Symmetry
INVARIANTS
    TypeOK
    OneSessionPerCode
    OneAccountPerIdentity
    AccountInReach
