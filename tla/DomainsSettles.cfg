SPECIFICATION FairSpec
CHECK_DEADLOCK FALSE
CONSTANTS
    t1 = t1
    t2 = t2
    d1 = d1
    d2 = d2
    r1 = r1
    r2 = r2
    Tenant = {t1}
    Dom = {d1}
    Claim <- OneClaim
    Early = {}
    Calls <- SettlesCalls
    Ageing <- OneClaim
    Leaving = {t1}
    MaxDomains = 1
    Attempts = 2
    Req = {r1}
    Job = {j1, j2}
    None = None
INVARIANTS
    PendingIsChased
PROPERTIES
    JobSettles
