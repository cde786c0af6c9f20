SPECIFICATION Spec
CONSTANTS
    t1 = t1
    t2 = t2
    d1 = d1
    d2 = d2
    r1 = r1
    r2 = r2
    Tenant = {t1, t2}
    Dom = {d1, d2}
    Claim <- DomainsClaim
    Early <- DomainsEarly
    Calls <- DomainsCalls
    Ageing <- DomainsAgeing
    Leaving = {}
    MaxDomains = 1
    Attempts = 1
    Req = {r1, r2}
    Job = {j1}
    None = None
INVARIANTS
    TypeOK
    BoundWasProven
    LimitKept
