SPECIFICATION FairSpecSite
CONSTANTS
    t1 = t1
    Tenant = {t1}
    Section = {a}
    Body = {b1}
    Sub = {x, y}
    Dom = {}
    Req = {r1}
    Fill = {f1}
    Ops <- SiteOps
    Workloads <- SiteWorkloads
    MaxDeletions = 1
    None = None
INVARIANTS
    SiteTypeOK
    ServesOnlyPublished
    InvalidationReaches
PROPERTIES
    CacheConverges
