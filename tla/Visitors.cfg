SPECIFICATION Spec
CHECK_DEADLOCK FALSE
CONSTANTS
    t1 = t1
    t2 = t2
    r1 = r1
    r2 = r2
    Tenant = {t1, t2}
    Leaving = {t1}
    Inquiry = {q1}
    View = {v1, v2}
    Visitor = {p1, p2}
    Req = {r1, r2}
    Workloads <- VisitorsWorkloads
    Attempts = 2
    PruneAfter = 2
    MaxDay = 3
    None = None
SYMMETRY Symmetry
INVARIANTS
    TypeOK
    InquiryIsMailed
    StatsKeepTheCount
