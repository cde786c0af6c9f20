SPECIFICATION Spec
CONSTANTS
    t1 = t1
    t2 = t2
    Tenant = {t1, t2}
    Section = {a}
    Body = {b1}
    Sub = {x, y, z}
    Dom = {d}
    Req = {r1, r2}
    Ops <- PublishingOps
    None = None
SYMMETRY Symmetry
INVARIANTS
    TypeOK
    PublishedHasRevision
    StatusAgrees
