SPECIFICATION Spec
CONSTANTS
    User = {u1}
    Sid = {s1, s2, s3}
    Req = {r1, r2}
    None = None
    MaxEvents = 1
SYMMETRY Symmetry
INVARIANTS
    ReplacedByOwnChild
    CredentialChangeCutsOff
    OneLiveToken
    ReuseKillsLineage
PROPERTIES
    ImplementsLifecycle
CHECK_DEADLOCK FALSE
