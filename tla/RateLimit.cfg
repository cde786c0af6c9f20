SPECIFICATION FairSpecLimiter
CONSTANTS
    Limit = 2
    Window = 2
    Resolution = 3
    Hit = {r1, r2, r3}
INVARIANTS
    AtMostTwiceTheLimit
    RetryAfterNearlyKept
    OnlyOrphansLackAnEnd
PROPERTIES
    WindowCloses
