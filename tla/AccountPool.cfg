\* Two requests, the refresh loop and a handler that refreshes, one replaced credential.
CONSTANTS
    r1 = r1
    r2 = r2
    f1 = f1
    f2 = f2
    Request = {r1, r2}
    Refresher = {f1, f2}
    Gone = Gone
    MaxCredential = 2
    MaxHealth = 3
    Horizon = 1
SPECIFICATION FairSpec
INVARIANTS
    TypeOK
    CacheIsTrue
PROPERTIES
    FailuresStand
    CacheMovesForward
    CacheCatchesUp
CHECK_DEADLOCK FALSE
