\* Two requests in two instances, one interruption, one login or two refreshes.
CONSTANTS
    c1 = c1
    c2 = c2
    i1 = i1
    i2 = i2
    Caller = {c1, c2}
    Instance = {i1, i2}
    HostOf <- OwnHosts
    NoLease = NoLease
    DeadLease = DeadLease
    MaxGrant = 3
    MaxInterruptions = 1
SPECIFICATION Spec
SYMMETRY Symmetry
INVARIANTS
    TypeOK
    SpentOnce
    StoredTokenUsable
PROPERTIES
    TokensSucceedTheirParent
    LoginAskedForTheseTokens
CHECK_DEADLOCK FALSE
