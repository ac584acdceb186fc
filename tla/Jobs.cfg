\* Two instances. The daily job: two requests, two days, headers without a limit. A login:
\* three callbacks. The scan: one account, a lease of two instants and five of them. A start:
\* of every version.
CONSTANTS
    Request = {r1, r2}
    Instance = {i1, i2}
    NoHolder = NoHolder
    Absent = Absent
    MaxDay = 2
    MaxPeriod = 2
    MaxCredential = 2
    MaxCost = 1
    MaxLimit = 0
    Callback = {c1, c2, c3}
    Nobody = Nobody
    Balances = {a1}
    OldHolder = OldHolder
    Interval = 3
    Lease = 2
    Duration = 1
    Horizon = 5
SPECIFICATION EachSpec
SYMMETRY Symmetry
INVARIANTS
    EachTypeOK
    EveryUseCounted
    OneLogin
    OneScan
    SchemaWhole
PROPERTIES
    CountersForward
CHECK_DEADLOCK FALSE
