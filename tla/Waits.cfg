\* Two accounts, two requests that end, a channel of one job; two callers behind one lock,
\* with a lease whose owner may die. No symmetry.
CONSTANTS
    a1 = a1
    a2 = a2
    c1 = c1
    c2 = c2
    host = host
    Account = {a1, a2}
    Caller = {c1, c2}
    Idle = Idle
    Capacity = 1
    Contention = 2
    NoLease = NoLease
    DeadLease = DeadLease
    MaxGrant = 2
    MaxInterruptions = 1
SPECIFICATION EachSpec
INVARIANTS
    TypeOK
    MarksMatchJobs
    NoTriggerLost
PROPERTIES
    EveryTriggerServed
    EveryCallerEnds
CHECK_DEADLOCK FALSE
