\* One instance that is never late, one account, three scans.
CONSTANTS
    Instance = {i1}
    Account = {a1}
    NoHolder = NoHolder
    OldHolder = OldHolder
    Interval = 5
    Lease = 2
    Duration = 1
    Horizon = 17
    Punctual = TRUE
SPECIFICATION Spec
INVARIANTS
    RefreshedEveryInterval
CHECK_DEADLOCK FALSE
