\* Two requests whose operations overlap on one account.
CONSTANTS
    q1 = q1
    r1 = r1
    r2 = r2
    Query = {q1}
    Request = {r1, r2}
    NoLease = NoLease
    DeadLease = DeadLease
    NoOperation = NoOperation
    MaxPeriod = 0
    MaxConsumed = 0
    MaxRevision = 3
    MaxCredential = 1
SPECIFICATION Spec
INVARIANTS
    EveryCompletionSupersedes
CHECK_DEADLOCK FALSE
