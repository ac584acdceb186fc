\* Two refreshes, a request, renewals and replacements; one period.
CONSTANTS
    q1 = q1
    q2 = q2
    r1 = r1
    Query = {q1, q2}
    Request = {r1}
    NoLease = NoLease
    DeadLease = DeadLease
    NoOperation = NoOperation
    MaxPeriod = 0
    MaxConsumed = 0
    MaxRevision = 2
    MaxCredential = 2
SPECIFICATION Spec
SYMMETRY Symmetry
INVARIANTS
    RefreshingIsOwned
    RevisionsDistinct
    ReadyIsCurrent
CHECK_DEADLOCK FALSE
