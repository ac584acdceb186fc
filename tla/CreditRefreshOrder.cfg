\* One refresh after another, with answers of any period and total, against a gateway
\* that drops /tokens now and then, around a request and a new credential.
CONSTANTS
    q1 = q1
    r1 = r1
    Query = {q1}
    Request = {r1}
    NoLease = NoLease
    DeadLease = DeadLease
    NoOperation = NoOperation
    MaxPeriod = 2
    MaxConsumed = 1
    MaxRevision = 4
    MaxCredential = 2
SPECIFICATION Spec
INVARIANTS
    TypeOK
PROPERTIES
    SnapshotOrder
    TokensAuthoritative
    SnapshotKept
CHECK_DEADLOCK FALSE
