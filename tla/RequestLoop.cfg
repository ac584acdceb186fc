\* Two accounts, one with tokens and one with a key; the others never come to rest.
CONSTANTS
    a1 = a1
    a2 = a2
    Account = {a1, a2}
    OAuth = {a1}
    Priority = {0}
    MaxAttempts = 2
SPECIFICATION FairSpec
INVARIANTS
    TypeOK
    AskedOnce
    RefusalJustified
    BlameJustified
PROPERTIES
    RequestEnds
CHECK_DEADLOCK FALSE
