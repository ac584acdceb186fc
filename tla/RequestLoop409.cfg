\* What the Messages loop says of error 409.
CONSTANTS
    a1 = a1
    a2 = a2
    Account = {a1, a2}
    OAuth = {a1, a2}
    Priority = {0}
    MaxAttempts = 2
SPECIFICATION Spec
SYMMETRY Symmetry
CHECK_DEADLOCK FALSE
PROPERTIES
    Error409Final
