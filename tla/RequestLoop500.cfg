\* What the OpenAI, Gemini and Grok loops say of errors 400 and 500.
CONSTANTS
    a1 = a1
    a2 = a2
    Account = {a1, a2}
    OAuth = {a1, a2}
    Priority = {0}
    MaxAttempts = 2
SPECIFICATION Spec
SYMMETRY Symmetry
CHECK_DEADLOCK FALSE
PROPERTIES
    Error500Returned
