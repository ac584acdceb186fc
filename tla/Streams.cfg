\* Bodies of up to six bytes in all reads they can arrive in; a window of four. Answers
\* with up to three pieces of text or fragments of arguments and two calls.
CONSTANTS
    newline = newline
    e = e
    d = d
    Byte = {newline, e, d}
    Newline = newline
    Markers <- OneMarker
    Window = 4
    MaxLength = 6
    MaxItems = 3
    MaxCalls = 2
SPECIFICATION EachSpec
INVARIANTS
    EachTypeOK
    AccountedOnce
    WellFormed
    WholeAnswerArrives
PROPERTIES
    VerdictJustified
    Relayed
    EveryStreamEnds
