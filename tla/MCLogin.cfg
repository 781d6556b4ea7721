SPECIFICATION FairSpec
CONSTANTS
    None = None
    Requests = {r1, r2, r3}
    Silent = {r3}
    MaxLapses = 2
INVARIANTS
    StaysInside
    AnswersTheOrigin
PROPERTIES
    ComesBack
