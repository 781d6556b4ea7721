SPECIFICATION Spec
CONSTANTS
    None = None
    KeyIds = {k1, k2}
    Verifiers = {v1, v2}
    Lifetime = 3
    MaxAge = 1
    MaxTime = 7
INVARIANTS
    IInv
    VerifiersCatchUp
