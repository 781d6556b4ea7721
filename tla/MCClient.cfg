SPECIFICATION Spec
CHECK_DEADLOCK FALSE
CONSTANTS
    Bodies <- MCBodies
    SupportedGrantTypes <- MCSupported
    ClientIds = {c1, c2}
    TokenIds = {t1}
    None = None
INVARIANTS IInv OnlyTheRegistrant
PROPERTIES RegistrantIsAdmitted
