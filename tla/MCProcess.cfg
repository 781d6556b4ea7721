SPECIFICATION FairSpec
CHECK_DEADLOCK FALSE
CONSTANTS
    ReqIds = {r1, r2, r3}
    Kinds = {"jwks", "login", "token"}
    MaxOpenConns = 2
    None = None
INVARIANTS IInv StoresOpenWhileServing
PROPERTIES RequestsEnd SignalEnds
