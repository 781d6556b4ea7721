SPECIFICATION Spec
CHECK_DEADLOCK FALSE
CONSTANTS
    Users = {u1}
    ClientIds = {c1}
    Scopes = {read, write}
    TokenIds = {t1}
    RefreshIds = {r1}
    Lifetime = 5
    Skew = 0
    MaxTime = 9
    None = None
INVARIANTS LegacyClaimsEmpty
