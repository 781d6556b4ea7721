SPECIFICATION FairSpec
CHECK_DEADLOCK FALSE
CONSTANTS
    Users = {u1, u2}
    ClientIds = {c1}
    Scopes = {read, write}
    TokenIds = {t1}
    RefreshIds = {r1, r2}
    Lifetime = 5
    Skew = 0
    MaxTime = 9
    None = None
INVARIANTS RefusedOnlyWhenOver ListingAgrees RefreshKeepsGrant
PROPERTIES LifetimeKept PurgeSafe RefreshEnds
