SPECIFICATION Spec
CHECK_DEADLOCK FALSE
CONSTANTS
    Emails = {e1, e2}
    Passwords = {p1, p2}
    RegIds = {r1, r2, r3}
    SessionIds = {s1}
    None = None
INVARIANTS RegistrationHolds SessionKeepsAccount
PROPERTIES RetryMaySignIn ImplementsAccounts
