SPECIFICATION Spec
CHECK_DEADLOCK FALSE
CONSTANTS
    ClientIds <- MCClientIds
    ClientTable <- MCClientTable
    Uris <- MCUris
    Scopes <- MCScopes
    Secrets <- MCSecrets
    Verifiers <- MCVerifiers
    None = None
    Users = {u1, u2}
    SessionIds = {s1, s2}
    CodeIds = {c1}
    TokenIds = {t1, t2}
    AuthorizeForms <- PublicForms
    TokenForms <- RaceTokenForms
SYMMETRY Interchangeable
INVARIANTS IInv SingleUse GrantedIsDurable GrantUser
PROPERTIES CodeNeverRevives GrantNeedsUser LogoutIsFinal ImplementsGrant
