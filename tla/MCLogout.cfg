SPECIFICATION Spec
CHECK_DEADLOCK FALSE
CONSTANTS
    ClientIds <- MCClientIds
    ClientTable <- MCClientTable
    Uris <- MCUris
    Scopes <- MCScopes
    Secrets <- MCSecrets
    Verifiers <- MCVerifiers
    None = None
    Users = {u1}
    SessionIds = {s1}
    CodeIds = {c1}
    TokenIds = {t1}
    AuthorizeForms <- PublicForms
    TokenForms <- RaceTokenForms
INVARIANTS LogoutAlways204
