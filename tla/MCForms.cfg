SPECIFICATION FairSpec
CHECK_DEADLOCK FALSE
CONSTANTS
    ClientIds <- MCClientIds
    ClientTable <- MCClientTable
    Uris <- MCUris
    Scopes <- MCScopes
    Secrets <- MCSecrets
    Verifiers <- MCVerifiers
    None = None
    Users = {u1}
    SessionIds = {s1}
    CodeIds = {c1}
    TokenIds = {t1}
    AuthorizeForms <- AllAuthorizeForms
    TokenForms <- AllTokenForms
INVARIANTS GrantBinding GrantScope RedirectRegistered
PROPERTIES EveryRequestEnds
