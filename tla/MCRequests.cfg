SPECIFICATION Spec
CONSTANTS
    None = None
    AuthorizeForms <- MCAuthorizeForms
    TokenForms <- MCTokenForms
    AuthorizeSamples <- MCAuthorizeSamples
    TokenSamples <- MCTokenSamples
INVARIANTS
    FewRounds
    NoStoreAlways
    OneCredential
