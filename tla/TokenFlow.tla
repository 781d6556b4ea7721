----------------------------- MODULE TokenFlow -----------------------------
(***************************************************************************)
(* POST /oauth/token: AuthHandler.Token over TokenGrantService.Exchange.   *)
(*                                                                         *)
(* The authorization_code grant reads the client (MySQL), takes the code   *)
(* out of Redis, checks what the code stands for, reads the user (MySQL),  *)
(* mints the access token and writes the refresh token (MySQL).  Whatever  *)
(* goes wrong after the code was taken, nothing puts it back.              *)
(***************************************************************************)
EXTENDS Stores

CONSTANT TokenForms       \* the headers and bodies that may arrive

VARIABLE tok              \* TokenIds -> the token request that draws this refresh token

\* client and secret are those of the Basic header when there is one,
\* otherwise of the body; body says which of the two the body carries.
TokenForm ==
    [header   : {"absent", "basic", "malformed"},
     body     : SUBSET {"client_id", "client_secret"},
     client   : ClientIds,
     secret   : Secrets \cup {None},
     grant    : {"authorization_code", "refresh_token", "other"},
     complete : BOOLEAN,     \* the fields the grant requires are present
     uri      : Uris,
     verifier : Verifiers]

ASSUME TokenFormsAssumption == TokenForms \subseteq TokenForm /\ None \notin TokenForms

TokenAnswers == {"granted", "invalid_request", "invalid_client", "invalid_grant",
                 "unsupported_grant_type", "aborted"}

TokenRequest ==
    [pc     : {"idle", "client", "consume", "user", "store", "done"},
     form   : TokenForms \cup {None},
     code   : CodeIds \cup {None},        \* None: a code never issued
     data   : AuthCode \cup {None},       \* what GETDEL returned
     claims : IamClaims \cup {None},      \* of the access token minted
     answer : TokenAnswers \cup {"pending"}]

AnswerToken(t, answer) == tok' = [tok EXCEPT ![t].pc = "done", ![t].answer = answer]

-----------------------------------------------------------------------------

\* handler.resolveClient: which credentials count, or why they do not.
CredentialAnswer(form) ==
    IF form.header = "malformed" THEN "invalid_client"
    ELSE IF form.header = "basic" /\ form.body # {} THEN "invalid_request"
    ELSE IF form.header = "absent" /\ "client_id" \notin form.body THEN "invalid_client"
    ELSE "pending"

PresentedSecret(form) ==
    IF form.header = "basic" \/ "client_secret" \in form.body THEN form.secret ELSE None

\* Token answers without asking a backend: bad credentials, a missing field,
\* a grant Exchange does not route, and the refresh_token grant, whose stub
\* fails with an error the handler reports as invalid_grant.
FrontDoorAnswer(form) ==
    IF CredentialAnswer(form) # "pending" THEN CredentialAnswer(form)
    ELSE IF ~ form.complete THEN "invalid_request"
    ELSE IF form.grant = "refresh_token" THEN "invalid_grant"
    ELSE IF form.grant = "other" THEN "unsupported_grant_type"
    ELSE "pending"

TokenArrive(t, form, code) ==
    /\ tok[t].pc = "idle"
    /\ LET early == FrontDoorAnswer(form)
       IN tok' = [tok EXCEPT
            ![t] = [pc     |-> IF early = "pending" THEN "client" ELSE "done",
                    form   |-> form,
                    code   |-> code,
                    data   |-> None,
                    claims |-> None,
                    answer |-> early]]
    /\ UNCHANGED stores

\* A client that was issued a secret must present it; what any other presents
\* is not looked at.
ClientAuthenticated(form) ==
    LET client == GetClient(form.client)
    IN /\ client # None
       /\ client.secret = None \/ client.secret = Bcrypt(PresentedSecret(form))

TokenLookupClient(t) ==
    /\ tok[t].pc = "client"
    /\ IF ClientAuthenticated(tok[t].form)
       THEN tok' = [tok EXCEPT ![t].pc = "consume"]
       ELSE AnswerToken(t, "invalid_client")
    /\ UNCHANGED stores

\* The code was issued to this client for this redirect URI, and the
\* verifier is the one its challenge was made from.
AnyRedirectURI(form, data) ==                            \* seeded fault
    form.client = data.client /\ S256(form.verifier) = data.challenge
CodeMatches(form, data) ==
    /\ form.client = data.client
    /\ form.uri = data.uri
    /\ data.method = "S256"
    /\ S256(form.verifier) = data.challenge

\* authCodes.Consume and the checks of what it returned.  The code is gone
\* whether they pass or not.
TokenConsume(t) ==
    /\ tok[t].pc = "consume"
    /\ LET data == Lookup(codes, tok[t].code)
       IN tok' = [tok EXCEPT
            ![t].data   = data,
            ![t].pc     = IF data # None /\ CodeMatches(tok[t].form, data)
                          THEN "user" ELSE "done",
            ![t].answer = IF data # None /\ CodeMatches(tok[t].form, data)
                          THEN "pending" ELSE "invalid_grant"]
    /\ ConsumeCode(tok[t].code, "ok")
    /\ UNCHANGED <<users, sessions, tokens>>

\* GETDEL ran, its reply did not arrive: the code is spent and nobody has it.
TokenConsumeLost(t) ==
    /\ tok[t].pc = "consume"
    /\ ConsumeCode(tok[t].code, "lost")
    /\ AnswerToken(t, "invalid_grant")
    /\ UNCHANGED <<users, sessions, tokens>>

ClaimsFor(t) ==
    [user |-> tok[t].data.user, client |-> tok[t].form.client, scope |-> tok[t].data.scope]

\* users.GetByID, which reports a missing row as an error, then
\* IssueAccessToken.
TokenLoadExistingUser(t) ==                              \* seeded fault
    /\ tok[t].pc = "user"
    /\ UserExists(tok[t].data.user)
    /\ tok' = [tok EXCEPT ![t].pc = "store", ![t].claims = ClaimsFor(t)]
    /\ UNCHANGED stores
TokenLoadUser(t) ==
    /\ tok[t].pc = "user"
    /\ IF UserExists(tok[t].data.user)
       THEN tok' = [tok EXCEPT ![t].pc = "store", ![t].claims = ClaimsFor(t)]
       ELSE AnswerToken(t, "invalid_grant")
    /\ UNCHANGED stores

\* refreshTokens.Create and the answer that carries both tokens.
GrantAlways(outcome) == "granted"                        \* seeded fault
StoreAnswer(outcome) == IF outcome = "ok" THEN "granted" ELSE "invalid_grant"

TokenStore(t, outcome) ==
    /\ tok[t].pc = "store"
    /\ InsertToken(t, tok[t].claims, outcome)
    /\ AnswerToken(t, StoreAnswer(outcome))
    /\ UNCHANGED <<users, sessions, codes>>

\* A backend call fails without effect, or signing does: the handler reports
\* any other error of Exchange as invalid_grant.
TokenFailsRestoring(t) ==                                \* seeded fault
    /\ tok[t].pc \in {"client", "consume", "user"}
    /\ AnswerToken(t, "invalid_grant")
    /\ codes' = IF tok[t].data = None THEN codes
                ELSE Write(codes, tok[t].code, tok[t].data, "ok")
    /\ UNCHANGED <<users, sessions, tokens>>
TokenFails(t) ==
    /\ tok[t].pc \in {"client", "consume", "user"}
    /\ AnswerToken(t, "invalid_grant")
    /\ UNCHANGED stores

-----------------------------------------------------------------------------

TokenInit ==
    tok = [t \in TokenIds |->
        [pc |-> "idle", form |-> None, code |-> None, data |-> None, claims |-> None,
         answer |-> "pending"]]

TokenStep(t) ==
    \/ TokenLookupClient(t)
    \/ TokenConsume(t)
    \/ TokenLoadUser(t)
    \/ \E outcome \in Outcomes : TokenStore(t, outcome)

TokenTypeOK == tok \in [TokenIds -> TokenRequest]
=============================================================================
