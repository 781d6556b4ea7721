------------------------------ MODULE Requests ------------------------------
(***************************************************************************)
(* What GET /oauth/authorize and POST /oauth/token make of a request       *)
(* before and after their services run: parsing, the credentials           *)
(* (resolveClient), the validate tags of AuthorizeRequest and              *)
(* TokenRequest (validator.Struct), and the status, code and headers of    *)
(* every answer of the token endpoint.                                     *)
(*                                                                         *)
(* The caller is a program being put right by its answers: it corrects     *)
(* the fields an answer reports, only those, and sends again.  A text is   *)
(* its length where only its length is read; what the services answer is   *)
(* free here (AuthorizeFlow, TokenFlow).                                   *)
(***************************************************************************)
EXTENDS Integers, FiniteSetsExt

CONSTANTS
    AuthorizeForms,   \* query strings of GET /oauth/authorize that are sent
    TokenForms,       \* bodies and Authorization headers of POST /oauth/token
    AuthorizeSamples, \* valid requests a caller has at hand
    TokenSamples,
    None

VARIABLES
    endpoint,   \* which of the two is called, or None
    pc,         \* of the caller: "idle", "sent", "answered"
    form,       \* what it sends
    sends,      \* how often it has sent, corrections included
    answer      \* the last answer, or None

vars == <<endpoint, pc, form, sends, answer>>

-----------------------------------------------------------------------------
(* The parameters *)

\* "absent" is the empty text.  A URI is what url.Parse takes apart.  host "port" is a bare ":8080"; hash
\* says whether there is a '#' and anything after it.
Uri ==
    [parses : BOOLEAN, scheme : {"absent", "http", "https", "custom"},
     host : {"absent", "port", "loopback", "public"}, hash : {"absent", "empty", "fragment"}]

AuthorizeForm ==
    [response_type : {"absent", "code", "token"}, client_id : Nat, redirect_uri : Uri \cup {None},
     state : Nat, code_challenge : Nat, code_challenge_method : {"absent", "S256", "plain"},
     access_type : {"absent", "online", "offline", "other"}]

\* client_id and client_secret are the lengths in the body, basic_id that of
\* the user name of a Basic header.
TokenForm ==
    [parses : BOOLEAN, header : {"absent", "malformed", "basic"}, basic_id : Nat,
     client_id : Nat, client_secret : Nat,
     grant_type : {"absent", "authorization_code", "refresh_token", "other"},
     code : Nat, redirect_uri : Nat, code_verifier : Nat, refresh_token : Nat]

ASSUME FormsAssumption == AuthorizeForms \subseteq AuthorizeForm /\ TokenForms \subseteq TokenForm
ASSUME NoneAssumption == None \notin AuthorizeForm /\ None \notin TokenForm /\ None \notin Uri

-----------------------------------------------------------------------------
(* Package validator *)

Tag(name, holds) == [tag |-> name, holds |-> holds]

\* validateRedirectURI: emptiness is left to `required`.
RedirectURI(uri) ==
    \/ uri = None
    \/ /\ uri.parses /\ uri.scheme # "absent" /\ uri.host # "absent" /\ uri.hash = "absent"
       /\ uri.scheme \in IF uri.host = "loopback" THEN {"http", "https"} ELSE {"https"}

\* The tags of each field, in their order; what omitempty lets pass holds.
AuthorizeTags(r) ==
    [response_type |->
        <<Tag("required", r.response_type # "absent"), Tag("oneof", r.response_type = "code")>>,
     client_id |-> <<Tag("required", r.client_id > 0), Tag("max", r.client_id <= 255)>>,
     redirect_uri |->
        <<Tag("required", r.redirect_uri # None), Tag("redirect_uri", RedirectURI(r.redirect_uri))>>,
     state |->
        <<Tag("required", r.state > 0), Tag("min", r.state >= 8), Tag("max", r.state <= 512)>>,
     code_challenge |->
        <<Tag("required", r.code_challenge > 0), Tag("min", r.code_challenge >= 43),
          Tag("max", r.code_challenge <= 128)>>,
     code_challenge_method |->
        <<Tag("required", r.code_challenge_method # "absent"),
          Tag("oneof", r.code_challenge_method = "S256")>>,
     access_type |-> <<Tag("oneof", r.access_type \in {"absent", "online", "offline"})>>]

RequiredIf(condition, n) == Tag("required_if", condition => n > 0)

TokenTags(r) ==
    LET coded == r.grant_type = "authorization_code"
    IN [grant_type |-> <<Tag("required", r.grant_type # "absent")>>,
        code |-> <<RequiredIf(coded, r.code)>>,
        redirect_uri |-> <<RequiredIf(coded, r.redirect_uri)>>,
        code_verifier |->
            <<RequiredIf(coded, r.code_verifier),
              Tag("min", r.code_verifier > 0 => r.code_verifier >= 43),
              Tag("max", r.code_verifier <= 128)>>,
        refresh_token |-> <<RequiredIf(r.grant_type = "refresh_token", r.refresh_token)>>]

Broken(tags) == {i \in DOMAIN tags : ~ tags[i].holds}

\* message: the tags that have a wording of their own.
Message(tag) ==
    IF tag \in {"required", "min", "max", "oneof", "redirect_uri"} THEN tag ELSE "invalid"

\* Seeded fault of Struct: validation stops at the first field that fails.
StructFirst(tags) == \* seeded fault
    LET failing == {f \in DOMAIN tags : Broken(tags[f]) # {}}
        first   == IF failing = {} THEN {} ELSE {CHOOSE f \in failing : TRUE}
    IN [f \in first |-> Message(tags[f][Min(Broken(tags[f]))].tag)]

\* Every field with a broken tag is reported, by the first of them.
Struct(tags) ==
    [f \in {f \in DOMAIN tags : Broken(tags[f]) # {}} |->
        Message(tags[f][Min(Broken(tags[f]))].tag)]

Validate(e, r) == Struct(IF e = "authorize" THEN AuthorizeTags(r) ELSE TokenTags(r))

Valid(e, r) == DOMAIN Validate(e, r) = {}

ASSUME SamplesAssumption ==
    /\ \A r \in AuthorizeSamples : r \in AuthorizeForm /\ Valid("authorize", r)
    /\ \A r \in TokenSamples : r \in TokenForm /\ Valid("token", r)

-----------------------------------------------------------------------------
(* The answers *)

NoFields == [f \in {} |-> "invalid"]

\* headers: noStore's "no-store", and "challenge" for WWW-Authenticate.
Answer(status, error, fields, headers) ==
    [status |-> status, error |-> error, fields |-> fields, headers |-> headers]

writeTokenError(status, error) == Answer(status, error, NoFields, {"no-store"})

\* A refused client is also told how to authenticate.
Unauthorized == Answer(401, "invalid_client", NoFields, {"no-store", "challenge"})

\* The token endpoint calls noStore before it, the authorization endpoint
\* does not.
writeValidationError(fields, headers) == Answer(400, "invalid_request", fields, headers)

\* What Exchange may return: a response, one of its errors, or any other.
ExchangeErrors ==
    {"unsupported_grant_type", "invalid_client", "unauthorized_client", "invalid_scope",
     "invalid_grant"}
ExchangeOutcomes == {"granted", "unexpected"} \cup ExchangeErrors

writeTokenExchangeError(error) ==
    IF error = "invalid_client" THEN Unauthorized
    ELSE IF error \in ExchangeErrors THEN writeTokenError(400, error)
    ELSE writeTokenError(400, "invalid_grant")

OkBasic(r) == r.header = "basic"
HasBody(r) == r.client_id > 0 \/ r.client_secret > 0

\* Seeded fault of resolveClient: the header wins over the body.
HeaderWins(r) == \* seeded fault
    IF r.header = "malformed" THEN "invalid_client"
    ELSE IF OkBasic(r) \/ r.client_id > 0 THEN "none"
    ELSE "invalid_client"

\* The OAuth error, "none" on success.
resolveClient(r) ==
    IF r.header = "malformed" THEN "invalid_client"
    ELSE IF OkBasic(r) /\ HasBody(r) THEN "invalid_request"
    ELSE IF OkBasic(r) \/ r.client_id > 0 THEN "none"
    ELSE "invalid_client"

CredentialAnswer(error) ==
    IF error = "invalid_client" THEN Unauthorized ELSE writeTokenError(400, error)

\* Seeded fault of Token: validation failures are written as those of the
\* authorization endpoint are.
TokenAnswerBare(r, outcome) == \* seeded fault
    IF ~ r.parses THEN writeTokenError(400, "invalid_request")
    ELSE IF resolveClient(r) # "none" THEN CredentialAnswer(resolveClient(r))
    ELSE IF ~ Valid("token", r) THEN writeValidationError(Validate("token", r), {})
    ELSE IF outcome # "granted" THEN writeTokenExchangeError(outcome)
    ELSE Answer(200, "none", NoFields, {"no-store"})

TokenAnswer(r, outcome) ==
    IF ~ r.parses THEN writeTokenError(400, "invalid_request")
    ELSE IF resolveClient(r) # "none" THEN CredentialAnswer(resolveClient(r))
    ELSE IF ~ Valid("token", r) THEN writeValidationError(Validate("token", r), {"no-store"})
    ELSE IF outcome # "granted" THEN writeTokenExchangeError(outcome)
    ELSE Answer(200, "none", NoFields, {"no-store"})

\* Past validation the authorization endpoint redirects or fails by its
\* service's verdict (AuthorizeFlow): 302 stands for all of that.
AuthorizeAnswer(r) ==
    IF Valid("authorize", r)
    THEN Answer(302, "none", NoFields, {})
    ELSE writeValidationError(Validate("authorize", r), {})

-----------------------------------------------------------------------------
(* The caller *)

Init ==
    /\ endpoint = None /\ pc = "idle" /\ form = None /\ sends = 0 /\ answer = None

Send(e, r) ==
    /\ pc = "idle"
    /\ endpoint' = e /\ form' = r /\ pc' = "sent" /\ sends' = 1
    /\ UNCHANGED answer

Authorize ==
    /\ pc = "sent" /\ endpoint = "authorize"
    /\ answer' = AuthorizeAnswer(form)
    /\ pc' = "answered"
    /\ UNCHANGED <<endpoint, form, sends>>

Token ==
    /\ pc = "sent" /\ endpoint = "token"
    /\ \E outcome \in ExchangeOutcomes : answer' = TokenAnswer(form, outcome)
    /\ pc' = "answered"
    /\ UNCHANGED <<endpoint, form, sends>>

Reported == DOMAIN answer.fields

\* The caller copies what it corrects from a request that is valid, one of
\* its own grant if it named a grant.
Correct(sample) ==
    /\ form' = [f \in DOMAIN form |-> IF f \in Reported THEN sample[f] ELSE form[f]]
    /\ pc' = "sent" /\ sends' = sends + 1
    /\ UNCHANGED <<endpoint, answer>>

CorrectAuthorize ==
    /\ endpoint = "authorize" /\ pc = "answered" /\ Reported # {}
    /\ \E sample \in AuthorizeSamples : Correct(sample)

CorrectToken ==
    /\ endpoint = "token" /\ pc = "answered" /\ Reported # {}
    /\ \E sample \in TokenSamples :
        /\ form.grant_type \in {"absent", sample.grant_type}
        /\ Correct(sample)

\* The caller gives up, or has what it wanted.
Leave ==
    /\ pc = "answered"
    /\ endpoint' = None /\ pc' = "idle" /\ form' = None /\ sends' = 0 /\ answer' = None

Next ==
    \/ \E r \in AuthorizeForms : Send("authorize", r)
    \/ \E r \in TokenForms : Send("token", r)
    \/ Authorize
    \/ Token
    \/ CorrectAuthorize
    \/ CorrectToken
    \/ Leave

Spec == Init /\ [][Next]_vars

-----------------------------------------------------------------------------
(* Properties *)

IsAnswer(a) ==
    /\ DOMAIN a = {"status", "error", "fields", "headers"}
    /\ a.status \in {200, 302, 400, 401}
    /\ a.error \in {"none", "invalid_request"} \cup ExchangeErrors
    /\ a.headers \subseteq {"no-store", "challenge"}

\* Types, and where the caller stands: nothing is sent or answered while it is
\* idle, what it sends is a request of its endpoint, and the answer it holds
\* is the handler's to the form it sent.
TypeOK ==
    /\ pc \in {"idle", "sent", "answered"}
    /\ sends \in Nat
    /\ answer = None \/ IsAnswer(answer)
    /\ pc = "idle" => endpoint = None /\ form = None /\ answer = None /\ sends = 0
    /\ pc # "idle" =>
        /\ sends >= 1
        /\ \/ endpoint = "authorize" /\ form \in AuthorizeForm
           \/ endpoint = "token" /\ form \in TokenForm
    /\ pc = "answered" =>
        /\ endpoint = "authorize" => answer = AuthorizeAnswer(form)
        /\ endpoint = "token" =>
            \E outcome \in ExchangeOutcomes : answer = TokenAnswer(form, outcome)

\* What a caller has won by correcting: a corrected authorize request is
\* valid; a corrected token request names its grant, and is valid from the
\* second correction on.
Progress ==
    pc # "idle" =>
        /\ endpoint = "authorize" /\ sends >= 2 => Valid("authorize", form)
        /\ endpoint = "token" /\ sends >= 2 => form.grant_type # "absent"
        /\ endpoint = "token" /\ sends >= 3 => Valid("token", form)

IInv == TypeOK /\ Progress

\* Validation reports everything it finds at once (validator.Struct): a
\* caller that corrects what it is told to has a valid authorize request on
\* its second sending and a valid token request on its third, because only
\* the grant decides which other fields a token request needs.
FewRounds ==
    pc = "answered" /\ Reported # {} => sends <= IF endpoint = "authorize" THEN 1 ELSE 2

\* Every answer of the token endpoint carries the no-store headers (noStore:
\* "on every /oauth/token response, success or error"), on whichever of its
\* paths it was written, and 401 always comes with its WWW-Authenticate.
NoStoreAlways ==
    pc = "answered" /\ endpoint = "token" =>
        "no-store" \in answer.headers /\ (answer.status = 401 <=> "challenge" \in answer.headers)

\* A client authenticates in exactly one place (resolveClient): what was
\* neither refused for its credentials nor unreadable had them in the header
\* or in the body, never in both.
OneCredential ==
    /\ pc = "answered" /\ endpoint = "token"
    /\ answer.status = 200 \/ Reported # {}
    => (OkBasic(form) <=> ~ HasBody(form))
=============================================================================
