--------------------------- MODULE Requests_proofs ---------------------------
(***************************************************************************)
(* What holds of Requests for every set of requests and of samples.  The   *)
(* two lemmas on validation say which fields Struct reports, tag by tag;   *)
(* everything about corrections follows from them.                         *)
(***************************************************************************)
EXTENDS Requests, TLAPS

\* What Struct reports: the fields with a broken tag.
LEMMA StructReports ==
    ASSUME NEW tags
    PROVE  DOMAIN Struct(tags) = {f \in DOMAIN tags : Broken(tags[f]) # {}}
BY DEF Struct

LEMMA OneTag ==
    ASSUME NEW a, NEW p \in BOOLEAN
    PROVE  Broken(<<Tag(a, p)>>) # {} <=> ~ p
BY DEF Broken, Tag

LEMMA TwoTags ==
    ASSUME NEW a, NEW p \in BOOLEAN, NEW b, NEW q \in BOOLEAN
    PROVE  Broken(<<Tag(a, p), Tag(b, q)>>) # {} <=> ~ (p /\ q)
BY DEF Broken, Tag

LEMMA ThreeTags ==
    ASSUME NEW a, NEW p \in BOOLEAN, NEW b, NEW q \in BOOLEAN, NEW c, NEW r \in BOOLEAN
    PROVE  Broken(<<Tag(a, p), Tag(b, q), Tag(c, r)>>) # {} <=> ~ (p /\ q /\ r)
BY DEF Broken, Tag

AuthorizeFields ==
    {"response_type", "client_id", "redirect_uri", "state", "code_challenge",
     "code_challenge_method", "access_type"}

\* A field of an authorize request is judged by its own value only.
AuthorizeFieldOK(f, v) ==
    CASE f = "response_type" -> v # "absent" /\ v = "code"
      [] f = "client_id" -> v > 0 /\ v <= 255
      [] f = "redirect_uri" -> v # None /\ RedirectURI(v)
      [] f = "state" -> v > 0 /\ v >= 8 /\ v <= 512
      [] f = "code_challenge" -> v > 0 /\ v >= 43 /\ v <= 128
      [] f = "code_challenge_method" -> v # "absent" /\ v = "S256"
      [] f = "access_type" -> v \in {"absent", "online", "offline"}

\* The fields reported to the sender of an authorize request.
LEMMA AuthorizeReports ==
    ASSUME NEW r \in AuthorizeForm
    PROVE  DOMAIN Validate("authorize", r)
             = {f \in AuthorizeFields : ~ AuthorizeFieldOK(f, r[f])}
<1> DEFINE tags == AuthorizeTags(r)
<1>0. RedirectURI(r.redirect_uri) \in BOOLEAN
  BY DEF AuthorizeForm, Uri, RedirectURI
<1>1. DOMAIN Validate("authorize", r) = {f \in DOMAIN tags : Broken(tags[f]) # {}}
  BY StructReports DEF Validate
<1>2. DOMAIN tags = AuthorizeFields
  BY DEF AuthorizeTags, AuthorizeFields
<1>3. Broken(tags.response_type) # {} <=> ~ AuthorizeFieldOK("response_type", r.response_type)
  BY TwoTags DEF AuthorizeTags, AuthorizeFieldOK
<1>4. Broken(tags.client_id) # {} <=> ~ AuthorizeFieldOK("client_id", r.client_id)
  <2> DEFINE p == r.client_id > 0
             q == r.client_id <= 255
  <2>1. tags.client_id = <<Tag("required", p), Tag("max", q)>>
    BY DEF AuthorizeTags
  <2>2. p \in BOOLEAN /\ q \in BOOLEAN
    OBVIOUS
  <2>3. AuthorizeFieldOK("client_id", r.client_id) <=> p /\ q
    BY DEF AuthorizeFieldOK
  <2> HIDE DEF p, q
  <2> QED  BY <2>1, <2>2, <2>3, TwoTags
<1>5. Broken(tags.redirect_uri) # {} <=> ~ AuthorizeFieldOK("redirect_uri", r.redirect_uri)
  BY <1>0, TwoTags DEF AuthorizeTags, AuthorizeFieldOK
<1>6. Broken(tags.state) # {} <=> ~ AuthorizeFieldOK("state", r.state)
  <2> DEFINE p == r.state > 0
             q == r.state >= 8
             m == r.state <= 512
  <2>1. tags.state = <<Tag("required", p), Tag("min", q), Tag("max", m)>>
    BY DEF AuthorizeTags
  <2>2. p \in BOOLEAN /\ q \in BOOLEAN /\ m \in BOOLEAN
    OBVIOUS
  <2>3. AuthorizeFieldOK("state", r.state) <=> p /\ q /\ m
    BY DEF AuthorizeFieldOK
  <2> HIDE DEF p, q, m
  <2> QED  BY <2>1, <2>2, <2>3, ThreeTags
<1>7. Broken(tags.code_challenge) # {} <=> ~ AuthorizeFieldOK("code_challenge", r.code_challenge)
  <2> DEFINE p == r.code_challenge > 0
             q == r.code_challenge >= 43
             m == r.code_challenge <= 128
  <2>1. tags.code_challenge = <<Tag("required", p), Tag("min", q), Tag("max", m)>>
    BY DEF AuthorizeTags
  <2>2. p \in BOOLEAN /\ q \in BOOLEAN /\ m \in BOOLEAN
    OBVIOUS
  <2>3. AuthorizeFieldOK("code_challenge", r.code_challenge) <=> p /\ q /\ m
    BY DEF AuthorizeFieldOK
  <2> HIDE DEF p, q, m
  <2> QED  BY <2>1, <2>2, <2>3, ThreeTags
<1>8. Broken(tags.code_challenge_method) # {}
        <=> ~ AuthorizeFieldOK("code_challenge_method", r.code_challenge_method)
  BY TwoTags DEF AuthorizeTags, AuthorizeFieldOK
<1>9. Broken(tags.access_type) # {} <=> ~ AuthorizeFieldOK("access_type", r.access_type)
  <2>1. tags.access_type = <<Tag("oneof", r.access_type \in {"absent", "online", "offline"})>>
    BY DEF AuthorizeTags
  <2>2. (r.access_type \in {"absent", "online", "offline"}) \in BOOLEAN
    OBVIOUS
  <2> QED  BY <2>1, <2>2, OneTag DEF AuthorizeFieldOK
<1> HIDE DEF tags
<1> QED
  BY <1>1, <1>2, <1>3, <1>4, <1>5, <1>6, <1>7, <1>8, <1>9 DEF AuthorizeFields

\* Correcting what was reported makes an authorize request valid.
LEMMA CorrectedAuthorize ==
    ASSUME NEW r \in AuthorizeForm, NEW s \in AuthorizeForm, Valid("authorize", s),
           NEW reported, reported = DOMAIN Validate("authorize", r),
           NEW t, t = [f \in DOMAIN r |-> IF f \in reported THEN s[f] ELSE r[f]]
    PROVE  t \in AuthorizeForm /\ Valid("authorize", t)
<1>1. t \in AuthorizeForm
  BY DEF AuthorizeForm
<1>2. \A f \in AuthorizeFields : AuthorizeFieldOK(f, s[f])
  BY AuthorizeReports DEF Valid
<1>3. \A f \in AuthorizeFields : f \in DOMAIN r
  BY DEF AuthorizeForm, AuthorizeFields
<1>4. \A f \in AuthorizeFields : AuthorizeFieldOK(f, t[f])
  <2> SUFFICES ASSUME NEW f \in AuthorizeFields PROVE AuthorizeFieldOK(f, t[f])
    OBVIOUS
  <2>1. CASE f \in reported
    BY <1>2, <1>3, <2>1
  <2>2. CASE f \notin reported
    <3>1. AuthorizeFieldOK(f, r[f])
      BY <2>2, AuthorizeReports
    <3> QED  BY <1>3, <2>2, <3>1
  <2> QED  BY <2>1, <2>2
<1> QED
  BY <1>1, <1>4, AuthorizeReports DEF Valid

TokenFields == {"grant_type", "code", "redirect_uri", "code_verifier", "refresh_token"}

\* A field of a token request is judged by its value and the grant.
TokenFieldOK(f, grant, v) ==
    CASE f = "grant_type" -> v # "absent"
      [] f = "code" -> grant = "authorization_code" => v > 0
      [] f = "redirect_uri" -> grant = "authorization_code" => v > 0
      [] f = "code_verifier" ->
            (grant = "authorization_code" => v > 0) /\ (v > 0 => v >= 43) /\ v <= 128
      [] f = "refresh_token" -> grant = "refresh_token" => v > 0

\* The fields reported to the sender of a token request.
LEMMA TokenReports ==
    ASSUME NEW r \in TokenForm
    PROVE  DOMAIN Validate("token", r)
             = {f \in TokenFields : ~ TokenFieldOK(f, r.grant_type, r[f])}
<1> DEFINE tags == TokenTags(r)
<1>1. DOMAIN Validate("token", r) = {f \in DOMAIN tags : Broken(tags[f]) # {}}
  BY StructReports DEF Validate
<1>2. DOMAIN tags = TokenFields
  BY DEF TokenTags, TokenFields
<1>3. Broken(tags.grant_type) # {} <=> ~ TokenFieldOK("grant_type", r.grant_type, r.grant_type)
  BY OneTag DEF TokenTags, TokenFieldOK
<1>4. Broken(tags.code) # {} <=> ~ TokenFieldOK("code", r.grant_type, r.code)
  BY OneTag DEF TokenTags, RequiredIf, TokenFieldOK
<1>5. Broken(tags.redirect_uri) # {} <=> ~ TokenFieldOK("redirect_uri", r.grant_type, r.redirect_uri)
  BY OneTag DEF TokenTags, RequiredIf, TokenFieldOK
<1>6. Broken(tags.code_verifier) # {}
        <=> ~ TokenFieldOK("code_verifier", r.grant_type, r.code_verifier)
  <2> DEFINE p == r.grant_type = "authorization_code" => r.code_verifier > 0
             q == r.code_verifier > 0 => r.code_verifier >= 43
             m == r.code_verifier <= 128
  <2>1. tags.code_verifier = <<Tag("required_if", p), Tag("min", q), Tag("max", m)>>
    BY DEF TokenTags, RequiredIf
  <2>2. p \in BOOLEAN /\ q \in BOOLEAN /\ m \in BOOLEAN
    OBVIOUS
  <2>3. TokenFieldOK("code_verifier", r.grant_type, r.code_verifier) <=> p /\ q /\ m
    BY DEF TokenFieldOK
  <2> HIDE DEF p, q, m
  <2> QED  BY <2>1, <2>2, <2>3, ThreeTags
<1>7. Broken(tags.refresh_token) # {}
        <=> ~ TokenFieldOK("refresh_token", r.grant_type, r.refresh_token)
  BY OneTag DEF TokenTags, RequiredIf, TokenFieldOK
<1> HIDE DEF tags
<1> QED
  BY <1>1, <1>2, <1>3, <1>4, <1>5, <1>6, <1>7 DEF TokenFields

\* A correction names the grant if it was not named, and otherwise makes the
\* token request valid.
LEMMA CorrectedToken ==
    ASSUME NEW r \in TokenForm, NEW s \in TokenForm, Valid("token", s),
           r.grant_type \in {"absent", s.grant_type},
           NEW reported, reported = DOMAIN Validate("token", r),
           NEW t, t = [f \in DOMAIN r |-> IF f \in reported THEN s[f] ELSE r[f]]
    PROVE  /\ t \in TokenForm
           /\ t.grant_type # "absent"
           /\ r.grant_type # "absent" => Valid("token", t)
<1>1. t \in TokenForm
  BY DEF TokenForm
<1>2. \A f \in TokenFields : TokenFieldOK(f, s.grant_type, s[f])
  BY TokenReports DEF Valid
<1>3. \A f \in TokenFields : f \in DOMAIN r
  BY DEF TokenForm, TokenFields
<1>4. s.grant_type # "absent"
  BY <1>2 DEF TokenFields, TokenFieldOK
<1>5. \A f \in TokenFields : f \in reported <=> ~ TokenFieldOK(f, r.grant_type, r[f])
  BY TokenReports
<1>6. "grant_type" \in reported <=> r.grant_type = "absent"
  BY <1>5 DEF TokenFields, TokenFieldOK
<1>7. t.grant_type = s.grant_type
  BY <1>3, <1>6 DEF TokenFields
<1>8. ASSUME r.grant_type # "absent"
      PROVE  Valid("token", t)
  <2>1. r.grant_type = s.grant_type
    BY <1>8
  <2>2. \A f \in TokenFields : TokenFieldOK(f, t.grant_type, t[f])
    <3> SUFFICES ASSUME NEW f \in TokenFields PROVE TokenFieldOK(f, t.grant_type, t[f])
      OBVIOUS
    <3>1. CASE f \in reported
      <4>1. t[f] = s[f]
        BY <1>3, <3>1
      <4> QED  BY <1>2, <1>7, <4>1
    <3>2. CASE f \notin reported
      <4>1. t[f] = r[f]
        BY <1>3, <3>2
      <4> QED  BY <1>5, <1>7, <2>1, <3>2, <4>1
    <3> QED  BY <3>1, <3>2
  <2> QED  BY <1>1, <2>2, TokenReports DEF Valid
<1> QED
  BY <1>1, <1>4, <1>7, <1>8

-----------------------------------------------------------------------------
(* The answers *)

\* What the authorization endpoint answers reports what validation found.
LEMMA AuthorizeAnswers ==
    ASSUME NEW r \in AuthorizeForm
    PROVE  /\ IsAnswer(AuthorizeAnswer(r))
           /\ DOMAIN AuthorizeAnswer(r).fields = DOMAIN Validate("authorize", r)
<1>1. CASE Valid("authorize", r)
  BY <1>1 DEF AuthorizeAnswer, Answer, IsAnswer, NoFields, Valid
<1>2. CASE ~ Valid("authorize", r)
  BY <1>2 DEF AuthorizeAnswer, writeValidationError, Answer, IsAnswer
<1> QED  BY <1>1, <1>2

\* An answer that reports no fields, marked as it should be.
IsTokenError(a) ==
    /\ DOMAIN a = {"status", "error", "fields", "headers"}
    /\ a.error \in {"invalid_request"} \cup ExchangeErrors
    /\ a.fields = NoFields
    /\ \/ a.status = 400 /\ a.headers = {"no-store"}
       \/ a.status = 401 /\ a.headers = {"no-store", "challenge"}

LEMMA ErrorsMarked ==
    /\ \A error \in {"invalid_request"} \cup ExchangeErrors :
        IsTokenError(writeTokenError(400, error))
    /\ IsTokenError(Unauthorized)
<1>1. ASSUME NEW error \in {"invalid_request"} \cup ExchangeErrors
      PROVE  IsTokenError(writeTokenError(400, error))
  BY DEF writeTokenError, Answer, IsTokenError
<1>2. IsTokenError(Unauthorized)
  BY DEF Unauthorized, Answer, IsTokenError, ExchangeErrors
<1> QED  BY <1>1, <1>2

LEMMA TokenErrorParts ==
    ASSUME NEW a, IsTokenError(a)
    PROVE  /\ IsAnswer(a)
           /\ "no-store" \in a.headers /\ (a.status = 401 <=> "challenge" \in a.headers)
           /\ DOMAIN a.fields = {} /\ a.fields = NoFields
           /\ a.status # 200
<1>1. "no-store" \in a.headers /\ a.headers \subseteq {"no-store", "challenge"}
  BY DEF IsTokenError
<1>2. a.status = 401 <=> "challenge" \in a.headers
  BY DEF IsTokenError
<1>3. a.status \in {400, 401}
  BY DEF IsTokenError
<1>4. DOMAIN a.fields = {} /\ a.fields = NoFields
  BY DEF IsTokenError, NoFields
<1>5. IsAnswer(a)
  BY <1>1, <1>3 DEF IsTokenError, IsAnswer
<1> QED  BY <1>1, <1>2, <1>3, <1>4, <1>5

\* Every answer of the token endpoint, path by path.
LEMMA TokenAnswers ==
    ASSUME NEW r \in TokenForm, NEW outcome \in ExchangeOutcomes,
           NEW a, a = TokenAnswer(r, outcome)
    PROVE  /\ IsAnswer(a)
           /\ "no-store" \in a.headers /\ (a.status = 401 <=> "challenge" \in a.headers)
           /\ DOMAIN a.fields # {} => DOMAIN a.fields = DOMAIN Validate("token", r)
           /\ a.status = 200 \/ DOMAIN a.fields # {} => resolveClient(r) = "none"
<1>0. DOMAIN NoFields = {}
  BY DEF NoFields
<1>1. CASE ~ r.parses
  <2>1. a = writeTokenError(400, "invalid_request")
    BY <1>1 DEF TokenAnswer
  <2>2. IsTokenError(a)
    BY <2>1, ErrorsMarked
  <2> QED  BY <2>2, TokenErrorParts
<1>2. CASE r.parses /\ resolveClient(r) # "none"
  <2>1. a = CredentialAnswer(resolveClient(r))
    BY <1>2 DEF TokenAnswer
  <2>2. resolveClient(r) \in {"invalid_client", "invalid_request"}
    BY <1>2 DEF resolveClient
  <2>3. a = Unauthorized \/ a = writeTokenError(400, "invalid_request")
    BY <2>1, <2>2 DEF CredentialAnswer
  <2>4. IsTokenError(a)
    BY <2>3, ErrorsMarked
  <2> QED  BY <2>4, TokenErrorParts
<1>3. CASE r.parses /\ resolveClient(r) = "none" /\ ~ Valid("token", r)
  <2>1. a = Answer(400, "invalid_request", Validate("token", r), {"no-store"})
    BY <1>3 DEF TokenAnswer, writeValidationError
  <2> QED  BY <1>3, <2>1 DEF Answer, IsAnswer
<1>4. CASE r.parses /\ resolveClient(r) = "none" /\ Valid("token", r) /\ outcome # "granted"
  <2>1. a = writeTokenExchangeError(outcome)
    BY <1>4 DEF TokenAnswer
  <2>2. \/ a = Unauthorized
        \/ \E error \in ExchangeErrors : a = writeTokenError(400, error)
    BY <2>1 DEF writeTokenExchangeError, ExchangeErrors
  <2>3. IsTokenError(a)
    BY <2>2, ErrorsMarked
  <2> QED  BY <1>4, <2>3, TokenErrorParts
<1>5. CASE r.parses /\ resolveClient(r) = "none" /\ Valid("token", r) /\ outcome = "granted"
  <2>1. a = Answer(200, "none", NoFields, {"no-store"})
    BY <1>5 DEF TokenAnswer
  <2> QED  BY <1>0, <1>5, <2>1 DEF Answer, IsAnswer
<1> QED
  BY <1>1, <1>2, <1>3, <1>4, <1>5 DEF TokenForm

-----------------------------------------------------------------------------
(* The invariant *)

LEMMA InitInv == Init => IInv
BY DEF Init, IInv, TypeOK, Progress

\* What a caller that corrects has been told is what validation found.
LEMMA ReportedIsFound ==
    ASSUME TypeOK, pc = "answered", Reported # {}
    PROVE  /\ endpoint = "authorize" => Reported = DOMAIN Validate("authorize", form)
           /\ endpoint = "token" => Reported = DOMAIN Validate("token", form)
<1>1. ASSUME endpoint = "authorize"
      PROVE  Reported = DOMAIN Validate("authorize", form)
  BY <1>1, AuthorizeAnswers DEF TypeOK, Reported
<1>2. ASSUME endpoint = "token"
      PROVE  Reported = DOMAIN Validate("token", form)
  <2>1. PICK outcome \in ExchangeOutcomes : answer = TokenAnswer(form, outcome)
    BY <1>2 DEF TypeOK
  <2>2. form \in TokenForm
    BY <1>2 DEF TypeOK
  <2> QED  BY <2>1, <2>2, TokenAnswers DEF Reported
<1> QED  BY <1>1, <1>2

LEMMA StepInv ==
    ASSUME IInv, [Next]_vars
    PROVE  IInv'
<1> USE DEF IInv
<1>1. ASSUME NEW r \in AuthorizeForms, Send("authorize", r)
      PROVE  IInv'
  BY <1>1, FormsAssumption DEF Send, TypeOK, Progress
<1>2. ASSUME NEW r \in TokenForms, Send("token", r)
      PROVE  IInv'
  BY <1>2, FormsAssumption DEF Send, TypeOK, Progress
<1>3. CASE Authorize
  <2>1. form \in AuthorizeForm
    BY <1>3 DEF Authorize, TypeOK
  <2>2. TypeOK'
    BY <1>3, <2>1, AuthorizeAnswers DEF Authorize, TypeOK
  <2>3. Progress'
    BY <1>3 DEF Authorize, Progress
  <2> QED  BY <2>2, <2>3
<1>4. CASE Token
  <2>1. form \in TokenForm
    BY <1>4 DEF Token, TypeOK
  <2>2. PICK outcome \in ExchangeOutcomes : answer' = TokenAnswer(form, outcome)
    BY <1>4 DEF Token
  <2>3. IsAnswer(answer')
    BY <2>1, <2>2, TokenAnswers
  <2>4. TypeOK'
    BY <1>4, <2>1, <2>2, <2>3 DEF Token, TypeOK
  <2>5. Progress'
    BY <1>4 DEF Token, Progress
  <2> QED  BY <2>4, <2>5
<1>5. CASE CorrectAuthorize
  <2>1. PICK sample \in AuthorizeSamples : Correct(sample)
    BY <1>5 DEF CorrectAuthorize
  <2>2. sample \in AuthorizeForm /\ Valid("authorize", sample)
    BY SamplesAssumption
  <2>3. form \in AuthorizeForm
    BY <1>5 DEF CorrectAuthorize, TypeOK
  <2>4. Reported = DOMAIN Validate("authorize", form)
    BY <1>5, ReportedIsFound DEF CorrectAuthorize
  <2>5. form' \in AuthorizeForm /\ Valid("authorize", form')
    BY <2>1, <2>2, <2>3, <2>4, CorrectedAuthorize DEF Correct
  <2>6. TypeOK'
    BY <1>5, <2>1, <2>5 DEF CorrectAuthorize, Correct, TypeOK
  <2>7. Progress'
    BY <1>5, <2>1, <2>5 DEF CorrectAuthorize, Correct, Progress
  <2> QED  BY <2>6, <2>7
<1>6. CASE CorrectToken
  <2>1. PICK sample \in TokenSamples :
            form.grant_type \in {"absent", sample.grant_type} /\ Correct(sample)
    BY <1>6 DEF CorrectToken
  <2>2. sample \in TokenForm /\ Valid("token", sample)
    BY SamplesAssumption
  <2>3. form \in TokenForm
    BY <1>6 DEF CorrectToken, TypeOK
  <2>4. Reported = DOMAIN Validate("token", form)
    BY <1>6, ReportedIsFound DEF CorrectToken
  <2>5. /\ form' \in TokenForm
        /\ form'.grant_type # "absent"
        /\ form.grant_type # "absent" => Valid("token", form')
    BY <2>1, <2>2, <2>3, <2>4, CorrectedToken DEF Correct
  <2>6. TypeOK'
    BY <1>6, <2>1, <2>5 DEF CorrectToken, Correct, TypeOK
  <2>7. Progress'
    BY <1>6, <2>1, <2>5 DEF CorrectToken, Correct, Progress, TypeOK
  <2> QED  BY <2>6, <2>7
<1>7. CASE Leave
  BY <1>7 DEF Leave, TypeOK, Progress
<1>8. CASE UNCHANGED vars
  BY <1>8 DEF vars, TypeOK, Progress
<1> QED
  BY <1>1, <1>2, <1>3, <1>4, <1>5, <1>6, <1>7, <1>8 DEF Next

\* Types, and what corrections achieve, hold for every set of requests.
THEOREM RequestsInvariance == Spec => []IInv
BY InitInv, StepInv, PTL DEF Spec

\* A caller that corrects what validator.Struct reports is told of missing or
\* malformed fields at most once by /oauth/authorize, twice by /oauth/token.
THEOREM FewRoundsHolds == Spec => []FewRounds
<1>1. IInv => FewRounds
  <2> SUFFICES ASSUME IInv, pc = "answered", Reported # {}
               PROVE  sends <= IF endpoint = "authorize" THEN 1 ELSE 2
    BY DEF FewRounds
  <2>1. CASE endpoint = "authorize"
    BY <2>1, ReportedIsFound DEF IInv, TypeOK, Progress, Valid
  <2>2. CASE endpoint = "token"
    BY <2>2, ReportedIsFound DEF IInv, TypeOK, Progress, Valid
  <2> QED  BY <2>1, <2>2 DEF IInv, TypeOK
<1> QED  BY <1>1, RequestsInvariance, PTL

\* Every answer of /oauth/token is marked no-store, and 401 always says how to
\* authenticate (noStore, writeTokenError).
THEOREM NoStoreAlwaysHolds == Spec => []NoStoreAlways
<1>1. IInv => NoStoreAlways
  <2> SUFFICES ASSUME IInv, pc = "answered", endpoint = "token"
               PROVE  "no-store" \in answer.headers /\ (answer.status = 401 <=> "challenge" \in answer.headers)
    BY DEF NoStoreAlways
  <2>0. form \in TokenForm
    BY DEF IInv, TypeOK
  <2>1. PICK outcome \in ExchangeOutcomes : answer = TokenAnswer(form, outcome)
    BY DEF IInv, TypeOK
  <2> QED  BY <2>0, <2>1, TokenAnswers
<1> QED  BY <1>1, RequestsInvariance, PTL

\* Whoever gets past resolveClient authenticated in exactly one place.
THEOREM OneCredentialHolds == Spec => []OneCredential
<1>1. IInv => OneCredential
  <2> SUFFICES ASSUME IInv, pc = "answered", endpoint = "token",
                      answer.status = 200 \/ Reported # {}
               PROVE  OkBasic(form) <=> ~ HasBody(form)
    BY DEF OneCredential
  <2>0. form \in TokenForm
    BY DEF IInv, TypeOK
  <2>1. PICK outcome \in ExchangeOutcomes : answer = TokenAnswer(form, outcome)
    BY DEF IInv, TypeOK
  <2>2. resolveClient(form) = "none"
    BY <2>0, <2>1, TokenAnswers DEF Reported
  <2> QED  BY <2>0, <2>2 DEF resolveClient, OkBasic, HasBody, TokenForm
<1> QED  BY <1>1, RequestsInvariance, PTL
=============================================================================
