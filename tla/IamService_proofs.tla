-------------------------- MODULE IamService_proofs --------------------------
(***************************************************************************)
(* Theorems about IamService, for every value of its constants: any number *)
(* of users, clients and concurrent requests, any forms.                   *)
(***************************************************************************)
EXTENDS IamInvariant, IamRefinement, TLAPS

-----------------------------------------------------------------------------
(* Type correctness *)

LEMMA InitTypeOK == Init => TypeOK
BY NoneAssumption
   DEF Init, StoresInit, SessionInit, AuthorizeInit, TokenInit, TypeOK, StoresTypeOK,
       SessionTypeOK, AuthorizeTypeOK, TokenTypeOK, LoginRequest, Passwords,
       AuthorizeRequest, TokenRequest, TokenAnswers

-----------------------------------------------------------------------------
(* Logins and logouts *)

\* An answered request of each kind stays as it was answered.
LoginKept == \A s \in SessionIds : login[s].pc = "done" => login'[s] = login[s]
AuthzKept == \A c \in CodeIds : authz[c].pc = "done" => authz'[c] = authz[c]

\* Whatever logins do, what authorize requests rely on stays.
LEMMA LoginFrame ==
    ASSUME IInv, LoginKept, UNCHANGED authz
    PROVE  AuthorizeProgress' /\ AuthorizeUser'
<1>1. /\ AuthorizeTypeOK
      /\ LoginProgress
      /\ AuthorizeProgress
      /\ AuthorizeUser
  BY DEF IInv, TypeOK
<1>2. \A s \in CookiesIssued : login[s].pc = "done" /\ login'[s] = login[s]
  BY <1>1, NoneAssumption DEF LoginProgress, CookiesIssued, LoginKept
<1>3. CookiesIssued \subseteq CookiesIssued'
  BY <1>2 DEF CookiesIssued
<1>4. AuthorizeProgress'
  BY <1>1, <1>3 DEF AuthorizeProgress, Redirected, CodesIssued
<1>5. \A c \in CodeIds : authz[c].user # None => authz[c].cookie \in CookiesIssued
  BY <1>1 DEF AuthorizeProgress, AuthorizeUser
<1>6. AuthorizeUser'
  BY <1>1, <1>2, <1>5 DEF AuthorizeUser
<1> QED
  BY <1>4, <1>6

LEMMA LoginKeptBySteps ==
    ASSUME SessionTypeOK, NEW s \in SessionIds,
           \/ \E email \in Users \cup {None}, password \in Passwords :
                 LoginArrive(s, email, password)
           \/ LoginStep(s)
           \/ LoginFails(s)
    PROVE  LoginKept /\ UNCHANGED logoutAnswers
BY DEF SessionTypeOK, LoginRequest, LoginArrive, LoginStep, LoginLookup, OpenSession,
       LoginFails, AnswerLogin, LoginKept, stores

\* The parts of the invariant that speak of logins and sessions.
SessionPart == LoginProgress /\ SessionOrigin /\ SignedOutIsGone

LEMMA LoginPart ==
    ASSUME TypeOK, SessionPart, NEW s \in SessionIds,
           \/ \E email \in Users \cup {None}, password \in Passwords :
                 LoginArrive(s, email, password)
           \/ LoginStep(s)
           \/ LoginFails(s)
    PROVE  SessionTypeOK' /\ sessions' \in [SessionIds -> Users \cup {None}] /\ SessionPart'
<1>1. /\ SessionTypeOK
      /\ sessions \in [SessionIds -> Users \cup {None}]
      /\ users \subseteq Users
      /\ None \notin Users
  BY NoneAssumption DEF TypeOK, StoresTypeOK
<1>2. \A r \in SessionIds : r # s => login'[r] = login[r] /\ sessions'[r] = sessions[r]
  BY <1>1 DEF SessionTypeOK, LoginRequest, LoginArrive, LoginStep, LoginLookup, OpenSession,
              LoginFails, AnswerLogin, CreateSession, Write, stores
<1>3. logoutAnswers' = logoutAnswers
  BY DEF LoginArrive, LoginStep, LoginLookup, OpenSession, LoginFails, stores
<1>4. CASE \E email \in Users \cup {None}, password \in Passwords :
              LoginArrive(s, email, password)
  BY <1>1, <1>2, <1>3, <1>4
     DEF LoginArrive, SessionTypeOK, LoginRequest, Passwords, SessionPart, LoginProgress,
         SessionOrigin, SignedOutIsGone, SignedOut, CookiesIssued, stores
<1>5. CASE LoginLookup(s)
  BY <1>1, <1>2, <1>3, <1>5
     DEF LoginLookup, Authenticated, UserExists, AnswerLogin, SessionTypeOK, LoginRequest,
         SessionPart, LoginProgress, SessionOrigin, SignedOutIsGone, SignedOut, CookiesIssued,
         stores
<1>6. CASE \E outcome \in Outcomes : OpenSession(s, outcome)
  BY <1>1, <1>2, <1>3, <1>6
     DEF OpenSession, Outcomes, CreateSession, Write, AnswerLogin, SessionTypeOK, LoginRequest,
         SessionPart, LoginProgress, SessionOrigin, SignedOutIsGone, SignedOut, CookiesIssued
<1>7. CASE LoginFails(s)
  BY <1>1, <1>2, <1>3, <1>7
     DEF LoginFails, AnswerLogin, SessionTypeOK, LoginRequest, SessionPart, LoginProgress,
         SessionOrigin, SignedOutIsGone, SignedOut, CookiesIssued, stores
<1> QED
  BY <1>4, <1>5, <1>6, <1>7 DEF LoginStep

LEMMA LogoutPart ==
    ASSUME TypeOK, SessionPart, NEW s \in SessionIds, NEW outcome \in Outcomes,
           Logout(s, outcome)
    PROVE  SessionTypeOK' /\ sessions' \in [SessionIds -> Users \cup {None}] /\ SessionPart'
BY DEF TypeOK, StoresTypeOK, SessionTypeOK, SessionPart, LoginProgress, SessionOrigin,
       SignedOutIsGone, SignedOut, CookiesIssued, Logout, DestroySession, Write, Outcomes

LEMMA SessionLapsePart ==
    ASSUME TypeOK, SessionPart, NEW s \in SessionIds, SessionLapse(s),
           UNCHANGED <<login, logoutAnswers>>
    PROVE  sessions' \in [SessionIds -> Users \cup {None}] /\ SessionPart'
BY DEF TypeOK, StoresTypeOK, SessionTypeOK, SessionPart, LoginProgress, SessionOrigin,
       SignedOutIsGone, SignedOut, CookiesIssued, SessionLapse

-----------------------------------------------------------------------------
(* Authorize requests *)

AuthorizePart == AuthorizeProgress /\ AuthorizeUser /\ CodeOrigin

\* The code of an authorize request about to save it can be stored.
LEMMA BindingType ==
    ASSUME AuthorizeTypeOK, NEW c \in CodeIds, authz[c].form # None, authz[c].user # None
    PROVE  Binding(authz[c]) \in AuthCode
BY AuthorizeFormsAssumption
   DEF AuthorizeTypeOK, AuthorizeRequest, AuthorizeForm, AuthCode, Binding

LEMMA AuthorizeArrivePart ==
    ASSUME TypeOK, SessionPart, AuthorizePart, NEW c \in CodeIds, NEW form \in AuthorizeForms,
           NEW cookie \in CookiesIssued \cup {None}, AuthorizeArrive(c, form, cookie),
           UNCHANGED login
    PROVE  AuthorizeTypeOK' /\ AuthorizePart' /\ AuthzKept
BY NoneAssumption, AuthorizeFormsAssumption
   DEF TypeOK, AuthorizeTypeOK, AuthorizeRequest, StoresTypeOK, AuthorizePart, AuthorizeProgress,
       AuthorizeUser, CodeOrigin, Binding, AuthzKept, AuthorizeArrive, CookiesIssued, stores,
       Redirected, ErrorsToClient, CodesIssued

LEMMA AuthorizeLookupClientPart ==
    ASSUME TypeOK, AuthorizePart, NEW c \in CodeIds, AuthorizeLookupClient(c), UNCHANGED login
    PROVE  AuthorizeTypeOK' /\ AuthorizePart' /\ AuthzKept
<1>1. /\ AuthorizeTypeOK
      /\ authz[c].pc = "client"
      /\ authz[c].form # None
      /\ codes' = codes
      /\ CookiesIssued' = CookiesIssued
  BY DEF TypeOK, AuthorizePart, AuthorizeProgress, AuthorizeLookupClient, CookiesIssued, stores
<1>2. CASE EarlyAnswer(authz[c].form) = "pending"
  <2>1. RedirectAllowed(authz[c].form) /\ ScopeAllowed(authz[c].form)
    BY <1>2 DEF EarlyAnswer
  <2>2. authz' = [authz EXCEPT ![c].pc = "session"]
    BY <1>2 DEF AuthorizeLookupClient
  <2> QED
    BY <1>1, <2>1, <2>2
       DEF AuthorizeTypeOK, AuthorizeRequest, AuthorizePart, AuthorizeProgress, AuthorizeUser,
           CodeOrigin, Binding, AuthzKept, Redirected, ErrorsToClient, CodesIssued
<1>3. CASE EarlyAnswer(authz[c].form) # "pending"
  <2> DEFINE early == EarlyAnswer(authz[c].form)
  <2>1. /\ early \in {"reject_direct", "invalid_scope", "invalid_request"}
        /\ early # "reject_direct" => RedirectAllowed(authz[c].form)
    BY <1>3 DEF EarlyAnswer
  <2>2. authz' = [authz EXCEPT ![c].pc = "done", ![c].answer = early]
    BY <1>3 DEF AuthorizeLookupClient, AnswerAuthorize
  <2> HIDE DEF early
  <2> QED
    BY <1>1, <2>1, <2>2
       DEF AuthorizeTypeOK, AuthorizeRequest, AuthorizePart, AuthorizeProgress, AuthorizeUser,
           CodeOrigin, Binding, AuthzKept, Redirected, ErrorsToClient, CodesIssued
<1> QED
  BY <1>2, <1>3

LEMMA AuthorizeCheckSessionPart ==
    ASSUME TypeOK, SessionPart, AuthorizePart, NEW c \in CodeIds, AuthorizeCheckSession(c),
           UNCHANGED login
    PROVE  AuthorizeTypeOK' /\ AuthorizePart' /\ AuthzKept
<1> DEFINE user == GetSession(authz[c].cookie)
<1>1. /\ AuthorizeTypeOK
      /\ authz[c].pc = "session"
      /\ authz[c].form # None
      /\ RedirectAllowed(authz[c].form) /\ ScopeAllowed(authz[c].form)
      /\ codes' = codes
      /\ CookiesIssued' = CookiesIssued
  BY DEF TypeOK, AuthorizePart, AuthorizeProgress, AuthorizeCheckSession, CookiesIssued, stores
<1>2. user \in Users \cup {None}
  BY DEF TypeOK, StoresTypeOK, GetSession, Lookup
<1>3. CASE user = None
  <2>1. PICK answer \in {"login_required", "require_login"} :
          authz' = [authz EXCEPT ![c].pc = "done", ![c].answer = answer]
    BY <1>3 DEF AuthorizeCheckSession, AnswerAuthorize
  <2> QED
    BY <1>1, <2>1
       DEF AuthorizeTypeOK, AuthorizeRequest, AuthorizePart, AuthorizeProgress, AuthorizeUser,
           CodeOrigin, Binding, AuthzKept, Redirected, ErrorsToClient, CodesIssued
<1>4. CASE user # None
  <2>1. authz' = [authz EXCEPT ![c].pc = "code", ![c].user = user]
    BY <1>4 DEF AuthorizeCheckSession
  <2>2. /\ authz[c].cookie # None
        /\ login[authz[c].cookie].password = "correct"
        /\ login[authz[c].cookie].email = user
    BY <1>4, NoneAssumption
       DEF TypeOK, StoresTypeOK, SessionPart, SessionOrigin, GetSession, Lookup
  <2> HIDE DEF user
  <2>3. AuthorizeTypeOK'
    <3> DEFINE r == [authz[c] EXCEPT !.pc = "code", !.user = user]
    <3>1. authz[c] \in AuthorizeRequest
      BY <1>1 DEF AuthorizeTypeOK
    <3>2. r \in AuthorizeRequest
      BY <1>2, <3>1 DEF AuthorizeRequest
    <3>3. authz' = [authz EXCEPT ![c] = r]
      BY <2>1
    <3> HIDE DEF r
    <3> QED
      BY <1>1, <3>2, <3>3 DEF AuthorizeTypeOK
  <2>4. AuthorizeProgress'
    BY <1>1, <1>4, <2>1
       DEF AuthorizeTypeOK, AuthorizeRequest, AuthorizePart, AuthorizeProgress, Redirected,
           CodesIssued
  <2>5. AuthorizeUser'
    BY <1>1, <2>1, <2>2 DEF AuthorizeTypeOK, AuthorizeRequest, AuthorizePart, AuthorizeUser
  <2>6. CodeOrigin' /\ AuthzKept
    BY <1>1, <2>1
       DEF AuthorizeTypeOK, AuthorizeRequest, AuthorizePart, CodeOrigin, Binding, AuthzKept,
           CodesIssued
  <2> QED
    BY <2>3, <2>4, <2>5, <2>6 DEF AuthorizePart
<1> QED
  BY <1>3, <1>4

LEMMA AuthorizeSaveCodePart ==
    ASSUME TypeOK, AuthorizePart, NEW c \in CodeIds, NEW outcome \in Outcomes,
           AuthorizeSaveCode(c, outcome), UNCHANGED login
    PROVE  /\ AuthorizeTypeOK' /\ AuthorizePart' /\ AuthzKept
           /\ codes' \in [CodeIds -> AuthCode \cup {None}]
           /\ authz[c].pc # "done" /\ \A d \in CodeIds : d # c => codes'[d] = codes[d]
<1>1. /\ AuthorizeTypeOK
      /\ authz[c].pc = "code"
      /\ authz[c].form # None /\ authz[c].user # None
      /\ RedirectAllowed(authz[c].form) /\ ScopeAllowed(authz[c].form)
      /\ codes \in [CodeIds -> AuthCode \cup {None}]
      /\ CookiesIssued' = CookiesIssued
  BY DEF TypeOK, StoresTypeOK, AuthorizePart, AuthorizeProgress, AuthorizeSaveCode, CookiesIssued
<1>2. Binding(authz[c]) \in AuthCode
  BY <1>1, BindingType
<1>3. PICK answer \in {"issue_code", "server_error"} :
        authz' = [authz EXCEPT ![c].pc = "done", ![c].answer = answer]
  BY DEF AuthorizeSaveCode, AnswerAuthorize
<1>4. \A d \in CodeIds : Binding(authz'[d]) = Binding(authz[d])
  BY <1>1, <1>3 DEF AuthorizeTypeOK, AuthorizeRequest, Binding
<1>5. \/ codes' = codes
      \/ codes' = [codes EXCEPT ![c] = Binding(authz[c])]
  BY DEF AuthorizeSaveCode, CreateCode, Write
<1>6. codes' \in [CodeIds -> AuthCode \cup {None}] /\ \A d \in CodeIds : d # c => codes'[d] = codes[d]
  BY <1>1, <1>2, <1>5
<1>7. CodeOrigin'
  BY <1>1, <1>3, <1>4, <1>5, <1>6 DEF AuthorizePart, CodeOrigin, AuthorizeTypeOK, AuthorizeRequest
<1>8. AuthorizeTypeOK' /\ AuthorizeProgress' /\ AuthorizeUser' /\ AuthzKept
  BY <1>1, <1>3
     DEF AuthorizeTypeOK, AuthorizeRequest, AuthorizePart, AuthorizeProgress, AuthorizeUser,
         AuthzKept, Redirected, ErrorsToClient, CodesIssued, AuthorizeSaveCode
<1> QED
  BY <1>1, <1>6, <1>7, <1>8 DEF AuthorizePart

LEMMA AuthorizeFailsPart ==
    ASSUME TypeOK, AuthorizePart, NEW c \in CodeIds, AuthorizeFails(c), UNCHANGED login
    PROVE  AuthorizeTypeOK' /\ AuthorizePart' /\ AuthzKept
BY DEF TypeOK, AuthorizeTypeOK, AuthorizeRequest, AuthorizePart, AuthorizeProgress,
       AuthorizeUser, CodeOrigin, Binding, AuthzKept, AuthorizeFails, AnswerAuthorize,
       CookiesIssued, stores, Redirected, ErrorsToClient, CodesIssued

-----------------------------------------------------------------------------
(* Token requests *)

TokenPart == TokenProgress /\ HolderHasCode /\ OneHolder
RowPart   == TokenOrigin /\ NoOrphanTokens /\ GrantedIsDurable

\* Whatever authorize requests do, and whatever code lapses, what token
\* requests rely on stays.
LEMMA AuthzFrame ==
    ASSUME TypeOK, AuthorizeProgress, TokenPart, AuthzKept, UNCHANGED tok,
           \A c \in CodeIds : authz[c].pc = "done" => codes'[c] \in {codes[c], None}
    PROVE  TokenPart'
<1>1. \A c \in CodesIssued : /\ c \in CodeIds
                             /\ authz[c].pc = "done"
                             /\ authz'[c] = authz[c]
                             /\ c \in CodesIssued'
                             /\ codes'[c] \in {codes[c], None}
  BY DEF CodesIssued, AuthorizeProgress, AuthzKept
<1>2. TokenProgress'
  BY <1>1 DEF TokenPart, TokenProgress, Minted, ClaimsFor
<1>3. \A t \in TokenIds : tok[t].data # None => tok[t].code \in CodesIssued
  BY DEF TokenPart, TokenProgress, HolderHasCode
<1>4. HolderHasCode'
  BY <1>1, <1>3 DEF TokenPart, HolderHasCode, Binding
<1>5. OneHolder'
  BY DEF TokenPart, OneHolder
<1> QED
  BY <1>2, <1>4, <1>5 DEF TokenPart

\* A step of one token request leaves the others alone.
Others(t) == \A r \in TokenIds : r # t => tok'[r] = tok[r]

LEMMA TokenArrivePart ==
    ASSUME TypeOK, TokenPart, RowPart, NEW t \in TokenIds, NEW form \in TokenForms,
           NEW code \in CodesIssued \cup {None}, TokenArrive(t, form, code),
           UNCHANGED authz
    PROVE  TokenTypeOK' /\ TokenPart' /\ RowPart'
<1> DEFINE early == FrontDoorAnswer(form)
<1>1. early \in TokenAnswers \cup {"pending"} /\ early # "granted"
  BY DEF FrontDoorAnswer, CredentialAnswer, TokenAnswers
<1>2. /\ tok[t].pc = "idle"
      /\ tok' = [tok EXCEPT
            ![t] = [pc     |-> IF early = "pending" THEN "client" ELSE "done",
                    form   |-> form,
                    code   |-> code,
                    data   |-> None,
                    claims |-> None,
                    answer |-> early]]
      /\ codes' = codes /\ tokens' = tokens /\ users' = users
      /\ CodesIssued' = CodesIssued
  BY DEF TokenArrive, stores, CodesIssued
<1>3. form # None /\ code \in CodeIds \cup {None}
  BY TokenFormsAssumption DEF CodesIssued
<1>4. TokenTypeOK
  BY DEF TypeOK
<1> HIDE DEF early
<1>5. TokenTypeOK'
  BY <1>1, <1>2, <1>3, <1>4 DEF TokenTypeOK, TokenRequest
<1>6. TokenProgress'
  BY <1>1, <1>2, <1>3, <1>4
     DEF TokenTypeOK, TokenRequest, TokenPart, TokenProgress, Minted, ClaimsFor
<1>7. HolderHasCode' /\ OneHolder'
  BY <1>1, <1>2, <1>4
     DEF TokenTypeOK, TokenRequest, TokenPart, HolderHasCode, OneHolder, Binding
<1>8. RowPart'
  BY <1>1, <1>2, <1>4
     DEF TokenTypeOK, TokenRequest, RowPart, TokenOrigin, NoOrphanTokens, UserExists, GrantedIsDurable
<1> QED
  BY <1>5, <1>6, <1>7, <1>8 DEF TokenPart

\* A request record that keeps its type keeps that of all of them.
LEMMA TokenTypeStep ==
    ASSUME TokenTypeOK, NEW t \in TokenIds, NEW r \in TokenRequest, tok' = [tok EXCEPT ![t] = r]
    PROVE  TokenTypeOK'
  BY DEF TokenTypeOK

LEMMA TokenAnswerType ==
    ASSUME TokenTypeOK, NEW t \in TokenIds, NEW answer \in TokenAnswers, AnswerToken(t, answer)
    PROVE  TokenTypeOK'
<1> DEFINE r == [tok[t] EXCEPT !.pc = "done", !.answer = answer]
<1>1. tok[t] \in TokenRequest
  BY DEF TokenTypeOK
<1>2. r \in TokenRequest
  BY <1>1 DEF TokenRequest
<1>3. tok' = [tok EXCEPT ![t] = r]
  BY DEF AnswerToken
<1> HIDE DEF r
<1> QED
  BY <1>2, <1>3, TokenTypeStep

\* An answer other than "granted" to a request that minted nothing.
LEMMA RefusalPart ==
    ASSUME TypeOK, TokenPart, RowPart, NEW t \in TokenIds, NEW answer \in TokenAnswers,
           answer # "granted", tok[t].pc # "idle", tok[t].pc # "done",
           AnswerToken(t, answer),
           UNCHANGED <<authz, users, tokens>>,
           \A c \in CodeIds : codes'[c] \in {codes[c], None}
    PROVE  TokenTypeOK' /\ TokenPart' /\ RowPart'
<1>1. TokenTypeOK /\ answer # "pending" /\ CodesIssued' = CodesIssued
  BY DEF TypeOK, TokenAnswers, CodesIssued
<1>2. tok' = [tok EXCEPT ![t].pc = "done", ![t].answer = answer]
  BY DEF AnswerToken
<1>3. TokenTypeOK'
  BY <1>1, TokenAnswerType
<1>4. TokenProgress'
  BY <1>1, <1>2 DEF TokenTypeOK, TokenRequest, TokenPart, TokenProgress, Minted, ClaimsFor
<1>5. HolderHasCode' /\ OneHolder'
  <2>1. HolderHasCode'
    BY <1>1, <1>2 DEF TokenTypeOK, TokenRequest, TokenPart, HolderHasCode, Binding
  <2>2. OneHolder'
    BY <1>1, <1>2 DEF TokenTypeOK, TokenRequest, TokenPart, OneHolder
  <2> QED
    BY <2>1, <2>2
<1>6. RowPart'
  BY <1>1, <1>2
     DEF TokenTypeOK, TokenRequest, RowPart, TokenOrigin, NoOrphanTokens, UserExists, GrantedIsDurable
<1> QED
  BY <1>3, <1>4, <1>5, <1>6 DEF TokenPart

LEMMA TokenLookupClientPart ==
    ASSUME TypeOK, TokenPart, RowPart, NEW t \in TokenIds, TokenLookupClient(t), UNCHANGED authz
    PROVE  TokenTypeOK' /\ TokenPart' /\ RowPart'
<1>1. CASE ClientAuthenticated(tok[t].form)
  <2>1. /\ tok[t].pc = "client"
        /\ tok' = [tok EXCEPT ![t].pc = "consume"]
        /\ codes' = codes /\ tokens' = tokens /\ users' = users
        /\ TokenTypeOK
        /\ CodesIssued' = CodesIssued
    BY <1>1 DEF TokenLookupClient, stores, TypeOK, CodesIssued
  <2>2. TokenTypeOK'
    BY <2>1 DEF TokenTypeOK, TokenRequest
  <2>3. TokenProgress'
    BY <1>1, <2>1 DEF TokenTypeOK, TokenRequest, TokenPart, TokenProgress, Minted, ClaimsFor
  <2>4. HolderHasCode' /\ OneHolder'
    BY <2>1 DEF TokenTypeOK, TokenRequest, TokenPart, HolderHasCode, OneHolder, Binding
  <2>5. RowPart'
    BY <2>1
       DEF TokenTypeOK, TokenRequest, RowPart, TokenOrigin, NoOrphanTokens, UserExists, GrantedIsDurable
  <2> QED
    BY <2>2, <2>3, <2>4, <2>5 DEF TokenPart
<1>2. CASE ~ ClientAuthenticated(tok[t].form)
  BY <1>2, RefusalPart DEF TokenLookupClient, TokenAnswers, stores
<1> QED
  BY <1>1, <1>2

\* Only a key that is present is consumed, and then it is absent.
LEMMA ConsumeCodeEffect ==
    ASSUME codes \in [CodeIds -> AuthCode \cup {None}], NEW c \in CodeIds \cup {None},
           NEW outcome \in {"ok", "lost"}, ConsumeCode(c, outcome)
    PROVE  /\ codes' \in [CodeIds -> AuthCode \cup {None}]
           /\ \A d \in CodeIds : codes'[d] \in {codes[d], None}
           /\ \A d \in CodeIds : d # c => codes'[d] = codes[d]
           /\ c \in CodeIds => codes'[c] = None
BY DEF ConsumeCode, Write

LEMMA TokenConsumePart ==
    ASSUME TypeOK, CodeOrigin, AuthorizeProgress, TokenPart, RowPart, NEW t \in TokenIds,
           TokenConsume(t), UNCHANGED authz
    PROVE  TokenTypeOK' /\ TokenPart' /\ RowPart'
<1> DEFINE data == Lookup(codes, tok[t].code)
           matches == data # None /\ CodeMatches(tok[t].form, data)
           code == tok[t].code
<1>1. /\ tok[t].pc = "consume"
      /\ tok' = [tok EXCEPT ![t].data   = data,
                            ![t].pc     = IF matches THEN "user" ELSE "done",
                            ![t].answer = IF matches THEN "pending" ELSE "invalid_grant"]
      /\ ConsumeCode(code, "ok")
      /\ users' = users /\ tokens' = tokens
      /\ CodesIssued' = CodesIssued
  BY DEF TokenConsume, CodesIssued
<1>2. /\ TokenTypeOK
      /\ codes \in [CodeIds -> AuthCode \cup {None}]
      /\ code \in CodeIds \cup {None}
  BY DEF TypeOK, StoresTypeOK, TokenTypeOK, TokenRequest
<1>3. /\ \A d \in CodeIds : d # code => codes'[d] = codes[d]
      /\ code \in CodeIds => codes'[code] = None
  BY <1>1, <1>2, ConsumeCodeEffect
<1>4. data \in AuthCode \cup {None}
  BY <1>2 DEF Lookup
<1>5. data # None => code \in CodeIds /\ code # None /\ codes[code] = data
  BY <1>2, NoneAssumption DEF Lookup
<1>6. data # None => data = Binding(authz[code])
  BY <1>5 DEF CodeOrigin
<1>7. data # None => \A r \in TokenIds : tok[r].data # None => tok[r].code # code
  BY <1>5 DEF TokenPart, HolderHasCode
<1>8. matches => data # None /\ CodeMatches(tok[t].form, data)
  OBVIOUS
<1> HIDE DEF data, matches
<1>9. TokenTypeOK'
  BY <1>1, <1>2, <1>4 DEF TokenTypeOK, TokenRequest, TokenAnswers
<1>10. TokenProgress'
  BY <1>1, <1>2, <1>8 DEF TokenTypeOK, TokenRequest, TokenPart, TokenProgress, Minted, ClaimsFor
<1>11. /\ Others(t)
       /\ tok'[t].data = data /\ tok'[t].code = code
  BY <1>1, <1>2 DEF TokenTypeOK, TokenRequest, Others
<1>12. \A r \in TokenIds : tok[r].data # None => tok[r].code \in CodeIds
  BY <1>2 DEF TokenTypeOK, TokenRequest, TokenPart, HolderHasCode
<1>13. HolderHasCode'
  <2> SUFFICES ASSUME NEW r \in TokenIds, tok'[r].data # None
               PROVE  /\ tok'[r].code # None
                      /\ codes'[tok'[r].code] = None
                      /\ tok'[r].data = Binding(authz[tok'[r].code])
    BY DEF HolderHasCode, Binding
  <2>1. CASE r = t
    BY <1>3, <1>5, <1>6, <1>11, <2>1
  <2>2. CASE r # t
    BY <1>3, <1>11, <1>12, <2>2 DEF Others, TokenPart, HolderHasCode
  <2> QED
    BY <2>1, <2>2
<1>14. OneHolder'
  BY <1>7, <1>11 DEF Others, TokenPart, OneHolder
<1>15. RowPart'
  BY <1>1, <1>2
     DEF TokenTypeOK, TokenRequest, RowPart, TokenOrigin, NoOrphanTokens, UserExists, GrantedIsDurable
<1> QED
  BY <1>9, <1>10, <1>13, <1>14, <1>15 DEF TokenPart

LEMMA TokenConsumeLostPart ==
    ASSUME TypeOK, TokenPart, RowPart, NEW t \in TokenIds, TokenConsumeLost(t), UNCHANGED authz
    PROVE  TokenTypeOK' /\ TokenPart' /\ RowPart'
<1>1. codes \in [CodeIds -> AuthCode \cup {None}] /\ tok[t].code \in CodeIds \cup {None}
  BY DEF TypeOK, StoresTypeOK, TokenTypeOK, TokenRequest
<1>2. \A c \in CodeIds : codes'[c] \in {codes[c], None}
  BY <1>1, ConsumeCodeEffect DEF TokenConsumeLost
<1> QED
  BY <1>2, RefusalPart DEF TokenConsumeLost, TokenAnswers

LEMMA TokenLoadUserPart ==
    ASSUME TypeOK, TokenPart, RowPart, NEW t \in TokenIds, TokenLoadUser(t), UNCHANGED authz
    PROVE  TokenTypeOK' /\ TokenPart' /\ RowPart'
<1>1. CASE UserExists(tok[t].data.user)
  <2>1. /\ tok[t].pc = "user"
        /\ tok' = [tok EXCEPT ![t].pc = "store", ![t].claims = ClaimsFor(t)]
        /\ codes' = codes /\ tokens' = tokens /\ users' = users
        /\ TokenTypeOK
        /\ CodesIssued' = CodesIssued
    BY <1>1 DEF TokenLoadUser, stores, TypeOK, CodesIssued
  <2>2. /\ tok[t].data \in AuthCode
        /\ tok[t].form \in TokenForms
    BY <2>1 DEF TokenTypeOK, TokenRequest, TokenPart, TokenProgress
  <2>3. ClaimsFor(t) \in IamClaims /\ ClaimsFor(t) # None
    BY <2>2, TokenFormsAssumption, NoneAssumption DEF ClaimsFor, AuthCode, TokenForm, IamClaims
  <2>4. TokenTypeOK'
    <3> DEFINE r == [tok[t] EXCEPT !.pc = "store", !.claims = ClaimsFor(t)]
    <3>1. tok[t] \in TokenRequest
      BY <2>1 DEF TokenTypeOK
    <3>2. r \in TokenRequest
      BY <3>1, <2>3 DEF TokenRequest
    <3>3. tok' = [tok EXCEPT ![t] = r]
      BY <2>1
    <3> HIDE DEF r
    <3> QED
      BY <2>1, <3>2, <3>3, TokenTypeStep
  <2>5. TokenProgress'
    BY <2>1, <2>3 DEF TokenTypeOK, TokenRequest, TokenPart, TokenProgress, Minted, ClaimsFor
  <2>6. HolderHasCode' /\ OneHolder'
    BY <2>1 DEF TokenTypeOK, TokenRequest, TokenPart, HolderHasCode, OneHolder, Binding
  <2>7. RowPart'
    BY <2>1
       DEF TokenTypeOK, TokenRequest, RowPart, TokenOrigin, NoOrphanTokens, UserExists,
           GrantedIsDurable, TokenPart, TokenProgress
  <2> QED
    BY <2>4, <2>5, <2>6, <2>7 DEF TokenPart
<1>2. CASE ~ UserExists(tok[t].data.user)
  BY <1>2, RefusalPart DEF TokenLoadUser, TokenAnswers, stores
<1> QED
  BY <1>1, <1>2

LEMMA TokenStorePart ==
    ASSUME TypeOK, TokenPart, RowPart, NEW t \in TokenIds, NEW outcome \in Outcomes,
           TokenStore(t, outcome), UNCHANGED authz
    PROVE  TokenTypeOK' /\ TokenPart' /\ RowPart' /\ tokens' \in [TokenIds -> IamClaims \cup {None}]
<1>1. /\ tok[t].pc = "store"
      /\ tok' = [tok EXCEPT ![t].pc = "done", ![t].answer = StoreAnswer(outcome)]
      /\ codes' = codes /\ users' = users
      /\ TokenTypeOK
      /\ tokens \in [TokenIds -> IamClaims \cup {None}]
      /\ CodesIssued' = CodesIssued
  BY DEF TokenStore, AnswerToken, TypeOK, StoresTypeOK, CodesIssued
<1>2. /\ outcome = "failed" => tokens' = tokens
      /\ outcome # "failed" => /\ tokens' = [tokens EXCEPT ![t] = tok[t].claims]
                               /\ tok[t].claims.user \in users
      /\ StoreAnswer(outcome) = IF outcome = "ok" THEN "granted" ELSE "invalid_grant"
  BY DEF TokenStore, InsertToken, Write, UserExists, StoreAnswer
<1>3. Minted(t) /\ tok[t].claims \in IamClaims
  BY <1>1 DEF TokenTypeOK, TokenRequest, TokenPart, TokenProgress, Minted
<1>4. TokenTypeOK' /\ tokens' \in [TokenIds -> IamClaims \cup {None}]
  <2>1. StoreAnswer(outcome) \in TokenAnswers
    BY <1>2 DEF TokenAnswers
  <2>2. TokenTypeOK'
    BY <1>1, <2>1, TokenAnswerType DEF TokenStore
  <2>3. tokens' \in [TokenIds -> IamClaims \cup {None}]
    BY <1>1, <1>2, <1>3
  <2> QED
    BY <2>2, <2>3
<1>5. TokenProgress'
  BY <1>1, <1>2, <1>3 DEF TokenTypeOK, TokenRequest, TokenPart, TokenProgress, Minted, ClaimsFor
<1>6. HolderHasCode' /\ OneHolder'
  BY <1>1 DEF TokenTypeOK, TokenRequest, TokenPart, HolderHasCode, OneHolder, Binding
<1>7. RowPart'
  BY <1>1, <1>2
     DEF TokenTypeOK, TokenRequest, RowPart, TokenOrigin, NoOrphanTokens, UserExists,
         GrantedIsDurable, Outcomes
<1> QED
  BY <1>4, <1>5, <1>6, <1>7 DEF TokenPart

LEMMA TokenFailsPart ==
    ASSUME TypeOK, TokenPart, RowPart, NEW t \in TokenIds, TokenFails(t), UNCHANGED authz
    PROVE  TokenTypeOK' /\ TokenPart' /\ RowPart'
BY RefusalPart DEF TokenFails, TokenAnswers, stores

-----------------------------------------------------------------------------
(* The stores and the process *)

LEMMA CodeLapsePart ==
    ASSUME IInv, NEW c \in CodeIds, CodeLapse(c), UNCHANGED <<login, logoutAnswers, authz, tok>>
    PROVE  IInv'
<1>1. /\ TypeOK /\ SessionPart /\ AuthorizePart /\ TokenPart /\ RowPart
      /\ codes \in [CodeIds -> AuthCode \cup {None}]
      /\ users' = users /\ sessions' = sessions /\ tokens' = tokens
      /\ codes' = [codes EXCEPT ![c] = None]
  BY DEF IInv, TypeOK, StoresTypeOK, SessionPart, AuthorizePart, TokenPart, RowPart, CodeLapse
<1>2. TypeOK'
  BY <1>1 DEF TypeOK, StoresTypeOK, SessionTypeOK, AuthorizeTypeOK, TokenTypeOK
<1>3. SessionPart' /\ RowPart'
  BY <1>1 DEF SessionPart, LoginProgress, SessionOrigin, SignedOutIsGone, SignedOut, CookiesIssued,
              RowPart, TokenOrigin, NoOrphanTokens, UserExists, GrantedIsDurable
<1>4. AuthorizePart'
  BY <1>1 DEF AuthorizePart, AuthorizeProgress, AuthorizeUser, CodeOrigin, Binding, CookiesIssued,
              Redirected, CodesIssued
<1>5. TokenPart'
  BY <1>1, AuthzFrame DEF AuthorizePart, AuthzKept
<1> QED
  BY <1>2, <1>3, <1>4, <1>5 DEF IInv, SessionPart, AuthorizePart, TokenPart, RowPart

LEMMA DeleteUserPart ==
    ASSUME TypeOK, RowPart, NEW u \in Users, DeleteUser(u), UNCHANGED tok
    PROVE  StoresTypeOK' /\ RowPart'
<1>1. /\ users' = users \ {u}
      /\ tokens' = [t \in TokenIds |->
                        IF tokens[t] # None /\ tokens[t].user = u THEN None ELSE tokens[t]]
      /\ sessions' = sessions /\ codes' = codes
      /\ StoresTypeOK
  BY DEF DeleteUser, CascadeFrom, TypeOK
<1>2. StoresTypeOK'
  BY <1>1 DEF StoresTypeOK
<1>3. TokenOrigin' /\ NoOrphanTokens'
  BY <1>1 DEF RowPart, TokenOrigin, NoOrphanTokens, UserExists
<1>4. GrantedIsDurable'
  BY <1>1 DEF RowPart, GrantedIsDurable
<1> QED
  BY <1>2, <1>3, <1>4 DEF RowPart

\* Dying answers the requests in progress, as aborted, and leaves the others.
LEMMA AbortedLogin ==
    ASSUME SessionTypeOK, Crash, NEW s \in SessionIds
    PROVE  /\ login'[s] \in LoginRequest
           /\ login'[s].email = login[s].email /\ login'[s].password = login[s].password
           /\ login[s].pc \in {"idle", "done"} => login'[s] = login[s]
           /\ login[s].pc \notin {"idle", "done"}
                 => login'[s].pc = "done" /\ login'[s].answer = "aborted"
<1>1. /\ login'[s] = IF login[s].pc \in {"idle", "done"} THEN login[s]
                     ELSE [login[s] EXCEPT !.pc = "done", !.answer = "aborted"]
      /\ login[s] \in LoginRequest
  <2>1. login \in [SessionIds -> LoginRequest] /\ login' = Aborted(login)
    BY DEF SessionTypeOK, Crash
  <2> QED
    BY <2>1 DEF Aborted
<1> QED
  BY <1>1 DEF LoginRequest

LEMMA AbortedAuthorize ==
    ASSUME AuthorizeTypeOK, Crash, NEW c \in CodeIds
    PROVE  /\ authz'[c] \in AuthorizeRequest
           /\ authz'[c].form = authz[c].form /\ authz'[c].user = authz[c].user
           /\ authz'[c].cookie = authz[c].cookie
           /\ authz[c].pc \in {"idle", "done"} => authz'[c] = authz[c]
           /\ authz[c].pc \notin {"idle", "done"}
                 => authz'[c].pc = "done" /\ authz'[c].answer = "aborted"
<1>1. /\ authz'[c] = IF authz[c].pc \in {"idle", "done"} THEN authz[c]
                     ELSE [authz[c] EXCEPT !.pc = "done", !.answer = "aborted"]
      /\ authz[c] \in AuthorizeRequest
  BY DEF AuthorizeTypeOK, Crash, Aborted
<1> QED
  BY <1>1 DEF AuthorizeRequest

LEMMA AbortedToken ==
    ASSUME TokenTypeOK, Crash, NEW t \in TokenIds
    PROVE  /\ tok'[t] \in TokenRequest
           /\ tok'[t].form = tok[t].form /\ tok'[t].code = tok[t].code
           /\ tok'[t].data = tok[t].data /\ tok'[t].claims = tok[t].claims
           /\ tok[t].pc \in {"idle", "done"} => tok'[t] = tok[t]
           /\ tok[t].pc \notin {"idle", "done"} => tok'[t].pc = "done" /\ tok'[t].answer = "aborted"
<1>1. /\ tok'[t] = IF tok[t].pc \in {"idle", "done"} THEN tok[t]
                   ELSE [tok[t] EXCEPT !.pc = "done", !.answer = "aborted"]
      /\ tok[t] \in TokenRequest
  BY DEF TokenTypeOK, Crash, Aborted
<1> QED
  BY <1>1 DEF TokenRequest, TokenAnswers

LEMMA CrashType ==
    ASSUME TypeOK, Crash
    PROVE  TypeOK'
<1>1. StoresTypeOK' /\ logoutAnswers' \in [SessionIds -> SUBSET {204, 500}]
  BY DEF TypeOK, StoresTypeOK, SessionTypeOK, Crash, stores
<1>2. login' \in [SessionIds -> LoginRequest]
  BY AbortedLogin DEF TypeOK, SessionTypeOK, Crash, Aborted
<1>3. authz' \in [CodeIds -> AuthorizeRequest]
  BY AbortedAuthorize DEF TypeOK, AuthorizeTypeOK, Crash, Aborted
<1>4. tok' \in [TokenIds -> TokenRequest]
  BY AbortedToken DEF TypeOK, TokenTypeOK, Crash, Aborted
<1> QED
  BY <1>1, <1>2, <1>3, <1>4 DEF TypeOK, SessionTypeOK, AuthorizeTypeOK, TokenTypeOK

LEMMA CrashPart ==
    ASSUME IInv, Crash
    PROVE  IInv'
<1>1. /\ TypeOK /\ SessionPart /\ AuthorizePart /\ TokenPart /\ RowPart
      /\ users' = users /\ sessions' = sessions /\ tokens' = tokens /\ codes' = codes
      /\ logoutAnswers' = logoutAnswers
  BY DEF IInv, SessionPart, AuthorizePart, TokenPart, RowPart, Crash, stores
<1>2. TypeOK'
  BY <1>1, CrashType
<1>3. SessionTypeOK /\ AuthorizeTypeOK /\ TokenTypeOK
  BY <1>1 DEF TypeOK
<1>4. ASSUME NEW s \in SessionIds
      PROVE  /\ s \in CookiesIssued <=> s \in CookiesIssued'
             /\ login[s].pc = "done" => login'[s] = login[s]
  BY <1>1, <1>3, AbortedLogin DEF SessionPart, LoginProgress, CookiesIssued
<1>5. LoginProgress'
  BY <1>1, <1>3, AbortedLogin DEF SessionPart, LoginProgress
<1>6. SessionPart'
  BY <1>1, <1>4, <1>5 DEF SessionPart, SessionOrigin, SignedOutIsGone, SignedOut
<1>7. \A s \in SessionIds :
        /\ s \in CookiesIssued => s \in CookiesIssued'
        /\ login'[s].password = login[s].password /\ login'[s].email = login[s].email
  BY <1>3, <1>4, AbortedLogin
<1>8. ASSUME NEW c \in CodeIds
      PROVE  /\ c \in CodesIssued <=> c \in CodesIssued'
             /\ Redirected(c)' => Redirected(c)
             /\ Binding(authz[c])' = Binding(authz[c])
             /\ authz'[c].form = authz[c].form /\ authz'[c].user = authz[c].user
             /\ authz'[c].cookie = authz[c].cookie
             /\ authz'[c].pc # authz[c].pc => authz'[c].pc = "done" /\ authz'[c].answer = "aborted"
             /\ authz'[c].pc = authz[c].pc => authz'[c] = authz[c]
  <2>1. c \in CodesIssued <=> c \in CodesIssued'
    BY <1>1, <1>3, AbortedAuthorize DEF AuthorizePart, AuthorizeProgress, CodesIssued
  <2>2. Redirected(c)' => Redirected(c)
    BY <1>1, <1>3, AbortedAuthorize
       DEF AuthorizePart, AuthorizeProgress, Redirected, ErrorsToClient
  <2>3. Binding(authz[c])' = Binding(authz[c])
    BY <1>3, AbortedAuthorize DEF Binding
  <2>4. \/ authz[c].pc \in {"idle", "done"} /\ authz'[c] = authz[c]
        \/ authz[c].pc # "done" /\ authz'[c].pc = "done" /\ authz'[c].answer = "aborted"
    BY <1>3, AbortedAuthorize
  <2> QED
    BY <1>3, <2>1, <2>2, <2>3, <2>4, AbortedAuthorize
<1>9. AuthorizePart'
  <2>1. \A c \in CodeIds : authz[c].cookie # None => authz[c].cookie \in SessionIds
    BY <1>1 DEF AuthorizePart, AuthorizeProgress, CookiesIssued
  <2>2. ASSUME NEW c \in CodeIds
        PROVE  /\ authz'[c].answer # "pending" <=> authz'[c].pc = "done"
               /\ authz'[c].pc # "idle" => authz'[c].form # None
               /\ authz'[c].cookie # None => authz'[c].cookie \in CookiesIssued'
               /\ authz'[c].pc \in {"session", "code"} \/ Redirected(c)'
                     => RedirectAllowed(authz'[c].form)
               /\ authz'[c].pc \in {"session", "code"} \/ c \in CodesIssued'
                     => ScopeAllowed(authz'[c].form)
               /\ authz'[c].pc = "code" \/ c \in CodesIssued' => authz'[c].user # None
    <3>1. CASE authz'[c] = authz[c]
      BY <1>1, <1>7, <1>8, <2>1, <3>1 DEF AuthorizePart, AuthorizeProgress
    <3>2. CASE authz[c].pc \notin {"idle", "done"}
               /\ authz'[c].pc = "done" /\ authz'[c].answer = "aborted"
      BY <1>1, <1>7, <1>8, <2>1, <3>2 DEF AuthorizePart, AuthorizeProgress
    <3> QED
      BY <1>3, <3>1, <3>2, AbortedAuthorize
  <2>3. AuthorizeUser'
    BY <1>1, <1>7, <1>8, <2>1 DEF AuthorizePart, AuthorizeUser
  <2>4. CodeOrigin'
    BY <1>1, <1>8 DEF AuthorizePart, CodeOrigin
  <2>5. AuthorizeProgress'
    BY <2>2 DEF AuthorizeProgress, RedirectAllowed, ScopeAllowed, GetClient
  <2> QED
    BY <2>3, <2>4, <2>5 DEF AuthorizePart
<1>10. ASSUME NEW t \in TokenIds
       PROVE  /\ tok'[t].form = tok[t].form /\ tok'[t].code = tok[t].code
              /\ tok'[t].data = tok[t].data /\ tok'[t].claims = tok[t].claims
              /\ tok'[t].pc # tok[t].pc => tok'[t].pc = "done" /\ tok'[t].answer = "aborted"
              /\ tok'[t].pc = tok[t].pc => tok'[t] = tok[t]
              /\ tok[t].code # None => tok[t].code \in CodesIssued'
  <2>1. \/ tok[t].pc \in {"idle", "done"} /\ tok'[t] = tok[t]
        \/ tok[t].pc # "done" /\ tok'[t].pc = "done" /\ tok'[t].answer = "aborted"
    BY <1>3, AbortedToken
  <2>2. tok[t].code # None => tok[t].code \in CodesIssued'
    BY <1>1, <1>8 DEF TokenPart, TokenProgress, CodesIssued
  <2> QED
    BY <1>3, <2>1, <2>2, AbortedToken
<1>11. TokenPart'
  <2>1. ASSUME NEW t \in TokenIds
        PROVE  /\ tok'[t].answer # "pending" <=> tok'[t].pc = "done"
               /\ tok'[t].pc # "idle" => tok'[t].form # None
               /\ tok'[t].code # None => tok'[t].code \in CodesIssued'
               /\ tok'[t].pc \in {"idle", "client", "consume"} => tok'[t].data = None
               /\ tok'[t].pc \in {"consume", "user", "store"} \/ Minted(t)'
                     => ClientAuthenticated(tok'[t].form)
               /\ tok'[t].pc \in {"user", "store"} \/ Minted(t)'
                     => tok'[t].data # None /\ CodeMatches(tok'[t].form, tok'[t].data)
               /\ tok'[t].pc \in {"idle", "client", "consume", "user"} => ~ Minted(t)'
               /\ tok'[t].pc = "store" \/ tok'[t].answer = "granted" => Minted(t)'
               /\ Minted(t)' => tok'[t].claims = ClaimsFor(t)'
    <3>1. CASE tok'[t] = tok[t]
      BY <1>1, <1>10, <3>1 DEF TokenPart, TokenProgress, Minted, ClaimsFor
    <3>2. CASE tok[t].pc \notin {"idle", "done"}
               /\ tok'[t].pc = "done" /\ tok'[t].answer = "aborted"
      BY <1>1, <1>10, <3>2 DEF TokenPart, TokenProgress, Minted, ClaimsFor
    <3> QED
      BY <1>3, <3>1, <3>2, AbortedToken
  <2>2. \A t \in TokenIds : tok[t].data # None => tok[t].code \in CodeIds
    BY <1>1 DEF TokenPart, TokenProgress, HolderHasCode, CodesIssued
  <2>3. HolderHasCode' /\ OneHolder'
    BY <1>1, <1>8, <1>10, <2>2 DEF TokenPart, HolderHasCode, OneHolder
  <2>4. TokenProgress'
    BY <2>1 DEF TokenProgress
  <2> QED
    BY <2>3, <2>4 DEF TokenPart
<1>12. RowPart'
  BY <1>1, <1>10 DEF RowPart, TokenOrigin, NoOrphanTokens, UserExists, GrantedIsDurable
<1> QED
  BY <1>2, <1>6, <1>9, <1>11, <1>12 DEF IInv, SessionPart, AuthorizePart, TokenPart, RowPart

-----------------------------------------------------------------------------
(* The inductive invariant *)

LEMMA InitIInv == Init => IInv
<1> SUFFICES ASSUME Init PROVE IInv
  OBVIOUS
<1>1. TypeOK
  BY InitTypeOK
<1>2. LoginProgress /\ SessionOrigin /\ SignedOutIsGone
  BY DEF Init, StoresInit, SessionInit, LoginProgress, SessionOrigin, SignedOutIsGone, SignedOut
<1>3. AuthorizeProgress /\ AuthorizeUser /\ CodeOrigin
  BY DEF Init, StoresInit, AuthorizeInit, AuthorizeProgress, AuthorizeUser, CodeOrigin, Redirected,
         ErrorsToClient, CodesIssued
<1>4. TokenProgress /\ HolderHasCode /\ OneHolder
  BY DEF Init, TokenInit, TokenProgress, HolderHasCode, OneHolder, Minted
<1>5. TokenOrigin /\ NoOrphanTokens /\ GrantedIsDurable
  BY DEF Init, StoresInit, TokenInit, TokenOrigin, NoOrphanTokens, GrantedIsDurable
<1> QED
  BY <1>1, <1>2, <1>3, <1>4, <1>5 DEF IInv

\* Steps of the browser: logins and logouts, then authorize requests.
LEMMA SessionStepIInv ==
    ASSUME IInv, SessionNext, UNCHANGED <<authz, tok>>
    PROVE  IInv'
<1>1. TypeOK /\ SessionPart /\ AuthorizePart /\ TokenPart /\ RowPart
  BY DEF IInv, SessionPart, AuthorizePart, TokenPart, RowPart
<1>2. UNCHANGED <<users, codes, tokens>>
  BY DEF SessionNext, LoginArrive, LoginStep, LoginLookup, OpenSession, LoginFails, Logout, stores
<1>3. SessionTypeOK' /\ sessions' \in [SessionIds -> Users \cup {None}] /\ SessionPart' /\ LoginKept
  <2>1. PICK s \in SessionIds :
          \/ \E email \in Users \cup {None}, password \in Passwords :
                LoginArrive(s, email, password)
          \/ LoginStep(s)
          \/ LoginFails(s)
          \/ \E outcome \in Outcomes : Logout(s, outcome)
    BY DEF SessionNext
  <2>2. ASSUME NEW outcome \in Outcomes, Logout(s, outcome)
        PROVE  SessionTypeOK' /\ sessions' \in [SessionIds -> Users \cup {None}] /\ SessionPart'
               /\ LoginKept
    BY <1>1, <2>2, LogoutPart DEF Logout, LoginKept
  <2> QED
    BY <1>1, <2>1, <2>2, LoginPart, LoginKeptBySteps DEF TypeOK
<1>4. TypeOK'
  BY <1>1, <1>2, <1>3 DEF TypeOK, StoresTypeOK, AuthorizeTypeOK, TokenTypeOK
<1>5. AuthorizePart'
  BY <1>1, <1>2, <1>3, LoginFrame DEF AuthorizePart, CodeOrigin, Binding
<1>6. TokenPart' /\ RowPart'
  BY <1>1, <1>2
     DEF TokenPart, TokenProgress, HolderHasCode, OneHolder, Minted, ClaimsFor, Binding, CodesIssued,
         RowPart, TokenOrigin, NoOrphanTokens, UserExists, GrantedIsDurable
<1> QED
  BY <1>3, <1>4, <1>5, <1>6 DEF IInv, SessionPart, AuthorizePart, TokenPart, RowPart

LEMMA AuthorizeStepIInv ==
    ASSUME IInv, NEW c \in CodeIds,
           \/ \E form \in AuthorizeForms, cookie \in CookiesIssued \cup {None} :
                 AuthorizeArrive(c, form, cookie)
           \/ AuthorizeStep(c)
           \/ AuthorizeFails(c),
           UNCHANGED <<login, logoutAnswers, tok>>
    PROVE  IInv'
<1>1. TypeOK /\ SessionPart /\ AuthorizePart /\ TokenPart /\ RowPart
  BY DEF IInv, SessionPart, AuthorizePart, TokenPart, RowPart
<1>2. UNCHANGED <<users, sessions, tokens>>
  BY DEF AuthorizeArrive, AuthorizeStep, AuthorizeLookupClient, AuthorizeCheckSession,
         AuthorizeSaveCode, AuthorizeFails, stores
<1>3. /\ AuthorizeTypeOK' /\ AuthorizePart' /\ AuthzKept
      /\ codes' \in [CodeIds -> AuthCode \cup {None}]
      /\ \A d \in CodeIds : authz[d].pc = "done" => codes'[d] \in {codes[d], None}
  <2>1. codes \in [CodeIds -> AuthCode \cup {None}]
    BY <1>1 DEF TypeOK, StoresTypeOK
  <2>2. CASE \E form \in AuthorizeForms, cookie \in CookiesIssued \cup {None} :
                AuthorizeArrive(c, form, cookie)
    BY <1>1, <2>1, <2>2, AuthorizeArrivePart DEF AuthorizeArrive, stores
  <2>3. CASE AuthorizeLookupClient(c)
    BY <1>1, <2>1, <2>3, AuthorizeLookupClientPart DEF AuthorizeLookupClient, stores
  <2>4. CASE AuthorizeCheckSession(c)
    BY <1>1, <2>1, <2>4, AuthorizeCheckSessionPart DEF AuthorizeCheckSession, stores
  <2>5. CASE \E outcome \in Outcomes : AuthorizeSaveCode(c, outcome)
    BY <1>1, <2>1, <2>5, AuthorizeSaveCodePart
  <2>6. CASE AuthorizeFails(c)
    BY <1>1, <2>1, <2>6, AuthorizeFailsPart DEF AuthorizeFails, stores
  <2> QED
    BY <2>2, <2>3, <2>4, <2>5, <2>6 DEF AuthorizeStep
<1>4. TypeOK'
  BY <1>1, <1>2, <1>3 DEF TypeOK, StoresTypeOK, SessionTypeOK, TokenTypeOK
<1>5. SessionPart' /\ RowPart'
  BY <1>1, <1>2
     DEF SessionPart, LoginProgress, SessionOrigin, SignedOutIsGone, SignedOut, CookiesIssued,
         RowPart, TokenOrigin, NoOrphanTokens, UserExists, GrantedIsDurable
<1>6. TokenPart'
  BY <1>1, <1>3, AuthzFrame DEF AuthorizePart
<1> QED
  BY <1>3, <1>4, <1>5, <1>6 DEF IInv, SessionPart, AuthorizePart, TokenPart, RowPart

LEMMA TokenStepIInv ==
    ASSUME IInv, NEW t \in TokenIds,
           \/ \E form \in TokenForms, code \in CodesIssued \cup {None} : TokenArrive(t, form, code)
           \/ TokenStep(t)
           \/ TokenConsumeLost(t)
           \/ TokenFails(t),
           UNCHANGED <<login, logoutAnswers, authz>>
    PROVE  IInv'
<1>1. TypeOK /\ SessionPart /\ AuthorizePart /\ TokenPart /\ RowPart
  BY DEF IInv, SessionPart, AuthorizePart, TokenPart, RowPart
<1>2. /\ codes \in [CodeIds -> AuthCode \cup {None}]
      /\ tokens \in [TokenIds -> IamClaims \cup {None}]
      /\ tok[t].code \in CodeIds \cup {None}
  BY <1>1 DEF TypeOK, StoresTypeOK, TokenTypeOK, TokenRequest
<1>3. UNCHANGED <<users, sessions>>
  BY DEF TokenArrive, TokenStep, TokenLookupClient, TokenConsume, TokenLoadUser, TokenStore,
         TokenConsumeLost, TokenFails, stores
<1>4. /\ TokenTypeOK' /\ TokenPart' /\ RowPart'
      /\ tokens' \in [TokenIds -> IamClaims \cup {None}]
      /\ codes' \in [CodeIds -> AuthCode \cup {None}]
      /\ \A c \in CodeIds : codes'[c] \in {codes[c], None}
  <2>1. CASE \E form \in TokenForms, code \in CodesIssued \cup {None} : TokenArrive(t, form, code)
    BY <1>1, <1>2, <2>1, TokenArrivePart DEF TokenArrive, stores
  <2>2. CASE TokenLookupClient(t)
    BY <1>1, <1>2, <2>2, TokenLookupClientPart DEF TokenLookupClient, stores
  <2>3. CASE TokenConsume(t)
    BY <1>1, <1>2, <2>3, TokenConsumePart, ConsumeCodeEffect DEF TokenConsume, AuthorizePart
  <2>4. CASE TokenLoadUser(t)
    BY <1>1, <1>2, <2>4, TokenLoadUserPart DEF TokenLoadUser, stores
  <2>5. CASE \E outcome \in Outcomes : TokenStore(t, outcome)
    BY <1>1, <1>2, <2>5, TokenStorePart DEF TokenStore
  <2>6. CASE TokenConsumeLost(t)
    BY <1>1, <1>2, <2>6, TokenConsumeLostPart, ConsumeCodeEffect DEF TokenConsumeLost
  <2>7. CASE TokenFails(t)
    BY <1>1, <1>2, <2>7, TokenFailsPart DEF TokenFails, stores
  <2> QED
    BY <2>1, <2>2, <2>3, <2>4, <2>5, <2>6, <2>7 DEF TokenStep
<1>5. TypeOK'
  BY <1>1, <1>3, <1>4 DEF TypeOK, StoresTypeOK, SessionTypeOK, AuthorizeTypeOK
<1>6. SessionPart' /\ AuthorizePart'
  <2>1. SessionPart'
    BY <1>1, <1>3
       DEF SessionPart, LoginProgress, SessionOrigin, SignedOutIsGone, SignedOut, CookiesIssued
  <2>2. AuthorizeProgress' /\ AuthorizeUser'
    BY <1>1, <1>3
       DEF AuthorizePart, AuthorizeProgress, AuthorizeUser, Redirected, CodesIssued, CookiesIssued
  <2>3. CodeOrigin'
    BY <1>1, <1>3, <1>4 DEF AuthorizePart, CodeOrigin, Binding
  <2> QED
    BY <2>1, <2>2, <2>3 DEF AuthorizePart
<1> QED
  BY <1>4, <1>5, <1>6 DEF IInv, SessionPart, AuthorizePart, TokenPart, RowPart

LEMMA StorageStepIInv ==
    ASSUME IInv, Storage
    PROVE  IInv'
<1>1. TypeOK /\ SessionPart /\ AuthorizePart /\ TokenPart /\ RowPart
  BY DEF IInv, SessionPart, AuthorizePart, TokenPart, RowPart
<1>2. UNCHANGED <<login, logoutAnswers, authz, tok>>
  BY DEF Storage
<1>3. ASSUME NEW s \in SessionIds, SessionLapse(s)
      PROVE  IInv'
  <2>1. sessions' \in [SessionIds -> Users \cup {None}] /\ SessionPart'
    BY <1>1, <1>2, <1>3, SessionLapsePart
  <2>2. TypeOK'
    BY <1>1, <1>2, <1>3, <2>1
       DEF TypeOK, StoresTypeOK, SessionTypeOK, AuthorizeTypeOK, TokenTypeOK, SessionLapse
  <2>3. AuthorizePart'
    BY <1>1, <1>2, <1>3
       DEF SessionLapse, AuthorizePart, AuthorizeProgress, AuthorizeUser, CodeOrigin, Binding,
           Redirected, CodesIssued, CookiesIssued
  <2>4. TokenPart'
    BY <1>1, <1>2, <1>3
       DEF SessionLapse, CodesIssued, TokenPart, TokenProgress, HolderHasCode, OneHolder, Binding,
           Minted, ClaimsFor
  <2>5. RowPart'
    BY <1>1, <1>2, <1>3
       DEF SessionLapse, RowPart, TokenOrigin, NoOrphanTokens, UserExists, GrantedIsDurable
  <2> QED
    BY <2>1, <2>2, <2>3, <2>4, <2>5 DEF IInv, SessionPart, AuthorizePart, TokenPart, RowPart
<1>4. ASSUME NEW c \in CodeIds, CodeLapse(c)
      PROVE  IInv'
  BY <1>2, <1>4, CodeLapsePart
<1>5. ASSUME NEW u \in Users, DeleteUser(u)
      PROVE  IInv'
  <2>1. StoresTypeOK' /\ RowPart'
    BY <1>1, <1>2, <1>5, DeleteUserPart
  <2>2. TypeOK'
    BY <1>1, <1>2, <2>1 DEF TypeOK, SessionTypeOK, AuthorizeTypeOK, TokenTypeOK
  <2>3. SessionPart'
    BY <1>1, <1>2, <1>5
       DEF DeleteUser, SessionPart, LoginProgress, SessionOrigin, SignedOutIsGone, SignedOut,
           CookiesIssued
  <2>4. AuthorizePart'
    BY <1>1, <1>2, <1>5
       DEF DeleteUser, AuthorizePart, AuthorizeProgress, AuthorizeUser, CodeOrigin, Binding,
           Redirected, CodesIssued, CookiesIssued
  <2>5. TokenPart'
    BY <1>1, <1>2, <1>5
       DEF DeleteUser, CodesIssued, TokenPart, TokenProgress, HolderHasCode, OneHolder, Binding,
           Minted, ClaimsFor
  <2> QED
    BY <2>1, <2>2, <2>3, <2>4, <2>5 DEF IInv, SessionPart, AuthorizePart, TokenPart, RowPart
<1> QED
  BY <1>3, <1>4, <1>5 DEF Storage

LEMMA StutterIInv ==
    ASSUME IInv, UNCHANGED vars
    PROVE  IInv'
<1>1. UNCHANGED <<users, sessions, codes, tokens, login, logoutAnswers, authz, tok>>
  BY DEF vars
<1>2. TypeOK'
  BY <1>1 DEF IInv, TypeOK, StoresTypeOK, SessionTypeOK, AuthorizeTypeOK, TokenTypeOK
<1>3. (LoginProgress /\ SessionOrigin /\ SignedOutIsGone)'
  BY <1>1 DEF IInv, LoginProgress, SessionOrigin, SignedOutIsGone, SignedOut, CookiesIssued
<1>4. (AuthorizeProgress /\ AuthorizeUser /\ CodeOrigin)'
  BY <1>1 DEF IInv, AuthorizeProgress, AuthorizeUser, CodeOrigin, Binding, Redirected, CodesIssued,
              CookiesIssued
<1>5. (TokenProgress /\ HolderHasCode /\ OneHolder)'
  BY <1>1 DEF IInv, TokenProgress, HolderHasCode, OneHolder, Minted, ClaimsFor, Binding, CodesIssued
<1>6. (TokenOrigin /\ NoOrphanTokens /\ GrantedIsDurable)'
  BY <1>1 DEF IInv, TokenOrigin, NoOrphanTokens, UserExists, GrantedIsDurable
<1> QED
  BY <1>2, <1>3, <1>4, <1>5, <1>6 DEF IInv

LEMMA NextIInv ==
    ASSUME IInv, [Next]_vars
    PROVE  IInv'
<1>1. CASE SessionNext /\ UNCHANGED <<authz, tok>>
  BY <1>1, SessionStepIInv
<1>2. CASE /\ \E c \in CodeIds :
                \/ \E form \in AuthorizeForms, cookie \in CookiesIssued \cup {None} :
                      AuthorizeArrive(c, form, cookie)
                \/ AuthorizeStep(c)
                \/ AuthorizeFails(c)
           /\ UNCHANGED <<login, logoutAnswers, tok>>
  BY <1>2, AuthorizeStepIInv
<1>3. CASE ClientBackend
  BY <1>3, TokenStepIInv DEF ClientBackend
<1>4. CASE Storage
  BY <1>4, StorageStepIInv
<1>5. CASE Crash
  BY <1>5, CrashPart
<1>6. CASE UNCHANGED vars
  BY <1>6, StutterIInv
<1> QED
  BY <1>1, <1>2, <1>3, <1>4, <1>5, <1>6 DEF Next, Browser

\* Every part of the inductive invariant holds in every reachable state,
\* however many requests run, whatever fails and whenever the process dies.
THEOREM Invariance == Spec => []IInv
<1>1. Init => IInv
  BY InitIInv
<1>2. IInv /\ [Next]_vars => IInv'
  BY NextIInv
<1> QED
  BY <1>1, <1>2, PTL DEF Spec

-----------------------------------------------------------------------------
(* What the service promises, from the invariant *)

\* In every reachable state the variables are the records and functions the
\* handlers and stores hold.
THEOREM TypeCorrect == Spec => []TypeOK
<1>1. IInv => TypeOK
  BY DEF IInv
<1> QED
  BY <1>1, Invariance, PTL

\* One code mints tokens for at most one token request, of any number.
THEOREM SingleUseHolds == Spec => []SingleUse
<1>1. IInv => SingleUse
  BY DEF IInv, SingleUse, OneHolder, TokenProgress
<1> QED
  BY <1>1, Invariance, PTL

\* Tokens go only to the client the code was issued to, authenticated, with
\* the redirect URI and the verifier of the authorize request.
THEOREM GrantBindingHolds == Spec => []GrantBinding
<1>1. ASSUME IInv, NEW t \in TokenIds, Minted(t)
      PROVE  LET form   == tok[t].form
                 client == GetClient(form.client)
                 asked  == authz[tok[t].code].form
             IN /\ tok[t].code \in CodesIssued
                /\ form.client = asked.client
                /\ form.uri = asked.uri
                /\ S256(form.verifier) = asked.challenge
                /\ client # None
                /\ client.secret = None \/ client.secret = Bcrypt(PresentedSecret(form))
  <2>1. /\ ClientAuthenticated(tok[t].form)
        /\ CodeMatches(tok[t].form, tok[t].data)
        /\ tok[t].data = Binding(authz[tok[t].code])
        /\ tok[t].code \in CodesIssued
    BY <1>1 DEF IInv, TokenProgress, HolderHasCode
  <2> QED
    BY <2>1 DEF ClientAuthenticated, CodeMatches, Binding
<1>2. IInv => GrantBinding
  BY <1>1 DEF GrantBinding
<1> QED
  BY <1>2, Invariance, PTL

\* Tokens are minted in the name of the user whose password opened the
\* session the authorize request carried.
THEOREM GrantUserHolds == Spec => []GrantUser
<1>1. ASSUME IInv, NEW t \in TokenIds, Minted(t)
      PROVE  LET cookie == authz[tok[t].code].cookie
             IN /\ cookie \in CookiesIssued
                /\ login[cookie].password = "correct"
                /\ login[cookie].email = tok[t].claims.user
  <2>1. /\ tok[t].claims = ClaimsFor(t)
        /\ tok[t].data = Binding(authz[tok[t].code])
        /\ tok[t].code \in CodesIssued /\ tok[t].code \in CodeIds
    BY <1>1 DEF IInv, TokenProgress, HolderHasCode, CodesIssued
  <2>2. authz[tok[t].code].user # None /\ authz[tok[t].code].user = tok[t].claims.user
    BY <1>1, <2>1 DEF IInv, AuthorizeProgress, ClaimsFor, Binding
  <2> QED
    BY <1>1, <2>1, <2>2 DEF IInv, AuthorizeProgress, AuthorizeUser
<1>2. IInv => GrantUser
  BY <1>1 DEF GrantUser
<1> QED
  BY <1>2, Invariance, PTL

\* Tokens carry the scope that was asked for, within what the client may ask.
THEOREM GrantScopeHolds == Spec => []GrantScope
<1>1. ASSUME IInv, NEW t \in TokenIds, Minted(t)
      PROVE  /\ tok[t].claims.scope = authz[tok[t].code].form.scope
             /\ tok[t].claims.scope # {}
             /\ tok[t].claims.scope \subseteq GetClient(tok[t].claims.client).scopes
  <2>1. /\ tok[t].claims = ClaimsFor(t)
        /\ CodeMatches(tok[t].form, tok[t].data)
        /\ tok[t].data = Binding(authz[tok[t].code])
        /\ tok[t].code \in CodesIssued /\ tok[t].code \in CodeIds
    BY <1>1 DEF IInv, TokenProgress, HolderHasCode, CodesIssued
  <2>2. ScopeAllowed(authz[tok[t].code].form)
    BY <1>1, <2>1 DEF IInv, AuthorizeProgress
  <2>3. /\ tok[t].claims.scope = tok[t].data.scope
        /\ tok[t].claims.client = tok[t].form.client
    BY <2>1 DEF ClaimsFor
  <2>4. /\ tok[t].data.scope = authz[tok[t].code].form.scope
        /\ tok[t].data.client = authz[tok[t].code].form.client
    BY <2>1 DEF Binding
  <2>5. tok[t].form.client = tok[t].data.client
    BY <2>1 DEF CodeMatches
  <2> QED
    BY <2>2, <2>3, <2>4, <2>5 DEF ScopeAllowed
<1>2. IInv => GrantScope
  BY <1>1 DEF GrantScope
<1> QED
  BY <1>2, Invariance, PTL

\* A browser is only ever redirected to a URI its client registered.
THEOREM RedirectRegisteredHolds == Spec => []RedirectRegistered
<1>1. IInv => RedirectRegistered
  BY DEF IInv, AuthorizeProgress, RedirectRegistered, RedirectAllowed
<1> QED
  BY <1>1, Invariance, PTL

\* A refresh token a client was answered with is in MySQL while its user is.
THEOREM GrantedIsDurableHolds == Spec => []GrantedIsDurable
<1>1. IInv => GrantedIsDurable
  BY DEF IInv
<1> QED
  BY <1>1, Invariance, PTL

\* No refresh token outlives its user.
THEOREM NoOrphanTokensHolds == Spec => []NoOrphanTokens
<1>1. IInv => NoOrphanTokens
  BY DEF IInv
<1> QED
  BY <1>1, Invariance, PTL

-----------------------------------------------------------------------------
(* What a step may never do *)

\* A session whose logout was answered 204 never gets another request past
\* the session check.
THEOREM LogoutIsFinalHolds == Spec => LogoutIsFinal
<1>1. ASSUME IInv, [Next]_vars, NEW c \in CodeIds,
             authz[c].pc = "session", authz'[c].pc = "code"
      PROVE  ~ SignedOut(authz[c].cookie)
  <2>1. GetSession(authz[c].cookie) # None
    <3>1. AuthorizeTypeOK
      BY <1>1 DEF IInv, TypeOK
    <3>2. CASE Crash
      BY <1>1, <3>1, <3>2, AbortedAuthorize
    <3>3. CASE \E d \in CodeIds :
                 \/ \E form \in AuthorizeForms, cookie \in CookiesIssued \cup {None} :
                       AuthorizeArrive(d, form, cookie)
                 \/ AuthorizeStep(d)
                 \/ AuthorizeFails(d)
      BY <1>1, <3>1, <3>3
         DEF AuthorizeTypeOK, AuthorizeRequest, AuthorizeArrive, AuthorizeStep,
             AuthorizeLookupClient, AuthorizeCheckSession, AuthorizeSaveCode, AuthorizeFails,
             AnswerAuthorize
    <3> QED
      BY <1>1, <3>2, <3>3 DEF Next, Browser, ClientBackend, Storage, vars
  <2>2. authz[c].cookie \in SessionIds /\ sessions[authz[c].cookie] # None
    BY <1>1, <2>1 DEF IInv, TypeOK, StoresTypeOK, GetSession, Lookup
  <2> QED
    BY <1>1, <2>2 DEF IInv, SignedOutIsGone
<1>2. IInv /\ [Next]_vars =>
        [\A c \in CodeIds :
            authz[c].pc = "session" /\ authz'[c].pc = "code" => ~ SignedOut(authz[c].cookie)]_vars
  BY <1>1
<1> QED
  BY <1>2, Invariance, PTL DEF Spec, LogoutIsFinal

\* A code that is gone after its request ended stays gone.
THEOREM CodeNeverRevivesHolds == Spec => CodeNeverRevives
<1>1. ASSUME IInv, [Next]_vars, NEW c \in CodeIds, authz[c].pc = "done", codes[c] = None
      PROVE  codes'[c] = None
  <2>1. /\ codes \in [CodeIds -> AuthCode \cup {None}]
        /\ \A t \in TokenIds : tok[t].code \in CodeIds \cup {None}
    BY <1>1 DEF IInv, TypeOK, StoresTypeOK, TokenTypeOK, TokenRequest
  <2>2. CASE \E d \in CodeIds, outcome \in Outcomes : AuthorizeSaveCode(d, outcome)
    BY <1>1, <2>1, <2>2 DEF AuthorizeSaveCode, CreateCode, Write
  <2>3. CASE \E t \in TokenIds : TokenConsume(t) \/ TokenConsumeLost(t)
    BY <1>1, <2>1, <2>3, ConsumeCodeEffect DEF TokenConsume, TokenConsumeLost
  <2>4. CASE \E d \in CodeIds : CodeLapse(d)
    BY <1>1, <2>1, <2>4 DEF CodeLapse
  <2>5. CASE UNCHANGED codes
    BY <1>1, <2>5
  <2>6. \/ UNCHANGED codes
        \/ \E d \in CodeIds, outcome \in Outcomes : AuthorizeSaveCode(d, outcome)
        \/ \E t \in TokenIds : TokenConsume(t) \/ TokenConsumeLost(t)
        \/ \E d \in CodeIds : CodeLapse(d)
    <3>1. CASE Browser
      BY <3>1 DEF Browser, SessionNext, LoginArrive, LoginStep, LoginLookup, OpenSession, LoginFails,
                  Logout, AuthorizeArrive, AuthorizeStep, AuthorizeLookupClient,
                  AuthorizeCheckSession, AuthorizeFails, stores
    <3>2. CASE ClientBackend
      BY <3>2 DEF ClientBackend, TokenArrive, TokenStep, TokenLookupClient, TokenLoadUser, TokenStore,
                  TokenFails, stores
    <3>3. CASE Storage
      BY <3>3 DEF Storage, SessionLapse, DeleteUser
    <3> QED
      BY <1>1, <3>1, <3>2, <3>3 DEF Next, Crash, stores, vars
  <2> QED
    BY <2>2, <2>3, <2>4, <2>5, <2>6
<1>2. IInv /\ [Next]_vars =>
        [\A c \in CodeIds :
            authz[c].pc = "done" /\ codes[c] = None => codes'[c] = None]_vars
  BY <1>1
<1> QED
  BY <1>2, Invariance, PTL DEF Spec, CodeNeverRevives

\* A token request is answered with tokens only while their user exists: the
\* row that the answer follows could not have been inserted otherwise.
THEOREM GrantNeedsUserHolds == Spec => GrantNeedsUser
<1>1. ASSUME IInv, [Next]_vars, NEW t \in TokenIds,
             tok[t].answer # "granted", tok'[t].answer = "granted"
      PROVE  UserExists(tok[t].claims.user)
  <2>1. TokenTypeOK
    BY <1>1 DEF IInv, TypeOK
  <2>2. CASE Crash
    BY <1>1, <2>1, <2>2, AbortedToken
  <2>3. ASSUME NEW r \in TokenIds,
               \/ \E form \in TokenForms, code \in CodesIssued \cup {None} : TokenArrive(r, form, code)
               \/ TokenStep(r)
               \/ TokenConsumeLost(r)
               \/ TokenFails(r)
        PROVE  UserExists(tok[t].claims.user)
    <3>1. ASSUME NEW form \in TokenForms, NEW code, TokenArrive(r, form, code)
          PROVE  tok'[t].answer # "granted"
      <4>1. FrontDoorAnswer(form) # "granted"
        BY DEF FrontDoorAnswer, CredentialAnswer
      <4> QED
        BY <1>1, <2>1, <3>1, <4>1 DEF TokenArrive, TokenTypeOK
    <3>2. ~ TokenLookupClient(r) /\ ~ TokenConsume(r) /\ ~ TokenLoadUser(r)
          /\ ~ TokenConsumeLost(r) /\ ~ TokenFails(r)
      BY <1>1, <2>1
         DEF TokenLookupClient, TokenConsume, TokenLoadUser, TokenConsumeLost, TokenFails,
             AnswerToken, TokenTypeOK, TokenRequest
    <3>3. PICK outcome \in Outcomes : TokenStore(r, outcome)
      BY <2>3, <3>1, <3>2, <1>1 DEF TokenStep
    <3>4. r = t /\ outcome = "ok"
      BY <1>1, <2>1, <3>3 DEF TokenStore, StoreAnswer, AnswerToken, TokenTypeOK, TokenRequest
    <3> QED
      BY <3>3, <3>4 DEF TokenStore, InsertToken
  <2> QED
    BY <1>1, <2>2, <2>3 DEF Next, Browser, ClientBackend, Storage, SessionNext, vars
<1>2. IInv /\ [Next]_vars =>
        [\A t \in TokenIds :
            tok[t].answer # "granted" /\ tok'[t].answer = "granted"
                => UserExists(tok[t].claims.user)]_vars
  BY <1>1
<1> QED
  BY <1>2, Invariance, PTL DEF Spec, GrantNeedsUser

-----------------------------------------------------------------------------
(* IamService implements GrantSpec *)


Unmoved(c) == OfferOf(c)' = OfferOf(c) /\ (Redeemed(c)' <=> Redeemed(c))

\* A step that hands out no code and mints nothing can only end the chances
\* of codes: it is a Void, of none of them when it touches none.
LEMMA FadingStep ==
    ASSUME \A c \in CodeIds : c \in CodesIssued' <=> c \in CodesIssued,
           \A c \in CodeIds : Unmoved(c) /\ (c \in CodesIssued /\ Redeemable(c)' => Redeemable(c)),
           \A t \in TokenIds : tok'[t].claims = tok[t].claims
    PROVE  Grant!GrantNext
<1> DEFINE spent == {c \in CodeIds : StatusOf(c)' # StatusOf(c)}
<1>1. ASSUME NEW c \in CodeIds, StatusOf(c)' # StatusOf(c)
      PROVE  StatusOf(c) = "offered" /\ StatusOf(c)' = "void"
  BY <1>1 DEF StatusOf, Unmoved
<1>2. [c \in CodeIds |-> StatusOf(c)]' =
        [c \in CodeIds |-> IF c \in spent THEN "void" ELSE [d \in CodeIds |-> StatusOf(d)][c]]
  BY <1>1
<1>3. \A c \in spent : [d \in CodeIds |-> StatusOf(d)][c] = "offered"
  BY <1>1
<1>4. /\ [c \in CodeIds |-> OfferOf(c)]' = [c \in CodeIds |-> OfferOf(c)]
      /\ [t \in TokenIds |-> tok[t].claims]' = [t \in TokenIds |-> tok[t].claims]
  BY DEF Unmoved
<1>5. Grant!Void(spent)
  BY <1>2, <1>3, <1>4 DEF Grant!Void
<1>6. spent \in SUBSET CodeIds
  OBVIOUS
<1> QED
  BY <1>5, <1>6 DEF Grant!GrantNext

LEMMA InitGrant == Init => Grant!GrantInit
<1> SUFFICES ASSUME Init PROVE Grant!GrantInit
  OBVIOUS
<1>1. \A c \in CodeIds : StatusOf(c) = "none" /\ OfferOf(c) = None
  BY DEF Init, AuthorizeInit, StatusOf, OfferOf, CodesIssued
<1>2. \A t \in TokenIds : tok[t].claims = None
  BY DEF Init, TokenInit
<1> QED
  BY <1>1, <1>2 DEF Grant!GrantInit

-----------------------------------------------------------------------------
(* Authorize requests *)

\* An authorize step other than the one that discloses a code.
LEMMA QuietAuthorizeStep ==
    ASSUME IInv, AuthzKept, UNCHANGED tok,
           \A c \in CodeIds : c \in CodesIssued' <=> c \in CodesIssued,
           \A c \in CodeIds : authz[c].pc = "done" => codes'[c] \in {codes[c], None}
    PROVE  Grant!GrantNext
<1>1. \A c \in CodesIssued : authz[c].pc = "done" /\ authz'[c] = authz[c]
  BY DEF IInv, AuthorizeProgress, CodesIssued, AuthzKept
<1>2. \A c \in CodeIds : Unmoved(c)
  BY <1>1 DEF Unmoved, OfferOf, Redeemed, Minted
<1>3. \A c \in CodesIssued : Redeemable(c)' => Redeemable(c)
  BY <1>1 DEF Redeemable, Redeeming, CodesIssued
<1> QED
  BY <1>2, <1>3, FadingStep

\* Disclosing a code offers what its request was granted.
LEMMA OfferStep ==
    ASSUME IInv, NEW c \in CodeIds, AuthorizeSaveCode(c, "ok"), UNCHANGED tok
    PROVE  Grant!GrantNext
<1>1. /\ AuthorizeTypeOK
      /\ authz[c].pc = "code"
      /\ authz' = [authz EXCEPT ![c].pc = "done", ![c].answer = "issue_code"]
      /\ codes' = [codes EXCEPT ![c] = Binding(authz[c])]
      /\ codes \in [CodeIds -> AuthCode \cup {None}]
      /\ Binding(authz[c]) \in AuthCode
  BY BindingType
     DEF IInv, TypeOK, StoresTypeOK, AuthorizeProgress, AuthorizeSaveCode, AnswerAuthorize,
         CreateCode, Write
<1>2. /\ \A d \in CodeIds : d # c => authz'[d] = authz[d] /\ codes'[d] = codes[d]
      /\ authz'[c].answer = "issue_code" /\ authz'[c].form = authz[c].form
      /\ authz'[c].user = authz[c].user
      /\ codes'[c] # None
      /\ c \notin CodesIssued /\ c \in CodesIssued'
  BY <1>1, NoneAssumption
     DEF AuthorizeTypeOK, AuthorizeRequest, IInv, AuthorizeProgress, CodesIssued
<1>3. ~ Redeemed(c)'
  BY <1>2 DEF IInv, TokenProgress, HolderHasCode, Redeemed, Minted
<1>4. StatusOf(c) = "none" /\ StatusOf(c)' = "offered"
  BY <1>2, <1>3 DEF StatusOf, Redeemable
<1>5. \A d \in CodeIds : d # c => StatusOf(d)' = StatusOf(d) /\ OfferOf(d)' = OfferOf(d)
  BY <1>2
     DEF StatusOf, OfferOf, Redeemed, Redeemable, Redeeming, Minted, CodesIssued
<1>6. OfferOf(c)' \in IamClaims
  <2>1. authz[c].form \in AuthorizeForm /\ authz[c].user \in Users
    BY <1>1, AuthorizeFormsAssumption
       DEF IInv, AuthorizeProgress, AuthorizeTypeOK, AuthorizeRequest
  <2> QED
    BY <1>2, <2>1 DEF OfferOf, IamClaims, AuthorizeForm
<1>7. [d \in CodeIds |-> StatusOf(d)]' = [[d \in CodeIds |-> StatusOf(d)] EXCEPT ![c] = "offered"]
  BY <1>4, <1>5
<1>8. [d \in CodeIds |-> OfferOf(d)]' = [[d \in CodeIds |-> OfferOf(d)] EXCEPT ![c] = OfferOf(c)']
  BY <1>5
<1>9. Grant!Offer(c)
  BY <1>4, <1>6, <1>7, <1>8 DEF Grant!Offer
<1> QED
  BY <1>9 DEF Grant!GrantNext

LEMMA AuthorizeGrant ==
    ASSUME IInv, NEW c \in CodeIds,
           \/ \E form \in AuthorizeForms, cookie \in CookiesIssued \cup {None} :
                 AuthorizeArrive(c, form, cookie)
           \/ AuthorizeStep(c)
           \/ AuthorizeFails(c),
           UNCHANGED <<login, logoutAnswers, tok>>
    PROVE  Grant!GrantNext
<1>1. TypeOK /\ SessionPart /\ AuthorizePart
  BY DEF IInv, SessionPart, AuthorizePart
<1>2. CASE AuthorizeSaveCode(c, "ok")
  BY <1>2, OfferStep
<1>3. CASE ~ AuthorizeSaveCode(c, "ok")
  <2>1. AuthzKept /\ \A d \in CodeIds : authz[d].pc = "done" => codes'[d] \in {codes[d], None}
    <3>1. CASE \E form \in AuthorizeForms, cookie \in CookiesIssued \cup {None} :
                  AuthorizeArrive(c, form, cookie)
      BY <1>1, <3>1, AuthorizeArrivePart DEF AuthorizeArrive, stores
    <3>2. CASE AuthorizeLookupClient(c)
      BY <1>1, <3>2, AuthorizeLookupClientPart DEF AuthorizeLookupClient, stores
    <3>3. CASE AuthorizeCheckSession(c)
      BY <1>1, <3>3, AuthorizeCheckSessionPart DEF AuthorizeCheckSession, stores
    <3>4. CASE \E outcome \in Outcomes : AuthorizeSaveCode(c, outcome)
      BY <1>1, <3>4, AuthorizeSaveCodePart
    <3>5. CASE AuthorizeFails(c)
      BY <1>1, <3>5, AuthorizeFailsPart DEF AuthorizeFails, stores
    <3> QED
      BY <3>1, <3>2, <3>3, <3>4, <3>5 DEF AuthorizeStep
  <2>2. authz[c].pc # "done" /\ authz'[c].answer # "issue_code"
        /\ \A d \in CodeIds : d # c => authz'[d] = authz[d]
    <3>1. AuthorizeTypeOK
      BY <1>1 DEF TypeOK
    <3>2. \A form : EarlyAnswer(form) # "issue_code"
      BY DEF EarlyAnswer
    <3>3. authz[c].pc # "done" => authz[c].answer = "pending"
      BY DEF IInv, AuthorizeProgress
    <3>4. ASSUME NEW outcome \in Outcomes, AuthorizeSaveCode(c, outcome)
          PROVE  outcome # "ok"
      BY <1>3, <3>4
    <3> QED
      BY <1>3, <3>1, <3>2, <3>3, <3>4
         DEF AuthorizeTypeOK, AuthorizeRequest, AuthorizeArrive, AuthorizeStep,
             AuthorizeLookupClient, AuthorizeCheckSession, AuthorizeSaveCode, AuthorizeFails,
             AnswerAuthorize
  <2>3. authz[c].answer # "issue_code"
    BY <2>2 DEF IInv, AuthorizeProgress
  <2>4. \A d \in CodeIds : d \in CodesIssued' <=> d \in CodesIssued
    BY <2>2, <2>3 DEF CodesIssued
  <2> QED
    BY <2>1, <2>4, QuietAuthorizeStep
<1> QED
  BY <1>2, <1>3

-----------------------------------------------------------------------------
(* Token requests *)

\* A token step that mints nothing and takes the claims of none.
LEMMA QuietTokenStep ==
    ASSUME IInv, NEW t \in TokenIds, UNCHANGED authz,
           \A r \in TokenIds : r # t => tok'[r] = tok[r],
           tok'[t].claims = tok[t].claims,
           Minted(t) => tok'[t].code = tok[t].code,
           \A c \in CodesIssued : codes'[c] # None => codes[c] # None,
           tok'[t].pc = "user" => codes[tok'[t].code] # None \/ (tok[t].pc = "user" /\ tok'[t].code = tok[t].code)
    PROVE  Grant!GrantNext
<1>1. \A c \in CodeIds : Unmoved(c)
  BY DEF Unmoved, OfferOf, Redeemed, Minted, CodesIssued
<1>2. \A c \in CodesIssued : Redeemable(c)' => Redeemable(c)
  BY DEF Redeemable, Redeeming
<1>3. \A r \in TokenIds : tok'[r].claims = tok[r].claims
  OBVIOUS
<1>4. \A c \in CodeIds : c \in CodesIssued' <=> c \in CodesIssued
  BY DEF CodesIssued
<1> QED
  BY <1>1, <1>2, <1>3, <1>4, FadingStep

\* Minting redeems the code the request holds, for what was offered.
LEMMA RedeemStep ==
    ASSUME IInv, NEW t \in TokenIds, TokenLoadUser(t), UserExists(tok[t].data.user),
           UNCHANGED authz, NEW c, tok[t].code = c
    PROVE  Grant!GrantNext
<1>1. /\ TokenTypeOK
      /\ tok[t].pc = "user"
      /\ tok' = [tok EXCEPT ![t].pc = "store", ![t].claims = ClaimsFor(t)]
      /\ codes' = codes
  BY DEF IInv, TypeOK, TokenLoadUser, stores
<1>2. /\ c \in CodesIssued /\ c \in CodeIds
      /\ tok[t].data # None /\ ~ Minted(t)
      /\ CodeMatches(tok[t].form, tok[t].data)
      /\ tok[t].data = Binding(authz[c])
  BY <1>1 DEF IInv, TokenProgress, HolderHasCode, CodesIssued
<1>3. /\ \A r \in TokenIds : r # t => tok'[r] = tok[r]
      /\ tok'[t].claims = ClaimsFor(t) /\ tok'[t].code = c /\ tok'[t].pc = "store"
  BY <1>1 DEF TokenTypeOK, TokenRequest
<1>4. ClaimsFor(t) # None
  <2>1. tok[t].data \in AuthCode /\ tok[t].form \in TokenForms
    BY <1>1, <1>2 DEF TokenTypeOK, TokenRequest, IInv, TokenProgress
  <2>2. ClaimsFor(t) \in IamClaims
    BY <2>1, TokenFormsAssumption DEF ClaimsFor, AuthCode, TokenForm, IamClaims
  <2> QED
    BY <2>2, NoneAssumption
<1>5. ClaimsFor(t) = OfferOf(c)
  BY <1>2 DEF ClaimsFor, OfferOf, CodeMatches, Binding
<1>6. \A r \in TokenIds : r # t /\ tok[r].data # None => tok[r].code # c
  BY <1>2 DEF IInv, OneHolder
<1>7. StatusOf(c) = "offered" /\ StatusOf(c)' = "granted"
  <2>1. ~ Redeemed(c)
    BY <1>2, <1>6 DEF Redeemed, IInv, TokenProgress
  <2>2. Redeemable(c)
    BY <1>1 DEF Redeemable, Redeeming
  <2>3. Redeemed(c)'
    BY <1>3, <1>4 DEF Redeemed, Minted
  <2>4. c \in CodesIssued'
    BY <1>2 DEF CodesIssued
  <2> QED
    BY <1>2, <2>1, <2>2, <2>3, <2>4 DEF StatusOf
<1>8. \A d \in CodeIds : d # c => StatusOf(d)' = StatusOf(d)
  BY <1>1, <1>3 DEF StatusOf, Redeemed, Redeemable, Redeeming, Minted, CodesIssued
<1>9. \A d \in CodeIds : OfferOf(d)' = OfferOf(d)
  BY DEF OfferOf, CodesIssued
<1>10. [d \in CodeIds |-> StatusOf(d)]' = [[d \in CodeIds |-> StatusOf(d)] EXCEPT ![c] = "granted"]
  BY <1>2, <1>7, <1>8
<1>11. [r \in TokenIds |-> tok[r].claims]' =
         [[r \in TokenIds |-> tok[r].claims] EXCEPT ![t] = [d \in CodeIds |-> OfferOf(d)][c]]
  BY <1>2, <1>3, <1>5
<1>12. Grant!Redeem(c, t)
  BY <1>2, <1>7, <1>9, <1>10, <1>11 DEF Grant!Redeem, Minted
<1> QED
  BY <1>2, <1>12 DEF Grant!GrantNext

LEMMA TokenGrant ==
    ASSUME IInv, NEW t \in TokenIds,
           \/ \E form \in TokenForms, code \in CodesIssued \cup {None} : TokenArrive(t, form, code)
           \/ TokenStep(t)
           \/ TokenConsumeLost(t)
           \/ TokenFails(t),
           UNCHANGED authz
    PROVE  Grant!GrantNext
<1>1. /\ TokenTypeOK
      /\ codes \in [CodeIds -> AuthCode \cup {None}]
      /\ tok[t].code \in CodeIds \cup {None}
      /\ CodesIssued \subseteq CodeIds
  BY DEF IInv, TypeOK, StoresTypeOK, TokenTypeOK, TokenRequest, CodesIssued
<1>2. CASE \E form \in TokenForms, code \in CodesIssued \cup {None} : TokenArrive(t, form, code)
  <2>1. ~ Minted(t) /\ tok'[t].claims = None /\ tok'[t].pc # "user"
        /\ codes' = codes /\ \A r \in TokenIds : r # t => tok'[r] = tok[r]
    BY <1>1, <1>2 DEF TokenArrive, TokenTypeOK, TokenRequest, IInv, TokenProgress, stores
  <2> QED
    BY <2>1, QuietTokenStep DEF Minted
<1>3. CASE \/ TokenLookupClient(t)
           \/ TokenFails(t)
           \/ TokenLoadUser(t) /\ ~ UserExists(tok[t].data.user)
  <2>1. tok'[t].claims = tok[t].claims /\ tok'[t].code = tok[t].code /\ tok'[t].pc # "user"
        /\ codes' = codes /\ \A r \in TokenIds : r # t => tok'[r] = tok[r]
    BY <1>1, <1>3
       DEF TokenLookupClient, TokenFails, TokenLoadUser, AnswerToken, TokenTypeOK, TokenRequest, stores
  <2> QED
    BY <2>1, QuietTokenStep
<1>4. CASE TokenLoadUser(t) /\ UserExists(tok[t].data.user)
  BY <1>4, RedeemStep
<1>5. CASE TokenConsume(t) \/ TokenConsumeLost(t)
  <2>1. \A c \in CodeIds : codes'[c] \in {codes[c], None}
    BY <1>1, <1>5, ConsumeCodeEffect DEF TokenConsume, TokenConsumeLost
  <2>2. tok'[t].claims = tok[t].claims /\ tok'[t].code = tok[t].code
        /\ \A r \in TokenIds : r # t => tok'[r] = tok[r]
    BY <1>1, <1>5
       DEF TokenConsume, TokenConsumeLost, AnswerToken, TokenTypeOK, TokenRequest
  <2>3. tok'[t].pc = "user" => codes[tok[t].code] # None
    BY <1>1, <1>5
       DEF TokenConsume, TokenConsumeLost, AnswerToken, Lookup, TokenTypeOK, TokenRequest
  <2> QED
    BY <1>1, <2>1, <2>2, <2>3, QuietTokenStep
<1>6. CASE \E outcome \in Outcomes : TokenStore(t, outcome)
  <2>1. tok'[t].claims = tok[t].claims /\ tok'[t].code = tok[t].code /\ tok'[t].pc # "user"
        /\ codes' = codes /\ \A r \in TokenIds : r # t => tok'[r] = tok[r]
    BY <1>1, <1>6 DEF TokenStore, AnswerToken, TokenTypeOK, TokenRequest
  <2> QED
    BY <2>1, QuietTokenStep
<1> QED
  BY <1>2, <1>3, <1>4, <1>5, <1>6 DEF TokenStep

-----------------------------------------------------------------------------
(* The stores and the process *)

LEMMA CodeLapseGrant ==
    ASSUME IInv, NEW c \in CodeIds, CodeLapse(c), UNCHANGED <<authz, tok>>
    PROVE  Grant!GrantNext
<1>1. \A d \in CodeIds : codes'[d] \in {codes[d], None}
  BY DEF IInv, TypeOK, StoresTypeOK, CodeLapse
<1>2. \A d \in CodeIds : d \in CodesIssued' <=> d \in CodesIssued
  BY DEF CodesIssued
<1> QED
  BY <1>1, <1>2, QuietAuthorizeStep DEF AuthzKept

LEMMA CrashGrant ==
    ASSUME IInv, Crash
    PROVE  Grant!GrantNext
<1>1. AuthorizeTypeOK /\ TokenTypeOK /\ codes' = codes
  BY DEF IInv, TypeOK, Crash, stores
<1>2. \A t \in TokenIds :
        /\ tok'[t].claims = tok[t].claims /\ tok'[t].code = tok[t].code
        /\ tok'[t].pc = "user" => tok[t].pc = "user"
  BY <1>1, AbortedToken
<1>3. ASSUME NEW c \in CodeIds
      PROVE  /\ c \in CodesIssued' <=> c \in CodesIssued
             /\ authz'[c].form = authz[c].form /\ authz'[c].user = authz[c].user
  BY <1>1, AbortedAuthorize DEF IInv, AuthorizeProgress, CodesIssued
<1>4. \A c \in CodeIds : Unmoved(c)
  BY <1>2, <1>3 DEF Unmoved, OfferOf, Redeemed, Minted
<1>5. \A c \in CodeIds : Redeemable(c)' => Redeemable(c)
  BY <1>1, <1>2 DEF Redeemable, Redeeming
<1> QED
  BY <1>2, <1>3, <1>4, <1>5, FadingStep

\* Steps that change neither requests of interest nor codes.
LEMMA NothingMoves ==
    ASSUME UNCHANGED <<codes, authz, tok>>
    PROVE  UNCHANGED Grant!grants
BY DEF Grant!grants, StatusOf, OfferOf, Redeemed, Redeemable, Redeeming, Minted, CodesIssued

LEMMA NextGrant ==
    ASSUME IInv, [Next]_vars
    PROVE  [Grant!GrantNext]_(Grant!grants)
<1>1. CASE SessionNext /\ UNCHANGED <<authz, tok>>
  <2>1. UNCHANGED codes
    BY <1>1 DEF SessionNext, LoginArrive, LoginStep, LoginLookup, OpenSession, LoginFails, Logout, stores
  <2> QED
    BY <1>1, <2>1, NothingMoves
<1>2. CASE /\ \E c \in CodeIds :
                \/ \E form \in AuthorizeForms, cookie \in CookiesIssued \cup {None} :
                      AuthorizeArrive(c, form, cookie)
                \/ AuthorizeStep(c)
                \/ AuthorizeFails(c)
           /\ UNCHANGED <<login, logoutAnswers, tok>>
  BY <1>2, AuthorizeGrant
<1>3. CASE ClientBackend
  BY <1>3, TokenGrant DEF ClientBackend
<1>4. CASE Storage
  <2>1. ASSUME NEW c \in CodeIds, CodeLapse(c)
        PROVE  Grant!GrantNext
    BY <1>4, <2>1, CodeLapseGrant DEF Storage
  <2>2. CASE UNCHANGED codes
    BY <1>4, <2>2, NothingMoves DEF Storage
  <2> QED
    BY <1>4, <2>1, <2>2 DEF Storage, SessionLapse, DeleteUser
<1>5. CASE Crash
  BY <1>5, CrashGrant
<1>6. CASE UNCHANGED vars
  BY <1>6, NothingMoves DEF vars
<1> QED
  BY <1>1, <1>2, <1>3, <1>4, <1>5, <1>6 DEF Next, Browser

\* Every behaviour of the service, with any number of concurrent requests,
\* failures and crashes, is one of the abstract grant: offered once, then
\* redeemed once for what was offered, or void for good.
THEOREM Refinement == Spec => ImplementsGrant
<1>1. Init => Grant!GrantInit
  BY InitGrant
<1>2. IInv /\ [Next]_vars => [Grant!GrantNext]_(Grant!grants)
  BY NextGrant
<1> QED
  BY <1>1, <1>2, Invariance, PTL DEF Spec, ImplementsGrant, Grant!GrantSpecification

-----------------------------------------------------------------------------
(* What GrantSpec amounts to in every state of the service *)

LEMMA InitGrantSound ==
    ASSUME Grant!GrantInit
    PROVE  Grant!OneCodeEach
<1> DEFINE code == [t \in {} |-> None]
<1>1. Grant!Holders = {}
  BY DEF Grant!GrantInit, Grant!Holders
<1>2. \A S : code \in [{} -> S]
  OBVIOUS
<1> QED
  BY <1>1, <1>2 DEF Grant!OneCodeEach

LEMMA GrantStepSound ==
    ASSUME Grant!OneCodeEach, [Grant!GrantNext]_(Grant!grants)
    PROVE  Grant!OneCodeEach'
<1> DEFINE status  == [c \in CodeIds |-> StatusOf(c)]
           offer   == [c \in CodeIds |-> OfferOf(c)]
           claims  == [t \in TokenIds |-> tok[t].claims]
           granted == {c \in CodeIds : status[c] = "granted"}
           holders == {t \in TokenIds : claims[t] # None}
           Sound   ==
              \E code \in [holders -> granted] :
                 /\ \A u \in holders : claims[u] = offer[code[u]]
                 /\ \A s, u \in holders : code[s] = code[u] => s = u
<1>1. (Grant!OneCodeEach <=> Sound) /\ (Grant!OneCodeEach' <=> Sound')
  BY DEF Grant!OneCodeEach, Grant!Holders
<1> DEFINE Joins(t, c) ==
              /\ \A u \in holders' \ {t} : u \in holders /\ claims'[u] = claims[u]
              /\ t \in holders' => \/ t \in holders /\ claims'[t] = claims[t]
                                   \/ c \in granted' \ granted /\ claims'[t] = offer'[c]
           Kept == \A d \in granted : d \in granted' /\ offer'[d] = offer[d]
<1>2. ASSUME NEW c \in CodeIds, Grant!Offer(c)
      PROVE  Kept /\ \E t, d : Joins(t, d)
  BY <1>2 DEF Grant!Offer
<1>3. ASSUME NEW c \in CodeIds, NEW t \in TokenIds, Grant!Redeem(c, t)
      PROVE  Kept /\ \E u, d : Joins(u, d)
  <2>1. Kept /\ Joins(t, c)
    BY <1>3 DEF Grant!Redeem
  <2> HIDE DEF Kept, Joins
  <2> QED
    BY <2>1
<1>4. ASSUME NEW spent \in SUBSET CodeIds, Grant!Void(spent)
      PROVE  Kept /\ \E t, c : Joins(t, c)
  BY <1>4 DEF Grant!Void
<1>5. ASSUME UNCHANGED Grant!grants
      PROVE  Kept /\ \E t, c : Joins(t, c)
  BY <1>5 DEF Grant!grants
<1>6. Kept /\ \E t, c : Joins(t, c)
  <2> HIDE DEF Kept, Joins
  <2> QED
    BY <1>2, <1>3, <1>4, <1>5 DEF Grant!GrantNext
<1>7. Sound
  BY <1>1
<1> HIDE DEF status, offer, claims, granted, holders
<1>8. PICK t, c : Joins(t, c)
  BY <1>6
<1>9. PICK code \in [holders -> granted] :
        /\ \A u \in holders : claims[u] = offer[code[u]]
        /\ \A s, u \in holders : code[s] = code[u] => s = u
  BY <1>7
<1> DEFINE code1 == [u \in holders' |-> IF u \in holders /\ claims'[u] = claims[u]
                                        THEN code[u] ELSE c]
<1>10. \A u \in holders' :
          \/ u \in holders /\ claims'[u] = claims[u] /\ code1[u] = code[u]
          \/ u = t /\ code1[u] = c /\ c \in granted' \ granted /\ claims'[t] = offer'[c]
  BY <1>8
<1>11. code1 \in [holders' -> granted']
  BY <1>6, <1>10
<1> HIDE DEF code1
<1>12. \A u \in holders' : claims'[u] = offer'[code1[u]]
  BY <1>6, <1>9, <1>10
<1>13. \A s, u \in holders' : code1[s] = code1[u] => s = u
  BY <1>9, <1>10
<1>14. Sound'
  BY <1>11, <1>12, <1>13
<1> QED
  BY <1>1, <1>14

\* Whatever interleaves, fails or crashes, the claims that token requests have
\* obtained were authorized each by a code of its own, for just these claims:
\* never more tokens than authorizations, and none with another's claims.
THEOREM OneCodeEachHolds == Spec => []Grant!OneCodeEach
<1>1. Grant!GrantInit => Grant!OneCodeEach
  BY InitGrantSound
<1>2. Grant!OneCodeEach /\ [Grant!GrantNext]_(Grant!grants) => Grant!OneCodeEach'
  BY GrantStepSound
<1>3. ImplementsGrant => []Grant!OneCodeEach
  BY <1>1, <1>2, PTL DEF ImplementsGrant, Grant!GrantSpecification
<1> QED
  BY <1>3, Refinement, PTL
=============================================================================
