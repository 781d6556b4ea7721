--------------------------- MODULE AuthorizeFlow ---------------------------
(***************************************************************************)
(* GET /oauth/authorize: AuthHandler.Authorize over AuthService.Authorize. *)
(*                                                                         *)
(* One request reads the client (MySQL), then the session (Redis), then    *)
(* writes the code (Redis); what it read may be stale by the time it uses  *)
(* it.                                                                     *)
(***************************************************************************)
EXTENDS Stores

CONSTANT AuthorizeForms   \* the query strings that may arrive

VARIABLE authz            \* CodeIds -> the authorize request that draws this code

\* The parameters of the query string that some check tells apart.
AuthorizeForm ==
    [complete  : BOOLEAN,      \* the fields the validate tags require are well formed
     client    : ClientIds,
     uri       : Uris,
     scope     : SUBSET Scopes,
     challenge : {S256(v) : v \in Verifiers},
     method    : {"S256", "plain"},
     prompt    : {"interactive", "none", "none_and_more"}]

ASSUME AuthorizeFormsAssumption ==
    AuthorizeForms \subseteq AuthorizeForm /\ None \notin AuthorizeForms

ErrorsToClient == {"invalid_scope", "invalid_request", "login_required"}

AuthorizeRequest ==
    [pc     : {"idle", "client", "session", "code", "done"},
     form   : AuthorizeForms \cup {None},
     cookie : SessionIds \cup {None},
     user   : Users \cup {None},         \* of the session found
     answer : {"pending", "bad_request", "reject_direct", "require_login", "issue_code",
               "server_error", "aborted"} \cup ErrorsToClient]

AnswerAuthorize(c, answer) ==
    authz' = [authz EXCEPT ![c].pc = "done", ![c].answer = answer]

-----------------------------------------------------------------------------

\* dtos.AuthorizeRequest.Validate: only S256 challenges pass.
ValidAuthorize(form) == form.complete /\ form.method = "S256"

AuthorizeArrive(c, form, cookie) ==
    /\ authz[c].pc = "idle"
    /\ LET valid == ValidAuthorize(form)
       IN authz' = [authz EXCEPT
            ![c] = [pc     |-> IF valid THEN "client" ELSE "done",
                    form   |-> form,
                    cookie |-> cookie,
                    user   |-> None,
                    answer |-> IF valid THEN "pending" ELSE "bad_request"]]
    /\ UNCHANGED stores

\* The redirect URI is one the client, which exists, registered.
ClientKnown(form) == GetClient(form.client) # None       \* seeded fault
RedirectAllowed(form) ==
    /\ GetClient(form.client) # None
    /\ form.uri \in GetClient(form.client).uris

\* utils.ContainsAll over the fields of the scope parameter.
AnyScope(form) == form.scope # {}                        \* seeded fault
ScopeAllowed(form) ==
    /\ form.scope # {}
    /\ form.scope \subseteq GetClient(form.client).scopes

\* The checks between reading the client and reading the session, in order.
\* An untrusted client or redirect URI is answered here, never redirected to.
EarlyAnswer(form) ==
    IF ~ RedirectAllowed(form) THEN "reject_direct"
    ELSE IF ~ ScopeAllowed(form) THEN "invalid_scope"
    ELSE IF form.prompt = "none_and_more" THEN "invalid_request"
    ELSE "pending"

AuthorizeLookupClient(c) ==
    /\ authz[c].pc = "client"
    /\ LET early == EarlyAnswer(authz[c].form)
       IN IF early = "pending" THEN authz' = [authz EXCEPT ![c].pc = "session"]
                               ELSE AnswerAuthorize(c, early)
    /\ UNCHANGED stores

\* SessionByID: an empty cookie and a dead session are both "not logged in".
AuthorizeCheckSession(c) ==
    /\ authz[c].pc = "session"
    /\ LET user == GetSession(authz[c].cookie)
       IN IF user = None
          THEN AnswerAuthorize(c, IF authz[c].form.prompt = "none"
                                  THEN "login_required" ELSE "require_login")
          ELSE authz' = [authz EXCEPT ![c].pc = "code", ![c].user = user]
    /\ UNCHANGED stores

\* What the code will stand for.
Binding(request) ==
    [client    |-> request.form.client,
     user      |-> request.user,
     uri       |-> request.form.uri,
     scope     |-> request.form.scope,
     challenge |-> request.form.challenge,
     method    |-> request.form.method]

\* authCodes.Create, and the redirect that discloses the code.
AuthorizeSaveCode(c, outcome) ==
    /\ authz[c].pc = "code"
    /\ CreateCode(c, Binding(authz[c]), outcome)
    /\ AnswerAuthorize(c, IF outcome = "ok" THEN "issue_code" ELSE "server_error")
    /\ UNCHANGED <<users, sessions, tokens>>

\* A read fails; with no cookie there is no read of the session.
AuthorizeFails(c) ==
    /\ \/ authz[c].pc = "client"
       \/ authz[c].pc = "session" /\ authz[c].cookie # None
    /\ AnswerAuthorize(c, "server_error")
    /\ UNCHANGED stores

-----------------------------------------------------------------------------

\* Codes the service has handed out.
CodesIssued == {c \in CodeIds : authz[c].answer = "issue_code"}

\* Answers that send the browser to the redirect URI of the request.
Redirected(c) == authz[c].answer \in ErrorsToClient \cup {"issue_code"}

AuthorizeInit ==
    authz = [c \in CodeIds |->
        [pc |-> "idle", form |-> None, cookie |-> None, user |-> None,
         answer |-> "pending"]]

AuthorizeStep(c) ==
    \/ AuthorizeLookupClient(c)
    \/ AuthorizeCheckSession(c)
    \/ \E outcome \in Outcomes : AuthorizeSaveCode(c, outcome)

AuthorizeTypeOK == authz \in [CodeIds -> AuthorizeRequest]
=============================================================================
