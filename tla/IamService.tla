----------------------------- MODULE IamService -----------------------------
(***************************************************************************)
(* The service: logins, logouts, authorize and token requests served       *)
(* concurrently over the same Redis and MySQL, with keys that expire,      *)
(* users that are deleted and a process that is killed.                    *)
(*                                                                         *)
(* A browser presents a session id, and a client a code, only after the    *)
(* service handed it out, or one that was never issued (None): the random  *)
(* identifiers are not guessed.  They keep circulating after a logout or   *)
(* a redemption.                                                           *)
(***************************************************************************)
EXTENDS SessionFlow, AuthorizeFlow, TokenFlow

vars == <<users, sessions, codes, tokens, login, logoutAnswers, authz, tok>>

Init == StoresInit /\ SessionInit /\ AuthorizeInit /\ TokenInit

-----------------------------------------------------------------------------

Browser ==
    \/ SessionNext /\ UNCHANGED <<authz, tok>>
    \/ /\ \E c \in CodeIds :
            \/ \E form \in AuthorizeForms, cookie \in CookiesIssued \cup {None} :
                  AuthorizeArrive(c, form, cookie)
            \/ AuthorizeStep(c)
            \/ AuthorizeFails(c)
       /\ UNCHANGED <<login, logoutAnswers, tok>>

ClientBackend ==
    /\ \E t \in TokenIds :
         \/ \E form \in TokenForms, code \in CodesIssued \cup {None} :
               TokenArrive(t, form, code)
         \/ TokenStep(t)
         \/ TokenConsumeLost(t)
         \/ TokenFails(t)
    /\ UNCHANGED <<login, logoutAnswers, authz>>

\* A request in progress when the process is killed is never answered.
Aborted(requests) ==
    [r \in DOMAIN requests |->
        IF requests[r].pc \in {"idle", "done"} THEN requests[r]
        ELSE [requests[r] EXCEPT !.pc = "done", !.answer = "aborted"]]

\* main ends by log.Fatalf when Shutdown times out, or the process is killed;
\* it is started again over the same stores.
Crash ==
    /\ login' = Aborted(login)
    /\ authz' = Aborted(authz)
    /\ tok' = Aborted(tok)
    /\ UNCHANGED <<logoutAnswers, stores>>

Storage ==
    /\ \/ \E s \in SessionIds : SessionLapse(s)
       \/ \E c \in CodeIds : CodeLapse(c)
       \/ \E u \in Users : DeleteUser(u)
    /\ UNCHANGED <<login, logoutAnswers, authz, tok>>

Next == Browser \/ ClientBackend \/ Storage \/ Crash

Spec == Init /\ [][Next]_vars

\* Each request runs in a goroutine of its own and every backend call of it
\* returns: nothing in the code waits for another request.  No call is
\* obliged to fail, nothing is obliged to arrive, lapse or crash.
Fairness ==
    /\ \A s \in SessionIds : WF_vars(LoginStep(s) /\ UNCHANGED <<authz, tok>>)
    /\ \A c \in CodeIds : WF_vars(AuthorizeStep(c) /\ UNCHANGED <<login, logoutAnswers, tok>>)
    /\ \A t \in TokenIds : WF_vars(TokenStep(t) /\ UNCHANGED <<login, logoutAnswers, authz>>)

FairSpec == Spec /\ Fairness

-----------------------------------------------------------------------------

\* Every variable keeps to the records the handlers and the stores hold.
TypeOK == StoresTypeOK /\ SessionTypeOK /\ AuthorizeTypeOK /\ TokenTypeOK

Minted(t) == tok[t].claims # None

\* "single-use": of all the token requests that present one authorization
\* code, concurrently, again, or after a failure, at most one mints tokens.
SingleUse ==
    \A t1, t2 \in TokenIds :
        Minted(t1) /\ Minted(t2) /\ tok[t1].code = tok[t2].code => t1 = t2

\* Tokens are minted only for the client the code was issued to, presenting
\* its secret if it has one, the redirect URI of the authorize request and
\* the verifier of its challenge.
GrantBinding ==
    \A t \in TokenIds : Minted(t) =>
        LET form   == tok[t].form
            client == GetClient(form.client)
            asked  == authz[tok[t].code].form
        IN /\ tok[t].code \in CodesIssued
           /\ form.client = asked.client
           /\ form.uri = asked.uri
           /\ S256(form.verifier) = asked.challenge
           /\ client # None
           /\ client.secret = None \/ client.secret = Bcrypt(PresentedSecret(form))

\* Tokens are minted in the name of the user who proved a password at the
\* login whose session the authorize request carried.
GrantUser ==
    \A t \in TokenIds : Minted(t) =>
        LET cookie == authz[tok[t].code].cookie
        IN /\ cookie \in CookiesIssued
           /\ login[cookie].password = "correct"
           /\ login[cookie].email = tok[t].claims.user

\* The scope of minted tokens is what the authorize request asked for, and
\* no more than the client is registered for.
GrantScope ==
    \A t \in TokenIds : Minted(t) =>
        /\ tok[t].claims.scope = authz[tok[t].code].form.scope
        /\ tok[t].claims.scope # {}
        /\ tok[t].claims.scope \subseteq GetClient(tok[t].claims.client).scopes

\* The browser is sent to a redirect URI, with a code or with an error, only
\* if the client of the request registered it: no open redirector.
RedirectRegistered ==
    \A c \in CodeIds : Redirected(c) =>
        LET client == GetClient(authz[c].form.client)
        IN client # None /\ authz[c].form.uri \in client.uris

\* A client that was answered with a refresh token has its row in MySQL,
\* with the claims of its access token, as long as the user exists.
GrantedIsDurable ==
    \A t \in TokenIds : tok[t].answer = "granted" =>
        \/ tokens[t] = tok[t].claims
        \/ tok[t].claims.user \notin users

\* No refresh token outlives its user, however a deletion interleaves with
\* the exchange that stores it.
NoOrphanTokens == \A t \in TokenIds : tokens[t] # None => UserExists(tokens[t].user)

\* Once a logout of a session was answered 204, no authorize request gets
\* past the session check with it, whenever it arrived.
LogoutIsFinal ==
    [][\A c \in CodeIds :
        authz[c].pc = "session" /\ authz'[c].pc = "code" => ~ SignedOut(authz[c].cookie)]_vars

\* A code that was handed out and is gone, redeemed, refused, lapsed or lost
\* on the way, is never redeemable again.
CodeNeverRevives ==
    [][\A c \in CodeIds :
        authz[c].pc = "done" /\ codes[c] = None => codes'[c] = None]_vars

\* Tokens are handed out only while their user exists, although nothing
\* holds the user between the read and the insert.
GrantNeedsUser ==
    [][\A t \in TokenIds :
        tok[t].answer # "granted" /\ tok'[t].answer = "granted"
            => UserExists(tok[t].claims.user)]_vars

\* Every request that arrived is answered, unless the process dies first:
\* no combination of stale reads, lost keys and refused writes leaves a
\* handler without a way on.
EveryRequestEnds ==
    /\ \A s \in SessionIds : (login[s].pc # "idle") ~> (login[s].pc = "done")
    /\ \A c \in CodeIds : (authz[c].pc # "idle") ~> (authz[c].pc = "done")
    /\ \A t \in TokenIds : (tok[t].pc # "idle") ~> (tok[t].pc = "done")

\* "Always returns 204, even without a valid session" (AuthHandler.Logout):
\* what its comment says of every logout.
LogoutAlways204 == \A s \in SessionIds : logoutAnswers[s] \subseteq {204}
=============================================================================
