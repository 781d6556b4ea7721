---------------------------- MODULE IamInvariant ----------------------------
(***************************************************************************)
(* The inductive invariant of IamService.  Each part says what the pc of a *)
(* request, or the presence of a key or a row, tells about how it came to  *)
(* be; together they carry a password proved at a login to the claims of a *)
(* token, through a session, a code and two stores.                        *)
(***************************************************************************)
EXTENDS IamService

\* A login that may open a session has proved the password of its user.
LoginProgress ==
    \A s \in SessionIds :
        /\ login[s].answer # "pending" <=> login[s].pc = "done"
        /\ login[s].pc = "session" => login[s].password = "correct" /\ login[s].email # None

\* A live session is that of the user who logged in, and not signed out.
SessionOrigin ==
    \A s \in SessionIds : sessions[s] # None =>
        /\ login[s].pc = "done"
        /\ login[s].password = "correct"
        /\ login[s].email = sessions[s]

SignedOutIsGone ==
    \A s \in SessionIds : SignedOut(s) => s \in CookiesIssued /\ sessions[s] = None

\* What an authorize request has passed by the time it is where it is.
AuthorizeProgress ==
    \A c \in CodeIds :
        /\ authz[c].answer # "pending" <=> authz[c].pc = "done"
        /\ authz[c].pc # "idle" => authz[c].form # None
        /\ authz[c].cookie # None => authz[c].cookie \in CookiesIssued
        /\ authz[c].pc \in {"session", "code"} \/ Redirected(c) => RedirectAllowed(authz[c].form)
        /\ authz[c].pc \in {"session", "code"} \/ c \in CodesIssued => ScopeAllowed(authz[c].form)
        /\ authz[c].pc = "code" \/ c \in CodesIssued => authz[c].user # None

\* The user of an authorize request is the one of its session, whatever
\* became of the session since.
AuthorizeUser ==
    \A c \in CodeIds : authz[c].user # None =>
        /\ authz[c].cookie # None
        /\ login[authz[c].cookie].password = "correct"
        /\ login[authz[c].cookie].email = authz[c].user

\* A live code stands for the request that drew it.
CodeOrigin ==
    \A c \in CodeIds : codes[c] # None =>
        authz[c].pc = "done" /\ codes[c] = Binding(authz[c])

\* What a token request has passed by the time it is where it is.
TokenProgress ==
    \A t \in TokenIds :
        /\ tok[t].answer # "pending" <=> tok[t].pc = "done"
        /\ tok[t].pc # "idle" => tok[t].form # None
        /\ tok[t].code # None => tok[t].code \in CodesIssued
        /\ tok[t].pc \in {"idle", "client", "consume"} => tok[t].data = None
        /\ tok[t].pc \in {"consume", "user", "store"} \/ Minted(t) => ClientAuthenticated(tok[t].form)
        /\ tok[t].pc \in {"user", "store"} \/ Minted(t)
              => tok[t].data # None /\ CodeMatches(tok[t].form, tok[t].data)
        /\ tok[t].pc \in {"idle", "client", "consume", "user"} => ~ Minted(t)
        /\ tok[t].pc = "store" \/ tok[t].answer = "granted" => Minted(t)
        /\ Minted(t) => tok[t].claims = ClaimsFor(t)

\* Whoever took a code out of Redis holds what it stands for; Redis no
\* longer does, and nobody else does.
HolderHasCode ==
    \A t \in TokenIds : tok[t].data # None =>
        /\ tok[t].code # None
        /\ codes[tok[t].code] = None
        /\ tok[t].data = Binding(authz[tok[t].code])

OneHolder ==
    \A t1, t2 \in TokenIds :
        tok[t1].data # None /\ tok[t2].data # None /\ tok[t1].code = tok[t2].code => t1 = t2

\* A refresh-token row carries the claims minted by the request that drew it.
TokenOrigin ==
    \A t \in TokenIds : tokens[t] # None => tok[t].pc = "done" /\ tokens[t] = tok[t].claims

\* All of them, with the invariants that are parts as they stand.  TypeOK
\* needs the rest too: only AuthorizeProgress and TokenProgress say that the
\* records a code and a token are made of are complete by then.
IInv ==
    /\ TypeOK
    /\ LoginProgress /\ SessionOrigin /\ SignedOutIsGone
    /\ AuthorizeProgress /\ AuthorizeUser /\ CodeOrigin
    /\ TokenProgress /\ HolderHasCode /\ OneHolder
    /\ TokenOrigin /\ NoOrphanTokens /\ GrantedIsDurable
=============================================================================
