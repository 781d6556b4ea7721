----------------------------- MODULE ClientFlow -----------------------------
(***************************************************************************)
(* OAuth clients: POST /admin/clients (AuthHandler.RegisterClient,         *)
(* ClientService.RegisterClient, ClientRepository.Create) and what the     *)
(* token endpoint later makes of the client that was registered            *)
(* (TokenGrantService.Exchange and the client check of                     *)
(* authorizationCodeGrant; what follows the check is TokenFlow's).         *)
(*                                                                         *)
(* A secret exists in clear only in the answer of its registration; the    *)
(* row keeps its hash, and no hash is what makes a client public.          *)
(***************************************************************************)
EXTENDS Naturals, Sequences

CONSTANTS
    Bodies,                \* request bodies of POST /admin/clients
    SupportedGrantTypes,   \* oauth.SupportedGrantTypes
    ClientIds,             \* registrations, each naming the client id it draws
    TokenIds,              \* requests of POST /oauth/token
    None

VARIABLES
    clients,   \* MySQL clients: id -> row, or None
    reg,       \* ClientIds -> the POST /admin/clients
    tok        \* TokenIds -> the POST /oauth/token

vars == <<clients, reg, tok>>

GrantTypes == {"authorization_code", "refresh_token", "client_credentials", "other"}

\* redirect_uris and grant_types keep the order of the body.
Body ==
    [named : BOOLEAN, redirect_uris : Nat, grant_types : Seq(GrantTypes), is_public : BOOLEAN]

Bcrypt(secret) == [bcrypt |-> secret]

\* A registration draws its secret as it draws its id.
Secrets == [secret_of : ClientIds]
SecretOf(c) == [secret_of |-> c]

Client ==
    [secret_hash : {None} \cup {Bcrypt(secret) : secret \in Secrets},
     grant_types : {body.grant_types : body \in Bodies}]

RegisterAnswers ==
    {"pending", "created", "incomplete", "public_client_credentials", "unsupported_grant_type",
     "server_error", "aborted"}

Registration ==
    [pc : {"idle", "check", "insert", "done"}, body : Bodies \cup {None},
     answer : RegisterAnswers, client_secret : Secrets \cup {None}]

TokenRequest ==
    [pc : {"idle", "exchange", "client", "done"}, grant_type : GrantTypes \cup {None},
     client_id : ClientIds \cup {None}, client_secret : Secrets \cup {None},
     answer : {"pending", "authenticated", "invalid_client", "unsupported_grant_type",
               "not_implemented", "server_error", "aborted"}]

ASSUME BodiesAssumption == Bodies \subseteq Body
ASSUME NoneAssumption ==
    None \notin Client /\ None \notin [bcrypt : Secrets] /\ None \notin Bodies /\ None \notin Secrets
    /\ None \notin ClientIds

Outcomes == {"ok", "failed", "lost"}

-----------------------------------------------------------------------------
(* AuthHandler.RegisterClient and ClientService.RegisterClient *)

Answered(c, answer, secret) ==
    reg' = [reg EXCEPT ![c].pc = "done", ![c].answer = answer, ![c].client_secret = secret]

RegisterArrive(c, body) ==
    /\ reg[c].pc = "idle"
    /\ reg' = [reg EXCEPT ![c].pc = "check", ![c].body = body]
    /\ UNCHANGED <<clients, tok>>

Complete(body) == body.named /\ body.redirect_uris > 0 /\ body.grant_types # <<>>

\* The first grant type that is refused, in the order of the body, decides;
\* of one grant type the clash with a public client is reported first.
Machine(body, i) == body.is_public /\ body.grant_types[i] = "client_credentials"
Refused(body, i) == Machine(body, i) \/ body.grant_types[i] \notin SupportedGrantTypes
RefusedAt(body) == {i \in DOMAIN body.grant_types : Refused(body, i)}

GrantError(body) ==
    LET first == CHOOSE i \in RefusedAt(body) : \A j \in RefusedAt(body) : i <= j
    IN IF Machine(body, first) THEN "public_client_credentials" ELSE "unsupported_grant_type"

RegisterCheck(c) ==
    /\ reg[c].pc = "check"
    /\ LET body == reg[c].body
       IN CASE ~ Complete(body)       -> Answered(c, "incomplete", None)
            [] Complete(body) /\ RefusedAt(body) # {} -> Answered(c, GrantError(body), None)
            [] OTHER -> reg' = [reg EXCEPT ![c].pc = "insert"]
    /\ UNCHANGED <<clients, tok>>

SecretDrawn(c) == IF reg[c].body.is_public THEN None ELSE SecretOf(c)

NoSecretHash(c) == None                                                  \* seeded fault
SecretHash(c) == IF reg[c].body.is_public THEN None ELSE Bcrypt(SecretOf(c))

\* Only an INSERT that is acknowledged discloses the secret.
ErrorDropped(outcome) == TRUE                                            \* seeded fault
Acknowledged(outcome) == outcome = "ok"

RegisterInsert(c, outcome) ==
    /\ reg[c].pc = "insert"
    /\ clients' = IF outcome = "failed" THEN clients
                  ELSE [clients EXCEPT ![c] = [secret_hash |-> SecretHash(c),
                                               grant_types |-> reg[c].body.grant_types]]
    /\ IF Acknowledged(outcome) THEN Answered(c, "created", SecretDrawn(c))
                                ELSE Answered(c, "server_error", None)
    /\ UNCHANGED tok

\* rand.Read or bcrypt fails.
RegisterFails(c) ==
    /\ reg[c].pc = "insert"
    /\ ~ reg[c].body.is_public
    /\ Answered(c, "server_error", None)
    /\ UNCHANGED <<clients, tok>>

-----------------------------------------------------------------------------
(* TokenGrantService.Exchange, as far as the client is concerned *)

\* The secrets that left the server: whoever asks for a token knows no other.
Disclosed == {reg[c].client_secret : c \in ClientIds} \ {None}

AnswerToken(t, answer) == tok' = [tok EXCEPT ![t].pc = "done", ![t].answer = answer]

TokenArrive(t, grant, id, secret) ==
    /\ tok[t].pc = "idle"
    /\ tok' = [tok EXCEPT ![t].pc = "exchange", ![t].grant_type = grant,
                          ![t].client_id = id, ![t].client_secret = secret]
    /\ UNCHANGED <<clients, reg>>

TokenExchange(t) ==
    /\ tok[t].pc = "exchange"
    /\ CASE tok[t].grant_type = "authorization_code" -> tok' = [tok EXCEPT ![t].pc = "client"]
         [] tok[t].grant_type = "refresh_token" -> AnswerToken(t, "not_implemented")
         [] OTHER -> AnswerToken(t, "unsupported_grant_type")
    /\ UNCHANGED <<clients, reg>>

\* A client without a hash shows no secret; PKCE is its proof.
HashOnly(row, secret) == row.secret_hash = Bcrypt(secret)                \* seeded fault
Authenticates(row, secret) == row.secret_hash = None \/ row.secret_hash = Bcrypt(secret)

TokenLookupClient(t) ==
    /\ tok[t].pc = "client"
    /\ LET row == clients[tok[t].client_id]
       IN IF row # None /\ Authenticates(row, tok[t].client_secret)
          THEN AnswerToken(t, "authenticated")
          ELSE AnswerToken(t, "invalid_client")
    /\ UNCHANGED <<clients, reg>>

TokenFails(t) ==
    /\ tok[t].pc = "client"
    /\ AnswerToken(t, "server_error")
    /\ UNCHANGED <<clients, reg>>

-----------------------------------------------------------------------------

Init ==
    /\ clients = [c \in ClientIds |-> None]
    /\ reg = [c \in ClientIds |->
                [pc |-> "idle", body |-> None, answer |-> "pending", client_secret |-> None]]
    /\ tok = [t \in TokenIds |->
                [pc |-> "idle", grant_type |-> None, client_id |-> None, client_secret |-> None,
                 answer |-> "pending"]]

Aborted(requests) ==
    [q \in DOMAIN requests |->
        IF requests[q].pc \in {"idle", "done"} THEN requests[q]
        ELSE [requests[q] EXCEPT !.pc = "done", !.answer = "aborted"]]

Crash ==
    /\ reg' = Aborted(reg)
    /\ tok' = Aborted(tok)
    /\ UNCHANGED clients

Registrar ==
    \E c \in ClientIds :
        \/ \E body \in Bodies : RegisterArrive(c, body)
        \/ RegisterCheck(c)
        \/ \E outcome \in Outcomes : RegisterInsert(c, outcome)
        \/ RegisterFails(c)

ClientBackend ==
    \E t \in TokenIds :
        \/ \E grant \in GrantTypes, id \in ClientIds, secret \in Disclosed \cup {None} :
              TokenArrive(t, grant, id, secret)
        \/ TokenExchange(t)
        \/ TokenLookupClient(t)
        \/ TokenFails(t)

Next == Registrar \/ ClientBackend \/ Crash

Spec == Init /\ [][Next]_vars

-----------------------------------------------------------------------------

TypeOK ==
    /\ clients \in [ClientIds -> Client \cup {None}]
    /\ reg \in [ClientIds -> Registration]
    /\ tok \in [TokenIds -> TokenRequest]

\* What a registration knows by its stage, and the row that came of it.
RegistrationOrigin ==
    \A c \in ClientIds :
        /\ reg[c].pc # "idle" => reg[c].body # None
        /\ reg[c].pc # "done" => /\ reg[c].answer = "pending"
                                 /\ reg[c].client_secret = None
                                 /\ clients[c] = None
        /\ reg[c].pc = "insert" => Complete(reg[c].body) /\ RefusedAt(reg[c].body) = {}
        /\ reg[c].client_secret # None =>
              /\ reg[c].answer = "created"
              /\ reg[c].client_secret = SecretOf(c)
        /\ clients[c] # None =>
              /\ Complete(reg[c].body) /\ RefusedAt(reg[c].body) = {}
              /\ clients[c].grant_types = reg[c].body.grant_types
              /\ clients[c].secret_hash = SecretHash(c)

\* A request holds a secret some registration disclosed, and what it was
\* authenticated as is in the table.
RequestOrigin ==
    \A t \in TokenIds :
        /\ tok[t].pc # "idle" => tok[t].client_id # None
        /\ tok[t].pc # "done" => tok[t].answer = "pending"
        /\ tok[t].client_secret # None =>
              \E c \in ClientIds : /\ reg[c].answer = "created"
                                   /\ tok[t].client_secret = reg[c].client_secret
        /\ tok[t].answer = "authenticated" =>
              /\ tok[t].pc = "done"
              /\ clients[tok[t].client_id] # None
              /\ Authenticates(clients[tok[t].client_id], tok[t].client_secret)

\* The caller of POST /admin/clients learns what became of the row: told
\* "created" it is there under the hash of the secret disclosed, told of a bad
\* request it is not.
AnswerTellsRow ==
    \A c \in ClientIds :
        /\ reg[c].answer = "created" =>
              /\ clients[c] # None
              /\ reg[c].client_secret = SecretDrawn(c)
              /\ clients[c].secret_hash = SecretHash(c)
        /\ reg[c].answer \in {"incomplete", "public_client_credentials", "unsupported_grant_type"} =>
              clients[c] = None

\* The inductive invariant: the types, the memory above and the answers.
IInv ==
    /\ TypeOK
    /\ RegistrationOrigin
    /\ RequestOrigin
    /\ AnswerTellsRow

\* A client registered as confidential is authenticated by the secret its
\* registration disclosed and by nothing else; the row that a lost answer
\* leaves behind, whose secret nobody was told, authenticates nobody.
OnlyTheRegistrant ==
    \A t \in TokenIds :
        tok[t].answer = "authenticated" /\ ~ reg[tok[t].client_id].body.is_public =>
            /\ reg[tok[t].client_id].answer = "created"
            /\ tok[t].client_secret = reg[tok[t].client_id].client_secret

\* A registrant who presents what it was told, a public one nothing, is not
\* refused as a client.
RegistrantIsAdmitted ==
    [][\A t \in TokenIds :
          /\ tok[t].pc = "client"
          /\ reg[tok[t].client_id].answer = "created"
          /\ tok[t].client_secret = reg[tok[t].client_id].client_secret
          => tok'[t].answer # "invalid_client"]_vars

\* "Categorical mismatch, checked ahead of the supported-grants gate so it
\* still applies once client_credentials is actually implemented": whatever
\* the gate lets through, no public client is stored for client_credentials.
PublicNeverMachine ==
    \A c \in ClientIds : clients[c] # None /\ clients[c].secret_hash = None =>
        \A i \in DOMAIN clients[c].grant_types :
            clients[c].grant_types[i] # "client_credentials"
=============================================================================
