------------------------------- MODULE Stores -------------------------------
(***************************************************************************)
(* The two backends of the identity service and the repositories that      *)
(* speak to them.                                                          *)
(*                                                                         *)
(* Redis holds login sessions and authorization codes; MySQL holds users,  *)
(* OAuth clients and refresh tokens.  Every operation below is one call of *)
(* one repository method, hence one atomic command of a backend, so the    *)
(* steps of concurrent requests interleave between them.                   *)
(*                                                                         *)
(* Random identifiers (session ids, codes, refresh tokens) are named after *)
(* the request that draws them: that is what their 128 or 256 random bits  *)
(* buy, and it makes freshness a matter of naming.                         *)
(***************************************************************************)

CONSTANTS
    Users,        \* rows that may be in the users table (id and email)
    ClientIds,    \* client_id values a request may carry
    ClientTable,  \* the clients table: client_id -> row, None when absent
    Uris,         \* redirect URIs
    Scopes,       \* scope names
    Secrets,      \* raw client secrets
    Verifiers,    \* PKCE code verifiers
    SessionIds,   \* login requests, each naming the session id it draws
    CodeIds,      \* authorize requests, each naming the code it draws
    TokenIds,     \* token requests, each naming the refresh token it draws
    None          \* nil: no row, no key, an empty parameter

VARIABLES
    users,        \* MySQL users: the rows present
    sessions,     \* Redis session:<id> -> the user logged in, or None
    codes,        \* Redis authcode:<code> -> what the code stands for, or None
    tokens        \* MySQL refresh_tokens: row, or None

stores == <<users, sessions, codes, tokens>>

-----------------------------------------------------------------------------

\* One-way functions: equal results come from equal arguments only.
Bcrypt(secret)  == [bcrypt |-> secret]
S256(verifier)  == [s256 |-> verifier]

Client   == [secret : {Bcrypt(s) : s \in Secrets} \cup {None},
             uris   : SUBSET Uris,
             scopes : SUBSET Scopes]

\* The value stored in Redis under a code.
AuthCode == [client : ClientIds, user : Users, uri : Uris, scope : SUBSET Scopes,
             challenge : {S256(v) : v \in Verifiers}, method : {"S256", "plain"}]

\* The claims of an access token, which are also the columns of the
\* refresh-token row that say on whose behalf it was issued.
IamClaims == [user : Users, client : ClientIds, scope : SUBSET Scopes]

ASSUME ClientTableAssumption == ClientTable \in [ClientIds -> Client \cup {None}]
ASSUME NoneAssumption ==
    /\ None \notin Users
    /\ None \notin SessionIds
    /\ None \notin CodeIds
    /\ None \notin AuthCode
    /\ None \notin IamClaims

-----------------------------------------------------------------------------
(* A write is answered, refused before it took effect, or applied with its *)
(* answer lost (a timeout, a dropped connection, a cancelled request       *)
(* context): the caller cannot tell the last two apart.                    *)
Outcomes == {"ok", "failed", "lost"}

Write(store, key, value, outcome) ==
    IF outcome = "failed" THEN store ELSE [store EXCEPT ![key] = value]

Lookup(store, key) == IF key \in DOMAIN store THEN store[key] ELSE None

-----------------------------------------------------------------------------
(* SessionRepository *)

CreateSession(s, user, outcome) == sessions' = Write(sessions, s, user, outcome)

GetSession(s) == Lookup(sessions, s)

DestroyKeepsSession(s, outcome) == UNCHANGED sessions   \* seeded fault
DestroySession(s, outcome) == sessions' = Write(sessions, s, None, outcome)

(* AuthCodeRepository *)

CreateCode(c, data, outcome) == codes' = Write(codes, c, data, outcome)

\* GETDEL: the value is read and the key removed by one command.
ConsumeByGet(c, outcome) == UNCHANGED codes             \* seeded fault
ConsumeCode(c, outcome) ==
    codes' = IF c \in DOMAIN codes THEN Write(codes, c, None, outcome) ELSE codes

(* ClientRepository and UserRepository reads *)

GetClient(id) == ClientTable[id]

UserExists(u) == u \in users

(* RefreshTokenRepository.Create: the foreign key on user_id makes MySQL   *)
(* refuse a row of a user that is gone.                                    *)
InsertAlways(t, row, outcome) == tokens' = Write(tokens, t, row, outcome)  \* seeded fault
InsertToken(t, row, outcome) ==
    /\ outcome # "failed" => UserExists(row.user)
    /\ tokens' = Write(tokens, t, row, outcome)

-----------------------------------------------------------------------------
(* What happens to the stores outside any request. *)

\* A Redis key is gone: its TTL passed, it was evicted, or Redis restarted
\* empty.  Any moment is possible, so every TTL is covered.
SessionLapse(s) ==
    /\ sessions[s] # None
    /\ sessions' = [sessions EXCEPT ![s] = None]
    /\ UNCHANGED <<users, codes, tokens>>

CodeLapse(c) ==
    /\ codes[c] # None
    /\ codes' = [codes EXCEPT ![c] = None]
    /\ UNCHANGED <<users, sessions, tokens>>

\* UserRepository.Delete, with ON DELETE CASCADE on refresh_tokens.user_id.
\* The sessions and codes of the user, in Redis, stay.
DropRowsOf(u) == tokens                                  \* seeded fault
CascadeFrom(u) ==
    [t \in TokenIds |-> IF tokens[t] # None /\ tokens[t].user = u THEN None ELSE tokens[t]]

DeleteUser(u) ==
    /\ UserExists(u)
    /\ users' = users \ {u}
    /\ tokens' = CascadeFrom(u)
    /\ UNCHANGED <<sessions, codes>>

-----------------------------------------------------------------------------

StoresInit ==
    /\ users = Users
    /\ sessions = [s \in SessionIds |-> None]
    /\ codes = [c \in CodeIds |-> None]
    /\ tokens = [t \in TokenIds |-> None]

StoresTypeOK ==
    /\ users \in SUBSET Users
    /\ sessions \in [SessionIds -> Users \cup {None}]
    /\ codes \in [CodeIds -> AuthCode \cup {None}]
    /\ tokens \in [TokenIds -> IamClaims \cup {None}]
=============================================================================
