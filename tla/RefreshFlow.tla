---------------------------- MODULE RefreshFlow ----------------------------
(***************************************************************************)
(* The life of a refresh token: stored by the token endpoint, presented at *)
(* POST /refresh (AuthHandler.Refresh over AuthService.RefreshToken),      *)
(* revoked, listed, purged and cascaded away by the methods of             *)
(* RefreshTokenRepository and UserRepository.                              *)
(*                                                                         *)
(* Three clocks judge one expiry.  Go computes it to the microsecond; the  *)
(* DATETIME column rounds it to a second; RefreshToken compares it with    *)
(* time.Now() and the SQL with NOW(), which is cut to the second and read  *)
(* in the time zone of the MySQL session.                                  *)
(***************************************************************************)
EXTENDS Integers

CONSTANTS
    Users, ClientIds, Scopes,
    TokenIds,     \* token grants, each naming the refresh token it draws
    RefreshIds,   \* POST /refresh requests
    Lifetime,     \* of a refresh token (7 days), in ticks
    Skew,         \* NOW() minus UTC, the zone of the DATETIMEs the driver writes
    MaxTime,      \* bound on the clock
    None

VARIABLES
    now,          \* the wall clock, in ticks
    users,        \* MySQL users: the rows present
    tokens,       \* MySQL refresh_tokens: row, or None
    granted,      \* TokenIds -> what a client was granted with this token and when
    refresh       \* RefreshIds -> the request

vars == <<now, users, tokens, granted, refresh>>

\* A quarter of a second is the coarsest tick that tells rounding up, rounding
\* down and cutting off apart.
Second == 4

\* Nothing is granted without a scope.
Claims == [user : Users, client : ClientIds, scope : SUBSET Scopes \ {{}}]
Row    == [claims : Claims, expires : Int, revoked : BOOLEAN]
Grant  == [claims : Claims, at : Nat]

RefreshRequest ==
    [pc     : {"idle", "lookup", "user", "sign", "done"},
     token  : TokenIds \cup {None},      \* None: a token never issued
     row    : Row \cup {None},           \* what GetTokenByHash returned
     claims : Claims \cup {None},        \* of the access token minted
     answer : {"pending", "ok", "bad_request", "server_error", "aborted"}]

ASSUME ClockAssumption == Lifetime \in Nat /\ Skew \in Int /\ MaxTime \in Nat
ASSUME NoneAssumption ==
    None \notin TokenIds /\ None \notin Row /\ None \notin Claims /\ None \notin Grant

-----------------------------------------------------------------------------
(* Clocks *)

Floor(t) == t - (t % Second)
DatetimeCut(t) == Floor(t)                               \* seeded fault
Datetime(t) == Floor(t + 2)              \* MySQL rounds to the nearest second
SqlNow == Floor(now) + Skew

ExpiryOf(t) == Datetime(t + Lifetime)

\* refreshToken.ExpiresAt.Before(time.Now())
NeverExpires(row) == FALSE                               \* seeded fault
Expired(row) == row.expires < now

\* expires_at < NOW(), expires_at > NOW()
PurgeableAtExpiry(row) == row.expires <= SqlNow          \* seeded fault
Purgeable(row) == row.expires < SqlNow
UnexpiredAtExpiry(row) == row.expires >= SqlNow          \* seeded fault
Unexpired(row) == row.expires > SqlNow

-----------------------------------------------------------------------------
(* Rows *)

TokensOf(u) == {t \in TokenIds : tokens[t] # None /\ tokens[t].claims.user = u}

\* GetActiveByUserID
ActiveOf(u) == {t \in TokensOf(u) : ~ tokens[t].revoked /\ Unexpired(tokens[t])}

\* The end of the authorization_code grant: an expiry is drawn and the row
\* inserted, which the foreign key refuses for a user that is gone.  A lost
\* answer leaves a row whose token no client has.
StoreGrant(t, claims, answered) ==
    /\ tokens[t] = None /\ granted[t] = None
    /\ claims.user \in users
    /\ tokens' = [tokens EXCEPT
            ![t] = [claims |-> claims, expires |-> ExpiryOf(now), revoked |-> FALSE]]
    /\ granted' = IF answered THEN [granted EXCEPT ![t] = [claims |-> claims, at |-> now]]
                  ELSE granted
    /\ UNCHANGED <<now, users, refresh>>

RevokeIn(marked) ==
    tokens' = [t \in TokenIds |->
        IF t \in marked THEN [tokens[t] EXCEPT !.revoked = TRUE] ELSE tokens[t]]

DeleteIn(gone) == tokens' = [t \in TokenIds |-> IF t \in gone THEN None ELSE tokens[t]]

\* Revoke; a row revoked already is marked again.
Revoke(t) ==
    /\ tokens[t] # None
    /\ RevokeIn({t})
    /\ UNCHANGED <<now, users, granted, refresh>>

RevokeAllForUser(u) ==
    /\ RevokeIn({t \in TokensOf(u) : ~ tokens[t].revoked})
    /\ UNCHANGED <<now, users, granted, refresh>>

DeleteExpired ==
    /\ DeleteIn({t \in TokenIds : tokens[t] # None /\ Purgeable(tokens[t])})
    /\ UNCHANGED <<now, users, granted, refresh>>

\* UserRepository.Delete with ON DELETE CASCADE.
DeleteUser(u) ==
    /\ u \in users
    /\ users' = users \ {u}
    /\ DeleteIn(TokensOf(u))
    /\ UNCHANGED <<now, granted, refresh>>

-----------------------------------------------------------------------------
(* POST /refresh *)

Answer(r, answer) == refresh' = [refresh EXCEPT ![r].pc = "done", ![r].answer = answer]

\* The body is decoded and must carry a token.  A client has those it was
\* granted.
RefreshArrive(r, token, wellFormed) ==
    /\ refresh[r].pc = "idle"
    /\ token # None => granted[token] # None
    /\ refresh' = [refresh EXCEPT
            ![r].pc = IF wellFormed THEN "lookup" ELSE "done",
            ![r].token = token,
            ![r].answer = IF wellFormed THEN "pending" ELSE "bad_request"]
    /\ UNCHANGED <<now, users, tokens, granted>>

\* GetTokenByHash: WHERE token_hash = ?
RowOf(token) == IF token = None THEN None ELSE tokens[token]

RefreshLookup(r) ==
    /\ refresh[r].pc = "lookup"
    /\ LET row == RowOf(refresh[r].token)
       IN IF row = None THEN Answer(r, "server_error")
          ELSE refresh' = [refresh EXCEPT ![r].pc = "user", ![r].row = row]
    /\ UNCHANGED <<now, users, tokens, granted>>

\* The expiry is checked, revoked_at is not; then users.GetByID, to which a
\* missing row is an error.
RefreshLoadExistingUser(r) ==                            \* seeded fault
    /\ refresh[r].pc = "user"
    /\ refresh[r].row.claims.user \in users
    /\ IF Expired(refresh[r].row) THEN Answer(r, "server_error")
       ELSE refresh' = [refresh EXCEPT ![r].pc = "sign"]
    /\ UNCHANGED <<now, users, tokens, granted>>
RefreshLoadUser(r) ==
    /\ refresh[r].pc = "user"
    /\ IF Expired(refresh[r].row) \/ refresh[r].row.claims.user \notin users
       THEN Answer(r, "server_error")
       ELSE refresh' = [refresh EXCEPT ![r].pc = "sign"]
    /\ UNCHANGED <<now, users, tokens, granted>>

\* IssueAccessToken with the client and the scope of the row.
RefreshSignAllScopes(r) ==                               \* seeded fault
    /\ refresh[r].pc = "sign"
    /\ refresh' = [refresh EXCEPT ![r].pc = "done", ![r].answer = "ok",
                                  ![r].claims = [refresh[r].row.claims EXCEPT !.scope = Scopes]]
    /\ UNCHANGED <<now, users, tokens, granted>>
RefreshSign(r) ==
    /\ refresh[r].pc = "sign"
    /\ refresh' = [refresh EXCEPT ![r].pc = "done", ![r].answer = "ok",
                                  ![r].claims = refresh[r].row.claims]
    /\ UNCHANGED <<now, users, tokens, granted>>

\* A query or the signing fails: every error is answered 500.
RefreshFails(r) ==
    /\ refresh[r].pc \in {"lookup", "user", "sign"}
    /\ Answer(r, "server_error")
    /\ UNCHANGED <<now, users, tokens, granted>>

-----------------------------------------------------------------------------

Init ==
    /\ now = 0
    /\ users = Users
    /\ tokens = [t \in TokenIds |-> None]
    /\ granted = [t \in TokenIds |-> None]
    /\ refresh = [r \in RefreshIds |->
            [pc |-> "idle", token |-> None, row |-> None, claims |-> None,
             answer |-> "pending"]]

Tick ==
    /\ now < MaxTime
    /\ now' = now + 1
    /\ UNCHANGED <<users, tokens, granted, refresh>>

\* The process is killed; requests in progress are never answered.
Crash ==
    /\ refresh' = [r \in RefreshIds |->
            IF refresh[r].pc \in {"idle", "done"} THEN refresh[r]
            ELSE [refresh[r] EXCEPT !.pc = "done", !.answer = "aborted"]]
    /\ UNCHANGED <<now, users, tokens, granted>>

RefreshStep(r) == RefreshLookup(r) \/ RefreshLoadUser(r) \/ RefreshSign(r)

Requests ==
    \E r \in RefreshIds :
        \/ \E token \in TokenIds \cup {None}, wellFormed \in BOOLEAN :
              RefreshArrive(r, token, wellFormed)
        \/ RefreshStep(r)
        \/ RefreshFails(r)

Rows ==
    \/ \E t \in TokenIds, claims \in Claims, answered \in BOOLEAN :
          StoreGrant(t, claims, answered)
    \/ \E t \in TokenIds : Revoke(t)
    \/ \E u \in Users : RevokeAllForUser(u) \/ DeleteUser(u)
    \/ DeleteExpired

Next == Requests \/ Rows \/ Tick \/ Crash

Spec == Init /\ [][Next]_vars

\* A goroutine per request; every backend call returns.
FairSpec == Spec /\ \A r \in RefreshIds : WF_vars(RefreshStep(r))

-----------------------------------------------------------------------------

TypeOK ==
    /\ now \in Nat
    /\ users \in SUBSET Users
    /\ tokens \in [TokenIds -> Row \cup {None}]
    /\ granted \in [TokenIds -> Grant \cup {None}]
    /\ refresh \in [RefreshIds -> RefreshRequest]

\* A row stands for what was granted under its token, rounded expiry and all,
\* whatever was done to it since; so does the copy a request took of it.
RowOrigin ==
    \A t \in TokenIds : tokens[t] # None /\ granted[t] # None =>
        /\ tokens[t].claims = granted[t].claims
        /\ tokens[t].expires = ExpiryOf(granted[t].at)

\* No row outlives its user, and DATETIMEs are whole seconds.
RowSound ==
    \A t \in TokenIds : tokens[t] # None =>
        tokens[t].claims.user \in users /\ tokens[t].expires % Second = 0

RequestOrigin ==
    \A r \in RefreshIds :
        /\ refresh[r].token # None => granted[refresh[r].token] # None
        /\ refresh[r].pc \in {"idle", "lookup"} => refresh[r].row = None
        /\ refresh[r].pc \in {"user", "sign"} => refresh[r].token # None /\ refresh[r].row # None
        /\ refresh[r].row # None =>
              /\ refresh[r].token # None
              /\ refresh[r].row.claims = granted[refresh[r].token].claims
              /\ refresh[r].row.expires = ExpiryOf(granted[refresh[r].token].at)
        /\ refresh[r].claims # None =>
              refresh[r].row # None /\ refresh[r].claims = refresh[r].row.claims

IInv == TypeOK /\ RowOrigin /\ RowSound /\ RequestOrigin

\* An access token minted by /refresh carries the user, the client and the
\* scope of the grant whose refresh token was presented, never more.
RefreshKeepsGrant ==
    \A r \in RefreshIds : refresh[r].claims # None =>
        /\ refresh[r].token # None
        /\ granted[refresh[r].token] # None
        /\ refresh[r].claims = granted[refresh[r].token].claims

\* What the comment on IssueAccessToken says (token.go:27-28): "clientID and
\* scope are empty for the legacy /auth/refresh flow, which predates OAuth
\* clients".  RefreshToken passes those of the row (auth.go:186).
LegacyClaimsEmpty ==
    \A r \in RefreshIds : refresh[r].claims # None =>
        refresh[r].claims.client = None /\ refresh[r].claims.scope = {}

\* A refresh token, revoked or not, passes the check no later than its seven
\* days, and the half second that DATETIME may add, after it was granted.
LifetimeKept ==
    [][\A r \in RefreshIds : refresh[r].pc = "user" /\ refresh'[r].pc = "sign" =>
        now <= granted[refresh[r].token].at + Lifetime + 2]_vars

\* Nor is it refused as expired more than the half second early.
RefusedOnlyWhenOver ==
    \A t \in TokenIds : tokens[t] # None /\ granted[t] # None /\ Expired(tokens[t]) =>
        now > granted[t].at + Lifetime - 2

\* A row disappears only with its user or once /refresh would refuse it: the
\* purge and the check agree on who is expired.
PurgeSafe ==
    [][\A t \in TokenIds : tokens[t] # None /\ tokens'[t] = None =>
        Expired(tokens[t]) \/ tokens[t].claims.user \notin users']_vars

\* The listing and the check agree too: a token listed as active is accepted,
\* and one that is accepted and was not revoked is listed, but for the very
\* second it expires in.
ListingAgrees ==
    \A u \in Users : \A t \in TokensOf(u) :
        /\ t \in ActiveOf(u) => ~ Expired(tokens[t])
        /\ ~ Expired(tokens[t]) /\ ~ tokens[t].revoked =>
              t \in ActiveOf(u) \/ tokens[t].expires = Floor(now)

\* Every refresh request is answered, whatever became of the row and of the
\* user on the way.
RefreshEnds ==
    \A r \in RefreshIds : (refresh[r].pc # "idle") ~> (refresh[r].pc = "done")
=============================================================================
