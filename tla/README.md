# Verification of iam-service

TLA+ specifications, TLC model checks and TLAPS proofs for the OAuth 2.0
identity service in this repository (Go; `src/`). The service logs users in,
issues authorization codes (Authorization Code + PKCE) and redeems them for an
access token and a refresh token. It is a stateless HTTP process over two
backends, Redis and MySQL; what makes it hard is that every request is several
backend calls long, that nothing holds the two backends together, and that
requests interleave between any two of those calls.

- [Inventory](#inventory): the parts of the system and what makes each correct
- [Modules](#modules): what models what
- [How the model maps to the code](#how-the-model-maps-to-the-code)
- [Properties](#properties), [Runs](#runs), [Fairness](#fairness), [Proofs](#proofs)
- [Findings](#findings), [Not modelled](#what-is-not-modelled), [Plan](#plan)

To repeat everything, in this directory: `tlc -config MCRace.cfg MCIamService`
(and the other configurations, each with the module of its row under
[Runs](#runs)), and `tlapm` on each of the eight `*_proofs.tla`.

## Inventory

| Component | State | Operations | Talks to |
|---|---|---|---|
| Login sessions: `handler/auth.go` Login, Logout; `service/auth.go` Login, Logout, SessionByID; `repository/session.go` | Redis `session:<id>` -> user, TTL 30 days; the cookie in a browser | POST /login, POST /logout | MySQL `users` (read), bcrypt, Redis SET / GET / DEL |
| Authorization endpoint: `handler/auth.go` Authorize; `service/auth.go` Authorize; `repository/auth_code.go` | Redis `authcode:<code>` -> client, user, redirect URI, scope, PKCE challenge, TTL 60 s | GET /oauth/authorize | MySQL `clients` (read), Redis GET of the session, SET of the code |
| Token endpoint: `handler/token.go`; `service/token_grant.go` | MySQL `refresh_tokens` | POST /oauth/token (`authorization_code`; `refresh_token` is a stub) | MySQL `clients`, `users` (read), Redis GETDEL, RSA signing, MySQL INSERT |
| Legacy refresh: `service/auth.go` RefreshToken; `repository/refresh_token.go` | `revoked_at`, `expires_at` of the rows | POST /refresh; Revoke, RevokeAllForUser, GetActiveByUserID, DeleteExpired (no caller yet) | MySQL, signing |
| User registration: `service/auth.go` Register; `repository/user.go` | MySQL `users` | Register, Delete (neither is routed) | MySQL, bcrypt |
| Client registration: `service/client.go`; `repository/client.go` | MySQL `clients` | POST /admin/clients | MySQL, bcrypt |
| Access tokens and keys: `service/token.go`, `app/keys.go`, `handler/jwks.go` | an RSA key pair, read-only after start-up | loadRSAKeys, IssueAccessToken, IssueRefreshToken, JWKS | two PEM files; verifiers, through caches |
| Request parsing and validation: `dtos/`, `validator/`, `httpx/`, the writers of `handler/token.go` | none | Parse*, Validate, resolveClient, RedirectWith, safeNext | the login page and the client, through redirects |
| Redis client: `cache/redis.go` | connection pool | Set, Get, GetDel, Delete, Exists, TTL | Redis |
| Start-up and shutdown: `cmd/api/main.go`, `app/app.go`, `database/db.go` | the handles of both backends | New, Close, signal handling, Shutdown with 15 s | all |
| Migrations: `cmd/migrate`, `database/migrations` | the schema | up, down, create | MySQL |

Interactions. Nothing is shared in memory between requests: all interaction
goes through the stores. A login leaves a session id in a browser; an authorize
request reads the session and leaves a code, which the browser carries to the
client; a token request takes the code and leaves a refresh-token row. So the
identity, the scope and the PKCE challenge are copied through four handlers
and two stores, each of which trusts what the previous one wrote.

What is hard here.

- Interleaving: two redemptions of one code; a logout during an authorize
  request; a user deleted between the read for the claims and the insert.
- Partial failure: the code is consumed first, then six things may still fail;
  the access token is minted before the refresh token is stored.
- Unreliable calls: every write may be applied with its answer lost (timeout,
  dropped connection, request context cancelled by a client that hung up).
- Loss: keys lapse at any moment; Redis may restart empty; the process is
  killed by `log.Fatalf` when Shutdown times out.
- Stale state: sessions and codes outlive, in Redis, the user row in MySQL; an
  address is registered again while a session of its first owner lives; key
  sets outlive, in caches, the process that published them.
- Clocks: three comparisons judge one expiry, in Go and in two SQL conditions,
  at different precisions and perhaps in different time zones.
- Resources: 25 connections shared by requests of several queries each, no
  query timeout, and a shutdown that waits for all of them.

What makes each component correct.

- Sessions: a live session is that of a user who proved the password, and is
  dead once a logout was answered 204.
- Authorization endpoint: never redirects to a URI the client did not
  register; grants no scope beyond the registration; the code stands for the
  request that drew it.
- Token endpoint: each code mints at most once, only for the client, URI and
  verifier it was made for; what was answered is stored; nothing is stored for
  a user who is gone; every request is answered.
- Legacy refresh: what is minted is what was granted; nothing is minted past
  the expiry; purge, listing and check agree on who is expired.
- User registration: one account per address, raced or not; whoever is told
  "registered" has the account; a session acts only for the account that opened it.
- Client registration: the answer tells what became of the row; a confidential
  client is its registrant's alone; a refusal names its cause.
- Validation: reports everything at once; no answer of the token endpoint
  lacks its headers; credentials come from exactly one place.
- Keys: the process holds the two halves of one pair; whoever verifies by a
  cached key set accepts what the process signs, after a bounded time.
- Start-up and shutdown: no request meets a store that is not open; exit 0 is a
  clean stop; a signal ends the process whatever hangs.
- Migrations: an up that succeeds leaves the whole schema; an interrupted run
  can be repeated, and when not is known.
- The way through the login page: back to the same request, never to another host.

`PROJECT.json` lists the hazards at their lines.

## Modules

The authorization-code flow, composed:

| Module | What it is |
|---|---|
| `Stores` | Redis and MySQL as the repositories use them: one operator per repository method, the three outcomes of a write, keys that lapse, deletion of users with its cascade |
| `SessionFlow` | POST /login and POST /logout |
| `AuthorizeFlow` | GET /oauth/authorize |
| `TokenFlow` | POST /oauth/token |
| `IamService` | the composition: all requests concurrently over the same stores, crash and restart, fairness, and the properties |
| `IamInvariant` | the inductive invariant `IInv`, in named parts |
| `GrantSpec` | the abstract specification: an authorization is offered once, then redeemed once for exactly what was offered, or void; both final |
| `IamRefinement` | the refinement mapping from `IamService` to `GrantSpec` |
| `MCIamService` | the instances for TLC: three clients, the request forms |
| `IamService_proofs` | TLAPS: `IInv`, every safety and action property, and that `IamService` implements `GrantSpec` |

`Stores` <- `SessionFlow`, `AuthorizeFlow`, `TokenFlow` <- `IamService` <-
`IamInvariant`, `IamRefinement` <- `MCIamService`, `IamService_proofs`.

The parts around it, each a module of its own with the state it needs:

| Module | What it is |
|---|---|
| `RefreshFlow`, `RefreshFlow_proofs` | the life of a refresh token: stored, presented at POST /refresh, revoked, listed, purged, cascaded away, under a clock that ticks four times a second |
| `AccountSpec` | abstract accounts: an address belongs to one open account, an account opens once, tokens are minted for open accounts |
| `AccountFlow`, `AccountFlow_proofs` | AuthService.Register and UserRepository.Delete against logins, sessions, codes and tokens; implements `AccountSpec` |
| `ClientFlow`, `MCClient`, `ClientFlow_proofs` | POST /admin/clients, then POST /oauth/token as far as the client check |
| `Process` | app.New, main, signals, shutdown, Close; requests as sequences of MySQL and Redis calls over a bounded pool |
| `Requests`, `MCRequests`, `Requests_proofs` | validation, credentials and answers of the two OAuth endpoints, with a caller that corrects what it is told to |
| `Keys`, `Keys_proofs` | the two key files, the process that loads them, tokens, the published key set and the verifiers that cache it |
| `Migrate` | cmd/migrate over the three SQL files, cut off and repeated |
| `Commands_proofs` | TLAPS: the two commands, `Process` and `Migrate` |
| `LoginRedirect`, `LoginRedirect_proofs` | the way from /oauth/authorize through the login page and back: `safeNext`, `RedirectWith` |

They are apart from `IamService` because they share no state with it that a
property needs, and one state space of everything could not be explored.
Where they do meet, the smaller module carries the part it needs as actions:
`AccountFlow` has the sessions and codes (as identities only), `ClientFlow` the client
check, `RefreshFlow` the insert at the end of the code grant.

Operators marked `seeded fault` stand beside the definition they would replace:
each is a plausible bug (a GET where GETDEL is needed, a dropped scope check, a
code put back after a failure, a missing cascade). They belong to no
specification; `PROJECT.json` pairs each property with a fault that breaks it.

## How the model maps to the code

`PROJECT.json` ("map") gives the source lines of every definition. The
decisions behind it:

**A step is a backend call.** Between two backend calls a handler only touches
its own memory, so the code between them is part of the step of the call
before. `login[s]`, `authz[c]`, `tok[t]` hold the local variables of one
request; `pc` names the call it is about to make:

| `pc` | next call | code |
|---|---|---|
| `login`: `lookup`, `session` | GetByEmail; SET of the session | `service/auth.go` Login |
| `authz`: `client`, `session`, `code` | GetByID; GET of the session; SET of the code | `service/auth.go` Authorize |
| `tok`: `client`, `consume`, `user`, `store` | GetByID; GETDEL; GetByID; INSERT | `service/token_grant.go` authorizationCodeGrant |

Hashing, PKCE, claims and signing run inside the step of the call that precedes
them. A logout is one call (DEL), hence one step. Access tokens are minted
at the end of the `user` step, before the INSERT, as in the code.

**Identifiers are named after the request that draws them.** Session ids, codes
and refresh tokens are 128 to 256 random bits (`crypto/rand`, UUID). The
model draws session id `s` in login request `s`, and so on: identifiers never
collide and are not guessed. A request presents an identifier the
service handed out, at any time after, including after logout or redemption,
or `None`, one that never existed. `authz[c].form` thereby also records which
authorize request a code came from, which is what the properties compare with.

**Every failure the code has a branch for.** A write is `ok`, `failed` (no
effect) or `lost` (took effect, the caller got an error): `Outcomes`. A failed
read is `LoginFails`, `AuthorizeFails`, `TokenFails`; a GETDEL whose reply
is lost is `TokenConsumeLost`. A client that disconnects cancels `r.Context()`,
which the caller sees as one of these. `TokenFails` also stands for a signing
error. The endpoint answers all of these with `invalid_grant`, as
`writeTokenExchangeError` does in its default branch.

**The stores move on their own.** `SessionLapse` and `CodeLapse` remove a key
at any moment. That covers each TTL without a clock, as well as eviction and a
Redis restart (several lapses): a superset of what Redis does, so safety carries
over. `DeleteUser` is `UserRepository.Delete` with the schema's `ON DELETE
CASCADE`. No handler calls it yet; it stands for an operator or a future
endpoint. The foreign key makes `InsertToken` fail for a user that is gone.

**Crash.** `Crash` aborts every request in progress and keeps the stores. A
kill in the middle of a backend call is the lost or the failed outcome of that
call followed by `Crash`.

**Data.** A request is a record of what some check tells apart: whether its
required fields are well formed, its client, redirect URI, scope set, challenge,
method and prompt; for the token endpoint where the credentials are. SHA-256
and bcrypt are one-way constructors (`S256`, `Bcrypt`), never the identity.
A user's id and email are one value: both are unique and never updated. Identifier
comparison is exact, the column collation of MySQL is not modelled. Nonce, state,
wording, HTTP statuses other than logout's and response headers are left out.

**Constants with assumptions.** `ClientTable` is the `clients` table: no code
path updates a client, and registration is `ClientFlow`'s.
`ClientTableAssumption`, `NoneAssumption`, `AuthorizeFormsAssumption`,
`TokenFormsAssumption` are typing and the distinctness of `None`; nothing
else is assumed. `LoginRedirect` assumes the same of its `None`, and that `MaxLapses` is a number; `Process` that the pool has a connection (25 in the code).

**The other modules** follow the same rules; what is particular to each:

- `RefreshFlow`. A tick is a quarter of a second, the coarsest that tells
  rounding from cutting: Go computes the expiry to the microsecond, the DATETIME
  column rounds it to the second (`Datetime`), `NOW()` is cut to the second and
  read in the zone of the MySQL session (`SqlNow`; `Skew` is its distance from
  UTC, in which the driver writes). `refresh[r].pc` is `lookup`, `user`, `sign`:
  GetTokenByHash, GetByID, signing. Revoke and the rest have no caller and are
  enabled at any time, one SQL statement each.
- `AccountFlow`. Register is two calls (`check`, `insert`), the unique index is
  `MayInsert`. Ids are drawn by registrations, so an id is its registration.
  `IssueCode` and `RedeemCode` stand for the two OAuth endpoints, with nothing
  but the identities they copy; expiry of a code is covered by its not being redeemed.
- `ClientFlow`. The loop over the grant types is `RefusedAt` and `GrantError`:
  the first refused position decides, and of one position the clash with a
  public client comes first. `Disclosed` is the set of secrets that left the
  server; a token request presents one of them or none. The supported set is a
  constant, because the code's comment speaks of the time when it has grown.
- `Process`. `Calls` lists the backend calls of each route. A MySQL call takes
  a connection when one is free and returns it when it ends, as `database/sql` does
  outside transactions; it may hang, and ends when the client leaves and
  `r.Context()` is cancelled. Signals before `signal.Notify` kill; the channel holds one.
- `Requests`. A text is its length where only the length is read, a URL the
  record of what `url.Parse` finds that the code looks at. The answer of the services is any
  of those `Exchange` has, chosen freely. The caller copies the fields an answer
  reports from a valid request of the same grant and sends again.
- `Keys`. `LoadPrivate` and `LoadPublic` are the two file reads; an operator may
  write either file at any moment. A verifier asks for the key set when the one
  it has is stale, and judges by it alone (tokens carry no `kid`).
- `Migrate`. One step is one statement, or the write of the version; both can
  fail, or take effect with the answer lost. `torn` remembers that a down was cut off.
- `LoginRedirect`. `next` is a record of what `safeNext` looks at. The login
  page is external: it posts the password and goes where `next` says. A
  malformed LOGIN_URL, which `RedirectWith` answers 500, is left out: it is a
  configuration error and the same for every request.

## Properties

Of `IamService`:

| Property | Says |
|---|---|
| `TypeOK` | types |
| `SingleUse` | of all the token requests presenting one code, at most one mints |
| `GrantBinding` | tokens are minted only for the client, redirect URI and verifier of the authorize request, the client authenticated |
| `GrantUser` | tokens name the user whose password was proved at the login whose cookie the authorize request carried |
| `GrantScope` | the scope is what was asked for, not empty, within the client's registration |
| `RedirectRegistered` | no redirect, with a code or an error, to an unregistered URI |
| `GrantedIsDurable` | a client answered with a refresh token has its row, with the same claims, while the user exists |
| `NoOrphanTokens` | no refresh token of a deleted user |
| `LogoutIsFinal` (action) | after a 204, no authorize request passes the session check with that session, whenever it arrived |
| `CodeNeverRevives` (action) | a code handed out and gone is never redeemable again |
| `GrantNeedsUser` (action) | tokens are handed out only while the user exists, although nothing locks the row between the read and the insert |
| `EveryRequestEnds` (liveness) | every request that arrived is answered |
| `ImplementsGrant` (refinement) | the service implements `GrantSpec` |

`LogoutIsFinal` is exactly as strong as the code: an authorize request that
read the session before the logout may still issue its code afterwards. No
check in `Authorize` prevents it, and no document claims otherwise.

In `GrantSpec` an authorization counts as granted when the tokens are minted,
even if the INSERT then fails and the client is answered `invalid_grant`: the
code is spent all the same, and the client has to start again.

Of the other modules (`IInv` in each, `MigrateInv` in `Migrate`, is the inductive invariant, types included):

| Module | Property | Says |
|---|---|---|
| `RefreshFlow` | `RefreshKeepsGrant` | an access token from /refresh carries the user, client and scope of the grant |
| | `LifetimeKept` (action) | no token, revoked or not, passes the check later than its lifetime and half a second |
| | `RefusedOnlyWhenOver` | none is refused as expired more than half a second early |
| | `PurgeSafe` (action) | a row goes only with its user or when /refresh would refuse it |
| | `ListingAgrees` | what is listed active is accepted; what is accepted and unrevoked is listed, but for its second of expiry |
| | `RefreshEnds` (liveness) | every refresh request is answered |
| `AccountFlow` | `UniqueAddress` | one account per address |
| | `RegistrationHolds` | who was told "registered" has the account, under the password chosen, until it is deleted |
| | `RetryMaySignIn` (action) | who was told that the address has an account, on a retry after a lost answer too, is not refused at login with the password chosen, unless an account of the address was deleted or has another password |
| | `SessionKeepsAccount` | tokens minted through a session name the account whose password opened it, even if its address changed hands |
| | `ImplementsAccounts` (refinement) | it implements `AccountSpec` |
| `ClientFlow` | `OnlyTheRegistrant` | a confidential client is authenticated by the secret disclosed at its registration and nothing else; rows of lost answers authenticate nobody |
| | `RegistrantIsAdmitted` (action) | a registrant presenting what it was told is not refused as a client |
| | `PublicNeverMachine` (proved only) | no public client is stored for `client_credentials`, whatever set is supported: it would hold by the gate alone for the set of today |
| `Process` | `StoresOpenWhileServing` | a request in progress never meets a store that is not open |
| | `CleanExit` | exit 0: both handles closed, no request cut off |
| | `PoolNeverStuck` (proved only) | who waits for a connection waits behind a query another request is in: the safety half of `RequestsEnd` |
| | `RequestsEnd` (liveness) | requests do not wait for connections they hold themselves: all end, if no query hangs for good |
| | `SignalEnds` (liveness) | a signal ends the process, whatever hangs |
| `Requests` | `FewRounds` | correcting what is reported is enough after one answer at /oauth/authorize and two at /oauth/token |
| | `NoStoreAlways` | no answer of /oauth/token without its headers; 401 if and only if with a challenge |
| | `OneCredential` | what gets past `resolveClient` has credentials in exactly one place |
| `Keys` | `VerifiersCatchUp` | after `MaxAge` no fresh key set rejects a token the process signed, after `Lifetime` none rejects any |
| `Migrate` | `MigrateInv` | versions are recorded without a gap and no table is there without the one it refers to; what is recorded is in place, unless a down was cut off, but for what a down is at work on |
| | `UpCompletes` | an up that exits well leaves every table and column, unless a down was cut off |
| | `RefusedOnlyWhenTorn` | the database refuses a statement only after a down was cut off, or when migration 3 was applied and not recorded |
| `LoginRedirect` | `StaysInside` | no `next` leads to another host |
| | `AnswersTheOrigin` | code or error belong to the request the browser set out with |
| | `ComesBack` (liveness) | the browser gets an answer to its request once its session stops ending |

`LifetimeKept` speaks of revoked tokens on purpose: /refresh reads no
`revoked_at` (`service/auth.go:176`), so expiry is the only bound on what a
revoked token can do, and this says what that bound is.

## Runs

The first three on `MCIamService`. Clients: `spa` (public, two URIs, scope read), `web`
(confidential, one URI, read and write), `ghost` (not registered).

| Run | Instance | Checks | Shows |
|---|---|---|---|
| `race` (MCRace) | 2 users, 2 logins, 1 authorize, 2 token requests, the second form with a wrong verifier; 1,397,574 states up to symmetry | `IInv SingleUse GrantedIsDurable GrantUser CodeNeverRevives GrantNeedsUser LogoutIsFinal ImplementsGrant` | two redemptions racing for a code, with every outcome of every call, lapses, deletion and crash; logouts racing with an authorize request; identities do not mix; the refinement |
| `forms` (MCForms) | `FairSpec`; 1 request of each kind; all 13 authorize and 17 token forms; 196,290 states | `GrantBinding GrantScope RedirectRegistered EveryRequestEnds` | every way a request can be wrong, in every pairing of authorize and token form; every request is answered |
| `logout` (MCLogout) | 1 of each | `LogoutAlways204`, violated | first finding |
| `refresh` (MCRefresh), `RefreshFlow` | `FairSpec`; 2 users, 1 token, 2 requests, 2 scopes, lifetime 5 ticks, clock to 9; 625,168 states | `RefusedOnlyWhenOver ListingAgrees RefreshKeepsGrant LifetimeKept PurgeSafe RefreshEnds` | the three judges of an expiry agree; claims are the grant's; requests end |
| `legacy_refresh` (MCLegacy), `RefreshFlow` | 1 user, 1 token, 1 request, 2 scopes | `LegacyClaimsEmpty`, violated | second finding |
| `account` (MCAccount), `AccountFlow` | 3 registrations, 2 addresses, 2 passwords, 1 login; 1,485,137 states | `RegistrationHolds SessionKeepsAccount RetryMaySignIn ImplementsAccounts` | races for an address; a retry after a lost answer; an address that changes hands under a session |
| `client` (MCClient), `MCClient` | 2 registrations of 13 bodies, 1 token request; 84,672 states | `IInv OnlyTheRegistrant RegistrantIsAdmitted` | rows, answers and secrets under lost answers |
| `process` (MCProcess), `Process` | `FairSpec`; 3 requests of 3 routes, pool of 2; 292,556 states | `IInv StoresOpenWhileServing RequestsEnd SignalEnds` | start-up, serving, shutdown in every order; no request waits for itself; a signal ends the process |
| `requests` (MCRequests), `MCRequests` | lengths on both sides of every bound, six URLs, all credentials; 32,811 states | `FewRounds NoStoreAlways OneCredential` | validation and answers |
| `keys` (MCKeys), `Keys` | 2 pairs, 2 verifiers, lifetime 3, max-age 1, clock to 7; 3,589,380 states | `IInv VerifiersCatchUp` | replacing keys by a restart |
| `migrate` (MCMigrate), `Migrate` | six commands; 651 states | `MigrateInv UpCompletes RefusedOnlyWhenTorn` | interrupted migrations |
| `login_redirect` (MCLogin), `LoginRedirect` | `FairSpec`; 3 requests, one silent, 2 lapses; 534 states | `StaysInside AnswersTheOrigin ComesBack` | the detour through the login page |

A run that checks `IInv` checks its conjuncts with it: `TypeOK` and `NoOrphanTokens` in
`race`, `CleanExit` in `process`. `ImplementsAccounts` contains `UniqueAddress`. The
inductive invariants of `RefreshFlow`, `AccountFlow`, `Requests` and `LoginRedirect` are left to the proofs.

Bounds. `IamService`, `AccountFlow`, `ClientFlow` and `Process` have no bound besides the numbers of requests: each
`SessionIds`, `CodeIds`, `TokenIds` is one request, so the state space is finite
by itself. Two token requests are the smallest race on a code, two users with a login each
the smallest mix-up of identities, three registrations the smallest retry beside a rival,
three requests over two connections the smallest queue behind a pool that others share.
`race` has one code: a second one beside the two users and logins takes the states
beyond what TLC explores in minutes. That codes are not taken for each other rests on the proofs:
the theorems below hold for any numbers, which is what says these bounds are enough.
`MaxTime` bounds the clocks of `RefreshFlow` (9 ticks: the lifetime of 5, the
rounding, and a second beyond) and of `Keys` (7 ticks: a restart, the lifetime
of 3 and the cache's 1 after it); `MaxLapses` how often the session ends in
`LoginRedirect` (a session that always ends before the browser is back would
keep it going round). `Requests`, `Migrate` and `Keys` go on without end.
Deadlock checking is off where the budget of requests runs out or the
process has exited; it is on for `Requests`, `Keys`, `Migrate` and
`LoginRedirect`. That no request gets stuck before is `EveryRequestEnds`,
`RefreshEnds` and `RequestsEnd`. Symmetry is used in `race` alone, over users,
logins, codes and tokens (`Interchangeable`): the modules compare these and never choose among
or order them, and what `race` checks are invariants and step properties, the refinement
of `GrantSpec` among them, which states no fairness. The runs with liveness have none,
because it would be unsound there. `refresh` takes a MySQL session in UTC (`Skew = 0`), as the images of
`docker-compose` have it; see the proofs for other zones.

## Fairness

`FairSpec` has weak fairness on the steps of each request under way (`LoginStep`,
`AuthorizeStep`, `TokenStep`) and on nothing else. Each request has a goroutine
of its own (`http.Server`), no handler waits for another, and each backend
call is assumed to return. For Redis go-redis' default timeouts do that; MySQL
has no timeout configured (`database.Connect`), and a request waiting for one of
its 25 connections waits for another query to return: there it is an assumption about the
environment. Nothing is obliged to arrive, fail, lapse, be deleted or crash.
`EveryRequestEnds` counts an aborted request as ended.

`RefreshFlow` has the same fairness for `RefreshStep`. `Process` makes the
assumption about MySQL explicit: its `FairSpec` lets any query hang for ever
and is fair to main and to the handlers only, which suffices for `SignalEnds`,
because `Shutdown` has a deadline of 15 seconds. `RequestsEnd` has its premise in
the property: if no query hangs for good (WriteTimeout does not cancel a handler,
so only a client that leaves or MySQL itself ends one), every request ends. In `LoginRedirect` the browser follows redirects and the user signs in when
asked; the client application owes nothing.

## Proofs

Eight modules, checked by TLAPS with no
unproved leaf. They hold for all sets of users, clients, requests, forms, keys and
URIs, finite or not, and for all lifetimes and pool sizes, under the named assumptions on the constants.

| Theorem | Statement |
|---|---|
| `Invariance` | `Spec => []IInv` |
| `TypeCorrect`, `SingleUseHolds`, `GrantBindingHolds`, `GrantUserHolds`, `GrantScopeHolds`, `RedirectRegisteredHolds`, `GrantedIsDurableHolds`, `NoOrphanTokensHolds` | `Spec => []P` for each state property |
| `LogoutIsFinalHolds`, `CodeNeverRevivesHolds`, `GrantNeedsUserHolds` | `Spec => P` for each action property |
| `Refinement` | `Spec => ImplementsGrant` |
| `OneCodeEachHolds` | `Spec => []Grant!OneCodeEach`, from `Refinement`: each holder of claims has a granted code of its own, which offered these claims |
| `RefreshFlow_proofs`: `RefreshInvariance`, `RefreshKeepsGrantHolds`, `LifetimeKeptHolds`, `RefusedOnlyWhenOverHolds` | for every lifetime and time zone |
| `PurgeSafeHolds` | `Skew <= 0 => (Spec => PurgeSafe)` |
| `ListingAgreesHolds` | `Skew = 0 => (Spec => []ListingAgrees)` |
| `AccountFlow_proofs`: `AccountInvariance`, `UniqueAddressHolds`, `RegistrationHoldsAlways`, `SessionKeepsAccountHolds` | `Spec => []P` |
| `RetryMaySignInHolds` | `Spec => RetryMaySignIn` |
| `AccountsImplemented` | `Spec => ImplementsAccounts` |
| `AccountsSoundHolds` | `Spec => []Abstract!AccountsSound`, from `AccountsImplemented`: an id names one account, in tokens too and after it was closed |
| `ClientFlow_proofs`: `ClientInvariance`, `OnlyTheRegistrantHolds`, `RegistrantIsAdmittedHolds`, `PublicNeverMachineHolds` | for every set of supported grant types |
| `Commands_proofs`: `ProcessInvariance`, `StoresOpenWhileServingHolds`, `CleanExitHolds`, `PoolNeverStuckHolds` | `Spec => []P`, for every pool size |
| `MigrateInvariance`, `UpCompletesHolds`, `RefusedOnlyWhenTornHolds` | `MigrateSpec => []P`, for every set of arguments and any number of runs |
| `Requests_proofs`: `RequestsInvariance`, `FewRoundsHolds`, `NoStoreAlwaysHolds`, `OneCredentialHolds` | for every set of forms |
| `Keys_proofs`: `KeysInvariance`, `VerifiersCatchUpHolds` | for every `Lifetime` and `MaxAge` |
| `LoginRedirect_proofs`: `DetourInvariance`, `StaysInsideHolds`, `AnswersTheOriginHolds` | for every set of requests and every `MaxLapses` |

The argument for `IamService`. None of the properties is inductive: each speaks of a token
request and of a login several requests earlier. `IInv` carries the facts in
between. `SessionOrigin` says a live session is that of the login which drew
it; `AuthorizeUser` that the user of an authorize request comes from such a
session, even after it is gone; `CodeOrigin` that a live code is the `Binding`
of the request that drew it; `HolderHasCode` and `OneHolder` that
whoever took a code holds that binding and that Redis and everyone else no longer do;
`TokenProgress` what a token request has passed by each `pc`. `SingleUse` then
follows from `OneHolder`, `GrantUser` from `HolderHasCode`, `AuthorizeUser` and
`SessionOrigin`. `TypeOK` is a conjunct because it is not inductive alone either:
that a code and claims are complete records depends on `AuthorizeProgress` and
`TokenProgress`. The step proof has one lemma per action. The refinement
uses `IInv` on both sides of a step: every action of the service maps to `Offer`,
`Redeem`, `Void` or a stutter, and a `Crash` to a `Void` of all the codes in the
hands of aborted requests.

The other arguments.

- `RefreshFlow`: `RowOrigin` ties a row to its grant, so that the lifetime of
  a row is that of the grant, rounded; `RequestOrigin` does the same for
  the copy a request holds after the row is gone. The rest is arithmetic of
  `Floor`: DATETIME moves an expiry by at most half a second, and comparing
  whole seconds with `NOW()` or with a finer clock differs only within the second
  (`RowSound`). Where the zone of the session matters the theorem says for which
  ones it holds: with a session ahead of UTC the purge removes live tokens.
- `AccountFlow`: the id of an account names the registration that drew it, the
  id of a session the login; `RegistrationOrigin` and `LoginOrigin` say the rows
  and sessions are what those wrote, and stay so whatever happens to the
  address. `UniqueAddress` is inductive by the index alone. `SettledTaken` remembers that an
address somebody was told has an account did get one; with it and `UniqueAddress` the row a
login finds (`SettledSignsIn`) is the one whose password the caller chose. In the refinement an INSERT that took
  effect opens the account, also when its answer is lost; every other end of a
  registration gives its id up (`Forgo`).
- `ClientFlow`: `RegistrationOrigin` says that a row is its registration's;
  a secret in clear exists only in the registration that was answered.
- `Process`: `PhaseSound` says what is open in each phase and that requests are
  in progress only while serving or draining. `PoolNeverStuck` follows from what holds a
  connection: calls, never requests.
- `Requests`: `Progress` says what a caller has won by each sending: which fields of a
  token request are needed depends on its grant alone, so that once the grant is named
  the next correction is the last.
- `Keys`: `Dated` says that tokens and key sets of another pair than the running
  one are no younger than the process.

- `Migrate`: the constants are few, the strings of the SQL files are what the proof
  is about. `SchemaSound` (recorded versions have no gap) and `RunSound` (a run works
  right above them or at their top, and what it has passed is done) leave the
  four statements that need something: the foreign key, the two columns, and the
  drops of a table referred to and of columns that may be gone. `NotRefused`
  shows that `RecordedIsThere` grants each of them what it needs.
- `LoginRedirect`: between the two halves of the detour the request is nowhere but in
  `next`, so the invariant says what `next` holds while the browser is on the login page
  (`RequestURI(origin)`), and that a browser that set out for nothing has
  nothing; `SafeNextKeeps` and `SafeNextStays` are the two facts on `safeNext`.
- The abstract specifications: `OneCodeEach` and `AccountsSound` are proved of
  the actions of `GrantSpec` and `AccountSpec` alone, one by one, and carried to the service
  by the refinements: they say that the abstract specifications promise what they
  were written for.

Only model-checked: the liveness properties (`EveryRequestEnds`, `RefreshEnds`,
`RequestsEnd`, `SignalEnds`, `ComesBack`), because liveness under fairness is outside
what the prover handles. Every safety and action property of a passing run, and both refinements,
are proved.

## Findings

Two runs check what a comment says, and TLC finds it violated by what the code does.

Run `logout`, `LogoutAlways204`.
The comment on `AuthHandler.Logout`
(`src/internal/handler/auth.go:90-91`) says it "Always returns 204, even without
a valid session"; lines 94-96 answer 500, without clearing the cookie, when the
DEL fails or its reply is lost. Safety is not at stake: `LogoutIsFinal` holds,
because only a 204 counts as signed out.

Run `legacy_refresh`, `LegacyClaimsEmpty`. The comment on `TokenService.IssueAccessToken`
(`src/internal/service/token.go:27-28`) says "clientID and scope are empty for the legacy
/auth/refresh flow, which predates OAuth clients"; `src/internal/service/auth.go:186` passes
the client and the scope of the refresh token's row, which the code grant, the only writer of
rows, always sets. `RefreshKeepsGrant` says what the code does instead, and bounds it: the
token carries what was granted and no more. Rows written before the third migration, which had neither, are not in
the model; they expired a week after it.

Smaller disagreements of text and code, met while modelling. The modules follow the
code; none has a run.

- `src/internal/service/auth.go:20`: "ErrEmailTaken is
  returned when the email address is already registered." The loser of a race
  between lookup and INSERT gets the duplicate-key error of MySQL, wrapped
  (`AccountFlow`, answer `duplicate_key`).
- `src/internal/oauth/grant.go:11`:
  "SupportedGrantTypes is the set this server currently implements." It holds
  `refresh_token`, and `refreshTokenGrant` (`token_grant.go:158-168`) is a stub
  (`TokenExchange` answers `not_implemented`).
- `src/internal/app/app.go:35-36`: "On any failure
  it closes whatever it already opened". A failed PING (`redis.go:40`, `db.go:35`)
  returns without closing the client or pool, which New never receives
  (`OpenMySQLFails`, `OpenRedisFails`). The process ends at once.
- `src/internal/handler/token.go:97`:
  "no client_id anywhere" is `invalid_client`. A Basic header with an empty user name
  passes `resolveClient`, and the request may be answered `invalid_request`. Nothing is
  granted to it: no client has an empty id.
- `src/Makefile:36-42` has targets for `reset`
  and `status`; `cmd/migrate` ends on them with "unknown command" (`Migrate`, pc `unknown`).

## What is not modelled

| Part | Why |
|---|---|
| RSA signing, JWT and JWK encoding, the thumbprint | cryptography and encoding; claims, keys and expiry are modelled. Access tokens carry no `kid` header, so verifiers judge by the one key of the set |
| `Exists`, `TTL` of the Redis client, `RefreshTokenRepository.GetByID` | read-only and without a caller |
| `StringSlice`, JSON bodies, the session and code payloads as JSON | conversions whose result no property looks inside; a body that does not decode is the 400 of its handler |
| goose, MySQL and Redis themselves | external: modelled from how the code uses them. Two runs of the migrate command at once are left out |
| `app.Load` | pure function of the environment |
| Interfaces, constructors, mocks | no behaviour |
| Column collation and length limits of MySQL | identifiers compare exactly; an over-long value is a failed INSERT |
| Lengths of challenge and verifier in `IamService` | they are in `Requests`; a challenge no verifier can meet is a hazard listed without a property, because the code has no rule about it |
| Wording, logging | no property is about them |

## Plan

Done: the composition of the authorization-code flow with its abstract
specification and proofs; refresh tokens under a clock; accounts with their
abstract specification; client registration; process life cycle and pool;
validation and answers; keys and cached key sets; migrations; the login detour.

Open:

1. When `refreshTokenGrant` is written (rotation, reuse detection; the steps are
   in its comment, `token_grant.go:159-166`): its actions in `TokenFlow` beside
   the code grant, with the rows of `RefreshFlow`, and `SingleUse` for refresh tokens.
2. When revocation gets a route: /refresh and `revoked_at` in `RefreshFlow`, with
   `LifetimeKept` strengthened to "not after a revocation that was answered".
3. When consent is added (`service/auth.go:245`): a call between session and code.
4. When keys rotate (`service/token.go:83`): more than one entry in the key set of `Keys`.
5. When a fourth migration is written: `Adds`, `Drops` and the lemmas on the SQL files of
   `Commands_proofs`, which go through the versions one by one.
