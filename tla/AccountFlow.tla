---------------------------- MODULE AccountFlow ----------------------------
(***************************************************************************)
(* User accounts: AuthService.Register, UserRepository and what a login    *)
(* session of an account is still good for when the account is deleted and *)
(* its address registered again.                                           *)
(*                                                                         *)
(* Register looks the address up and inserts in two calls; only the unique *)
(* index of users.email stands between them.  No route reaches Register or *)
(* Delete: they are called by an operator or by an endpoint to come.       *)
(***************************************************************************)
CONSTANTS
    Emails, Passwords,
    RegIds,        \* registrations, each naming the user id it draws
    SessionIds,    \* logins, each naming the session id it draws
    None

VARIABLES
    accounts,      \* MySQL users: id -> row, or None
    deleted,       \* ids that had a row once
    reg,           \* RegIds -> the call of Register
    login,         \* SessionIds -> the POST /login
    sessions,      \* Redis session:<id> -> session, or None
    codes,         \* live authorization codes, by the session they came from
    minted         \* claims of access tokens, with that session

vars == <<accounts, deleted, reg, login, sessions, codes, minted>>

Bcrypt(password) == [bcrypt |-> password]

User    == [email : Emails, hash : {Bcrypt(p) : p \in Passwords}]
Session == [user : RegIds, email : Emails]
Code    == [session : SessionIds, user : RegIds]
Claims  == [session : SessionIds, user : RegIds, email : Emails]

Registration ==
    [pc       : {"idle", "check", "insert", "done"},
     email    : Emails \cup {None},
     password : Passwords \cup {None},
     answer   : {"pending", "registered", "email_taken", "duplicate_key", "error", "aborted"}]

LoginRequest ==
    [pc       : {"idle", "lookup", "session", "done"},
     email    : Emails \cup {None},
     password : Passwords \cup {None},
     user     : RegIds \cup {None},
     answer   : {"pending", "ok", "unauthorized", "server_error", "aborted"}]

ASSUME NoneAssumption ==
    None \notin User /\ None \notin Session /\ None \notin RegIds
    /\ None \notin Emails /\ None \notin Passwords

Outcomes == {"ok", "failed", "lost"}

-----------------------------------------------------------------------------
(* UserRepository *)

Present(id) == accounts[id] # None

Registered(email) == \E id \in RegIds : Present(id) /\ accounts[id].email = email

\* GetByEmail: the lookup that Register and Login make.
FoundOrUnderway(email) ==                                \* seeded fault
    Registered(email) \/ \E r \in RegIds : reg[r].pc = "insert" /\ reg[r].email = email
Found(email) == Registered(email)
UserWith(email) == CHOOSE id \in RegIds : Present(id) /\ accounts[id].email = email

\* Create: INSERT, which UNIQUE on email refuses for an address that is taken.
AddressFree(email) == TRUE                               \* seeded fault
MayInsert(email) == ~ Registered(email)

\* Delete; the sessions and the codes of the user stay in Redis.
DeleteUser(id) ==
    /\ Present(id)
    /\ accounts' = [accounts EXCEPT ![id] = None]
    /\ deleted' = deleted \cup {id}
    /\ UNCHANGED <<reg, login, sessions, codes, minted>>

-----------------------------------------------------------------------------
(* AuthService.Register *)

AnswerRegister(r, answer) == reg' = [reg EXCEPT ![r].pc = "done", ![r].answer = answer]

RegisterArrive(r, email, password) ==
    /\ reg[r].pc = "idle"
    /\ reg' = [reg EXCEPT ![r].pc = "check", ![r].email = email, ![r].password = password]
    /\ UNCHANGED <<accounts, deleted, login, sessions, codes, minted>>

RegisterCheck(r) ==
    /\ reg[r].pc = "check"
    /\ IF Found(reg[r].email)
       THEN AnswerRegister(r, "email_taken")
       ELSE reg' = [reg EXCEPT ![r].pc = "insert"]
    /\ UNCHANGED <<accounts, deleted, login, sessions, codes, minted>>

\* What the caller of an INSERT that raised no duplicate key is told.
AnyAnswer(outcome) == "registered"                       \* seeded fault
RegisterAnswer(outcome) == IF outcome = "ok" THEN "registered" ELSE "error"

RegisterInsert(r, outcome) ==
    /\ reg[r].pc = "insert"
    /\ IF MayInsert(reg[r].email)
       THEN /\ accounts' = IF outcome = "failed" THEN accounts
                           ELSE [accounts EXCEPT ![r] = [email |-> reg[r].email,
                                                         hash  |-> Bcrypt(reg[r].password)]]
            /\ AnswerRegister(r, RegisterAnswer(outcome))
       ELSE AnswerRegister(r, "duplicate_key") /\ UNCHANGED accounts
    /\ UNCHANGED <<deleted, login, sessions, codes, minted>>

\* The lookup fails, or bcrypt does (a password beyond 72 bytes).
RegisterFails(r) ==
    /\ reg[r].pc = "check"
    /\ AnswerRegister(r, "error")
    /\ UNCHANGED <<accounts, deleted, login, sessions, codes, minted>>

-----------------------------------------------------------------------------
(* AuthService.Login *)

AnswerLogin(s, answer) == login' = [login EXCEPT ![s].pc = "done", ![s].answer = answer]

LoginArrive(s, email, password) ==
    /\ login[s].pc = "idle"
    /\ login' = [login EXCEPT ![s].pc = "lookup", ![s].email = email, ![s].password = password]
    /\ UNCHANGED <<accounts, deleted, reg, sessions, codes, minted>>

LoginLookup(s) ==
    /\ login[s].pc = "lookup"
    /\ LET id == UserWith(login[s].email)
       IN IF Registered(login[s].email) /\ accounts[id].hash = Bcrypt(login[s].password)
          THEN login' = [login EXCEPT ![s].pc = "session", ![s].user = id]
          ELSE AnswerLogin(s, "unauthorized")
    /\ UNCHANGED <<accounts, deleted, reg, sessions, codes, minted>>

\* SessionRepository.Create; both arguments are strings.
NewSession(id, email) == [user |-> id, email |-> email]

OpenSession(s, outcome) ==
    /\ login[s].pc = "session"
    /\ sessions' = IF outcome = "failed" THEN sessions
                   ELSE [sessions EXCEPT ![s] = NewSession(login[s].user, login[s].email)]
    /\ AnswerLogin(s, IF outcome = "ok" THEN "ok" ELSE "server_error")
    /\ UNCHANGED <<accounts, deleted, reg, codes, minted>>

LoginFails(s) ==
    /\ login[s].pc = "lookup"
    /\ AnswerLogin(s, "server_error")
    /\ UNCHANGED <<accounts, deleted, reg, sessions, codes, minted>>

-----------------------------------------------------------------------------
(* What a session is good for: GET /oauth/authorize copies its user id into *)
(* a code, POST /oauth/token loads the user by that id and mints.           *)

SessionUserNow(s) ==                                     \* seeded fault
    IF Registered(sessions[s].email) THEN UserWith(sessions[s].email) ELSE sessions[s].user
SessionUser(s) == sessions[s].user

IssueCode(s) ==
    /\ login[s].answer = "ok"
    /\ sessions[s] # None
    /\ codes' = codes \cup {[session |-> s, user |-> SessionUser(s)]}
    /\ UNCHANGED <<accounts, deleted, reg, login, sessions, minted>>

\* The code is spent; GetByID reports a missing row as an error.
RedeemCode(code) ==
    /\ code \in codes
    /\ codes' = codes \ {code}
    /\ minted' = IF Present(code.user)
                 THEN minted \cup {[session |-> code.session, user |-> code.user,
                                    email |-> accounts[code.user].email]}
                 ELSE minted
    /\ UNCHANGED <<accounts, deleted, reg, login, sessions>>

SessionLapse(s) ==
    /\ sessions[s] # None
    /\ sessions' = [sessions EXCEPT ![s] = None]
    /\ UNCHANGED <<accounts, deleted, reg, login, codes, minted>>

-----------------------------------------------------------------------------

Init ==
    /\ accounts = [r \in RegIds |-> None]
    /\ deleted = {}
    /\ reg = [r \in RegIds |->
            [pc |-> "idle", email |-> None, password |-> None, answer |-> "pending"]]
    /\ login = [s \in SessionIds |->
            [pc |-> "idle", email |-> None, password |-> None, user |-> None,
             answer |-> "pending"]]
    /\ sessions = [s \in SessionIds |-> None]
    /\ codes = {}
    /\ minted = {}

Aborted(requests) ==
    [q \in DOMAIN requests |->
        IF requests[q].pc \in {"idle", "done"} THEN requests[q]
        ELSE [requests[q] EXCEPT !.pc = "done", !.answer = "aborted"]]

Crash ==
    /\ reg' = Aborted(reg)
    /\ login' = Aborted(login)
    /\ UNCHANGED <<accounts, deleted, sessions, codes, minted>>

RegisterStep(r) == RegisterCheck(r) \/ \E outcome \in Outcomes : RegisterInsert(r, outcome)

Registrations ==
    \E r \in RegIds :
        \/ \E email \in Emails, password \in Passwords : RegisterArrive(r, email, password)
        \/ RegisterStep(r)
        \/ RegisterFails(r)

Logins ==
    \E s \in SessionIds :
        \/ \E email \in Emails, password \in Passwords : LoginArrive(s, email, password)
        \/ LoginLookup(s)
        \/ \E outcome \in Outcomes : OpenSession(s, outcome)
        \/ LoginFails(s)
        \/ IssueCode(s)
        \/ SessionLapse(s)

Next ==
    \/ Registrations
    \/ Logins
    \/ \E code \in Code : RedeemCode(code)
    \/ \E id \in RegIds : DeleteUser(id)
    \/ Crash

Spec == Init /\ [][Next]_vars

-----------------------------------------------------------------------------

TypeOK ==
    /\ accounts \in [RegIds -> User \cup {None}]
    /\ deleted \in SUBSET RegIds
    /\ reg \in [RegIds -> Registration]
    /\ login \in [SessionIds -> LoginRequest]
    /\ sessions \in [SessionIds -> Session \cup {None}]
    /\ codes \in SUBSET Code
    /\ minted \in SUBSET Claims

\* What the requests, the rows and the sessions remember of each other: an id
\* is drawn by one registration, a session by one login.
RegistrationOrigin ==
    \A r \in RegIds :
        /\ reg[r].pc # "done" => reg[r].answer = "pending" /\ ~ Present(r) /\ r \notin deleted
        /\ reg[r].pc \in {"check", "insert"} => reg[r].email # None /\ reg[r].password # None
        /\ Present(r) => /\ r \notin deleted
                         /\ accounts[r] = [email |-> reg[r].email,
                                           hash  |-> Bcrypt(reg[r].password)]

LoginOrigin ==
    \A s \in SessionIds :
        /\ login[s].pc # "idle" => login[s].email # None
        /\ login[s].pc \in {"idle", "lookup"} => login[s].user = None
        /\ login[s].pc = "session" => login[s].user # None
        /\ login[s].user # None =>
            /\ reg[login[s].user].pc = "done"
            /\ reg[login[s].user].email = login[s].email
            /\ reg[login[s].user].password = login[s].password
        /\ sessions[s] # None =>
            /\ login[s].pc = "done"
            /\ login[s].user # None
            /\ sessions[s] = [user |-> login[s].user, email |-> login[s].email]

TokenOrigin ==
    /\ \A code \in codes :
        /\ login[code.session].pc = "done"
        /\ code.user = login[code.session].user
    /\ \A m \in minted : login[m.session].pc = "done" /\ reg[m.user].pc = "done"

\* One account per address, however registrations of it race.
UniqueAddress ==
    \A id1, id2 \in RegIds :
        Present(id1) /\ Present(id2) /\ accounts[id1].email = accounts[id2].email => id1 = id2

\* Who was told "registered" has the account, under the password chosen and
\* no other, until it is deleted; so of two callers told so of one address,
\* one came after the other's account was gone.
RegistrationHolds ==
    \A r \in RegIds : reg[r].answer = "registered" =>
        \/ r \in deleted
        \/ accounts[r] = [email |-> reg[r].email, hash |-> Bcrypt(reg[r].password)]

\* The answers after which a caller has nothing left to try: it was told that
\* the address has an account.
Settled(r) == reg[r].answer \in {"registered", "email_taken", "duplicate_key"}

\* The address did get an account, from this registration or from another.
SettledTaken ==
    \A r \in RegIds : Settled(r) =>
        \E q \in RegIds : reg[q].email = reg[r].email /\ (Present(q) \/ q \in deleted)

\* No account of the address was deleted, and none has another password than
\* the one this registration chose.
NobodyElses(r) ==
    \A q \in RegIds : reg[q].email = reg[r].email =>
        q \notin deleted /\ (Present(q) => reg[q].password = reg[r].password)

\* Whoever registers, loses the answer of an INSERT that took effect and tries
\* again until told that the address has an account ("registered", "email
\* taken" or a duplicate key) can sign in with the password chosen: a login
\* is refused only where somebody else's account was in the way.
RetryMaySignIn ==
    [][\A s \in SessionIds, r \in RegIds :
        /\ login[s].pc = "lookup" /\ login'[s].pc = "done"
        /\ login'[s].answer = "unauthorized"
        /\ Settled(r)
        /\ login[s].email = reg[r].email /\ login[s].password = reg[r].password
        => ~ NobodyElses(r)]_vars

\* A session never comes to act for another account: tokens minted through it
\* name the account whose password opened it, although that may be deleted
\* and its address registered again by somebody else meanwhile.
SessionKeepsAccount ==
    \A m \in minted :
        /\ m.user = login[m.session].user
        /\ m.email = reg[m.user].email
        /\ login[m.session].email = m.email
        /\ login[m.session].password = reg[m.user].password

\* The inductive invariant: the types, the memory above and the properties
\* it carries.
IInv ==
    /\ TypeOK
    /\ RegistrationOrigin
    /\ LoginOrigin
    /\ TokenOrigin
    /\ UniqueAddress
    /\ RegistrationHolds
    /\ SettledTaken
    /\ SessionKeepsAccount

Abstract == INSTANCE AccountSpec WITH
    Ids    <- RegIds,
    open   <- {[id |-> r, email |-> accounts[r].email] : r \in {q \in RegIds : Present(q)}},
    spent  <- {r \in RegIds : reg[r].pc = "done"},
    minted <- {[id |-> m.user, email |-> m.email] : m \in minted}

\* The calls, the index and the sessions implement accounts that are opened
\* once and own their address.
ImplementsAccounts == Abstract!AccountSpecification
=============================================================================
