---------------------------- MODULE SessionFlow ----------------------------
(***************************************************************************)
(* POST /login and POST /logout: AuthHandler.Login and Logout over         *)
(* AuthService.Login and Logout.                                           *)
(*                                                                         *)
(* A login is three steps with the backends between them: the user is read *)
(* by email, the password compared, the session written.  A logout is one  *)
(* DEL; the client may repeat it.                                          *)
(***************************************************************************)
EXTENDS Stores

VARIABLES
    login,          \* SessionIds -> the login request that draws this id
    logoutAnswers   \* SessionIds -> the statuses logouts of this id answered

sessionVars == <<login, logoutAnswers>>

Passwords == {"correct", "wrong", "missing"}

LoginRequest ==
    [pc       : {"idle", "lookup", "session", "done"},
     email    : Users \cup {None},       \* None: an address nobody registered
     password : Passwords,
     answer   : {"pending", "ok", "bad_request", "unauthorized", "server_error", "aborted"}]

AnswerLogin(s, answer) ==
    login' = [login EXCEPT ![s].pc = "done", ![s].answer = answer]

-----------------------------------------------------------------------------

\* The body is decoded and checked before any backend is asked.
LoginArrive(s, email, password) ==
    /\ login[s].pc = "idle"
    /\ login' = [login EXCEPT
            ![s] = IF password = "missing"
                   THEN [pc |-> "done", email |-> email, password |-> password,
                         answer |-> "bad_request"]
                   ELSE [pc |-> "lookup", email |-> email, password |-> password,
                         answer |-> "pending"]]
    /\ UNCHANGED <<logoutAnswers, stores>>

\* users.GetByEmail, then bcrypt: an unknown address and a wrong password
\* get the same answer.
AnyPassword(s) == UserExists(login[s].email)             \* seeded fault
Authenticated(s) == UserExists(login[s].email) /\ login[s].password = "correct"

LoginLookup(s) ==
    /\ login[s].pc = "lookup"
    /\ IF Authenticated(s)
       THEN login' = [login EXCEPT ![s].pc = "session"]
       ELSE AnswerLogin(s, "unauthorized")
    /\ UNCHANGED <<logoutAnswers, stores>>

\* sessions.Create; the cookie leaves with the answer.
OpenSession(s, outcome) ==
    /\ login[s].pc = "session"
    /\ CreateSession(s, login[s].email, outcome)
    /\ AnswerLogin(s, IF outcome = "ok" THEN "ok" ELSE "server_error")
    /\ UNCHANGED <<logoutAnswers, users, codes, tokens>>

\* The users query fails.
LoginFails(s) ==
    /\ login[s].pc = "lookup"
    /\ AnswerLogin(s, "server_error")
    /\ UNCHANGED <<logoutAnswers, stores>>

\* Session ids the service has handed out.
CookiesIssued == {s \in SessionIds : login[s].answer = "ok"}

\* POST /logout with the cookie s: 204, or 500 when the DEL is not answered.
Logout(s, outcome) ==
    /\ s \in CookiesIssued
    /\ DestroySession(s, outcome)
    /\ logoutAnswers' = [logoutAnswers EXCEPT
            ![s] = @ \cup {IF outcome = "ok" THEN 204 ELSE 500}]
    /\ UNCHANGED <<login, users, codes, tokens>>

SignedOut(s) == 204 \in logoutAnswers[s]

-----------------------------------------------------------------------------

SessionInit ==
    /\ login = [s \in SessionIds |->
            [pc |-> "idle", email |-> None, password |-> "missing",
             answer |-> "pending"]]
    /\ logoutAnswers = [s \in SessionIds |-> {}]

\* Steps of a login already under way.
LoginStep(s) ==
    \/ LoginLookup(s)
    \/ \E outcome \in Outcomes : OpenSession(s, outcome)

SessionNext ==
    \/ \E s \in SessionIds :
        \/ \E email \in Users \cup {None}, password \in Passwords :
              LoginArrive(s, email, password)
        \/ LoginStep(s)
        \/ LoginFails(s)
        \/ \E outcome \in Outcomes : Logout(s, outcome)

SessionTypeOK ==
    /\ login \in [SessionIds -> LoginRequest]
    /\ logoutAnswers \in [SessionIds -> SUBSET {204, 500}]
=============================================================================
