------------------------- MODULE AccountFlow_proofs -------------------------
(***************************************************************************)
(* Proofs about AccountFlow, for any number of addresses, registrations    *)
(* and logins: the inductive invariant, the properties it carries, and the *)
(* refinement of AccountSpec.                                              *)
(***************************************************************************)
EXTENDS AccountFlow, TLAPS

\* The parts of the invariant that speak of registrations and rows.
RowsTypeOK ==
    /\ accounts \in [RegIds -> User \cup {None}]
    /\ deleted \in SUBSET RegIds
    /\ reg \in [RegIds -> Registration]

RowsPart ==
    /\ RowsTypeOK
    /\ RegistrationOrigin
    /\ UniqueAddress
    /\ RegistrationHolds
    /\ SettledTaken

\* The parts that speak of logins, sessions and tokens.
SessionsTypeOK ==
    /\ login \in [SessionIds -> LoginRequest]
    /\ sessions \in [SessionIds -> Session \cup {None}]
    /\ codes \in SUBSET Code
    /\ minted \in SUBSET Claims

SessionsPart ==
    /\ SessionsTypeOK
    /\ LoginOrigin
    /\ TokenOrigin
    /\ SessionKeepsAccount

LEMMA TwoParts == IInv <=> RowsPart /\ SessionsPart
  BY DEF IInv, TypeOK, RowsPart, RowsTypeOK, SessionsPart, SessionsTypeOK

LEMMA InitParts == Init => RowsPart /\ SessionsPart
  BY NoneAssumption
     DEF Init, RowsPart, RowsTypeOK, RegistrationOrigin, UniqueAddress, RegistrationHolds,
         SettledTaken, Settled, SessionsPart, SessionsTypeOK, LoginOrigin, TokenOrigin,
         SessionKeepsAccount, Registration, LoginRequest, Present

-----------------------------------------------------------------------------
(* Registrations and rows *)

\* A registration that moves on without touching the rows.
LEMMA AnswerKeepsRows ==
    ASSUME RowsPart, NEW r \in RegIds, UNCHANGED <<accounts, deleted>>,
           NEW next \in Registration, reg' = [reg EXCEPT ![r] = next],
           reg[r].pc # "done",
           next.pc # "done" => next.answer = "pending",
           next.pc \in {"check", "insert"} => next.email # None /\ next.password # None,
           next.answer # "registered",
           next.answer \in {"email_taken", "duplicate_key"} => Registered(next.email)
    PROVE  RowsPart'
<1>1. /\ reg'[r] = next
      /\ \A q \in RegIds \ {r} : reg'[q] = reg[q]
      /\ RowsTypeOK'
  BY DEF RowsPart, RowsTypeOK
<1>2. ~ Present(r) /\ r \notin deleted
  BY DEF RowsPart, RegistrationOrigin
<1>3. \A q \in RegIds : Present(q)' <=> Present(q)
  BY DEF Present
<1>4. RegistrationOrigin'
  BY <1>1, <1>2, <1>3 DEF RowsPart, RegistrationOrigin
<1>5. UniqueAddress'
  BY <1>3 DEF RowsPart, UniqueAddress
<1>6. RegistrationHolds'
  BY <1>1 DEF RowsPart, RegistrationHolds
<1>7. SettledTaken'
  <2>1. ASSUME NEW p \in RegIds \ {r}, Settled(p)'
        PROVE  \E q \in RegIds : reg'[q].email = reg'[p].email /\ (Present(q)' \/ q \in deleted')
    <3>1. PICK q \in RegIds : reg[q].email = reg[p].email /\ (Present(q) \/ q \in deleted)
      BY <1>1, <2>1 DEF RowsPart, SettledTaken, Settled
    <3>2. q # r
      BY <3>1, <1>2
    <3> QED
      BY <1>1, <1>3, <3>1, <3>2
  <2>2. ASSUME Settled(r)'
        PROVE  \E q \in RegIds : reg'[q].email = reg'[r].email /\ (Present(q)' \/ q \in deleted')
    <3>1. PICK q \in RegIds : Present(q) /\ accounts[q].email = next.email
      BY <1>1, <2>2 DEF Settled, Registered
    <3>2. accounts[q] = [email |-> reg[q].email, hash |-> Bcrypt(reg[q].password)]
      BY <3>1 DEF RowsPart, RegistrationOrigin
    <3>3. reg[q].email = next.email /\ q # r
      BY <1>2, <3>1, <3>2
    <3> QED
      BY <1>1, <1>3, <3>1, <3>3
  <2> QED
    BY <2>1, <2>2 DEF SettledTaken
<1> QED
  BY <1>1, <1>4, <1>5, <1>6, <1>7 DEF RowsPart

LEMMA RegisterArriveRows ==
    ASSUME RowsPart, NEW r \in RegIds, NEW email \in Emails, NEW password \in Passwords,
           RegisterArrive(r, email, password)
    PROVE  RowsPart'
<1> DEFINE next == [reg[r] EXCEPT !.pc = "check", !.email = email, !.password = password]
<1>1. reg[r] \in Registration /\ reg[r].pc = "idle" /\ reg[r].answer = "pending"
  BY DEF RowsPart, RowsTypeOK, RegisterArrive, RegistrationOrigin
<1>2. next \in Registration /\ next.pc = "check" /\ next.answer = "pending"
      /\ next.email = email /\ next.password = password
  BY <1>1 DEF Registration
<1>3. email # None
  BY NoneAssumption
<1>4. next.password # None
  BY <1>2, NoneAssumption
<1>5. reg' = [reg EXCEPT ![r] = next] /\ UNCHANGED <<accounts, deleted>>
  BY DEF RegisterArrive, RowsPart, RowsTypeOK
<1> HIDE DEF next
<1> QED
  BY <1>1, <1>2, <1>3, <1>4, <1>5, AnswerKeepsRows

\* A registration that ends without a row; told of an account, there is one.
LEMMA RegisterRefusedRows ==
    ASSUME RowsPart, NEW r \in RegIds, reg[r].pc # "done",
           NEW answer \in {"error", "email_taken", "duplicate_key"}, AnswerRegister(r, answer),
           answer # "error" => Registered(reg[r].email),
           UNCHANGED <<accounts, deleted>>
    PROVE  RowsPart'
<1> DEFINE next == [reg[r] EXCEPT !.pc = "done", !.answer = answer]
<1>1. reg[r] \in Registration
  BY DEF RowsPart, RowsTypeOK
<1>2. next \in Registration /\ next.pc = "done" /\ next.answer = answer
      /\ next.email = reg[r].email
  BY <1>1 DEF Registration
<1>3. reg' = [reg EXCEPT ![r] = next]
  BY DEF AnswerRegister, RowsPart, RowsTypeOK
<1> HIDE DEF next
<1> QED
  BY <1>2, <1>3, AnswerKeepsRows

LEMMA RegisterCheckRows ==
    ASSUME RowsPart, NEW r \in RegIds, RegisterCheck(r)
    PROVE  RowsPart'
<1>1. /\ reg[r] \in Registration /\ reg[r].pc = "check" /\ reg[r].answer = "pending"
      /\ reg[r].email # None /\ reg[r].password # None
      /\ ~ Present(r)
  BY DEF RowsPart, RowsTypeOK, RegisterCheck, RegistrationOrigin
<1>2. CASE Registered(reg[r].email)
  <2>1. AnswerRegister(r, "email_taken") /\ UNCHANGED <<accounts, deleted>>
    BY <1>2 DEF RegisterCheck, Found
  <2> QED
    BY <1>1, <1>2, <2>1, RegisterRefusedRows
<1>3. CASE ~ Registered(reg[r].email)
  <2> DEFINE next == [reg[r] EXCEPT !.pc = "insert"]
  <2>1. next \in Registration /\ next.pc = "insert" /\ next.answer = "pending"
        /\ next.email # None /\ next.password # None
    BY <1>1 DEF Registration
  <2>2. reg' = [reg EXCEPT ![r] = next] /\ UNCHANGED <<accounts, deleted>>
    BY <1>3 DEF RegisterCheck, Found, RowsPart, RowsTypeOK
  <2> HIDE DEF next
  <2> QED
    BY <1>1, <2>1, <2>2, AnswerKeepsRows
<1> QED
  BY <1>2, <1>3

\* The insert: the unique index refuses a taken address, so a row that
\* appears is the only one of its address.
LEMMA RegisterStoredRows ==
    ASSUME RowsPart, NEW r \in RegIds, reg[r].pc = "insert", MayInsert(reg[r].email),
           accounts' = [accounts EXCEPT ![r] = [email |-> reg[r].email,
                                                hash  |-> Bcrypt(reg[r].password)]],
           NEW answer \in {"registered", "error"}, AnswerRegister(r, answer),
           UNCHANGED deleted
    PROVE  RowsPart'
<1> DEFINE next == [reg[r] EXCEPT !.pc = "done", !.answer = answer]
           row  == [email |-> reg[r].email, hash |-> Bcrypt(reg[r].password)]
<1>1. /\ reg[r] \in Registration /\ reg[r].email # None /\ reg[r].password # None
      /\ ~ Present(r) /\ r \notin deleted
      /\ reg \in [RegIds -> Registration]
      /\ accounts \in [RegIds -> User \cup {None}]
  BY DEF RowsPart, RowsTypeOK, RegistrationOrigin
<1>2. /\ next \in Registration /\ next.pc = "done" /\ next.answer = answer
      /\ next.email = reg[r].email /\ next.password = reg[r].password
  BY <1>1 DEF Registration
<1>3. reg' = [reg EXCEPT ![r] = next]
  BY <1>1 DEF AnswerRegister
<1>4. row \in User /\ row.email = reg[r].email
  BY <1>1 DEF Registration, User
<1>5. row = [email |-> next.email, hash |-> Bcrypt(next.password)]
  BY <1>2
<1>6. accounts' = [accounts EXCEPT ![r] = row]
  OBVIOUS
<1> HIDE DEF next, row
<1>7. /\ reg'[r] = next /\ accounts'[r] = row
      /\ \A q \in RegIds \ {r} : reg'[q] = reg[q] /\ accounts'[q] = accounts[q]
      /\ RowsTypeOK'
  BY <1>1, <1>2, <1>3, <1>4, <1>6 DEF RowsPart, RowsTypeOK
<1>8. /\ \A q \in RegIds \ {r} : Present(q)' <=> Present(q)
      /\ Present(r)'
  BY <1>4, <1>7, NoneAssumption DEF Present
<1>9. RegistrationOrigin'
  BY <1>1, <1>2, <1>5, <1>7, <1>8 DEF RowsPart, RegistrationOrigin
<1>10. UniqueAddress'
  <2>1. \A q \in RegIds : Present(q) => accounts[q].email # reg[r].email
    BY DEF MayInsert, Registered
  <2> QED
    BY <1>1, <1>4, <1>7, <1>8, <2>1 DEF RowsPart, UniqueAddress
<1>11. RegistrationHolds'
  BY <1>1, <1>5, <1>7 DEF RowsPart, RegistrationHolds
<1>12. SettledTaken'
  <2>1. ASSUME NEW p \in RegIds \ {r}, Settled(p)'
        PROVE  \E q \in RegIds : reg'[q].email = reg'[p].email /\ (Present(q)' \/ q \in deleted')
    <3>1. PICK q \in RegIds : reg[q].email = reg[p].email /\ (Present(q) \/ q \in deleted)
      BY <1>7, <2>1 DEF RowsPart, SettledTaken, Settled
    <3>2. q # r
      BY <3>1, <1>1
    <3> QED
      BY <1>7, <1>8, <3>1, <3>2
  <2>2. \E q \in RegIds : reg'[q].email = reg'[r].email /\ (Present(q)' \/ q \in deleted')
    BY <1>8
  <2> QED
    BY <2>1, <2>2 DEF SettledTaken
<1> QED
  BY <1>7, <1>9, <1>10, <1>11, <1>12 DEF RowsPart

LEMMA RegisterInsertRows ==
    ASSUME RowsPart, NEW r \in RegIds, NEW outcome \in Outcomes, RegisterInsert(r, outcome)
    PROVE  RowsPart'
<1>1. /\ reg[r].pc = "insert" /\ UNCHANGED deleted
      /\ RegisterAnswer(outcome) \in {"registered", "error"}
      /\ outcome = "failed" => RegisterAnswer(outcome) = "error"
  BY DEF RegisterInsert, RegisterAnswer
<1>2. CASE ~ MayInsert(reg[r].email)
  <2>1. AnswerRegister(r, "duplicate_key") /\ UNCHANGED accounts /\ Registered(reg[r].email)
    BY <1>2 DEF RegisterInsert, MayInsert
  <2> QED
    BY <1>1, <2>1, RegisterRefusedRows
<1>3. CASE MayInsert(reg[r].email) /\ outcome = "failed"
  <2>1. AnswerRegister(r, "error") /\ UNCHANGED accounts
    BY <1>1, <1>3 DEF RegisterInsert
  <2> QED
    BY <1>1, <2>1, RegisterRefusedRows
<1>4. CASE MayInsert(reg[r].email) /\ outcome # "failed"
  <2>1. /\ accounts' = [accounts EXCEPT ![r] = [email |-> reg[r].email,
                                                hash  |-> Bcrypt(reg[r].password)]]
        /\ AnswerRegister(r, RegisterAnswer(outcome))
    BY <1>4 DEF RegisterInsert
  <2> QED
    BY <1>1, <1>4, <2>1, RegisterStoredRows
<1> QED
  BY <1>2, <1>3, <1>4

LEMMA DeleteUserRows ==
    ASSUME RowsPart, NEW id \in RegIds, DeleteUser(id)
    PROVE  RowsPart'
<1>1. /\ Present(id) /\ reg' = reg
      /\ accounts' = [accounts EXCEPT ![id] = None]
      /\ deleted' = deleted \cup {id}
      /\ accounts \in [RegIds -> User \cup {None}]
      /\ reg[id].pc = "done"
  BY DEF DeleteUser, RowsPart, RowsTypeOK, RegistrationOrigin
<1>2. /\ ~ Present(id)'
      /\ \A q \in RegIds \ {id} : accounts'[q] = accounts[q] /\ (Present(q)' <=> Present(q))
  BY <1>1 DEF Present
<1>3. RowsTypeOK'
  BY <1>1 DEF RowsPart, RowsTypeOK
<1>4. RegistrationOrigin'
  BY <1>1, <1>2 DEF RowsPart, RegistrationOrigin
<1>5. UniqueAddress'
  BY <1>2 DEF RowsPart, UniqueAddress
<1>6. RegistrationHolds'
  BY <1>1, <1>2 DEF RowsPart, RegistrationHolds
<1>7. SettledTaken'
  BY <1>1, <1>2 DEF RowsPart, SettledTaken, Settled
<1> QED
  BY <1>3, <1>4, <1>5, <1>6, <1>7 DEF RowsPart
-----------------------------------------------------------------------------
(* Logins, sessions and tokens *)

\* Registrations that are done stay as they are, whatever the others do.
LEMMA RegistrationsKeepSessions ==
    ASSUME SessionsPart, UNCHANGED <<login, sessions, codes, minted>>,
           \A r \in RegIds : reg[r].pc = "done" => reg'[r] = reg[r]
    PROVE  SessionsPart'
<1>1. SessionsTypeOK'
  BY DEF SessionsPart, SessionsTypeOK
<1>2. LoginOrigin'
  <2>1. \A s \in SessionIds : login[s].user \in RegIds \cup {None}
    BY DEF SessionsPart, SessionsTypeOK, LoginRequest
  <2> QED
    BY <2>1 DEF SessionsPart, LoginOrigin
<1>3. TokenOrigin' /\ SessionKeepsAccount'
  <2>1. \A m \in minted : m.user \in RegIds
    BY DEF SessionsPart, SessionsTypeOK, Claims
  <2> QED
    BY <2>1 DEF SessionsPart, TokenOrigin, SessionKeepsAccount
<1> QED
  BY <1>1, <1>2, <1>3 DEF SessionsPart

\* A login that moves on; what it knows of the account it keeps.
LEMMA LoginKeepsSessions ==
    ASSUME SessionsPart, UNCHANGED <<reg, codes, minted>>, NEW s \in SessionIds,
           NEW next \in LoginRequest, login' = [login EXCEPT ![s] = next],
           login[s].pc # "done",
           sessions' \in [SessionIds -> Session \cup {None}],
           \A q \in SessionIds \ {s} : sessions'[q] = sessions[q],
           next.pc # "idle" => next.email # None,
           next.pc \in {"idle", "lookup"} => next.user = None,
           next.pc = "session" => next.user # None,
           next.user # None => /\ reg[next.user].pc = "done"
                               /\ reg[next.user].email = next.email
                               /\ reg[next.user].password = next.password,
           sessions'[s] # None => /\ next.pc = "done" /\ next.user # None
                                  /\ sessions'[s] = [user |-> next.user, email |-> next.email]
    PROVE  SessionsPart'
<1>1. /\ login'[s] = next
      /\ \A q \in SessionIds \ {s} : login'[q] = login[q]
      /\ SessionsTypeOK'
  BY DEF SessionsPart, SessionsTypeOK
<1>2. LoginOrigin'
  <2> SUFFICES ASSUME NEW q \in SessionIds
               PROVE  LoginOrigin!(q)'
    BY DEF LoginOrigin
  <2>1. CASE q = s
    BY <1>1, <2>1
  <2>2. CASE q # s
    <3>1. login'[q] = login[q] /\ sessions'[q] = sessions[q] /\ reg' = reg
      BY <1>1, <2>2
    <3>2. LoginOrigin!(q)
      BY DEF SessionsPart, LoginOrigin
    <3> QED
      BY <3>1, <3>2
  <2> QED
    BY <2>1, <2>2
<1>3. /\ \A code \in codes : code.session \in SessionIds
      /\ \A m \in minted : m.session \in SessionIds
  BY DEF SessionsPart, SessionsTypeOK, Code, Claims
<1>4. TokenOrigin' /\ SessionKeepsAccount'
  BY <1>1, <1>3 DEF SessionsPart, TokenOrigin, SessionKeepsAccount
<1> QED
  BY <1>1, <1>2, <1>4 DEF SessionsPart

LEMMA LoginArriveSessions ==
    ASSUME SessionsPart, NEW s \in SessionIds, NEW email \in Emails, NEW password \in Passwords,
           LoginArrive(s, email, password)
    PROVE  SessionsPart'
<1> DEFINE next == [login[s] EXCEPT !.pc = "lookup", !.email = email, !.password = password]
<1>1. /\ login[s] \in LoginRequest /\ login[s].pc = "idle" /\ login[s].user = None
      /\ sessions[s] = None /\ sessions' = sessions
      /\ sessions \in [SessionIds -> Session \cup {None}]
  BY DEF SessionsPart, SessionsTypeOK, LoginOrigin, LoginArrive
<1>2. next \in LoginRequest /\ next.pc = "lookup" /\ next.user = None
      /\ next.email = email
  BY <1>1 DEF LoginRequest
<1>3. login' = [login EXCEPT ![s] = next] /\ UNCHANGED <<reg, codes, minted>>
  BY DEF LoginArrive, SessionsPart, SessionsTypeOK
<1> HIDE DEF next
<1>4. next.email # None
  BY <1>2, NoneAssumption
<1> QED
  BY <1>1, <1>2, <1>3, <1>4, LoginKeepsSessions

\* The login finds the row of its address, whose hash is that of its password.
LEMMA LoginLookupSessions ==
    ASSUME RowsPart, SessionsPart, NEW s \in SessionIds, LoginLookup(s)
    PROVE  SessionsPart'
<1> DEFINE id == UserWith(login[s].email)
<1>1. /\ login[s] \in LoginRequest /\ login[s].pc = "lookup" /\ login[s].user = None
      /\ login[s].email # None
      /\ sessions[s] = None /\ sessions' = sessions
      /\ sessions \in [SessionIds -> Session \cup {None}]
      /\ UNCHANGED <<reg, codes, minted>>
  BY DEF SessionsPart, SessionsTypeOK, LoginOrigin, LoginLookup
<1>2. CASE Registered(login[s].email) /\ accounts[id].hash = Bcrypt(login[s].password)
  <2>1. id \in RegIds /\ Present(id) /\ accounts[id].email = login[s].email
    BY <1>2 DEF Registered, UserWith
  <2>2. /\ reg[id].pc = "done"
        /\ accounts[id] = [email |-> reg[id].email, hash |-> Bcrypt(reg[id].password)]
    BY <2>1 DEF RowsPart, RegistrationOrigin
  <2>3. reg[id].email = login[s].email
    BY <2>1, <2>2
  <2>4. reg[id].password = login[s].password
    <3>1. Bcrypt(reg[id].password) = Bcrypt(login[s].password)
      BY <1>2, <2>2
    <3> QED
      BY <3>1 DEF Bcrypt
  <2> DEFINE next == [login[s] EXCEPT !.pc = "session", !.user = id]
  <2>5. login' = [login EXCEPT ![s] = next]
    BY <1>2 DEF LoginLookup, SessionsPart, SessionsTypeOK
  <2> HIDE DEF id
  <2>6. /\ next \in LoginRequest /\ next.pc = "session" /\ next.user = id
        /\ next.email = login[s].email /\ next.password = login[s].password
    BY <1>1, <2>1 DEF LoginRequest
  <2>7. id # None
    BY <2>1, NoneAssumption
  <2> HIDE DEF next
  <2> QED
    BY <1>1, <2>2, <2>3, <2>4, <2>5, <2>6, <2>7, LoginKeepsSessions
<1>3. CASE ~ (Registered(login[s].email) /\ accounts[id].hash = Bcrypt(login[s].password))
  <2> DEFINE next == [login[s] EXCEPT !.pc = "done", !.answer = "unauthorized"]
  <2>1. login' = [login EXCEPT ![s] = next]
    BY <1>3 DEF LoginLookup, AnswerLogin, SessionsPart, SessionsTypeOK
  <2> HIDE DEF id
  <2>2. next \in LoginRequest /\ next.pc = "done" /\ next.user = None
      /\ next.email = login[s].email
    BY <1>1 DEF LoginRequest
  <2> HIDE DEF next
  <2> QED
    BY <1>1, <2>1, <2>2, LoginKeepsSessions
<1> QED
  BY <1>2, <1>3

LEMMA OpenSessionSessions ==
    ASSUME SessionsPart, NEW s \in SessionIds, NEW outcome \in Outcomes, OpenSession(s, outcome)
    PROVE  SessionsPart'
<1> DEFINE answer == IF outcome = "ok" THEN "ok" ELSE "server_error"
           next == [login[s] EXCEPT !.pc = "done", !.answer = answer]
           row == [user |-> login[s].user, email |-> login[s].email]
<1>1. /\ login[s] \in LoginRequest /\ login[s].pc = "session" /\ login[s].user # None
      /\ login[s].email # None
      /\ sessions[s] = None
      /\ sessions \in [SessionIds -> Session \cup {None}]
      /\ UNCHANGED <<reg, codes, minted>>
      /\ reg[login[s].user].pc = "done"
      /\ reg[login[s].user].email = login[s].email
      /\ reg[login[s].user].password = login[s].password
  BY DEF SessionsPart, SessionsTypeOK, LoginOrigin, OpenSession
<1>2. /\ next \in LoginRequest /\ next.pc = "done" /\ next.user = login[s].user
      /\ next.email = login[s].email /\ next.password = login[s].password
  BY <1>1 DEF LoginRequest
<1>3. login' = [login EXCEPT ![s] = next]
  BY DEF OpenSession, AnswerLogin, SessionsPart, SessionsTypeOK
<1>4. row \in Session
  BY <1>1 DEF LoginRequest, Session
<1>5. sessions' = sessions \/ sessions' = [sessions EXCEPT ![s] = row]
  BY DEF OpenSession, NewSession
<1>6. row = [user |-> next.user, email |-> next.email]
  BY <1>2
<1> HIDE DEF next, row
<1>7. /\ sessions' \in [SessionIds -> Session \cup {None}]
      /\ \A q \in SessionIds \ {s} : sessions'[q] = sessions[q]
      /\ sessions'[s] # None => sessions'[s] = row
  BY <1>1, <1>4, <1>5
<1> QED
  BY <1>1, <1>2, <1>3, <1>6, <1>7, LoginKeepsSessions

LEMMA LoginFailsSessions ==
    ASSUME SessionsPart, NEW s \in SessionIds, LoginFails(s)
    PROVE  SessionsPart'
<1> DEFINE next == [login[s] EXCEPT !.pc = "done", !.answer = "server_error"]
<1>1. /\ login[s] \in LoginRequest /\ login[s].pc = "lookup" /\ login[s].user = None
      /\ login[s].email # None
      /\ sessions[s] = None /\ sessions' = sessions
      /\ sessions \in [SessionIds -> Session \cup {None}]
      /\ UNCHANGED <<reg, codes, minted>>
  BY DEF SessionsPart, SessionsTypeOK, LoginOrigin, LoginFails
<1>2. next \in LoginRequest /\ next.pc = "done" /\ next.user = None
      /\ next.email = login[s].email
  BY <1>1 DEF LoginRequest
<1>3. login' = [login EXCEPT ![s] = next]
  BY DEF LoginFails, AnswerLogin, SessionsPart, SessionsTypeOK
<1> HIDE DEF next
<1> QED
  BY <1>1, <1>2, <1>3, LoginKeepsSessions

LEMMA SessionLapseSessions ==
    ASSUME SessionsPart, NEW s \in SessionIds, SessionLapse(s)
    PROVE  SessionsPart'
<1>1. /\ UNCHANGED <<reg, login, codes, minted>>
      /\ sessions' = [sessions EXCEPT ![s] = None]
      /\ sessions \in [SessionIds -> Session \cup {None}]
  BY DEF SessionLapse, SessionsPart, SessionsTypeOK
<1>2. \A q \in SessionIds : sessions'[q] \in {sessions[q], None}
  BY <1>1
<1> QED
  BY <1>1, <1>2
     DEF SessionsPart, SessionsTypeOK, LoginOrigin, TokenOrigin, SessionKeepsAccount

\* A code names the account its session names.
LEMMA IssueCodeSessions ==
    ASSUME SessionsPart, NEW s \in SessionIds, IssueCode(s)
    PROVE  SessionsPart'
<1> DEFINE code == [session |-> s, user |-> sessions[s].user]
<1>1. /\ UNCHANGED <<reg, login, sessions, minted>>
      /\ codes' = codes \cup {code}
      /\ sessions[s] = [user |-> login[s].user, email |-> login[s].email]
      /\ login[s].pc = "done" /\ login[s].user # None
      /\ login[s] \in LoginRequest
  BY DEF IssueCode, SessionUser, SessionsPart, SessionsTypeOK, LoginOrigin
<1>2. code.session = s /\ code.user = login[s].user /\ code \in Code
  BY <1>1 DEF Code, LoginRequest
<1> HIDE DEF code
<1>3. SessionsTypeOK' /\ LoginOrigin' /\ SessionKeepsAccount'
  BY <1>1, <1>2 DEF SessionsPart, SessionsTypeOK, LoginOrigin, SessionKeepsAccount
<1>4. TokenOrigin'
  BY <1>1, <1>2 DEF SessionsPart, TokenOrigin
<1> QED
  BY <1>3, <1>4 DEF SessionsPart

\* The token names the account of the code, under the address it registered.
LEMMA RedeemCodeSessions ==
    ASSUME RowsPart, SessionsPart, NEW code \in Code, RedeemCode(code)
    PROVE  SessionsPart'
<1> DEFINE claims == [session |-> code.session, user |-> code.user,
                      email |-> accounts[code.user].email]
<1>1. /\ UNCHANGED <<reg, login, sessions>>
      /\ codes' \in SUBSET codes
      /\ minted' = IF Present(code.user) THEN minted \cup {claims} ELSE minted
      /\ code.session \in SessionIds /\ code.user \in RegIds
      /\ login[code.session].pc = "done"
      /\ code.user = login[code.session].user
      /\ code.user # None
  BY NoneAssumption DEF RedeemCode, SessionsPart, SessionsTypeOK, TokenOrigin, Code
<1>2. /\ login[code.session].email = reg[code.user].email
      /\ login[code.session].password = reg[code.user].password
      /\ reg[code.user].pc = "done"
  BY <1>1 DEF SessionsPart, LoginOrigin
<1>3. ASSUME Present(code.user)
      PROVE  claims \in Claims /\ claims.email = reg[code.user].email
             /\ claims.session = code.session /\ claims.user = code.user
  <2>1. /\ accounts[code.user] = [email |-> reg[code.user].email,
                                  hash  |-> Bcrypt(reg[code.user].password)]
        /\ accounts[code.user] \in User
    BY <1>1, <1>3 DEF RowsPart, RowsTypeOK, RegistrationOrigin, Present
  <2>2. accounts[code.user].email \in Emails
    BY <2>1 DEF User
  <2> QED
    BY <1>1, <2>1, <2>2 DEF Claims
<1> HIDE DEF claims
<1>4. SessionsTypeOK' /\ LoginOrigin'
  BY <1>1, <1>3 DEF SessionsPart, SessionsTypeOK, LoginOrigin
<1>5. TokenOrigin' /\ SessionKeepsAccount'
  BY <1>1, <1>2, <1>3 DEF SessionsPart, TokenOrigin, SessionKeepsAccount
<1> QED
  BY <1>4, <1>5 DEF SessionsPart

-----------------------------------------------------------------------------
(* A crash *)

LEMMA CrashRows ==
    ASSUME RowsPart, Crash
    PROVE  RowsPart'
<1>1. /\ UNCHANGED <<accounts, deleted>>
      /\ reg \in [RegIds -> Registration]
      /\ reg' = Aborted(reg)
  BY DEF Crash, RowsPart, RowsTypeOK
<1>2. ASSUME NEW r \in RegIds
      PROVE  /\ reg'[r] \in Registration
             /\ reg'[r].email = reg[r].email /\ reg'[r].password = reg[r].password
             /\ reg[r].pc \in {"idle", "done"} => reg'[r] = reg[r]
             /\ reg[r].pc \notin {"idle", "done"} =>
                    reg'[r].pc = "done" /\ reg'[r].answer = "aborted"
  <2>1. reg[r] \in Registration
    BY <1>1
  <2>2. reg'[r] = IF reg[r].pc \in {"idle", "done"} THEN reg[r]
                  ELSE [reg[r] EXCEPT !.pc = "done", !.answer = "aborted"]
    BY <1>1 DEF Aborted
  <2> QED
    BY <2>1, <2>2 DEF Registration
<1>3. reg' \in [RegIds -> Registration]
  BY <1>1, <1>2 DEF Aborted
<1>4. \A r \in RegIds : Present(r)' <=> Present(r)
  BY <1>1 DEF Present
<1>5. RegistrationOrigin'
  BY <1>1, <1>2, <1>4 DEF RowsPart, RegistrationOrigin
<1>6. UniqueAddress' /\ RegistrationHolds'
  BY <1>1, <1>2, <1>4 DEF RowsPart, UniqueAddress, RegistrationHolds
<1>7. SettledTaken'
  BY <1>1, <1>2, <1>4 DEF RowsPart, SettledTaken, Settled
<1> QED
  BY <1>1, <1>3, <1>5, <1>6, <1>7 DEF RowsPart, RowsTypeOK

LEMMA CrashSessions ==
    ASSUME RowsPart, SessionsPart, Crash
    PROVE  SessionsPart'
<1>1. /\ UNCHANGED <<sessions, codes, minted>>
      /\ login \in [SessionIds -> LoginRequest]
      /\ login' = Aborted(login)
      /\ reg' = Aborted(reg)
      /\ reg \in [RegIds -> Registration]
  BY DEF Crash, SessionsPart, SessionsTypeOK, RowsPart, RowsTypeOK
<1>2. ASSUME NEW s \in SessionIds
      PROVE  /\ login'[s] \in LoginRequest
             /\ login'[s].email = login[s].email /\ login'[s].password = login[s].password
             /\ login'[s].user = login[s].user
             /\ login[s].pc \in {"idle", "done"} => login'[s] = login[s]
             /\ login[s].pc \notin {"idle", "done"} => login'[s].pc = "done"
  <2>1. login[s] \in LoginRequest
    BY <1>1
  <2>2. login'[s] = IF login[s].pc \in {"idle", "done"} THEN login[s]
                    ELSE [login[s] EXCEPT !.pc = "done", !.answer = "aborted"]
    BY <1>1 DEF Aborted
  <2> QED
    BY <2>1, <2>2 DEF LoginRequest
<1>3. \A r \in RegIds : reg[r].pc = "done" => reg'[r] = reg[r]
  BY <1>1 DEF Aborted
<1>4. login' \in [SessionIds -> LoginRequest]
  BY <1>1, <1>2 DEF Aborted
<1>5. LoginOrigin'
  <2>1. \A s \in SessionIds : login[s].user \in RegIds \cup {None}
    BY <1>1 DEF LoginRequest
  <2> QED
    BY <1>1, <1>2, <1>3, <2>1 DEF SessionsPart, LoginOrigin
<1>6. TokenOrigin' /\ SessionKeepsAccount'
  <2>1. /\ \A m \in minted : m.user \in RegIds /\ m.session \in SessionIds
        /\ \A code \in codes : code.session \in SessionIds
    BY DEF SessionsPart, SessionsTypeOK, Claims, Code
  <2> QED
    BY <1>1, <1>2, <1>3, <2>1 DEF SessionsPart, TokenOrigin, SessionKeepsAccount
<1> QED
  BY <1>1, <1>4, <1>5, <1>6 DEF SessionsPart, SessionsTypeOK

-----------------------------------------------------------------------------
(* The invariant *)

LEMMA RegistrationIInv ==
    ASSUME RowsPart, SessionsPart, Registrations
    PROVE  RowsPart' /\ SessionsPart'
<1> PICK r \in RegIds :
        \/ \E email \in Emails, password \in Passwords : RegisterArrive(r, email, password)
        \/ RegisterCheck(r)
        \/ \E outcome \in Outcomes : RegisterInsert(r, outcome)
        \/ RegisterFails(r)
  BY DEF Registrations, RegisterStep
<1>1. RowsPart'
  <2>1. CASE \E email \in Emails, password \in Passwords : RegisterArrive(r, email, password)
    BY <2>1, RegisterArriveRows
  <2>2. CASE RegisterCheck(r)
    BY <2>2, RegisterCheckRows
  <2>3. CASE \E outcome \in Outcomes : RegisterInsert(r, outcome)
    BY <2>3, RegisterInsertRows
  <2>4. CASE RegisterFails(r)
    <3>1. reg[r].pc # "done" /\ AnswerRegister(r, "error") /\ UNCHANGED <<accounts, deleted>>
      BY <2>4 DEF RegisterFails
    <3> QED
      BY <3>1, RegisterRefusedRows
  <2> QED
    BY <2>1, <2>2, <2>3, <2>4
<1>2. /\ UNCHANGED <<login, sessions, codes, minted>>
      /\ reg[r].pc # "done"
      /\ \A q \in RegIds \ {r} : reg'[q] = reg[q]
  BY DEF RowsPart, RowsTypeOK, RegisterArrive, RegisterCheck, RegisterInsert, RegisterFails,
         AnswerRegister
<1>3. \A q \in RegIds : reg[q].pc = "done" => reg'[q] = reg[q]
  BY <1>2
<1> QED
  BY <1>1, <1>2, <1>3, RegistrationsKeepSessions

LEMMA LoginsIInv ==
    ASSUME RowsPart, SessionsPart, Logins
    PROVE  RowsPart' /\ SessionsPart'
<1> PICK s \in SessionIds :
        \/ \E email \in Emails, password \in Passwords : LoginArrive(s, email, password)
        \/ LoginLookup(s)
        \/ \E outcome \in Outcomes : OpenSession(s, outcome)
        \/ LoginFails(s)
        \/ IssueCode(s)
        \/ SessionLapse(s)
  BY DEF Logins
<1>1. UNCHANGED <<accounts, deleted, reg>>
  BY DEF LoginArrive, LoginLookup, OpenSession, LoginFails, IssueCode, SessionLapse
<1>2. RowsPart'
  BY <1>1
     DEF RowsPart, RowsTypeOK, RegistrationOrigin, UniqueAddress, RegistrationHolds,
         SettledTaken, Settled, Present
<1>3. SessionsPart'
  BY LoginArriveSessions, LoginLookupSessions, OpenSessionSessions, LoginFailsSessions,
     IssueCodeSessions, SessionLapseSessions
<1> QED
  BY <1>2, <1>3

LEMMA NextIInv ==
    ASSUME IInv, [Next]_vars
    PROVE  IInv'
<1> SUFFICES RowsPart' /\ SessionsPart'
  BY DEF IInv, TypeOK, RowsPart, RowsTypeOK, SessionsPart, SessionsTypeOK
<1> RowsPart /\ SessionsPart
  BY TwoParts
<1>1. CASE Registrations
  BY <1>1, RegistrationIInv
<1>2. CASE Logins
  BY <1>2, LoginsIInv
<1>3. CASE \E code \in Code : RedeemCode(code)
  <2>1. UNCHANGED <<accounts, deleted, reg>>
    BY <1>3 DEF RedeemCode
  <2>2. RowsPart'
    BY <2>1
       DEF RowsPart, RowsTypeOK, RegistrationOrigin, UniqueAddress, RegistrationHolds,
           SettledTaken, Settled, Present
  <2> QED
    BY <1>3, <2>2, RedeemCodeSessions
<1>4. CASE \E id \in RegIds : DeleteUser(id)
  <2>1. UNCHANGED <<reg, login, sessions, codes, minted>>
    BY <1>4 DEF DeleteUser
  <2> QED
    BY <1>4, <2>1, DeleteUserRows, RegistrationsKeepSessions
<1>5. CASE Crash
  BY <1>5, CrashRows, CrashSessions
<1>6. CASE UNCHANGED vars
  <2>1. RowsPart'
    BY <1>6
       DEF vars, RowsPart, RowsTypeOK, RegistrationOrigin, UniqueAddress, RegistrationHolds,
           SettledTaken, Settled, Present
  <2>2. SessionsPart'
    BY <1>6, RegistrationsKeepSessions DEF vars
  <2> QED
    BY <2>1, <2>2
<1> QED
  BY <1>1, <1>2, <1>3, <1>4, <1>5, <1>6 DEF Next

\* The strengthened invariant of registrations, rows, logins and sessions
\* holds of every behaviour of Register, Login and DELETE.
THEOREM AccountInvariance == Spec => []IInv
<1>1. Init => IInv
  BY InitParts, TwoParts
<1>2. IInv /\ [Next]_vars => IInv'
  BY NextIInv
<1> QED
  BY <1>1, <1>2, PTL DEF Spec

\* However registrations race between the lookup and the insert, an address
\* has one account.
THEOREM UniqueAddressHolds == Spec => []UniqueAddress
<1>1. IInv => UniqueAddress
  BY DEF IInv
<1> QED
  BY <1>1, AccountInvariance, PTL

\* Whoever Register answered has the account, under the password chosen,
\* until it is deleted.
THEOREM RegistrationHoldsAlways == Spec => []RegistrationHolds
<1>1. IInv => RegistrationHolds
  BY DEF IInv
<1> QED
  BY <1>1, AccountInvariance, PTL

\* A login with the address and the password of a settled registration finds
\* its row, unless somebody else's account was in the way.
LEMMA SettledSignsIn ==
    ASSUME RowsPart, NEW s \in SessionIds, NEW r \in RegIds,
           Settled(r), NobodyElses(r),
           login[s].email = reg[r].email, login[s].password = reg[r].password
    PROVE  /\ Registered(login[s].email)
           /\ accounts[UserWith(login[s].email)].hash = Bcrypt(login[s].password)
<1>1. PICK q \in RegIds : reg[q].email = reg[r].email /\ (Present(q) \/ q \in deleted)
  BY DEF RowsPart, SettledTaken
<1>2. Present(q) /\ reg[q].password = reg[r].password
  BY <1>1 DEF NobodyElses
<1>3. accounts[q] = [email |-> reg[r].email, hash |-> Bcrypt(reg[r].password)]
  BY <1>1, <1>2 DEF RowsPart, RegistrationOrigin
<1>4. Present(q) /\ accounts[q].email = login[s].email
  BY <1>2, <1>3
<1>5. PICK id \in RegIds : /\ id = UserWith(login[s].email)
                          /\ Present(id) /\ accounts[id].email = login[s].email
  BY <1>4 DEF UserWith
<1>6. id = q
  BY <1>4, <1>5 DEF RowsPart, UniqueAddress
<1> QED
  BY <1>3, <1>4, <1>5, <1>6 DEF Registered

\* Whoever was told that the address has an account, be it on a retry after an
\* INSERT whose answer was lost, can sign in with the password chosen unless
\* the account is, or was, somebody else's.
THEOREM RetryMaySignInHolds == Spec => RetryMaySignIn
<1> DEFINE refused(s, r) ==
        /\ login[s].pc = "lookup" /\ login'[s].pc = "done"
        /\ login'[s].answer = "unauthorized"
        /\ Settled(r)
        /\ login[s].email = reg[r].email /\ login[s].password = reg[r].password
<1>1. ASSUME IInv, [Next]_vars, NEW s \in SessionIds, NEW r \in RegIds, refused(s, r)
      PROVE  ~ NobodyElses(r)
  <2>1. RowsPart /\ SessionsPart
    BY <1>1, TwoParts
  <2>2. login \in [SessionIds -> LoginRequest]
    BY <2>1 DEF SessionsPart, SessionsTypeOK
  <2>3. LoginLookup(s)
    <3>1. login' # login
      BY <1>1
    <3>2. CASE Logins
      <4>1. PICK q \in SessionIds :
              \/ \E email \in Emails, password \in Passwords : LoginArrive(q, email, password)
              \/ LoginLookup(q)
              \/ \E outcome \in Outcomes : OpenSession(q, outcome)
              \/ LoginFails(q)
              \/ IssueCode(q)
              \/ SessionLapse(q)
        BY <3>2 DEF Logins
      <4>2. q = s
        BY <1>1, <2>2, <4>1
           DEF LoginArrive, LoginLookup, OpenSession, LoginFails, IssueCode, SessionLapse,
               AnswerLogin
      <4>3. ~ LoginFails(s)
        BY <1>1, <2>2 DEF LoginFails, AnswerLogin, LoginRequest
      <4> QED
        BY <1>1, <2>2, <4>1, <4>2, <4>3
           DEF LoginArrive, OpenSession, IssueCode, SessionLapse
    <3>3. ~ Crash
      <4>1. SUFFICES ASSUME Crash
                     PROVE  login'[s] = [login[s] EXCEPT !.pc = "done", !.answer = "aborted"]
        BY <1>1, <2>2 DEF LoginRequest
      <4>2. s \in DOMAIN login
        BY <2>2
      <4> QED
        BY <1>1, <4>1, <4>2 DEF Crash, Aborted
    <3> QED
      BY <1>1, <3>1, <3>2, <3>3
         DEF Next, vars, Registrations, RegisterStep, RegisterArrive, RegisterCheck,
             RegisterInsert, RegisterFails, RedeemCode, DeleteUser
  <2>4. ~ (/\ Registered(login[s].email)
           /\ accounts[UserWith(login[s].email)].hash = Bcrypt(login[s].password))
    BY <1>1, <2>2, <2>3 DEF LoginLookup, LoginRequest
  <2> QED
    BY <1>1, <2>1, <2>4, SettledSignsIn
<1>2. IInv /\ [Next]_vars
        => \A s \in SessionIds, r \in RegIds : refused(s, r) => ~ NobodyElses(r)
  BY <1>1
<1> QED
  BY <1>2, AccountInvariance, PTL DEF Spec, RetryMaySignIn

\* A session acts for the account whose password opened it and never for a
\* later account of the same address.
THEOREM SessionKeepsAccountHolds == Spec => []SessionKeepsAccount
<1>1. IInv => SessionKeepsAccount
  BY DEF IInv
<1> QED
  BY <1>1, AccountInvariance, PTL

-----------------------------------------------------------------------------
(* The refinement *)

OpenAccounts == {[id |-> r, email |-> accounts[r].email] : r \in {q \in RegIds : Present(q)}}
SpentIds == {r \in RegIds : reg[r].pc = "done"}
MintedAccounts == {[id |-> m.user, email |-> m.email] : m \in minted}

LEMMA InitAccounts == Init => Abstract!AccountInit
  BY DEF Init, Abstract!AccountInit, Present

\* Registrations that end without a row.
LEMMA ForgoStep ==
    ASSUME UNCHANGED <<accounts, minted>>,
           \A r \in RegIds : reg[r].pc = "done" => reg'[r].pc = "done"
    PROVE  Abstract!AccountNext
<1> PICK ids \in SUBSET RegIds : ids = SpentIds'
  BY DEF SpentIds
<1>1. UNCHANGED <<OpenAccounts, MintedAccounts>>
  BY DEF OpenAccounts, MintedAccounts, Present
<1>2. SpentIds' = SpentIds \cup ids
  BY DEF SpentIds
<1>3. Abstract!Forgo(ids)
  BY <1>1, <1>2 DEF Abstract!Forgo, OpenAccounts, MintedAccounts, SpentIds
<1> QED
  BY <1>3 DEF Abstract!AccountNext

LEMMA OpenStep ==
    ASSUME RowsPart, NEW r \in RegIds, reg[r].pc = "insert", MayInsert(reg[r].email),
           accounts' = [accounts EXCEPT ![r] = [email |-> reg[r].email,
                                                hash  |-> Bcrypt(reg[r].password)]],
           NEW answer, AnswerRegister(r, answer),
           UNCHANGED minted
    PROVE  Abstract!AccountNext
<1> DEFINE row == [email |-> reg[r].email, hash |-> Bcrypt(reg[r].password)]
<1>1. /\ reg[r] \in Registration /\ reg[r].email \in Emails /\ reg[r].password \in Passwords
      /\ ~ Present(r)
      /\ reg \in [RegIds -> Registration]
      /\ accounts \in [RegIds -> User \cup {None}]
  BY DEF RowsPart, RowsTypeOK, RegistrationOrigin, Registration
<1>2. row \in User /\ row.email = reg[r].email /\ row # None
  BY <1>1, NoneAssumption DEF User
<1> PICK account \in Abstract!Account : account = [id |-> r, email |-> reg[r].email]
  BY <1>1 DEF Abstract!Account
<1>3. accounts' = [accounts EXCEPT ![r] = row]
  OBVIOUS
<1> HIDE DEF row
<1>4. /\ accounts'[r] = row
      /\ \A q \in RegIds \ {r} : accounts'[q] = accounts[q]
      /\ reg'[r].pc = "done"
      /\ \A q \in RegIds \ {r} : reg'[q] = reg[q]
  BY <1>1, <1>3 DEF AnswerRegister, Registration
<1>5. OpenAccounts' = OpenAccounts \cup {account}
  BY <1>1, <1>2, <1>4 DEF OpenAccounts, Present
<1>6. SpentIds' = SpentIds \cup {r} /\ r \notin SpentIds
  BY <1>4 DEF SpentIds
<1>7. UNCHANGED MintedAccounts
  BY DEF MintedAccounts
<1>8. \A other \in OpenAccounts : other.email # reg[r].email
  BY DEF OpenAccounts, MayInsert, Registered
<1>9. account.id = r /\ account.email = reg[r].email
  OBVIOUS
<1>10. Abstract!Open(account)
  BY <1>5, <1>6, <1>7, <1>8, <1>9 DEF Abstract!Open, OpenAccounts, SpentIds, MintedAccounts
<1> QED
  BY <1>9, <1>10 DEF Abstract!AccountNext

LEMMA InsertStep ==
    ASSUME RowsPart, NEW r \in RegIds, NEW outcome \in Outcomes, RegisterInsert(r, outcome)
    PROVE  Abstract!AccountNext
<1>1. reg[r].pc = "insert" /\ UNCHANGED minted
  BY DEF RegisterInsert
<1>2. CASE MayInsert(reg[r].email) /\ outcome # "failed"
  <2>1. /\ accounts' = [accounts EXCEPT ![r] = [email |-> reg[r].email,
                                                hash  |-> Bcrypt(reg[r].password)]]
        /\ AnswerRegister(r, RegisterAnswer(outcome))
    BY <1>2 DEF RegisterInsert
  <2> QED
    BY <1>1, <1>2, <2>1, OpenStep
<1>3. CASE ~ MayInsert(reg[r].email) \/ outcome = "failed"
  <2>1. /\ UNCHANGED accounts
        /\ \A q \in RegIds \ {r} : reg'[q] = reg[q]
    BY <1>3 DEF RegisterInsert, AnswerRegister, RowsPart, RowsTypeOK
  <2> QED
    BY <1>1, <2>1, ForgoStep
<1> QED
  BY <1>2, <1>3

LEMMA CloseStep ==
    ASSUME RowsPart, NEW id \in RegIds, DeleteUser(id)
    PROVE  Abstract!AccountNext
<1>1. /\ Present(id) /\ UNCHANGED <<reg, minted>>
      /\ accounts' = [accounts EXCEPT ![id] = None]
      /\ accounts \in [RegIds -> User \cup {None}]
      /\ accounts[id] \in User
  BY DEF DeleteUser, RowsPart, RowsTypeOK, Present
<1>2. PICK account \in Abstract!Account : account = [id |-> id, email |-> accounts[id].email]
  BY <1>1 DEF Abstract!Account, User
<1>3. /\ ~ Present(id)'
      /\ \A q \in RegIds \ {id} : accounts'[q] = accounts[q] /\ (Present(q)' <=> Present(q))
  BY <1>1 DEF Present
<1>4. OpenAccounts' = OpenAccounts \ {account}
  BY <1>1, <1>2, <1>3 DEF OpenAccounts
<1>5. UNCHANGED <<SpentIds, MintedAccounts>>
  BY <1>1 DEF SpentIds, MintedAccounts
<1>6. Abstract!Close(account)
  BY <1>4, <1>5 DEF Abstract!Close, OpenAccounts, SpentIds, MintedAccounts
<1> QED
  BY <1>2, <1>6 DEF Abstract!AccountNext

LEMMA RedeemStep ==
    ASSUME RowsPart, NEW code \in Code, RedeemCode(code)
    PROVE  [Abstract!AccountNext]_(Abstract!accountVars)
<1> DEFINE claims == [session |-> code.session, user |-> code.user,
                      email |-> accounts[code.user].email]
<1>1. /\ UNCHANGED <<accounts, reg>> /\ code.user \in RegIds
      /\ minted' = IF Present(code.user) THEN minted \cup {claims} ELSE minted
  BY DEF RedeemCode, Code
<1>2. UNCHANGED <<OpenAccounts, SpentIds>>
  BY <1>1 DEF OpenAccounts, SpentIds, Present
<1>3. CASE Present(code.user)
  <2>1. accounts[code.user] \in User
    BY <1>1, <1>3 DEF Present, RowsPart, RowsTypeOK
  <2>2. PICK account \in Abstract!Account :
              account = [id |-> code.user, email |-> accounts[code.user].email]
    BY <1>1, <2>1 DEF Abstract!Account, User
  <2>3. account \in OpenAccounts
    BY <1>1, <1>3, <2>2 DEF OpenAccounts
  <2>4. MintedAccounts' = MintedAccounts \cup {account}
    <3>1. minted' = minted \cup {claims}
      BY <1>1, <1>3
    <3>2. account = [id |-> claims.user, email |-> claims.email]
      BY <2>2
    <3> HIDE DEF claims
    <3> QED
      BY <3>1, <3>2 DEF MintedAccounts
  <2>5. Abstract!Mint(account)
    BY <1>2, <2>3, <2>4 DEF Abstract!Mint, OpenAccounts, SpentIds, MintedAccounts
  <2> QED
    BY <2>2, <2>5 DEF Abstract!AccountNext
<1>4. CASE ~ Present(code.user)
  <2>1. UNCHANGED MintedAccounts
    BY <1>1, <1>4 DEF MintedAccounts
  <2> QED
    BY <1>2, <2>1 DEF Abstract!accountVars, OpenAccounts, SpentIds, MintedAccounts
<1> QED
  BY <1>3, <1>4

LEMMA StutterStep ==
    ASSUME UNCHANGED <<accounts, reg, minted>>
    PROVE  UNCHANGED Abstract!accountVars
  BY DEF Abstract!accountVars, Present

LEMMA NextAccounts ==
    ASSUME IInv, [Next]_vars
    PROVE  [Abstract!AccountNext]_(Abstract!accountVars)
<1> RowsPart
  BY TwoParts
<1>1. CASE Registrations
  <2> PICK r \in RegIds :
        \/ \E email \in Emails, password \in Passwords : RegisterArrive(r, email, password)
        \/ RegisterCheck(r)
        \/ \E outcome \in Outcomes : RegisterInsert(r, outcome)
        \/ RegisterFails(r)
    BY <1>1 DEF Registrations, RegisterStep
  <2>1. CASE \E outcome \in Outcomes : RegisterInsert(r, outcome)
    BY <2>1, InsertStep
  <2>2. CASE ~ \E outcome \in Outcomes : RegisterInsert(r, outcome)
    <3>1. /\ UNCHANGED <<accounts, minted>> /\ reg[r].pc # "done"
          /\ \A q \in RegIds \ {r} : reg'[q] = reg[q]
      BY <2>2 DEF RegisterArrive, RegisterCheck, RegisterFails, AnswerRegister, RowsPart, RowsTypeOK
    <3> QED
      BY <3>1, ForgoStep
  <2> QED
    BY <2>1, <2>2
<1>2. CASE Logins
  <2>1. UNCHANGED <<accounts, reg, minted>>
    BY <1>2 DEF Logins, LoginArrive, LoginLookup, OpenSession, LoginFails, IssueCode, SessionLapse
  <2> QED
    BY <2>1, StutterStep
<1>3. CASE \E code \in Code : RedeemCode(code)
  BY <1>3, RedeemStep
<1>4. CASE \E id \in RegIds : DeleteUser(id)
  BY <1>4, CloseStep
<1>5. CASE Crash
  <2>1. /\ UNCHANGED <<accounts, minted>>
        /\ \A r \in RegIds : reg[r].pc = "done" => reg'[r].pc = "done"
    BY <1>5 DEF Crash, Aborted, RowsPart, RowsTypeOK
  <2> QED
    BY <2>1, ForgoStep
<1>6. CASE UNCHANGED vars
  BY <1>6, StutterStep DEF vars
<1> QED
  BY <1>1, <1>2, <1>3, <1>4, <1>5, <1>6 DEF Next

\* Register, the unique index, DELETE and the sessions implement accounts
\* that are opened once, own their address while they are open, and have
\* tokens minted in their name only then.
THEOREM AccountsImplemented == Spec => ImplementsAccounts
<1>1. Init => Abstract!AccountInit
  BY InitAccounts
<1>2. IInv /\ [Next]_vars => [Abstract!AccountNext]_(Abstract!accountVars)
  BY NextAccounts
<1> QED
  BY <1>1, <1>2, AccountInvariance, PTL
     DEF Spec, ImplementsAccounts, Abstract!AccountSpecification

\* Every step of the abstract accounts keeps them sound.
LEMMA AccountStepSound ==
    ASSUME Abstract!AccountsSound, [Abstract!AccountNext]_(Abstract!accountVars)
    PROVE  Abstract!AccountsSound'
<1>1. ASSUME NEW account \in Abstract!Account, Abstract!Open(account)
      PROVE  Abstract!AccountsSound'
  BY <1>1 DEF Abstract!Open, Abstract!AccountsSound
<1>2. ASSUME NEW account \in Abstract!Account, Abstract!Close(account)
      PROVE  Abstract!AccountsSound'
  BY <1>2 DEF Abstract!Close, Abstract!AccountsSound
<1>3. ASSUME NEW account \in Abstract!Account, Abstract!Mint(account)
      PROVE  Abstract!AccountsSound'
  BY <1>3 DEF Abstract!Mint, Abstract!AccountsSound
<1>4. ASSUME NEW ids \in SUBSET RegIds, Abstract!Forgo(ids)
      PROVE  Abstract!AccountsSound'
  BY <1>4 DEF Abstract!Forgo, Abstract!AccountsSound
<1>5. CASE UNCHANGED Abstract!accountVars
  BY <1>5 DEF Abstract!accountVars, Abstract!AccountsSound
<1> QED
  BY <1>1, <1>2, <1>3, <1>4, <1>5 DEF Abstract!AccountNext

\* In the service, then: at any time one open account per address, and an id in
\* a token is that of the account it was minted for, also after DELETE.
THEOREM AccountsSoundHolds == Spec => []Abstract!AccountsSound
<1>1. Abstract!AccountInit => Abstract!AccountsSound
  BY DEF Abstract!AccountInit, Abstract!AccountsSound
<1>2. Abstract!AccountsSound /\ [Abstract!AccountNext]_(Abstract!accountVars)
        => Abstract!AccountsSound'
  BY AccountStepSound
<1>3. ImplementsAccounts => []Abstract!AccountsSound
  BY <1>1, <1>2, PTL DEF ImplementsAccounts, Abstract!AccountSpecification
<1> QED
  BY <1>3, AccountsImplemented, PTL
=============================================================================
