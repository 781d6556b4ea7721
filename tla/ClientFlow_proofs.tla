-------------------------- MODULE ClientFlow_proofs --------------------------
(***************************************************************************)
(* Proofs about ClientFlow, for any bodies, any set of supported grant     *)
(* types and any number of registrations and token requests.               *)
(***************************************************************************)
EXTENDS ClientFlow, TLAPS

\* The parts of the invariant that speak of registrations.
ClientsPart ==
    /\ clients \in [ClientIds -> Client \cup {None}]
    /\ reg \in [ClientIds -> Registration]
    /\ RegistrationOrigin
    /\ AnswerTellsRow

\* What a registration step may change: one registration that is not done,
\* its row, and no secret once disclosed.
Registers(c) ==
    /\ reg[c].pc # "done"
    /\ UNCHANGED tok
    /\ \A d \in ClientIds \ {c} : reg'[d] = reg[d] /\ clients'[d] = clients[d]

LEMMA InitIInv == Init => IInv
  BY NoneAssumption
     DEF Init, IInv, TypeOK, Registration, RegisterAnswers, TokenRequest, RegistrationOrigin,
         RequestOrigin, AnswerTellsRow

\* Requests keep what they hold while registrations go on.
LEMMA RegistersKeepRequests ==
    ASSUME IInv, NEW c \in ClientIds, Registers(c)
    PROVE  RequestOrigin'
<1>1. /\ RequestOrigin
      /\ \A t \in TokenIds : tok[t].client_id \in ClientIds \cup {None}
      /\ reg[c].answer = "pending" /\ clients[c] = None
      /\ UNCHANGED tok
  BY DEF IInv, TypeOK, TokenRequest, RegistrationOrigin, Registers
<1>2. \A d \in ClientIds : reg[d].answer = "created" => reg'[d] = reg[d]
  BY <1>1 DEF Registers
<1>3. \A d \in ClientIds : clients[d] # None => clients'[d] = clients[d]
  BY <1>1 DEF Registers
<1> SUFFICES ASSUME NEW t \in TokenIds
             PROVE  RequestOrigin!(t)'
  BY DEF RequestOrigin
<1>4. RequestOrigin!(t)
  BY <1>1 DEF RequestOrigin
<1>5. ASSUME tok[t].client_secret # None
      PROVE  \E d \in ClientIds : /\ reg'[d].answer = "created"
                                  /\ tok[t].client_secret = reg'[d].client_secret
  BY <1>2, <1>4, <1>5
<1>6. tok[t].answer = "authenticated" => clients'[tok[t].client_id] = clients[tok[t].client_id]
  <2>1. tok[t].answer = "authenticated" => tok[t].pc = "done" /\ clients[tok[t].client_id] # None
    BY <1>4
  <2>2. tok[t].pc # "idle" => tok[t].client_id \in ClientIds
    BY <1>1, <1>4
  <2> QED
    BY <1>3, <2>1, <2>2
<1> QED
  BY <1>1, <1>4, <1>5, <1>6 DEF Authenticates

\* A registration that ends or moves on without a row.
LEMMA RegisterWithoutRow ==
    ASSUME IInv, NEW c \in ClientIds, UNCHANGED <<clients, tok>>, reg[c].pc # "done",
           NEW next \in Registration, reg' = [reg EXCEPT ![c] = next],
           next.client_secret = None, next.answer # "created",
           next.pc # "idle" => next.body # None,
           next.pc # "done" => next.answer = "pending",
           next.pc = "insert" => Complete(next.body) /\ RefusedAt(next.body) = {}
    PROVE  IInv'
<1>1. /\ reg'[c] = next
      /\ \A d \in ClientIds \ {c} : reg'[d] = reg[d]
      /\ TypeOK'
      /\ clients[c] = None
  BY DEF IInv, TypeOK, RegistrationOrigin
<1>2. Registers(c)
  BY <1>1 DEF Registers
<1>3. RegistrationOrigin'
  <2> SUFFICES ASSUME NEW d \in ClientIds
               PROVE  RegistrationOrigin!(d)'
    BY DEF RegistrationOrigin
  <2>1. CASE d = c
    BY <1>1, <2>1
  <2>2. CASE d # c
    <3>1. RegistrationOrigin!(d)
      BY DEF IInv, RegistrationOrigin
    <3> QED
      BY <1>1, <2>2, <3>1 DEF SecretHash
  <2> QED
    BY <2>1, <2>2
<1>4. AnswerTellsRow'
  BY <1>1 DEF IInv, AnswerTellsRow, SecretHash, SecretDrawn
<1>5. RequestOrigin'
  BY <1>2, RegistersKeepRequests
<1> QED
  BY <1>1, <1>3, <1>4, <1>5 DEF IInv

LEMMA RegisterArriveIInv ==
    ASSUME IInv, NEW c \in ClientIds, NEW body \in Bodies, RegisterArrive(c, body)
    PROVE  IInv'
<1> DEFINE next == [reg[c] EXCEPT !.pc = "check", !.body = body]
<1>1. /\ reg[c] \in Registration /\ reg[c].pc = "idle" /\ reg[c].answer = "pending"
      /\ reg[c].client_secret = None /\ UNCHANGED <<clients, tok>>
      /\ reg' = [reg EXCEPT ![c] = next]
  BY DEF IInv, TypeOK, RegistrationOrigin, RegisterArrive
<1>2. next \in Registration /\ next.pc = "check" /\ next.body = body /\ next.answer = "pending"
      /\ next.client_secret = None
  BY <1>1 DEF Registration
<1>3. body # None
  BY NoneAssumption
<1> HIDE DEF next
<1> QED
  BY <1>1, <1>2, <1>3, RegisterWithoutRow

LEMMA RegisterRefusedIInv ==
    ASSUME IInv, NEW c \in ClientIds, UNCHANGED <<clients, tok>>,
           reg[c].pc \in {"check", "insert"},
           NEW answer \in RegisterAnswers \ {"created"}, Answered(c, answer, None)
    PROVE  IInv'
<1> DEFINE next == [reg[c] EXCEPT !.pc = "done", !.answer = answer, !.client_secret = None]
<1>1. reg[c] \in Registration /\ reg[c].body # None /\ reg' = [reg EXCEPT ![c] = next]
  BY DEF IInv, TypeOK, RegistrationOrigin, Answered
<1>2. next \in Registration /\ next.pc = "done" /\ next.body = reg[c].body
      /\ next.answer = answer /\ next.client_secret = None
  BY <1>1 DEF Registration
<1> HIDE DEF next
<1> QED
  BY <1>1, <1>2, RegisterWithoutRow

LEMMA RegisterCheckIInv ==
    ASSUME IInv, NEW c \in ClientIds, RegisterCheck(c)
    PROVE  IInv'
<1>1. reg[c].pc = "check" /\ UNCHANGED <<clients, tok>>
  BY DEF RegisterCheck
<1>2. CASE ~ Complete(reg[c].body)
  <2>1. Answered(c, "incomplete", None)
    BY <1>2 DEF RegisterCheck
  <2> QED
    BY <1>1, <2>1, RegisterRefusedIInv DEF RegisterAnswers
<1>3. CASE Complete(reg[c].body) /\ RefusedAt(reg[c].body) # {}
  <2>1. Answered(c, GrantError(reg[c].body), None)
    BY <1>3 DEF RegisterCheck
  <2>2. GrantError(reg[c].body) \in RegisterAnswers \ {"created"}
    BY DEF GrantError, RegisterAnswers
  <2> QED
    BY <1>1, <2>1, <2>2, RegisterRefusedIInv
<1>4. CASE Complete(reg[c].body) /\ RefusedAt(reg[c].body) = {}
  <2> DEFINE next == [reg[c] EXCEPT !.pc = "insert"]
  <2>1. reg[c] \in Registration /\ reg[c].body # None /\ reg[c].answer = "pending"
        /\ reg[c].client_secret = None
    BY <1>1 DEF IInv, TypeOK, RegistrationOrigin
  <2>2. reg' = [reg EXCEPT ![c] = next]
    BY <1>4 DEF RegisterCheck, IInv, TypeOK
  <2>3. next \in Registration /\ next.pc = "insert" /\ next.body = reg[c].body
        /\ next.answer = "pending" /\ next.client_secret = None
    BY <2>1 DEF Registration
  <2> HIDE DEF next
  <2> QED
    BY <1>1, <1>4, <2>1, <2>2, <2>3, RegisterWithoutRow
<1> QED
  BY <1>2, <1>3, <1>4

\* The row is stored, and the answer discloses the secret it was hashed from
\* or nothing.
LEMMA RegisterStoredIInv ==
    ASSUME IInv, NEW c \in ClientIds, UNCHANGED tok, reg[c].pc = "insert",
           clients' = [clients EXCEPT ![c] = [secret_hash |-> SecretHash(c),
                                              grant_types |-> reg[c].body.grant_types]],
           \/ Answered(c, "created", SecretDrawn(c))
           \/ Answered(c, "server_error", None)
    PROVE  IInv'
<1> DEFINE row == [secret_hash |-> SecretHash(c), grant_types |-> reg[c].body.grant_types]
<1>1. /\ reg[c] \in Registration /\ reg[c].body \in Bodies
      /\ Complete(reg[c].body) /\ RefusedAt(reg[c].body) = {}
      /\ reg \in [ClientIds -> Registration]
      /\ clients \in [ClientIds -> Client \cup {None}]
  BY DEF IInv, TypeOK, RegistrationOrigin, Registration
<1>2. /\ SecretOf(c) \in Secrets /\ SecretDrawn(c) \in Secrets \cup {None}
      /\ SecretDrawn(c) # None => SecretDrawn(c) = SecretOf(c)
  BY DEF SecretOf, Secrets, SecretDrawn
<1>3. PICK answer \in {"created", "server_error"}, secret \in {SecretDrawn(c), None} :
         /\ Answered(c, answer, secret)
         /\ answer = "created" => secret = SecretDrawn(c)
         /\ answer # "created" => secret = None
  OBVIOUS
<1> DEFINE next == [reg[c] EXCEPT !.pc = "done", !.answer = answer, !.client_secret = secret]
<1>4. next \in Registration /\ next.pc = "done" /\ next.body = reg[c].body
      /\ next.answer = answer /\ next.client_secret = secret
  BY <1>1, <1>2, <1>3 DEF Registration, RegisterAnswers
<1>5. reg' = [reg EXCEPT ![c] = next]
  BY <1>1, <1>3 DEF Answered
<1>6. row \in Client /\ row # None /\ row.secret_hash = SecretHash(c)
      /\ row.grant_types = reg[c].body.grant_types
  <2>1. SecretHash(c) \in {None} \cup {Bcrypt(s) : s \in Secrets}
    BY <1>2 DEF SecretHash
  <2>2. row \in Client
    BY <1>1, <2>1 DEF Client
  <2> QED
    BY <2>2, NoneAssumption
<1>7. clients' = [clients EXCEPT ![c] = row]
  OBVIOUS
<1> HIDE DEF next, row
<1>8. /\ reg'[c] = next /\ clients'[c] = row
      /\ \A d \in ClientIds \ {c} : reg'[d] = reg[d] /\ clients'[d] = clients[d]
      /\ TypeOK'
  BY <1>1, <1>4, <1>5, <1>6, <1>7 DEF IInv, TypeOK
<1>9. \A d \in ClientIds : reg'[d].body = reg[d].body
  BY <1>4, <1>8
<1>10. \A d \in ClientIds : SecretHash(d)' = SecretHash(d) /\ SecretDrawn(d)' = SecretDrawn(d)
  BY <1>9 DEF SecretHash, SecretDrawn
<1>11. RegistrationOrigin'
  <2> SUFFICES ASSUME NEW d \in ClientIds
               PROVE  RegistrationOrigin!(d)'
    BY DEF RegistrationOrigin
  <2>1. RegistrationOrigin!(d)
    BY DEF IInv, RegistrationOrigin
  <2>2. CASE d = c
    BY <1>1, <1>2, <1>3, <1>4, <1>6, <1>8, <1>10, <2>1, <2>2
  <2>3. CASE d # c
    BY <1>8, <1>10, <2>1, <2>3
  <2> QED
    BY <2>2, <2>3
<1>12. AnswerTellsRow'
  <2> SUFFICES ASSUME NEW d \in ClientIds
               PROVE  AnswerTellsRow!(d)'
    BY DEF AnswerTellsRow
  <2>1. AnswerTellsRow!(d)
    BY DEF IInv, AnswerTellsRow
  <2>2. CASE d = c
    BY <1>3, <1>4, <1>6, <1>8, <1>10, <2>2
  <2>3. CASE d # c
    BY <1>8, <1>10, <2>1, <2>3
  <2> QED
    BY <2>2, <2>3
<1>13. RequestOrigin'
  BY <1>8, RegistersKeepRequests DEF Registers
<1> QED
  BY <1>8, <1>11, <1>12, <1>13 DEF IInv

LEMMA RegistrarIInv ==
    ASSUME IInv, Registrar
    PROVE  IInv'
<1> PICK c \in ClientIds :
        \/ \E body \in Bodies : RegisterArrive(c, body)
        \/ RegisterCheck(c)
        \/ \E outcome \in Outcomes : RegisterInsert(c, outcome)
        \/ RegisterFails(c)
  BY DEF Registrar
<1>1. CASE \E body \in Bodies : RegisterArrive(c, body)
  BY <1>1, RegisterArriveIInv
<1>2. CASE RegisterCheck(c)
  BY <1>2, RegisterCheckIInv
<1>3. ASSUME NEW outcome \in Outcomes, RegisterInsert(c, outcome)
      PROVE  IInv'
  <2>1. reg[c].pc = "insert" /\ UNCHANGED tok
    BY <1>3 DEF RegisterInsert
  <2>2. CASE outcome = "failed"
    <3>1. UNCHANGED clients /\ Answered(c, "server_error", None)
      BY <1>3, <2>2 DEF RegisterInsert, Acknowledged
    <3> QED
      BY <2>1, <3>1, RegisterRefusedIInv DEF RegisterAnswers
  <2>3. CASE outcome # "failed"
    <3>1. /\ clients' = [clients EXCEPT ![c] = [secret_hash |-> SecretHash(c),
                                                grant_types |-> reg[c].body.grant_types]]
          /\ \/ Answered(c, "created", SecretDrawn(c))
             \/ Answered(c, "server_error", None)
      BY <1>3, <2>3 DEF RegisterInsert
    <3> QED
      BY <2>1, <3>1, RegisterStoredIInv
  <2> QED
    BY <2>2, <2>3
<1>4. CASE RegisterFails(c)
  <2>1. reg[c].pc = "insert" /\ UNCHANGED <<clients, tok>> /\ Answered(c, "server_error", None)
    BY <1>4 DEF RegisterFails
  <2> QED
    BY <2>1, RegisterRefusedIInv DEF RegisterAnswers
<1> QED
  BY <1>1, <1>2, <1>3, <1>4

-----------------------------------------------------------------------------
(* Token requests *)

\* A request that moves on, authenticated as what the table holds.
LEMMA RequestStep ==
    ASSUME IInv, NEW t \in TokenIds, UNCHANGED <<clients, reg>>,
           NEW next \in TokenRequest, tok' = [tok EXCEPT ![t] = next],
           next.pc # "idle" => next.client_id # None,
           next.pc # "done" => next.answer = "pending",
           next.client_secret # None =>
              \E c \in ClientIds : /\ reg[c].answer = "created"
                                   /\ next.client_secret = reg[c].client_secret,
           next.answer = "authenticated" =>
              /\ next.pc = "done"
              /\ clients[next.client_id] # None
              /\ Authenticates(clients[next.client_id], next.client_secret)
    PROVE  IInv'
<1>1. tok'[t] = next /\ \A u \in TokenIds \ {t} : tok'[u] = tok[u]
  BY DEF IInv, TypeOK
<1>2. TypeOK'
  BY DEF IInv, TypeOK
<1>3. RegistrationOrigin' /\ AnswerTellsRow'
  BY DEF IInv, RegistrationOrigin, AnswerTellsRow, SecretHash, SecretDrawn
<1>4. RequestOrigin'
  <2> SUFFICES ASSUME NEW u \in TokenIds
               PROVE  RequestOrigin!(u)'
    BY DEF RequestOrigin
  <2>1. RequestOrigin!(u)
    BY DEF IInv, RequestOrigin
  <2>2. CASE u = t
    BY <1>1, <2>2 DEF Authenticates
  <2>3. CASE u # t
    BY <1>1, <2>1, <2>3 DEF Authenticates
  <2> QED
    BY <2>2, <2>3
<1> QED
  BY <1>2, <1>3, <1>4 DEF IInv

LEMMA TokenArriveIInv ==
    ASSUME IInv, NEW t \in TokenIds, NEW grant \in GrantTypes, NEW id \in ClientIds,
           NEW secret \in Disclosed \cup {None}, TokenArrive(t, grant, id, secret)
    PROVE  IInv'
<1> DEFINE next == [tok[t] EXCEPT !.pc = "exchange", !.grant_type = grant, !.client_id = id,
                                  !.client_secret = secret]
<1>1. /\ tok[t] \in TokenRequest /\ tok[t].answer = "pending"
      /\ UNCHANGED <<clients, reg>>
      /\ tok' = [tok EXCEPT ![t] = next]
  BY DEF IInv, TypeOK, RequestOrigin, TokenArrive
<1>2. secret # None => \E c \in ClientIds : /\ reg[c].answer = "created"
                                            /\ secret = reg[c].client_secret
  BY DEF Disclosed, IInv, RegistrationOrigin
<1>3. secret \in Secrets \cup {None}
  BY DEF Disclosed, IInv, TypeOK, Registration
<1>4. next \in TokenRequest /\ next.pc = "exchange" /\ next.client_id = id
      /\ next.client_secret = secret /\ next.answer = tok[t].answer
  BY <1>1, <1>3 DEF TokenRequest
<1>5. id # None
  BY NoneAssumption
<1> HIDE DEF next
<1> QED
  BY <1>1, <1>2, <1>4, <1>5, RequestStep

\* A request that ends or waits for its client keeps what it presented.
LEMMA RequestMovesIInv ==
    ASSUME IInv, NEW t \in TokenIds, UNCHANGED <<clients, reg>>, tok[t].pc # "idle",
           NEW next \in TokenRequest, tok' = [tok EXCEPT ![t] = next],
           next.client_id = tok[t].client_id, next.client_secret = tok[t].client_secret,
           next.pc # "done" => next.answer = "pending",
           next.answer = "authenticated" =>
              /\ next.pc = "done"
              /\ clients[next.client_id] # None
              /\ Authenticates(clients[next.client_id], next.client_secret)
    PROVE  IInv'
<1>1. RequestOrigin!(t)
  BY DEF IInv, RequestOrigin
<1> QED
  BY <1>1, RequestStep

LEMMA TokenAnswerIInv ==
    ASSUME IInv, NEW t \in TokenIds, UNCHANGED <<clients, reg>>, tok[t].pc # "idle",
           NEW answer \in {"authenticated", "invalid_client", "unsupported_grant_type",
                           "not_implemented", "server_error", "aborted"},
           AnswerToken(t, answer),
           answer = "authenticated" =>
              /\ clients[tok[t].client_id] # None
              /\ Authenticates(clients[tok[t].client_id], tok[t].client_secret)
    PROVE  IInv'
<1> DEFINE next == [tok[t] EXCEPT !.pc = "done", !.answer = answer]
<1>1. tok[t] \in TokenRequest /\ tok' = [tok EXCEPT ![t] = next]
  BY DEF IInv, TypeOK, AnswerToken
<1>2. next \in TokenRequest /\ next.pc = "done" /\ next.client_id = tok[t].client_id
      /\ next.client_secret = tok[t].client_secret /\ next.answer = answer
  BY <1>1 DEF TokenRequest
<1> HIDE DEF next
<1> QED
  BY <1>1, <1>2, RequestMovesIInv

LEMMA ClientBackendIInv ==
    ASSUME IInv, ClientBackend
    PROVE  IInv'
<1> PICK t \in TokenIds :
        \/ \E grant \in GrantTypes, id \in ClientIds, secret \in Disclosed \cup {None} :
              TokenArrive(t, grant, id, secret)
        \/ TokenExchange(t)
        \/ TokenLookupClient(t)
        \/ TokenFails(t)
  BY DEF ClientBackend
<1>1. CASE \E grant \in GrantTypes, id \in ClientIds, secret \in Disclosed \cup {None} :
              TokenArrive(t, grant, id, secret)
  BY <1>1, TokenArriveIInv
<1>2. CASE TokenExchange(t)
  <2>1. tok[t].pc = "exchange" /\ UNCHANGED <<clients, reg>> /\ tok[t] \in TokenRequest
    BY <1>2 DEF TokenExchange, IInv, TypeOK
  <2>2. CASE tok[t].grant_type = "authorization_code"
    <3> DEFINE next == [tok[t] EXCEPT !.pc = "client"]
    <3>1. tok' = [tok EXCEPT ![t] = next] /\ tok[t].answer = "pending"
      BY <1>2, <2>1, <2>2 DEF TokenExchange, IInv, TypeOK, RequestOrigin
    <3>2. next \in TokenRequest /\ next.client_id = tok[t].client_id
          /\ next.client_secret = tok[t].client_secret /\ next.answer = tok[t].answer
      BY <2>1 DEF TokenRequest
    <3> HIDE DEF next
    <3> QED
      BY <2>1, <3>1, <3>2, RequestMovesIInv
  <2>3. CASE tok[t].grant_type # "authorization_code"
    <3>1. AnswerToken(t, "not_implemented") \/ AnswerToken(t, "unsupported_grant_type")
      BY <1>2, <2>3 DEF TokenExchange
    <3> QED
      BY <2>1, <3>1, TokenAnswerIInv
  <2> QED
    BY <2>2, <2>3
<1>3. CASE TokenLookupClient(t)
  <2>1. tok[t].pc = "client" /\ UNCHANGED <<clients, reg>>
    BY <1>3 DEF TokenLookupClient
  <2>2. CASE AnswerToken(t, "invalid_client")
    BY <2>1, <2>2, TokenAnswerIInv
  <2>3. CASE /\ AnswerToken(t, "authenticated")
             /\ clients[tok[t].client_id] # None
             /\ Authenticates(clients[tok[t].client_id], tok[t].client_secret)
    BY <2>1, <2>3, TokenAnswerIInv
  <2> QED
    BY <1>3, <2>2, <2>3 DEF TokenLookupClient
<1>4. CASE TokenFails(t)
  <2>1. tok[t].pc = "client" /\ UNCHANGED <<clients, reg>> /\ AnswerToken(t, "server_error")
    BY <1>4 DEF TokenFails
  <2> QED
    BY <2>1, TokenAnswerIInv
<1> QED
  BY <1>1, <1>2, <1>3, <1>4

LEMMA CrashIInv ==
    ASSUME IInv, Crash
    PROVE  IInv'
<1>1. /\ UNCHANGED clients
      /\ reg' = Aborted(reg) /\ reg \in [ClientIds -> Registration]
      /\ tok' = Aborted(tok) /\ tok \in [TokenIds -> TokenRequest]
  BY DEF Crash, IInv, TypeOK
<1>2. ASSUME NEW c \in ClientIds
      PROVE  /\ reg'[c] \in Registration
             /\ reg'[c].body = reg[c].body /\ reg'[c].client_secret = reg[c].client_secret
             /\ reg[c].pc \in {"idle", "done"} => reg'[c] = reg[c]
             /\ reg[c].pc \notin {"idle", "done"} =>
                   reg'[c].pc = "done" /\ reg'[c].answer = "aborted"
  <2>1. reg[c] \in Registration
    BY <1>1
  <2>2. reg'[c] = IF reg[c].pc \in {"idle", "done"} THEN reg[c]
                  ELSE [reg[c] EXCEPT !.pc = "done", !.answer = "aborted"]
    BY <1>1 DEF Aborted
  <2> QED
    BY <2>1, <2>2 DEF Registration, RegisterAnswers
<1>3. ASSUME NEW t \in TokenIds
      PROVE  /\ tok'[t] \in TokenRequest
             /\ tok'[t].client_id = tok[t].client_id
             /\ tok'[t].client_secret = tok[t].client_secret
             /\ tok[t].pc \in {"idle", "done"} => tok'[t] = tok[t]
             /\ tok[t].pc \notin {"idle", "done"} =>
                   tok'[t].pc = "done" /\ tok'[t].answer = "aborted"
  <2>1. tok[t] \in TokenRequest
    BY <1>1
  <2>2. tok'[t] = IF tok[t].pc \in {"idle", "done"} THEN tok[t]
                  ELSE [tok[t] EXCEPT !.pc = "done", !.answer = "aborted"]
    BY <1>1 DEF Aborted
  <2> QED
    BY <2>1, <2>2 DEF TokenRequest
<1>4. TypeOK'
  BY <1>1, <1>2, <1>3 DEF IInv, TypeOK, Aborted
<1>5. \A c \in ClientIds : SecretHash(c)' = SecretHash(c) /\ SecretDrawn(c)' = SecretDrawn(c)
  BY <1>2 DEF SecretHash, SecretDrawn
<1>6. RegistrationOrigin'
  <2> SUFFICES ASSUME NEW c \in ClientIds
               PROVE  RegistrationOrigin!(c)'
    BY DEF RegistrationOrigin
  <2>1. RegistrationOrigin!(c)
    BY DEF IInv, RegistrationOrigin
  <2>2. CASE reg[c].pc \in {"idle", "done"}
    BY <1>1, <1>2, <1>5, <2>1, <2>2
  <2>3. CASE reg[c].pc \notin {"idle", "done"}
    BY <1>1, <1>2, <1>5, <2>1, <2>3
  <2> QED
    BY <2>2, <2>3
<1>7. AnswerTellsRow'
  BY <1>1, <1>2, <1>5 DEF IInv, AnswerTellsRow
<1>8. RequestOrigin'
  <2> SUFFICES ASSUME NEW t \in TokenIds
               PROVE  RequestOrigin!(t)'
    BY DEF RequestOrigin
  <2>1. RequestOrigin!(t)
    BY DEF IInv, RequestOrigin
  <2>2. \A c \in ClientIds : reg[c].answer = "created" => reg'[c].answer = "created"
    BY <1>2 DEF IInv, RegistrationOrigin
  <2> QED
    BY <1>1, <1>2, <1>3, <2>1, <2>2 DEF Authenticates
<1> QED
  BY <1>4, <1>6, <1>7, <1>8 DEF IInv

-----------------------------------------------------------------------------
(* The theorems *)

\* The strengthened invariant of registrations, rows and requests.
THEOREM ClientInvariance == Spec => []IInv
<1>1. IInv /\ UNCHANGED vars => IInv'
  <2> SUFFICES ASSUME IInv, UNCHANGED vars
               PROVE  IInv'
    OBVIOUS
  <2>1. TypeOK'
    BY DEF vars, IInv, TypeOK
  <2>2. RegistrationOrigin' /\ AnswerTellsRow'
    BY DEF vars, IInv, RegistrationOrigin, AnswerTellsRow, SecretHash, SecretDrawn
  <2>3. RequestOrigin'
    BY DEF vars, IInv, RequestOrigin, Authenticates
  <2> QED
    BY <2>1, <2>2, <2>3 DEF IInv
<1>2. IInv /\ [Next]_vars => IInv'
  BY <1>1, RegistrarIInv, ClientBackendIInv, CrashIInv DEF Next
<1> QED
  BY <1>2, InitIInv, PTL DEF Spec

\* What a row's hash, or its absence, says of the registration it came from.
LEMMA HashIsTheRegistrants ==
    ASSUME IInv, NEW c \in ClientIds, clients[c] # None, NEW secret \in Secrets \cup {None},
           Authenticates(clients[c], secret), ~ reg[c].body.is_public
    PROVE  secret = SecretOf(c)
<1>1. clients[c].secret_hash = Bcrypt(SecretOf(c))
  BY DEF IInv, RegistrationOrigin, SecretHash
<1>2. Bcrypt(SecretOf(c)) # None
  BY NoneAssumption DEF Bcrypt, SecretOf, Secrets
<1>3. Bcrypt(SecretOf(c)) = Bcrypt(secret)
  BY <1>1, <1>2 DEF Authenticates
<1> QED
  BY <1>3 DEF Bcrypt

\* A confidential client is authenticated by the secret its registrant was
\* told, whatever the registrations and their lost answers.
THEOREM OnlyTheRegistrantHolds == Spec => []OnlyTheRegistrant
<1>1. IInv => OnlyTheRegistrant
  <2> SUFFICES ASSUME IInv, NEW t \in TokenIds, tok[t].answer = "authenticated",
                      ~ reg[tok[t].client_id].body.is_public
               PROVE  /\ reg[tok[t].client_id].answer = "created"
                      /\ tok[t].client_secret = reg[tok[t].client_id].client_secret
    BY DEF OnlyTheRegistrant
  <2>1. /\ tok[t].client_id \in ClientIds
        /\ tok[t].client_secret \in Secrets \cup {None}
        /\ clients[tok[t].client_id] # None
        /\ Authenticates(clients[tok[t].client_id], tok[t].client_secret)
    BY DEF IInv, TypeOK, TokenRequest, RequestOrigin
  <2>2. tok[t].client_secret = SecretOf(tok[t].client_id)
    BY <2>1, HashIsTheRegistrants
  <2>3. tok[t].client_secret # None
    BY <2>1, <2>2, NoneAssumption DEF SecretOf, Secrets
  <2>4. PICK c \in ClientIds : reg[c].answer = "created" /\ tok[t].client_secret = reg[c].client_secret
    BY <2>3 DEF IInv, RequestOrigin
  <2>5. reg[c].client_secret = SecretOf(c)
    BY <2>3, <2>4 DEF IInv, RegistrationOrigin
  <2>6. c = tok[t].client_id
    BY <2>2, <2>4, <2>5 DEF SecretOf
  <2> QED
    BY <2>4, <2>6
<1> QED
  BY <1>1, ClientInvariance, PTL

\* Who presents what its registration disclosed is admitted.
THEOREM RegistrantIsAdmittedHolds == Spec => RegistrantIsAdmitted
<1>1. IInv /\ [Next]_vars =>
        [\A t \in TokenIds :
            /\ tok[t].pc = "client"
            /\ reg[tok[t].client_id].answer = "created"
            /\ tok[t].client_secret = reg[tok[t].client_id].client_secret
            => tok'[t].answer # "invalid_client"]_vars
  <2> SUFFICES ASSUME IInv, Next, NEW t \in TokenIds, tok[t].pc = "client",
                      reg[tok[t].client_id].answer = "created",
                      tok[t].client_secret = reg[tok[t].client_id].client_secret
               PROVE  tok'[t].answer # "invalid_client"
    OBVIOUS
  <2>1. /\ tok[t] \in TokenRequest /\ tok[t].answer = "pending"
        /\ tok \in [TokenIds -> TokenRequest]
        /\ tok[t].client_id \in ClientIds
    BY DEF IInv, TypeOK, TokenRequest, RequestOrigin
  <2>3. CASE Crash
    BY <2>1, <2>3 DEF Crash, Aborted, TokenRequest
  <2>4. CASE ClientBackend
    <3>1. PICK u \in TokenIds :
              \/ \E grant \in GrantTypes, id \in ClientIds, secret \in Disclosed \cup {None} :
                    TokenArrive(u, grant, id, secret)
              \/ TokenExchange(u)
              \/ TokenLookupClient(u)
              \/ TokenFails(u)
      BY <2>4 DEF ClientBackend
    <3>2. CASE u # t
      BY <2>1, <3>1, <3>2
         DEF TokenArrive, TokenExchange, TokenLookupClient, TokenFails, AnswerToken
    <3>3. CASE u = t
      <4>1. TokenLookupClient(t) \/ TokenFails(t)
        BY <3>1, <3>3 DEF TokenArrive, TokenExchange
      <4>2. CASE TokenFails(t)
        BY <2>1, <4>2 DEF TokenFails, AnswerToken, TokenRequest
      <4>3. CASE TokenLookupClient(t)
        <5>1. clients[tok[t].client_id] # None
          BY <2>1 DEF IInv, AnswerTellsRow
        <5>2. Authenticates(clients[tok[t].client_id], tok[t].client_secret)
          BY <2>1 DEF IInv, AnswerTellsRow, SecretDrawn, SecretHash, Authenticates
        <5>3. tok' = [tok EXCEPT ![t].pc = "done", ![t].answer = "authenticated"]
          BY <4>3, <5>1, <5>2 DEF TokenLookupClient, AnswerToken
        <5> QED
          BY <2>1, <5>3 DEF TokenRequest
      <4> QED
        BY <4>1, <4>2, <4>3
    <3> QED
      BY <3>2, <3>3
  <2>5. CASE Registrar
    <3>1. UNCHANGED tok
      BY <2>5 DEF Registrar, RegisterArrive, RegisterCheck, RegisterInsert, RegisterFails
    <3> QED
      BY <2>1, <3>1
  <2> QED
    BY <2>3, <2>4, <2>5 DEF Next
<1> QED
  BY <1>1, ClientInvariance, PTL DEF Spec, RegistrantIsAdmitted

\* Whichever grant types the gate supports, no public client is stored for
\* client_credentials.
THEOREM PublicNeverMachineHolds == Spec => []PublicNeverMachine
<1>1. IInv => PublicNeverMachine
  <2> SUFFICES ASSUME IInv, NEW c \in ClientIds, clients[c] # None, clients[c].secret_hash = None,
                      NEW i \in DOMAIN clients[c].grant_types
               PROVE  clients[c].grant_types[i] # "client_credentials"
    BY DEF PublicNeverMachine
  <2>1. /\ RefusedAt(reg[c].body) = {}
        /\ clients[c].grant_types = reg[c].body.grant_types
        /\ clients[c].secret_hash = SecretHash(c)
    BY DEF IInv, RegistrationOrigin
  <2>2. reg[c].body.is_public
    BY <2>1, NoneAssumption DEF SecretHash, Bcrypt, SecretOf, Secrets
  <2>3. ~ Machine(reg[c].body, i)
    BY <2>1 DEF RefusedAt, Refused
  <2> QED
    BY <2>1, <2>2, <2>3 DEF Machine
<1> QED
  BY <1>1, ClientInvariance, PTL
=============================================================================
