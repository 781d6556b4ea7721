------------------------- MODULE RefreshFlow_proofs -------------------------
(***************************************************************************)
(* Proofs about RefreshFlow: the inductive invariant, what a refreshed     *)
(* token may claim, and how far the three judges of an expiry agree, for   *)
(* any lifetime, any number of tokens and requests, and, where the clock   *)
(* of MySQL matters, any skew of the sign that the statement names.        *)
(***************************************************************************)
EXTENDS RefreshFlow, TLAPS

\* Cutting to the second never goes up and loses less than a second.
LEMMA FloorBounds ==
    ASSUME NEW t \in Int
    PROVE  /\ Floor(t) \in Int
           /\ Floor(t) <= t
           /\ t < Floor(t) + Second
           /\ Floor(t) % Second = 0
  BY DEF Floor, Second

\* DATETIME moves an expiry by half a second at most.
LEMMA ExpiryBounds ==
    ASSUME NEW t \in Nat
    PROVE  /\ ExpiryOf(t) \in Int
           /\ ExpiryOf(t) <= t + Lifetime + 2
           /\ t + Lifetime - 2 < ExpiryOf(t)
           /\ ExpiryOf(t) % Second = 0
<1>1. t + Lifetime + 2 \in Int
  BY ClockAssumption
<1>2. ExpiryOf(t) = Floor(t + Lifetime + 2)
  BY DEF ExpiryOf, Datetime
<1> QED
  BY <1>1, <1>2, FloorBounds, ClockAssumption DEF Second

-----------------------------------------------------------------------------
(* The invariant is inductive *)

LEMMA InitIInv == Init => IInv
  BY NoneAssumption
     DEF Init, IInv, TypeOK, RowOrigin, RowSound, RequestOrigin, RefreshRequest

\* What the actions on rows leave of a token: the row it was, marked perhaps,
\* or nothing; a fresh one for a fresh token.
LEMMA RowsKeepIInv ==
    ASSUME IInv, UNCHANGED <<now, granted, refresh>>, users' \in SUBSET users,
           tokens' \in [TokenIds -> Row \cup {None}],
           \A t \in TokenIds : tokens'[t] # None =>
              /\ tokens[t] # None
              /\ tokens'[t].claims = tokens[t].claims
              /\ tokens'[t].expires = tokens[t].expires
              /\ tokens'[t].claims.user \in users'
    PROVE  IInv'
<1>1. TypeOK'
  BY DEF IInv, TypeOK
<1>2. RowOrigin' /\ RowSound'
  BY DEF IInv, RowOrigin, RowSound, ExpiryOf
<1>3. RequestOrigin'
  BY DEF IInv, RequestOrigin, ExpiryOf
<1> QED
  BY <1>1, <1>2, <1>3 DEF IInv

LEMMA MarkedRowsKeepIInv ==
    ASSUME IInv, UNCHANGED <<now, users, granted, refresh>>, NEW marked,
           \A t \in marked : t \in TokenIds /\ tokens[t] # None, RevokeIn(marked)
    PROVE  IInv'
<1>1. tokens \in [TokenIds -> Row \cup {None}]
  BY DEF IInv, TypeOK
<1>2. ASSUME NEW t \in marked
      PROVE  /\ tokens'[t] \in Row
             /\ tokens'[t].claims = tokens[t].claims
             /\ tokens'[t].expires = tokens[t].expires
  BY <1>1 DEF RevokeIn, Row
<1>3. \A t \in TokenIds \ marked : tokens'[t] = tokens[t]
  BY DEF RevokeIn
<1>4. tokens' \in [TokenIds -> Row \cup {None}]
  <2>1. \A t \in TokenIds : tokens'[t] \in Row \cup {None}
    BY <1>1, <1>2, <1>3
  <2> QED
    BY <2>1 DEF RevokeIn
<1>5. \A t \in TokenIds : tokens[t] # None => tokens[t].claims.user \in users
  BY DEF IInv, RowSound
<1> QED
  BY <1>2, <1>3, <1>4, <1>5, RowsKeepIInv

LEMMA DeletedRowsKeepIInv ==
    ASSUME IInv, UNCHANGED <<now, granted, refresh>>, users' \in SUBSET users, NEW gone,
           DeleteIn(gone), \A t \in TokenIds \ gone : tokens[t] # None =>
                              tokens[t].claims.user \in users'
    PROVE  IInv'
<1>1. tokens \in [TokenIds -> Row \cup {None}]
  BY DEF IInv, TypeOK
<1>2. /\ tokens' \in [TokenIds -> Row \cup {None}]
      /\ \A t \in TokenIds : tokens'[t] # None => t \notin gone /\ tokens'[t] = tokens[t]
  BY <1>1 DEF DeleteIn
<1> QED
  BY <1>2, RowsKeepIInv

LEMMA StoreGrantIInv ==
    ASSUME IInv, NEW t \in TokenIds, NEW claims \in Claims, NEW answered \in BOOLEAN,
           StoreGrant(t, claims, answered)
    PROVE  IInv'
<1> DEFINE row == [claims |-> claims, expires |-> ExpiryOf(now), revoked |-> FALSE]
           grant == [claims |-> claims, at |-> now]
<1>1. /\ now \in Nat /\ tokens[t] = None /\ granted[t] = None /\ claims.user \in users
      /\ tokens' = [tokens EXCEPT ![t] = row]
      /\ granted' \in {granted, [granted EXCEPT ![t] = grant]}
      /\ UNCHANGED <<now, users, refresh>>
      /\ tokens \in [TokenIds -> Row \cup {None}]
      /\ granted \in [TokenIds -> Grant \cup {None}]
  BY DEF StoreGrant, IInv, TypeOK
<1>2. row \in Row /\ row.claims = claims /\ row.expires = ExpiryOf(now)
      /\ ExpiryOf(now) % Second = 0
  BY <1>1, ExpiryBounds DEF Row
<1>3. grant \in Grant /\ grant.claims = claims /\ grant.at = now
  BY <1>1 DEF Grant
<1> HIDE DEF row, grant
<1>4. TypeOK'
  BY <1>1, <1>2, <1>3 DEF IInv, TypeOK
<1>5. RowSound'
  BY <1>1, <1>2 DEF IInv, RowSound
<1>6. RowOrigin'
  BY <1>1, <1>2, <1>3 DEF IInv, RowOrigin, ExpiryOf
<1>7. RequestOrigin'
  <2>1. /\ \A s \in TokenIds : granted[s] # None => granted'[s] = granted[s]
        /\ \A r \in RefreshIds : refresh[r].token \in TokenIds \cup {None}
    BY <1>1 DEF IInv, TypeOK, RefreshRequest
  <2>2. ASSUME NEW r \in RefreshIds, refresh[r].token # None
        PROVE  /\ granted'[refresh[r].token] = granted[refresh[r].token]
               /\ granted[refresh[r].token] # None
    BY <2>1, <2>2 DEF IInv, RequestOrigin
  <2> QED
    BY <1>1, <2>2 DEF IInv, RequestOrigin, ExpiryOf
<1> QED
  BY <1>4, <1>5, <1>6, <1>7 DEF IInv

LEMMA RowsIInv ==
    ASSUME IInv, Rows
    PROVE  IInv'
<1>1. CASE \E t \in TokenIds, claims \in Claims, answered \in BOOLEAN :
              StoreGrant(t, claims, answered)
  BY <1>1, StoreGrantIInv
<1>2. CASE \E t \in TokenIds : Revoke(t)
  <2>1. PICK t \in TokenIds : Revoke(t)
    BY <1>2
  <2> QED
    BY <2>1, MarkedRowsKeepIInv DEF Revoke
<1>3. CASE \E u \in Users : RevokeAllForUser(u)
  <2>1. PICK u \in Users : RevokeAllForUser(u)
    BY <1>3
  <2> DEFINE marked == {t \in TokensOf(u) : ~ tokens[t].revoked}
  <2>2. \A t \in marked : t \in TokenIds /\ tokens[t] # None
    BY DEF TokensOf
  <2>3. RevokeIn(marked) /\ UNCHANGED <<now, users, granted, refresh>>
    BY <2>1 DEF RevokeAllForUser
  <2> HIDE DEF marked
  <2> QED
    BY <2>2, <2>3, MarkedRowsKeepIInv
<1>4. CASE \E u \in Users : DeleteUser(u)
  <2>1. PICK u \in Users : DeleteUser(u)
    BY <1>4
  <2>2. \A t \in TokenIds \ TokensOf(u) : tokens[t] # None => tokens[t].claims.user \in users'
    BY <2>1 DEF DeleteUser, TokensOf, IInv, RowSound
  <2>3. DeleteIn(TokensOf(u)) /\ users' \in SUBSET users /\ UNCHANGED <<now, granted, refresh>>
    BY <2>1 DEF DeleteUser
  <2> QED
    BY <2>2, <2>3, DeletedRowsKeepIInv
<1>5. CASE DeleteExpired
  <2>1. \A t \in TokenIds : tokens[t] # None => tokens[t].claims.user \in users
    BY DEF IInv, RowSound
  <2> QED
    BY <1>5, <2>1, DeletedRowsKeepIInv DEF DeleteExpired
<1> QED
  BY <1>1, <1>2, <1>3, <1>4, <1>5 DEF Rows

-----------------------------------------------------------------------------
(* Requests *)

\* Only the record of one request changes, to one that is what it should be.
LEMMA RequestKeepsIInv ==
    ASSUME IInv, NEW r \in RefreshIds, NEW new \in RefreshRequest,
           refresh' = [refresh EXCEPT ![r] = new],
           UNCHANGED <<now, users, tokens, granted>>,
           new.token # None => granted[new.token] # None,
           new.pc \in {"idle", "lookup"} => new.row = None,
           new.pc \in {"user", "sign"} => new.token # None /\ new.row # None,
           new.row # None =>
              /\ new.token # None
              /\ new.row.claims = granted[new.token].claims
              /\ new.row.expires = ExpiryOf(granted[new.token].at),
           new.claims # None => new.row # None /\ new.claims = new.row.claims
    PROVE  IInv'
<1>1. TypeOK'
  BY DEF IInv, TypeOK
<1>2. RowOrigin' /\ RowSound'
  BY DEF IInv, RowOrigin, RowSound, ExpiryOf
<1>3. RequestOrigin'
  <2>1. refresh'[r] = new /\ \A s \in RefreshIds \ {r} : refresh'[s] = refresh[s]
    BY DEF IInv, TypeOK
  <2> QED
    BY <2>1 DEF IInv, RequestOrigin, ExpiryOf
<1> QED
  BY <1>1, <1>2, <1>3 DEF IInv

LEMMA AnswerIInv ==
    ASSUME IInv, NEW r \in RefreshIds, Answer(r, "server_error"),
           UNCHANGED <<now, users, tokens, granted>>
    PROVE  IInv'
<1> DEFINE new == [refresh[r] EXCEPT !.pc = "done", !.answer = "server_error"]
<1>1. refresh[r] \in RefreshRequest /\ refresh' = [refresh EXCEPT ![r] = new]
  BY DEF IInv, TypeOK, Answer
<1>2. /\ new \in RefreshRequest /\ new.pc = "done"
      /\ new.token = refresh[r].token /\ new.row = refresh[r].row
      /\ new.claims = refresh[r].claims
  BY <1>1 DEF RefreshRequest
<1> HIDE DEF new
<1>3. /\ refresh[r].token # None => granted[refresh[r].token] # None
      /\ refresh[r].row # None =>
            /\ refresh[r].token # None
            /\ refresh[r].row.claims = granted[refresh[r].token].claims
            /\ refresh[r].row.expires = ExpiryOf(granted[refresh[r].token].at)
      /\ refresh[r].claims # None =>
            refresh[r].row # None /\ refresh[r].claims = refresh[r].row.claims
  BY DEF IInv, RequestOrigin
<1> QED
  BY <1>1, <1>2, <1>3, RequestKeepsIInv

LEMMA RequestsIInv ==
    ASSUME IInv, Requests
    PROVE  IInv'
<1>1. PICK r \in RefreshIds :
        \/ \E token \in TokenIds \cup {None}, wellFormed \in BOOLEAN :
              RefreshArrive(r, token, wellFormed)
        \/ RefreshStep(r)
        \/ RefreshFails(r)
  BY DEF Requests
<1>2. /\ refresh[r] \in RefreshRequest
      /\ refresh[r].token # None => granted[refresh[r].token] # None
      /\ refresh[r].pc \in {"idle", "lookup"} => refresh[r].row = None
      /\ refresh[r].pc \in {"user", "sign"} => refresh[r].token # None /\ refresh[r].row # None
      /\ refresh[r].row # None =>
            /\ refresh[r].token # None
            /\ refresh[r].row.claims = granted[refresh[r].token].claims
            /\ refresh[r].row.expires = ExpiryOf(granted[refresh[r].token].at)
      /\ refresh[r].claims # None =>
            refresh[r].row # None /\ refresh[r].claims = refresh[r].row.claims
  BY DEF IInv, TypeOK, RequestOrigin
<1>3. CASE \E token \in TokenIds \cup {None}, wellFormed \in BOOLEAN :
              RefreshArrive(r, token, wellFormed)
  <2>1. PICK token \in TokenIds \cup {None}, wellFormed \in BOOLEAN :
          RefreshArrive(r, token, wellFormed)
    BY <1>3
  <2> DEFINE new == [refresh[r] EXCEPT
                !.pc = IF wellFormed THEN "lookup" ELSE "done",
                !.token = token,
                !.answer = IF wellFormed THEN "pending" ELSE "bad_request"]
  <2>2. /\ refresh[r].pc = "idle"
        /\ token # None => granted[token] # None
        /\ refresh' = [refresh EXCEPT ![r] = new]
        /\ UNCHANGED <<now, users, tokens, granted>>
    BY <2>1 DEF RefreshArrive
  <2>3. /\ new \in RefreshRequest /\ new.pc \notin {"user", "sign"} /\ new.token = token
        /\ new.row = refresh[r].row /\ new.claims = refresh[r].claims
    BY <1>2 DEF RefreshRequest
  <2> HIDE DEF new
  <2>4. refresh[r].row = None
    BY <1>2, <2>2
  <2> QED
    BY <1>2, <2>2, <2>3, <2>4, RequestKeepsIInv
<1>4. CASE RefreshLookup(r)
  <2>1. refresh[r].pc = "lookup" /\ UNCHANGED <<now, users, tokens, granted>>
    BY <1>4 DEF RefreshLookup
  <2>2. CASE RowOf(refresh[r].token) = None
    BY <1>4, <2>1, <2>2, AnswerIInv DEF RefreshLookup
  <2>3. CASE RowOf(refresh[r].token) # None
    <3> DEFINE row == RowOf(refresh[r].token)
               new == [refresh[r] EXCEPT !.pc = "user", !.row = row]
    <3>1. refresh' = [refresh EXCEPT ![r] = new]
      BY <1>4, <2>3 DEF RefreshLookup
    <3>2. /\ refresh[r].token \in TokenIds
          /\ row = tokens[refresh[r].token] /\ row \in Row
          /\ row.claims = granted[refresh[r].token].claims
          /\ row.expires = ExpiryOf(granted[refresh[r].token].at)
          /\ refresh[r].token # None
      BY <1>2, <2>3 DEF RowOf, RefreshRequest, IInv, TypeOK, RowOrigin
    <3> HIDE DEF row
    <3>3. /\ new \in RefreshRequest /\ new.pc = "user" /\ new.token = refresh[r].token
          /\ new.row = row /\ new.claims = refresh[r].claims
      BY <1>2, <3>2 DEF RefreshRequest
    <3>4. refresh[r].claims = None /\ row # None
      BY <1>2, <2>1, <2>3 DEF row
    <3> HIDE DEF new
    <3> QED
      BY <1>2, <2>1, <3>1, <3>2, <3>3, <3>4, RequestKeepsIInv
  <2> QED
    BY <2>2, <2>3
<1>5. CASE RefreshLoadUser(r)
  <2>1. refresh[r].pc = "user" /\ UNCHANGED <<now, users, tokens, granted>>
    BY <1>5 DEF RefreshLoadUser
  <2>2. CASE Answer(r, "server_error")
    BY <2>1, <2>2, AnswerIInv
  <2>3. CASE refresh' = [refresh EXCEPT ![r].pc = "sign"]
    <3> DEFINE new == [refresh[r] EXCEPT !.pc = "sign"]
    <3>1. refresh' = [refresh EXCEPT ![r] = new]
      BY <2>3
    <3>2. /\ new \in RefreshRequest /\ new.pc = "sign" /\ new.token = refresh[r].token
          /\ new.row = refresh[r].row /\ new.claims = refresh[r].claims
      BY <1>2 DEF RefreshRequest
    <3> HIDE DEF new
    <3> QED
      BY <1>2, <2>1, <3>1, <3>2, RequestKeepsIInv
  <2> QED
    BY <1>5, <2>2, <2>3 DEF RefreshLoadUser
<1>6. CASE RefreshSign(r)
  <2> DEFINE new == [refresh[r] EXCEPT !.pc = "done", !.answer = "ok",
                                       !.claims = refresh[r].row.claims]
  <2>1. /\ refresh[r].pc = "sign"
        /\ refresh' = [refresh EXCEPT ![r] = new]
        /\ UNCHANGED <<now, users, tokens, granted>>
    BY <1>6 DEF RefreshSign
  <2>2. refresh[r].row # None /\ refresh[r].row.claims \in Claims
    BY <1>2, <2>1 DEF RefreshRequest, Row
  <2>3. /\ new \in RefreshRequest /\ new.pc = "done" /\ new.token = refresh[r].token
        /\ new.row = refresh[r].row /\ new.claims = refresh[r].row.claims
    BY <1>2, <2>2 DEF RefreshRequest
  <2> HIDE DEF new
  <2> QED
    BY <1>2, <2>1, <2>2, <2>3, RequestKeepsIInv
<1>7. CASE RefreshFails(r)
  BY <1>7, AnswerIInv DEF RefreshFails
<1> QED
  BY <1>1, <1>3, <1>4, <1>5, <1>6, <1>7 DEF RefreshStep

LEMMA CrashIInv ==
    ASSUME IInv, Crash
    PROVE  IInv'
<1>1. UNCHANGED <<now, users, tokens, granted>>
  BY DEF Crash
<1>2. ASSUME NEW r \in RefreshIds
      PROVE  /\ refresh'[r] \in RefreshRequest
             /\ refresh'[r].token = refresh[r].token /\ refresh'[r].row = refresh[r].row
             /\ refresh'[r].claims = refresh[r].claims
             /\ refresh'[r].pc \in {"idle", "done"}
             /\ refresh'[r].pc = "idle" => refresh[r].pc = "idle"
  BY DEF Crash, IInv, TypeOK, RefreshRequest
<1>3. refresh' \in [RefreshIds -> RefreshRequest]
  BY <1>2 DEF Crash
<1>4. TypeOK' /\ RowOrigin' /\ RowSound'
  BY <1>1, <1>3 DEF IInv, TypeOK, RowOrigin, RowSound, ExpiryOf
<1>5. RequestOrigin'
  BY <1>1, <1>2 DEF IInv, RequestOrigin, ExpiryOf
<1> QED
  BY <1>4, <1>5 DEF IInv

LEMMA StepIInv == IInv /\ [Next]_vars => IInv'
<1> SUFFICES ASSUME IInv, [Next]_vars
             PROVE  IInv'
  OBVIOUS
<1>1. CASE Requests
  BY <1>1, RequestsIInv
<1>2. CASE Rows
  BY <1>2, RowsIInv
<1>3. CASE Tick
  BY <1>3, ClockAssumption
     DEF Tick, IInv, TypeOK, RowOrigin, RowSound, RequestOrigin, ExpiryOf
<1>4. CASE Crash
  BY <1>4, CrashIInv
<1>5. CASE UNCHANGED vars
  BY <1>5 DEF vars, IInv, TypeOK, RowOrigin, RowSound, RequestOrigin, ExpiryOf
<1> QED
  BY <1>1, <1>2, <1>3, <1>4, <1>5 DEF Next

\* The rows, the requests and what was granted always agree: the inductive
\* invariant of refresh tokens.
THEOREM RefreshInvariance == Spec => []IInv
<1> QED
  BY InitIInv, StepIInv, PTL DEF Spec

-----------------------------------------------------------------------------

\* What /refresh mints is what was granted with the token presented.
THEOREM RefreshKeepsGrantHolds == Spec => []RefreshKeepsGrant
<1>1. IInv => RefreshKeepsGrant
  BY DEF IInv, RequestOrigin, RefreshKeepsGrant
<1> QED
  BY <1>1, RefreshInvariance, PTL

\* A refresh token passes the check no later than its lifetime and half a
\* second after it was granted, revoked or not.
THEOREM LifetimeKeptHolds == Spec => LifetimeKept
<1>1. ASSUME IInv, [Next]_vars, NEW r \in RefreshIds,
             refresh[r].pc = "user", refresh'[r].pc = "sign"
      PROVE  now <= granted[refresh[r].token].at + Lifetime + 2
  <2> DEFINE at == granted[refresh[r].token].at
  <2>1. /\ now \in Nat /\ at \in Nat
        /\ refresh[r].row.expires = ExpiryOf(at)
    BY <1>1 DEF IInv, TypeOK, RefreshRequest, RequestOrigin, Grant
  <2>2. ~ Expired(refresh[r].row)
    <3>1. refresh \in [RefreshIds -> RefreshRequest]
      BY <1>1 DEF IInv, TypeOK
    <3>2. refresh' # refresh
      BY <1>1
    <3>3. ~ Crash
      <4> SUFFICES ASSUME Crash
                   PROVE  FALSE
        OBVIOUS
      <4>1. refresh'[r] = [refresh[r] EXCEPT !.pc = "done", !.answer = "aborted"]
        BY <1>1 DEF Crash
      <4>2. refresh[r] \in RefreshRequest
        BY <3>1
      <4>3. refresh'[r].pc = "done"
        BY <4>1, <4>2 DEF RefreshRequest
      <4> QED
        BY <1>1, <4>3
    <3>4. Requests
      BY <1>1, <3>2, <3>3
         DEF Next, vars, Rows, StoreGrant, Revoke, RevokeAllForUser, DeleteUser, DeleteExpired, Tick
    <3>5. PICK s \in RefreshIds :
            \/ \E token \in TokenIds \cup {None}, wellFormed \in BOOLEAN :
                  RefreshArrive(s, token, wellFormed)
            \/ RefreshStep(s)
            \/ RefreshFails(s)
      BY <3>4 DEF Requests
    <3>6. s = r
      BY <1>1, <3>1, <3>5
         DEF RefreshArrive, RefreshStep, RefreshLookup, RefreshLoadUser, RefreshSign,
             RefreshFails, Answer
    <3>7. RefreshLoadUser(r) \/ RefreshFails(r)
      BY <1>1, <3>5, <3>6 DEF RefreshArrive, RefreshStep, RefreshLookup, RefreshSign
    <3>8. ~ Answer(r, "server_error")
      BY <1>1, <3>1 DEF Answer, RefreshRequest
    <3> QED
      BY <3>7, <3>8 DEF RefreshLoadUser, RefreshFails
  <2> HIDE DEF at
  <2>3. ~ (ExpiryOf(at) < now)
    BY <2>1, <2>2 DEF Expired
  <2>4. now <= at + Lifetime + 2
    BY <2>1, <2>3, ExpiryBounds, ClockAssumption
  <2> QED
    BY <2>4 DEF at
<1>2. IInv /\ [Next]_vars =>
        [\A r \in RefreshIds : refresh[r].pc = "user" /\ refresh'[r].pc = "sign" =>
            now <= granted[refresh[r].token].at + Lifetime + 2]_vars
  BY <1>1
<1> QED
  BY <1>2, RefreshInvariance, PTL DEF Spec, LifetimeKept

\* Nor is it refused as expired more than half a second early.
THEOREM RefusedOnlyWhenOverHolds == Spec => []RefusedOnlyWhenOver
<1>1. ASSUME IInv, NEW t \in TokenIds, tokens[t] # None, granted[t] # None, Expired(tokens[t])
      PROVE  now > granted[t].at + Lifetime - 2
  <2>1. /\ now \in Nat /\ granted[t].at \in Nat
        /\ tokens[t].expires = ExpiryOf(granted[t].at)
    BY <1>1 DEF IInv, TypeOK, RowOrigin, Grant
  <2> QED
    BY <1>1, <2>1, ExpiryBounds, ClockAssumption DEF Expired
<1>2. IInv => RefusedOnlyWhenOver
  BY <1>1 DEF RefusedOnlyWhenOver
<1> QED
  BY <1>2, RefreshInvariance, PTL

\* As long as NOW() is not ahead of UTC, the purge takes only what /refresh
\* would refuse.
THEOREM PurgeSafeHolds == Skew <= 0 => (Spec => PurgeSafe)
<1> SUFFICES ASSUME Skew <= 0
             PROVE  Spec => PurgeSafe
  OBVIOUS
<1>1. ASSUME IInv, [Next]_vars, NEW t \in TokenIds, tokens[t] # None, tokens'[t] = None
      PROVE  Expired(tokens[t]) \/ tokens[t].claims.user \notin users'
  <2>1. now \in Nat /\ tokens \in [TokenIds -> Row \cup {None}] /\ tokens[t] \in Row
    BY <1>1 DEF IInv, TypeOK
  <2>2. CASE DeleteExpired
    <3>1. tokens[t].expires < Floor(now) + Skew /\ tokens[t].expires \in Int
      BY <1>1, <2>1, <2>2 DEF DeleteExpired, DeleteIn, Purgeable, SqlNow, Row
    <3> QED
      BY <2>1, <3>1, FloorBounds, ClockAssumption DEF Expired
  <2>3. CASE \E u \in Users : DeleteUser(u)
    BY <1>1, <2>1, <2>3 DEF DeleteUser, DeleteIn, TokensOf
  <2>4. CASE \E s \in TokenIds, claims \in Claims, answered \in BOOLEAN :
                StoreGrant(s, claims, answered)
    BY <1>1, <2>1, <2>4 DEF StoreGrant
  <2>5. ASSUME NEW marked, RevokeIn(marked)
        PROVE  tokens'[t] # None
    <3>1. [tokens[t] EXCEPT !.revoked = TRUE] \in Row
      BY <2>1 DEF Row
    <3> QED
      BY <1>1, <2>5, <3>1, NoneAssumption DEF RevokeIn
  <2>6. CASE (\E s \in TokenIds : Revoke(s)) \/ (\E u \in Users : RevokeAllForUser(u))
    BY <1>1, <2>5, <2>6 DEF Revoke, RevokeAllForUser
  <2>7. CASE UNCHANGED tokens
    BY <1>1, <2>7
  <2> QED
    BY <1>1, <2>2, <2>3, <2>4, <2>6, <2>7
       DEF Next, vars, Requests, Rows, Tick, Crash, RefreshStep, RefreshArrive, RefreshLookup,
           RefreshLoadUser, RefreshSign, RefreshFails
<1>2. IInv /\ [Next]_vars =>
        [\A t \in TokenIds : tokens[t] # None /\ tokens'[t] = None =>
            Expired(tokens[t]) \/ tokens[t].claims.user \notin users']_vars
  BY <1>1
<1> QED
  BY <1>2, RefreshInvariance, PTL DEF Spec, PurgeSafe

\* Where NOW() is UTC, the listing of active tokens and the check of /refresh
\* agree but for the second of expiry.
THEOREM ListingAgreesHolds == Skew = 0 => (Spec => []ListingAgrees)
<1> SUFFICES ASSUME Skew = 0
             PROVE  Spec => []ListingAgrees
  OBVIOUS
<1>1. ASSUME IInv, NEW u \in Users, NEW t \in TokensOf(u)
      PROVE  /\ t \in ActiveOf(u) => ~ Expired(tokens[t])
             /\ ~ Expired(tokens[t]) /\ ~ tokens[t].revoked =>
                   t \in ActiveOf(u) \/ tokens[t].expires = Floor(now)
  <2>1. /\ now \in Int /\ tokens[t].expires \in Int
        /\ tokens[t].expires % Second = 0
    BY <1>1 DEF IInv, TypeOK, RowSound, TokensOf, Row
  <2>2. /\ Floor(now) \in Int /\ Floor(now) <= now /\ now < Floor(now) + Second
        /\ Floor(now) % Second = 0
    BY <2>1, FloorBounds
  <2>3. t \in ActiveOf(u) <=> ~ tokens[t].revoked /\ tokens[t].expires > Floor(now)
    BY <2>2 DEF ActiveOf, Unexpired, SqlNow
  <2>4. tokens[t].expires > Floor(now) => tokens[t].expires >= now
    BY <2>1, <2>2 DEF Second
  <2> QED
    BY <2>1, <2>2, <2>3, <2>4 DEF Expired
<1>2. IInv => ListingAgrees
  BY <1>1 DEF ListingAgrees
<1> QED
  BY <1>2, RefreshInvariance, PTL
=============================================================================
