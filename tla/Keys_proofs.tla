----------------------------- MODULE Keys_proofs -----------------------------
(***************************************************************************)
(* What holds of Keys for all keys, verifiers, lifetimes and files.        *)
(***************************************************************************)
EXTENDS Keys, TLAPS

LEMMA InitInv == Init => IInv
<1> SUFFICES ASSUME Init PROVE IInv
  OBVIOUS
<1>1. TypeOK
  BY DEF Init, TypeOK, Down
<1>2. Matched /\ Dated
  BY DEF Init, Matched, Dated, Down
<1> QED  BY <1>1, <1>2 DEF IInv

LEMMA FilesStep ==
    ASSUME IInv, NEW key \in KeyIds \cup {None}, WritePrivate(key) \/ WritePublic(key)
    PROVE  IInv'
<1>1. TypeOK'
  BY DEF IInv, TypeOK, WritePrivate, WritePublic
<1>2. UNCHANGED <<proc, tokens, doc, now>>
  BY DEF WritePrivate, WritePublic
<1>3. Matched' /\ Dated'
  BY <1>2 DEF IInv, Matched, Dated
<1> QED  BY <1>1, <1>3 DEF IInv

LEMMA LoadPrivateStep ==
    ASSUME IInv, LoadPrivate
    PROVE  IInv'
<1>1. TypeOK'
  BY DEF IInv, TypeOK, LoadPrivate
<1>2. proc'.pc = "loading" /\ proc'.private = files.private
  BY DEF IInv, TypeOK, LoadPrivate
<1>3. files.private \in KeyIds
  BY DEF IInv, TypeOK, LoadPrivate
<1>4. Matched' /\ Dated'
  BY <1>2, <1>3 DEF IInv, Matched, Dated, LoadPrivate
<1> QED  BY <1>1, <1>4 DEF IInv

\* A process that comes up holds one pair, and whatever is at large is dated
\* before its start.
LEMMA LoadPublicStep ==
    ASSUME IInv, LoadPublic
    PROVE  IInv'
<1>1. CASE files.public # None /\ files.public = proc.private
  <2>1. proc' = [proc EXCEPT !.pc = "up", !.public = files.public, !.since = now]
    BY <1>1 DEF LoadPublic
  <2>2. /\ proc'.pc = "up" /\ proc'.private = proc.private
        /\ proc'.public = proc.private /\ proc'.since = now
    BY <1>1, <2>1 DEF IInv, TypeOK
  <2>3. proc.private \in KeyIds
    BY DEF IInv, Matched, LoadPublic
  <2>4. TypeOK'
    BY <2>1 DEF IInv, TypeOK, LoadPublic
  <2>5. Matched'
    BY <2>2, <2>3 DEF IInv, TypeOK, Matched, LoadPublic
  <2>6. Dated'
    BY <2>2 DEF IInv, Dated, LoadPublic
  <2> QED  BY <2>4, <2>5, <2>6 DEF IInv
<1>2. CASE ~ (files.public # None /\ files.public = proc.private)
  <2>1. proc' = Down
    BY <1>2 DEF LoadPublic
  <2>2. TypeOK'
    BY <2>1 DEF IInv, TypeOK, LoadPublic, Down
  <2>3. proc'.pc = "down"
    BY <2>1 DEF Down
  <2>4. Matched' /\ Dated'
    BY <2>3 DEF IInv, Matched, Dated, LoadPublic
  <2> QED  BY <2>2, <2>4 DEF IInv
<1> QED  BY <1>1, <1>2

LEMMA StopStep ==
    ASSUME IInv, Stop
    PROVE  IInv'
<1>1. TypeOK'
  BY DEF IInv, TypeOK, Stop, Down
<1>2. Matched' /\ Dated'
  BY DEF IInv, Matched, Dated, Stop, Down
<1> QED  BY <1>1, <1>2 DEF IInv

LEMMA IssueStep ==
    ASSUME IInv, IssueAccessToken
    PROVE  IInv'
<1> DEFINE token == [key |-> proc.private, expires |-> now + Lifetime]
<1>1. token \in AccessToken
  BY TimesAssumption DEF IInv, TypeOK, Matched, IssueAccessToken, AccessToken
<1>2. token.key = proc.private /\ token.expires = now + Lifetime
  OBVIOUS
<1>3. tokens' = tokens \cup {token} /\ UNCHANGED <<files, proc, doc, now>>
  BY DEF IssueAccessToken
<1> HIDE DEF token
<1>4. TypeOK'
  BY <1>1, <1>3 DEF IInv, TypeOK
<1>5. Matched'
  BY <1>3 DEF IInv, Matched
<1>6. Dated'
  <2>1. now + Lifetime <= now + Lifetime
    BY TimesAssumption DEF IInv, TypeOK
  <2> QED  BY <1>2, <1>3, <2>1 DEF IInv, Dated
<1> QED  BY <1>4, <1>5, <1>6 DEF IInv

LEMMA JWKSStep ==
    ASSUME IInv, NEW v \in Verifiers, JWKS(v)
    PROVE  IInv'
<1> DEFINE new == [key |-> proc.public, until |-> now + MaxAge]
<1>1. new \in Document
  BY TimesAssumption DEF IInv, TypeOK, Matched, JWKS, Document
<1>2. new.key = proc.public /\ new.until = now + MaxAge
  OBVIOUS
<1>3. doc' = [doc EXCEPT ![v] = new] /\ UNCHANGED <<files, proc, tokens, now>>
  BY DEF JWKS
<1> HIDE DEF new
<1>4. TypeOK'
  BY <1>1, <1>3 DEF IInv, TypeOK
<1>5. Matched'
  BY <1>3 DEF IInv, Matched
<1>6. Dated'
  <2>1. now + MaxAge <= now + MaxAge
    BY TimesAssumption DEF IInv, TypeOK
  <2>2. \A w \in Verifiers : doc'[w] = IF w = v THEN new ELSE doc[w]
    BY <1>3 DEF IInv, TypeOK
  <2> QED  BY <1>2, <1>3, <2>1, <2>2 DEF IInv, Dated
<1> QED  BY <1>4, <1>5, <1>6 DEF IInv

LEMMA TickStep ==
    ASSUME IInv, Tick
    PROVE  IInv'
<1>1. /\ now' = now + 1 /\ tokens' \subseteq tokens
      /\ UNCHANGED <<files, proc, doc>>
  BY DEF Tick
<1>2. TypeOK'
  BY <1>1 DEF IInv, TypeOK
<1>3. Matched'
  BY <1>1 DEF IInv, TypeOK, Matched
<1>4. Dated'
  <2>1. \A t \in tokens' : t \in tokens /\ t.expires \in Nat
    BY <1>1 DEF IInv, TypeOK, AccessToken
  <2>2. \A w \in Verifiers : doc[w] # None => doc[w].until \in Nat
    BY DEF IInv, TypeOK, Document
  <2>3. /\ \A t \in tokens' : t.expires <= now' + Lifetime
        /\ \A w \in Verifiers : doc'[w] # None => doc'[w].until <= now' + MaxAge
    BY <1>1, <2>1, <2>2, TimesAssumption DEF IInv, TypeOK, Dated
  <2> QED  BY <1>1, <2>1, <2>3 DEF IInv, Dated
<1> QED  BY <1>2, <1>3, <1>4 DEF IInv

LEMMA StepInv ==
    ASSUME IInv, [Next]_vars
    PROVE  IInv'
<1>1. CASE UNCHANGED vars
  BY <1>1 DEF vars, IInv, TypeOK, Matched, Dated
<1> QED
  BY <1>1, FilesStep, LoadPrivateStep, LoadPublicStep, StopStep, IssueStep, JWKSStep, TickStep
  DEF Next

\* A running process holds one pair, and what other keys signed or published
\* dates from before it.
THEOREM KeysInvariance == Spec => []IInv
BY InitInv, StepInv, PTL DEF Spec

\* After a start with other keys, verifiers that honour Cache-Control
\* (AuthHandler.JWKS) accept the new tokens after MaxAge, and reject nothing
\* once the old tokens have run out.
THEOREM VerifiersCatchUpHolds == Spec => []VerifiersCatchUp
<1>1. IInv => VerifiersCatchUp
  <2> SUFFICES ASSUME IInv, NEW v \in Verifiers, NEW t \in tokens,
                      proc.pc = "up", Fresh(v), now < t.expires,
                      now >= proc.since + MaxAge,
                      t.key = proc.private \/ now >= proc.since + Lifetime
               PROVE  Verifies(v, t) /\ Validate(t)
    BY DEF VerifiersCatchUp
  <2>1. doc[v].until \in Nat /\ t.expires \in Nat /\ proc.since \in Nat /\ now \in Nat
    BY DEF IInv, TypeOK, Document, AccessToken, Fresh
  <2>2. doc[v].key = proc.public
    BY <2>1, TimesAssumption DEF IInv, Dated, Fresh
  <2>3. t.key = proc.private
    BY <2>1, TimesAssumption DEF IInv, Dated
  <2>4. proc.public = proc.private
    BY DEF IInv, Matched
  <2> QED  BY <2>2, <2>3, <2>4 DEF Verifies, Validate
<1> QED  BY <1>1, KeysInvariance, PTL
=============================================================================
