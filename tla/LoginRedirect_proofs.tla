------------------------ MODULE LoginRedirect_proofs ------------------------
(***************************************************************************)
(* Theorems about LoginRedirect, for every set of authorize requests,      *)
(* silent or not, and however often the session ends.                      *)
(***************************************************************************)
EXTENDS LoginRedirect, TLAPS

-----------------------------------------------------------------------------
(* safeNext, and where it lets the browser go *)

\* Whatever the login page was opened with, POST /login sends the browser to
\* the root page or to an authorize request, never to a host.
LEMMA SafeNextStays ==
    ASSUME NEW next \in Links
    PROVE  \/ Navigate(safeNext(next)) = App
           \/ \E r \in Requests : Navigate(safeNext(next)) = At("authorize", r)
<1>1. CASE safeNext(next) = Root
  BY <1>1 DEF Navigate, Root
<1>2. CASE safeNext(next) # Root
  <2>1. /\ next \in NextParameter
        /\ safeNext(next) = next
        /\ next.host = FALSE
        /\ next.path = "/oauth/authorize"
    BY <1>2 DEF safeNext, Links, NextParameter
  <2>2. next.query \in Requests \cup {None}
    BY <2>1 DEF NextParameter
  <2> QED
    BY <2>1, <2>2 DEF Navigate
<1> QED
  BY <1>1, <1>2

\* An authorize request comes out of its detour as it went in.
LEMMA SafeNextKeeps ==
    ASSUME NEW r \in Requests
    PROVE  /\ RequestURI(r) \in Links
           /\ Navigate(safeNext(RequestURI(r))) = At("authorize", r)
<1>1. RequestURI(r) \in NextParameter
  BY DEF RequestURI, NextParameter
<1>2. RequestURI(r) # None /\ r # None
  BY <1>1, NoneAssumption
<1>3. RequestURI(r) \in Links
  BY <1>1 DEF Links, RequestURI
<1>4. safeNext(RequestURI(r)) = RequestURI(r)
  BY <1>2 DEF safeNext, RequestURI
<1>5. Navigate(RequestURI(r)) = At("authorize", r)
  BY <1>2 DEF Navigate, RequestURI
<1> QED
  BY <1>3, <1>4, <1>5

LEMMA PageForms ==
    /\ App \in Page
    /\ \A place \in {"authorize", "code", "login_required"}, r \in Requests : At(place, r) \in Page
    /\ \A next \in Links : [App EXCEPT !.at = "login", !.next = next] \in Page
BY DEF App, At, Page, Links

-----------------------------------------------------------------------------
(* The steps of the browser *)

\* A browser that is handed to an authorize request it set out for.
LEMMA AtAuthorize ==
    ASSUME NEW r \in Requests, page' = At("authorize", r), origin' = r,
           session' \in BOOLEAN, lapses' \in 0..MaxLapses
    PROVE  IInv'
<1>1. TypeOK'
  BY PageForms DEF TypeOK
<1>2. page'.at = "authorize" /\ page'.request = r
  BY DEF At
<1> QED
  BY <1>1, <1>2, NoneAssumption DEF IInv, AnswersTheOrigin, StaysInside

\* A browser that belongs to no request.
LEMMA AtApp ==
    ASSUME page' = App, origin' = None, session' \in BOOLEAN, lapses' \in 0..MaxLapses
    PROVE  IInv'
<1>1. TypeOK'
  BY PageForms DEF TypeOK
<1>2. page'.at = "app"
  BY DEF App
<1> QED
  BY <1>1, <1>2 DEF IInv, AnswersTheOrigin, StaysInside

LEMMA InitIInv == Init => IInv
<1> SUFFICES ASSUME Init PROVE IInv
  OBVIOUS
<1>1. page = App /\ page.at = "app" /\ origin = None
  BY DEF Init, App
<1>2. lapses \in 0..MaxLapses
  BY LapsesAssumption DEF Init
<1>3. session \in BOOLEAN
  BY Zenon DEF Init
<1>4. TypeOK
  BY <1>1, <1>2, <1>3, PageForms DEF TypeOK
<1> QED
  BY <1>1, <1>4 DEF IInv, AnswersTheOrigin, StaysInside

LEMMA BeginIInv ==
    ASSUME IInv, NEW r \in Requests, Begin(r)
    PROVE  IInv'
BY AtAuthorize DEF Begin, IInv, AnswersTheOrigin, TypeOK

LEMMA OpenLoginIInv ==
    ASSUME IInv, NEW next \in Links, OpenLogin(next)
    PROVE  IInv'
<1>1. origin' = None
  BY DEF OpenLogin, IInv
<1>2. TypeOK'
  BY PageForms, <1>1 DEF OpenLogin, IInv, AnswersTheOrigin, TypeOK
<1>3. page'.at = "login"
  BY DEF OpenLogin, App
<1> QED
  BY <1>1, <1>2, <1>3 DEF IInv, AnswersTheOrigin, StaysInside

\* With a session, silent, or by way of the login page, which is handed the
\* request of the browser and no other.
LEMMA AuthorizeIInv ==
    ASSUME IInv, Authorize
    PROVE  IInv'
<1>1. /\ page.at = "authorize" /\ page.request = origin /\ origin \in Requests
      /\ UNCHANGED <<session, origin, lapses>>
      /\ session \in BOOLEAN /\ lapses \in 0..MaxLapses
  BY DEF Authorize, IInv, AnswersTheOrigin, TypeOK
<1>2. CASE page' = ToLogin(origin)
  <2>1. page'.at = "login" /\ page'.next = RequestURI(origin)
    BY <1>2 DEF ToLogin, App
  <2>2. TypeOK'
    BY <1>1, <1>2, PageForms, SafeNextKeeps DEF ToLogin, TypeOK
  <2> QED
    BY <1>1, <2>1, <2>2 DEF IInv, AnswersTheOrigin, StaysInside
<1>3. ASSUME NEW place \in {"code", "login_required"}, page' = At(place, origin)
      PROVE  IInv'
  <2>1. page'.at = place /\ page'.request = origin
    BY <1>3 DEF At
  <2>2. TypeOK'
    BY <1>1, <1>3, PageForms DEF TypeOK
  <2> QED
    BY <1>1, <2>1, <2>2, NoneAssumption DEF IInv, AnswersTheOrigin, StaysInside
<1> QED
  BY <1>1, <1>2, <1>3 DEF Authorize

LEMMA LoginIInv ==
    ASSUME IInv, Login
    PROVE  IInv'
<1>1. /\ page.at = "login" /\ page.next \in Links
      /\ session' \in BOOLEAN /\ lapses' \in 0..MaxLapses
      /\ page' = Navigate(safeNext(page.next))
  BY DEF Login, IInv, AnswersTheOrigin, TypeOK, Page
<1>2. CASE origin = None
  <2>1. origin' = page'.request
    BY <1>2 DEF Login
  <2>2. CASE page' = App
    <3>1. origin' = None
      BY <2>1, <2>2 DEF App
    <3> QED
      BY <1>1, <2>2, <3>1, AtApp
  <2>3. ASSUME NEW r \in Requests, page' = At("authorize", r)
        PROVE  IInv'
    <3>1. origin' = r
      BY <2>1, <2>3 DEF At
    <3> QED
      BY <1>1, <2>3, <3>1, AtAuthorize
  <2> QED
    BY <1>1, <2>2, <2>3, SafeNextStays
<1>3. CASE origin # None
  <2>1. origin' = origin /\ origin \in Requests /\ page.next = RequestURI(origin)
    BY <1>1, <1>3 DEF Login, IInv, AnswersTheOrigin, TypeOK
  <2>2. page' = At("authorize", origin)
    BY <1>1, <2>1, SafeNextKeeps
  <2> QED
    BY <1>1, <2>1, <2>2, AtAuthorize
<1> QED
  BY <1>2, <1>3

LEMMA LapseIInv ==
    ASSUME IInv, Lapse
    PROVE  IInv'
<1>1. lapses' \in 0..MaxLapses
  BY LapsesAssumption DEF Lapse, IInv, AnswersTheOrigin, TypeOK
<1>2. session' \in BOOLEAN /\ UNCHANGED <<page, origin>>
  BY DEF Lapse
<1>3. TypeOK'
  BY <1>1, <1>2 DEF IInv, AnswersTheOrigin, TypeOK
<1> QED
  BY <1>2, <1>3 DEF Lapse, IInv, AnswersTheOrigin, StaysInside

LEMMA LeaveIInv ==
    ASSUME IInv, Leave
    PROVE  IInv'
BY AtApp DEF Leave, IInv, AnswersTheOrigin, TypeOK

LEMMA NextIInv ==
    ASSUME IInv, [Next]_vars
    PROVE  IInv'
<1>1. CASE UNCHANGED vars
  BY <1>1 DEF vars, IInv, AnswersTheOrigin, StaysInside, TypeOK
<1> QED
  BY <1>1, BeginIInv, OpenLoginIInv, AuthorizeIInv, LoginIInv, LapseIInv, LeaveIInv DEF Next

-----------------------------------------------------------------------------

\* The inductive invariant holds in every reachable state.
THEOREM DetourInvariance == Spec => []IInv
<1>1. Init => IInv
  BY InitIInv
<1>2. IInv /\ [Next]_vars => IInv'
  BY NextIInv
<1> QED
  BY <1>1, <1>2, PTL DEF Spec

\* No next parameter, however the login page is opened and whatever the
\* browser did before, makes the service send the browser to another host.
THEOREM StaysInsideHolds == Spec => []StaysInside
<1>1. IInv => StaysInside
  BY DEF IInv
<1> QED
  BY <1>1, DetourInvariance, PTL

\* The code, or the error of prompt=none, that ends the detour belongs to the
\* authorize request the browser set out with.
THEOREM AnswersTheOriginHolds == Spec => []AnswersTheOrigin
<1>1. IInv => AnswersTheOrigin
  BY DEF IInv
<1> QED
  BY <1>1, DetourInvariance, PTL
=============================================================================
