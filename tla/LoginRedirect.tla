---------------------------- MODULE LoginRedirect ----------------------------
(***************************************************************************)
(* How a browser gets from /oauth/authorize to the login page and back:    *)
(* AuthHandler.Authorize redirects to the login URL with its own request   *)
(* URI as the next parameter (httpx.RedirectWith), POST /login hands next  *)
(* back through safeNext, and the login page, a single-page application    *)
(* outside this repository, navigates to what it is handed.                *)
(*                                                                         *)
(* One browser; its session may end at any time.  What the services do     *)
(* with a request that has a session is AuthorizeFlow's, here it gets its  *)
(* code.                                                                   *)
(***************************************************************************)
EXTENDS Naturals

CONSTANTS
    Requests,    \* query strings of valid authorize requests
    Silent,      \* those with prompt=none
    MaxLapses,   \* bound on how often the session ends
    None

VARIABLES
    page,      \* where the browser is
    session,   \* its cookie names a live session
    origin,    \* the authorize request it set out with, or None
    lapses

vars == <<page, session, origin, lapses>>

ASSUME SilentAssumption == Silent \subseteq Requests
ASSUME LapsesAssumption == MaxLapses \in Nat

\* A next parameter as safeNext sees it: leading slashes, whether url.Parse
\* takes it and finds a host, its path, and its query.
NextParameter ==
    [slashes : 0..2, parses : BOOLEAN, host : BOOLEAN,
     path : {"/oauth/authorize", "other"}, query : Requests \cup {None}]

ASSUME NoneAssumption == None \notin Requests /\ None \notin NextParameter

\* r.URL.RequestURI() of an authorize request.
RequestURI(r) ==
    [slashes |-> 1, parses |-> TRUE, host |-> FALSE, path |-> "/oauth/authorize", query |-> r]

\* "/".
Root == [slashes |-> 1, parses |-> TRUE, host |-> FALSE, path |-> "other", query |-> None]

\* The next parameters a login page may have been opened with, by a bookmark
\* or a link: without one, well formed or not.
Links == {n \in NextParameter : n.slashes = 2 => n.host} \cup {None}

Page ==
    [at : {"app", "authorize", "login", "code", "login_required", "elsewhere"},
     request : Requests \cup {None}, next : Links]

App == [at |-> "app", request |-> None, next |-> None]
At(place, r) == [at |-> place, request |-> r, next |-> None]

-----------------------------------------------------------------------------

\* Seeded fault: "//host" passes for a path.
safeNextOneSlash(next) == \* seeded fault
    IF next = None \/ next.slashes = 0 \/ ~ next.parses \/ next.path # "/oauth/authorize"
    THEN Root ELSE next

\* Seeded fault: the whole of next is compared with the path.
safeNextWhole(next) == \* seeded fault
    IF next = None \/ next.slashes # 1 \/ ~ next.parses \/ next.host
         \/ next.path # "/oauth/authorize" \/ next.query # None
    THEN Root ELSE next

\* Only a root-relative path to /oauth/authorize, as it came, query included.
safeNext(next) ==
    IF next = None \/ next.slashes # 1 \/ ~ next.parses \/ next.host
         \/ next.path # "/oauth/authorize"
    THEN Root ELSE next

\* Where a browser goes that is told to navigate to a URL; an authorize
\* request without its parameters is refused and shown nothing.
Navigate(url) ==
    IF url.host THEN At("elsewhere", None)
    ELSE IF url.path = "/oauth/authorize" /\ url.query # None THEN At("authorize", url.query)
    ELSE App

-----------------------------------------------------------------------------

\* A client application sends the browser to the front door.
Begin(r) ==
    /\ page.at = "app"
    /\ page' = At("authorize", r) /\ origin' = r
    /\ UNCHANGED <<session, lapses>>

\* The login page is opened by itself.
OpenLogin(next) ==
    /\ page.at = "app"
    /\ page' = [App EXCEPT !.at = "login", !.next = next]
    /\ UNCHANGED <<session, origin, lapses>>

\* Seeded fault of Authorize: next is the path alone.
ToLoginBare(r) == [App EXCEPT !.at = "login", !.next = RequestURI(None)] \* seeded fault

\* RedirectWith(loginURL, "next", r.URL.RequestURI()): encoded there, decoded
\* by the login page.
ToLogin(r) == [App EXCEPT !.at = "login", !.next = RequestURI(r)]

Authorize ==
    /\ page.at = "authorize"
    /\ page' = IF session THEN At("code", page.request)
               ELSE IF page.request \in Silent THEN At("login_required", page.request)
               ELSE ToLogin(page.request)
    /\ UNCHANGED <<session, origin, lapses>>

\* POST /login with the right password; the page follows next.  Setting out
\* for an authorize request named in a link is a new beginning.
Login ==
    /\ page.at = "login"
    /\ session' = TRUE
    /\ page' = Navigate(safeNext(page.next))
    /\ origin' = IF origin = None THEN page'.request ELSE origin
    /\ UNCHANGED lapses

\* Signed out in another window, or expired.
Lapse ==
    /\ session /\ lapses < MaxLapses
    /\ session' = FALSE /\ lapses' = lapses + 1
    /\ UNCHANGED <<page, origin>>

\* The client takes the answer, or the user turns to something else.
Leave ==
    /\ page.at \in {"code", "login_required"}
    /\ page' = App /\ origin' = None
    /\ UNCHANGED <<session, lapses>>

Init == page = App /\ session = FALSE /\ origin = None /\ lapses = 0

Next ==
    \/ \E r \in Requests : Begin(r)
    \/ \E next \in Links : OpenLogin(next)
    \/ Authorize
    \/ Login
    \/ Lapse
    \/ Leave

Spec == Init /\ [][Next]_vars

\* The browser follows redirects, and the user signs in when asked to.
FairSpec == Spec /\ WF_vars(Authorize) /\ WF_vars(Login)

-----------------------------------------------------------------------------
(* Properties *)

TypeOK ==
    /\ page \in Page
    /\ session \in BOOLEAN
    /\ origin \in Requests \cup {None}
    /\ lapses \in 0..MaxLapses

\* "Only a root-relative path to /oauth/authorize is allowed" (safeNext):
\* whatever next it is opened with, the login page never sends the browser to
\* another host.
StaysInside == page.at # "elsewhere"

\* The detour through the login page changes nothing in the request: the code
\* or the error belongs to the request the browser set out with.
AnswersTheOrigin ==
    /\ TypeOK
    /\ page.at \in {"authorize", "code", "login_required"} => page.request = origin

\* The inductive invariant: between the two halves of the detour the request
\* is nowhere but in next, and a browser that set out for none has none.
IInv ==
    /\ AnswersTheOrigin /\ StaysInside
    /\ page.at \in {"authorize", "code", "login_required"} => origin # None
    /\ page.at = "login" /\ origin # None => page.next = RequestURI(origin)
    /\ page.at = "app" => origin = None

\* A browser at the front door comes away with an answer to its request, once
\* its session stops ending under it.
ComesBack ==
    \A r \in Requests :
        page.at = "authorize" /\ page.request = r
          ~> page.at \in {"code", "login_required"} /\ page.request = r
=============================================================================
