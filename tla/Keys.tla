-------------------------------- MODULE Keys --------------------------------
(***************************************************************************)
(* The signing keys: two PEM files (loadRSAKeys), the process that loads   *)
(* them once when it starts, the access tokens it signs                    *)
(* (TokenService.IssueAccessToken), the key set it publishes (JWKS), and   *)
(* the verifiers that keep that key set for as long as its Cache-Control   *)
(* header lets them and judge tokens by it alone.                          *)
(*                                                                         *)
(* Nothing rotates keys: an operator writes other files, one after the     *)
(* other, and restarts the process.  Time is counted in ticks of five      *)
(* minutes when Lifetime is 3 and MaxAge 1.                                *)
(***************************************************************************)
EXTENDS Integers

CONSTANTS
    KeyIds,      \* RSA key pairs
    Verifiers,   \* gateways and resource servers, external
    Lifetime,    \* of an access token
    MaxAge,      \* of the key set in a cache
    MaxTime,     \* bound on the clock, for TLC
    None

VARIABLES
    files,    \* what is in the two PEM files
    proc,     \* the process and the pair it holds
    tokens,   \* access tokens at large that have not expired
    doc,      \* Verifiers -> the key set kept, or None
    now

vars == <<files, proc, tokens, doc, now>>

AccessToken == [key : KeyIds, expires : Nat]
Document == [key : KeyIds, until : Nat]

ASSUME TimesAssumption == Lifetime \in Nat /\ MaxAge \in Nat /\ MaxTime \in Nat
ASSUME NoneAssumption == None \notin KeyIds /\ None \notin Document

-----------------------------------------------------------------------------
(* Files and process *)

\* The operator, external.  None is a file that is missing, or whose content
\* is no PEM block, no RSA key or not the right half.
WritePrivate(key) ==
    /\ files' = [files EXCEPT !.private = key]
    /\ UNCHANGED <<proc, tokens, doc, now>>

WritePublic(key) ==
    /\ files' = [files EXCEPT !.public = key]
    /\ UNCHANGED <<proc, tokens, doc, now>>

Down == [pc |-> "down", private |-> None, public |-> None, since |-> 0]

\* loadRSAKeys reads the private file first ...
LoadPrivate ==
    /\ proc.pc = "down"
    /\ files.private # None
    /\ proc' = [proc EXCEPT !.pc = "loading", !.private = files.private]
    /\ UNCHANGED <<files, tokens, doc, now>>

\* Seeded fault of loadRSAKeys: the two halves are not compared.
LoadAnyPublic == \* seeded fault
    /\ proc.pc = "loading"
    /\ proc' = IF files.public # None
               THEN [proc EXCEPT !.pc = "up", !.public = files.public, !.since = now]
               ELSE Down
    /\ UNCHANGED <<files, tokens, doc, now>>

\* ... then the public one, and refuses a pair that does not match.
LoadPublic ==
    /\ proc.pc = "loading"
    /\ proc' = IF files.public # None /\ files.public = proc.private
               THEN [proc EXCEPT !.pc = "up", !.public = files.public, !.since = now]
               ELSE Down
    /\ UNCHANGED <<files, tokens, doc, now>>

\* Stopped or crashed; what was signed stays signed.
Stop ==
    /\ proc.pc # "down"
    /\ proc' = Down
    /\ UNCHANGED <<files, tokens, doc, now>>

-----------------------------------------------------------------------------
(* Tokens and the key set *)

IssueAccessToken ==
    /\ proc.pc = "up"
    /\ tokens' = tokens \cup {[key |-> proc.private, expires |-> now + Lifetime]}
    /\ UNCHANGED <<files, proc, doc, now>>

Fresh(v) == doc[v] # None /\ now < doc[v].until

\* Seeded fault of JWKS: the key set may be kept as long as a token lasts.
JWKSKept(v) == \* seeded fault
    /\ proc.pc = "up" /\ ~ Fresh(v)
    /\ doc' = [doc EXCEPT ![v] = [key |-> proc.public, until |-> now + Lifetime]]
    /\ UNCHANGED <<files, proc, tokens, now>>

\* GET /.well-known/jwks.json: a verifier asks when it has nothing fresh.
JWKS(v) ==
    /\ proc.pc = "up" /\ ~ Fresh(v)
    /\ doc' = [doc EXCEPT ![v] = [key |-> proc.public, until |-> now + MaxAge]]
    /\ UNCHANGED <<files, proc, tokens, now>>

\* A tick; tokens that expire are of no more interest.
Tick ==
    /\ now < MaxTime
    /\ now' = now + 1
    /\ tokens' = {t \in tokens : now' < t.expires}
    /\ UNCHANGED <<files, proc, doc>>

\* TokenService.Validate, and what a verifier does with the key set it has.
Validate(t) == t.key = proc.public /\ now < t.expires
Verifies(v, t) == t.key = doc[v].key /\ now < t.expires

Init ==
    /\ files \in [private : KeyIds \cup {None}, public : KeyIds \cup {None}]
    /\ proc = Down
    /\ tokens = {}
    /\ doc = [v \in Verifiers |-> None]
    /\ now = 0

Next ==
    \/ \E key \in KeyIds \cup {None} : WritePrivate(key) \/ WritePublic(key)
    \/ LoadPrivate
    \/ LoadPublic
    \/ Stop
    \/ IssueAccessToken
    \/ \E v \in Verifiers : JWKS(v)
    \/ Tick

Spec == Init /\ [][Next]_vars

-----------------------------------------------------------------------------
(* Properties *)

TypeOK ==
    /\ files \in [private : KeyIds \cup {None}, public : KeyIds \cup {None}]
    /\ proc \in [pc : {"down", "loading", "up"}, private : KeyIds \cup {None},
                 public : KeyIds \cup {None}, since : Nat]
    /\ tokens \subseteq AccessToken
    /\ doc \in [Verifiers -> Document \cup {None}]
    /\ now \in Nat

\* The process that serves holds the two halves of one pair, whatever was
\* written to the files before, between or after its two reads.
Matched ==
    /\ proc.pc = "loading" => proc.private \in KeyIds
    /\ proc.pc = "up" => proc.private \in KeyIds /\ proc.public = proc.private /\ proc.since <= now

\* What is at large of other keys than the running one is older than the
\* process: nothing outlives its time, nothing younger has another key.
Dated ==
    /\ \A t \in tokens : t.expires <= now + Lifetime
    /\ \A v \in Verifiers : doc[v] # None => doc[v].until <= now + MaxAge
    /\ proc.pc = "up" =>
        /\ \A t \in tokens : t.key = proc.private \/ t.expires <= proc.since + Lifetime
        /\ \A v \in Verifiers :
             doc[v] # None => doc[v].key = proc.public \/ doc[v].until <= proc.since + MaxAge

IInv == TypeOK /\ Matched /\ Dated

\* "This is what lets a gateway or resource API verify access-token
\* signatures locally" (TokenService.JWKS): once the process has run for
\* MaxAge no fresh key set rejects a token it signed, and once it has run for
\* Lifetime as well no fresh key set rejects any token, even if it was started
\* with other keys than the process before it.
VerifiersCatchUp ==
    \A v \in Verifiers : \A t \in tokens :
        /\ proc.pc = "up" /\ Fresh(v) /\ now < t.expires
        /\ now >= proc.since + MaxAge
        /\ t.key = proc.private \/ now >= proc.since + Lifetime
        => Verifies(v, t) /\ Validate(t)
=============================================================================
