--------------------------- MODULE IamRefinement ---------------------------
(***************************************************************************)
(* The service implements the abstract grant: the status of an             *)
(* authorization is read off Redis and the token requests that hold its    *)
(* code.                                                                   *)
(***************************************************************************)
EXTENDS IamService

\* A token request took the code out of Redis and may still mint from it.
Redeeming(c) == \E t \in TokenIds : tok[t].code = c /\ tok[t].pc = "user"

Redeemed(c) == \E t \in TokenIds : tok[t].code = c /\ Minted(t)

Redeemable(c) == codes[c] # None \/ Redeeming(c)

StatusOf(c) ==
    IF c \notin CodesIssued THEN "none"
    ELSE IF Redeemed(c) THEN "granted"
    ELSE IF Redeemable(c) THEN "offered"
    ELSE "void"

OfferOf(c) ==
    IF c \notin CodesIssued THEN None
    ELSE [user |-> authz[c].user, client |-> authz[c].form.client, scope |-> authz[c].form.scope]

Grant == INSTANCE GrantSpec WITH
    Claims <- IamClaims,
    status <- [c \in CodeIds |-> StatusOf(c)],
    offer  <- [c \in CodeIds |-> OfferOf(c)],
    claims <- [t \in TokenIds |-> tok[t].claims]

\* Whatever interleaves, fails or crashes in the service, seen through the
\* mapping each code is offered once, then redeemed by one token request for
\* exactly the claims offered, or void for good.
ImplementsGrant == Grant!GrantSpecification
=============================================================================
