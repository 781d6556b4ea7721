----------------------------- MODULE GrantSpec -----------------------------
(***************************************************************************)
(* What the authorization code grant promises, without requests, stores or *)
(* failures: an authorization is offered under a code, and then either     *)
(* redeemed by one token request, for exactly what was offered, or void.   *)
(* Both are final.                                                         *)
(***************************************************************************)
CONSTANTS CodeIds, TokenIds, Claims, None

VARIABLES
    status,   \* CodeIds -> how far the authorization under this code has come
    offer,    \* CodeIds -> the claims it authorizes
    claims    \* TokenIds -> the claims this token request obtained, or None

grants == <<status, offer, claims>>

GrantInit ==
    /\ status = [c \in CodeIds |-> "none"]
    /\ offer = [c \in CodeIds |-> None]
    /\ claims = [t \in TokenIds |-> None]

Offer(c) ==
    /\ status[c] = "none"
    /\ status' = [status EXCEPT ![c] = "offered"]
    /\ \E authorized \in Claims : offer' = [offer EXCEPT ![c] = authorized]
    /\ UNCHANGED claims

Redeem(c, t) ==
    /\ status[c] = "offered"
    /\ claims[t] = None
    /\ status' = [status EXCEPT ![c] = "granted"]
    /\ claims' = [claims EXCEPT ![t] = offer[c]]
    /\ UNCHANGED offer

\* A code lapses, is spent on a request that fails, or several are at once
\* when the process dies.
Void(spent) ==
    /\ \A c \in spent : status[c] = "offered"
    /\ status' = [c \in CodeIds |-> IF c \in spent THEN "void" ELSE status[c]]
    /\ UNCHANGED <<offer, claims>>

GrantNext ==
    \/ \E c \in CodeIds : Offer(c)
    \/ \E c \in CodeIds, t \in TokenIds : Redeem(c, t)
    \/ \E spent \in SUBSET CodeIds : Void(spent)

GrantSpecification == GrantInit /\ [][GrantNext]_grants

Holders == {t \in TokenIds : claims[t] # None}

\* What that amounts to in every state: the token requests that obtained claims
\* have each a granted code of their own, which offered just these.
OneCodeEach ==
    \E code \in [Holders -> {c \in CodeIds : status[c] = "granted"}] :
        /\ \A t \in Holders : claims[t] = offer[code[t]]
        /\ \A s, t \in Holders : code[s] = code[t] => s = t
=============================================================================
