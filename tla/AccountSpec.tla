---------------------------- MODULE AccountSpec ----------------------------
(***************************************************************************)
(* What the user accounts promise, without requests, races or stores: an   *)
(* address belongs to one open account at a time, an account is opened     *)
(* once and closed for good, and tokens are minted for open accounts only, *)
(* under the address they were opened with.                                *)
(***************************************************************************)
CONSTANTS Ids, Emails

VARIABLES
    open,      \* the accounts there are: [id, email]
    spent,     \* ids that can never be opened again
    minted     \* accounts in whose name a token was minted

accountVars == <<open, spent, minted>>

Account == [id : Ids, email : Emails]

AccountInit == open = {} /\ spent = {} /\ minted = {}

Open(account) ==
    /\ account.id \notin spent
    /\ \A other \in open : other.email # account.email
    /\ open' = open \cup {account}
    /\ spent' = spent \cup {account.id}
    /\ UNCHANGED minted

\* Registrations that end without an account.
Forgo(ids) ==
    /\ spent' = spent \cup ids
    /\ UNCHANGED <<open, minted>>

Close(account) ==
    /\ open' = open \ {account}
    /\ UNCHANGED <<spent, minted>>

Mint(account) ==
    /\ account \in open
    /\ minted' = minted \cup {account}
    /\ UNCHANGED <<open, spent>>

AccountNext ==
    \/ \E account \in Account : Open(account) \/ Close(account) \/ Mint(account)
    \/ \E ids \in SUBSET Ids : Forgo(ids)

AccountSpecification == AccountInit /\ [][AccountNext]_accountVars

\* What that amounts to in every state: an address belongs to one open account,
\* and an id stands for the same account wherever it turns up, among the open
\* ones or in a token, even after the account was closed.
AccountsSound ==
    /\ \A a, b \in open : a.email = b.email => a = b
    /\ \A a, b \in open \cup minted : a.id = b.id => a = b
    /\ \A a \in open \cup minted : a.id \in spent
=============================================================================
