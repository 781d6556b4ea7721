--------------------------- MODULE MCIamService ---------------------------
(***************************************************************************)
(* Instances of IamService for TLC.  "spa" is a public client, "web" a     *)
(* confidential one, "ghost" is not registered.                            *)
(***************************************************************************)
EXTENDS IamInvariant, IamRefinement, TLC

MCClientIds == {"spa", "web", "ghost"}
MCUris      == {"https://app", "https://other"}
MCScopes    == {"read", "write"}
MCSecrets   == {"hunter2", "guess"}
MCVerifiers == {"v1", "v2"}

MCClientTable ==
    [id \in MCClientIds |->
        CASE id = "spa"   -> [secret |-> None, uris |-> MCUris, scopes |-> {"read"}]
          [] id = "web"   -> [secret |-> Bcrypt("hunter2"), uris |-> {"https://app"},
                              scopes |-> MCScopes]
          [] id = "ghost" -> None]

-----------------------------------------------------------------------------
\* Authorize requests: a good one per client, and each way of going wrong.

GoodAuthorize(client) ==
    [complete |-> TRUE, client |-> client, uri |-> "https://app", scope |-> {"read"},
     challenge |-> S256("v1"), method |-> "S256", prompt |-> "interactive"]

PublicForms == {GoodAuthorize("spa")}

AllAuthorizeForms ==
    LET good == GoodAuthorize("web") IN
    { good,
      GoodAuthorize("spa"),
      GoodAuthorize("ghost"),
      [good EXCEPT !.complete = FALSE],
      [good EXCEPT !.method = "plain"],
      [good EXCEPT !.uri = "https://other"],
      [good EXCEPT !.scope = {}],
      [good EXCEPT !.scope = MCScopes],
      [good EXCEPT !.uri = "https://other", !.scope = {}],
      [GoodAuthorize("spa") EXCEPT !.scope = MCScopes],
      [good EXCEPT !.prompt = "none"],
      [good EXCEPT !.prompt = "none_and_more"],
      [good EXCEPT !.challenge = S256("v2")] }

-----------------------------------------------------------------------------
\* Token requests: the right one per client, and each way of going wrong.

PublicToken ==
    [header |-> "absent", body |-> {"client_id"}, client |-> "spa", secret |-> None,
     grant |-> "authorization_code", complete |-> TRUE, uri |-> "https://app",
     verifier |-> "v1"]

ConfidentialToken ==
    [PublicToken EXCEPT !.header = "basic", !.body = {}, !.client = "web",
                        !.secret = "hunter2"]

PublicTokenForms == {PublicToken}
RaceTokenForms == {PublicToken, [PublicToken EXCEPT !.verifier = "v2"]}

AllTokenForms ==
    { PublicToken,
      ConfidentialToken,
      [PublicToken EXCEPT !.client = "ghost"],
      [PublicToken EXCEPT !.uri = "https://other"],
      [PublicToken EXCEPT !.verifier = "v2"],
      [PublicToken EXCEPT !.complete = FALSE],
      [PublicToken EXCEPT !.grant = "refresh_token"],
      [PublicToken EXCEPT !.grant = "other"],
      [PublicToken EXCEPT !.body = {}],
      [PublicToken EXCEPT !.body = {"client_id", "client_secret"}, !.secret = "guess"],
      [ConfidentialToken EXCEPT !.secret = "guess"],
      [ConfidentialToken EXCEPT !.uri = "https://other"],
      [ConfidentialToken EXCEPT !.verifier = "v2"],
      [ConfidentialToken EXCEPT !.body = {"client_id"}],
      [ConfidentialToken EXCEPT !.header = "malformed"],
      [ConfidentialToken EXCEPT !.header = "absent", !.body = {"client_id"}],
      [ConfidentialToken EXCEPT !.header = "absent",
                                !.body = {"client_id", "client_secret"}] }

-----------------------------------------------------------------------------
\* Users, logins, codes and tokens are told apart, never ordered or chosen
\* from: two states that differ in their names only behave alike.
Interchangeable ==
    Permutations(Users) \cup Permutations(SessionIds)
        \cup Permutations(CodeIds) \cup Permutations(TokenIds)
=============================================================================
