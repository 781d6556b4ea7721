------------------------------ MODULE MCClient ------------------------------
(***************************************************************************)
(* Instances of ClientFlow for TLC: a body of each kind that the checks    *)
(* tell apart, public and confidential.                                    *)
(***************************************************************************)
EXTENDS ClientFlow

MCGrantLists ==
    {<<"authorization_code">>,
     <<"authorization_code", "refresh_token">>,
     <<"client_credentials", "other">>,
     <<"other", "client_credentials">>,
     <<"authorization_code", "client_credentials">>}

Full(grants, public) ==
    [named |-> TRUE, redirect_uris |-> 1, grant_types |-> grants, is_public |-> public]

MCBodies ==
    {Full(grants, public) : grants \in MCGrantLists, public \in BOOLEAN}
      \cup {[Full(<<"authorization_code">>, TRUE) EXCEPT !.named = FALSE],
            [Full(<<"authorization_code">>, TRUE) EXCEPT !.redirect_uris = 0],
            Full(<<>>, FALSE)}

\* oauth.SupportedGrantTypes
MCSupported == {"authorization_code", "refresh_token"}
=============================================================================
