----------------------------- MODULE MCRequests -----------------------------
(***************************************************************************)
(* Instances of Requests for TLC: lengths on both sides of every bound a   *)
(* tag names, every combination of credentials, and one URI of each kind.  *)
(***************************************************************************)
EXTENDS Requests

U(scheme, host, hash) == [parses |-> TRUE, scheme |-> scheme, host |-> host, hash |-> hash]

MCUris ==
    {None, [U("absent", "absent", "absent") EXCEPT !.parses = FALSE], U("https", "public", "absent"),
     U("http", "loopback", "absent"), U("http", "public", "absent"),
     U("https", "public", "empty")}

MCAuthorizeForms ==
    [response_type : {"absent", "code", "token"}, client_id : {0, 255, 256}, redirect_uri : MCUris,
     state : {0, 7, 8, 513}, code_challenge : {0, 42, 43, 129},
     code_challenge_method : {"absent", "S256", "plain"}, access_type : {"absent", "online", "other"}]

MCTokenForms ==
    [parses : {TRUE}, header : {"absent", "malformed", "basic"}, basic_id : {0, 1},
     client_id : {0, 1}, client_secret : {0, 1},
     grant_type : {"absent", "authorization_code", "refresh_token", "other"},
     code : {0, 1}, redirect_uri : {0, 1}, code_verifier : {0, 42, 43, 129},
     refresh_token : {0, 1}]
      \cup
    [parses : {FALSE}, header : {"absent"}, basic_id : {0}, client_id : {0}, client_secret : {0},
     grant_type : {"absent"}, code : {0}, redirect_uri : {0}, code_verifier : {0}, refresh_token : {0}]

MCAuthorizeSamples ==
    {[response_type |-> "code", client_id |-> n, redirect_uri |-> uri, state |-> 8,
      code_challenge |-> 43, code_challenge_method |-> "S256", access_type |-> "absent"] :
        n \in {255}, uri \in {U("https", "public", "absent"), U("http", "loopback", "absent")}}

\* One of each grant, with no more than it needs.
MCTokenSamples ==
    {[parses |-> TRUE, header |-> "absent", basic_id |-> 0, client_id |-> 1, client_secret |-> 0,
      grant_type |-> grant, code |-> IF grant = "authorization_code" THEN 1 ELSE 0,
      redirect_uri |-> IF grant = "authorization_code" THEN 1 ELSE 0,
      code_verifier |-> IF grant = "authorization_code" THEN 43 ELSE 0,
      refresh_token |-> IF grant = "refresh_token" THEN 1 ELSE 0] :
        grant \in {"authorization_code", "refresh_token", "other"}}
=============================================================================
