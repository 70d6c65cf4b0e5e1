-------------------------- MODULE MCAuthorizationFlow --------------------------
(***************************************************************************)
(* Small instances of AuthorizationFlow.  Each request set holds one       *)
(* request that is in order and requests that are wrong in one respect.    *)
(***************************************************************************)
EXTENDS AuthorizationFlow, TLC

MCScopeOf == [c \in Configs |-> c]

MCSymmetry ==
    Permutations(Workers) \cup Permutations(Codes) \cup Permutations(Tokens)

Pushed(client, proof_jkt) ==
    [client_id |-> client, attested_client |-> client, request_uri |-> NONE,
     redirect_uri |-> "r1", response_type |-> "code", code_challenge_method |-> "S256",
     code_challenge |-> <<"S256", "v1">>, dpop_jkt |-> NONE, proof_jkt |-> proof_jkt,
     authorization_details |-> NONE, scope |-> {"sdjwt", "other"}]

\* One client pushes with a key, the other without; the rest are refused.
MCParRequests ==
    { Pushed("c1", "k1"),
      [Pushed("c2", NONE) EXCEPT !.authorization_details = {"sdjwt", "mdl"}],
      [Pushed("c2", "k1") EXCEPT !.dpop_jkt = "k2"],
      [Pushed("c1", NONE) EXCEPT !.attested_client = "c2"],
      [Pushed("c1", NONE) EXCEPT !.scope = {"other"}] }

\* The same two, of which only the first is accepted.
MCFewParRequests ==
    { Pushed("c1", "k1"), [Pushed("c2", "k1") EXCEPT !.dpop_jkt = "k2"] }

Presented(client, jkt) ==
    [grant_type |-> "authorization_code", authenticated_client |-> client,
     client_id |-> NONE, redirect_uri |-> "r1", code_verifier |-> "v1",
     dpop_jkt |-> jkt, tx_code |-> NONE]

PreAuthorized(jkt, tx_code) ==
    [Presented(NONE, jkt) EXCEPT !.grant_type = "pre-authorized_code", !.tx_code = tx_code]

MCTokenRequests ==
    { Presented("c1", "k1"), Presented("c1", "k2"),
      Presented("c2", "k2"), Presented("c1", NONE),
      [Presented("c1", "k1") EXCEPT !.code_verifier = "v2"],
      PreAuthorized(NONE, "tx") }

\* One client, one key: what the interleavings need.
MCFewTokenRequests ==
    { Presented("c1", "k1"), Presented("c1", "k2"), PreAuthorized(NONE, NONE) }

MCOffers == { [tx_code |-> "tx", configs |-> {"sdjwt"}] }
MCFewOffers == { [tx_code |-> NONE, configs |-> {"sdjwt"}] }

===============================================================================
