----------------------------- MODULE MCIssuerSystem -----------------------------
(***************************************************************************)
(* One wallet: it pushes a request bound to its DPoP key, is offered a     *)
(* pre-authorized code, and asks for credentials with either token, in the *)
(* way granted and in other ways.                                          *)
(***************************************************************************)
EXTENDS IssuerSystem, IssuerMetadata

J == INSTANCE Jose

MCScopeOf == [c \in Configs |-> ConfigurationsSupported[c].scope]
MCConfigs == SupportedConfigs

MCParRequests ==
    { [client_id |-> "c1", attested_client |-> "c1", request_uri |-> NONE,
       redirect_uri |-> "r1", response_type |-> "code", code_challenge_method |-> "S256",
       code_challenge |-> <<"S256", "v1">>, dpop_jkt |-> NONE, proof_jkt |-> "k1",
       authorization_details |-> {IDENTITY}, scope |-> {}] }

MCTokenRequests ==
    { [grant_type |-> "authorization_code", authenticated_client |-> "c1", client_id |-> NONE,
       redirect_uri |-> "r1", code_verifier |-> "v1", dpop_jkt |-> "k1", tx_code |-> NONE],
      [grant_type |-> "pre-authorized_code", authenticated_client |-> NONE, client_id |-> NONE,
       redirect_uri |-> NONE, code_verifier |-> NONE, dpop_jkt |-> NONE, tx_code |-> NONE] }

MCOffers == { [tx_code |-> NONE, configs |-> {MDL}] }

HolderProof ==
    LET key == J!P256("h1")
    IN  J!SignCompact(key, J!BuildHeaderWithJwk(key, "openid4vci-proof+jwt"),
                       [aud |-> ISSUER_URL, iat |-> 0, nonce |-> "n1"])

Request(token, jkt, identifier, config) ==
    [token |-> token, is_dpop |-> jkt # NONE, jkt |-> jkt, credential_identifier |-> identifier,
     credential_configuration_id |-> config, proofs |-> <<HolderProof>>]

MCCredentialRequests ==
    UNION {{ Request(t, "k1", <<t, IDENTITY>>, NONE), Request(t, "k2", <<t, IDENTITY>>, NONE),
             Request(t, NONE, NONE, IDENTITY), Request(t, NONE, NONE, MDL) } : t \in Tokens}

\* Handlers overlap as long as no offer has been made, and run one at a time on the
\* same worker afterwards.  Neither the start of a handler nor an offer is fair, so
\* no fair step is cut off.
MCOverlapBeforeOffer ==
    pre_auth_codes # EmptyMap =>
        \A w \in Workers : w = (CHOOSE v \in Workers : TRUE) \/ job[w].at = "idle"

===============================================================================
