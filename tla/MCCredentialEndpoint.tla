-------------------------- MODULE MCCredentialEndpoint --------------------------
(***************************************************************************)
(* Two tokens: one bound to a key and granted by scope, one bearer token   *)
(* granted by authorization_details.  Requests in order and wrong in one   *)
(* respect: another DPoP key, a configuration not granted, a batch over    *)
(* two nonces, and proofs that do not hold: a key the sender does not      *)
(* have, another issuer's proof, an algorithm that is not advertised.      *)
(***************************************************************************)
EXTENDS CredentialEndpoint, TLC

MCGrants ==
    "t1" :> [configs |-> {IDENTITY}, by_identifier |-> FALSE, dpop_jkt |-> "k1"]
    @@ "t2" :> [configs |-> {MDL}, by_identifier |-> TRUE, dpop_jkt |-> NONE]

H1 == P256("h1")
H2 == Ed25519("h2")

\* A proof JWT as a wallet makes it, at time 0.
ProofFor(key, nonce, aud) ==
    SignCompact(key, BuildHeaderWithJwk(key, "openid4vci-proof+jwt"),
                [aud |-> aud, iat |-> 0, nonce |-> nonce])
Proof(key, nonce) == ProofFor(key, nonce, ISSUER_URL)

\* One whose sender put in a key that is not its own.
Claimed(key, by, nonce) ==
    [Proof(key, nonce) EXCEPT !.signature = KeySign(by, <<@.over[1], @.over[2]>>)]

Identity(proofs) ==
    [token |-> "t1", is_dpop |-> TRUE, jkt |-> "k1", credential_identifier |-> NONE,
     credential_configuration_id |-> IDENTITY, proofs |-> proofs]
Licence(proofs) ==
    [token |-> "t2", is_dpop |-> FALSE, jkt |-> NONE, credential_identifier |-> <<"t2", MDL>>,
     credential_configuration_id |-> NONE, proofs |-> proofs]

MCRequests ==
    { Identity(<<Proof(H1, "n1"), Proof(H2, "n1")>>),
      Identity(<<Proof(H1, "n1"), Proof(H2, "n2")>>),
      Identity(<<Proof(H2, "n1"), Claimed(H1, H2, "n1")>>),
      Identity(<<Proof(H1, "n2")>>),
      Identity(<<ProofFor(H1, "n2", "other issuer")>>),
      Licence(<<Proof(H1, "n1")>>),
      Licence(<<Proof(H2, "n1")>>),
      [Identity(<<Proof(H1, "n2")>>) EXCEPT !.jkt = "k2"],
      [Identity(<<Proof(H1, "n2")>>) EXCEPT !.credential_configuration_id = MDL],
      [Licence(<<Proof(H1, "n2")>>) EXCEPT !.credential_identifier = NONE,
                                           !.credential_configuration_id = MDL] }

===============================================================================
