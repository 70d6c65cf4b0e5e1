----------------------------- MODULE MCReplayCache -----------------------------
(***************************************************************************)
(* Proofs dated now, in the past and as far ahead as the skew allows; the  *)
(* same jti from two clients and as both kinds of proof; and proofs that   *)
(* are sent on: to another endpoint, with another access token,            *)
(* from another server, with another client's attestation or one of an     *)
(* attester that is not trusted.                                           *)
(***************************************************************************)
EXTENDS ReplayCache, TLC

MCSymmetry == Permutations(Workers)

-------------------------------------------------------------------------------
\* DPoP proofs for the token endpoint and, with a token, the credential endpoint.
Url(path) == [base |-> path, query |-> NONE]
TokenCtx == [htm |-> "POST", htu |-> Url("/token"), access_token |-> NONE]
CredentialCtx(token) == [htm |-> "POST", htu |-> Url("/credential"), access_token |-> token]

Dpop(key, ctx, jti, iat) ==
    [kind |-> "dpop", ctx |-> ctx,
     proof |-> SignCompact(key, BuildHeaderWithJwk(key, "dpop+jwt"),
                 [htm |-> ctx.htm, htu |-> [ctx.htu EXCEPT !.query = "q"], iat |-> iat, jti |-> jti,
                  ath |-> IF ctx.access_token = NONE THEN NONE
                          ELSE AccessTokenHash(ctx.access_token)])]

\* A server's name, with or without a slash at its end.
Server(base, slashes) == [base |-> base, slashes |-> slashes]
MCIssuerId == Server("issuer", 0)

\* Attestations by the one attester, and proofs of possession with them.
AttesterKey == P256("attester")
MCAttesters == {[kid |-> Thumbprint(AttesterKey), jwk |-> AttesterKey]}
Key1 == P256("k1")
Key2 == P256("k2")

Pop(client, key, jti, iat, exp) ==
    [kind |-> "pop",
     attestation |-> SignCompact(AttesterKey, BuildHeader(AttesterKey, "oauth-client-attestation+jwt"),
                 [iss |-> "attester", sub |-> client, cnf |-> key, exp |-> exp, nbf |-> 0]),
     pop |-> SignCompact(key, BuildHeaderWithJwk(key, "oauth-client-attestation-pop+jwt"),
                 [iss |-> IF client = "c1" THEN NONE ELSE client, iat |-> iat, jti |-> jti,
                  aud |-> {Server("issuer", IF client = "c1" THEN 1 ELSE 0)},
                  exp |-> NONE, nbf |-> NONE])]

-------------------------------------------------------------------------------
Login == Dpop(Key1, TokenCtx, "j1", 1)
Fetch == Dpop(Key1, CredentialCtx("t1"), "j1", 3)
Pop1 == Pop("c1", Key1, "j1", 1, 1)
Pop2 == Pop("c2", Key2, "j1", 2, 2)
\* The same with an attestation that lacks its exp.
NoExp == Pop("c2", Key2, "j1", 2, NONE)

MCMeant == {Login, Fetch, Pop1, Pop2}

\* Proofs for another server.
DpopForOther == [Login EXCEPT !.proof =
    Dpop(Key1, [htm |-> "POST", htu |-> Url("/other"), access_token |-> NONE], "j2", 1).proof]
ForOther ==
    [Pop1 EXCEPT !.pop = SignCompact(Key1, @.header, [@.payload EXCEPT !.aud = {Server("other", 0)}])]

SentOn ==
    { [Login EXCEPT !.ctx = CredentialCtx("t1")], [Fetch EXCEPT !.ctx = CredentialCtx("t2")],
      [Login EXCEPT !.proof.header.jwk = Key2], DpopForOther,
      [Pop2 EXCEPT !.pop = Pop1.pop], ForOther,
      [Pop2 EXCEPT !.attestation.signature = KeySign(Key2, @.over)] }

MCProofs == MCMeant \cup SentOn \cup {NoExp}

MCOneProof == { Login }

===============================================================================
