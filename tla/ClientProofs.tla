------------------------------ MODULE ClientProofs ------------------------------
(***************************************************************************)
(* What clients sign to authenticate (issuer crate, dpop.rs and            *)
(* client_attestation.rs), as far as it does not depend on the clock or on *)
(* what was seen before: DPoP proofs, and client attestations with their   *)
(* proof of possession.  JWKs have no private part here.                   *)
(***************************************************************************)
EXTENDS Jose

DPOP_SIGNING_ALGS == {"ES256", "EdDSA"}
ATTESTATION_SIGNING_ALGS == {"ES256"}

\* normalize_htu: a URL is what parsing it yields (base) and its query.
NormalizeHtu(url) == url.base

\* same_issuer: a server's name is what trimming its end yields (base) and the
\* number of slashes trimmed.
SameIssuer(a, b) == a.base = b.base

\* aud is one name or a list of names.
AddressedTo(pop, audience) == \E aud \in pop.payload.aud : SameIssuer(aud, audience)

\* The ath claim.
AccessTokenHash(token) == <<"sha-256", token>>

\* verify_dpop_proof, without iat and jti: a proof by the key it carries, for this
\* method and URL, and for the access token when there is one.
DpopProofVerified(proof, ctx) ==
    /\ proof.header.typ = "dpop+jwt"
    /\ proof.header.alg \in DPOP_SIGNING_ALGS
    /\ proof.header.jwk # NONE
    /\ VerifyWithPublicJwk(proof, proof.header.jwk)
    /\ proof.payload.htm = ctx.htm
    /\ NormalizeHtu(proof.payload.htu) = NormalizeHtu(ctx.htu)
    /\ ctx.access_token # NONE => proof.payload.ath = AccessTokenHash(ctx.access_token)

\* Signed by an attester the issuer trusts; a key is tried unless both it and the
\* attestation have a kid and they differ.
SignedByTrusted(attestation, attesters) ==
    \E a \in attesters :
        /\ attestation.header.kid = NONE \/ a.kid \in {NONE, attestation.header.kid}
        /\ VerifyWithPublicJwk(attestation, a.jwk)

\* Mutant of PopVerified: the proof is checked with the key it carries.
PopSelfSigned(pop, client_id, instance_key, audience) ==
    /\ VerifyWithPublicJwk(pop, pop.header.jwk)
    /\ pop.header.typ = "oauth-client-attestation-pop+jwt"
    /\ pop.payload.iss \in {NONE, client_id}
    /\ AddressedTo(pop, audience)

\* The proof of possession is signed by the attested instance key, for this
\* server.
PopVerified(pop, client_id, instance_key, audience) ==
    /\ VerifyWithPublicJwk(pop, instance_key)
    /\ pop.header.typ = "oauth-client-attestation-pop+jwt"
    /\ pop.payload.iss \in {NONE, client_id}
    /\ AddressedTo(pop, audience)

\* verify_client_attestation, without the times and the jti.
AttestationVerified(attestation, pop, attesters, audience) ==
    LET claims == attestation.payload
    IN  /\ attestation.header.typ = "oauth-client-attestation+jwt"
        /\ attestation.header.alg \in ATTESTATION_SIGNING_ALGS
        /\ SignedByTrusted(attestation, attesters)
        /\ NONE \notin {claims.iss, claims.sub, claims.cnf}
        /\ PopVerified(pop, claims.sub, claims.cnf, audience)

===============================================================================
