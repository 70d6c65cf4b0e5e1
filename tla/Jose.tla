---------------------------------- MODULE Jose ----------------------------------
(***************************************************************************)
(* Keys, JWKs and compact JWS (crypto crate, keys.rs, jwk.rs, jws.rs), with *)
(* symbolic cryptography: a signature is the key that made it and the      *)
(* message it was made over, and a hash is the thing hashed.  A JWK is its *)
(* key type, its curve and its coordinates.                                *)
(***************************************************************************)

CONSTANT NONE           \* Option::None

\* The key pairs' public_jwk.
P256(x) == [kty |-> "EC", crv |-> "P-256", x |-> x]
Ed25519(x) == [kty |-> "OKP", crv |-> "Ed25519", x |-> x]

\* algorithm_for_jwk; NONE when the key type is not supported.
AlgorithmForJwk(jwk) ==
    CASE jwk.kty = "EC" /\ jwk.crv = "P-256" -> "ES256"
      [] jwk.kty = "OKP" /\ jwk.crv = "Ed25519" -> "EdDSA"
      [] OTHER -> NONE

\* KeyPair::sign, by whoever holds the private key of jwk.
KeySign(jwk, message) == [key |-> jwk, over |-> message]

\* verify_with_jwk, which KeyPair::verify agrees with.
VerifyWithJwk(jwk, message, signature) ==
    /\ AlgorithmForJwk(jwk) # NONE
    /\ signature = KeySign(jwk, message)

\* compute_thumbprint: a hash of the key type's required members.
Thumbprint(jwk) ==
    IF jwk.kty \in {"EC", "OKP"} THEN <<"thumbprint", jwk.kty, jwk.crv, jwk.x>>
    ELSE <<"thumbprint", jwk.kty>>

-------------------------------------------------------------------------------
\* build_header, which names the key by its ID, and build_header_with_jwk, which
\* carries the key.
BuildHeader(jwk, typ) ==
    [alg |-> AlgorithmForJwk(jwk), typ |-> typ, kid |-> Thumbprint(jwk), jwk |-> NONE,
     x5c |-> NONE]
BuildHeaderWithJwk(jwk, typ) == [BuildHeader(jwk, typ) EXCEPT !.kid = NONE, !.jwk = jwk]

\* sign_compact: the signature covers header and payload.
SignCompact(jwk, header, payload) ==
    [header |-> header, payload |-> payload, signature |-> KeySign(jwk, <<header, payload>>)]

\* verify_compact: the header's alg is not looked at.
VerifyCompact(jws, jwk) == VerifyWithJwk(jwk, <<jws.header, jws.payload>>, jws.signature)

\* verify_with_public_jwk: alg must be the one of the key.
VerifyWithPublicJwk(jws, jwk) ==
    /\ AlgorithmForJwk(jwk) # NONE
    /\ jws.header.alg = AlgorithmForJwk(jwk)
    /\ VerifyCompact(jws, jwk)

===============================================================================
