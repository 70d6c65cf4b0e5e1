---------------------------------- MODULE Cose ----------------------------------
(***************************************************************************)
(* COSE_Sign1 and COSE keys (crypto crate, cose.rs), with the symbolic     *)
(* signatures of Jose.  The protected header is covered by the signature,  *)
(* the unprotected one is not.  A header's x5chain is a sequence of        *)
(* certificates, leaf first; <<>> when it is absent.                       *)
(***************************************************************************)
EXTENDS Jose

\* The labels of the headers this code uses.
NoHeader == [typ |-> NONE, x5chain |-> <<>>]

\* sign: alg comes from the key.
CoseSign(jwk, payload, protected, unprotected) ==
    LET covered == [alg |-> AlgorithmForJwk(jwk), header |-> protected]
    IN  [protected |-> covered, unprotected |-> unprotected, payload |-> payload,
         signature |-> KeySign(jwk, <<covered, payload>>)]

\* sign_detached: the payload is not carried.
CoseSignDetached(jwk, payload) ==
    [CoseSign(jwk, payload, NoHeader, NoHeader) EXCEPT !.payload = NONE]

\* check_algorithm: the declared algorithm is the one of the key.
CheckAlgorithm(sign1, jwk) ==
    /\ AlgorithmForJwk(jwk) # NONE
    /\ sign1.protected.alg = AlgorithmForJwk(jwk)

\* verify and verify_detached.
CoseVerify(sign1, jwk) ==
    /\ CheckAlgorithm(sign1, jwk)
    /\ sign1.payload # NONE
    /\ VerifyWithJwk(jwk, <<sign1.protected, sign1.payload>>, sign1.signature)

CoseVerifyDetached(sign1, payload, jwk) ==
    /\ CheckAlgorithm(sign1, jwk)
    /\ sign1.payload = NONE
    /\ VerifyWithJwk(jwk, <<sign1.protected, payload>>, sign1.signature)

\* cose_key: a COSE_Key has no labels for other keys, and none for the JWK's
\* kid, use and alg.
CoseKey(jwk) ==
    CASE AlgorithmForJwk(jwk) = "ES256" -> [kty |-> 2, crv |-> 1, x |-> jwk.x]
      [] AlgorithmForJwk(jwk) = "EdDSA" -> [kty |-> 1, crv |-> 6, x |-> jwk.x]
      [] OTHER -> NONE

\* jwk_from_cose_key.
JwkFromCoseKey(key) ==
    CASE key.kty = 2 /\ key.crv = 1 -> P256(key.x)
      [] key.kty = 1 /\ key.crv = 6 -> Ed25519(key.x)
      [] OTHER -> NONE

===============================================================================
