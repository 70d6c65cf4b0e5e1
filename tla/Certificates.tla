------------------------------ MODULE Certificates ------------------------------
(***************************************************************************)
(* X.509 certificates as this code mints and checks them (crypto crate,    *)
(* x509.rs): the to-be-signed part and a symbolic signature over it.       *)
(* Extensions nothing in the repository checks are left out.               *)
(***************************************************************************)
EXTENDS Cose, Integers, Sequences

CONSTANTS
    DAY,                        \* ticks of the clock in a day
    LEAF_DAYS, ROOT_DAYS        \* validity of minted certificates

ASSUME CertificateAssumption ==
    DAY \in Nat \ {0} /\ LEAF_DAYS \in Nat /\ ROOT_DAYS \in Nat

Certificate(tbs, signing_key) == [tbs |-> tbs, signature |-> KeySign(signing_key, tbs)]

\* The names in minted certificates: every root has the same one.
IACA == "oid4vc-rs Development IACA"
COUNTRY == "ZZ"

\* Mutant of NotBefore: certificates start when they are minted.
NotBeforeNow(at) == at

\* Minted certificates are valid from a day before.
NotBefore(at) == at - DAY

\* IssuerPki::mint_development: a new root and, under it, the certificates for the
\* issuer's key.  The root's private key is thrown away.
MintDevelopment(key, root_key, at) ==
    LET root == [subject |-> IACA, issuer |-> IACA, jwk |-> root_key, ca |-> TRUE,
                 country |-> COUNTRY, not_before |-> NotBefore(at),
                 not_after |-> at + ROOT_DAYS * DAY]
        Leaf(name, country) ==
            Certificate([subject |-> name, issuer |-> IACA, jwk |-> key, ca |-> FALSE,
                         country |-> country, not_before |-> NotBefore(at),
                         not_after |-> at + LEAF_DAYS * DAY], root_key)
    IN  [trust_anchor |-> Certificate(root, root_key),
         leaf |-> Leaf("host", NONE),
         mdoc_signer |-> Leaf("oid4vc-rs Development Document Signer", COUNTRY),
         mdoc_status_signer |-> Leaf("oid4vc-rs Development Status List Signer", COUNTRY)]

-------------------------------------------------------------------------------
\* check_validity: both ends belong to the period.
CheckValidity(cert, at) == cert.tbs.not_before <= at /\ at <= cert.tbs.not_after

\* verify_issued_by: names link, and the signature is P-256 with SHA-256.
VerifyIssuedBy(cert, issuer) ==
    /\ cert.tbs.issuer = issuer.tbs.subject
    /\ AlgorithmForJwk(issuer.tbs.jwk) = "ES256"
    /\ VerifyWithJwk(issuer.tbs.jwk, cert.tbs, cert.signature)

\* validate_chain: the leaf's key, or NONE when the chain is not trusted.  A chain
\* may end in a trust anchor, or in a certificate one issued; a trust anchor that
\* is not in the chain must be valid itself, but need not be a CA.
ValidateChain(chain, anchors, at) ==
    LET top == chain[Len(chain)]
        trusted ==
            /\ chain # <<>>
            /\ \A i \in 1..Len(chain) : CheckValidity(chain[i], at)
            /\ \A i \in 1..Len(chain)-1 : chain[i+1].tbs.ca /\ VerifyIssuedBy(chain[i], chain[i+1])
            /\ \E a \in anchors : a = top \/ (CheckValidity(a, at) /\ VerifyIssuedBy(top, a))
            /\ AlgorithmForJwk(chain[1].tbs.jwk) = "ES256"
    IN  IF trusted THEN chain[1].tbs.jwk ELSE NONE

===============================================================================
