--------------------------- MODULE MCMdocCredentials ---------------------------
(* A small instance of MdocCredentials. *)
EXTENDS MdocCredentials, TLC

CONSTANTS Holders, VerifierNonces

MCIssuerKey == P256("issuer")
MCHolderKeys == {P256(h) : h \in Holders}
MCTranscripts ==
    {SessionTranscript("verifier", nonce, NONE, "/response") : nonce \in VerifierNonces}
MCDisclosures == {{"age_over_21"}}
MCSymmetry == Permutations(Holders) \cup Permutations(VerifierNonces)
MCAgeDays == [n \in {18, 21} |-> IF n = 18 THEN 0 ELSE 1]

===============================================================================
