-------------------------- MODULE MCStatusPublication --------------------------
(* A small instance of StatusPublication. *)
EXTENDS StatusPublication

MCIssuerKey == P256("issuer")

===============================================================================
