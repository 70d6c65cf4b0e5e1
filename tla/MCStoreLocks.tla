------------------------------ MODULE MCStoreLocks ------------------------------
(***************************************************************************)
(* The calls of the issuer's endpoints, and those of the verifier's.       *)
(***************************************************************************)
EXTENDS StoreLocks, TLC

MCSymmetry == Permutations(Threads)

MCIssuerCalls == TokenCalls \cup DecisionCalls
MCVerifierCalls == RequestCalls \cup ResponseCalls

===============================================================================
