\* One handler and one proof, dated as far ahead as the skew allows.
SPECIFICATION PromptSpec
CONSTANTS
    Workers = {w1}
    Proofs <- MCOneProof
    NONE = NONE
    Meant <- MCOneProof
    Attesters <- MCAttesters
    ISSUER_ID <- MCIssuerId
    TicksPerSecond = 2
    MAX_AGE = 2
    MAX_SKEW = 1
    MaxTime = 8
\* The clock stops at its bound.
CHECK_DEADLOCK FALSE
INVARIANT
    AcceptedOnce
