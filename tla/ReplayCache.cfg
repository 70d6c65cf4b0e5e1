\* Two handlers, half-second ticks, a clock that outlasts the cache entries.
SPECIFICATION Spec
CONSTANTS
    Workers = {w1, w2}
    Proofs <- MCProofs
    NONE = NONE
    Meant <- MCMeant
    Attesters <- MCAttesters
    ISSUER_ID <- MCIssuerId
    TicksPerSecond = 2
    MAX_AGE = 2
    MAX_SKEW = 1
    MaxTime = 8
SYMMETRY MCSymmetry
\* The clock stops at its bound.
CHECK_DEADLOCK FALSE
INVARIANTS
    TypeOK
    Remembered
    AcceptedFarApart
    AcceptedAsMeant
