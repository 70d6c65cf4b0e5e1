\* Two responses at once.
SPECIFICATION Spec
CONSTANTS
    Workers = {w1, w2}
    Ids = {"s1", "s2"}
    VpTokens <- MCVpTokens
    Made <- MCMade
    IssuerKey <- MCIssuerKey
    DAY_SECS = 2
    VALIDITY_DAYS = 1
    ClientId = "verifier"
    Query <- MCQuery
    NONE = NONE
    SESSION_EXPIRY = 1
    MaxTime = 2
    MaxAccepted = 3
\* The clock and the session ids run out.
CHECK_DEADLOCK FALSE
SYMMETRY MCSymmetry
INVARIANT
    SessionSingleUse
