\* A credential's issuer-signed JWT is sent alone, to a query without claims.
SPECIFICATION Spec
CONSTANTS
    Workers = {w1}
    Ids = {"s1", "s2"}
    VpTokens <- MCBareJwt
    Made <- MCNothingMade
    IssuerKey <- MCIssuerKey
    DAY_SECS = 2
    VALIDITY_DAYS = 1
    ClientId = "verifier"
    Query <- MCTypeQuery
    NONE = NONE
    SESSION_EXPIRY = 1
    MaxTime = 2
    MaxAccepted = 3
\* The clock and the session ids run out.
CHECK_DEADLOCK FALSE
INVARIANT
    AcceptedIsKeyBound
