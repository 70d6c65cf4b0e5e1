\* What a document says and the code does not keep; one invariant at a time.
\*   ReplayedCodeHasNoToken  a replay overlaps the redemption it should undo
\*   CodeSingleUse           two redemptions of one code overlap
\*   RequestUriSingleUse     two approvals of one request_uri overlap
\*   DeniedIsSpent           a denied request_uri is decided on again
SPECIFICATION Spec
CONSTANTS
    Workers = {w1, w2}
    Uris = {u1}
    Codes = {a1, a2}
    PreAuthCodes = {p1}
    Tokens = {t1, t2}
    Clients = {"c1", "c2"}
    Keys = {"k1", "k2"}
    Redirects = {"r1"}
    Verifiers = {"v1", "v2"}
    TxCodes = {"tx"}
    Configs = {"sdjwt", "mdl"}
    Scopes = {"sdjwt", "mdl", "other"}
    ScopeOf <- MCScopeOf
    NONE = NONE
    ParRequests <- MCFewParRequests
    TokenRequests <- MCFewTokenRequests
    Offers <- MCFewOffers
    TicksPerSecond = 1
    REQUEST_URI_TTL = 1
    AUTHORIZATION_CODE_TTL = 1
    ACCESS_TOKEN_TTL = 1
    MaxTime = 1
SYMMETRY MCSymmetry
\* The finite sets of UUIDs run out and the clock stops: the run may end.
CHECK_DEADLOCK FALSE
INVARIANT
    ReplayedCodeHasNoToken
