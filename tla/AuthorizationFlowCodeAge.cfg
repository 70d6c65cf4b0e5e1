\* Half-second ticks: a code presented between its lifetime and the next second.
SPECIFICATION Spec
CONSTANTS
    Workers = {w1}
    Uris = {u1}
    Codes = {a1}
    PreAuthCodes = {p1}
    Tokens = {t1, t2}
    Clients = {"c1", "c2"}
    Keys = {"k1", "k2"}
    Redirects = {"r1"}
    Verifiers = {"v1", "v2"}
    TxCodes = {"tx"}
    Configs = {"sdjwt", "mdl"}
    Scopes = {"sdjwt", "mdl", "other"}
    ScopeOf <- MCScopeOf
    NONE = NONE
    ParRequests <- MCFewParRequests
    TokenRequests <- MCFewTokenRequests
    Offers <- MCFewOffers
    TicksPerSecond = 2
    REQUEST_URI_TTL = 1
    AUTHORIZATION_CODE_TTL = 1
    ACCESS_TOKEN_TTL = 1
    MaxTime = 3
\* The finite sets of UUIDs run out and the clock stops: the run may end.
CHECK_DEADLOCK FALSE
PROPERTY
    CodeLivesItsTtl
