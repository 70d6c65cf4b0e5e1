\* Two handlers at once on one pushed request and one offer.
SPECIFICATION Spec
CONSTANTS
    Workers = {w1, w2}
    Uris = {u1}
    Codes = {a1, a2}
    PreAuthCodes = {p1}
    Tokens = {t1, t2}
    Clients = {"c1", "c2"}
    Keys = {"k1", "k2"}
    Redirects = {"r1"}
    Verifiers = {"v1", "v2"}
    TxCodes = {"tx"}
    Configs = {"sdjwt", "mdl"}
    Scopes = {"sdjwt", "mdl", "other"}
    ScopeOf <- MCScopeOf
    NONE = NONE
    ParRequests <- MCFewParRequests
    TokenRequests <- MCTokenRequests
    Offers <- MCOffers
    TicksPerSecond = 1
    REQUEST_URI_TTL = 1
    AUTHORIZATION_CODE_TTL = 1
    ACCESS_TOKEN_TTL = 1
    MaxTime = 2
SYMMETRY MCSymmetry
\* The finite sets of UUIDs run out and the clock stops: the run may end.
CHECK_DEADLOCK FALSE
INVARIANTS
    TypeOK
    TokenMatchesSession
    MintedMeansConsumed
    PreAuthorizedCodeSingleUse
    CodesLeadToTheirSession
    OneCodePerWorker
    OneTokenPerWorker
    LiveTokenIsRevocable
PROPERTY
    RevocationIsTargeted
