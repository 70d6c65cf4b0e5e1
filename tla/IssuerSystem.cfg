\* Two handlers of the authorization server against one of the credential endpoint.
SPECIFICATION FairSystemSpec
CONSTANTS
    Workers = {w1, w2}
    Uris = {u1}
    Codes = {a1}
    PreAuthCodes = {p1}
    Tokens = {t1, t2}
    Clients = {"c1"}
    Keys = {"k1", "k2"}
    Redirects = {"r1"}
    Verifiers = {"v1"}
    TxCodes = {}
    Configs <- MCConfigs
    Scopes = {}
    ScopeOf <- MCScopeOf
    ParRequests <- MCParRequests
    TokenRequests <- MCTokenRequests
    Offers <- MCOffers
    NONE = NONE
    TicksPerSecond = 1
    REQUEST_URI_TTL = 2
    AUTHORIZATION_CODE_TTL = 1
    ACCESS_TOKEN_TTL = 1
    MaxTime = 1
    CredentialWorkers = {cw1}
    CredentialRequests <- MCCredentialRequests
    Nonces = {"n1"}
    ISSUER_URL = "issuer"
    BATCH_SIZE = 1
    LIST_CAPACITY = 1
    C_NONCE_TTL = 1
    PROOF_MAX_AGE = 2
CONSTRAINT MCOverlapBeforeOffer
\* Identifiers and clock run out.
CHECK_DEADLOCK FALSE
INVARIANT
    CredentialsTraceToConsent
PROPERTY
    ReplayStopsIssuance
