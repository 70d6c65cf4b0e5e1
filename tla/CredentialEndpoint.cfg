\* Two handlers, two nonces, lists that a few credentials fill; requests that have started go on.
SPECIFICATION FairSpec
CONSTANTS
    Workers = {w1, w2}
    Grants <- MCGrants
    Nonces = {"n1", "n2"}
    Requests <- MCRequests
    NONE = NONE
    ISSUER_URL = "issuer"
    PROOF_MAX_AGE = 1
    BATCH_SIZE = 2
    LIST_CAPACITY = 2
    TicksPerSecond = 1
    C_NONCE_TTL = 1
    ACCESS_TOKEN_TTL = 2
    MaxTime = 2
\* Nonces, indices and clock run out.
CHECK_DEADLOCK FALSE
INVARIANTS
    TypeOK
    NonceSingleUse
    CredentialKeyProven
    StatusIndexUnique
    ResponseAuthorized
PROPERTY
    BadProofSparesNonce
    RequestsAreAnswered
