\* One index per list; the times keep the order of 300 s, 24 h and the shorter
\* ones.
SPECIFICATION PublicationSpec
CONSTANTS
    NONE = NONE
    LIST_CAPACITY = 1
    Requested = {0}
    Credentials = {c1}
    DAY = 100
    LEAF_DAYS = 1
    ROOT_DAYS = 1
    IssuerKey <- MCIssuerKey
    STATUS_LIST_TTL = 2
    TOKEN_LIFETIME = 4
    HANDLER_TIME = 1
    FETCH_TIMEOUT = 2
INVARIANTS
    RevocationSeenInTime
PROPERTIES
    RevokedIsEventuallyRejected
CHECK_DEADLOCK FALSE
