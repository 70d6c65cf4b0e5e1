\* The process restarts.
SPECIFICATION RestartSpec
CONSTANTS
    LIST_CAPACITY = 2
    Requested = {0, 1, 2}
    Credentials = {c1, c2}
PROPERTY
    RevocationIsPermanent
