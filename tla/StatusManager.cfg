\* Two indices per list and one past the end; more credentials than indices.
SPECIFICATION Spec
CONSTANTS
    LIST_CAPACITY = 2
    Requested = {0, 1, 2}
    Credentials = {c1, c2, c3}
INVARIANTS
    TypeOK
    EncodingsAgree
PROPERTY
    ImplementsRegistry
