\* What a document says and the code does not keep; one invariant at a time.
\*   SuspensionIsSeen         a credential is suspended
\*   RevocationHitsAllocated  an index is revoked before any credential has it
SPECIFICATION Spec
CONSTANTS
    LIST_CAPACITY = 2
    Requested = {0, 1, 2}
    Credentials = {c1, c2}
INVARIANT
    SuspensionIsSeen
