\* The token and the authorization endpoint at once.
SPECIFICATION Spec
CONSTANTS
    Threads = {a, b}
    Calls <- MCIssuerCalls
    NOBODY = NOBODY
SYMMETRY MCSymmetry
INVARIANT
    NoCircularWait
