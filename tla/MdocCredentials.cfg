SPECIFICATION Spec
CONSTANTS
    NONE = NONE
    DAY = 2
    LEAF_DAYS = 2
    ROOT_DAYS = 3
    MSO_VALIDITY_DAYS = 2
    Holders = {h1, h2}
    VerifierNonces = {n1, n2}
    IssuerKey <- MCIssuerKey
    HolderKeys <- MCHolderKeys
    Transcripts <- MCTranscripts
    Disclosures <- MCDisclosures
    AGE_DAYS <- MCAgeDays
    MaxMints = 2
    MaxIssued = 2
    MaxSent = 2
    MaxTime = 5
SYMMETRY MCSymmetry
INVARIANTS
    IssuedMdocVerifies
    AcceptedWasPresented
CHECK_DEADLOCK FALSE
