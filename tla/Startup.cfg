\* Start-up with crashes.  The bounded number of starts ends a behaviour.
SPECIFICATION Spec
CONSTANTS
    Keys = {k1, k2, k3, k4}
    Roots = {r1, r2, r3}
    LEGACY_ROOT = LEGACY_ROOT
    NONE = NONE
    TORN = TORN
    Configurations <- MCConfigurations
    LEAF_DAYS = 1
    MaxDay = 2
    MaxStarts = 3
    MayCrash = TRUE
SYMMETRY MCSymmetry
INVARIANTS KeySurvives RootSurvives ServesCertifiedKey
CHECK_DEADLOCK FALSE
