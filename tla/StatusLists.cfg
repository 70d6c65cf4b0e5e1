\* Lists that end inside a second byte; indices on both sides of every boundary.
SPECIFICATION Spec
CONSTANTS
    Size = 9
    Capacity = 5
    BitsPerStatus = 2
    Indices = {0, 1, 3, 4, 5, 7, 8, 9}
    Statuses = {0, 1, 2, 4}
INVARIANTS
    TypeOK
    NoStrayBits
PROPERTIES
    BitstringIsAnArray
    TokenListIsAnArray
