CONSTANTS
    Capacity = 3
    NDEBUG = TRUE
SPECIFICATION Spec
INVARIANTS UnreadInBounds TokensConserved
PROPERTY BothGoOn
