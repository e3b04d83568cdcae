CONSTANTS
    Capacity = 3
    NDEBUG = FALSE
SPECIFICATION Spec
INVARIANT AssertionsHold
