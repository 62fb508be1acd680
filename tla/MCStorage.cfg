CONSTANTS
    Keys = {k1, k2}
    Values = {v1, v2}
    None = None
    MaxStorages = 4
SPECIFICATION Spec
SYMMETRY Symmetry
CHECK_DEADLOCK FALSE
INVARIANTS
    ForgottenWithKey
    CleaningCompletes
PROPERTIES
    Immutable
