CONSTANTS
    Children = {c1, c2, c3}
    Names = {0, 1, 2}
    Incremented <- MCIncremented
    Limits <- MCLimits
    Programs <- MCPrograms
    None = None
    MaxCalls <- MCMaxCalls
    MaxNested = 2
    MaxRejections = 2
SPECIFICATION Spec
CHECK_DEADLOCK FALSE
INVARIANTS
    UniqueNames
    CacheExact
    LimitsKept
PROPERTIES
    WritesEnd
