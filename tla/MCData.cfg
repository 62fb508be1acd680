CONSTANTS
    u = u
    v = v
    UNSET = UNSET
    Names = {"x", "y"}
    PlainValues <- MCPlainValues
    Convert <- MCConvert
    Contents <- MCContents
    Roots <- MCRoots
    Overrides <- MCOverrides
    Other = "other"
    MaxClasses = 3
SPECIFICATION Spec
CHECK_DEADLOCK FALSE
INVARIANTS
    Complete
    FinalsStand
    ReloadsTheSame
PROPERTIES
    PromisesKept
