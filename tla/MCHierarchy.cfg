CONSTANTS
    Objects = {a, b, c, r}
    Values = {v, w}
    None = None
    DefaultValue = v
    Roots = {r}
    Programs <- MCPrograms
    MaxKids = 2
    MaxWrites = 2
SPECIFICATION Spec
SYMMETRY Symmetry
INVARIANTS
    ParentsAgree
    Forest
    WritesStand
    LocksExact
    DataMirrors
