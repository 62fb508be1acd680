\* One object of each kind, every state of it within the bounds.
CONSTANTS
    UNSET = UNSET
    None = None
    DELETED = DELETED
    Kids = {k1, k2}
    p = p
    Plain = {p}
    Keys = {x, y}
    Arguments <- MCArguments
    Classes <- MCClasses
    Indices <- MCIndices
    Described = {k1, k2}
    MaxChanges <- MCMaxChanges
    MaxLength = 3
    MaxShort = 2
SPECIFICATION Spec
CHECK_DEADLOCK FALSE
SYMMETRY KidsAlike
INVARIANTS
    ChangesTell
    UndoPossible
    DelegatesExact
    Reloadable
PROPERTIES
    StoreFollows
    UndoRedoRestore
