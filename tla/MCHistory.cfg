CONSTANTS
    p1 = p1
    p2 = p2
    m = m
    c = c
    Historied = {p1, p2}
    Holders = {p1, p2, m, c}
    Movable = {m, c}
    Valued = {c}
    Sizes <- MCSizes
    Adoptings <- MCAdoptings
    Level <- MCLevel
    Programs <- MCPrograms
    None = None
    MaxEntries = 2
    MaxLeaves <- MCMaxLeaves
    MaxBatches = 1
SPECIFICATION Spec
CHECK_DEADLOCK FALSE
INVARIANTS
    HistoriesValid
    OthersForget
PROPERTIES
    HistoriesAreStacks
