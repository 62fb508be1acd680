\* One thread, an object and its history: every way in and out of nested write
\* contexts.
CONSTANTS
    Threads = {t1}
    Objects = {o1, h1}
    Histories = {h1}
    Values = {v1, v2}
    NoStore = NoStore
    NoThread = NoThread
    NoSnapshot = NoSnapshot
    MaxDepth = 3
    MaxCommits = 2
    MaxSnapshots = 0
SPECIFICATION Spec
SYMMETRY Symmetry
INVARIANTS
    TypeOK
    Quiescent
    BusyExact
    ReadsInsideWrites
PROPERTIES
    ImplementsTransactions
