\* Two threads that take turns at the lock, write, push and take snapshots.
CONSTANTS
    Threads = {t1, t2}
    Objects = {o1}
    Histories = {}
    Values = {v1, v2}
    NoStore = NoStore
    NoThread = NoThread
    NoSnapshot = NoSnapshot
    MaxDepth = 2
    MaxCommits = 3
    MaxSnapshots = 2
SPECIFICATION Spec
SYMMETRY Symmetry
INVARIANTS
    SnapshotApplied
    ObserversSeeChange
    BatchesNested
PROPERTIES
    
    ReadsRepeatable
