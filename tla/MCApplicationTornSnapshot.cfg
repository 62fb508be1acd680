\* Two threads; the second takes a snapshot without the lock.
CONSTANTS
    Threads = {t1, t2}
    Objects = {o1, o2}
    Histories = {}
    Values = {v1}
    NoStore = NoStore
    NoThread = NoThread
    NoSnapshot = NoSnapshot
    MaxDepth = 1
    MaxCommits = 1
    MaxSnapshots = 1
SPECIFICATION SnapshotSpec
PROPERTIES SnapshotIsAMoment
