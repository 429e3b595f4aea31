SPECIFICATION Spec
CONSTANTS
    Keys = {1, 2}
    NoKey = 0
    Hash <- MCHash
    Buckets = 2
    Heap = 2
    QSize = 3
    Stale = 0
    Retire = 1
    Threshold = 1
    MaxWriters = 1
    Delay = 1
    Late = 1
    MaxSlot = 3
    MaxRecords = 4
INVARIANTS ListsSound Conservation SearchFindsAll
PROPERTY ImplementsTable
