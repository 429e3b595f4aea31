SPECIFICATION Spec
CONSTANTS
    Keys = {0, 1, 2}
    Zero = 0
    Hash <- MCHash
    Buckets = 2
    Scratch = 3
    MaxWriters = 1
    Delay = 1
    MaxSlot = 2
    MaxRecords = 4
    Unit = 1
    Skew = 0
    SumHost = FALSE
    ProRating = FALSE
    ExitAnywhere = FALSE
INVARIANTS Conservation QueueExact UniqueEntries
PROPERTY ImplementsTable
