SPECIFICATION Spec
CONSTANTS
    N = 4
    Tables = {1, 2}
    MvRows = 2
INVARIANTS StoredOnce LostOnlyInTransaction NeverTwice
PROPERTY WriterEnds
