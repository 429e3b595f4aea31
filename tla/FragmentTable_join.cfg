SPECIFICATION Spec
CONSTANTS
    d1 = d1
    d2 = d2
    d3 = d3
    Datagrams = {d1, d2, d3}
    Hash <- MCHash
    Nodes = {n1, n2, n3}
    NIL = NIL
    Plugins = 2
    Timeout = 1
    PruneInterval = 3
    EmerInterval = 1
    PruneOffset = 1
    Sampling = FALSE
    MaxTime = 6
    MaxFrags = 4
INVARIANTS ListsAgree PacketsConserved LeftoversOnlyInRecycled UndefinedWhenEmptied
SYMMETRY NodeSymmetry
CHECK_DEADLOCK FALSE
