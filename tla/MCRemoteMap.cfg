CONSTANTS
    a1 = a1
    a2 = a2
    a3 = a3
    a4 = a4
    a5 = a5
    Addr = {a1, a2, a3, a4, a5}
    Timeout = 2
    MaxLag = 1
    MaxTime = 6
SPECIFICATION MapSpec
SYMMETRY Symmetry
INVARIANTS IndexConsistent RecordsExpire
PROPERTIES ImplementsPeerTable
