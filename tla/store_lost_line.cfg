SPECIFICATION StoreSpec
CONSTANTS
    f1 = f1
    f2 = f2
    f3 = f3
    d1 = d1
    d2 = d2
    Files <- TwoFiles
    Deleters <- OneDeleter
    MaxFaults = 0
    Overlap = TRUE
SYMMETRY Symmetry
CHECK_DEADLOCK FALSE
INVARIANTS
    CompletedListed
