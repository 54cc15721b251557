SPECIFICATION StoreSpec
CONSTANTS
    f1 = f1
    f2 = f2
    f3 = f3
    d1 = d1
    d2 = d2
    Files <- TwoFiles
    Deleters <- TwoDeleters
    MaxFaults = 1
    Overlap = TRUE
SYMMETRY Symmetry
CHECK_DEADLOCK FALSE
INVARIANTS
    StoreTypeOK
    LineHasBlob
    Consistent
PROPERTIES
    DeleteCleans
