SPECIFICATION Spec
CONSTANTS
    a1 = a1
    a2 = a2
    Addresses <- TwoAddresses
    Window = 2
    MaxFailures = 2
    MaxTime = 7
SYMMETRY Symmetry
INVARIANTS
    TypeOK
    AtMostPerWindow
    BlockedExactly
