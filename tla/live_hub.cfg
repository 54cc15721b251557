SPECIFICATION FairSpec
CONSTANTS
    s1 = s1
    s2 = s2
    Sockets <- TwoSockets
    MaxVersion = 2
INVARIANTS
    TypeOK
    GoneLeaves
PROPERTIES
    OnlyFailuresDrop
    EventuallyCurrent
CHECK_DEADLOCK FALSE
