SPECIFICATION FairSpec
CONSTANTS
    s1 = s1
    s2 = s2
    Sockets <- OneSocket
    MaxVersion = 2
PROPERTIES
    ConnectedIsPushed
CHECK_DEADLOCK FALSE
