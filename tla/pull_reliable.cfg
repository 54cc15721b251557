SPECIFICATION PullFairSpec
CONSTANTS
    f1 = f1
    f2 = f2
    c1 = c1
    c2 = c2
    web = web
    Api = Api
    Nobody = Nobody
    Nothing = Nothing
    Chunks = 2
    Files <- TwoFiles
    Clients <- TwoClients
    Deleters <- ApiOnly
    MaxFaults = 0
    MaxKills = 1
    Overlap = FALSE
    Lossy = FALSE
    Cuts = FALSE
CHECK_DEADLOCK FALSE
INVARIANTS
    PullTypeOK
    NoDataLost
PROPERTIES
    PulledEventually
