SPECIFICATION PullSpec
CONSTANTS
    f1 = f1
    f2 = f2
    c1 = c1
    c2 = c2
    web = web
    Api = Api
    Nobody = Nobody
    Nothing = Nothing
    Chunks = 2
    Files <- OneFile
    Clients <- OneClient
    Deleters <- ApiOnly
    MaxFaults = 0
    MaxKills = 0
    Overlap = FALSE
    Lossy = TRUE
    Cuts = FALSE
SYMMETRY Symmetry
CHECK_DEADLOCK FALSE
INVARIANTS
    NoDataLost
