SPECIFICATION PullSpec
CONSTANTS
    f1 = f1
    f2 = f2
    c1 = c1
    c2 = c2
    web = web
    Api = Api
    Nobody = Nobody
    Nothing = Nothing
    Chunks = 2
    Files <- OneFile
    Clients <- TwoClients
    Deleters <- ApiAndWeb
    MaxFaults = 1
    MaxKills = 1
    Overlap = FALSE
    Lossy = TRUE
    Cuts = TRUE
SYMMETRY Symmetry
CHECK_DEADLOCK FALSE
INVARIANTS
    WipedAfterDecrypt
    OneOwner
    OnlyAuthentic
