SPECIFICATION FairSpec
CONSTANTS
    j1 = j1
    j2 = j2
    Jobs <- OneJob
    MaxFaults = 3
    StaleClicks = FALSE
INVARIANTS
    TypeOK
    OnlyWholeFiles
    DrivenWhileActive
    CancelledStaysGone
    OneDriver
    NoJobLost
    CopiesExplained
PROPERTIES
    NoBytesWhilePaused
    Delivers
    EncryptingEnds
    CancelEnds
    DownloadingDownloads
    StopEnds
