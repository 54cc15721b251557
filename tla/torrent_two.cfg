SPECIFICATION FairSpec
CONSTANTS
    j1 = j1
    j2 = j2
    Jobs <- TwoJobs
    Remote <- OneRemote
    MaxFaults = 1
    StaleClicks = FALSE
INVARIANTS
    TypeOK
    ContentAtRest
    OnlyWholeContent
    NoJobLost
    CopiesExplained
    PausedTransfersNothing
    DrivenWhileActive
PROPERTIES
    Delivers
    EncryptingEnds
    FinishedIsCompleted
