SPECIFICATION Spec
CONSTANTS
    j1 = j1
    j2 = j2
    Jobs <- OneJob
    MaxFaults = 1
    StaleClicks = TRUE
PROPERTIES
    NoLandingAfterCancel
