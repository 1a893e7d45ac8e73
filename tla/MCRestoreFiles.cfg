SPECIFICATION RestoreSpec
CONSTANTS
    N = 3
    Limit = 2
    MaxTries = 2
    MaxFailures = 1
INVARIANTS
    TypeOK
    DownloadsComplete
    NoWedge
    TargetTouchedLast
PROPERTIES
    RestoreEnds
    DownloadImplementsTransfer
