SPECIFICATION FairSpec
CONSTANTS
    N = 4
    Limit = 2
    MaxTries = 2
    MaxFailures = 1
INVARIANTS
    TypeOK
    UploadsBounded
    SuccessIsComplete
    FailureIsNotSuccess
    NoWedge
PROPERTIES
    Returns
    ImplementsTransfer
