SPECIFICATION FairSpec
CONSTANTS
    N = 4
    Limit = 2
    MaxTries = 2
    MaxFailures = 2
PROPERTIES
    Returns
CHECK_DEADLOCK FALSE
