SPECIFICATION Spec
CONSTANTS
    s1 = s1
    s2 = s2
    s3 = s3
    r1 = r1
    k1 = k1
    k2 = k2
    main = main
    dev = dev
    small = small
    large = large
    Savers = {s1, s2}
    Restorers = {}
    Keys = {k1}
    Branches = {main}
    Archives = {small, large}
    PartCount <- MCPartCount
    MaxClock = 1
    MaxStray = 1
    NoRecord = NoRecord
    NoObject = NoObject
    Reaped = Reaped
SYMMETRY Symmetry
INVARIANTS
    AlreadyExistsMatches
