SPECIFICATION MCSpec
CONSTANTS
    r1 = r1
    r2 = r2
    s1 = s1
    s2 = s2
    a1 = a1
    a2 = a2
    id1 = id1
    Runs = {r1, r2}
    Servers = {s1, s2}
    Creators = {s1, s2}
    Source <- MCSource
    Job <- MCJob
    Admins = {a1, a2}
    Command <- MCCommand
    TenantIDs = {id1}
    Owners <- MCOwners
    Begins <- MCBegins
    NoTenant = NoTenant
    MaxKey <- MCMaxKey
    MaxRestarts <- MCMaxRestarts
INVARIANTS
    TypeOK
    WarmCallServed
    AdmittedHasTenant
    AnswersTrue
    ExpiryOn
PROPERTIES
    TenantsKept
    EveryRunEnds
