SPECIFICATION FairSpec
CONSTANTS
    Requests = {r1, r2}
    Users = {1, 2}
    Limits <- MCLimits
    FailClosed <- MCFailClosed
    RateLimitEnabled = TRUE
    MaxHits = 2
    PoolSize = 1
    FileIds = {1, 2}
INVARIANTS
    TypeOK
    ConnectionsReturned
    FilesOfUploads
    StatusTellsCommit
PROPERTIES
    RefusedOwnLimit
    WaitersServed
