SPECIFICATION FairSpec
CONSTANTS
    Lookups = {l1, l2}
    Buckets = {b1, b2}
    Requested = {b1}
    None = None
    All = All
    Capacity = 1
    Ttl = 1
    MaxStale = 2
    EmptyVersions = {0}
    MaxVersion = 1
    MaxDisturbances = 1
    MaxTime = 1
INVARIANTS
    TypeOK
    OutdatedIsDoomed
PROPERTIES
    RevocationTakesEffect
CHECK_DEADLOCK FALSE
