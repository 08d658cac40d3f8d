SPECIFICATION FairSpec
CONSTANTS
    p1 = p1  p2 = p2  p3 = p3
    Providers = {p1, p2}
    History <- FirstLeaf
    PrimarySets <- Changes
    EndpointSets <- ManualOrNot
    Threshold = 51
    MaxFailures = 2
    SubmitOnEmpty = FALSE
    MinProviders = 1
    QueueCapacity = 1
    MaxCommands = 2
    MaxChurn = 1
    MaxFaults = 1
    None = None
INVARIANTS
    TypeOK
    CleanIsCheckpointed
PROPERTIES
    RegressOnlyPastStaleFloor
    MarkEventuallySettles
CHECK_DEADLOCK FALSE
