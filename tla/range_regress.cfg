SPECIFICATION FairSpec
CONSTANTS
    p1 = p1  p2 = p2  p3 = p3
    Providers = {p1, p2, p3}
    History <- Growing
    PrimarySets <- Grows
    EndpointSets = {{}}
    Threshold = 51
    MaxFailures = 2
    SubmitOnEmpty = FALSE
    MinProviders = 1
    QueueCapacity = 2
    MaxCommands = 2
    MaxChurn = 1
    MaxFaults = 1
    None = None
PROPERTIES
    SnapshotNeverRegresses
CHECK_DEADLOCK FALSE
