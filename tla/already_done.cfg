SPECIFICATION Spec
CONSTANTS
    Challenges = {c1, c2}
    Tasks = {"responder", "replica"}
    None = None
    ChallengeTimeout = 0
    MinSyncInterval = 1
    MaxBlock = 1
    MaxRoot = 1
    MaxFaults = 1
    ChannelCapacity = 1
    Scenarios <- MCScenarios
INVARIANT SuccessMeansDefended
CHECK_DEADLOCK FALSE
