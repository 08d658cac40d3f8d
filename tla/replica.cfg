SPECIFICATION Spec
CONSTANTS
    p1 = p1  p2 = p2  c1 = c1  s1 = s1
    Accounts = {p1, p2, c1, s1}
    Treasury = Treasury
    None = None
    MinProviderStake = 2
    MinStakePerByte = 1
    MaxPrimaryProviders = 2
    MaxMembers = 2
    MaxBucketsPerMember = 2
    ChallengeTimeout = 1
    SettlementTimeout = 1
    RequestTimeout = 2
    DeregisterAnnouncementPeriod = 2
    MaxChallengesPerDeadline = 1
    ChallengeDeposit = 2
    StorageDeposit = 1
    HISTORICAL_ROOT_PRIMES <- OnePrime
    BlockNumberMax = 100
    Quotes <- ReplicaQuotes
    Commitments <- GrowingCommitments
    GenesisProviders <- ReplicaAndPrimary
    GenesisBuckets <- OneBucket
    Endowment <- ReplicaEndowment
    StakeAmounts = {}
    SettingsChoices = {}
    Durations = {}
    ByteAmounts = {}
    NewOwners = {}
    BlockFlags = {}
    Reapable = {s1}
    SyncAmounts = {2}
    PaymentLimits = {}
    EndActions = {}
    MinProvidersChoices = {}
    Visibilities = {"Public"}
    Roles = {}
    LeafIndices = {0}
    DeletionSeqs = {1}
    MaxBlock = 4
    MaxBuckets = 1
INVARIANTS
    HoldsBackBookkeeping
    ChallengeAccountability
CHECK_DEADLOCK FALSE
