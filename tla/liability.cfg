SPECIFICATION Spec
CONSTANTS
    p1 = p1  p2 = p2  c1 = c1  s1 = s1
    Accounts = {p1, c1}
    Treasury = Treasury
    None = None
    MinProviderStake = 2
    MinStakePerByte = 1
    MaxPrimaryProviders = 2
    MaxMembers = 2
    MaxBucketsPerMember = 2
    ChallengeTimeout = 1
    SettlementTimeout = 1
    RequestTimeout = 2
    DeregisterAnnouncementPeriod = 2
    MaxChallengesPerDeadline = 3
    ChallengeDeposit = 2
    StorageDeposit = 1
    HISTORICAL_ROOT_PRIMES <- NoPrimes
    BlockNumberMax = 100
    Quotes <- LiabilityQuotes
    Commitments <- OneCommitment
    GenesisProviders <- OneProvider
    GenesisBuckets <- TwoBuckets
    Endowment <- LiabilityEndowment
    StakeAmounts = {1}
    SettingsChoices = {}
    Durations = {}
    ByteAmounts = {}
    NewOwners = {}
    BlockFlags = {}
    Reapable = {}
    SyncAmounts = {}
    PaymentLimits = {}
    EndActions <- OnlyPay
    MinProvidersChoices = {}
    Visibilities = {}
    Roles = {}
    LeafIndices = {0}
    DeletionSeqs = {1}
    MaxBlock = 5
    MaxBuckets = 2
INVARIANTS
    TypeOK
    ChallengeAccountability
    PendingCountersExact
    AnnouncedProviderIsClear
    HoldsBackBookkeeping
    FundsConserved
PROPERTIES
    ChallengeRecordsImmutable
    StakeLeavesOnlyWhenDue
CHECK_DEADLOCK FALSE
