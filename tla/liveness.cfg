SPECIFICATION FairSpec
CONSTANTS
    p1 = p1  p2 = p2  c1 = c1  s1 = s1
    Accounts = {p1, c1}
    Treasury = Treasury
    None = None
    MinProviderStake = 2
    MinStakePerByte = 1
    MaxPrimaryProviders = 2
    MaxMembers = 2
    MaxBucketsPerMember = 2
    ChallengeTimeout = 1
    SettlementTimeout = 1
    RequestTimeout = 2
    DeregisterAnnouncementPeriod = 2
    MaxChallengesPerDeadline = 2
    ChallengeDeposit = 2
    StorageDeposit = 1
    HISTORICAL_ROOT_PRIMES <- NoPrimes
    BlockNumberMax = 100
    Quotes <- RejoinQuotes
    Commitments <- OneCommitment
    GenesisProviders <- OneProvider
    GenesisBuckets <- OneBucket
    Endowment <- RejoinEndowment
    StakeAmounts = {}
    SettingsChoices = {}
    Durations = {1}
    ByteAmounts = {}
    NewOwners = {}
    BlockFlags = {TRUE}
    Reapable = {}
    SyncAmounts = {}
    PaymentLimits = {100}
    EndActions <- OnlyPay
    MinProvidersChoices = {}
    Visibilities = {}
    Roles = {}
    LeafIndices = {0}
    DeletionSeqs = {1}
    MaxBlock = 5
    MaxBuckets = 1
PROPERTIES
    LiabilityImplemented
    ChallengeEventuallyCloses
    ExitEventuallyCompletes
    AgreementEventuallyCloses
CHECK_DEADLOCK FALSE
