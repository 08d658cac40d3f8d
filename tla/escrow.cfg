SPECIFICATION Spec
CONSTANTS
    p1 = p1  p2 = p2  c1 = c1  s1 = s1
    Accounts = {p1, c1, s1}
    Treasury = Treasury
    None = None
    MinProviderStake = 2
    MinStakePerByte = 1
    MaxPrimaryProviders = 2
    MaxMembers = 2
    MaxBucketsPerMember = 2
    ChallengeTimeout = 1
    SettlementTimeout = 1
    RequestTimeout = 2
    DeregisterAnnouncementPeriod = 2
    MaxChallengesPerDeadline = 3
    ChallengeDeposit = 2
    StorageDeposit = 1
    HISTORICAL_ROOT_PRIMES <- NoPrimes
    BlockNumberMax = 100
    Quotes <- EscrowQuotes
    Commitments = {}
    GenesisProviders <- OneProvider
    GenesisBuckets <- OneBucket
    Endowment <- EscrowEndowment
    StakeAmounts = {}
    SettingsChoices <- Prices
    Durations = {1}
    ByteAmounts = {1}
    NewOwners = {s1}
    BlockFlags = {}
    Reapable = {}
    SyncAmounts = {}
    PaymentLimits = {2, 100}
    EndActions <- OnlyBurn
    MinProvidersChoices = {1}
    Visibilities = {"Private"}
    Roles = {}
    LeafIndices = {}
    DeletionSeqs = {1}
    MaxBlock = 5
    MaxBuckets = 2
INVARIANTS
    HoldsBackBookkeeping
    FundsConserved
    CommittedBytesExact
CHECK_DEADLOCK FALSE
