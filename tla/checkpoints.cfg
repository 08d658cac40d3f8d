SPECIFICATION Spec
CONSTANTS
    p1 = p1  p2 = p2  c1 = c1  s1 = s1
    Accounts = {p1, p2, c1}
    Treasury = Treasury
    None = None
    MinProviderStake = 2
    MinStakePerByte = 1
    MaxPrimaryProviders = 2
    MaxMembers = 2
    MaxBucketsPerMember = 2
    ChallengeTimeout = 1
    SettlementTimeout = 0
    RequestTimeout = 2
    DeregisterAnnouncementPeriod = 2
    MaxChallengesPerDeadline = 3
    ChallengeDeposit = 2
    StorageDeposit = 1
    HISTORICAL_ROOT_PRIMES <- OnePrime
    BlockNumberMax = 100
    Quotes <- ChurnQuotes
    Commitments <- TwoCommitments
    GenesisProviders <- TwoProviders
    GenesisBuckets <- OneBucket
    Endowment <- ChurnEndowment
    StakeAmounts = {10}
    SettingsChoices = {}
    Durations = {}
    ByteAmounts = {}
    NewOwners = {}
    BlockFlags = {}
    Reapable = {}
    SyncAmounts = {}
    PaymentLimits = {}
    EndActions <- OnlyPay
    MinProvidersChoices = {1, 2}
    Visibilities = {"Public"}
    Roles = {"Admin", "Reader"}
    LeafIndices = {}
    DeletionSeqs = {1}
    MaxBlock = 3
    MaxBuckets = 1
INVARIANTS
    MembershipIndexExact
    HoldsBackBookkeeping
    PrimariesMatchAgreements
    FrozenPinned
PROPERTIES
    SignerBitsFollowProviders
CHECK_DEADLOCK FALSE
