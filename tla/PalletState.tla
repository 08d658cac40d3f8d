---------------------------- MODULE PalletState ----------------------------
(***************************************************************************)
(* The storage of the storage-provider pallet, the runtime parameters it    *)
(* is configured with, and the helpers every group of calls shares: the     *)
(* movements of money (impls/funds.rs) and the membership predicates        *)
(* (impls/members.rs).                                                      *)
(*                                                                          *)
(* Storage maps are total functions into record-or-None, except Challenges, *)
(* whose domain is the set of open challenge ids.  Left out of the records: *)
(* statistics (ProviderStats, total_snapshots, checkpoint_block), network   *)
(* addresses and keys.  Every storage deposit has the same price.           *)
(***************************************************************************)
EXTENDS Integers, Sequences, FiniteSets

CONSTANTS
    Accounts,            \* accounts that can sign calls
    Treasury,            \* the account slashes and burned payments go to
    None,                \* Rust's None
    \* ---- runtime configuration (Config) ----
    MinProviderStake, MinStakePerByte, MaxPrimaryProviders, MaxMembers,
    MaxBucketsPerMember, ChallengeTimeout, SettlementTimeout, RequestTimeout,
    DeregisterAnnouncementPeriod, MaxChallengesPerDeadline, ChallengeDeposit,
    StorageDeposit, HISTORICAL_ROOT_PRIMES,
    BlockNumberMax,      \* BlockNumberFor::max_value(), the default max_duration
    \* ---- inputs that exist outside the chain ----
    Quotes,              \* agreement terms some provider has signed
    Commitments,         \* commitments providers may sign
    \* ---- genesis ----
    GenesisProviders,    \* set of [account, stake, settings]
    GenesisBuckets,      \* sequence of [admin, min_providers]
    Endowment,           \* [Accounts -> Nat], the balances genesis
    \* ---- arguments callers pass ----
    StakeAmounts,        \* of register_provider and add_stake
    SettingsChoices,     \* of update_provider_settings
    Durations,           \* additional_duration of extend_agreement
    ByteAmounts,         \* additional_bytes of top_up_agreement
    NewOwners,           \* of transfer_agreement_ownership
    BlockFlags,          \* of set_extensions_blocked
    SyncAmounts,         \* amount of top_up_replica_sync_balance
    PaymentLimits,       \* max_payment of the two calls above it
    EndActions,          \* of end_agreement
    MinProvidersChoices, \* of create_bucket and set_min_providers
    Visibilities, Roles, \* of the bucket calls
    LeafIndices,         \* challenged leaves
    DeletionSeqs,        \* new_start_seq of an admin-signed deletion
    Reapable,            \* accounts that may spend all they have
    \* ---- bounds of the model ----
    MaxBlock, MaxBuckets

VARIABLES
    now,                 \* current_anchor_block()
    Providers, StorageAgreements, Buckets, NextBucketId,
    Challenges, NextChallengeIndex,
    PendingChallenges, PendingChallengesByBucket,
    MemberBuckets, AgreementNonces,
    funds                \* free balances and holds

vars == <<now, Providers, StorageAgreements, Buckets, NextBucketId, Challenges,
          NextChallengeIndex, PendingChallenges, PendingChallengesByBucket,
          MemberBuckets, AgreementNonces, funds>>

challengeVars == <<Challenges, NextChallengeIndex, PendingChallenges,
                   PendingChallengesByBucket>>

indexVars == <<NextBucketId, MemberBuckets, AgreementNonces>>

BucketIds == 0 .. MaxBuckets - 1
Deadlines == 0 .. MaxBlock + ChallengeTimeout
HoldReasons == {"ProviderStake", "AgreementPayment", "ChallengeDeposit", "StorageDeposit"}

----------------------------------------------------------------------------
(* Records                                                                  *)

ProviderSettings ==
    [min_duration : Nat, max_duration : Nat, price_per_byte : Nat,
     accepting_primary : BOOLEAN, replica_sync_price : Nat \cup {None},
     accepting_extensions : BOOLEAN, max_capacity : Nat,
     min_agreement_bytes : Nat]

DefaultSettings ==
    [min_duration |-> 0, max_duration |-> BlockNumberMax, price_per_byte |-> 0,
     accepting_primary |-> TRUE, replica_sync_price |-> None,
     accepting_extensions |-> TRUE, max_capacity |-> 0,
     min_agreement_bytes |-> 0]

ProviderInfo ==
    [stake : Nat, committed_bytes : Nat, settings : ProviderSettings,
     deregister_at : Nat \cup {None}]

Commitment == [mmr_root : Nat, start_seq : Nat, leaf_count : Nat]

\* ProviderRole::Replica's fields are kept beside the role; a primary has
\* none of them (0 and None), so escrow is one sum for both roles.
StorageAgreement ==
    [owner : Accounts, depositor : Accounts, max_bytes : Nat,
     payment_locked : Nat, price_per_byte : Nat, expires_at : Nat,
     extensions_blocked : BOOLEAN, started_at : Nat,
     role : {"Primary", "Replica"}, sync_balance : Nat, sync_price : Nat,
     min_sync_interval : Nat,
     last_sync : [commitment : Commitment, block : Nat] \cup {None}]

escrow(a) == a.payment_locked + a.sync_balance

\* members maps every account to its entry in the bucket, or to None.
Member == [role : {"Admin", "Writer", "Reader"}, depositor : Accounts]

BucketSnapshot == [commitment : Commitment, primary_signers : Seq(BOOLEAN)]

Bucket ==
    [members : [Accounts -> Member \cup {None}],
     visibility : {"Public", "Private"},
     frozen_start_seq : Nat \cup {None},
     min_providers : Nat,
     primary_providers : Seq(Accounts),
     snapshot : BucketSnapshot \cup {None},
     historical_roots :
        [1 .. Len(HISTORICAL_ROOT_PRIMES) ->
            [quotient : Nat, commitment : Commitment \cup {None}]],
     creator : Accounts]

ChallengeId == [deadline : Nat, index : Nat]

Challenge ==
    [bucket_id : BucketIds, provider : Accounts, challenger : Accounts,
     commitment : Commitment, leaf_index : Nat, authorized : BOOLEAN,
     created_at : Nat]

\* AgreementTerms together with what its signature binds: the provider that
\* signed and the context it signed under, which goes with the presence of
\* replica_params.  bucket = None is BucketTarget::New.
Quote ==
    [provider : Accounts, kind : {"Primary", "Replica"}, owner : Accounts,
     bucket : BucketIds \cup {None}, max_bytes : Nat, price_per_byte : Nat,
     duration : Nat, nonce : Nat, valid_until : Nat, sync_balance : Nat,
     sync_price : Nat, min_sync_interval : Nat]

EndAction == [kind : {"Pay", "Burn"}, burn_percent : Nat]

Funds == [free : [Accounts \cup {Treasury} -> Nat],
          held : [HoldReasons -> [Accounts -> Nat]]]

----------------------------------------------------------------------------
(* Assumptions on the configuration                                         *)

ASSUME ConfigAssumption ==
    /\ MinProviderStake \in Nat /\ MinStakePerByte \in Nat
    /\ MaxPrimaryProviders \in Nat /\ MaxMembers \in Nat
    /\ MaxBucketsPerMember \in Nat
    /\ ChallengeTimeout \in Nat /\ SettlementTimeout \in Nat
    /\ RequestTimeout \in Nat /\ DeregisterAnnouncementPeriod \in Nat
    /\ MaxChallengesPerDeadline \in Nat /\ ChallengeDeposit \in Nat
    /\ StorageDeposit \in Nat /\ BlockNumberMax \in Nat
    /\ HISTORICAL_ROOT_PRIMES \in Seq(Nat \ {0})
    /\ MaxBlock \in Nat /\ MaxBuckets \in Nat

\* integrity_test: the announcement period outlasts every response window.
ASSUME TimingAssumption == DeregisterAnnouncementPeriod > ChallengeTimeout

ASSUME DataAssumption ==
    /\ IsFiniteSet(Accounts) /\ Treasury \notin Accounts
    /\ Quotes \subseteq Quote
    /\ \A q \in Quotes : q.kind = "Primary" => q.sync_balance = 0
    /\ Commitments \subseteq Commitment
    /\ Endowment \in [Accounts -> Nat]
    /\ GenesisProviders \subseteq
          [account : Accounts, stake : Nat, settings : ProviderSettings]
    /\ GenesisBuckets \in Seq([admin : Accounts, min_providers : Nat])
    /\ Len(GenesisBuckets) <= MaxBuckets
    /\ StakeAmounts \subseteq Nat /\ SettingsChoices \subseteq ProviderSettings
    /\ Durations \subseteq Nat /\ ByteAmounts \subseteq Nat
    /\ SyncAmounts \subseteq Nat /\ PaymentLimits \subseteq Nat
    /\ EndActions \subseteq EndAction
    /\ BlockFlags \subseteq BOOLEAN /\ Reapable \subseteq Accounts
    /\ NewOwners \subseteq Accounts
    /\ MinProvidersChoices \subseteq Nat
    /\ Visibilities \subseteq {"Public", "Private"}
    /\ Roles \subseteq {"Admin", "Writer", "Reader"}
    /\ LeafIndices \subseteq Nat /\ DeletionSeqs \subseteq Nat

ASSUME NoneAssumption ==
    /\ None \notin Nat
    /\ None \notin ProviderInfo
    /\ None \notin StorageAgreement
    /\ None \notin Member
    /\ None \notin Bucket
    /\ None \notin BucketSnapshot
    /\ None \notin Commitment
    /\ None \notin [commitment : Commitment, block : Nat]

----------------------------------------------------------------------------
(* Saturating subtraction and minimum of unsigned integers.                 *)

saturating_sub(a, b) == IF a > b THEN a - b ELSE 0
AtMost(a, b) == IF a <= b THEN a ELSE b

----------------------------------------------------------------------------
(* Money.  Each helper is one call into the balances pallet; "Can" is the   *)
(* condition under which it succeeds, and a call whose helper fails has no   *)
(* effect at all.                                                           *)

CanHold(f, who, amount) == amount <= f.free[who]

Hold(f, reason, who, amount) ==
    [free |-> [f.free EXCEPT ![who] = @ - amount],
     held |-> [f.held EXCEPT ![reason][who] = @ + amount]]

HoldWithoutTransfer(f, payer, owner, amount) ==
    [f EXCEPT !.held["AgreementPayment"][owner] = @ + amount]

\* hold_payment_from: whoever pays, the escrow is held on the owner.
HoldPaymentFrom(f, payer, owner, amount) ==
    [free |-> [f.free EXCEPT ![payer] = @ - amount],
     held |-> [f.held EXCEPT !["AgreementPayment"][owner] = @ + amount]]

CanRelease(f, reason, who, amount) == amount <= f.held[reason][who]

Release(f, reason, who, amount) ==
    [free |-> [f.free EXCEPT ![who] = @ + amount],
     held |-> [f.held EXCEPT ![reason][who] = @ - amount]]

\* transfer_on_hold with Restriction::Free (settle_payment and the deposit
\* split): the amount leaves the hold and is free on dest.
Settle(f, reason, who, dest, amount) ==
    [free |-> [f.free EXCEPT ![dest] = @ + amount],
     held |-> [f.held EXCEPT ![reason][who] = @ - amount]]

\* transfer_payment_on_hold: the escrow stays on hold on its new owner.
TransferPaymentOnHold(f, from, to, amount) ==
    LET row == f.held["AgreementPayment"]
        moved == [row EXCEPT ![from] = @ - amount, ![to] = @ + amount]
    IN  [f EXCEPT !.held["AgreementPayment"] = moved]

\* Precision::BestEffort: what the hold still has of the amount.
BestEffort(f, reason, who, amount) ==
    AtMost(amount, f.held[reason][who])

SlashStakeToTreasury(f, who, amount) ==
    Settle(f, "ProviderStake", who, Treasury,
           BestEffort(f, "ProviderStake", who, amount))

ReleaseChallengeDeposit(f, who, amount) ==
    Release(f, "ChallengeDeposit", who,
            BestEffort(f, "ChallengeDeposit", who, amount))

\* Consideration::drop of one storage-deposit ticket (HoldConsideration
\* releases with Precision::BestEffort).
DropDeposit(f, who) ==
    Release(f, "StorageDeposit", who,
            BestEffort(f, "StorageDeposit", who, StorageDeposit))

\* Dropping tickets[a] tickets of every account a.
DropDeposits(f, tickets) ==
    LET amount(a) == BestEffort(f, "StorageDeposit", a, tickets[a] * StorageDeposit)
    IN  [free |-> [a \in Accounts \cup {Treasury} |->
                      IF a \in Accounts THEN f.free[a] + amount(a) ELSE f.free[a]],
         held |-> [f.held EXCEPT !["StorageDeposit"] =
                      [a \in Accounts |-> @[a] - amount(a)]]]

RefundTwice(f, challenger, provider, deposit, share) ==
    ReleaseChallengeDeposit(
        [f EXCEPT !.free[provider] = @ + share], challenger, deposit)

KeepRemainder(f, challenger, provider, deposit, share) ==
    Settle(f, "ChallengeDeposit", challenger, provider,
           BestEffort(f, "ChallengeDeposit", challenger, share))

settle_challenge_deposit(f, challenger, provider, deposit, share) ==
    LET moved == BestEffort(f, "ChallengeDeposit", challenger, share) IN
    ReleaseChallengeDeposit(
        Settle(f, "ChallengeDeposit", challenger, provider, moved),
        challenger, deposit - moved)

----------------------------------------------------------------------------
(* Membership                                                               *)

IsMember(who, b) == Buckets[b].members[who] # None

IsAdmin(who, b) == IsMember(who, b) /\ Buckets[b].members[who].role = "Admin"

IsWriterOrAdmin(who, b) ==
    IsMember(who, b) /\ Buckets[b].members[who].role \in {"Admin", "Writer"}

Admins(b) == {a \in Accounts : IsAdmin(a, b)}

\* Positions (1-based) of a provider among the bucket's primaries.
Position(bucket, p) ==
    {i \in DOMAIN bucket.primary_providers : bucket.primary_providers[i] = p}

IsPrimary(bucket, p) == Position(bucket, p) # {}

\* The provider's bit in the current snapshot is set.
SignedSnapshot(bucket, p) ==
    /\ bucket.snapshot # None
    /\ \E i \in Position(bucket, p) :
          /\ i \in DOMAIN bucket.snapshot.primary_signers
          /\ bucket.snapshot.primary_signers[i]

Count(bits) == Cardinality({i \in DOMAIN bits : bits[i]})
Quorum(bucket) == IF bucket.min_providers > 1 THEN bucket.min_providers ELSE 1

is_authorized(who, b) ==
    \/ IsMember(who, b)
    \/ \E p \in Accounts : /\ StorageAgreements[b][p] # None
                           /\ StorageAgreements[b][p].owner = who

is_authorized_for_private(who, b) ==
    \/ IsMember(who, b)
    \/ \E p \in Accounts : /\ IsPrimary(Buckets[b], p)
                           /\ StorageAgreements[b][p] # None
                           /\ StorageAgreements[b][p].owner = who

=============================================================================
