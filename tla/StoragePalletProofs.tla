------------------------ MODULE StoragePalletProofs ------------------------
(***************************************************************************)
(* The storage-provider pallet, for every configuration, genesis and set of *)
(* accounts.  First the type invariant, with what all proofs on the pallet  *)
(* rest on: movements of money whose guard holds, and records that keep     *)
(* their type when a call changes them.  Then the refinement of Liability:  *)
(* the gates the calls compute (from committed_bytes, deregister_at and the *)
(* two pending-challenge counters) are related to Liability's by Ledger,    *)
(* which says that they count what they are meant to count, and that ids    *)
(* are not reused.  Last the buckets: the pinned start of a frozen one, the *)
(* reverse index of its members, and the order of its primaries, which the  *)
(* signer bits of the snapshot refer to by position.                        *)
(***************************************************************************)
EXTENDS TryState, Sums, SequenceTheorems

----------------------------------------------------------------------------
(* Natural numbers                                                          *)

\* A share of an amount in hundredths is at most the amount.
LEMMA PercentageType ==
    ASSUME NEW n \in Nat, NEW k \in 0 .. 100
    PROVE  /\ (n * k) \div 100 \in Nat
           /\ (n * k) \div 100 <= n
OBVIOUS

\* A function on 1 .. n is a sequence.
LEMMA FunctionIsSeq ==
    ASSUME NEW S, NEW n \in Nat, NEW f \in [1 .. n -> S]
    PROVE  f \in Seq(S)
OBVIOUS

\* An element of a sequence.
LEMMA SeqElement ==
    ASSUME NEW S, NEW s \in Seq(S), NEW i \in DOMAIN s
    PROVE  s[i] \in S
OBVIOUS

\* The quotient historical roots are indexed by (block / prime).
LEMMA QuotientType ==
    ASSUME NEW n \in Nat, NEW d \in Nat \ {0}
    PROVE  n \div d \in Nat
OBVIOUS

----------------------------------------------------------------------------
(* Money                                                                    *)

\* A hold within the free balance (hold_stake, hold_payment, ...).
LEMMA HoldType ==
    ASSUME NEW f \in Funds, NEW r \in HoldReasons, NEW who \in Accounts,
           NEW n \in Nat, CanHold(f, who, n)
    PROVE  Hold(f, r, who, n) \in Funds
BY DEF Funds, Hold, CanHold

\* A payment by one account held on another (hold_payment_from).
LEMMA HoldPaymentFromType ==
    ASSUME NEW f \in Funds, NEW payer \in Accounts, NEW owner \in Accounts,
           NEW n \in Nat, CanHold(f, payer, n)
    PROVE  HoldPaymentFrom(f, payer, owner, n) \in Funds
BY DEF Funds, HoldPaymentFrom, CanHold, HoldReasons

\* A release within the hold (release_exact).
LEMMA ReleaseType ==
    ASSUME NEW f \in Funds, NEW r \in HoldReasons, NEW who \in Accounts,
           NEW n \in Nat, CanRelease(f, r, who, n)
    PROVE  Release(f, r, who, n) \in Funds
BY DEF Funds, Release, CanRelease

\* A settlement within the hold (settle_payment).
LEMMA SettleType ==
    ASSUME NEW f \in Funds, NEW r \in HoldReasons, NEW who \in Accounts,
           NEW dest \in Accounts \cup {Treasury},
           NEW n \in Nat, CanRelease(f, r, who, n)
    PROVE  /\ Settle(f, r, who, dest, n) \in Funds
           /\ Settle(f, r, who, dest, n).held[r][who] = f.held[r][who] - n
BY DEF Funds, Settle, CanRelease

\* An escrow moved to another owner (transfer_payment_on_hold).
LEMMA TransferPaymentOnHoldType ==
    ASSUME NEW f \in Funds, NEW from \in Accounts, NEW to \in Accounts, from # to,
           NEW n \in Nat, CanRelease(f, "AgreementPayment", from, n)
    PROVE  TransferPaymentOnHold(f, from, to, n) \in Funds
<1> DEFINE row == f.held["AgreementPayment"]
           moved == [row EXCEPT ![from] = @ - n, ![to] = @ + n]
<1>1. moved \in [Accounts -> Nat]
  <2>1. f.held["AgreementPayment"] \in [Accounts -> Nat]
    BY DEF Funds, HoldReasons
  <2>2. n <= f.held["AgreementPayment"][from]
    BY DEF CanRelease
  <2> QED BY <2>1, <2>2
<1>2. TransferPaymentOnHold(f, from, to, n) = [f EXCEPT !.held["AgreementPayment"] = moved]
  BY DEF TransferPaymentOnHold
<1> HIDE DEF moved
<1> QED BY <1>1, <1>2 DEF Funds, HoldReasons

\* Precision::BestEffort never takes more than the hold has.
LEMMA BestEffortType ==
    ASSUME NEW f \in Funds, NEW r \in HoldReasons, NEW who \in Accounts, NEW n \in Nat
    PROVE  /\ BestEffort(f, r, who, n) \in Nat
           /\ BestEffort(f, r, who, n) <= n
           /\ CanRelease(f, r, who, BestEffort(f, r, who, n))
BY DEF Funds, BestEffort, AtMost, CanRelease

\* The deposit of a failed challenge goes back (release_challenge_deposit).
LEMMA ReleaseChallengeDepositType ==
    ASSUME NEW f \in Funds, NEW who \in Accounts, NEW n \in Nat
    PROVE  ReleaseChallengeDeposit(f, who, n) \in Funds
BY BestEffortType, ReleaseType DEF ReleaseChallengeDeposit, HoldReasons

\* A slash (slash_stake_to_treasury).
LEMMA SlashStakeToTreasuryType ==
    ASSUME NEW f \in Funds, NEW who \in Accounts, NEW n \in Nat
    PROVE  SlashStakeToTreasury(f, who, n) \in Funds
BY BestEffortType, SettleType DEF SlashStakeToTreasury, HoldReasons

\* One storage deposit returned (impls/deposits.rs).
LEMMA DropDepositType ==
    ASSUME NEW f \in Funds, NEW who \in Accounts
    PROVE  DropDeposit(f, who) \in Funds
BY BestEffortType, ReleaseType, ConfigAssumption DEF DropDeposit, HoldReasons

\* A bucket's deposits are finitely many.
LEMMA BucketTicketsType ==
    ASSUME NEW bucket, NEW a
    PROVE  BucketTickets(bucket, a) \in Nat
<1> DEFINE M == {m \in Accounts : /\ bucket.members[m] # None
                                  /\ bucket.members[m].depositor = a}
<1>1. M \subseteq Accounts
  OBVIOUS
<1>2. IsFiniteSet(M)
  BY <1>1, FS_Subset, DataAssumption
<1>3. Cardinality(M) \in Nat
  BY <1>2, FS_CardinalityType
<1> QED BY <1>3 DEF BucketTickets

\* All deposits of a bucket returned (remove_bucket_internal).
LEMMA DropDepositsType ==
    ASSUME NEW f \in Funds, NEW tickets \in [Accounts -> Nat]
    PROVE  DropDeposits(f, tickets) \in Funds
<1> DEFINE amount(a) == BestEffort(f, "StorageDeposit", a, tickets[a] * StorageDeposit)
<1>1. ASSUME NEW a \in Accounts
      PROVE  /\ amount(a) \in Nat
             /\ amount(a) <= f.held["StorageDeposit"][a]
  <2>1. tickets[a] * StorageDeposit \in Nat
    BY ConfigAssumption
  <2> QED BY <2>1, BestEffortType DEF HoldReasons, CanRelease
<1> HIDE DEF amount
<1>2. [a \in Accounts \cup {Treasury} |->
          IF a \in Accounts THEN f.free[a] + amount(a) ELSE f.free[a]]
        \in [Accounts \cup {Treasury} -> Nat]
  BY <1>1 DEF Funds
<1>3. [f.held EXCEPT !["StorageDeposit"] = [a \in Accounts |-> @[a] - amount(a)]]
        \in [HoldReasons -> [Accounts -> Nat]]
  BY <1>1 DEF Funds, HoldReasons
<1> QED BY <1>2, <1>3 DEF DropDeposits, Funds, amount

\* The deposit of an answered challenge is split (settle_challenge_deposit).
LEMMA SettleChallengeDepositType ==
    ASSUME NEW f \in Funds, NEW challenger \in Accounts, NEW provider \in Accounts,
           NEW deposit \in Nat, NEW share \in Nat, share <= deposit
    PROVE  settle_challenge_deposit(f, challenger, provider, deposit, share) \in Funds
<1> DEFINE moved == BestEffort(f, "ChallengeDeposit", challenger, share)
<1>1. /\ moved \in Nat
      /\ moved <= share
      /\ CanRelease(f, "ChallengeDeposit", challenger, moved)
  BY BestEffortType DEF HoldReasons
<1>2. Settle(f, "ChallengeDeposit", challenger, provider, moved) \in Funds
  BY <1>1, SettleType DEF HoldReasons
<1>3. deposit - moved \in Nat
  BY <1>1
<1> QED BY <1>2, <1>3, ReleaseChallengeDepositType DEF settle_challenge_deposit

----------------------------------------------------------------------------
(* Records                                                                  *)

\* The acceptance flags of the settings.
LEMMA AcceptingType ==
    ASSUME NEW settings \in ProviderSettings, NEW flag \in BOOLEAN
    PROVE  Accepting(settings, flag) \in ProviderSettings
BY DEF Accepting, ProviderSettings

\* An announced or cancelled exit.
LEMMA WithExitType ==
    ASSUME NEW provider \in ProviderInfo, NEW at \in Nat \cup {None}
    PROVE  WithExit(provider, at) \in ProviderInfo
<1>1. Accepting(provider.settings, at = None) \in ProviderSettings
  BY AcceptingType DEF ProviderInfo
<1> QED BY <1>1 DEF WithExit, ProviderInfo

\* The settings a provider registers with.
LEMMA DefaultSettingsType == DefaultSettings \in ProviderSettings
BY ConfigAssumption DEF DefaultSettings, ProviderSettings

\* The record of a provider that registers (do_register).
LEMMA NewProviderType ==
    ASSUME NEW stake \in Nat, NEW settings \in ProviderSettings
    PROVE  NewProvider(stake, settings) \in ProviderInfo
BY DEF NewProvider, ProviderInfo

\* The provider record after one of its agreements was closed.
LEMMA FreeBytesType ==
    ASSUME NEW provider \in ProviderInfo, NEW agreement \in StorageAgreement
    PROVE  FreeBytes(provider, agreement) \in ProviderInfo
<1>1. agreement.max_bytes \in Nat /\ provider.committed_bytes \in Nat
  BY DEF StorageAgreement, ProviderInfo
<1>2. saturating_sub(provider.committed_bytes, agreement.max_bytes) \in Nat
  BY <1>1 DEF saturating_sub
<1> QED BY <1>2 DEF FreeBytes, ProviderInfo

\* The agreement, payment and hold of a redeemed quote.
LEMMA NewAgreementType ==
    ASSUME NEW q \in Quote, now \in Nat
    PROVE  /\ NewAgreement(q) \in StorageAgreement
           /\ Payment(q) \in Nat
           /\ TotalHold(q) \in Nat
<1>1. /\ q.price_per_byte \in Nat /\ q.max_bytes \in Nat /\ q.duration \in Nat
      /\ q.sync_balance \in Nat /\ q.sync_price \in Nat
      /\ q.min_sync_interval \in Nat /\ q.owner \in Accounts
      /\ q.kind \in {"Primary", "Replica"}
  BY DEF Quote
<1>2. Payment(q) \in Nat
  BY <1>1 DEF Payment, calculate_payment
<1> QED BY <1>1, <1>2 DEF NewAgreement, TotalHold, StorageAgreement

\* An agreement that was topped up.
LEMMA EnlargedType ==
    ASSUME NEW agreement \in StorageAgreement, NEW bytes \in Nat, NEW payment \in Nat
    PROVE  Enlarged(agreement, bytes, payment) \in StorageAgreement
<1>1. agreement.max_bytes + bytes \in Nat /\ agreement.payment_locked + payment \in Nat
  BY DEF StorageAgreement
<1> QED BY <1>1 DEF Enlarged, StorageAgreement

\* An agreement that was extended; a replica needs a sync price.
LEMMA ExtendedType ==
    ASSUME NEW agreement \in StorageAgreement, NEW settings \in ProviderSettings,
           agreement.role = "Replica" => settings.replica_sync_price # None,
           NEW duration \in Nat, NEW payment \in Nat, now \in Nat
    PROVE  Extended(agreement, settings, duration, payment) \in StorageAgreement
<1> DEFINE sync_price == IF agreement.role = "Replica"
                         THEN settings.replica_sync_price ELSE agreement.sync_price
<1>1. sync_price \in Nat
  BY DEF StorageAgreement, ProviderSettings
<1>2. settings.price_per_byte \in Nat
  BY DEF ProviderSettings
<1> HIDE DEF sync_price
<1>3. ASSUME NEW expires_at \in Nat, NEW price \in Nat
      PROVE  [agreement EXCEPT !.expires_at = expires_at, !.started_at = now,
                 !.price_per_byte = price, !.sync_price = sync_price,
                 !.payment_locked = payment] \in StorageAgreement
  <2>1. [agreement EXCEPT !.expires_at = expires_at, !.started_at = now]
           \in StorageAgreement
    BY DEF StorageAgreement
  <2>2. \A a \in StorageAgreement :
           [a EXCEPT !.price_per_byte = price, !.sync_price = sync_price,
                     !.payment_locked = payment] \in StorageAgreement
    BY <1>1 DEF StorageAgreement
  <2> QED BY <2>1, <2>2
<1>4. now + duration \in Nat
  OBVIOUS
<1> QED BY <1>2, <1>3, <1>4 DEF Extended, sync_price

\* A replica agreement after a paid sync.
LEMMA SyncedType ==
    ASSUME NEW agreement \in StorageAgreement, NEW commitment \in Commitment, now \in Nat
    PROVE  Synced(agreement, commitment) \in StorageAgreement
<1>1. saturating_sub(agreement.sync_balance, agreement.sync_price) \in Nat
  BY DEF saturating_sub, StorageAgreement
<1> QED BY <1>1 DEF Synced, StorageAgreement

\* The record of a new bucket (create_bucket_internal).
LEMMA NewBucketType ==
    ASSUME NEW admin \in Accounts, NEW min_providers \in Nat,
           NEW primaries \in Seq(Accounts), NEW visibility \in {"Public", "Private"}
    PROVE  NewBucket(admin, min_providers, primaries, visibility) \in Bucket
<1> DEFINE members == [a \in Accounts |->
               IF a = admin THEN [role |-> "Admin", depositor |-> admin] ELSE None]
           roots == [i \in 1 .. Len(HISTORICAL_ROOT_PRIMES) |->
                        [quotient |-> 0, commitment |-> None]]
<1>1. members \in [Accounts -> Member \cup {None}]
  BY DEF Member
<1>2. roots \in [1 .. Len(HISTORICAL_ROOT_PRIMES) ->
                    [quotient : Nat, commitment : Commitment \cup {None}]]
  OBVIOUS
<1> QED BY <1>1, <1>2 DEF NewBucket, Bucket

\* A snapshot with other signer bits.
LEMMA SnapshotType ==
    ASSUME NEW snapshot \in BucketSnapshot, NEW bits \in Seq(BOOLEAN)
    PROVE  [snapshot EXCEPT !.primary_signers = bits] \in BucketSnapshot
BY DEF BucketSnapshot

\* A bucket with other primaries and another snapshot.
LEMMA BucketUpdateType ==
    ASSUME NEW bucket \in Bucket, NEW primaries \in Seq(Accounts),
           NEW snapshot \in BucketSnapshot \cup {None}
    PROVE  [bucket EXCEPT !.primary_providers = primaries, !.snapshot = snapshot] \in Bucket
BY DEF Bucket

\* A bucket with one more primary.
LEMMA AppendPrimaryType ==
    ASSUME NEW bucket \in Bucket, NEW p \in Accounts
    PROVE  AppendPrimary(bucket, p) \in Bucket
<1>1. AppendUnsigned(bucket.snapshot) \in BucketSnapshot \cup {None}
  <2>1. CASE bucket.snapshot = None
    BY <2>1 DEF AppendUnsigned
  <2>2. CASE bucket.snapshot # None
    <3>1. bucket.snapshot \in BucketSnapshot
      BY <2>2 DEF Bucket
    <3>2. bucket.snapshot.primary_signers \in Seq(BOOLEAN)
      BY <3>1 DEF BucketSnapshot
    <3>3. Append(bucket.snapshot.primary_signers, FALSE) \in Seq(BOOLEAN)
      BY <3>2
    <3> QED BY <2>2, <3>1, <3>3, SnapshotType DEF AppendUnsigned
  <2> QED BY <2>1, <2>2
<1>2. Append(bucket.primary_providers, p) \in Seq(Accounts)
  BY DEF Bucket
<1> QED BY <1>1, <1>2, BucketUpdateType DEF AppendPrimary

\* A sequence without one of its elements.
LEMMA RemoveAtType ==
    ASSUME NEW S, NEW s \in Seq(S), NEW i \in 1 .. Len(s)
    PROVE  RemoveAt(s, i) \in Seq(S)
BY DEF RemoveAt

\* position() finds a primary that is listed.
LEMMA FirstPositionType ==
    ASSUME NEW bucket \in Bucket, NEW p, IsPrimary(bucket, p)
    PROVE  FirstPosition(bucket, p) \in 1 .. Len(bucket.primary_providers)
<1>1. bucket.primary_providers \in Seq(Accounts)
  BY DEF Bucket
<1>2. DOMAIN bucket.primary_providers = 1 .. Len(bucket.primary_providers)
  BY <1>1
<1>3. Position(bucket, p) \subseteq 1 .. Len(bucket.primary_providers)
  BY <1>2 DEF Position
<1>4. Position(bucket, p) \subseteq Nat /\ Position(bucket, p) # {}
  BY <1>1, <1>3 DEF IsPrimary
<1>5. \E i \in Position(bucket, p) : \A j \in Position(bucket, p) : i <= j
  BY <1>4, LeastNat
<1>6. FirstPosition(bucket, p) \in Position(bucket, p)
  BY <1>5 DEF FirstPosition
<1> QED BY <1>3, <1>6

\* A bucket without one of its primaries (remove_primary_from_bucket).
LEMMA RemovePrimaryType ==
    ASSUME NEW bucket \in Bucket, NEW p
    PROVE  remove_primary_from_bucket(bucket, p) \in Bucket
<1>1. CASE ~IsPrimary(bucket, p)
  BY <1>1 DEF remove_primary_from_bucket
<1>2. CASE IsPrimary(bucket, p)
  <2> DEFINE pos == FirstPosition(bucket, p)
  <2>1. pos \in 1 .. Len(bucket.primary_providers)
    BY <1>2, FirstPositionType
  <2>2. bucket.primary_providers \in Seq(Accounts)
    BY DEF Bucket
  <2>3. RemoveAt(bucket.primary_providers, pos) \in Seq(Accounts)
    BY <2>1, <2>2, RemoveAtType
  <2>4. RemoveSignerBit(bucket.snapshot, pos) \in BucketSnapshot \cup {None}
    <3> HIDE DEF pos
    <3>1. bucket.snapshot \in BucketSnapshot \cup {None}
      BY DEF Bucket
    <3>2. CASE bucket.snapshot # None /\ pos \in DOMAIN bucket.snapshot.primary_signers
      <4>1. bucket.snapshot.primary_signers \in Seq(BOOLEAN)
        BY <3>1, <3>2 DEF BucketSnapshot
      <4>2. pos \in 1 .. Len(bucket.snapshot.primary_signers)
        BY <3>2, <4>1
      <4>3. RemoveAt(bucket.snapshot.primary_signers, pos) \in Seq(BOOLEAN)
        BY <4>1, <4>2, RemoveAtType
      <4> QED BY <3>1, <3>2, <4>3, SnapshotType DEF RemoveSignerBit
    <3>3. CASE ~(bucket.snapshot # None /\ pos \in DOMAIN bucket.snapshot.primary_signers)
      BY <3>1, <3>3 DEF RemoveSignerBit
    <3> QED BY <3>2, <3>3
  <2>5. remove_primary_from_bucket(bucket, p) =
          [bucket EXCEPT !.primary_providers = RemoveAt(bucket.primary_providers, pos),
                         !.snapshot = RemoveSignerBit(bucket.snapshot, pos)]
    BY <1>2 DEF remove_primary_from_bucket
  <2> QED BY <2>3, <2>4, <2>5, BucketUpdateType, ZenonT(60)
<1> QED BY <1>1, <1>2

\* A bucket after a checkpoint.
LEMMA CheckpointedType ==
    ASSUME NEW bucket \in Bucket, NEW commitment \in Commitment,
           NEW bits \in Seq(BOOLEAN), now \in Nat
    PROVE  Checkpointed(bucket, commitment, bits) \in Bucket
<1> DEFINE roots == update_historical_roots(bucket.historical_roots, now, commitment)
           snapshot == [commitment |-> commitment, primary_signers |-> bits]
           Root == [quotient : Nat, commitment : Commitment \cup {None}]
           D == 1 .. Len(HISTORICAL_ROOT_PRIMES)
<1>1. bucket.historical_roots \in [D -> Root]
  BY DEF Bucket
<1>2. \A i \in D : now \div HISTORICAL_ROOT_PRIMES[i] \in Nat
  <2>1. \A i \in D : HISTORICAL_ROOT_PRIMES[i] \in Nat \ {0}
    BY ConfigAssumption
  <2> QED BY <2>1, QuotientType
<1>3. roots \in [D -> Root]
  BY <1>1, <1>2 DEF update_historical_roots
<1>4. snapshot \in BucketSnapshot
  BY DEF BucketSnapshot
<1> HIDE DEF roots, snapshot
<1>5. [bucket EXCEPT !.historical_roots = roots, !.snapshot = snapshot] \in Bucket
  BY <1>3, <1>4 DEF Bucket
<1> QED BY <1>5 DEF Checkpointed, roots, snapshot

----------------------------------------------------------------------------
(* Amounts                                                                  *)

\* What is burned at the end of an agreement is part of its payment.
LEMMA BurnAmountType ==
    ASSUME NEW agreement \in StorageAgreement, NEW action \in EndAction
    PROVE  BurnAmount(agreement, action) \in 0 .. agreement.payment_locked
<1>1. agreement.payment_locked \in Nat
  BY DEF StorageAgreement
<1>2. AtMost(action.burn_percent, 100) \in 0 .. 100
  BY DEF EndAction, AtMost
<1> QED BY <1>1, <1>2, PercentageType DEF BurnAmount

\* What an extension settles is part of the agreement's own payment.
LEMMA ElapsedPaymentType ==
    ASSUME NEW agreement \in StorageAgreement, now \in Nat
    PROVE  ElapsedPayment(agreement) \in 0 .. agreement.payment_locked
<1>1. /\ agreement.payment_locked \in Nat /\ agreement.price_per_byte \in Nat
      /\ agreement.max_bytes \in Nat /\ agreement.started_at \in Nat
  BY DEF StorageAgreement
<1>2. saturating_sub(now, agreement.started_at) \in Nat
  BY <1>1 DEF saturating_sub
<1>3. calculate_payment(agreement.price_per_byte, agreement.max_bytes,
                        saturating_sub(now, agreement.started_at)) \in Nat
  BY <1>1, <1>2 DEF calculate_payment
<1> QED BY <1>1, <1>3 DEF ElapsedPayment, AtMost

\* The challenger's share of the deposit is part of the deposit.
LEMMA ChallengerShareType ==
    ASSUME NEW c
    PROVE  /\ (ChallengeDeposit * ChallengerPercent(c)) \div 100 \in Nat
           /\ (ChallengeDeposit * ChallengerPercent(c)) \div 100 <= ChallengeDeposit
<1>1. ChallengerPercent(c) \in 0 .. 100
  BY DEF ChallengerPercent
<1>2. ChallengeDeposit \in Nat
  BY ConfigAssumption
<1> QED BY <1>1, <1>2, PercentageType

----------------------------------------------------------------------------
(* Type correctness                                                         *)

\* What the rest of the proofs use of TypeOK.
LEMMA TypeFacts ==
    ASSUME TypeOK
    PROVE  /\ now \in Nat
           /\ \A p \in Accounts : Providers[p] # None => Providers[p] \in ProviderInfo
           /\ \A b \in BucketIds : Buckets[b] # None => Buckets[b] \in Bucket
           /\ \A b \in BucketIds, p \in Accounts :
                 StorageAgreements[b][p] # None => StorageAgreements[b][p] \in StorageAgreement
BY ConfigAssumption DEF TypeOK

\* A step that leaves the challenge records alone keeps their types.
LEMMA ChallengeTypeUnchanged ==
    ASSUME ChallengeTypeOK, UNCHANGED challengeVars
    PROVE  ChallengeTypeOK'
BY DEF ChallengeTypeOK, challengeVars

\* The same for the counter, the member index and the nonces.
LEMMA IndexTypeUnchanged ==
    ASSUME IndexTypeOK, UNCHANGED indexVars
    PROVE  IndexTypeOK'
BY DEF IndexTypeOK, indexVars

\* The calls of a provider on its own record.
LEMMA ProviderNextType ==
    ASSUME TypeOK, NEW who \in Accounts, ProviderNext(who)
    PROVE  TypeOK'
<1> USE DEF TypeOK
<1> USE ChallengeTypeUnchanged, IndexTypeUnchanged
<1>1. ASSUME NEW stake \in StakeAmounts, register_provider(who, stake) PROVE TypeOK'
  <2>1. stake \in Nat /\ StorageDeposit \in Nat
    BY DataAssumption, ConfigAssumption
  <2>2. Hold(funds, "ProviderStake", who, stake) \in Funds
    <3>1. CanHold(funds, who, stake)
      BY <1>1, <2>1 DEF register_provider, CanHold, Funds
    <3> QED BY <2>1, <3>1, HoldType DEF HoldReasons
  <2>3. CanHold(Hold(funds, "ProviderStake", who, stake), who, StorageDeposit)
    BY <1>1, <2>1 DEF register_provider, CanHold, Hold, Funds
  <2>4. funds' \in Funds
    BY <1>1, <2>1, <2>2, <2>3, HoldType DEF register_provider, HoldReasons
  <2>5. NewProvider(stake, DefaultSettings) \in ProviderInfo
    BY <2>1, DefaultSettingsType, NewProviderType
  <2> QED BY <1>1, <2>4, <2>5 DEF register_provider
<1>2. ASSUME NEW amount \in StakeAmounts, add_stake(who, amount) PROVE TypeOK'
  <2>1. amount \in Nat
    BY DataAssumption
  <2>2. funds' \in Funds
    BY <1>2, <2>1, HoldType DEF add_stake, HoldReasons
  <2>3. Providers[who] \in ProviderInfo
    BY <1>2, TypeFacts DEF add_stake
  <2>4. [Providers[who] EXCEPT !.stake = @ + amount] \in ProviderInfo
    BY <2>1, <2>3 DEF ProviderInfo
  <2> QED BY <1>2, <2>2, <2>4 DEF add_stake
<1>3. ASSUME deregister_provider(who) PROVE TypeOK'
  <2>1. Providers[who] \in ProviderInfo
    BY <1>3, TypeFacts DEF deregister_provider
  <2>2. now + DeregisterAnnouncementPeriod \in Nat
    BY TypeFacts, ConfigAssumption
  <2>3. WithExit(Providers[who], now + DeregisterAnnouncementPeriod) \in ProviderInfo
    BY <2>1, <2>2, WithExitType
  <2> QED BY <1>3, <2>3 DEF deregister_provider
<1>4. ASSUME complete_deregister(who) PROVE TypeOK'
  <2>1. Providers[who] \in ProviderInfo
    BY <1>4, TypeFacts DEF complete_deregister
  <2>2. DropDeposit(funds, who) \in Funds
    BY DropDepositType
  <2>3. CanRelease(DropDeposit(funds, who), "ProviderStake", who, Providers[who].stake)
    BY <1>4, <2>1, BestEffortType
       DEF complete_deregister, CanRelease, DropDeposit, Release, Funds, HoldReasons
  <2>4. funds' \in Funds
    BY <1>4, <2>1, <2>2, <2>3, ReleaseType
       DEF complete_deregister, HoldReasons, ProviderInfo
  <2> QED BY <1>4, <2>4 DEF complete_deregister
<1>5. ASSUME cancel_deregister(who) PROVE TypeOK'
  <2>1. Providers[who] \in ProviderInfo
    BY <1>5, TypeFacts DEF cancel_deregister
  <2>2. WithExit(Providers[who], None) \in ProviderInfo
    BY <2>1, WithExitType
  <2> QED BY <1>5, <2>2 DEF cancel_deregister
<1>6. ASSUME NEW settings \in SettingsChoices, update_provider_settings(who, settings)
      PROVE  TypeOK'
  <2>1. Providers[who] \in ProviderInfo
    BY <1>6, TypeFacts DEF update_provider_settings
  <2>2. [Providers[who] EXCEPT !.settings = settings] \in ProviderInfo
    BY <2>1, DataAssumption DEF ProviderInfo
  <2> QED BY <1>6, <2>2 DEF update_provider_settings
<1>7. ASSUME NEW b \in BucketIds, NEW blocked \in BlockFlags,
             set_extensions_blocked(who, b, blocked)
      PROVE  TypeOK'
  <2>1. StorageAgreements[b][who] \in StorageAgreement
    BY <1>7, TypeFacts DEF set_extensions_blocked
  <2>2. [StorageAgreements[b][who] EXCEPT !.extensions_blocked = blocked]
           \in StorageAgreement
    BY <2>1, DataAssumption DEF StorageAgreement
  <2> QED BY <1>7, <2>2 DEF set_extensions_blocked
<1> QED BY <1>1, <1>2, <1>3, <1>4, <1>5, <1>6, <1>7 DEF ProviderNext

\* A call replaces the record of a bucket by another ...
BucketReplacedIn(b) ==
    /\ Buckets[b] # None
    /\ \E bucket \in Bucket : Buckets' = [Buckets EXCEPT ![b] = bucket]

\* ... or the record of an agreement by one of the same size.
AgreementReplacedIn(b, p) ==
    /\ StorageAgreements[b][p] # None
    /\ \E agreement \in StorageAgreement :
          /\ StorageAgreements' = [StorageAgreements EXCEPT ![b][p] = agreement]
          /\ agreement.max_bytes = StorageAgreements[b][p].max_bytes

\* set_min_providers replaces one well-typed bucket record by another.
LEMMA SetMinProvidersType ==
    ASSUME TypeOK, NEW who \in Accounts, NEW b \in BucketIds,
           NEW n \in MinProvidersChoices, set_min_providers(who, b, n)
    PROVE  TypeOK' /\ BucketReplacedIn(b)
<1>1. Buckets[b] \in Bucket
  BY TypeFacts DEF set_min_providers
<1>2. [Buckets[b] EXCEPT !.min_providers = n] \in Bucket
  BY <1>1, DataAssumption DEF Bucket
<1>3. Buckets' = [Buckets EXCEPT ![b] = [Buckets[b] EXCEPT !.min_providers = n]]
  BY DEF set_min_providers, TypeOK
<1>4. BucketReplacedIn(b)
  BY <1>1, <1>2, <1>3, NoneAssumption DEF BucketReplacedIn
<1>5. TypeOK'
  BY <1>2, ChallengeTypeUnchanged, IndexTypeUnchanged DEF set_min_providers, TypeOK
<1> QED BY <1>4, <1>5

\* So does freeze_bucket: the snapshot it pins has a start.
LEMMA FreezeType ==
    ASSUME TypeOK, NEW who \in Accounts, NEW b \in BucketIds, freeze_bucket(who, b)
    PROVE  TypeOK' /\ BucketReplacedIn(b)
<1>1. Buckets[b] \in Bucket
  BY TypeFacts DEF freeze_bucket
<1>2. Buckets[b].snapshot.commitment.start_seq \in Nat
  BY <1>1 DEF freeze_bucket, Bucket, BucketSnapshot, Commitment
<1>3. [Buckets[b] EXCEPT !.frozen_start_seq = Buckets[b].snapshot.commitment.start_seq]
         \in Bucket
  BY <1>1, <1>2 DEF Bucket
<1>4. Buckets' = [Buckets EXCEPT ![b] =
      [Buckets[b] EXCEPT !.frozen_start_seq = Buckets[b].snapshot.commitment.start_seq]]
  BY DEF freeze_bucket, TypeOK
<1>5. BucketReplacedIn(b)
  BY <1>1, <1>3, <1>4, NoneAssumption DEF BucketReplacedIn
<1>6. TypeOK'
  BY <1>3, ChallengeTypeUnchanged, IndexTypeUnchanged DEF freeze_bucket, TypeOK
<1> QED BY <1>5, <1>6

\* So does set_bucket_visibility.
LEMMA VisibilityType ==
    ASSUME TypeOK, NEW who \in Accounts, NEW b \in BucketIds, NEW v \in Visibilities,
           set_bucket_visibility(who, b, v)
    PROVE  TypeOK' /\ BucketReplacedIn(b)
<1>1. Buckets[b] \in Bucket
  BY TypeFacts DEF set_bucket_visibility
<1>2. [Buckets[b] EXCEPT !.visibility = v] \in Bucket
  BY <1>1, DataAssumption DEF Bucket
<1>3. Buckets' = [Buckets EXCEPT ![b] = [Buckets[b] EXCEPT !.visibility = v]]
  BY DEF set_bucket_visibility, TypeOK
<1>4. BucketReplacedIn(b)
  BY <1>1, <1>2, <1>3, NoneAssumption DEF BucketReplacedIn
<1>5. TypeOK'
  BY <1>2, ChallengeTypeUnchanged, IndexTypeUnchanged DEF set_bucket_visibility, TypeOK
<1> QED BY <1>4, <1>5

\* So does set_member on a member.
LEMMA ChangeRoleType ==
    ASSUME TypeOK, NEW who \in Accounts, NEW b \in BucketIds, NEW member \in Accounts,
           NEW role \in Roles, ChangeRole(who, b, member, role)
    PROVE  TypeOK' /\ BucketReplacedIn(b)
<1>1. Buckets[b] \in Bucket
  BY TypeFacts DEF ChangeRole
<1>2. Buckets[b].members[member] \in Member
  BY <1>1 DEF ChangeRole, IsMember, Bucket
<1>3. [Buckets[b].members[member] EXCEPT !.role = role] \in Member
  BY <1>2, DataAssumption DEF Member
<1>4. [Buckets[b].members EXCEPT ![member].role = role] \in [Accounts -> Member \cup {None}]
  BY <1>1, <1>3 DEF Bucket
<1>5. [Buckets[b] EXCEPT !.members[member].role = role] \in Bucket
  BY <1>1, <1>4 DEF Bucket
<1>6. Buckets' = [Buckets EXCEPT ![b] = [Buckets[b] EXCEPT !.members[member].role = role]]
  BY DEF ChangeRole, TypeOK
<1>7. BucketReplacedIn(b)
  BY <1>1, <1>5, <1>6, NoneAssumption DEF BucketReplacedIn
<1>8. TypeOK'
  BY <1>5, ChallengeTypeUnchanged, IndexTypeUnchanged DEF ChangeRole, TypeOK
<1> QED BY <1>7, <1>8

\* So does set_member on a new account, whose deposit the caller can pay.
LEMMA AddMemberType ==
    ASSUME TypeOK, NEW who \in Accounts, NEW b \in BucketIds, NEW member \in Accounts,
           NEW role \in Roles, AddMember(who, b, member, role)
    PROVE  TypeOK' /\ BucketReplacedIn(b)
<1>1. Buckets[b] \in Bucket
  BY TypeFacts DEF AddMember
<1>2. [role |-> role, depositor |-> who] \in Member
  BY DataAssumption DEF Member
<1>3. [Buckets[b].members EXCEPT ![member] = [role |-> role, depositor |-> who]]
         \in [Accounts -> Member \cup {None}]
  BY <1>1, <1>2 DEF Bucket
<1>4. [Buckets[b] EXCEPT !.members[member] = [role |-> role, depositor |-> who]] \in Bucket
  BY <1>1, <1>3 DEF Bucket
<1>5. funds' \in Funds
  BY HoldType, ConfigAssumption DEF AddMember, HoldReasons, TypeOK
<1>6. IndexTypeOK'
  BY DEF AddMember, IndexTypeOK, TypeOK
<1>7. Buckets' = [Buckets EXCEPT ![b] =
      [Buckets[b] EXCEPT !.members[member] = [role |-> role, depositor |-> who]]]
  BY DEF AddMember, TypeOK
<1>8. BucketReplacedIn(b)
  BY <1>1, <1>4, <1>7, NoneAssumption DEF BucketReplacedIn
<1>9. TypeOK'
  BY <1>4, <1>5, <1>6, ChallengeTypeUnchanged, IndexTypeUnchanged DEF AddMember, TypeOK
<1> QED BY <1>8, <1>9

\* So does remove_member, which returns the entry's deposit.
LEMMA RemoveMemberType ==
    ASSUME TypeOK, NEW who \in Accounts, NEW b \in BucketIds, NEW member \in Accounts,
           remove_member(who, b, member)
    PROVE  TypeOK' /\ BucketReplacedIn(b)
<1>1. Buckets[b] \in Bucket
  BY TypeFacts DEF remove_member
<1>2. Buckets[b].members[member].depositor \in Accounts
  BY <1>1 DEF remove_member, IsMember, Bucket, Member
<1>3. [Buckets[b] EXCEPT !.members[member] = None] \in Bucket
  BY <1>1 DEF Bucket
<1>4. funds' \in Funds
  BY <1>2, DropDepositType DEF remove_member, TypeOK
<1>5. IndexTypeOK'
  BY DEF remove_member, IndexTypeOK, TypeOK
<1>6. Buckets' = [Buckets EXCEPT ![b] = [Buckets[b] EXCEPT !.members[member] = None]]
  BY DEF remove_member, TypeOK
<1>7. BucketReplacedIn(b)
  BY <1>1, <1>3, <1>6, NoneAssumption DEF BucketReplacedIn
<1>8. TypeOK'
  BY <1>3, <1>4, <1>5, ChallengeTypeUnchanged, IndexTypeUnchanged DEF remove_member, TypeOK
<1> QED BY <1>7, <1>8

\* So does checkpoint: one signer bit per primary.
LEMMA CheckpointType ==
    ASSUME TypeOK, NEW who \in Accounts, NEW b \in BucketIds, NEW c \in Commitments, NEW
           signers \in SUBSET Accounts, checkpoint(who, b, c, signers)
    PROVE  TypeOK' /\ BucketReplacedIn(b)
<1>1. Buckets[b] \in Bucket
  BY TypeFacts DEF checkpoint
<1> DEFINE bits == [i \in DOMAIN Buckets[b].primary_providers |->
                       Buckets[b].primary_providers[i] \in signers]
<1>2. bits \in Seq(BOOLEAN)
  <2>1. Buckets[b].primary_providers \in Seq(Accounts)
    BY <1>1 DEF Bucket
  <2>2. bits \in [1 .. Len(Buckets[b].primary_providers) -> BOOLEAN]
    BY <2>1
  <2>3. Len(Buckets[b].primary_providers) \in Nat
    BY <2>1
  <2> HIDE DEF bits
  <2> QED BY <2>2, <2>3, FunctionIsSeq
<1>3. Checkpointed(Buckets[b], c, bits) \in Bucket
  BY <1>1, <1>2, TypeFacts, CheckpointedType, DataAssumption
<1>4. Buckets' = [Buckets EXCEPT ![b] = Checkpointed(@, c, bits)]
  BY DEF checkpoint
<1> HIDE DEF bits
<1>5. Buckets' = [Buckets EXCEPT ![b] = Checkpointed(Buckets[b], c, bits)]
  BY <1>4 DEF checkpoint, TypeOK
<1>6. BucketReplacedIn(b)
  BY <1>1, <1>3, <1>5, NoneAssumption DEF BucketReplacedIn
<1>7. TypeOK'
  BY <1>3, <1>4, ChallengeTypeUnchanged, IndexTypeUnchanged DEF checkpoint, TypeOK
<1> QED BY <1>6, <1>7

\* So does extend_checkpoint.
LEMMA ExtendCheckpointType ==
    ASSUME TypeOK, NEW who \in Accounts, NEW b \in BucketIds, NEW signers \in SUBSET
           Accounts, extend_checkpoint(who, b, signers)
    PROVE  TypeOK' /\ BucketReplacedIn(b)
<1>1. Buckets[b] \in Bucket
  BY TypeFacts DEF extend_checkpoint
<1> DEFINE bits == [i \in DOMAIN Buckets[b].snapshot.primary_signers |->
                       \/ Buckets[b].snapshot.primary_signers[i]
                       \/ Buckets[b].primary_providers[i] \in signers]
<1>2. Buckets[b].snapshot \in BucketSnapshot
  BY <1>1 DEF extend_checkpoint, Bucket
<1>3. bits \in Seq(BOOLEAN)
  <2>1. Buckets[b].snapshot.primary_signers \in Seq(BOOLEAN)
    BY <1>2 DEF BucketSnapshot
  <2>2. bits \in [1 .. Len(Buckets[b].snapshot.primary_signers) -> BOOLEAN]
    BY <2>1
  <2>3. Len(Buckets[b].snapshot.primary_signers) \in Nat
    BY <2>1
  <2> HIDE DEF bits
  <2> QED BY <2>2, <2>3, FunctionIsSeq
<1>4. Buckets' = [Buckets EXCEPT ![b].snapshot.primary_signers = bits]
  BY DEF extend_checkpoint
<1> HIDE DEF bits
<1>5. [Buckets[b].snapshot EXCEPT !.primary_signers = bits] \in BucketSnapshot
  BY <1>2, <1>3, SnapshotType
<1>6. [Buckets[b] EXCEPT !.snapshot.primary_signers = bits] \in Bucket
  BY <1>1, <1>5 DEF Bucket
<1>7. Buckets' = [Buckets EXCEPT ![b] = [Buckets[b] EXCEPT !.snapshot.primary_signers = bits]]
  BY <1>4 DEF extend_checkpoint, TypeOK
<1>8. BucketReplacedIn(b)
  BY <1>1, <1>6, <1>7, NoneAssumption DEF BucketReplacedIn
<1>9. TypeOK'
  BY <1>4, <1>6, ChallengeTypeUnchanged, IndexTypeUnchanged DEF extend_checkpoint, TypeOK
<1> QED BY <1>8, <1>9

\* The calls on buckets, members and checkpoints.
LEMMA BucketNextType ==
    ASSUME TypeOK, NEW who \in Accounts, BucketNext(who)
    PROVE  TypeOK'
<1> USE DEF TypeOK
<1> USE ChallengeTypeUnchanged, IndexTypeUnchanged
<1>1. ASSUME NEW n \in MinProvidersChoices, NEW v \in Visibilities,
             create_bucket(who, n, v)
      PROVE  TypeOK'
  <2>0. <<>> \in Seq(Accounts)
    OBVIOUS
  <2>1. NewBucket(who, n, <<>>, v) \in Bucket
    BY <2>0, NewBucketType, DataAssumption
  <2>2. 2 * StorageDeposit \in Nat
    BY ConfigAssumption
  <2>3. funds' \in Funds
    BY <1>1, <2>2, HoldType DEF create_bucket, HoldReasons
  <2>4. IndexTypeOK'
    BY <1>1, ConfigAssumption
       DEF create_bucket, CanCreateBucket, CreateBucketInternal, IndexTypeOK, BucketIds
  <2> QED BY <1>1, <2>1, <2>3, <2>4 DEF create_bucket, CreateBucketInternal
<1>2. ASSUME NEW b \in BucketIds, delete_bucket(who, b) PROVE TypeOK'
  <2>1. [a \in Accounts |-> BucketTickets(Buckets[b], a)] \in [Accounts -> Nat]
    BY BucketTicketsType
  <2>2. funds' \in Funds
    BY <1>2, <2>1, DropDepositsType DEF delete_bucket
  <2>3. IndexTypeOK'
    BY <1>2 DEF delete_bucket, RemoveFromMemberIndexes, IndexTypeOK
  <2> QED BY <1>2, <2>2, <2>3 DEF delete_bucket
<1>3. ASSUME NEW b \in BucketIds, NEW n \in MinProvidersChoices,
             set_min_providers(who, b, n)
      PROVE  TypeOK'
  BY <1>3, SetMinProvidersType
<1>4. ASSUME NEW b \in BucketIds, freeze_bucket(who, b) PROVE TypeOK'
  BY <1>4, FreezeType
<1>5. ASSUME NEW b \in BucketIds, NEW v \in Visibilities, set_bucket_visibility(who, b, v)
      PROVE  TypeOK'
  BY <1>5, VisibilityType
<1>6. ASSUME NEW b \in BucketIds, NEW member \in Accounts, NEW role \in Roles,
             ChangeRole(who, b, member, role)
      PROVE  TypeOK'
  BY <1>6, ChangeRoleType
<1>7. ASSUME NEW b \in BucketIds, NEW member \in Accounts, NEW role \in Roles,
             AddMember(who, b, member, role)
      PROVE  TypeOK'
  BY <1>7, AddMemberType
<1>8. ASSUME NEW b \in BucketIds, NEW member \in Accounts, remove_member(who, b, member)
      PROVE  TypeOK'
  BY <1>8, RemoveMemberType
<1>9. ASSUME NEW b \in BucketIds, NEW c \in Commitments, NEW signers \in SUBSET Accounts,
             checkpoint(who, b, c, signers)
      PROVE  TypeOK'
  BY <1>9, CheckpointType
<1>10. ASSUME NEW b \in BucketIds, NEW signers \in SUBSET Accounts,
              extend_checkpoint(who, b, signers)
       PROVE  TypeOK'
  BY <1>10, ExtendCheckpointType
<1> QED BY <1>1, <1>2, <1>3, <1>4, <1>5, <1>6, <1>7, <1>8, <1>9, <1>10
        DEF BucketNext, set_member

\* The hold, the committed bytes and the record of a redeemed quote.
LEMMA InsertAgreementType ==
    ASSUME TypeOK, NEW q \in Quotes, NEW b \in BucketIds, NEW tickets \in Nat,
           Providers[q.provider] # None, insert_agreement(b, q, tickets)
    PROVE  /\ funds' \in Funds
           /\ Providers' \in [Accounts -> ProviderInfo \cup {None}]
           /\ StorageAgreements' \in [BucketIds -> [Accounts -> StorageAgreement \cup {None}]]
<1>1. q \in Quote /\ q.owner \in Accounts /\ q.provider \in Accounts /\ q.max_bytes \in Nat
  BY DataAssumption DEF Quote
<1>2. NewAgreement(q) \in StorageAgreement /\ TotalHold(q) \in Nat
  BY <1>1, TypeFacts, NewAgreementType
<1>3. tickets * StorageDeposit \in Nat
  BY ConfigAssumption
<1> DEFINE held == Hold(funds, "AgreementPayment", q.owner, TotalHold(q))
<1>4. CanHold(funds, q.owner, TotalHold(q))
  BY <1>1, <1>2, <1>3 DEF insert_agreement, CanHold, TypeOK, Funds
<1>5. held \in Funds
  BY <1>1, <1>2, <1>4, HoldType DEF TypeOK, HoldReasons
<1>6. CanHold(held, q.owner, tickets * StorageDeposit)
  BY <1>1, <1>2, <1>3 DEF insert_agreement, CanHold, Hold, TypeOK, Funds
<1>7. funds' \in Funds
  <2> HIDE DEF held
  <2>1. Hold(held, "StorageDeposit", q.owner, tickets * StorageDeposit) \in Funds
    BY <1>1, <1>3, <1>5, <1>6, HoldType DEF HoldReasons
  <2> QED BY <2>1 DEF insert_agreement, held
<1>8. Providers[q.provider] \in ProviderInfo
  BY <1>1, TypeFacts
<1>9. [Providers[q.provider] EXCEPT !.committed_bytes = @ + q.max_bytes] \in ProviderInfo
  BY <1>1, <1>8 DEF ProviderInfo
<1> QED BY <1>1, <1>2, <1>7, <1>9 DEF insert_agreement, TypeOK

\* The calls that redeem a signed quote.
LEMMA QuoteNextType ==
    ASSUME TypeOK, NEW who \in Accounts, QuoteNext(who)
    PROVE  TypeOK'
<1> USE DEF TypeOK
<1> USE ChallengeTypeUnchanged
<1>1. ASSUME NEW q \in Quotes, NEW v \in Visibilities,
             create_bucket_with_primary(who, q, v)
      PROVE  TypeOK'
  <2>1. q.provider \in Accounts
    BY DataAssumption DEF Quote
  <2>2. NextBucketId \in BucketIds /\ Providers[q.provider] # None
    BY <1>1 DEF create_bucket_with_primary, CanCreateBucket, accept_quote
  <2>3. <<q.provider>> \in Seq(Accounts)
    BY <2>1
  <2>4. NewBucket(who, 1, <<q.provider>>, v) \in Bucket
    BY <2>3, NewBucketType, DataAssumption
  <2>5. Buckets' \in [BucketIds -> Bucket \cup {None}]
    BY <1>1, <2>4 DEF create_bucket_with_primary, CreateBucketInternal
  <2>6. IndexTypeOK'
    <3>1. NextBucketId' \in 0 .. MaxBuckets
      BY <1>1, <2>2, ConfigAssumption
         DEF create_bucket_with_primary, CreateBucketInternal, BucketIds
    <3>2. MemberBuckets' \in [Accounts -> SUBSET BucketIds]
      BY <1>1, <2>2 DEF create_bucket_with_primary, CreateBucketInternal, IndexTypeOK
    <3>3. AgreementNonces' \in [Accounts -> Nat]
      BY <1>1 DEF create_bucket_with_primary, accept_quote, IndexTypeOK
    <3> QED BY <3>1, <3>2, <3>3 DEF IndexTypeOK
  <2>7. insert_agreement(NextBucketId, q, 3)
    BY <1>1 DEF create_bucket_with_primary
  <2> QED BY <1>1, <2>2, <2>5, <2>6, <2>7, InsertAgreementType
          DEF create_bucket_with_primary
<1>2. ASSUME NEW q \in Quotes, NEW b \in BucketIds, add_primary_provider(who, b, q)
      PROVE  TypeOK'
  <2>1. q.provider \in Accounts
    BY DataAssumption DEF Quote
  <2>2. Buckets[b] \in Bucket /\ Providers[q.provider] # None
    BY <1>2, TypeFacts DEF add_primary_provider, accept_quote
  <2>3. AppendPrimary(Buckets[b], q.provider) \in Bucket
    BY <2>1, <2>2, AppendPrimaryType
  <2>4. Buckets' \in [BucketIds -> Bucket \cup {None}]
    BY <1>2, <2>3 DEF add_primary_provider
  <2>5. IndexTypeOK'
    BY <1>2 DEF add_primary_provider, accept_quote, IndexTypeOK
  <2>6. insert_agreement(b, q, 1)
    BY <1>2 DEF add_primary_provider
  <2> QED BY <1>2, <2>2, <2>4, <2>5, <2>6, InsertAgreementType DEF add_primary_provider
<1>3. ASSUME NEW q \in Quotes, NEW b \in BucketIds, add_replica_provider(who, b, q)
      PROVE  TypeOK'
  <2>1. Providers[q.provider] # None
    BY <1>3 DEF add_replica_provider, accept_quote
  <2>2. IndexTypeOK'
    BY <1>3 DEF add_replica_provider, accept_quote, IndexTypeOK
  <2>3. insert_agreement(b, q, 1)
    BY <1>3 DEF add_replica_provider
  <2> QED BY <1>3, <2>1, <2>2, <2>3, InsertAgreementType DEF add_replica_provider
<1> QED BY <1>1, <1>2, <1>3 DEF QuoteNext

\* The end of an agreement: bytes, primary's place, record and deposit.
LEMMA CloseAgreementType ==
    ASSUME TypeOK, NEW b \in BucketIds, NEW p \in Accounts,
           StorageAgreements[b][p] # None, NEW f \in Funds, CloseAgreement(b, p, f)
    PROVE  TypeOK'
<1> DEFINE agreement == StorageAgreements[b][p]
<1>1. agreement \in StorageAgreement /\ agreement.depositor \in Accounts
  BY TypeFacts DEF StorageAgreement
<1>2. Providers' \in [Accounts -> ProviderInfo \cup {None}]
  <2>1. Providers[p] # None => FreeBytes(Providers[p], agreement) \in ProviderInfo
    BY <1>1, TypeFacts, FreeBytesType
  <2> QED BY <2>1 DEF CloseAgreement, TypeOK
<1>3. Buckets' \in [BucketIds -> Bucket \cup {None}]
  <2>1. Buckets[b] # None => remove_primary_from_bucket(Buckets[b], p) \in Bucket
    BY TypeFacts, RemovePrimaryType
  <2> QED BY <2>1 DEF CloseAgreement, TypeOK
<1>4. StorageAgreements' \in [BucketIds -> [Accounts -> StorageAgreement \cup {None}]]
  BY DEF CloseAgreement, TypeOK
<1>5. funds' \in Funds
  BY <1>1, DropDepositType DEF CloseAgreement
<1> QED BY <1>2, <1>3, <1>4, <1>5, ChallengeTypeUnchanged, IndexTypeUnchanged
        DEF CloseAgreement, TypeOK

\* Settlement pays the provider, the treasury and the owner out of the
\* agreement's own escrow.
LEMMA FinalizeAgreementType ==
    ASSUME TypeOK, NEW b \in BucketIds, NEW p \in Accounts, NEW action \in EndAction,
           StorageAgreements[b][p] # None, finalize_agreement(b, p, action)
    PROVE  TypeOK'
<1> DEFINE agreement == StorageAgreements[b][p]
           owner == agreement.owner
           to_burn == BurnAmount(agreement, action)
           to_provider == saturating_sub(agreement.payment_locked, to_burn)
           paid == Settle(funds, "AgreementPayment", owner, p, to_provider)
           burned == Settle(paid, "AgreementPayment", owner, Treasury, to_burn)
           returned == Release(burned, "AgreementPayment", owner, agreement.sync_balance)
<1>1. /\ agreement \in StorageAgreement /\ owner \in Accounts
      /\ agreement.payment_locked \in Nat /\ agreement.sync_balance \in Nat
  BY TypeFacts DEF StorageAgreement
<1>2. to_burn \in Nat /\ to_burn <= agreement.payment_locked
  BY <1>1, BurnAmountType
<1>3. to_provider \in Nat /\ to_provider + to_burn = agreement.payment_locked
  BY <1>1, <1>2 DEF saturating_sub
<1>4. to_provider + to_burn + agreement.sync_balance
         <= funds.held["AgreementPayment"][owner]
  BY <1>1, <1>3 DEF finalize_agreement, CanRelease, escrow
<1>5. CloseAgreement(b, p, returned)
  BY DEF finalize_agreement
<1>6. funds \in Funds /\ funds.held["AgreementPayment"][owner] \in Nat
  BY <1>1 DEF TypeOK, Funds, HoldReasons
<1> HIDE DEF to_burn, to_provider, owner
<1>7. /\ paid \in Funds
      /\ paid.held["AgreementPayment"][owner]
            = funds.held["AgreementPayment"][owner] - to_provider
  <2>1. CanRelease(funds, "AgreementPayment", owner, to_provider)
    BY <1>1, <1>2, <1>3, <1>4, <1>6 DEF CanRelease
  <2> QED BY <1>1, <1>3, <1>6, <2>1, SettleType DEF HoldReasons
<1> HIDE DEF paid
<1>8. /\ burned \in Funds
      /\ burned.held["AgreementPayment"][owner]
            = paid.held["AgreementPayment"][owner] - to_burn
  <2>1. CanRelease(paid, "AgreementPayment", owner, to_burn)
    BY <1>1, <1>2, <1>3, <1>4, <1>6, <1>7 DEF CanRelease
  <2>2. Treasury \in Accounts \cup {Treasury} /\ "AgreementPayment" \in HoldReasons
    BY DEF HoldReasons
  <2> QED BY <1>1, <1>2, <1>7, <2>1, <2>2, SettleType
<1> HIDE DEF burned
<1>9. returned \in Funds
  <2>1. CanRelease(burned, "AgreementPayment", owner, agreement.sync_balance)
    BY <1>1, <1>2, <1>3, <1>4, <1>6, <1>7, <1>8 DEF CanRelease
  <2> QED BY <1>1, <1>8, <2>1, ReleaseType DEF HoldReasons
<1> HIDE DEF returned
<1> QED BY <1>5, <1>9, CloseAgreementType

\* extend_agreement pays from the escrow no more than it has, and the record
\* stays as large as it was.
LEMMA ExtendType ==
    ASSUME TypeOK, NEW who \in Accounts, NEW b \in BucketIds, NEW p \in Accounts, NEW d
           \in Durations, NEW m \in PaymentLimits, extend_agreement(who, b, p, d, m)
    PROVE  TypeOK' /\ AgreementReplacedIn(b, p)
<1> DEFINE agreement == StorageAgreements[b][p]
           settings == Providers[p].settings
           elapsed == ElapsedPayment(agreement)
           settled == Settle(funds, "AgreementPayment", agreement.owner, p, elapsed)
           payment == calculate_payment(settings.price_per_byte, agreement.max_bytes, d)
           locked == saturating_sub(agreement.payment_locked, elapsed) + payment
<1>1. Providers[p] \in ProviderInfo /\ agreement \in StorageAgreement
  BY TypeFacts DEF extend_agreement
<1>2. /\ settings \in ProviderSettings /\ settings.price_per_byte \in Nat
      /\ agreement.owner \in Accounts /\ agreement.max_bytes \in Nat
      /\ agreement.payment_locked \in Nat
      /\ d \in Nat /\ now \in Nat
  BY <1>1, TypeFacts, DataAssumption DEF ProviderInfo, ProviderSettings, StorageAgreement
<1>3. elapsed \in Nat
  BY <1>1, <1>2, ElapsedPaymentType
<1>4. payment \in Nat
  BY <1>2 DEF calculate_payment
<1>5. /\ CanRelease(funds, "AgreementPayment", agreement.owner, elapsed)
      /\ CanHold(settled, who, payment)
      /\ agreement.role = "Replica" => settings.replica_sync_price # None
      /\ funds' = HoldPaymentFrom(settled, who, agreement.owner, payment)
      /\ StorageAgreements' = [StorageAgreements EXCEPT ![b][p] =
                                  Extended(agreement, settings, d, locked)]
  BY DEF extend_agreement
<1> HIDE DEF elapsed, payment
<1>6. settled \in Funds
  BY <1>2, <1>3, <1>5, SettleType DEF TypeOK, HoldReasons
<1>7. locked \in Nat
  BY <1>2, <1>3, <1>4 DEF saturating_sub
<1> HIDE DEF settled, locked
<1>8. funds' \in Funds
  BY <1>2, <1>4, <1>5, <1>6, HoldPaymentFromType
<1>9. Extended(agreement, settings, d, locked) \in StorageAgreement
  BY <1>1, <1>2, <1>5, <1>7, ExtendedType
<1>10. StorageAgreements' \in [BucketIds -> [Accounts -> StorageAgreement \cup {None}]]
  BY <1>5, <1>9 DEF TypeOK
<1>11. Extended(agreement, settings, d, locked).max_bytes = agreement.max_bytes
  BY <1>1 DEF Extended, StorageAgreement
<1>12. AgreementReplacedIn(b, p)
  BY <1>5, <1>9, <1>11, <1>1, NoneAssumption DEF AgreementReplacedIn
<1>13. TypeOK'
  BY <1>8, <1>10, ChallengeTypeUnchanged, IndexTypeUnchanged
     DEF extend_agreement, TypeOK
<1> QED BY <1>12, <1>13

\* transfer_agreement_ownership moves the escrow's hold with the record.
LEMMA TransferType ==
    ASSUME TypeOK, NEW who \in Accounts, NEW b \in BucketIds, NEW p \in Accounts, NEW a
           \in NewOwners, transfer_agreement_ownership(who, b, p, a)
    PROVE  TypeOK' /\ AgreementReplacedIn(b, p)
<1> DEFINE agreement == StorageAgreements[b][p]
<1>0. /\ agreement \in StorageAgreement /\ a # who
  BY TypeFacts DEF transfer_agreement_ownership
<1>1. a \in Accounts /\ escrow(agreement) \in Nat
  <2>1. a \in Accounts
    BY DataAssumption
  <2>2. agreement.payment_locked \in Nat /\ agreement.sync_balance \in Nat
    BY <1>0 DEF StorageAgreement
  <2> QED BY <2>1, <2>2 DEF escrow
<1>2. /\ CanRelease(funds, "AgreementPayment", who, escrow(agreement))
      /\ funds' = TransferPaymentOnHold(funds, who, a, escrow(agreement))
  BY DEF transfer_agreement_ownership
<1>3. funds' \in Funds
  BY <1>0, <1>1, <1>2, TransferPaymentOnHoldType DEF TypeOK
<1>4. [agreement EXCEPT !.owner = a] \in StorageAgreement
  BY <1>0, <1>1 DEF StorageAgreement
<1>5. /\ StorageAgreements' = [StorageAgreements EXCEPT ![b][p] = [agreement EXCEPT !.owner = a]]
      /\ [agreement EXCEPT !.owner = a].max_bytes = agreement.max_bytes
  BY <1>0 DEF transfer_agreement_ownership, StorageAgreement
<1>6. AgreementReplacedIn(b, p)
  BY <1>4, <1>5, <1>0, NoneAssumption DEF AgreementReplacedIn
<1>7. TypeOK'
  BY <1>3, <1>4, ChallengeTypeUnchanged, IndexTypeUnchanged
     DEF transfer_agreement_ownership, TypeOK
<1> QED BY <1>6, <1>7

\* confirm_replica_sync pays out of the hold and notes the matched root.
LEMMA ConfirmSyncType ==
    ASSUME TypeOK, NEW who \in Accounts, NEW b \in BucketIds, NEW i \in 0 ..
           Len(HISTORICAL_ROOT_PRIMES), confirm_replica_sync(who, b, i)
    PROVE  TypeOK' /\ AgreementReplacedIn(b, who)
<1> DEFINE agreement == StorageAgreements[b][who]
           matched == RootAt(Buckets[b], i)
<1>1. agreement \in StorageAgreement /\ Buckets[b] \in Bucket
  BY TypeFacts DEF confirm_replica_sync
<1>2. agreement.owner \in Accounts /\ agreement.sync_price \in Nat
  BY <1>1 DEF StorageAgreement
<1>3. matched \in Commitment
  <2>1. matched # None
    BY DEF confirm_replica_sync
  <2>2. CASE i > 0
    <3>1. i \in 1 .. Len(HISTORICAL_ROOT_PRIMES)
      BY <2>2, ConfigAssumption
    <3> QED BY <1>1, <2>1, <2>2, <3>1 DEF RootAt, Bucket
  <2>3. CASE ~(i > 0)
    BY <1>1, <2>1, <2>3 DEF RootAt, Bucket, BucketSnapshot
  <2> QED BY <2>2, <2>3
<1>4. Synced(agreement, matched) \in StorageAgreement
  BY <1>1, <1>3, TypeFacts, SyncedType
<1>5. /\ CanRelease(funds, "AgreementPayment", agreement.owner, agreement.sync_price)
      /\ funds' = Settle(funds, "AgreementPayment", agreement.owner, who,
                          agreement.sync_price)
      /\ StorageAgreements' = [StorageAgreements EXCEPT ![b][who] = Synced(@, matched)]
  BY DEF confirm_replica_sync
<1>6. funds' \in Funds
  BY <1>2, <1>5, SettleType DEF TypeOK, HoldReasons
<1> HIDE DEF matched
<1>7. Synced(agreement, matched).max_bytes = agreement.max_bytes
  BY <1>1 DEF Synced, StorageAgreement
<1>8. AgreementReplacedIn(b, who)
  BY <1>4, <1>5, <1>7, <1>1, NoneAssumption DEF AgreementReplacedIn
<1>9. TypeOK'
  BY <1>4, <1>5, <1>6, ChallengeTypeUnchanged, IndexTypeUnchanged
     DEF confirm_replica_sync, TypeOK
<1> QED BY <1>8, <1>9

\* top_up_replica_sync_balance adds to the hold and to the record.
LEMMA TopUpSyncType ==
    ASSUME TypeOK, NEW who \in Accounts, NEW b \in BucketIds, NEW p \in Accounts, NEW n
           \in SyncAmounts, top_up_replica_sync_balance(who, b, p, n)
    PROVE  TypeOK' /\ AgreementReplacedIn(b, p)
<1>1. /\ StorageAgreements[b][p] \in StorageAgreement /\ n \in Nat
      /\ StorageAgreements[b][p].owner \in Accounts
  BY TypeFacts, DataAssumption DEF top_up_replica_sync_balance, StorageAgreement
<1>2. funds' \in Funds
  BY <1>1, HoldPaymentFromType DEF top_up_replica_sync_balance, TypeOK
<1>3. [StorageAgreements[b][p] EXCEPT !.sync_balance = @ + n] \in StorageAgreement
  BY <1>1 DEF StorageAgreement
<1> DEFINE enlarged == [StorageAgreements[b][p] EXCEPT
                          !.sync_balance = StorageAgreements[b][p].sync_balance + n]
<1>4. /\ StorageAgreements' = [StorageAgreements EXCEPT ![b][p] = enlarged]
      /\ enlarged.max_bytes = StorageAgreements[b][p].max_bytes
  BY <1>1 DEF top_up_replica_sync_balance, StorageAgreement, TypeOK
<1>5. AgreementReplacedIn(b, p)
  BY <1>3, <1>4, <1>1, NoneAssumption DEF AgreementReplacedIn
<1>6. TypeOK'
  BY <1>2, <1>3, ChallengeTypeUnchanged, IndexTypeUnchanged
     DEF top_up_replica_sync_balance, TypeOK
<1> QED BY <1>5, <1>6

\* The calls on existing agreements.
LEMMA AgreementNextType ==
    ASSUME TypeOK, NEW who \in Accounts, AgreementNext(who)
    PROVE  TypeOK'
<1> USE ChallengeTypeUnchanged, IndexTypeUnchanged
<1>1. ASSUME NEW b \in BucketIds, claim_expired_agreement(who, b) PROVE TypeOK'
  <2>1. [kind |-> "Pay", burn_percent |-> 0] \in EndAction
    BY DEF EndAction
  <2> QED BY <1>1, <2>1, FinalizeAgreementType DEF claim_expired_agreement
<1>2. ASSUME NEW b \in BucketIds, NEW p \in Accounts, NEW action \in EndActions,
             end_agreement(who, b, p, action)
      PROVE  TypeOK'
  <2>1. action \in EndAction
    BY DataAssumption
  <2> QED BY <1>2, <2>1, FinalizeAgreementType DEF end_agreement
<1>3. ASSUME NEW b \in BucketIds, NEW p \in Accounts, NEW n \in ByteAmounts,
             NEW m \in PaymentLimits, top_up_agreement(who, b, p, n, m)
      PROVE  TypeOK'
  <2> DEFINE agreement == StorageAgreements[b][p]
             payment == calculate_payment(Providers[p].settings.price_per_byte, n,
                                          agreement.expires_at - now)
  <2>1. Providers[p] \in ProviderInfo /\ agreement \in StorageAgreement
    BY <1>3, TypeFacts DEF top_up_agreement
  <2>2. n \in Nat
    BY DataAssumption
  <2>3. payment \in Nat
    <3>1. Providers[p].settings.price_per_byte \in Nat
      BY <2>1 DEF ProviderInfo, ProviderSettings
    <3>2. agreement.expires_at - now \in Nat
      BY <1>3, <2>1, TypeFacts DEF top_up_agreement, StorageAgreement
    <3> HIDE DEF agreement
    <3> QED BY <2>2, <3>1, <3>2 DEF calculate_payment
  <2>4. /\ CanHold(funds, who, payment)
        /\ agreement.owner = who
        /\ funds' = HoldPaymentFrom(funds, who, agreement.owner, payment)
        /\ StorageAgreements' =
              [StorageAgreements EXCEPT ![b][p] = Enlarged(@, n, payment)]
    BY <1>3 DEF top_up_agreement
  <2> HIDE DEF payment
  <2>5. funds' \in Funds
    BY <2>3, <2>4, HoldPaymentFromType DEF TypeOK
  <2>6. Enlarged(agreement, n, payment) \in StorageAgreement
    BY <2>1, <2>2, <2>3, EnlargedType
  <2>7. StorageAgreements' \in [BucketIds -> [Accounts -> StorageAgreement \cup {None}]]
    BY <2>4, <2>6 DEF TypeOK
  <2>8. [Providers[p] EXCEPT !.committed_bytes = @ + n] \in ProviderInfo
    BY <2>1, <2>2 DEF ProviderInfo
  <2>9. Providers' \in [Accounts -> ProviderInfo \cup {None}]
    BY <1>3, <2>8 DEF top_up_agreement, TypeOK
  <2> QED BY <1>3, <2>5, <2>7, <2>9 DEF top_up_agreement, TypeOK
<1>4. ASSUME NEW b \in BucketIds, NEW p \in Accounts, NEW d \in Durations,
             NEW m \in PaymentLimits, extend_agreement(who, b, p, d, m)
      PROVE  TypeOK'
  BY <1>4, ExtendType
<1>5. ASSUME NEW b \in BucketIds, NEW p \in Accounts, NEW a \in NewOwners,
             transfer_agreement_ownership(who, b, p, a)
      PROVE  TypeOK'
  BY <1>5, TransferType
<1>6. ASSUME NEW b \in BucketIds, NEW i \in 0 .. Len(HISTORICAL_ROOT_PRIMES),
             confirm_replica_sync(who, b, i)
      PROVE  TypeOK'
  BY <1>6, ConfirmSyncType
<1>7. ASSUME NEW b \in BucketIds, NEW p \in Accounts, NEW n \in SyncAmounts,
             top_up_replica_sync_balance(who, b, p, n)
      PROVE  TypeOK'
  BY <1>7, TopUpSyncType
<1> QED BY <1>1, <1>2, <1>3, <1>4, <1>5, <1>6, <1>7 DEF AgreementNext

\* A new challenge: its record, its counters and the challenger's deposit.
LEMMA CreateChallengeType ==
    ASSUME TypeOK, NEW who \in Accounts, NEW b \in BucketIds, NEW p \in Accounts,
           NEW c \in Commitment, NEW leaf_index \in LeafIndices,
           create_challenge(who, b, p, c, leaf_index)
    PROVE  TypeOK'
<1> DEFINE id == [deadline |-> Expiry, index |-> AllocateIndex(Expiry)]
           challenge ==
              [bucket_id |-> b, provider |-> p, challenger |-> who,
               commitment |-> c, leaf_index |-> leaf_index,
               authorized |-> is_authorized(who, b), created_at |-> now]
<1>1. now \in Nat /\ Expiry \in Nat /\ Expiry \in Deadlines
  <2>1. Expiry < MaxBlock
    BY DEF create_challenge
  <2> QED BY <2>1, TypeFacts, ConfigAssumption DEF Expiry, Deadlines
<1>2. id \in ChallengeId
  BY <1>1 DEF TypeOK, ChallengeTypeOK, AllocateIndex, ChallengeId
<1>3. challenge \in Challenge
  BY <1>1, DataAssumption DEF Challenge, is_authorized, IsMember
<1>4. Challenges' = [x \in DOMAIN Challenges \cup {id} |->
                        IF x = id THEN challenge ELSE Challenges[x]]
  BY DEF create_challenge
<1>5. funds' \in Funds
  BY HoldType, ConfigAssumption DEF create_challenge, TypeOK, HoldReasons
<1> HIDE DEF id, challenge
<1>6. ChallengeTypeOK'
  <2>1. DOMAIN Challenges' = DOMAIN Challenges \cup {id}
    BY <1>4
  <2>2. IsFiniteSet(DOMAIN Challenges')
    <3>1. IsFiniteSet(DOMAIN Challenges)
      BY DEF TypeOK, ChallengeTypeOK
    <3>2. IsFiniteSet(DOMAIN Challenges \cup {id})
      BY <3>1, FS_AddElement
    <3> QED BY <2>1, <3>2
  <2>3. DOMAIN Challenges' \subseteq ChallengeId
    BY <1>2, <2>1 DEF TypeOK, ChallengeTypeOK
  <2>4. \A x \in DOMAIN Challenges' : Challenges'[x] \in Challenge
    BY <1>3, <1>4, <2>1 DEF TypeOK, ChallengeTypeOK
  <2>5. NextChallengeIndex' \in [Deadlines -> 0 .. MaxChallengesPerDeadline]
    <3>1. /\ NextChallengeIndex' = [NextChallengeIndex EXCEPT ![Expiry] = @ + 1]
          /\ NextChallengeIndex[Expiry] < MaxChallengesPerDeadline
          /\ NextChallengeIndex \in [Deadlines -> 0 .. MaxChallengesPerDeadline]
      BY DEF create_challenge, HasRoom, TypeOK, ChallengeTypeOK
    <3>2. NextChallengeIndex[Expiry] + 1 \in 0 .. MaxChallengesPerDeadline
      BY <1>1, <3>1, ConfigAssumption
    <3> QED BY <3>1, <3>2
  <2>6. PendingChallenges' \in [Accounts -> Nat]
    BY DEF create_challenge, TypeOK, ChallengeTypeOK
  <2>7. PendingChallengesByBucket' \in [BucketIds -> [Accounts -> Nat]]
    BY DEF create_challenge, TypeOK, ChallengeTypeOK
  <2> QED BY <2>2, <2>3, <2>4, <2>5, <2>6, <2>7 DEF ChallengeTypeOK
<1> QED BY <1>5, <1>6, IndexTypeUnchanged DEF create_challenge, TypeOK

\* Taking a challenge out and decrementing its counters.
LEMMA TakeChallengeType ==
    ASSUME TypeOK, NEW id \in DOMAIN Challenges, TakeChallenge(id),
           decrement_pending(Challenges[id]),
           NextChallengeIndex' \in [Deadlines -> 0 .. MaxChallengesPerDeadline]
    PROVE  ChallengeTypeOK'
<1> DEFINE c == Challenges[id]
<1>1. c \in Challenge /\ c.provider \in Accounts /\ c.bucket_id \in BucketIds
  BY DEF TypeOK, ChallengeTypeOK, Challenge
<1>2. /\ DOMAIN Challenges' = DOMAIN Challenges \ {id}
      /\ \A x \in DOMAIN Challenges' : Challenges'[x] = Challenges[x]
  BY DEF TakeChallenge
<1>3. IsFiniteSet(DOMAIN Challenges')
  BY <1>2, FS_RemoveElement DEF TypeOK, ChallengeTypeOK
<1>4. PendingChallenges' \in [Accounts -> Nat]
  BY <1>1 DEF decrement_pending, saturating_sub, TypeOK, ChallengeTypeOK
<1>5. PendingChallengesByBucket' \in [BucketIds -> [Accounts -> Nat]]
  BY <1>1 DEF decrement_pending, saturating_sub, TypeOK, ChallengeTypeOK
<1> QED BY <1>2, <1>3, <1>4, <1>5 DEF TypeOK, ChallengeTypeOK

\* The calls that open and answer challenges.
LEMMA ChallengeNextType ==
    ASSUME TypeOK, NEW who \in Accounts, ChallengeNext(who)
    PROVE  TypeOK'
<1>1. ASSUME NEW b \in BucketIds, NEW p \in Accounts, NEW leaf_index \in LeafIndices,
             challenge_checkpoint(who, b, p, leaf_index)
      PROVE  TypeOK'
  <2>1. Buckets[b] \in Bucket /\ Buckets[b].snapshot # None
    BY <1>1, TypeFacts DEF challenge_checkpoint, Live, SignedSnapshot
  <2>2. Buckets[b].snapshot.commitment \in Commitment
    BY <2>1 DEF Bucket, BucketSnapshot
  <2> QED BY <1>1, <2>2, CreateChallengeType DEF challenge_checkpoint
<1>2. ASSUME NEW b \in BucketIds, NEW p \in Accounts, NEW leaf_index \in LeafIndices,
             NEW c \in Commitments, challenge_offchain(who, b, p, c, leaf_index)
      PROVE  TypeOK'
  <2>1. c \in Commitment
    BY DataAssumption
  <2> QED BY <1>2, <2>1, CreateChallengeType DEF challenge_offchain
<1>3. ASSUME NEW b \in BucketIds, NEW p \in Accounts, NEW leaf_index \in LeafIndices,
             challenge_replica(who, b, p, leaf_index)
      PROVE  TypeOK'
  <2>1. /\ StorageAgreements[b][p] \in StorageAgreement
        /\ StorageAgreements[b][p].last_sync # None
    BY <1>3, TypeFacts DEF challenge_replica, Live
  <2>2. StorageAgreements[b][p].last_sync.commitment \in Commitment
    BY <2>1 DEF StorageAgreement
  <2> QED BY <1>3, <2>2, CreateChallengeType DEF challenge_replica
<1>4. ASSUME NEW id \in DOMAIN Challenges, NEW r \in ResponseKinds,
             respond_to_challenge(who, id, r)
      PROVE  TypeOK'
  <2> DEFINE c == Challenges[id]
             share == (ChallengeDeposit * ChallengerPercent(c)) \div 100
  <2>1. /\ TakeChallenge(id) /\ decrement_pending(c)
        /\ NextChallengeIndex' = NextChallengeIndex
        /\ funds' = settle_challenge_deposit(funds, c.challenger, c.provider,
                                             ChallengeDeposit, share)
    BY <1>4 DEF respond_to_challenge
  <2>2. ChallengeTypeOK'
    BY <2>1, TakeChallengeType DEF TypeOK, ChallengeTypeOK
  <2>3. c.challenger \in Accounts /\ c.provider \in Accounts
    BY DEF TypeOK, ChallengeTypeOK, Challenge
  <2>4. share \in Nat /\ share <= ChallengeDeposit /\ ChallengeDeposit \in Nat
    BY ChallengerShareType, ConfigAssumption
  <2> HIDE DEF share
  <2>5. funds' \in Funds
    BY <2>1, <2>3, <2>4, SettleChallengeDepositType DEF TypeOK
  <2> QED BY <1>4, <2>2, <2>5, IndexTypeUnchanged DEF respond_to_challenge, TypeOK
<1> QED BY <1>1, <1>2, <1>3, <1>4 DEF ChallengeNext

\* Resolution of an expired challenge, with its slash.
LEMMA ResolveType ==
    ASSUME TypeOK, NEW id \in DOMAIN Challenges, resolve_expired_challenge(id)
    PROVE  TypeOK'
<1> DEFINE c == Challenges[id]
           p == c.provider
           slashed == BestEffort(funds, "ProviderStake", p, Providers[p].stake)
<1>1. c \in Challenge /\ p \in Accounts /\ c.challenger \in Accounts
  BY DEF TypeOK, ChallengeTypeOK, Challenge
<1>2. ChallengeTypeOK'
  <2>1. NextChallengeIndex' \in [Deadlines -> 0 .. MaxChallengesPerDeadline]
    <3>1. /\ NextChallengeIndex' = [NextChallengeIndex EXCEPT ![id.deadline] = 0]
          /\ NextChallengeIndex \in [Deadlines -> 0 .. MaxChallengesPerDeadline]
      BY DEF resolve_expired_challenge, TypeOK, ChallengeTypeOK
    <3>2. 0 \in 0 .. MaxChallengesPerDeadline
      BY ConfigAssumption
    <3> QED BY <3>1, <3>2
  <2> QED BY <2>1, TakeChallengeType DEF resolve_expired_challenge
<1>3. slash_provider_for_failed_challenge(c)
  BY DEF resolve_expired_challenge
<1>4. CASE Providers[p] = None
  BY <1>2, <1>3, <1>4, IndexTypeUnchanged
     DEF slash_provider_for_failed_challenge, resolve_expired_challenge, TypeOK
<1>5. CASE Providers[p] # None
  <2>1. Providers[p] \in ProviderInfo /\ Providers[p].stake \in Nat
    BY <1>1, <1>5, TypeFacts DEF ProviderInfo
  <2>2. SlashStakeToTreasury(funds, p, Providers[p].stake) \in Funds
    BY <1>1, <2>1, SlashStakeToTreasuryType DEF TypeOK
  <2>3. /\ funds' = ReleaseChallengeDeposit(
              SlashStakeToTreasury(funds, p, Providers[p].stake),
              c.challenger, ChallengeDeposit)
        /\ Providers' = [Providers EXCEPT ![p].stake = saturating_sub(@, slashed)]
    BY <1>3, <1>5 DEF slash_provider_for_failed_challenge
  <2>4. funds' \in Funds
    BY <1>1, <2>2, <2>3, ReleaseChallengeDepositType, ConfigAssumption
  <2>5. slashed \in Nat
    BY <1>1, <2>1, BestEffortType DEF TypeOK, HoldReasons
  <2> HIDE DEF slashed
  <2>6. saturating_sub(Providers[p].stake, slashed) \in Nat
    BY <2>1, <2>5 DEF saturating_sub
  <2>7. [Providers[p] EXCEPT !.stake = saturating_sub(@, slashed)] \in ProviderInfo
    BY <2>1, <2>6 DEF ProviderInfo
  <2>8. Providers' \in [Accounts -> ProviderInfo \cup {None}]
    BY <1>1, <2>3, <2>7 DEF TypeOK
  <2> QED BY <1>2, <2>4, <2>8, IndexTypeUnchanged DEF resolve_expired_challenge, TypeOK
<1> QED BY <1>4, <1>5

\* Removal of a slashed provider's agreement.
LEMMA RemoveSlashedType ==
    ASSUME TypeOK, NEW b \in BucketIds, NEW p \in Accounts, remove_slashed(b, p)
    PROVE  TypeOK'
<1> DEFINE agreement == StorageAgreements[b][p]
           f == Release(funds, "AgreementPayment", agreement.owner, escrow(agreement))
<1>1. agreement \in StorageAgreement /\ agreement # None
  BY TypeFacts DEF remove_slashed
<1>2. agreement.owner \in Accounts /\ escrow(agreement) \in Nat
  BY <1>1 DEF StorageAgreement, escrow
<1>3. CanRelease(funds, "AgreementPayment", agreement.owner, escrow(agreement))
  BY DEF remove_slashed
<1>4. f \in Funds
  BY <1>2, <1>3, ReleaseType DEF TypeOK, HoldReasons
<1>5. CloseAgreement(b, p, f)
  BY DEF remove_slashed
<1> HIDE DEF f
<1> QED BY <1>1, <1>4, <1>5, CloseAgreementType

\* A reaped account.
LEMMA KilledAccountType ==
    ASSUME TypeOK, NEW who \in Accounts, NEW dest \in Accounts, on_killed_account(who, dest)
    PROVE  TypeOK'
<1> DEFINE free == [funds.free EXCEPT ![dest] = @ + funds.free[who], ![who] = 0]
<1>1. funds.free \in [Accounts \cup {Treasury} -> Nat]
  BY DEF TypeOK, Funds
<1>2. free \in [Accounts \cup {Treasury} -> Nat]
  BY <1>1
<1>3. funds' = [funds EXCEPT !.free = free]
  BY DEF on_killed_account
<1> HIDE DEF free
<1>4. funds' \in Funds
  BY <1>2, <1>3 DEF TypeOK, Funds
<1>5. IndexTypeOK'
  BY DEF on_killed_account, TypeOK, IndexTypeOK
<1> QED BY <1>4, <1>5, ChallengeTypeUnchanged DEF on_killed_account, TypeOK

\* Every step of the pallet preserves the types.
LEMMA TypeStep ==
    ASSUME TypeOK, [Next]_vars
    PROVE  TypeOK'
<1>1. CASE Tick
  BY <1>1, ChallengeTypeUnchanged, IndexTypeUnchanged, ConfigAssumption DEF Tick, TypeOK
<1>2. ASSUME NEW who \in Reapable, NEW dest \in Accounts, on_killed_account(who, dest)
      PROVE  TypeOK'
  BY <1>2, KilledAccountType, DataAssumption
<1>3. ASSUME NEW who \in Accounts,
             \/ ProviderNext(who) \/ BucketNext(who) \/ QuoteNext(who)
             \/ AgreementNext(who) \/ ChallengeNext(who)
      PROVE  TypeOK'
  BY <1>3, ProviderNextType, BucketNextType, QuoteNextType, AgreementNextType,
     ChallengeNextType
<1>4. ASSUME NEW b \in BucketIds, NEW p \in Accounts, remove_slashed(b, p)
      PROVE  TypeOK'
  BY <1>4, RemoveSlashedType
<1>5. ASSUME NEW id \in DOMAIN Challenges, resolve_expired_challenge(id)
      PROVE  TypeOK'
  BY <1>5, ResolveType
<1>6. CASE UNCHANGED vars
  BY <1>6, ChallengeTypeUnchanged, IndexTypeUnchanged
     DEF vars, challengeVars, indexVars, TypeOK
<1> QED BY <1>1, <1>2, <1>3, <1>4, <1>5, <1>6 DEF Next

\* Genesis (build of GenesisConfig) yields well-typed storage.
LEMMA TypeInit == Init => TypeOK
<1> SUFFICES ASSUME Init PROVE TypeOK
  OBVIOUS
<1>1. /\ now \in 0 .. MaxBlock
      /\ ChallengeTypeOK
  <2>1. IsFiniteSet({})
    BY FS_EmptySet
  <2>2. DOMAIN Challenges = {}
    BY DEF Init
  <2> QED BY <2>1, <2>2, ConfigAssumption DEF Init, ChallengeTypeOK
<1>2. ASSUME NEW a \in Accounts
      PROVE  (\E g \in GenesisProviders : g.account = a) =>
                LET g == CHOOSE g \in GenesisProviders : g.account = a
                IN  g \in GenesisProviders /\ g.stake \in Nat /\ g.settings \in ProviderSettings
  BY DataAssumption
<1>3. Providers \in [Accounts -> ProviderInfo \cup {None}]
  BY <1>2, NewProviderType DEF Init
<1>4. Buckets \in [BucketIds -> Bucket \cup {None}]
  <2>1. ASSUME NEW b \in BucketIds, b + 1 \in DOMAIN GenesisBuckets
        PROVE  NewBucket(GenesisBuckets[b + 1].admin,
                         GenesisBuckets[b + 1].min_providers, <<>>, "Private") \in Bucket
    <3>1. GenesisBuckets[b + 1] \in [admin : Accounts, min_providers : Nat]
      <4>1. GenesisBuckets \in Seq([admin : Accounts, min_providers : Nat])
        BY DataAssumption
      <4> QED BY <2>1, <4>1, SeqElement
    <3>2. <<>> \in Seq(Accounts)
      OBVIOUS
    <3> QED BY <3>1, <3>2, NewBucketType
  <2> QED BY <2>1 DEF Init
<1>5. StorageAgreements \in [BucketIds -> [Accounts -> StorageAgreement \cup {None}]]
  BY DEF Init
<1>6. IndexTypeOK
  BY DataAssumption, ConfigAssumption DEF Init, IndexTypeOK
<1>7. funds \in Funds
  <2>1. ASSUME NEW a \in Accounts
        PROVE  /\ GenesisStake(a) \in Nat
               /\ GenesisDeposits(a) \in Nat
               /\ Endowment[a] - GenesisStake(a) - GenesisDeposits(a) \in Nat
    <3>1. GenesisStake(a) \in Nat
      BY <1>2 DEF GenesisStake
    <3>2. Cardinality(GenesisBucketIds(a)) \in Nat
      BY GenesisAssumption, ConfigAssumption
    <3>3. GenesisDeposits(a) \in Nat
      <4> DEFINE n == Cardinality(GenesisBucketIds(a))
                 k == IF \E g \in GenesisProviders : g.account = a THEN 1 ELSE 0
      <4>1. 2 * n + k \in Nat
        BY <3>2
      <4> HIDE DEF n, k
      <4>2. StorageDeposit * (2 * n + k) \in Nat
        BY <4>1, ConfigAssumption
      <4> QED BY <4>2 DEF GenesisDeposits, n, k
    <3>4. Endowment[a] \in Nat
      BY DataAssumption
    <3>5. GenesisStake(a) + GenesisDeposits(a) <= Endowment[a]
      BY GenesisAssumption
    <3> QED BY <3>1, <3>3, <3>4, <3>5
  <2>2. funds.free \in [Accounts \cup {Treasury} -> Nat]
    BY <2>1 DEF Init
  <2>3. funds.held \in [HoldReasons -> [Accounts -> Nat]]
    BY <2>1 DEF Init
  <2>4. funds = [free |-> funds.free, held |-> funds.held]
    BY DEF Init
  <2> QED BY <2>2, <2>3, <2>4 DEF Funds
<1> QED BY <1>1, <1>3, <1>4, <1>5, <1>6, <1>7 DEF TypeOK

\* In every reachable state every storage item has its declared type: no
\* call drives a balance, a hold or a pending-challenge counter below zero,
\* whatever the configuration, the genesis and the quotes.
THEOREM TypeCorrect == Spec => []TypeOK
<1>1. Init => TypeOK
  BY TypeInit
<1>2. TypeOK /\ [Next]_vars => TypeOK'
  BY TypeStep
<1> QED BY <1>1, <1>2, PTL DEF Spec

----------------------------------------------------------------------------
(* Implementing Liability: the inductive invariant                          *)

\* An open challenge's index was handed out by the counter of its deadline,
\* or the deadline is over and no challenge can be created for it any more.
IdsFresh ==
    \A id \in DOMAIN Challenges :
        /\ id.deadline \in Deadlines
        /\ \/ id.index < NextChallengeIndex[id.deadline]
           \/ id.deadline < now

\* No bucket has an id that create_bucket_internal is still to hand out.
BucketIdsFresh ==
    \A b \in BucketIds : b >= NextBucketId => Buckets[b] = None

\* validate_terms refuses empty agreements, and bytes are only added.
AgreementsPositive ==
    \A b \in BucketIds, p \in Accounts :
        StorageAgreements[b][p] # None => StorageAgreements[b][p].max_bytes > 0

ChallengeLedger == IdsFresh /\ PendingCountersExact

ByteLedger == AgreementsPositive /\ CommittedBytesExact

Ledger == ChallengeLedger /\ BucketIdsFresh /\ ByteLedger

\* Exposed holds at genesis, where there is no agreement and no challenge.
LEMMA ExposedInit == L!Init => L!Exposed
BY DEF L!Init, L!Exposed

\* No step loses it: the gates of Announce, End and DeleteBucket suffice.
LEMMA ExposedStep == L!Exposed /\ [L!Next]_(L!vars) => L!Exposed'
<1> SUFFICES ASSUME L!Exposed, [L!Next]_(L!vars) PROVE L!Exposed'
  OBVIOUS
<1> DEFINE registered == {p \in Accounts : Providers[p] # None}
           exiting == {p \in Accounts : Providers[p] # None /\ Providers[p].deregister_at # None}
           existing == {b \in BucketIds : Buckets[b] # None}
           agreements == {x \in BucketIds \X Accounts : StorageAgreements[x[1]][x[2]] # None}
           open == [id \in DOMAIN Challenges |->
                       <<Challenges[id].bucket_id, Challenges[id].provider>>]
           Bound == /\ exiting \subseteq registered
                    /\ \A b \in BucketIds, p \in Accounts : <<b, p>> \in agreements =>
                          b \in existing /\ p \in registered \ exiting
                    /\ agreements \subseteq BucketIds \X Accounts
<1>A. L!Exposed <=> Bound /\ \A id \in DOMAIN open : open[id] \in agreements
  BY DEF L!Exposed
<1>B. L!Exposed' <=> Bound' /\ \A id \in (DOMAIN open)' : open'[id] \in agreements'
  BY DEF L!Exposed
<1> USE DEF L!Exposed
<1>1. ASSUME NEW p \in Accounts, L!Register(p) PROVE L!Exposed'
  BY <1>1 DEF L!Register
<1>2. ASSUME NEW p \in Accounts, L!Announce(p) PROVE L!Exposed'
  BY <1>2 DEF L!Announce
<1>3. ASSUME NEW p \in Accounts, L!Cancel(p) PROVE L!Exposed'
  BY <1>3 DEF L!Cancel
<1>4. ASSUME NEW p \in Accounts, L!Leave(p) PROVE L!Exposed'
  BY <1>4 DEF L!Leave
<1>5. ASSUME NEW b \in BucketIds, L!CreateBucket(b) PROVE L!Exposed'
  BY <1>5 DEF L!CreateBucket
<1>6. ASSUME NEW b \in BucketIds, L!DeleteBucket(b) PROVE L!Exposed'
  BY <1>6 DEF L!DeleteBucket
<1>7. ASSUME NEW b \in BucketIds, NEW p \in Accounts, L!Agree(b, p) PROVE L!Exposed'
  BY <1>7 DEF L!Agree
<1>8. ASSUME NEW b \in BucketIds, NEW p \in Accounts, L!End(b, p) PROVE L!Exposed'
  <2>1. /\ agreements' = agreements \ {<<b, p>>} /\ registered' = registered /\ exiting' = exiting
        /\ existing' = existing /\ open' = open /\ \A id \in DOMAIN open : open[id] # <<b, p>>
    BY <1>8 DEF L!End, L!OpenOn
  <2> HIDE DEF L!Exposed, registered, exiting, existing, agreements, open
  <2>2. \A x \in (DOMAIN open)' : open'[x] \in agreements'
    BY <1>A, <2>1
  <2> QED BY <1>A, <1>B, <2>1, <2>2
<1>9. ASSUME NEW b \in BucketIds, NEW p \in Accounts, NEW id, L!Challenge(id, b, p)
      PROVE  L!Exposed'
  <2>1. /\ <<b, p>> \in agreements /\ agreements' = agreements /\ registered' = registered
        /\ exiting' = exiting /\ existing' = existing
        /\ open' = [x \in DOMAIN open \cup {id} |-> IF x = id THEN <<b, p>> ELSE open[x]]
    BY <1>9 DEF L!Challenge
  <2> HIDE DEF L!Exposed, registered, exiting, existing, agreements, open
  <2>2. \A x \in (DOMAIN open)' : open'[x] \in agreements'
    BY <1>A, <2>1
  <2> QED BY <1>A, <1>B, <2>1, <2>2
<1>10. ASSUME NEW id \in DOMAIN Challenges, L!Close(id) PROVE L!Exposed'
  <2>1. /\ agreements' = agreements /\ registered' = registered /\ exiting' = exiting
        /\ existing' = existing /\ open' = [x \in DOMAIN open \ {id} |-> open[x]]
    BY <1>10 DEF L!Close
  <2> HIDE DEF L!Exposed, registered, exiting, existing, agreements, open
  <2>2. \A x \in (DOMAIN open)' : open'[x] \in agreements'
    BY <1>A, <2>1
  <2> QED BY <1>A, <1>B, <2>1, <2>2
<1>11. CASE UNCHANGED L!vars
  <2>1. /\ agreements' = agreements /\ registered' = registered /\ exiting' = exiting
        /\ existing' = existing /\ open' = open
    BY <1>11 DEF L!vars
  <2> HIDE DEF L!Exposed, registered, exiting, existing, agreements, open
  <2> QED BY <1>A, <1>B, <2>1
<1> QED BY <1>1, <1>2, <1>3, <1>4, <1>5, <1>6, <1>7, <1>8, <1>9, <1>10, <1>11 DEF L!Next

\* What Liability's invariant says of the pallet's storage.
LEMMA ExposedFacts ==
    ASSUME TypeOK, L!Exposed
    PROVE  /\ \A b \in BucketIds, p \in Accounts :
                 StorageAgreements[b][p] # None =>
                     /\ Buckets[b] # None
                     /\ Providers[p] # None
                     /\ Providers[p].deregister_at = None
           /\ \A id \in DOMAIN Challenges :
                 StorageAgreements[Challenges[id].bucket_id][Challenges[id].provider] # None
<1>1. ASSUME NEW b \in BucketIds, NEW p \in Accounts, StorageAgreements[b][p] # None
      PROVE  /\ Buckets[b] # None
             /\ Providers[p] # None
             /\ Providers[p].deregister_at = None
  BY <1>1 DEF L!Exposed
<1>2. ASSUME NEW id \in DOMAIN Challenges
      PROVE  StorageAgreements[Challenges[id].bucket_id][Challenges[id].provider] # None
  BY <1>2 DEF L!Exposed
<1> QED BY <1>1, <1>2

\* The sums are over finitely many buckets.
LEMMA BucketIdsFinite == IsFiniteSet(BucketIds)
<1>1. 0 \in Int /\ MaxBuckets - 1 \in Int
  BY ConfigAssumption
<1> QED BY <1>1, FS_Interval DEF BucketIds

\* The type of the summands.
LEMMA BytesType ==
    ASSUME TypeOK, NEW p \in Accounts
    PROVE  Bytes(p) \in [BucketIds -> Nat] /\ IsFiniteSet(BucketIds)
<1>1. Bytes(p) \in [BucketIds -> Nat]
  BY TypeFacts DEF Bytes, StorageAgreement
<1> QED BY <1>1, BucketIdsFinite

----------------------------------------------------------------------------
(* Parts of the state a call leaves alone                                   *)

\* As far as exposure goes, the providers stay as they are ...
ProvidersKept ==
    \A p \in Accounts :
        /\ Providers'[p] = None <=> Providers[p] = None
        /\ Providers[p] # None =>
              /\ Providers'[p].deregister_at = Providers[p].deregister_at
              /\ Providers'[p].committed_bytes = Providers[p].committed_bytes

\* ... the buckets ...
BucketsKept ==
    /\ \A b \in BucketIds : Buckets'[b] = None <=> Buckets[b] = None
    /\ NextBucketId' = NextBucketId

\* ... and the agreements.
AgreementsKept ==
    \A b \in BucketIds, p \in Accounts :
        /\ StorageAgreements'[b][p] = None <=> StorageAgreements[b][p] = None
        /\ StorageAgreements[b][p] # None =>
              StorageAgreements'[b][p].max_bytes = StorageAgreements[b][p].max_bytes

\* A provider record replaced by one with the same exit and bytes.
LEMMA ProviderReplaced ==
    ASSUME TypeOK, NEW who \in Accounts, Providers[who] # None, NEW info \in ProviderInfo,
           Providers' = [Providers EXCEPT ![who] = info],
           info.deregister_at = Providers[who].deregister_at,
           info.committed_bytes = Providers[who].committed_bytes
    PROVE  ProvidersKept
BY NoneAssumption DEF TypeOK, ProvidersKept

\* An agreement record replaced by one of the same size.
LEMMA AgreementReplaced ==
    ASSUME TypeOK, NEW b \in BucketIds, NEW p \in Accounts, StorageAgreements[b][p] # None,
           NEW agreement \in StorageAgreement,
           StorageAgreements' = [StorageAgreements EXCEPT ![b][p] = agreement],
           agreement.max_bytes = StorageAgreements[b][p].max_bytes
    PROVE  AgreementsKept
BY NoneAssumption DEF TypeOK, AgreementsKept

\* The same, of a call that is known to replace such a record.
LEMMA SomeAgreementReplaced ==
    ASSUME TypeOK, NEW b \in BucketIds, NEW p \in Accounts, AgreementReplacedIn(b, p)
    PROVE  AgreementsKept
<1> PICK agreement \in StorageAgreement :
        /\ StorageAgreements' = [StorageAgreements EXCEPT ![b][p] = agreement]
        /\ agreement.max_bytes = StorageAgreements[b][p].max_bytes
  BY DEF AgreementReplacedIn
<1> QED BY AgreementReplaced DEF AgreementReplacedIn

\* A bucket record replaced by another.
LEMMA BucketReplaced ==
    ASSUME TypeOK, NEW b \in BucketIds, BucketReplacedIn(b), NextBucketId' = NextBucketId
    PROVE  BucketsKept
BY NoneAssumption DEF TypeOK, BucketsKept, BucketReplacedIn

\* No call but those on challenges touches the challenges' bookkeeping.
LEMMA ChallengeLedgerKept ==
    ASSUME TypeOK, TypeOK', ChallengeLedger, UNCHANGED challengeVars, now' >= now
    PROVE  ChallengeLedger'
<1>1. /\ Challenges' = Challenges /\ NextChallengeIndex' = NextChallengeIndex
      /\ PendingChallenges' = PendingChallenges
      /\ PendingChallengesByBucket' = PendingChallengesByBucket
  BY DEF challengeVars
<1>2. PendingCountersExact'
  BY <1>1 DEF ChallengeLedger, PendingCountersExact, OpenAgainst, OpenOn
<1>3. IdsFresh'
  <2>1. now \in Nat /\ now' \in Nat /\ Deadlines \subseteq Nat
    BY ConfigAssumption DEF TypeOK, Deadlines
  <2>2. \A d \in Deadlines : d < now => d < now'
    BY <2>1
  <2> QED BY <1>1, <2>2 DEF ChallengeLedger, IdsFresh
<1> QED BY <1>2, <1>3 DEF ChallengeLedger

\* Agreements and totals that are kept keep adding up.
LEMMA ByteLedgerKept ==
    ASSUME ByteLedger, ProvidersKept, AgreementsKept
    PROVE  ByteLedger'
<1>1. AgreementsPositive'
  BY DEF ByteLedger, AgreementsPositive, AgreementsKept
<1>2. \A p \in Accounts : Bytes(p)' = Bytes(p)
  BY DEF Bytes, AgreementsKept
<1>3. CommittedBytesExact'
  BY <1>2 DEF ByteLedger, CommittedBytesExact, CommittedTo, ProvidersKept
<1> QED BY <1>1, <1>3 DEF ByteLedger

\* A call that keeps providers, buckets and agreements and leaves the
\* challenges alone is a stuttering step of Liability.
LEMMA QuietStep ==
    ASSUME TypeOK, TypeOK', Ledger, ProvidersKept, BucketsKept, AgreementsKept,
           UNCHANGED challengeVars, now' >= now
    PROVE  Ledger' /\ UNCHANGED L!vars
<1>1. Ledger'
  BY ChallengeLedgerKept, ByteLedgerKept DEF Ledger, BucketsKept, BucketIdsFresh
<1>2. {p \in Accounts : Providers'[p] # None} = {p \in Accounts : Providers[p] # None}
  BY DEF ProvidersKept
<1>3. {p \in Accounts : Providers'[p] # None /\ Providers'[p].deregister_at # None}
        = {p \in Accounts : Providers[p] # None /\ Providers[p].deregister_at # None}
  BY DEF ProvidersKept
<1>4. {b \in BucketIds : Buckets'[b] # None} = {b \in BucketIds : Buckets[b] # None}
  BY DEF BucketsKept
<1>5. {x \in BucketIds \X Accounts : StorageAgreements'[x[1]][x[2]] # None}
        = {x \in BucketIds \X Accounts : StorageAgreements[x[1]][x[2]] # None}
  BY DEF AgreementsKept
<1>6. Challenges' = Challenges
  BY DEF challengeVars
<1> QED BY <1>1, <1>2, <1>3, <1>4, <1>5, <1>6 DEF L!vars

\* What has to be shown of a step: it keeps the ledger and is a step of
\* Liability, or a stuttering one.
Implements == Ledger' /\ [L!Next]_(L!vars)

\* A provider whose committed_bytes are 0 has no agreement.
LEMMA NothingCommitted ==
    ASSUME TypeOK, ByteLedger, NEW p \in Accounts, Providers[p] # None,
           Providers[p].committed_bytes = 0
    PROVE  \A b \in BucketIds : StorageAgreements[b][p] = None
<1> SUFFICES ASSUME NEW b \in BucketIds, StorageAgreements[b][p] # None PROVE FALSE
  OBVIOUS
<1>1. SumFunction(Bytes(p)) = 0
  BY DEF ByteLedger, CommittedBytesExact, CommittedTo
<1>2. Bytes(p) \in [BucketIds -> Nat] /\ IsFiniteSet(BucketIds)
  BY BytesType
<1>3. 0 \in Nat
  OBVIOUS
<1>4. Bytes(p)[b] <= 0
  BY <1>1, <1>2, <1>3, SumUpdate
<1>5. Bytes(p)[b] = StorageAgreements[b][p].max_bytes
  BY DEF Bytes
<1>6. StorageAgreements[b][p].max_bytes \in Nat /\ StorageAgreements[b][p].max_bytes > 0
  BY TypeFacts DEF ByteLedger, AgreementsPositive, StorageAgreement
<1> QED BY <1>4, <1>5, <1>6

\* The byte totals when one provider's record appears, changes or goes while
\* the agreements stay.
LEMMA OneProviderChanged ==
    ASSUME ByteLedger, NEW who \in Accounts, UNCHANGED StorageAgreements,
           \A p \in Accounts \ {who} : Providers'[p] = Providers[p],
           Providers'[who] # None =>
               Providers'[who].committed_bytes = CommittedTo(who)
    PROVE  ByteLedger'
<1>1. AgreementsPositive'
  BY DEF ByteLedger, AgreementsPositive
<1>2. \A p \in Accounts : Bytes(p)' = Bytes(p)
  BY DEF Bytes
<1>3. CommittedBytesExact'
  BY <1>2 DEF ByteLedger, CommittedBytesExact, CommittedTo
<1> QED BY <1>1, <1>3 DEF ByteLedger

\* An announced, or cancelled, exit is all that changes for the ledger.
LEMMA WithExitFields ==
    ASSUME NEW provider \in ProviderInfo, NEW at \in Nat \cup {None}
    PROVE  /\ WithExit(provider, at) # None
           /\ WithExit(provider, at).deregister_at = at
           /\ WithExit(provider, at).committed_bytes = provider.committed_bytes
<1>1. WithExit(provider, at) # None
  BY WithExitType, NoneAssumption
<1>2. /\ WithExit(provider, at).deregister_at = at
      /\ WithExit(provider, at).committed_bytes = provider.committed_bytes
  BY DEF WithExit, ProviderInfo
<1> QED BY <1>1, <1>2

\* Registration, stake, settings and the two-step exit.
LEMMA ProviderNextStep ==
    ASSUME TypeOK, TypeOK', Ledger, L!Exposed, NEW who \in Accounts, ProviderNext(who)
    PROVE  Implements
<1> USE DEF Implements
<1>0. now \in Nat /\ Providers \in [Accounts -> ProviderInfo \cup {None}]
  BY TypeFacts DEF TypeOK
<1>1. ASSUME NEW stake \in StakeAmounts, register_provider(who, stake) PROVE Implements
  <2>1. /\ UNCHANGED <<now, StorageAgreements, Buckets, challengeVars, NextBucketId>>
        /\ Providers' = [Providers EXCEPT ![who] = NewProvider(stake, DefaultSettings)]
        /\ Providers[who] = None
    BY <1>1 DEF register_provider, indexVars
  <2>2. NewProvider(stake, DefaultSettings) # None
    <3>1. stake \in Nat
      BY DataAssumption
    <3> QED BY <3>1, NewProviderType, DefaultSettingsType, NoneAssumption
  <2>3. ByteLedger'
    <3>1. \A b \in BucketIds : Bytes(who)[b] = 0
      BY <1>0, <2>1, ExposedFacts DEF Bytes
    <3>2. CommittedTo(who) = 0
      BY <1>0, <3>1, BytesType, SumOfZeros DEF CommittedTo
    <3>3. Providers'[who].committed_bytes = 0
      BY <1>0, <2>1 DEF NewProvider
    <3> QED BY <1>0, <2>1, <3>2, <3>3, OneProviderChanged DEF Ledger
  <2>4. Ledger'
    BY <1>0, <2>1, <2>3, ChallengeLedgerKept DEF Ledger, BucketIdsFresh
  <2>5. Providers'[who].deregister_at = None
    BY <1>0, <2>1 DEF NewProvider
  <2>6. L!Register(who)
    BY <1>0, <2>1, <2>2, <2>5 DEF L!Register, challengeVars
  <2> QED BY <2>4, <2>6 DEF L!Next
<1>2. ASSUME NEW amount \in StakeAmounts, add_stake(who, amount) PROVE Implements
  <2>1. ProvidersKept /\ BucketsKept /\ AgreementsKept
    <3> DEFINE changed == [Providers[who] EXCEPT !.stake = Providers[who].stake + amount]
    <3>1. Providers[who] \in ProviderInfo /\ amount \in Nat
      BY <1>2, TypeFacts, DataAssumption DEF add_stake
    <3>2. /\ changed \in ProviderInfo
          /\ changed.deregister_at = Providers[who].deregister_at
          /\ changed.committed_bytes = Providers[who].committed_bytes
      BY <3>1 DEF ProviderInfo
    <3>3. Providers' = [Providers EXCEPT ![who] = changed]
      BY <1>0, <1>2 DEF add_stake
    <3> HIDE DEF changed
    <3>4. ProvidersKept
      BY <1>2, <3>2, <3>3, ProviderReplaced DEF add_stake
    <3> QED BY <1>2, <3>4 DEF add_stake, BucketsKept, AgreementsKept, indexVars
  <2> QED BY <1>0, <1>2, <2>1, QuietStep DEF add_stake
<1>3. ASSUME deregister_provider(who) PROVE Implements
  <2> DEFINE at == now + DeregisterAnnouncementPeriod
  <2>1. /\ UNCHANGED <<now, StorageAgreements, Buckets, challengeVars, NextBucketId>>
        /\ Providers' = [Providers EXCEPT ![who] = WithExit(Providers[who], at)]
        /\ Providers[who] # None /\ Providers[who] \in ProviderInfo
        /\ Providers[who].committed_bytes = 0 /\ Providers[who].deregister_at = None
    BY <1>0, <1>3 DEF deregister_provider, indexVars, ensure_provider_active
  <2>2. at \in Nat
    BY <1>0, ConfigAssumption
  <2> HIDE DEF at
  <2>3. /\ Providers'[who] # None
        /\ Providers'[who].deregister_at = at /\ at # None
        /\ Providers'[who].committed_bytes = Providers[who].committed_bytes
    BY <1>0, <2>1, <2>2, WithExitFields, NoneAssumption
  <2>4. ByteLedger'
    BY <1>0, <2>1, <2>3, OneProviderChanged DEF Ledger, ByteLedger, CommittedBytesExact
  <2>5. Ledger'
    BY <1>0, <2>1, <2>4, ChallengeLedgerKept DEF Ledger, BucketIdsFresh
  <2>6. \A b \in BucketIds : StorageAgreements[b][who] = None
    BY <2>1, NothingCommitted DEF Ledger
  <2>7. L!Announce(who)
    BY <1>0, <2>1, <2>3, <2>6 DEF L!Announce, challengeVars
  <2> QED BY <2>5, <2>7 DEF L!Next
<1>4. ASSUME complete_deregister(who) PROVE Implements
  <2>1. /\ UNCHANGED <<now, StorageAgreements, Buckets, challengeVars, NextBucketId>>
        /\ Providers' = [Providers EXCEPT ![who] = None]
        /\ Providers[who] # None /\ Providers[who].deregister_at # None
    BY <1>4 DEF complete_deregister, indexVars
  <2>2. ByteLedger'
    BY <1>0, <2>1, OneProviderChanged DEF Ledger
  <2>3. Ledger'
    BY <1>0, <2>1, <2>2, ChallengeLedgerKept DEF Ledger, BucketIdsFresh
  <2>4. L!Leave(who)
    BY <1>0, <2>1 DEF L!Leave, challengeVars
  <2> QED BY <2>3, <2>4 DEF L!Next
<1>5. ASSUME cancel_deregister(who) PROVE Implements
  <2>1. /\ UNCHANGED <<now, StorageAgreements, Buckets, challengeVars, NextBucketId>>
        /\ Providers' = [Providers EXCEPT ![who] = WithExit(Providers[who], None)]
        /\ Providers[who] # None /\ Providers[who] \in ProviderInfo
        /\ Providers[who].deregister_at # None
    BY <1>0, <1>5 DEF cancel_deregister, indexVars
  <2>2. /\ Providers'[who] # None
        /\ Providers'[who].deregister_at = None
        /\ Providers'[who].committed_bytes = Providers[who].committed_bytes
    BY <1>0, <2>1, WithExitFields
  <2>3. ByteLedger'
    BY <1>0, <2>1, <2>2, OneProviderChanged DEF Ledger, ByteLedger, CommittedBytesExact
  <2>4. Ledger'
    BY <1>0, <2>1, <2>3, ChallengeLedgerKept DEF Ledger, BucketIdsFresh
  <2>5. L!Cancel(who)
    BY <1>0, <2>1, <2>2 DEF L!Cancel, challengeVars
  <2> QED BY <2>4, <2>5 DEF L!Next
<1>6. ASSUME NEW settings \in SettingsChoices, update_provider_settings(who, settings)
      PROVE  Implements
  <2>0. settings \in ProviderSettings
    BY DataAssumption
  <2>1. ProvidersKept /\ BucketsKept /\ AgreementsKept
    <3> DEFINE changed == [Providers[who] EXCEPT !.settings = settings]
    <3>1. Providers[who] \in ProviderInfo
      BY <1>6, TypeFacts DEF update_provider_settings
    <3>2. /\ changed \in ProviderInfo
          /\ changed.deregister_at = Providers[who].deregister_at
          /\ changed.committed_bytes = Providers[who].committed_bytes
      BY <2>0, <3>1 DEF ProviderInfo
    <3>3. Providers' = [Providers EXCEPT ![who] = changed]
      BY <1>0, <1>6 DEF update_provider_settings
    <3> HIDE DEF changed
    <3>4. ProvidersKept
      BY <1>6, <3>2, <3>3, ProviderReplaced DEF update_provider_settings
    <3> QED BY <1>6, <3>4 DEF update_provider_settings, BucketsKept, AgreementsKept, indexVars
  <2> QED BY <1>0, <1>6, <2>1, QuietStep DEF update_provider_settings
<1>7. ASSUME NEW b \in BucketIds, NEW blocked \in BlockFlags,
             set_extensions_blocked(who, b, blocked)
      PROVE  Implements
  <2>1. ProvidersKept /\ BucketsKept
    BY <1>7 DEF set_extensions_blocked, ProvidersKept, BucketsKept, indexVars
  <2>2. AgreementsKept
    <3> DEFINE changed == [StorageAgreements[b][who] EXCEPT !.extensions_blocked = blocked]
    <3>1. StorageAgreements[b][who] \in StorageAgreement /\ blocked \in BOOLEAN
      BY <1>7, TypeFacts, DataAssumption DEF set_extensions_blocked
    <3>2. /\ changed \in StorageAgreement
          /\ changed.max_bytes = StorageAgreements[b][who].max_bytes
      BY <3>1 DEF StorageAgreement
    <3>3. StorageAgreements' = [StorageAgreements EXCEPT ![b][who] = changed]
      BY <1>7 DEF set_extensions_blocked
    <3> HIDE DEF changed
    <3>4. StorageAgreements[b][who] # None
      BY <1>7 DEF set_extensions_blocked
    <3> QED BY <3>2, <3>3, <3>4, AgreementReplaced
  <2> QED BY <1>0, <1>7, <2>1, <2>2, QuietStep DEF set_extensions_blocked
<1> QED BY <1>1, <1>2, <1>3, <1>4, <1>5, <1>6, <1>7 DEF ProviderNext

\* Buckets, members and checkpoints: only the two calls that create and
\* delete a bucket concern Liability.
LEMMA BucketNextStep ==
    ASSUME TypeOK, TypeOK', Ledger, L!Exposed, NEW who \in Accounts, BucketNext(who)
    PROVE  Implements
<1> USE DEF Implements
<1>0. now \in Nat /\ Buckets \in [BucketIds -> Bucket \cup {None}] /\ NextBucketId \in Nat
  BY TypeFacts DEF TypeOK, IndexTypeOK
<1>1. ASSUME NEW n \in MinProvidersChoices, NEW v \in Visibilities,
             create_bucket(who, n, v)
      PROVE  Implements
  <2> DEFINE bucket == NewBucket(who, n, <<>>, v)
  <2>1. /\ UNCHANGED <<now, Providers, StorageAgreements, challengeVars>>
        /\ NextBucketId \in BucketIds /\ NextBucketId' = NextBucketId + 1
        /\ Buckets' = [Buckets EXCEPT ![NextBucketId] = bucket]
    BY <1>1 DEF create_bucket, CanCreateBucket, CreateBucketInternal
  <2>2. bucket # None
    <3>1. <<>> \in Seq(Accounts)
      OBVIOUS
    <3>2. bucket \in Bucket
      BY <3>1, NewBucketType, DataAssumption
    <3> QED BY <3>2, NoneAssumption
  <2> HIDE DEF bucket
  <2>3. Buckets[NextBucketId] = None
    BY <1>0, <2>1 DEF Ledger, BucketIdsFresh
  <2>4. BucketIdsFresh'
    BY <1>0, <2>1, ConfigAssumption DEF Ledger, BucketIdsFresh, BucketIds
  <2>5. ByteLedger'
    BY <2>1, ByteLedgerKept DEF Ledger, ProvidersKept, AgreementsKept
  <2>6. Ledger'
    BY <1>0, <2>1, <2>4, <2>5, ChallengeLedgerKept DEF Ledger
  <2>7. PICK b \in BucketIds : b = NextBucketId
    BY <2>1
  <2>8. L!CreateBucket(b)
    BY <1>0, <2>1, <2>2, <2>3, <2>7 DEF L!CreateBucket, challengeVars
  <2> QED BY <2>6, <2>8 DEF L!Next
<1>2. ASSUME NEW b \in BucketIds, delete_bucket(who, b) PROVE Implements
  <2>1. /\ UNCHANGED <<now, Providers, StorageAgreements, challengeVars, NextBucketId>>
        /\ Buckets' = [Buckets EXCEPT ![b] = None]
        /\ \A p \in Accounts : StorageAgreements[b][p] = None
    BY <1>2 DEF delete_bucket
  <2>2. BucketIdsFresh'
    BY <1>0, <2>1 DEF Ledger, BucketIdsFresh
  <2>3. ByteLedger'
    BY <2>1, ByteLedgerKept DEF Ledger, ProvidersKept, AgreementsKept
  <2>4. Ledger'
    BY <1>0, <2>1, <2>2, <2>3, ChallengeLedgerKept DEF Ledger
  <2>5. L!DeleteBucket(b)
    BY <1>0, <2>1 DEF L!DeleteBucket, challengeVars
  <2> QED BY <2>4, <2>5 DEF L!Next
<1>3. ASSUME NEW b \in BucketIds, BucketReplacedIn(b),
             UNCHANGED <<now, Providers, StorageAgreements, challengeVars, NextBucketId>>
      PROVE  Implements
  <2>1. BucketsKept
    BY <1>3, BucketReplaced
  <2>2. ProvidersKept /\ AgreementsKept
    BY <1>3 DEF ProvidersKept, AgreementsKept
  <2> QED BY <1>0, <1>3, <2>1, <2>2, QuietStep
<1>4. ASSUME NEW b \in BucketIds, NEW n \in MinProvidersChoices, set_min_providers(who, b, n)
      PROVE  Implements
  BY <1>3, <1>4, SetMinProvidersType DEF set_min_providers, indexVars
<1>5. ASSUME NEW b \in BucketIds, freeze_bucket(who, b) PROVE Implements
  BY <1>3, <1>5, FreezeType DEF freeze_bucket, indexVars
<1>6. ASSUME NEW b \in BucketIds, NEW v \in Visibilities, set_bucket_visibility(who, b, v)
      PROVE  Implements
  BY <1>3, <1>6, VisibilityType DEF set_bucket_visibility, indexVars
<1>7. ASSUME NEW b \in BucketIds, NEW member \in Accounts, NEW role \in Roles,
             set_member(who, b, member, role)
      PROVE  Implements
  <2>1. CASE ChangeRole(who, b, member, role)
    BY <1>3, <2>1, ChangeRoleType DEF ChangeRole, indexVars
  <2>2. CASE AddMember(who, b, member, role)
    BY <1>3, <2>2, AddMemberType DEF AddMember
  <2> QED BY <1>7, <2>1, <2>2 DEF set_member
<1>8. ASSUME NEW b \in BucketIds, NEW member \in Accounts, remove_member(who, b, member)
      PROVE  Implements
  BY <1>3, <1>8, RemoveMemberType DEF remove_member
<1>9. ASSUME NEW b \in BucketIds, NEW c \in Commitments, NEW signers \in SUBSET Accounts,
             checkpoint(who, b, c, signers)
      PROVE  Implements
  BY <1>3, <1>9, CheckpointType DEF checkpoint, indexVars
<1>10. ASSUME NEW b \in BucketIds, NEW signers \in SUBSET Accounts,
              extend_checkpoint(who, b, signers)
       PROVE  Implements
  <2>1. BucketReplacedIn(b)
    BY <1>10, ExtendCheckpointType
  <2>2. UNCHANGED <<now, Providers, StorageAgreements, challengeVars, NextBucketId>>
    BY <1>10 DEF extend_checkpoint, indexVars
  <2> QED BY <1>3, <2>1, <2>2
<1> HIDE DEF Implements
<1> QED BY <1>1, <1>2, <1>4, <1>5, <1>6, <1>7, <1>8, <1>9, <1>10 DEF BucketNext

\* A provider's sum when one of its summands changes.
LEMMA BytesUpdate ==
    ASSUME TypeOK, NEW p \in Accounts, NEW b \in BucketIds, NEW n \in Nat
    PROVE  /\ Bytes(p)[b] <= SumFunction(Bytes(p))
           /\ SumFunction([Bytes(p) EXCEPT ![b] = n])
                 = SumFunction(Bytes(p)) - Bytes(p)[b] + n
<1>1. Bytes(p) \in [BucketIds -> Nat] /\ IsFiniteSet(BucketIds)
  BY BytesType
<1> QED BY <1>1, SumUpdate

\* The byte totals when one agreement of provider p becomes n bytes large
\* (0 when it goes) and p's record follows.
LEMMA OneAgreementChanged ==
    ASSUME TypeOK, TypeOK', ByteLedger, NEW b \in BucketIds, NEW p \in Accounts,
           \A c \in BucketIds, q \in Accounts :
               c # b \/ q # p => StorageAgreements'[c][q] = StorageAgreements[c][q],
           \A q \in Accounts \ {p} : Providers'[q] = Providers[q],
           Providers[p] # None, Providers'[p] # None,
           StorageAgreements'[b][p] # None => StorageAgreements'[b][p].max_bytes > 0,
           NEW n \in Nat,
           n = IF StorageAgreements'[b][p] = None THEN 0
               ELSE StorageAgreements'[b][p].max_bytes,
           Bytes(p)[b] <= Providers[p].committed_bytes =>
               Providers'[p].committed_bytes = Providers[p].committed_bytes - Bytes(p)[b] + n
    PROVE  ByteLedger'
<1>1. AgreementsPositive'
  BY DEF ByteLedger, AgreementsPositive
<1>2. Bytes(p) \in [BucketIds -> Nat] /\ IsFiniteSet(BucketIds)
  BY BytesType
<1>3. Providers[p].committed_bytes \in Nat
  BY TypeFacts DEF ProviderInfo
<1>4. SumFunction(Bytes(p)) = Providers[p].committed_bytes
  BY DEF ByteLedger, CommittedBytesExact, CommittedTo
<1>5. /\ Bytes(p)[b] <= Providers[p].committed_bytes
      /\ SumFunction([Bytes(p) EXCEPT ![b] = n])
            = Providers[p].committed_bytes - Bytes(p)[b] + n
  <2>1. /\ Bytes(p)[b] <= SumFunction(Bytes(p))
        /\ SumFunction([Bytes(p) EXCEPT ![b] = n])
              = SumFunction(Bytes(p)) - Bytes(p)[b] + n
    BY BytesUpdate
  <2> QED BY <1>4, <2>1
<1>6. Bytes(p)' = [Bytes(p) EXCEPT ![b] = n]
  BY DEF Bytes
<1>7. SumFunction(Bytes(p)') = Providers'[p].committed_bytes
  BY <1>5, <1>6
<1>8. \A q \in Accounts \ {p} : Bytes(q)' = Bytes(q)
  BY DEF Bytes
<1>9. CommittedBytesExact'
  BY <1>7, <1>8 DEF ByteLedger, CommittedBytesExact, CommittedTo
<1> QED BY <1>1, <1>9 DEF ByteLedger

\* Redeeming a quote: the new agreement's bytes are committed, and its
\* provider is registered and has not announced its exit.
LEMMA InsertAgreementStep ==
    ASSUME TypeOK, TypeOK', Ledger, L!Exposed, NEW q \in Quotes, NEW b \in BucketIds,
           NEW tickets, insert_agreement(b, q, tickets),
           q.max_bytes > 0, Providers[q.provider] # None,
           ensure_provider_active(Providers[q.provider]),
           StorageAgreements[b][q.provider] = None,
           UNCHANGED <<now, challengeVars>>,
           Buckets'[b] # None, \A c \in BucketIds \ {b} : Buckets'[c] = Buckets[c],
           BucketIdsFresh'
    PROVE  Implements
<1> DEFINE p == q.provider
<1>1. p \in Accounts /\ q \in Quote /\ q.max_bytes \in Nat
  BY DataAssumption DEF Quote
<1>2. /\ Providers' = [Providers EXCEPT ![p].committed_bytes = @ + q.max_bytes]
      /\ StorageAgreements' = [StorageAgreements EXCEPT ![b][p] = NewAgreement(q)]
  BY DEF insert_agreement
<1>3. NewAgreement(q) # None /\ NewAgreement(q).max_bytes = q.max_bytes
  <2>1. NewAgreement(q) \in StorageAgreement
    BY <1>1, TypeFacts, NewAgreementType
  <2> QED BY <2>1, NoneAssumption DEF NewAgreement
<1>4. Providers[p] \in ProviderInfo
  BY <1>1, TypeFacts
<1> DEFINE info == [Providers[p] EXCEPT
                       !.committed_bytes = Providers[p].committed_bytes + q.max_bytes]
<1>5. /\ info \in ProviderInfo
      /\ info.committed_bytes = Providers[p].committed_bytes + q.max_bytes
      /\ info.deregister_at = None
  BY <1>1, <1>4 DEF ProviderInfo, ensure_provider_active
<1>6. Providers' = [Providers EXCEPT ![p] = info]
  BY <1>1, <1>2 DEF TypeOK
<1> HIDE DEF info, p
<1>7. /\ Providers'[p] = info /\ info # None
      /\ \A x \in Accounts \ {p} : Providers'[x] = Providers[x]
  BY <1>1, <1>5, <1>6, NoneAssumption DEF TypeOK
<1>8. /\ StorageAgreements'[b][p] = NewAgreement(q)
      /\ \A c \in BucketIds, x \in Accounts :
             c # b \/ x # p => StorageAgreements'[c][x] = StorageAgreements[c][x]
  BY <1>1, <1>2 DEF TypeOK
<1>9. StorageAgreements[b][p] = None /\ Providers[p] # None /\ Providers[p].deregister_at = None
  BY DEF p, ensure_provider_active
<1>10. Bytes(p)[b] = 0
  BY <1>9 DEF Bytes
<1>11. ByteLedger'
  BY <1>1, <1>3, <1>4, <1>5, <1>7, <1>8, <1>9, <1>10, OneAgreementChanged
     DEF Ledger, ProviderInfo
<1>12. Ledger'
  BY <1>11, TypeFacts, ChallengeLedgerKept DEF Ledger
<1>13. PICK a \in Accounts : a = p
  BY <1>1
<1>14. L!Agree(b, a)
  <2>1. {x \in BucketIds \X Accounts : StorageAgreements'[x[1]][x[2]] # None}
          = {x \in BucketIds \X Accounts : StorageAgreements[x[1]][x[2]] # None} \cup {<<b, a>>}
    BY <1>1, <1>3, <1>8, <1>13
  <2>2. /\ {x \in Accounts : Providers'[x] # None} = {x \in Accounts : Providers[x] # None}
        /\ {x \in Accounts : Providers'[x] # None /\ Providers'[x].deregister_at # None}
             = {x \in Accounts : Providers[x] # None /\ Providers[x].deregister_at # None}
    BY <1>5, <1>7, <1>9
  <2>3. {c \in BucketIds : Buckets'[c] # None} = {c \in BucketIds : Buckets[c] # None} \cup {b}
    OBVIOUS
  <2> QED BY <1>9, <1>13, <2>1, <2>2, <2>3 DEF L!Agree, challengeVars
<1> QED BY <1>12, <1>14 DEF Implements, L!Next

\* The three calls that redeem a quote.
LEMMA QuoteNextStep ==
    ASSUME TypeOK, TypeOK', Ledger, L!Exposed, NEW who \in Accounts, QuoteNext(who)
    PROVE  Implements
<1>0. /\ Buckets \in [BucketIds -> Bucket \cup {None}] /\ NextBucketId \in Nat
      /\ \A q \in Quotes : q.provider \in Accounts
  <2>1. Quotes \subseteq Quote
    BY DataAssumption
  <2>2. \A q \in Quotes : q.provider \in Accounts
    BY <2>1 DEF Quote
  <2> QED BY <2>2 DEF TypeOK, IndexTypeOK
<1>1. ASSUME NEW q \in Quotes, NEW v \in Visibilities, create_bucket_with_primary(who, q, v)
      PROVE  Implements
  <2>1. PICK b \in BucketIds : b = NextBucketId
    BY <1>1 DEF create_bucket_with_primary, CanCreateBucket
  <2> DEFINE bucket == NewBucket(who, 1, <<q.provider>>, v)
  <2>2. /\ insert_agreement(b, q, 3)
        /\ UNCHANGED <<now, challengeVars>>
        /\ Buckets' = [Buckets EXCEPT ![b] = bucket]
        /\ NextBucketId' = NextBucketId + 1
        /\ q.max_bytes > 0 /\ Providers[q.provider] # None
        /\ ensure_provider_active(Providers[q.provider])
    BY <1>1, <2>1
       DEF create_bucket_with_primary, CreateBucketInternal, accept_quote, validate_terms,
           insert_agreement
  <2>3. bucket # None
    <3>1. <<q.provider>> \in Seq(Accounts)
      BY <1>0
    <3>2. bucket \in Bucket
      BY <3>1, NewBucketType, DataAssumption
    <3> QED BY <3>2, NoneAssumption
  <2> HIDE DEF bucket
  <2>4. Buckets[b] = None
    BY <1>0, <2>1 DEF Ledger, BucketIdsFresh
  <2>5. StorageAgreements[b][q.provider] = None
    BY <1>0, <2>4, ExposedFacts
  <2>6. BucketIdsFresh'
    BY <1>0, <2>1, <2>2, ConfigAssumption DEF Ledger, BucketIdsFresh, BucketIds
  <2>7. Buckets'[b] # None /\ \A c \in BucketIds \ {b} : Buckets'[c] = Buckets[c]
    BY <1>0, <2>2, <2>3
  <2> QED BY <2>2, <2>5, <2>6, <2>7, InsertAgreementStep
<1>2. ASSUME NEW q \in Quotes, NEW b \in BucketIds, add_primary_provider(who, b, q)
      PROVE  Implements
  <2>1. /\ insert_agreement(b, q, 1)
        /\ UNCHANGED <<now, challengeVars, NextBucketId>>
        /\ Buckets' = [Buckets EXCEPT ![b] = AppendPrimary(Buckets[b], q.provider)]
        /\ q.max_bytes > 0 /\ Providers[q.provider] # None
        /\ ensure_provider_active(Providers[q.provider])
        /\ Buckets[b] # None
    BY <1>2 DEF add_primary_provider, accept_quote, validate_terms
  <2>2. StorageAgreements[b][q.provider] = None
    <3>1. b # None
      BY NoneAssumption, ConfigAssumption DEF BucketIds
    <3> QED BY <1>2, <3>1 DEF add_primary_provider, accept_quote
  <2>3. AppendPrimary(Buckets[b], q.provider) # None
    BY <1>0, <2>1, AppendPrimaryType, NoneAssumption
  <2>4. Buckets'[b] # None /\ \A c \in BucketIds \ {b} : Buckets'[c] = Buckets[c]
    BY <1>0, <2>1, <2>3
  <2>5. BucketIdsFresh'
    BY <1>0, <2>1, <2>4 DEF Ledger, BucketIdsFresh
  <2> QED BY <2>1, <2>2, <2>4, <2>5, InsertAgreementStep
<1>3. ASSUME NEW q \in Quotes, NEW b \in BucketIds, add_replica_provider(who, b, q)
      PROVE  Implements
  <2>0. b # None
    BY NoneAssumption, ConfigAssumption DEF BucketIds
  <2>1. /\ insert_agreement(b, q, 1)
        /\ UNCHANGED <<now, challengeVars, NextBucketId, Buckets>>
        /\ q.max_bytes > 0 /\ Providers[q.provider] # None
        /\ ensure_provider_active(Providers[q.provider])
        /\ Buckets[b] # None /\ StorageAgreements[b][q.provider] = None
    BY <1>3, <2>0 DEF add_replica_provider, accept_quote, validate_terms
  <2>2. BucketIdsFresh'
    BY <2>1 DEF Ledger, BucketIdsFresh
  <2> QED BY <2>1, <2>2, InsertAgreementStep
<1> QED BY <1>1, <1>2, <1>3 DEF QuoteNext

\* A provider without open challenges on a bucket, by the pallet's counter,
\* has none.
LEMMA UnchallengedIsClear ==
    ASSUME TypeOK, Ledger, NEW b \in BucketIds, NEW p \in Accounts, Unchallenged(b, p)
    PROVE  OpenOn(b, p) = {}
<1>1. Cardinality(OpenOn(b, p)) = 0
  BY DEF Unchallenged, Ledger, ChallengeLedger, PendingCountersExact
<1>2. OpenOn(b, p) \subseteq DOMAIN Challenges /\ IsFiniteSet(DOMAIN Challenges)
  BY DEF OpenOn, OpenAgainst, TypeOK, ChallengeTypeOK
<1>3. IsFiniteSet(OpenOn(b, p))
  BY <1>2, FS_Subset
<1> QED BY <1>1, <1>3, FS_EmptySet

\* Closing an agreement nobody challenges (end_agreement,
\* claim_expired_agreement, remove_slashed) frees its bytes.
LEMMA CloseAgreementStep ==
    ASSUME TypeOK, TypeOK', Ledger, L!Exposed, NEW b \in BucketIds, NEW p \in Accounts,
           StorageAgreements[b][p] # None, Unchallenged(b, p),
           NEW f, CloseAgreement(b, p, f)
    PROVE  Implements
<1> DEFINE agreement == StorageAgreements[b][p]
           info == FreeBytes(Providers[p], agreement)
<1>1. /\ agreement \in StorageAgreement /\ agreement.max_bytes \in Nat
      /\ Buckets[b] # None /\ Buckets[b] \in Bucket
      /\ Providers[p] # None /\ Providers[p] \in ProviderInfo
      /\ Providers[p].committed_bytes \in Nat
      /\ Providers[p].deregister_at = None
  BY TypeFacts, ExposedFacts DEF StorageAgreement, ProviderInfo
<1>2. /\ Providers' = [Providers EXCEPT ![p] = info]
      /\ StorageAgreements' = [StorageAgreements EXCEPT ![b][p] = None]
      /\ UNCHANGED <<now, challengeVars, NextBucketId>>
  BY <1>1 DEF CloseAgreement, indexVars, TypeOK
<1>3. /\ info # None
      /\ info.deregister_at = None
      /\ agreement.max_bytes <= Providers[p].committed_bytes =>
            info.committed_bytes = Providers[p].committed_bytes - agreement.max_bytes
  <2>1. info \in ProviderInfo
    BY <1>1, FreeBytesType
  <2>2. info.deregister_at = None
    BY <1>1 DEF FreeBytes, ProviderInfo
  <2>3. info.committed_bytes = saturating_sub(Providers[p].committed_bytes, agreement.max_bytes)
    BY <1>1 DEF FreeBytes, ProviderInfo
  <2>4. agreement.max_bytes <= Providers[p].committed_bytes =>
            saturating_sub(Providers[p].committed_bytes, agreement.max_bytes)
                = Providers[p].committed_bytes - agreement.max_bytes
    BY <1>1 DEF saturating_sub
  <2> QED BY <2>1, <2>2, <2>3, <2>4, NoneAssumption
<1> HIDE DEF info
<1>4. /\ Providers'[p] = info
      /\ \A x \in Accounts \ {p} : Providers'[x] = Providers[x]
  BY <1>2 DEF TypeOK
<1>5. /\ StorageAgreements'[b][p] = None
      /\ \A c \in BucketIds, x \in Accounts :
             c # b \/ x # p => StorageAgreements'[c][x] = StorageAgreements[c][x]
  BY <1>2 DEF TypeOK
<1>6. BucketsKept
  <2> DEFINE bucket == IF agreement.role = "Primary" THEN remove_primary_from_bucket(Buckets[b], p)
                       ELSE Buckets[b]
  <2>1. bucket \in Bucket
    BY <1>1, RemovePrimaryType
  <2>2. Buckets' = [Buckets EXCEPT ![b] = bucket]
    BY <1>1 DEF CloseAgreement, TypeOK
  <2> HIDE DEF bucket
  <2> QED BY <1>1, <1>2, <2>1, <2>2, NoneAssumption DEF BucketsKept, TypeOK
<1>7. Bytes(p)[b] = agreement.max_bytes
  BY DEF Bytes
<1>8. ByteLedger'
  BY <1>1, <1>3, <1>4, <1>5, <1>7, OneAgreementChanged DEF Ledger
<1>9. Ledger'
  BY <1>2, <1>6, <1>8, TypeFacts, ChallengeLedgerKept DEF Ledger, BucketsKept, BucketIdsFresh
<1>10. L!End(b, p)
  <2>1. {x \in BucketIds \X Accounts : StorageAgreements'[x[1]][x[2]] # None}
          = {x \in BucketIds \X Accounts : StorageAgreements[x[1]][x[2]] # None} \ {<<b, p>>}
    BY <1>5
  <2>2. /\ {x \in Accounts : Providers'[x] # None} = {x \in Accounts : Providers[x] # None}
        /\ {x \in Accounts : Providers'[x] # None /\ Providers'[x].deregister_at # None}
             = {x \in Accounts : Providers[x] # None /\ Providers[x].deregister_at # None}
    BY <1>1, <1>3, <1>4
  <2>3. {c \in BucketIds : Buckets'[c] # None} = {c \in BucketIds : Buckets[c] # None}
    BY <1>6 DEF BucketsKept
  <2>4. L!OpenOn(<<b, p>>) = {}
    BY UnchallengedIsClear DEF L!OpenOn, OpenOn, OpenAgainst
  <2> QED BY <1>2, <2>1, <2>2, <2>3, <2>4 DEF L!End, challengeVars
<1> QED BY <1>9, <1>10 DEF Implements, L!Next

\* The calls on existing agreements.
LEMMA AgreementNextStep ==
    ASSUME TypeOK, TypeOK', Ledger, L!Exposed, NEW who \in Accounts, AgreementNext(who)
    PROVE  Implements
<1>0. now \in Nat
  BY TypeFacts
<1>1. ASSUME NEW b \in BucketIds, claim_expired_agreement(who, b) PROVE Implements
  BY <1>1, CloseAgreementStep DEF claim_expired_agreement, finalize_agreement
<1>2. ASSUME NEW b \in BucketIds, NEW p \in Accounts, NEW action \in EndActions,
             end_agreement(who, b, p, action)
      PROVE  Implements
  BY <1>2, CloseAgreementStep DEF end_agreement, finalize_agreement
<1>3. ASSUME NEW b \in BucketIds, NEW p \in Accounts, NEW n \in ByteAmounts,
             NEW m \in PaymentLimits, top_up_agreement(who, b, p, n, m)
      PROVE  Implements
  <2> DEFINE agreement == StorageAgreements[b][p]
             payment == calculate_payment(Providers[p].settings.price_per_byte, n,
                                          agreement.expires_at - now)
             info == [Providers[p] EXCEPT
                         !.committed_bytes = Providers[p].committed_bytes + n]
  <2>1. /\ Providers[p] # None /\ agreement # None /\ n \in Nat
        /\ Providers[p] \in ProviderInfo /\ agreement \in StorageAgreement
        /\ agreement.max_bytes \in Nat /\ Providers[p].committed_bytes \in Nat
    BY <1>3, TypeFacts, DataAssumption DEF top_up_agreement, StorageAgreement, ProviderInfo
  <2>2. /\ StorageAgreements' = [StorageAgreements EXCEPT ![b][p] = Enlarged(agreement, n, payment)]
        /\ Providers' = [Providers EXCEPT ![p] = info]
        /\ UNCHANGED <<now, Buckets, challengeVars, NextBucketId>>
    BY <1>3 DEF top_up_agreement, indexVars, TypeOK
  <2> HIDE DEF payment
  <2>3. /\ info \in ProviderInfo
        /\ info.committed_bytes = Providers[p].committed_bytes + n
        /\ info.deregister_at = Providers[p].deregister_at
    BY <2>1 DEF ProviderInfo
  <2>4. Enlarged(agreement, n, payment).max_bytes = agreement.max_bytes + n
    BY <2>1 DEF Enlarged, StorageAgreement
  <2>5. Enlarged(agreement, n, payment) # None
    <3>1. \A x \in StorageAgreement \cup {None} : x # None => x \in StorageAgreement
      OBVIOUS
    <3>2. payment \in Nat
      <4>1. Providers[p].settings.price_per_byte \in Nat
        BY <2>1 DEF ProviderInfo, ProviderSettings
      <4>2. agreement.expires_at - now \in Nat
        BY <1>0, <1>3, <2>1 DEF top_up_agreement, StorageAgreement
      <4> HIDE DEF agreement
      <4> QED BY <2>1, <4>1, <4>2 DEF payment, calculate_payment
    <3> QED BY <2>1, <3>2, EnlargedType, NoneAssumption
  <2> HIDE DEF info
  <2>6. /\ Providers'[p] = info /\ info # None
        /\ \A x \in Accounts \ {p} : Providers'[x] = Providers[x]
    BY <2>2, <2>3, NoneAssumption DEF TypeOK
  <2>7. /\ StorageAgreements'[b][p] = Enlarged(agreement, n, payment)
        /\ \A c \in BucketIds, x \in Accounts :
               c # b \/ x # p => StorageAgreements'[c][x] = StorageAgreements[c][x]
    BY <2>2 DEF TypeOK
  <2>8. Bytes(p)[b] = agreement.max_bytes /\ agreement.max_bytes > 0
    BY <2>1 DEF Bytes, Ledger, ByteLedger, AgreementsPositive
  <2>9. ByteLedger'
    <3>1. agreement.max_bytes + n \in Nat /\ agreement.max_bytes + n > 0
      BY <2>1, <2>8
    <3>2. info.committed_bytes
            = Providers[p].committed_bytes - Bytes(p)[b] + (agreement.max_bytes + n)
      BY <2>1, <2>3, <2>8
    <3> QED BY <2>1, <2>4, <2>5, <2>6, <2>7, <3>1, <3>2, OneAgreementChanged DEF Ledger
  <2>10. Ledger'
    BY <1>0, <2>2, <2>9, ChallengeLedgerKept DEF Ledger, BucketIdsFresh
  <2>11. UNCHANGED L!vars
    <3>1. {x \in BucketIds \X Accounts : StorageAgreements'[x[1]][x[2]] # None}
            = {x \in BucketIds \X Accounts : StorageAgreements[x[1]][x[2]] # None}
      BY <2>1, <2>5, <2>7
    <3>2. /\ {x \in Accounts : Providers'[x] # None} = {x \in Accounts : Providers[x] # None}
          /\ {x \in Accounts : Providers'[x] # None /\ Providers'[x].deregister_at # None}
               = {x \in Accounts : Providers[x] # None /\ Providers[x].deregister_at # None}
      BY <2>1, <2>3, <2>6
    <3> QED BY <2>2, <3>1, <3>2 DEF L!vars, challengeVars
  <2> QED BY <2>10, <2>11 DEF Implements
<1>4. ASSUME NEW b \in BucketIds, NEW p \in Accounts, AgreementReplacedIn(b, p),
             UNCHANGED <<now, Providers, Buckets, challengeVars, NextBucketId>>
      PROVE  Implements
  <2>1. AgreementsKept
    BY <1>4, SomeAgreementReplaced
  <2>2. ProvidersKept /\ BucketsKept
    BY <1>4 DEF ProvidersKept, BucketsKept
  <2> QED BY <1>0, <1>4, <2>1, <2>2, QuietStep DEF Implements
<1>5. ASSUME NEW b \in BucketIds, NEW p \in Accounts, NEW d \in Durations,
             NEW m \in PaymentLimits, extend_agreement(who, b, p, d, m)
      PROVE  Implements
  <2>1. UNCHANGED <<now, Providers, Buckets, challengeVars, NextBucketId>>
    BY <1>5 DEF extend_agreement, indexVars
  <2> QED BY <1>4, <1>5, <2>1, ExtendType
<1>6. ASSUME NEW b \in BucketIds, NEW p \in Accounts, NEW a \in NewOwners,
             transfer_agreement_ownership(who, b, p, a)
      PROVE  Implements
  <2>1. UNCHANGED <<now, Providers, Buckets, challengeVars, NextBucketId>>
    BY <1>6 DEF transfer_agreement_ownership, indexVars
  <2> QED BY <1>4, <1>6, <2>1, TransferType
<1>7. ASSUME NEW b \in BucketIds, NEW i \in 0 .. Len(HISTORICAL_ROOT_PRIMES),
             confirm_replica_sync(who, b, i)
      PROVE  Implements
  <2>1. UNCHANGED <<now, Providers, Buckets, challengeVars, NextBucketId>>
    BY <1>7 DEF confirm_replica_sync, indexVars
  <2> QED BY <1>4, <1>7, <2>1, ConfirmSyncType
<1>8. ASSUME NEW b \in BucketIds, NEW p \in Accounts, NEW n \in SyncAmounts,
             top_up_replica_sync_balance(who, b, p, n)
      PROVE  Implements
  <2>1. UNCHANGED <<now, Providers, Buckets, challengeVars, NextBucketId>>
    BY <1>8 DEF top_up_replica_sync_balance, indexVars
  <2> QED BY <1>4, <1>8, <2>1, TopUpSyncType
<1> QED BY <1>1, <1>2, <1>3, <1>5, <1>6, <1>7, <1>8 DEF AgreementNext

\* The counter of a deadline that is still ahead hands out no id in use.
LEMMA NewIdFresh ==
    ASSUME TypeOK, Ledger, NEW id, Expiry < MaxBlock,
           id = [deadline |-> Expiry, index |-> NextChallengeIndex[Expiry]]
    PROVE  id \notin DOMAIN Challenges
<1> SUFFICES ASSUME id \in DOMAIN Challenges PROVE FALSE
  OBVIOUS
<1>1. now \in Nat /\ Expiry \in Nat /\ Expiry \in Deadlines /\ Expiry >= now
  BY TypeFacts, ConfigAssumption DEF Expiry, Deadlines
<1>2. NextChallengeIndex[Expiry] \in Nat
  BY <1>1, ConfigAssumption DEF TypeOK, ChallengeTypeOK
<1>3. id.deadline = Expiry /\ id.index = NextChallengeIndex[Expiry]
  OBVIOUS
<1>4. id.index < NextChallengeIndex[id.deadline] \/ id.deadline < now
  BY DEF Ledger, ChallengeLedger, IdsFresh
<1> QED BY <1>1, <1>2, <1>3, <1>4

\* Opening a challenge: its id is fresh and both counters follow.
LEMMA CreateChallengeStep ==
    ASSUME TypeOK, TypeOK', Ledger, L!Exposed, NEW who \in Accounts, NEW b \in BucketIds,
           NEW p \in Accounts, NEW c, NEW leaf_index, StorageAgreements[b][p] # None,
           create_challenge(who, b, p, c, leaf_index)
    PROVE  Implements
<1>1. now \in Nat /\ Expiry \in Nat /\ Expiry \in Deadlines /\ Expiry >= now
  <2>1. Expiry < MaxBlock
    BY DEF create_challenge
  <2> QED BY <2>1, TypeFacts, ConfigAssumption DEF Expiry, Deadlines
<1>2. PICK id : id = [deadline |-> Expiry, index |-> NextChallengeIndex[Expiry]]
  OBVIOUS
<1>3. /\ DOMAIN Challenges' = DOMAIN Challenges \cup {id}
      /\ Challenges'[id].bucket_id = b /\ Challenges'[id].provider = p
      /\ \A x \in DOMAIN Challenges \ {id} : Challenges'[x] = Challenges[x]
  BY <1>2 DEF create_challenge, AllocateIndex
<1>4. /\ NextChallengeIndex' = [NextChallengeIndex EXCEPT ![Expiry] = @ + 1]
      /\ NextChallengeIndex \in [Deadlines -> Nat]
      /\ NextChallengeIndex[Expiry] < MaxChallengesPerDeadline
  BY ConfigAssumption DEF create_challenge, HasRoom, TypeOK, ChallengeTypeOK
<1>5. id \notin DOMAIN Challenges
  <2>1. Expiry < MaxBlock
    BY DEF create_challenge
  <2> QED BY <1>2, <2>1, NewIdFresh
<1>6. IdsFresh'
  <2> SUFFICES ASSUME NEW x \in DOMAIN Challenges'
               PROVE  /\ x.deadline \in Deadlines
                      /\ \/ x.index < NextChallengeIndex'[x.deadline]
                         \/ x.deadline < now'
    BY DEF IdsFresh
  <2>1. now' = now
    BY DEF create_challenge
  <2>2. CASE x = id
    BY <1>1, <1>2, <1>4, <2>2
  <2>3. CASE x # id
    <3>1. x \in DOMAIN Challenges
      BY <1>3, <2>3
    <3>2. x.deadline \in Deadlines /\ x.index \in Nat
      BY <3>1 DEF Ledger, ChallengeLedger, IdsFresh, TypeOK, ChallengeTypeOK, ChallengeId
    <3>3. ASSUME NEW d \in Deadlines
          PROVE  /\ NextChallengeIndex[d] \in Nat /\ NextChallengeIndex'[d] \in Nat
                 /\ NextChallengeIndex'[d] >= NextChallengeIndex[d]
      <4>1. CASE d = Expiry
        BY <1>4, <4>1
      <4>2. CASE d # Expiry
        BY <1>4, <4>2
      <4> QED BY <4>1, <4>2
    <3>4. x.index < NextChallengeIndex[x.deadline] \/ x.deadline < now
      BY <3>1 DEF Ledger, ChallengeLedger, IdsFresh
    <3> QED BY <2>1, <3>2, <3>3, <3>4
  <2> QED BY <2>2, <2>3
<1>7. PendingCountersExact'
  <2>1. /\ PendingChallenges' = [PendingChallenges EXCEPT ![p] = @ + 1]
        /\ PendingChallenges \in [Accounts -> Nat]
    BY DEF create_challenge, TypeOK, ChallengeTypeOK
  <2>2. /\ PendingChallengesByBucket' = [PendingChallengesByBucket EXCEPT ![b][p] = @ + 1]
        /\ PendingChallengesByBucket \in [BucketIds -> [Accounts -> Nat]]
    BY DEF create_challenge, TypeOK, ChallengeTypeOK
  <2>3. IsFiniteSet(DOMAIN Challenges)
    BY DEF TypeOK, ChallengeTypeOK
  <2>4. ASSUME NEW a \in Accounts PROVE PendingChallenges'[a] = Cardinality(OpenAgainst(a)')
    <3>1. PendingChallenges[a] = Cardinality(OpenAgainst(a))
      BY DEF Ledger, ChallengeLedger, PendingCountersExact
    <3>2. OpenAgainst(a) \subseteq DOMAIN Challenges /\ IsFiniteSet(OpenAgainst(a))
      <4>1. OpenAgainst(a) \subseteq DOMAIN Challenges
        BY DEF OpenAgainst
      <4> QED BY <2>3, <4>1, FS_Subset
    <3>3. CASE a = p
      <4>1. OpenAgainst(a)' = OpenAgainst(a) \cup {id} /\ id \notin OpenAgainst(a)
        BY <1>3, <1>5, <3>3 DEF OpenAgainst
      <4>2. Cardinality(OpenAgainst(a) \cup {id}) = Cardinality(OpenAgainst(a)) + 1
        BY <3>2, <4>1, FS_AddElement
      <4> QED BY <2>1, <3>1, <3>3, <4>1, <4>2
    <3>4. CASE a # p
      <4>1. OpenAgainst(a)' = OpenAgainst(a)
        BY <1>3, <1>5, <3>4 DEF OpenAgainst
      <4> QED BY <2>1, <3>1, <3>4, <4>1
    <3> QED BY <3>3, <3>4
  <2>5. ASSUME NEW a \in Accounts, NEW d \in BucketIds
        PROVE  PendingChallengesByBucket'[d][a] = Cardinality(OpenOn(d, a)')
    <3>1. PendingChallengesByBucket[d][a] = Cardinality(OpenOn(d, a))
      BY DEF Ledger, ChallengeLedger, PendingCountersExact
    <3>2. OpenOn(d, a) \subseteq DOMAIN Challenges /\ IsFiniteSet(OpenOn(d, a))
      <4>1. OpenOn(d, a) \subseteq DOMAIN Challenges
        BY DEF OpenOn, OpenAgainst
      <4> QED BY <2>3, <4>1, FS_Subset
    <3>3. CASE a = p /\ d = b
      <4>1. OpenOn(d, a)' = OpenOn(d, a) \cup {id} /\ id \notin OpenOn(d, a)
        BY <1>3, <1>5, <3>3 DEF OpenOn, OpenAgainst
      <4>2. Cardinality(OpenOn(d, a) \cup {id}) = Cardinality(OpenOn(d, a)) + 1
        BY <3>2, <4>1, FS_AddElement
      <4> QED BY <2>2, <3>1, <3>3, <4>1, <4>2
    <3>4. CASE ~(a = p /\ d = b)
      <4>1. OpenOn(d, a)' = OpenOn(d, a)
        BY <1>3, <1>5, <3>4 DEF OpenOn, OpenAgainst
      <4> QED BY <2>2, <3>1, <3>4, <4>1
    <3> QED BY <3>3, <3>4
  <2> QED BY <2>4, <2>5 DEF PendingCountersExact
<1>8. Ledger'
  <2>1. UNCHANGED <<now, Providers, StorageAgreements, Buckets, NextBucketId>>
    BY DEF create_challenge, indexVars
  <2>2. ByteLedger'
    BY <2>1, ByteLedgerKept DEF Ledger, ProvidersKept, AgreementsKept
  <2> QED BY <1>6, <1>7, <2>1, <2>2 DEF Ledger, ChallengeLedger, BucketIdsFresh
<1>9. L!Challenge(id, b, p)
  <2>1. UNCHANGED <<Providers, StorageAgreements, Buckets>>
    BY DEF create_challenge
  <2>2. [x \in DOMAIN Challenges' |-> <<Challenges'[x].bucket_id, Challenges'[x].provider>>]
          = [x \in DOMAIN Challenges \cup {id} |-> IF x = id THEN <<b, p>>
                ELSE [y \in DOMAIN Challenges |->
                         <<Challenges[y].bucket_id, Challenges[y].provider>>][x]]
    BY <1>3
  <2> QED BY <1>5, <2>1, <2>2 DEF L!Challenge
<1>10. id \in [deadline : Deadlines, index : 0 .. MaxChallengesPerDeadline - 1]
  BY <1>1, <1>2, <1>4, ConfigAssumption
<1> QED BY <1>8, <1>9, <1>10 DEF Implements, L!Next

\* Closing a challenge, answered or expired: its counters follow, and the
\* index counter may be reset only for a deadline that is over.
LEMMA CloseChallengeStep ==
    ASSUME TypeOK, TypeOK', Ledger, NEW id \in DOMAIN Challenges,
           TakeChallenge(id), decrement_pending(Challenges[id]),
           \A d \in Deadlines : \/ NextChallengeIndex'[d] = NextChallengeIndex[d]
                                \/ d < now,
           ProvidersKept, UNCHANGED <<now, StorageAgreements, Buckets, NextBucketId>>
    PROVE  Implements
<1> DEFINE p == Challenges[id].provider
           b == Challenges[id].bucket_id
<1>1. p \in Accounts /\ b \in BucketIds
  BY DEF TypeOK, ChallengeTypeOK, Challenge
<1>2. /\ DOMAIN Challenges' = DOMAIN Challenges \ {id}
      /\ \A x \in DOMAIN Challenges' : Challenges'[x] = Challenges[x]
  BY DEF TakeChallenge
<1>3. IdsFresh'
  BY <1>2 DEF Ledger, ChallengeLedger, IdsFresh
<1>4. IsFiniteSet(DOMAIN Challenges)
  BY DEF TypeOK, ChallengeTypeOK
<1>5. /\ PendingChallenges \in [Accounts -> Nat]
      /\ PendingChallengesByBucket \in [BucketIds -> [Accounts -> Nat]]
      /\ PendingChallenges' = [PendingChallenges EXCEPT ![p] = saturating_sub(@, 1)]
      /\ PendingChallengesByBucket' =
            [PendingChallengesByBucket EXCEPT ![b][p] = saturating_sub(@, 1)]
  BY DEF TypeOK, ChallengeTypeOK, decrement_pending
<1> HIDE DEF p, b
<1>6. ASSUME NEW S \in SUBSET DOMAIN Challenges, id \in S
      PROVE  saturating_sub(Cardinality(S), 1) = Cardinality(S \ {id})
  <2>1. IsFiniteSet(S)
    BY <1>4, FS_Subset
  <2>2. Cardinality(S \ {id}) = Cardinality(S) - 1 /\ IsFiniteSet(S \ {id})
    BY <1>6, <2>1, FS_RemoveElement
  <2>3. Cardinality(S) \in Nat /\ Cardinality(S \ {id}) \in Nat
    BY <2>1, <2>2, FS_CardinalityType
  <2> QED BY <2>2, <2>3 DEF saturating_sub
<1>7. ASSUME NEW a \in Accounts PROVE PendingChallenges'[a] = Cardinality(OpenAgainst(a)')
  <2>1. PendingChallenges[a] = Cardinality(OpenAgainst(a))
    BY DEF Ledger, ChallengeLedger, PendingCountersExact
  <2>2. OpenAgainst(a) \in SUBSET DOMAIN Challenges
    BY DEF OpenAgainst
  <2>3. CASE a = p
    <3>1. OpenAgainst(a)' = OpenAgainst(a) \ {id} /\ id \in OpenAgainst(a)
      BY <1>2, <2>3 DEF OpenAgainst, p
    <3>2. saturating_sub(Cardinality(OpenAgainst(a)), 1) = Cardinality(OpenAgainst(a) \ {id})
      BY <1>6, <2>2, <3>1
    <3>3. PendingChallenges'[a] = saturating_sub(PendingChallenges[a], 1)
      BY <1>5, <2>3
    <3> QED BY <2>1, <3>1, <3>2, <3>3
  <2>4. CASE a # p
    <3>1. OpenAgainst(a)' = OpenAgainst(a)
      BY <1>2, <2>4 DEF OpenAgainst, p
    <3> QED BY <1>5, <2>1, <2>4, <3>1
  <2> QED BY <2>3, <2>4
<1>8. ASSUME NEW a \in Accounts, NEW d \in BucketIds
      PROVE  PendingChallengesByBucket'[d][a] = Cardinality(OpenOn(d, a)')
  <2>1. PendingChallengesByBucket[d][a] = Cardinality(OpenOn(d, a))
    BY DEF Ledger, ChallengeLedger, PendingCountersExact
  <2>2. OpenOn(d, a) \in SUBSET DOMAIN Challenges
    BY DEF OpenOn, OpenAgainst
  <2>3. CASE a = p /\ d = b
    <3>1. OpenOn(d, a)' = OpenOn(d, a) \ {id} /\ id \in OpenOn(d, a)
      BY <1>2, <2>3 DEF OpenOn, OpenAgainst, p, b
    <3>2. saturating_sub(Cardinality(OpenOn(d, a)), 1) = Cardinality(OpenOn(d, a) \ {id})
      BY <1>6, <2>2, <3>1
    <3>3. PendingChallengesByBucket'[d][a] = saturating_sub(PendingChallengesByBucket[d][a], 1)
      BY <1>5, <2>3
    <3> QED BY <2>1, <3>1, <3>2, <3>3
  <2>4. CASE ~(a = p /\ d = b)
    <3>1. OpenOn(d, a)' = OpenOn(d, a)
      BY <1>2, <2>4 DEF OpenOn, OpenAgainst, p, b
    <3> QED BY <1>5, <2>1, <2>4, <3>1
  <2> QED BY <2>3, <2>4
<1>9. PendingCountersExact'
  BY <1>7, <1>8 DEF PendingCountersExact
<1>10. Ledger'
  <2>1. ByteLedger'
    BY ByteLedgerKept DEF Ledger, AgreementsKept
  <2> QED BY <1>3, <1>9, <2>1 DEF Ledger, ChallengeLedger, BucketIdsFresh
<1>11. L!Close(id)
  <2>1. /\ {x \in Accounts : Providers'[x] # None} = {x \in Accounts : Providers[x] # None}
        /\ {x \in Accounts : Providers'[x] # None /\ Providers'[x].deregister_at # None}
             = {x \in Accounts : Providers[x] # None /\ Providers[x].deregister_at # None}
    BY DEF ProvidersKept
  <2>2. [x \in DOMAIN Challenges' |-> <<Challenges'[x].bucket_id, Challenges'[x].provider>>]
          = [x \in DOMAIN Challenges \ {id} |->
                [y \in DOMAIN Challenges |->
                    <<Challenges[y].bucket_id, Challenges[y].provider>>][x]]
    BY <1>2
  <2> QED BY <2>1, <2>2 DEF L!Close
<1> QED BY <1>10, <1>11 DEF Implements, L!Next

\* The calls that open and answer challenges.
LEMMA ChallengeNextStep ==
    ASSUME TypeOK, TypeOK', Ledger, L!Exposed, NEW who \in Accounts, ChallengeNext(who)
    PROVE  Implements
<1>1. ASSUME NEW b \in BucketIds, NEW p \in Accounts, NEW leaf_index \in LeafIndices,
             challenge_checkpoint(who, b, p, leaf_index)
      PROVE  Implements
  <2>1. PICK c : create_challenge(who, b, p, c, leaf_index)
    BY <1>1 DEF challenge_checkpoint
  <2> QED BY <1>1, <2>1, CreateChallengeStep DEF challenge_checkpoint, Live
<1>2. ASSUME NEW b \in BucketIds, NEW p \in Accounts, NEW leaf_index \in LeafIndices,
             NEW c \in Commitments, challenge_offchain(who, b, p, c, leaf_index)
      PROVE  Implements
  BY <1>2, CreateChallengeStep DEF challenge_offchain, Live
<1>3. ASSUME NEW b \in BucketIds, NEW p \in Accounts, NEW leaf_index \in LeafIndices,
             challenge_replica(who, b, p, leaf_index)
      PROVE  Implements
  <2>1. PICK c : create_challenge(who, b, p, c, leaf_index)
    BY <1>3 DEF challenge_replica
  <2> QED BY <1>3, <2>1, CreateChallengeStep DEF challenge_replica, Live
<1>4. ASSUME NEW id \in DOMAIN Challenges, NEW r \in ResponseKinds,
             respond_to_challenge(who, id, r)
      PROVE  Implements
  <2>1. /\ TakeChallenge(id) /\ decrement_pending(Challenges[id])
        /\ UNCHANGED <<now, Providers, StorageAgreements, Buckets, NextBucketId,
                       NextChallengeIndex>>
    BY <1>4 DEF respond_to_challenge, indexVars
  <2>2. ProvidersKept
    BY <2>1 DEF ProvidersKept
  <2> QED BY <2>1, <2>2, CloseChallengeStep
<1> QED BY <1>1, <1>2, <1>3, <1>4 DEF ChallengeNext

\* The resolution of an expired challenge: the slash takes stake, nothing
\* Liability speaks of, and the counter it resets is of a past deadline.
LEMMA ResolveStep ==
    ASSUME TypeOK, TypeOK', Ledger, NEW id \in DOMAIN Challenges,
           resolve_expired_challenge(id)
    PROVE  Implements
<1>1. /\ TakeChallenge(id) /\ decrement_pending(Challenges[id])
      /\ UNCHANGED <<now, StorageAgreements, Buckets, NextBucketId>>
      /\ NextChallengeIndex' = [NextChallengeIndex EXCEPT ![id.deadline] = 0]
      /\ now > id.deadline
      /\ slash_provider_for_failed_challenge(Challenges[id])
  BY DEF resolve_expired_challenge, Expired, indexVars
<1>2. \A d \in Deadlines : NextChallengeIndex'[d] = NextChallengeIndex[d] \/ d < now
  <2>1. now \in Nat /\ id.deadline \in Deadlines /\ Deadlines \subseteq Nat
    BY TypeFacts, ConfigAssumption DEF Ledger, ChallengeLedger, IdsFresh, Deadlines
  <2>2. NextChallengeIndex \in [Deadlines -> Nat]
    BY ConfigAssumption DEF TypeOK, ChallengeTypeOK
  <2> QED BY <1>1, <2>1, <2>2
<1>3. ProvidersKept
  <2> DEFINE p == Challenges[id].provider
             slashed == BestEffort(funds, "ProviderStake", p, Providers[p].stake)
  <2>1. p \in Accounts
    BY DEF TypeOK, ChallengeTypeOK, Challenge
  <2>2. CASE Providers[p] = None
    BY <1>1, <2>2 DEF slash_provider_for_failed_challenge, ProvidersKept
  <2>3. CASE Providers[p] # None
    <3>1. Providers[p] \in ProviderInfo /\ Providers[p].stake \in Nat
      BY <2>1, <2>3, TypeFacts DEF ProviderInfo
    <3>2. Providers' = [Providers EXCEPT ![p].stake = saturating_sub(@, slashed)]
      BY <1>1, <2>3 DEF slash_provider_for_failed_challenge
    <3>3. slashed \in Nat
      BY <2>1, <3>1, BestEffortType DEF TypeOK, HoldReasons
    <3> HIDE DEF slashed, p
    <3> DEFINE info == [Providers[p] EXCEPT !.stake = saturating_sub(Providers[p].stake, slashed)]
    <3>4. saturating_sub(Providers[p].stake, slashed) \in Nat
      BY <3>1, <3>3 DEF saturating_sub
    <3>5. /\ info \in ProviderInfo
          /\ info.deregister_at = Providers[p].deregister_at
          /\ info.committed_bytes = Providers[p].committed_bytes
      BY <3>1, <3>4 DEF ProviderInfo
    <3>6. Providers' = [Providers EXCEPT ![p] = info]
      BY <2>1, <3>2 DEF TypeOK
    <3> HIDE DEF info
    <3> QED BY <2>1, <2>3, <3>5, <3>6, ProviderReplaced
  <2> QED BY <2>2, <2>3
<1> QED BY <1>1, <1>2, <1>3, CloseChallengeStep

----------------------------------------------------------------------------
(* Implementing Liability: the theorems                                     *)

\* The inductive invariant of the pallet.
Accountable == TypeOK /\ Ledger /\ L!Exposed

\* Every step keeps the ledger and is a step of Liability.
LEMMA StepImplements ==
    ASSUME Accountable, [Next]_vars
    PROVE  TypeOK' /\ Implements
<1>0. TypeOK /\ Ledger /\ L!Exposed /\ TypeOK' /\ now \in Nat
  BY TypeStep, TypeFacts DEF Accountable
<1>1. CASE Tick
  <2>1. ProvidersKept /\ BucketsKept /\ AgreementsKept
    BY <1>1 DEF Tick, ProvidersKept, BucketsKept, AgreementsKept, indexVars
  <2> QED BY <1>0, <1>1, <2>1, QuietStep DEF Tick, Implements
<1>2. ASSUME NEW who \in Reapable, NEW dest \in Accounts, on_killed_account(who, dest)
      PROVE  Implements
  <2>1. ProvidersKept /\ BucketsKept /\ AgreementsKept
    BY <1>2 DEF on_killed_account, ProvidersKept, BucketsKept, AgreementsKept
  <2> QED BY <1>0, <1>2, <2>1, QuietStep DEF on_killed_account, Implements
<1>3. ASSUME NEW who \in Accounts,
             \/ ProviderNext(who) \/ BucketNext(who) \/ QuoteNext(who)
             \/ AgreementNext(who) \/ ChallengeNext(who)
      PROVE  Implements
  BY <1>0, <1>3, ProviderNextStep, BucketNextStep, QuoteNextStep, AgreementNextStep,
     ChallengeNextStep
<1>4. ASSUME NEW b \in BucketIds, NEW p \in Accounts, remove_slashed(b, p)
      PROVE  Implements
  BY <1>0, <1>4, CloseAgreementStep DEF remove_slashed
<1>5. ASSUME NEW id \in DOMAIN Challenges, resolve_expired_challenge(id)
      PROVE  Implements
  BY <1>0, <1>5, ResolveStep
<1>6. CASE UNCHANGED vars
  <2>1. ProvidersKept /\ BucketsKept /\ AgreementsKept
    BY <1>6 DEF vars, ProvidersKept, BucketsKept, AgreementsKept
  <2>2. UNCHANGED challengeVars /\ now' >= now
    BY <1>0, <1>6 DEF vars, challengeVars
  <2> QED BY <1>0, <2>1, <2>2, QuietStep DEF Implements
<1> QED BY <1>0, <1>1, <1>2, <1>3, <1>4, <1>5, <1>6 DEF Next

\* Genesis is an initial state of Liability with an exact ledger.
LEMMA InitImplements ==
    ASSUME Init
    PROVE  TypeOK /\ Ledger /\ L!Init
<1>1. TypeOK
  BY TypeInit
<1>2. L!Init
  BY DEF Init, L!Init, NewProvider
<1>3. DOMAIN Challenges = {}
  BY DEF Init
<1>4. ChallengeLedger
  <2>1. \A p \in Accounts : OpenAgainst(p) = {} /\ \A b \in BucketIds : OpenOn(b, p) = {}
    BY <1>3 DEF OpenAgainst, OpenOn
  <2>2. Cardinality({}) = 0
    BY FS_EmptySet
  <2> QED BY <1>3, <2>1, <2>2 DEF Init, ChallengeLedger, IdsFresh, PendingCountersExact
<1>5. BucketIdsFresh
  <2>1. GenesisBuckets \in Seq([admin : Accounts, min_providers : Nat])
    BY DataAssumption
  <2>2. DOMAIN GenesisBuckets = 1 .. Len(GenesisBuckets) /\ Len(GenesisBuckets) \in Nat
    BY <2>1
  <2>3. /\ NextBucketId = Len(GenesisBuckets)
        /\ \A b \in BucketIds : b + 1 \notin DOMAIN GenesisBuckets => Buckets[b] = None
    BY DEF Init
  <2>4. \A b \in BucketIds : b >= Len(GenesisBuckets) => b + 1 \notin DOMAIN GenesisBuckets
    BY <2>2, ConfigAssumption DEF BucketIds
  <2> QED BY <2>3, <2>4 DEF BucketIdsFresh
<1>6. ByteLedger
  <2>1. AgreementsPositive
    BY DEF Init, AgreementsPositive
  <2>2. ASSUME NEW p \in Accounts, Providers[p] # None
        PROVE  Providers[p].committed_bytes = CommittedTo(p)
    <3>1. Providers[p].committed_bytes = 0
      BY <2>2 DEF Init, NewProvider
    <3>2. \A b \in BucketIds : Bytes(p)[b] = 0
      BY DEF Init, Bytes
    <3>3. TypeOK
      BY TypeInit
    <3> QED BY <3>1, <3>2, <3>3, BytesType, SumOfZeros DEF CommittedTo
  <2> QED BY <2>1, <2>2 DEF ByteLedger, CommittedBytesExact
<1> QED BY <1>1, <1>2, <1>4, <1>5, <1>6 DEF Ledger

\* The invariant holds in every reachable state, and every step is a step of
\* Liability.
THEOREM AccountableAlways == Spec => []Accountable /\ [][L!Next]_(L!vars)
<1>1. Init => Accountable
  BY InitImplements, ExposedInit DEF Accountable
<1>2. Accountable /\ [Next]_vars => Accountable' /\ [L!Next]_(L!vars)
  BY StepImplements, ExposedStep DEF Accountable, Implements
<1> QED BY <1>1, <1>2, PTL DEF Spec

\* The pallet implements Liability: no agreement ends, and no provider
\* announces its exit or leaves, while a challenge can still reach it, and
\* challenge ids are never handed out twice.  For every configuration.
THEOREM PalletImplementsLiability == Spec => LiabilityImplemented
<1>1. Init => L!Init
  BY InitImplements
<1> QED BY <1>1, AccountableAlways, PTL DEF Spec, LiabilityImplemented, L!Spec

\* The two pending-challenge counters always equal the numbers of open
\* challenges they stand for.
THEOREM CountersExact == Spec => []PendingCountersExact
<1>1. Accountable => PendingCountersExact
  BY DEF Accountable, Ledger, ChallengeLedger
<1> QED BY <1>1, AccountableAlways, PTL

\* committed_bytes always is the sum of the provider's agreements.
THEOREM CommittedAlwaysExact == Spec => []CommittedBytesExact
<1>1. Accountable => CommittedBytesExact
  BY DEF Accountable, Ledger, ByteLedger
<1> QED BY <1>1, AccountableAlways, PTL

\* Whoever is challenged is registered, and the agreement and the bucket are
\* there, until the challenge is closed.
THEOREM ChallengesStayAccountable == Spec => []ChallengeAccountability
<1>1. Accountable => ChallengeAccountability
  <2> SUFFICES ASSUME Accountable, NEW id \in DOMAIN Challenges
               PROVE  /\ Providers[Challenges[id].provider] # None
                      /\ Buckets[Challenges[id].bucket_id] # None
                      /\ StorageAgreements[Challenges[id].bucket_id][Challenges[id].provider]
                            # None
    BY DEF ChallengeAccountability
  <2>1. Challenges[id].provider \in Accounts /\ Challenges[id].bucket_id \in BucketIds
    BY DEF Accountable, TypeOK, ChallengeTypeOK, Challenge
  <2> QED BY <2>1, ExposedFacts DEF Accountable
<1> QED BY <1>1, AccountableAlways, PTL

\* An announced provider has no agreement and no open challenge.
THEOREM AnnouncedStaysClear == Spec => []AnnouncedProviderIsClear
<1>1. Accountable => AnnouncedProviderIsClear
  <2> SUFFICES ASSUME Accountable, NEW p \in Accounts, Providers[p] # None,
                      Providers[p].deregister_at # None
               PROVE  /\ \A b \in BucketIds : StorageAgreements[b][p] = None
                      /\ OpenAgainst(p) = {}
    BY DEF AnnouncedProviderIsClear
  <2>1. \A b \in BucketIds : StorageAgreements[b][p] = None
    BY ExposedFacts DEF Accountable
  <2>2. \A id \in DOMAIN Challenges : Challenges[id].bucket_id \in BucketIds
    BY DEF Accountable, TypeOK, ChallengeTypeOK, Challenge
  <2> QED BY <2>1, <2>2, ExposedFacts DEF Accountable, OpenAgainst
<1> QED BY <1>1, AccountableAlways, PTL

\* A step that opens or closes no challenge leaves every record alone, one
\* that closes one drops its record, and one that opens one takes a new id.
LEMMA RecordsKept ==
    ASSUME Accountable, [Next]_vars, NEW id \in DOMAIN Challenges \cap DOMAIN Challenges'
    PROVE  Challenges'[id] = Challenges[id]
<1> DEFINE Kept == Challenges'[id] = Challenges[id]
<1> HIDE DEF Kept
<1>1. ASSUME UNCHANGED Challenges PROVE Kept
  BY <1>1 DEF Kept
<1>2. ASSUME NEW x, TakeChallenge(x) PROVE Kept
  BY <1>2 DEF TakeChallenge, Kept
<1>3. ASSUME NEW who \in Accounts, NEW b \in BucketIds, NEW p \in Accounts, NEW c,
             NEW leaf_index, create_challenge(who, b, p, c, leaf_index)
      PROVE  Kept
  <2>1. PICK x : x = [deadline |-> Expiry, index |-> NextChallengeIndex[Expiry]]
    OBVIOUS
  <2>2. \A y \in DOMAIN Challenges \ {x} : Challenges'[y] = Challenges[y]
    BY <1>3, <2>1 DEF create_challenge, AllocateIndex
  <2>3. x \notin DOMAIN Challenges
    <3>1. Expiry < MaxBlock
      BY <1>3 DEF create_challenge
    <3> QED BY <2>1, <3>1, NewIdFresh DEF Accountable
  <2> QED BY <2>2, <2>3 DEF Kept
<1>4. ASSUME NEW who \in Accounts, ProviderNext(who) PROVE UNCHANGED Challenges
  BY <1>4 DEF ProviderNext, register_provider, add_stake, deregister_provider,
     complete_deregister, cancel_deregister, update_provider_settings,
     set_extensions_blocked, challengeVars
<1>5. ASSUME NEW who \in Accounts, BucketNext(who) PROVE UNCHANGED Challenges
  <2>1. ASSUME NEW n, NEW v, create_bucket(who, n, v) PROVE UNCHANGED Challenges
    BY <2>1 DEF create_bucket, challengeVars
  <2>2. ASSUME NEW b, NEW n, NEW v,
               \/ delete_bucket(who, b) \/ freeze_bucket(who, b)
               \/ set_min_providers(who, b, n) \/ set_bucket_visibility(who, b, v)
        PROVE  UNCHANGED Challenges
    BY <2>2 DEF delete_bucket, freeze_bucket, set_min_providers, set_bucket_visibility,
       challengeVars
  <2>3. ASSUME NEW b, NEW member, NEW role, set_member(who, b, member, role)
        PROVE  UNCHANGED Challenges
    BY <2>3 DEF set_member, ChangeRole, AddMember, challengeVars
  <2>4. ASSUME NEW b, NEW member, remove_member(who, b, member) PROVE UNCHANGED Challenges
    BY <2>4 DEF remove_member, challengeVars
  <2>5. ASSUME NEW b, NEW c, NEW signers, checkpoint(who, b, c, signers)
        PROVE  UNCHANGED Challenges
    BY <2>5 DEF checkpoint, challengeVars
  <2>6. ASSUME NEW b, NEW signers, extend_checkpoint(who, b, signers)
        PROVE  UNCHANGED Challenges
    BY <2>6 DEF extend_checkpoint, challengeVars
  <2> QED BY <1>5, <2>1, <2>2, <2>3, <2>4, <2>5, <2>6 DEF BucketNext
<1>6. ASSUME NEW who \in Accounts, QuoteNext(who) PROVE UNCHANGED Challenges
  BY <1>6 DEF QuoteNext, create_bucket_with_primary, add_primary_provider,
     add_replica_provider, challengeVars
<1>7. ASSUME NEW who \in Accounts, AgreementNext(who) PROVE UNCHANGED Challenges
  <2>1. ASSUME NEW b, NEW p, NEW f, CloseAgreement(b, p, f) PROVE UNCHANGED Challenges
    BY <2>1 DEF CloseAgreement, challengeVars
  <2>2. ASSUME NEW b, NEW p, NEW action, finalize_agreement(b, p, action)
        PROVE  UNCHANGED Challenges
    BY <2>1, <2>2 DEF finalize_agreement
  <2>3. ASSUME NEW b \in BucketIds, claim_expired_agreement(who, b)
        PROVE  UNCHANGED Challenges
    BY <2>2, <2>3 DEF claim_expired_agreement
  <2>4. ASSUME NEW b \in BucketIds, NEW p \in Accounts, NEW action \in EndActions,
               end_agreement(who, b, p, action)
        PROVE  UNCHANGED Challenges
    BY <2>2, <2>4 DEF end_agreement
  <2>5. ASSUME NEW b \in BucketIds, NEW p \in Accounts,
               \/ \E i \in 0 .. Len(HISTORICAL_ROOT_PRIMES) : confirm_replica_sync(who, b, i)
               \/ \E n \in ByteAmounts, m \in PaymentLimits : top_up_agreement(who, b, p, n, m)
               \/ \E d \in Durations, m \in PaymentLimits : extend_agreement(who, b, p, d, m)
               \/ \E a \in NewOwners : transfer_agreement_ownership(who, b, p, a)
               \/ \E n \in SyncAmounts : top_up_replica_sync_balance(who, b, p, n)
        PROVE  UNCHANGED Challenges
    BY <2>5 DEF confirm_replica_sync, top_up_agreement, extend_agreement,
       transfer_agreement_ownership, top_up_replica_sync_balance, challengeVars
  <2> QED BY <1>7, <2>3, <2>4, <2>5 DEF AgreementNext
<1>8. ASSUME NEW who \in Accounts, ChallengeNext(who) PROVE Kept
  <2>1. ASSUME NEW b \in BucketIds, NEW p \in Accounts, NEW leaf_index \in LeafIndices,
               \/ challenge_checkpoint(who, b, p, leaf_index)
               \/ \E c \in Commitments : challenge_offchain(who, b, p, c, leaf_index)
               \/ challenge_replica(who, b, p, leaf_index)
        PROVE  Kept
    <3>1. PICK c : create_challenge(who, b, p, c, leaf_index)
      BY <2>1 DEF challenge_checkpoint, challenge_offchain, challenge_replica
    <3> QED BY <3>1, <1>3
  <2>2. ASSUME NEW x \in DOMAIN Challenges, NEW r \in ResponseKinds,
               respond_to_challenge(who, x, r)
        PROVE  Kept
    BY <2>2, <1>2 DEF respond_to_challenge
  <2> QED BY <1>8, <2>1, <2>2 DEF ChallengeNext
<1>9. ASSUME NEW b \in BucketIds, NEW p \in Accounts, remove_slashed(b, p)
      PROVE  UNCHANGED Challenges
  BY <1>9 DEF remove_slashed, CloseAgreement, challengeVars
<1>10. ASSUME NEW x \in DOMAIN Challenges, resolve_expired_challenge(x) PROVE Kept
  BY <1>10, <1>2 DEF resolve_expired_challenge
<1>11. ASSUME Tick \/ \E who \in Reapable, dest \in Accounts : on_killed_account(who, dest)
       PROVE  Kept
  BY <1>11, <1>1 DEF Tick, on_killed_account, challengeVars
<1>12. ASSUME UNCHANGED vars PROVE Kept
  BY <1>12, <1>1 DEF vars
<1>13. ASSUME NEW who \in Accounts,
              \/ ProviderNext(who) \/ BucketNext(who) \/ QuoteNext(who)
              \/ AgreementNext(who) \/ ChallengeNext(who)
       PROVE  Kept
  BY <1>1, <1>4, <1>5, <1>6, <1>7, <1>8, <1>13
<1>14. Kept
  BY <1>1, <1>9, <1>10, <1>11, <1>12, <1>13 DEF Next
<1> QED BY <1>14 DEF Kept

\* An open challenge keeps its record and its id, although the resolution of
\* another challenge of its deadline resets the counter ids come from.
THEOREM RecordsImmutable == Spec => ChallengeRecordsImmutable
<1>1. Accountable /\ [Next]_vars =>
          [\A id \in DOMAIN Challenges \cap DOMAIN Challenges' :
              Challenges'[id] = Challenges[id]]_vars
  BY RecordsKept
<1> QED BY <1>1, AccountableAlways, PTL DEF Spec, ChallengeRecordsImmutable

----------------------------------------------------------------------------
(* The ways in which a step changes the buckets                             *)

BucketCreated ==
    \E who \in Accounts, n \in Nat, primaries \in Seq(Accounts),
       v \in {"Public", "Private"} :
          /\ NextBucketId \in BucketIds
          /\ CreateBucketInternal(who, n, primaries, v)

PrimaryAdded ==
    \E b \in BucketIds, p \in Accounts :
        /\ Buckets[b] # None
        /\ Buckets' = [Buckets EXCEPT ![b] = AppendPrimary(Buckets[b], p)]
        /\ UNCHANGED MemberBuckets

PrimaryRemoved ==
    \E b \in BucketIds, p \in Accounts :
        /\ Buckets[b] # None
        /\ Buckets' = [Buckets EXCEPT ![b] = remove_primary_from_bucket(Buckets[b], p)]
        /\ UNCHANGED MemberBuckets

BucketEdited ==
    \E who \in Accounts, b \in BucketIds :
        \/ delete_bucket(who, b)
        \/ \E n \in MinProvidersChoices : set_min_providers(who, b, n)
        \/ freeze_bucket(who, b)
        \/ \E v \in Visibilities : set_bucket_visibility(who, b, v)
        \/ \E member \in Accounts, role \in Roles : ChangeRole(who, b, member, role)
        \/ \E member \in Accounts, role \in Roles : AddMember(who, b, member, role)
        \/ \E member \in Accounts : remove_member(who, b, member)
        \/ \E c \in Commitments, signers \in SUBSET Accounts :
              checkpoint(who, b, c, signers)
        \/ \E signers \in SUBSET Accounts : extend_checkpoint(who, b, signers)

BucketStep ==
    \/ UNCHANGED <<Buckets, MemberBuckets>>
    \/ BucketCreated \/ PrimaryAdded \/ PrimaryRemoved \/ BucketEdited

\* Closing an agreement removes a primary from the bucket, or touches no
\* bucket.
LEMMA CloseAgreementBuckets ==
    ASSUME TypeOK, NEW b \in BucketIds, NEW p \in Accounts, NEW f, CloseAgreement(b, p, f)
    PROVE  PrimaryRemoved \/ UNCHANGED <<Buckets, MemberBuckets>>
<1>1. MemberBuckets' = MemberBuckets
  BY DEF CloseAgreement, indexVars
<1>2. CASE StorageAgreements[b][p].role = "Primary" /\ Buckets[b] # None
  <2>1. Buckets' = [Buckets EXCEPT ![b] = remove_primary_from_bucket(Buckets[b], p)]
    BY <1>2 DEF CloseAgreement
  <2> QED BY <1>1, <1>2, <2>1 DEF PrimaryRemoved
<1>3. CASE ~(StorageAgreements[b][p].role = "Primary" /\ Buckets[b] # None)
  <2>1. Buckets' = [Buckets EXCEPT ![b] = Buckets[b]]
    BY <1>3 DEF CloseAgreement
  <2> QED BY <1>1, <2>1 DEF TypeOK
<1> QED BY <1>2, <1>3

\* The calls that redeem a quote create a bucket, add a primary to one, or
\* touch none.
LEMMA QuoteNextBuckets ==
    ASSUME TypeOK, NEW who \in Accounts, QuoteNext(who)
    PROVE  BucketStep
<1>0. \A q \in Quotes : q.provider \in Accounts
  <2>1. Quotes \subseteq Quote
    BY DataAssumption
  <2> QED BY <2>1 DEF Quote
<1>1. ASSUME NEW q \in Quotes, NEW v \in Visibilities, create_bucket_with_primary(who, q, v)
      PROVE  BucketStep
  <2>1. /\ NextBucketId \in BucketIds
        /\ CreateBucketInternal(who, 1, <<q.provider>>, v)
    BY <1>1 DEF create_bucket_with_primary, CanCreateBucket
  <2>2. <<q.provider>> \in Seq(Accounts) /\ v \in {"Public", "Private"} /\ 1 \in Nat
    BY <1>0, DataAssumption
  <2> QED BY <2>1, <2>2 DEF BucketStep, BucketCreated
<1>2. ASSUME NEW q \in Quotes, NEW b \in BucketIds, add_primary_provider(who, b, q)
      PROVE  BucketStep
  <2>1. /\ Buckets[b] # None
        /\ Buckets' = [Buckets EXCEPT ![b] = AppendPrimary(Buckets[b], q.provider)]
        /\ MemberBuckets' = MemberBuckets
    BY <1>2 DEF add_primary_provider
  <2> QED BY <1>0, <2>1 DEF BucketStep, PrimaryAdded
<1>3. ASSUME NEW q \in Quotes, NEW b \in BucketIds, add_replica_provider(who, b, q)
      PROVE  BucketStep
  BY <1>3 DEF add_replica_provider, BucketStep
<1> QED BY <1>1, <1>2, <1>3 DEF QuoteNext

\* The calls on agreements remove a primary, or touch no bucket.
LEMMA AgreementNextBuckets ==
    ASSUME TypeOK, NEW who \in Accounts, AgreementNext(who)
    PROVE  BucketStep
<1> USE DEF BucketStep
<1>1. ASSUME NEW b \in BucketIds, claim_expired_agreement(who, b) PROVE BucketStep
  BY <1>1, CloseAgreementBuckets DEF claim_expired_agreement, finalize_agreement
<1>2. ASSUME NEW b \in BucketIds, NEW p \in Accounts, NEW action \in EndActions,
             end_agreement(who, b, p, action)
      PROVE  BucketStep
  BY <1>2, CloseAgreementBuckets DEF end_agreement, finalize_agreement
<1>3. ASSUME NEW b \in BucketIds, NEW p \in Accounts, NEW n \in ByteAmounts,
             NEW m \in PaymentLimits, top_up_agreement(who, b, p, n, m)
      PROVE  BucketStep
  BY <1>3 DEF top_up_agreement, indexVars
<1>4. ASSUME NEW b \in BucketIds, NEW p \in Accounts, NEW d \in Durations,
             NEW m \in PaymentLimits, extend_agreement(who, b, p, d, m)
      PROVE  BucketStep
  BY <1>4 DEF extend_agreement, indexVars
<1>5. ASSUME NEW b \in BucketIds, NEW p \in Accounts, NEW a \in NewOwners,
             transfer_agreement_ownership(who, b, p, a)
      PROVE  BucketStep
  BY <1>5 DEF transfer_agreement_ownership, indexVars
<1>6. ASSUME NEW b \in BucketIds, NEW i \in 0 .. Len(HISTORICAL_ROOT_PRIMES),
             confirm_replica_sync(who, b, i)
      PROVE  BucketStep
  BY <1>6 DEF confirm_replica_sync, indexVars
<1>7. ASSUME NEW b \in BucketIds, NEW p \in Accounts, NEW n \in SyncAmounts,
             top_up_replica_sync_balance(who, b, p, n)
      PROVE  BucketStep
  BY <1>7 DEF top_up_replica_sync_balance, indexVars
<1> QED BY <1>1, <1>2, <1>3, <1>4, <1>5, <1>6, <1>7 DEF AgreementNext

\* The calls on challenges touch no bucket.
LEMMA ChallengeNextBuckets ==
    ASSUME NEW who \in Accounts, ChallengeNext(who)
    PROVE  UNCHANGED <<Buckets, MemberBuckets>>
<1>1. ASSUME NEW b, NEW p, NEW c, NEW leaf_index, create_challenge(who, b, p, c, leaf_index)
      PROVE  UNCHANGED <<Buckets, MemberBuckets>>
  BY <1>1 DEF create_challenge, indexVars
<1>2. ASSUME NEW id \in DOMAIN Challenges, NEW r \in ResponseKinds,
             respond_to_challenge(who, id, r)
      PROVE  UNCHANGED <<Buckets, MemberBuckets>>
  BY <1>2 DEF respond_to_challenge, indexVars
<1> QED BY <1>1, <1>2
       DEF ChallengeNext, challenge_checkpoint, challenge_offchain, challenge_replica

\* Every step of the pallet is one of these.
LEMMA StepBuckets ==
    ASSUME TypeOK, [Next]_vars
    PROVE  BucketStep
<1> USE DEF BucketStep
<1>1. CASE Tick
  BY <1>1 DEF Tick, indexVars
<1>2. ASSUME NEW who \in Reapable, NEW dest \in Accounts, on_killed_account(who, dest)
      PROVE  BucketStep
  BY <1>2 DEF on_killed_account
<1>3. ASSUME NEW who \in Accounts, ProviderNext(who) PROVE BucketStep
  BY <1>3 DEF ProviderNext, register_provider, add_stake, deregister_provider,
        complete_deregister, cancel_deregister, update_provider_settings,
        set_extensions_blocked, indexVars
<1>4. ASSUME NEW who \in Accounts, BucketNext(who) PROVE BucketStep
  <2>1. ASSUME NEW n \in MinProvidersChoices, NEW v \in Visibilities,
               create_bucket(who, n, v)
        PROVE  BucketStep
    <3>1. NextBucketId \in BucketIds /\ CreateBucketInternal(who, n, <<>>, v)
      BY <2>1 DEF create_bucket, CanCreateBucket
    <3>2. n \in Nat /\ <<>> \in Seq(Accounts) /\ v \in {"Public", "Private"}
      BY DataAssumption
    <3> QED BY <3>1, <3>2 DEF BucketCreated
  <2>2. ASSUME ~\E n \in MinProvidersChoices, v \in Visibilities : create_bucket(who, n, v)
        PROVE  BucketEdited
    BY <1>4, <2>2 DEF BucketNext, BucketEdited, set_member
  <2> QED BY <2>1, <2>2
<1>5. ASSUME NEW who \in Accounts, QuoteNext(who) PROVE BucketStep
  BY <1>5, QuoteNextBuckets
<1>6. ASSUME NEW who \in Accounts, AgreementNext(who) PROVE BucketStep
  BY <1>6, AgreementNextBuckets
<1>7. ASSUME NEW who \in Accounts, ChallengeNext(who) PROVE BucketStep
  BY <1>7, ChallengeNextBuckets
<1>8. ASSUME NEW b \in BucketIds, NEW p \in Accounts, remove_slashed(b, p)
      PROVE  BucketStep
  BY <1>8, CloseAgreementBuckets DEF remove_slashed
<1>9. ASSUME NEW id \in DOMAIN Challenges, resolve_expired_challenge(id)
      PROVE  BucketStep
  BY <1>9 DEF resolve_expired_challenge, indexVars
<1>10. CASE UNCHANGED vars
  BY <1>10 DEF vars
<1> QED BY <1>1, <1>2, <1>3, <1>4, <1>5, <1>6, <1>7, <1>8, <1>9, <1>10 DEF Next

----------------------------------------------------------------------------
(* A frozen bucket keeps its start                                          *)

Pinned(bucket) ==
    bucket.frozen_start_seq # None =>
        /\ bucket.snapshot # None
        /\ bucket.snapshot.commitment.start_seq = bucket.frozen_start_seq

\* One bucket is replaced, by None or by one whose start is pinned.
LEMMA PinnedReplaced ==
    ASSUME TypeOK, FrozenPinned, NEW b \in BucketIds, NEW bucket,
           Buckets' = [Buckets EXCEPT ![b] = bucket],
           bucket # None => Pinned(bucket)
    PROVE  FrozenPinned'
BY DEF TypeOK, FrozenPinned, Pinned

\* Neither a primary that joins nor one that leaves moves the snapshot.
LEMMA PinnedWithPrimaries ==
    ASSUME NEW bucket \in Bucket, Pinned(bucket), NEW p \in Accounts
    PROVE  /\ Pinned(AppendPrimary(bucket, p))
           /\ Pinned(remove_primary_from_bucket(bucket, p))
<1>0. bucket.snapshot \in BucketSnapshot \cup {None}
  BY DEF Bucket
<1>1. ASSUME NEW primaries, NEW snapshot,
             snapshot = None <=> bucket.snapshot = None,
             bucket.snapshot # None => snapshot.commitment = bucket.snapshot.commitment
      PROVE  Pinned([bucket EXCEPT !.primary_providers = primaries, !.snapshot = snapshot])
  BY <1>1 DEF Pinned, Bucket
<1>2. ASSUME NEW bits \in Seq(BOOLEAN), bucket.snapshot # None
      PROVE  /\ [bucket.snapshot EXCEPT !.primary_signers = bits] # None
             /\ [bucket.snapshot EXCEPT !.primary_signers = bits].commitment
                   = bucket.snapshot.commitment
  <2>1. bucket.snapshot \in BucketSnapshot
    BY <1>0, <1>2
  <2>2. [bucket.snapshot EXCEPT !.primary_signers = bits] \in BucketSnapshot
    BY <2>1, SnapshotType
  <2>3. [bucket.snapshot EXCEPT !.primary_signers = bits].commitment
           = bucket.snapshot.commitment
    BY <2>1 DEF BucketSnapshot
  <2> QED BY <2>2, <2>3, NoneAssumption
<1>3. bucket.snapshot # None => bucket.snapshot.primary_signers \in Seq(BOOLEAN)
  BY <1>0 DEF BucketSnapshot
<1>4. Pinned(AppendPrimary(bucket, p))
  <2>1. bucket.snapshot # None => Append(bucket.snapshot.primary_signers, FALSE) \in Seq(BOOLEAN)
    BY <1>3
  <2>2. /\ AppendUnsigned(bucket.snapshot) = None <=> bucket.snapshot = None
        /\ bucket.snapshot # None =>
              AppendUnsigned(bucket.snapshot).commitment = bucket.snapshot.commitment
    BY <1>2, <2>1 DEF AppendUnsigned
  <2> QED BY <1>1, <2>2 DEF AppendPrimary
<1>5. CASE ~IsPrimary(bucket, p)
  BY <1>4, <1>5 DEF remove_primary_from_bucket
<1>6. CASE IsPrimary(bucket, p)
  <2> DEFINE pos == FirstPosition(bucket, p)
  <2> HIDE DEF pos
  <2>1. bucket.snapshot # None /\ pos \in DOMAIN bucket.snapshot.primary_signers =>
           RemoveAt(bucket.snapshot.primary_signers, pos) \in Seq(BOOLEAN)
    <3> SUFFICES ASSUME bucket.snapshot # None, pos \in DOMAIN bucket.snapshot.primary_signers
                 PROVE  RemoveAt(bucket.snapshot.primary_signers, pos) \in Seq(BOOLEAN)
      OBVIOUS
    <3>1. pos \in 1 .. Len(bucket.snapshot.primary_signers)
      BY <1>3
    <3> QED BY <1>3, <3>1, RemoveAtType
  <2>2. /\ RemoveSignerBit(bucket.snapshot, pos) = None <=> bucket.snapshot = None
        /\ bucket.snapshot # None =>
              RemoveSignerBit(bucket.snapshot, pos).commitment = bucket.snapshot.commitment
    BY <1>2, <2>1 DEF RemoveSignerBit
  <2>3. remove_primary_from_bucket(bucket, p) =
          [bucket EXCEPT !.primary_providers = RemoveAt(bucket.primary_providers, pos),
                         !.snapshot = RemoveSignerBit(bucket.snapshot, pos)]
    BY <1>6 DEF remove_primary_from_bucket, pos
  <2>4. Pinned([bucket EXCEPT
                   !.primary_providers = RemoveAt(bucket.primary_providers, pos),
                   !.snapshot = RemoveSignerBit(bucket.snapshot, pos)])
    BY <1>1, <2>2
  <2> QED BY <1>4, <2>3, <2>4
<1> QED BY <1>5, <1>6

\* The calls of admins and writers on a bucket.
LEMMA BucketEditedPinned ==
    ASSUME TypeOK, FrozenPinned, BucketEdited
    PROVE  FrozenPinned'
<1>0. ASSUME NEW b \in BucketIds, Buckets[b] # None
      PROVE  Buckets[b] \in Bucket /\ Pinned(Buckets[b])
  BY <1>0, TypeFacts DEF FrozenPinned, Pinned
<1>1. ASSUME NEW who \in Accounts, NEW b \in BucketIds, delete_bucket(who, b)
      PROVE  FrozenPinned'
  BY <1>1, PinnedReplaced DEF delete_bucket
<1>2. ASSUME NEW who \in Accounts, NEW b \in BucketIds, NEW n \in MinProvidersChoices,
             set_min_providers(who, b, n)
      PROVE  FrozenPinned'
  <2>1. Buckets' = [Buckets EXCEPT ![b] = [Buckets[b] EXCEPT !.min_providers = n]]
    BY <1>2 DEF set_min_providers, TypeOK
  <2>2. Pinned([Buckets[b] EXCEPT !.min_providers = n])
    BY <1>0, <1>2 DEF set_min_providers, Pinned, Bucket
  <2> QED BY <2>1, <2>2, PinnedReplaced
<1>3. ASSUME NEW who \in Accounts, NEW b \in BucketIds, freeze_bucket(who, b)
      PROVE  FrozenPinned'
  <2> DEFINE start == Buckets[b].snapshot.commitment.start_seq
  <2>1. Buckets' = [Buckets EXCEPT ![b] = [Buckets[b] EXCEPT !.frozen_start_seq = start]]
    BY <1>3 DEF freeze_bucket, TypeOK
  <2>2. Pinned([Buckets[b] EXCEPT !.frozen_start_seq = start])
    BY <1>0, <1>3 DEF freeze_bucket, Pinned, Bucket
  <2> QED BY <2>1, <2>2, PinnedReplaced
<1>4. ASSUME NEW who \in Accounts, NEW b \in BucketIds, NEW v \in Visibilities,
             set_bucket_visibility(who, b, v)
      PROVE  FrozenPinned'
  <2>1. Buckets' = [Buckets EXCEPT ![b] = [Buckets[b] EXCEPT !.visibility = v]]
    BY <1>4 DEF set_bucket_visibility, TypeOK
  <2>2. Pinned([Buckets[b] EXCEPT !.visibility = v])
    BY <1>0, <1>4 DEF set_bucket_visibility, Pinned, Bucket
  <2> QED BY <2>1, <2>2, PinnedReplaced
<1>5. ASSUME NEW b \in BucketIds, Buckets[b] # None, NEW members,
             Buckets' = [Buckets EXCEPT ![b] = [Buckets[b] EXCEPT !.members = members]]
      PROVE  FrozenPinned'
  <2>1. Pinned([Buckets[b] EXCEPT !.members = members])
    BY <1>0, <1>5 DEF Pinned, Bucket
  <2> QED BY <1>5, <2>1, PinnedReplaced
<1>6. ASSUME NEW who \in Accounts, NEW b \in BucketIds, NEW member \in Accounts,
             NEW role \in Roles, ChangeRole(who, b, member, role)
      PROVE  FrozenPinned'
  <2> DEFINE members == [Buckets[b].members EXCEPT ![member].role = role]
  <2>1. Buckets' = [Buckets EXCEPT ![b] = [Buckets[b] EXCEPT !.members = members]]
    BY <1>6 DEF ChangeRole, TypeOK
  <2> HIDE DEF members
  <2> QED BY <1>5, <1>6, <2>1 DEF ChangeRole
<1>7. ASSUME NEW who \in Accounts, NEW b \in BucketIds, NEW member \in Accounts,
             NEW role \in Roles, AddMember(who, b, member, role)
      PROVE  FrozenPinned'
  <2> DEFINE members == [Buckets[b].members EXCEPT
                            ![member] = [role |-> role, depositor |-> who]]
  <2>1. Buckets' = [Buckets EXCEPT ![b] = [Buckets[b] EXCEPT !.members = members]]
    BY <1>7 DEF AddMember, TypeOK
  <2> HIDE DEF members
  <2> QED BY <1>5, <1>7, <2>1 DEF AddMember
<1>8. ASSUME NEW who \in Accounts, NEW b \in BucketIds, NEW member \in Accounts,
             remove_member(who, b, member)
      PROVE  FrozenPinned'
  <2> DEFINE members == [Buckets[b].members EXCEPT ![member] = None]
  <2>1. Buckets' = [Buckets EXCEPT ![b] = [Buckets[b] EXCEPT !.members = members]]
    BY <1>8 DEF remove_member, TypeOK
  <2> HIDE DEF members
  <2> QED BY <1>5, <1>8, <2>1 DEF remove_member
<1>9. ASSUME NEW who \in Accounts, NEW b \in BucketIds, NEW c \in Commitments,
             NEW signers \in SUBSET Accounts, checkpoint(who, b, c, signers)
      PROVE  FrozenPinned'
  <2> DEFINE bits == [i \in DOMAIN Buckets[b].primary_providers |->
                         Buckets[b].primary_providers[i] \in signers]
             snapshot == [commitment |-> c, primary_signers |-> bits]
             roots == update_historical_roots(Buckets[b].historical_roots, now, c)
             bucket == Checkpointed(Buckets[b], c, bits)
  <2>1. Buckets' = [Buckets EXCEPT ![b] = bucket]
    BY <1>9 DEF checkpoint
  <2>2. FrozenAllows(Buckets[b], c) /\ Buckets[b] # None /\ Buckets[b] \in Bucket
    BY <1>0, <1>9 DEF checkpoint
  <2>3. snapshot # None
    <3>1. bits \in Seq(BOOLEAN)
      <4>1. Buckets[b].primary_providers \in Seq(Accounts)
        BY <2>2 DEF Bucket
      <4>2. bits \in [1 .. Len(Buckets[b].primary_providers) -> BOOLEAN]
        BY <4>1
      <4>3. Len(Buckets[b].primary_providers) \in Nat
        BY <4>1
      <4> HIDE DEF bits
      <4> QED BY <4>2, <4>3, FunctionIsSeq
    <3>2. c \in Commitment
      BY DataAssumption
    <3> HIDE DEF bits
    <3>3. snapshot \in BucketSnapshot
      BY <3>1, <3>2 DEF BucketSnapshot
    <3> QED BY <3>3, NoneAssumption
  <2>4. bucket = [Buckets[b] EXCEPT !.historical_roots = roots, !.snapshot = snapshot]
    BY DEF Checkpointed
  <2>5. snapshot.commitment = c
    OBVIOUS
  <2> HIDE DEF snapshot, roots, bucket
  <2>6. /\ bucket.snapshot = snapshot
        /\ bucket.frozen_start_seq = Buckets[b].frozen_start_seq
    BY <2>2, <2>4 DEF Bucket
  <2>7. Pinned(bucket)
    BY <2>2, <2>3, <2>5, <2>6 DEF Pinned, FrozenAllows
  <2> QED BY <2>1, <2>7, PinnedReplaced
<1>10. ASSUME NEW who \in Accounts, NEW b \in BucketIds, NEW signers \in SUBSET Accounts,
              extend_checkpoint(who, b, signers)
       PROVE  FrozenPinned'
  <2> DEFINE bits == [i \in DOMAIN Buckets[b].snapshot.primary_signers |->
                         \/ Buckets[b].snapshot.primary_signers[i]
                         \/ Buckets[b].primary_providers[i] \in signers]
             snapshot == [Buckets[b].snapshot EXCEPT !.primary_signers = bits]
  <2>1. Buckets' = [Buckets EXCEPT ![b].snapshot.primary_signers = bits]
    BY <1>10 DEF extend_checkpoint
  <2>2. Buckets[b] # None /\ Buckets[b] \in Bucket /\ Buckets[b].snapshot \in BucketSnapshot
    BY <1>0, <1>10 DEF extend_checkpoint, Bucket
  <2>3. snapshot # None /\ snapshot.commitment = Buckets[b].snapshot.commitment
    <3>1. Buckets[b].snapshot.primary_signers \in Seq(BOOLEAN)
      BY <2>2 DEF BucketSnapshot
    <3>2. bits \in [1 .. Len(Buckets[b].snapshot.primary_signers) -> BOOLEAN]
      BY <3>1
    <3>3. Len(Buckets[b].snapshot.primary_signers) \in Nat
      BY <3>1
    <3> HIDE DEF bits
    <3>4. bits \in Seq(BOOLEAN)
      BY <3>2, <3>3, FunctionIsSeq
    <3>5. snapshot \in BucketSnapshot
      BY <2>2, <3>4, SnapshotType
    <3>6. snapshot.commitment = Buckets[b].snapshot.commitment
      BY <2>2 DEF BucketSnapshot
    <3> QED BY <3>5, <3>6, NoneAssumption
  <2>4. Buckets' = [Buckets EXCEPT ![b] = [Buckets[b] EXCEPT !.snapshot = snapshot]]
    <3> HIDE DEF bits
    <3> QED BY <2>1, <2>2 DEF TypeOK
  <2> HIDE DEF snapshot
  <2>5. Pinned([Buckets[b] EXCEPT !.snapshot = snapshot])
    BY <1>0, <2>2, <2>3, NoneAssumption DEF Pinned, Bucket
  <2> QED BY <2>4, <2>5, PinnedReplaced
<1> QED BY <1>1, <1>2, <1>3, <1>4, <1>6, <1>7, <1>8, <1>9, <1>10 DEF BucketEdited

\* Every step keeps frozen buckets pinned.
LEMMA FrozenStep ==
    ASSUME TypeOK, FrozenPinned, [Next]_vars
    PROVE  FrozenPinned'
<1>0. ASSUME NEW b \in BucketIds, Buckets[b] # None
      PROVE  Buckets[b] \in Bucket /\ Pinned(Buckets[b])
  BY <1>0, TypeFacts DEF FrozenPinned, Pinned
<1>1. CASE UNCHANGED <<Buckets, MemberBuckets>>
  BY <1>1 DEF FrozenPinned
<1>2. CASE BucketCreated
  <2>1. PICK who \in Accounts, n \in Nat, primaries \in Seq(Accounts),
             v \in {"Public", "Private"} :
             /\ NextBucketId \in BucketIds
             /\ Buckets' = [Buckets EXCEPT ![NextBucketId] = NewBucket(who, n, primaries, v)]
    BY <1>2 DEF BucketCreated, CreateBucketInternal
  <2>2. Pinned(NewBucket(who, n, primaries, v))
    BY DEF Pinned, NewBucket
  <2> QED BY <2>1, <2>2, PinnedReplaced
<1>3. CASE PrimaryAdded \/ PrimaryRemoved
  BY <1>0, <1>3, PinnedWithPrimaries, PinnedReplaced DEF PrimaryAdded, PrimaryRemoved
<1>4. CASE BucketEdited
  BY <1>4, BucketEditedPinned
<1> QED BY <1>1, <1>2, <1>3, <1>4, StepBuckets DEF BucketStep

\* The history of a frozen bucket is never cut: whatever is checkpointed, and
\* whichever primaries come and go, its snapshot is there and starts at the
\* sequence number freeze_bucket pinned.
THEOREM FrozenStaysPinned == Spec => []FrozenPinned
<1>1. Init => FrozenPinned
  BY DEF Init, FrozenPinned, NewBucket
<1>2. TypeOK /\ FrozenPinned /\ [Next]_vars => FrozenPinned'
  BY FrozenStep
<1> QED BY <1>1, <1>2, TypeCorrect, PTL DEF Spec

----------------------------------------------------------------------------
(* Members and their index                                                  *)

HasAdmin(bucket) ==
    \E a \in Accounts : bucket.members[a] # None /\ bucket.members[a].role = "Admin"

\* Adding what is in a set, or removing what is not, leaves it alone.
LEMMA SetKept ==
    ASSUME NEW S, NEW x
    PROVE  /\ x \in S => S \cup {x} = S
           /\ x \notin S => S \ {x} = S
OBVIOUS

\* One bucket is replaced and the index follows its members.
LEMMA MembersReplaced ==
    ASSUME TypeOK, MembershipIndexExact, NEW b \in BucketIds, NEW bucket,
           Buckets' = [Buckets EXCEPT ![b] = bucket],
           bucket # None => HasAdmin(bucket),
           \A a \in Accounts : MemberBuckets'[a] =
               IF bucket # None /\ bucket.members[a] # None
               THEN MemberBuckets[a] \cup {b} ELSE MemberBuckets[a] \ {b}
    PROVE  MembershipIndexExact'
<1>1. Buckets'[b] = bucket /\ \A c \in BucketIds \ {b} : Buckets'[c] = Buckets[c]
  BY DEF TypeOK
<1>2. ASSUME NEW c \in BucketIds, Buckets'[c] # None PROVE Admins(c)' # {}
  <2>1. CASE c = b
    BY <1>1, <1>2, <2>1 DEF HasAdmin, Admins, IsAdmin, IsMember
  <2>2. CASE c # b
    BY <1>1, <1>2, <2>2 DEF MembershipIndexExact, Admins, IsAdmin, IsMember
  <2> QED BY <2>1, <2>2
<1>3. ASSUME NEW a \in Accounts
      PROVE  MemberBuckets'[a] =
                {c \in BucketIds : Buckets'[c] # None /\ Buckets'[c].members[a] # None}
  <2>1. MemberBuckets[a] = {c \in BucketIds : Buckets[c] # None /\ Buckets[c].members[a] # None}
    BY DEF MembershipIndexExact, IsMember
  <2>2. CASE bucket # None /\ bucket.members[a] # None
    <3>1. MemberBuckets'[a] = MemberBuckets[a] \cup {b}
      BY <2>2
    <3> QED BY <1>1, <2>1, <2>2, <3>1
  <2>3. CASE ~(bucket # None /\ bucket.members[a] # None)
    <3>1. MemberBuckets'[a] = MemberBuckets[a] \ {b}
      BY <2>3
    <3> QED BY <1>1, <2>1, <2>3, <3>1
  <2> QED BY <2>2, <2>3
<1> QED BY <1>2, <1>3 DEF MembershipIndexExact, IsMember

\* What the index says of a bucket that is there, and of one that is not.
LEMMA IndexFacts ==
    ASSUME MembershipIndexExact, NEW b \in BucketIds
    PROVE  /\ \A a \in Accounts :
                 b \in MemberBuckets[a] <=> Buckets[b] # None /\ Buckets[b].members[a] # None
           /\ Buckets[b] # None => HasAdmin(Buckets[b])
BY DEF MembershipIndexExact, HasAdmin, Admins, IsAdmin, IsMember

\* A bucket is replaced by one with the same members.
LEMMA MembersKept ==
    ASSUME TypeOK, MembershipIndexExact, NEW b \in BucketIds, Buckets[b] # None,
           NEW bucket, bucket.members = Buckets[b].members,
           Buckets' = [Buckets EXCEPT ![b] = bucket], bucket # None,
           UNCHANGED MemberBuckets
    PROVE  MembershipIndexExact'
<1>1. HasAdmin(bucket)
  BY IndexFacts DEF HasAdmin
<1>2. \A a \in Accounts : b \in MemberBuckets[a] <=> bucket.members[a] # None
  BY IndexFacts
<1>3. \A a \in Accounts : MemberBuckets'[a] =
         IF bucket.members[a] # None THEN MemberBuckets[a] \cup {b} ELSE MemberBuckets[a] \ {b}
  BY <1>2, SetKept
<1> QED BY <1>1, <1>3, MembersReplaced

\* Another admin stays when one that MayDemote lets go loses its role.
LEMMA AdminStays ==
    ASSUME TypeOK, NEW who \in Accounts, NEW b \in BucketIds, NEW member \in Accounts,
           IsAdmin(who, b), MayDemote(who, b, member)
    PROVE  \E a \in Accounts : a # member /\ IsAdmin(a, b)
<1>1. CASE IsAdmin(member, b)
  <2> SUFFICES ASSUME \A a \in Accounts : a # member => ~IsAdmin(a, b) PROVE FALSE
    OBVIOUS
  <2>1. Admins(b) \subseteq {member}
    BY DEF Admins
  <2>2. IsFiniteSet({member}) /\ Cardinality({member}) = 1
    BY FS_Singleton
  <2>3. IsFiniteSet(Admins(b)) /\ Cardinality(Admins(b)) <= 1
    BY <2>1, <2>2, FS_Subset
  <2>4. Cardinality(Admins(b)) > 1 /\ Cardinality(Admins(b)) \in Nat
    BY <1>1, <2>3, FS_CardinalityType DEF MayDemote
  <2> QED BY <2>3, <2>4
<1>2. CASE ~IsAdmin(member, b)
  BY <1>2
<1> QED BY <1>1, <1>2

\* The calls of admins and writers on a bucket.
LEMMA BucketEditedIndex ==
    ASSUME TypeOK, TypeOK', MembershipIndexExact, BucketEdited
    PROVE  MembershipIndexExact'
<1>0. ASSUME NEW b \in BucketIds, Buckets[b] # None
      PROVE  /\ Buckets[b] \in Bucket
             /\ Buckets[b].members \in [Accounts -> Member \cup {None}]
  BY <1>0, TypeFacts DEF Bucket
<1>1. ASSUME NEW who \in Accounts, NEW b \in BucketIds, delete_bucket(who, b)
      PROVE  MembershipIndexExact'
  <2>1. /\ Buckets' = [Buckets EXCEPT ![b] = None]
        /\ \A a \in Accounts : MemberBuckets'[a] =
              IF Buckets[b].members[a] # None THEN MemberBuckets[a] \ {b} ELSE MemberBuckets[a]
    BY <1>1 DEF delete_bucket, RemoveFromMemberIndexes
  <2>2. \A a \in Accounts : MemberBuckets'[a] = MemberBuckets[a] \ {b}
    <3>1. \A a \in Accounts : Buckets[b].members[a] = None => b \notin MemberBuckets[a]
      BY IndexFacts
    <3> QED BY <2>1, <3>1, SetKept
  <2> QED BY <2>1, <2>2, MembersReplaced
<1>2. ASSUME NEW who \in Accounts, NEW b \in BucketIds,
             \/ \E n \in MinProvidersChoices : set_min_providers(who, b, n)
             \/ freeze_bucket(who, b)
             \/ \E v \in Visibilities : set_bucket_visibility(who, b, v)
             \/ \E c \in Commitments, signers \in SUBSET Accounts :
                   checkpoint(who, b, c, signers)
             \/ \E signers \in SUBSET Accounts : extend_checkpoint(who, b, signers)
      PROVE  MembershipIndexExact'
  <2>1. Buckets[b] # None /\ MemberBuckets' = MemberBuckets
    BY <1>2 DEF set_min_providers, freeze_bucket, set_bucket_visibility, checkpoint,
                extend_checkpoint, indexVars
  <2>2. Buckets'[b].members = Buckets[b].members
    <3>1. ASSUME NEW n \in MinProvidersChoices, set_min_providers(who, b, n)
          PROVE  Buckets'[b].members = Buckets[b].members
      BY <1>0, <2>1, <3>1 DEF set_min_providers, TypeOK, Bucket
    <3>2. CASE freeze_bucket(who, b)
      BY <1>0, <2>1, <3>2 DEF freeze_bucket, TypeOK, Bucket
    <3>3. ASSUME NEW v \in Visibilities, set_bucket_visibility(who, b, v)
          PROVE  Buckets'[b].members = Buckets[b].members
      BY <1>0, <2>1, <3>3 DEF set_bucket_visibility, TypeOK, Bucket
    <3>4. ASSUME NEW c \in Commitments, NEW signers \in SUBSET Accounts,
                 checkpoint(who, b, c, signers)
          PROVE  Buckets'[b].members = Buckets[b].members
      <4>1. PICK bits : Buckets'[b] = Checkpointed(Buckets[b], c, bits)
        BY <3>4 DEF checkpoint, TypeOK
      <4> QED BY <1>0, <2>1, <4>1 DEF Checkpointed, Bucket
    <3>5. ASSUME NEW signers \in SUBSET Accounts, extend_checkpoint(who, b, signers)
          PROVE  Buckets'[b].members = Buckets[b].members
      <4>1. PICK bits : Buckets' = [Buckets EXCEPT ![b].snapshot.primary_signers = bits]
        BY <3>5 DEF extend_checkpoint
      <4> QED BY <1>0, <2>1, <4>1 DEF TypeOK, Bucket
    <3> QED BY <1>2, <3>1, <3>2, <3>3, <3>4, <3>5
  <2>3. BucketReplacedIn(b)
    BY <1>2, SetMinProvidersType, FreezeType, VisibilityType, CheckpointType,
       ExtendCheckpointType
  <2>4. PICK bucket \in Bucket : Buckets' = [Buckets EXCEPT ![b] = bucket]
    BY <2>3 DEF BucketReplacedIn
  <2>5. bucket.members = Buckets[b].members /\ bucket # None
    BY <2>2, <2>4, NoneAssumption DEF TypeOK
  <2> QED BY <2>1, <2>4, <2>5, MembersKept
<1>3. ASSUME NEW who \in Accounts, NEW b \in BucketIds, NEW member \in Accounts,
             NEW role \in Roles, ChangeRole(who, b, member, role)
      PROVE  MembershipIndexExact'
  <2> DEFINE entry == [Buckets[b].members[member] EXCEPT !.role = role]
             members == [Buckets[b].members EXCEPT ![member] = entry]
             bucket == [Buckets[b] EXCEPT !.members = members]
  <2>1. /\ Buckets[b] # None /\ Buckets[b] \in Bucket
        /\ Buckets[b].members \in [Accounts -> Member \cup {None}]
        /\ MemberBuckets' = MemberBuckets
    BY <1>0, <1>3 DEF ChangeRole, indexVars
  <2>2. Buckets' = [Buckets EXCEPT ![b] = bucket]
    BY <1>3, <2>1 DEF ChangeRole, TypeOK, Bucket
  <2>3. Buckets[b].members[member] \in Member
    BY <1>3, <2>1 DEF ChangeRole, IsMember
  <2>4. entry \in Member /\ entry.role = role
    BY <2>3, DataAssumption DEF Member
  <2> HIDE DEF entry
  <2>5. /\ members \in [Accounts -> Member \cup {None}]
        /\ members[member] = entry
        /\ \A a \in Accounts \ {member} : members[a] = Buckets[b].members[a]
    BY <2>1, <2>4
  <2> HIDE DEF members
  <2>6. bucket \in Bucket /\ bucket.members = members
    BY <2>1, <2>5 DEF Bucket
  <2> HIDE DEF bucket
  <2>7. HasAdmin(bucket)
    <3>1. CASE role = "Admin"
      BY <2>4, <2>5, <2>6, <3>1, NoneAssumption DEF HasAdmin
    <3>2. CASE role # "Admin"
      <4>1. PICK a \in Accounts : a # member /\ IsAdmin(a, b)
        BY <1>3, <3>2, AdminStays DEF ChangeRole
      <4> QED BY <2>5, <2>6, <4>1 DEF HasAdmin, IsAdmin, IsMember
    <3> QED BY <3>1, <3>2
  <2>8. \A a \in Accounts : members[a] # None <=> Buckets[b].members[a] # None
    BY <2>3, <2>4, <2>5, NoneAssumption
  <2>9. \A a \in Accounts : MemberBuckets'[a] =
           IF bucket.members[a] # None THEN MemberBuckets[a] \cup {b} ELSE MemberBuckets[a] \ {b}
    <3>1. \A a \in Accounts : b \in MemberBuckets[a] <=> Buckets[b].members[a] # None
      BY <2>1, IndexFacts
    <3>2. \A a \in Accounts : b \in MemberBuckets[a] <=> bucket.members[a] # None
      BY <2>6, <2>8, <3>1
    <3> QED BY <2>1, <3>2, SetKept, ZenonT(60)
  <2>10. bucket # None
    BY <2>6, NoneAssumption
  <2> QED BY <2>1, <2>2, <2>7, <2>9, <2>10, MembersReplaced
<1>4. ASSUME NEW who \in Accounts, NEW b \in BucketIds, NEW member \in Accounts,
             NEW role \in Roles, AddMember(who, b, member, role)
      PROVE  MembershipIndexExact'
  <2> DEFINE entry == [role |-> role, depositor |-> who]
             members == [Buckets[b].members EXCEPT ![member] = entry]
             bucket == [Buckets[b] EXCEPT !.members = members]
  <2>1. /\ Buckets[b] # None /\ Buckets[b] \in Bucket
        /\ Buckets[b].members \in [Accounts -> Member \cup {None}]
        /\ MemberBuckets' = [MemberBuckets EXCEPT ![member] = @ \cup {b}]
        /\ IsAdmin(who, b) /\ ~IsMember(member, b)
    BY <1>0, <1>4 DEF AddMember
  <2>2. Buckets' = [Buckets EXCEPT ![b] = bucket]
    BY <1>4, <2>1 DEF AddMember, TypeOK, Bucket
  <2>3. entry \in Member
    BY DataAssumption DEF Member
  <2> HIDE DEF entry
  <2>4. /\ members \in [Accounts -> Member \cup {None}]
        /\ members[member] = entry
        /\ \A a \in Accounts \ {member} : members[a] = Buckets[b].members[a]
    BY <2>1, <2>3
  <2> HIDE DEF members
  <2>5. bucket \in Bucket /\ bucket.members = members
    BY <2>1, <2>4 DEF Bucket
  <2> HIDE DEF bucket
  <2>6. who # member
    BY <2>1 DEF IsAdmin
  <2>7. HasAdmin(bucket)
    BY <2>1, <2>4, <2>5, <2>6 DEF HasAdmin, IsAdmin, IsMember
  <2>8. MemberBuckets \in [Accounts -> SUBSET BucketIds]
    BY DEF TypeOK, IndexTypeOK
  <2>9. \A a \in Accounts : MemberBuckets'[a] =
           IF bucket.members[a] # None THEN MemberBuckets[a] \cup {b} ELSE MemberBuckets[a] \ {b}
    <3>1. members[member] # None
      BY <2>3, <2>4, NoneAssumption
    <3>2. \A a \in Accounts \ {member} :
             /\ MemberBuckets'[a] = MemberBuckets[a]
             /\ b \in MemberBuckets[a] <=> members[a] # None
      BY <2>1, <2>4, <2>8, IndexFacts
    <3>3. MemberBuckets'[member] = MemberBuckets[member] \cup {b}
      BY <2>1, <2>8
    <3> QED BY <2>5, <3>1, <3>2, <3>3
  <2>10. bucket # None
    BY <2>5, NoneAssumption
  <2> QED BY <2>2, <2>7, <2>9, <2>10, MembersReplaced
<1>5. ASSUME NEW who \in Accounts, NEW b \in BucketIds, NEW member \in Accounts,
             remove_member(who, b, member)
      PROVE  MembershipIndexExact'
  <2> DEFINE members == [Buckets[b].members EXCEPT ![member] = None]
             bucket == [Buckets[b] EXCEPT !.members = members]
  <2>1. /\ Buckets[b] # None /\ Buckets[b] \in Bucket
        /\ Buckets[b].members \in [Accounts -> Member \cup {None}]
        /\ MemberBuckets' = [MemberBuckets EXCEPT ![member] = @ \ {b}]
        /\ IsAdmin(who, b) /\ MayDemote(who, b, member)
    BY <1>0, <1>5 DEF remove_member
  <2>2. Buckets' = [Buckets EXCEPT ![b] = bucket]
    BY <1>5, <2>1 DEF remove_member, TypeOK, Bucket
  <2>3. /\ members \in [Accounts -> Member \cup {None}]
        /\ members[member] = None
        /\ \A a \in Accounts \ {member} : members[a] = Buckets[b].members[a]
    BY <2>1
  <2> HIDE DEF members
  <2>4. bucket \in Bucket /\ bucket.members = members
    BY <2>1, <2>3 DEF Bucket
  <2> HIDE DEF bucket
  <2>5. HasAdmin(bucket)
    <3>1. PICK a \in Accounts : a # member /\ IsAdmin(a, b)
      BY <2>1, AdminStays
    <3> QED BY <2>3, <2>4, <3>1 DEF HasAdmin, IsAdmin, IsMember
  <2>6. MemberBuckets \in [Accounts -> SUBSET BucketIds]
    BY DEF TypeOK, IndexTypeOK
  <2>7. \A a \in Accounts : MemberBuckets'[a] =
           IF bucket.members[a] # None THEN MemberBuckets[a] \cup {b} ELSE MemberBuckets[a] \ {b}
    <3>1. \A a \in Accounts \ {member} :
             /\ MemberBuckets'[a] = MemberBuckets[a]
             /\ b \in MemberBuckets[a] <=> members[a] # None
      BY <2>1, <2>3, <2>6, IndexFacts
    <3>2. MemberBuckets'[member] = MemberBuckets[member] \ {b}
      BY <2>1, <2>6
    <3> QED BY <2>3, <2>4, <3>1, <3>2
  <2>8. bucket # None
    BY <2>4, NoneAssumption
  <2> QED BY <2>2, <2>5, <2>7, <2>8, MembersReplaced
<1> QED BY <1>1, <1>2, <1>3, <1>4, <1>5 DEF BucketEdited

\* Primaries that come and go leave the members alone.
LEMMA PrimariesLeaveMembers ==
    ASSUME NEW bucket \in Bucket, NEW p \in Accounts
    PROVE  /\ AppendPrimary(bucket, p).members = bucket.members
           /\ remove_primary_from_bucket(bucket, p).members = bucket.members
<1>1. \A primaries, snapshot :
         [bucket EXCEPT !.primary_providers = primaries, !.snapshot = snapshot].members
            = bucket.members
  BY DEF Bucket
<1>2. AppendPrimary(bucket, p).members = bucket.members
  BY <1>1 DEF AppendPrimary
<1>3. remove_primary_from_bucket(bucket, p).members = bucket.members
  BY <1>1 DEF remove_primary_from_bucket
<1> QED BY <1>2, <1>3

\* Every step keeps the index exact and every bucket under an admin.
LEMMA IndexStep ==
    ASSUME Accountable, MembershipIndexExact, [Next]_vars
    PROVE  MembershipIndexExact'
<1>0. TypeOK /\ BucketIdsFresh /\ TypeOK'
  BY TypeStep DEF Accountable, Ledger
<1>1. CASE UNCHANGED <<Buckets, MemberBuckets>>
  BY <1>1 DEF MembershipIndexExact, Admins, IsAdmin, IsMember
<1>2. CASE BucketCreated
  <2>1. PICK who \in Accounts, n \in Nat, primaries \in Seq(Accounts),
             v \in {"Public", "Private"} :
             /\ NextBucketId \in BucketIds
             /\ CreateBucketInternal(who, n, primaries, v)
    BY <1>2 DEF BucketCreated
  <2>2. PICK b \in BucketIds : b = NextBucketId
    BY <2>1
  <2> DEFINE bucket == NewBucket(who, n, primaries, v)
  <2>3. /\ Buckets' = [Buckets EXCEPT ![b] = bucket]
        /\ MemberBuckets' = [MemberBuckets EXCEPT ![who] = @ \cup {b}]
    BY <2>1, <2>2 DEF CreateBucketInternal
  <2>4. Buckets[b] = None
    <3>1. b >= NextBucketId
      BY <2>2 DEF BucketIds
    <3> QED BY <1>0, <3>1 DEF BucketIdsFresh
  <2>5. bucket \in Bucket
    BY NewBucketType
  <2>6. \A a \in Accounts : bucket.members[a] =
           IF a = who THEN [role |-> "Admin", depositor |-> who] ELSE None
    BY DEF NewBucket
  <2>7. [role |-> "Admin", depositor |-> who] \in Member
    BY DEF Member
  <2> HIDE DEF bucket
  <2>8. HasAdmin(bucket)
    BY <2>6, <2>7, NoneAssumption DEF HasAdmin
  <2>9. MemberBuckets \in [Accounts -> SUBSET BucketIds]
    BY <1>0 DEF TypeOK, IndexTypeOK
  <2>10. \A a \in Accounts : b \notin MemberBuckets[a]
    BY <2>4, IndexFacts
  <2>11. \A a \in Accounts : bucket.members[a] # None <=> a = who
    BY <2>6, <2>7, NoneAssumption
  <2>12. \A a \in Accounts : MemberBuckets'[a] =
            IF bucket.members[a] # None
            THEN MemberBuckets[a] \cup {b} ELSE MemberBuckets[a] \ {b}
    BY <2>3, <2>9, <2>10, <2>11
  <2>13. bucket # None
    BY <2>5, NoneAssumption
  <2> QED BY <1>0, <2>3, <2>8, <2>12, <2>13, MembersReplaced
<1>3. CASE PrimaryAdded
  <2>1. PICK b \in BucketIds, p \in Accounts :
           /\ Buckets[b] # None /\ UNCHANGED MemberBuckets
           /\ Buckets' = [Buckets EXCEPT ![b] = AppendPrimary(Buckets[b], p)]
    BY <1>3 DEF PrimaryAdded
  <2>2. Buckets[b] \in Bucket
    BY <1>0, <2>1, TypeFacts
  <2>3. AppendPrimary(Buckets[b], p) # None
    BY <2>2, AppendPrimaryType, NoneAssumption
  <2> QED BY <1>0, <2>1, <2>2, <2>3, PrimariesLeaveMembers, MembersKept
<1>4. CASE PrimaryRemoved
  <2>1. PICK b \in BucketIds, p \in Accounts :
           /\ Buckets[b] # None /\ UNCHANGED MemberBuckets
           /\ Buckets' = [Buckets EXCEPT ![b] = remove_primary_from_bucket(Buckets[b], p)]
    BY <1>4 DEF PrimaryRemoved
  <2>2. Buckets[b] \in Bucket
    BY <1>0, <2>1, TypeFacts
  <2>3. remove_primary_from_bucket(Buckets[b], p) # None
    BY <2>2, RemovePrimaryType, NoneAssumption
  <2> QED BY <1>0, <2>1, <2>2, <2>3, PrimariesLeaveMembers, MembersKept
<1>5. CASE BucketEdited
  BY <1>0, <1>5, BucketEditedIndex
<1> QED BY <1>0, <1>1, <1>2, <1>3, <1>4, <1>5, StepBuckets DEF BucketStep

\* Genesis puts the admin of each bucket, and nobody else, into the index.
LEMMA IndexInit == Init => MembershipIndexExact
<1> SUFFICES ASSUME Init PROVE MembershipIndexExact
  OBVIOUS
<1>1. ASSUME NEW b \in BucketIds
      PROVE  /\ Buckets[b] # None <=> b + 1 \in DOMAIN GenesisBuckets
             /\ Buckets[b] # None =>
                   /\ GenesisBuckets[b + 1].admin \in Accounts
                   /\ \A a \in Accounts : Buckets[b].members[a] =
                         IF a = GenesisBuckets[b + 1].admin
                         THEN [role |-> "Admin", depositor |-> a] ELSE None
  <2>1. CASE b + 1 \in DOMAIN GenesisBuckets
    <3> DEFINE g == GenesisBuckets[b + 1]
               bucket == NewBucket(g.admin, g.min_providers, <<>>, "Private")
    <3>1. g \in [admin : Accounts, min_providers : Nat]
      <4>1. GenesisBuckets \in Seq([admin : Accounts, min_providers : Nat])
        BY DataAssumption
      <4> QED BY <2>1, <4>1, SeqElement
    <3>2. g.admin \in Accounts /\ g.min_providers \in Nat
      BY <3>1
    <3>3. <<>> \in Seq(Accounts)
      OBVIOUS
    <3>4. bucket \in Bucket
      BY <3>2, <3>3, NewBucketType
    <3>5. Buckets[b] = bucket
      BY <2>1 DEF Init
    <3>6. \A a \in Accounts : bucket.members[a] =
             IF a = g.admin THEN [role |-> "Admin", depositor |-> a] ELSE None
      BY DEF NewBucket
    <3> HIDE DEF bucket
    <3> QED BY <2>1, <3>2, <3>4, <3>5, <3>6, NoneAssumption
  <2>2. CASE b + 1 \notin DOMAIN GenesisBuckets
    BY <2>2 DEF Init
  <2> QED BY <2>1, <2>2
<1>2. \A a \in Accounts : [role |-> "Admin", depositor |-> a] \in Member
  BY DEF Member
<1>3. ASSUME NEW b \in BucketIds, Buckets[b] # None PROVE Admins(b) # {}
  <2>1. PICK a \in Accounts : a = GenesisBuckets[b + 1].admin
    BY <1>1, <1>3
  <2>2. Buckets[b].members[a] = [role |-> "Admin", depositor |-> a]
    BY <1>1, <1>3, <2>1
  <2>3. Buckets[b].members[a] # None /\ Buckets[b].members[a].role = "Admin"
    BY <1>2, <2>2, NoneAssumption
  <2> QED BY <2>3 DEF Admins, IsAdmin, IsMember
<1>4. ASSUME NEW a \in Accounts
      PROVE  MemberBuckets[a] = {b \in BucketIds : Buckets[b] # None /\ IsMember(a, b)}
  <2>1. MemberBuckets[a] = {b \in BucketIds : b + 1 \in GenesisBucketIds(a)}
    BY DEF Init
  <2>2. \A b \in BucketIds : b + 1 \in GenesisBucketIds(a) <=>
            b + 1 \in DOMAIN GenesisBuckets /\ GenesisBuckets[b + 1].admin = a
    BY DEF GenesisBucketIds
  <2>3. ASSUME NEW b \in BucketIds
        PROVE  b + 1 \in GenesisBucketIds(a) <=> Buckets[b] # None /\ IsMember(a, b)
    <3>1. [role |-> "Admin", depositor |-> a] # None
      BY <1>2, NoneAssumption
    <3>2. Buckets[b] # None =>
             (Buckets[b].members[a] # None <=> GenesisBuckets[b + 1].admin = a)
      BY <1>1, <3>1
    <3> QED BY <1>1, <2>2, <3>2 DEF IsMember
  <2> QED BY <2>1, <2>3
<1> QED BY <1>3, <1>4 DEF MembershipIndexExact

\* No sequence of role changes and removals leaves a bucket without an admin,
\* and MemberBuckets lists for every account exactly the buckets it is a
\* member of.
THEOREM MembershipIndexed == Spec => []MembershipIndexExact
<1>1. Init => MembershipIndexExact
  BY IndexInit
<1>2. Accountable /\ MembershipIndexExact /\ [Next]_vars => MembershipIndexExact'
  BY IndexStep
<1> QED BY <1>1, <1>2, AccountableAlways, PTL DEF Spec

----------------------------------------------------------------------------
(* Primaries, their agreements and their signer bits                        *)

NoDuplicates(s) == \A i, j \in DOMAIN s : s[i] = s[j] => i = j

BitPerPrimary(bucket) ==
    bucket.snapshot # None =>
        Len(bucket.snapshot.primary_signers) = Len(bucket.primary_providers)

IsPrimaryAgreement(agreement) == agreement # None /\ agreement.role = "Primary"

\* The primaries of a bucket and its agreements fit together.
ListedIn(bucket, agreements) ==
    /\ NoDuplicates(bucket.primary_providers)
    /\ BitPerPrimary(bucket)
    /\ \A p \in Accounts : IsPrimary(bucket, p) <=> IsPrimaryAgreement(agreements[p])

\* The strengthening of PrimariesMatchAgreements that is inductive.
PrimariesListed ==
    \A b \in BucketIds : Buckets[b] # None => ListedIn(Buckets[b], StorageAgreements[b])

\* A sequence without the element at position i.
LEMMA RemoveAtElements ==
    ASSUME NEW S, NEW s \in Seq(S), NEW i \in 1 .. Len(s)
    PROVE  /\ Len(RemoveAt(s, i)) = Len(s) - 1
           /\ \A j \in 1 .. Len(s) - 1 :
                 RemoveAt(s, i)[j] = IF j < i THEN s[j] ELSE s[j + 1]
<1> DEFINE u == SubSeq(s, 1, i - 1)
           v == SubSeq(s, i + 1, Len(s))
<1>0. Len(s) \in Nat /\ i \in Nat /\ i >= 1 /\ i <= Len(s)
  OBVIOUS
<1>1. /\ u \in Seq(S) /\ Len(u) = i - 1
      /\ \A j \in 1 .. i - 1 : u[j] = s[j]
  OBVIOUS
<1>2. /\ v \in Seq(S) /\ Len(v) = Len(s) - i
      /\ \A j \in 1 .. Len(s) - i : v[j] = s[i + j]
  OBVIOUS
<1>3. RemoveAt(s, i) = u \o v
  BY DEF RemoveAt
<1> HIDE DEF u, v
<1>4. /\ Len(u \o v) = Len(u) + Len(v)
      /\ \A j \in 1 .. Len(u) + Len(v) :
            (u \o v)[j] = IF j <= Len(u) THEN u[j] ELSE v[j - Len(u)]
  BY <1>1, <1>2, ConcatProperties
<1>5. ASSUME NEW j \in 1 .. Len(s) - 1
      PROVE  (u \o v)[j] = IF j < i THEN s[j] ELSE s[j + 1]
  <2>1. CASE j < i
    BY <1>0, <1>1, <1>2, <1>4, <2>1
  <2>2. CASE ~(j < i)
    <3>1. (u \o v)[j] = v[j - (i - 1)]
      BY <1>0, <1>1, <1>2, <1>4, <2>2
    <3>2. j - (i - 1) \in 1 .. Len(s) - i /\ i + (j - (i - 1)) = j + 1
      BY <1>0, <2>2
    <3>3. v[j - (i - 1)] = s[i + (j - (i - 1))]
      BY <1>2, <3>2
    <3> QED BY <2>2, <3>1, <3>2, <3>3
  <2> QED BY <2>1, <2>2
<1> QED BY <1>0, <1>1, <1>2, <1>3, <1>4, <1>5

\* Every element of it is one of the sequence, from another position.
LEMMA RemoveAtFrom ==
    ASSUME NEW S, NEW s \in Seq(S), NEW i \in 1 .. Len(s), NEW j \in 1 .. Len(s) - 1
    PROVE  \E k \in 1 .. Len(s) :
              k = (IF j < i THEN j ELSE j + 1) /\ RemoveAt(s, i)[j] = s[k]
<1>1. Len(s) \in Nat /\ i \in Nat /\ j \in Nat
  OBVIOUS
<1>2. CASE j < i
  <2>1. j \in 1 .. Len(s) /\ RemoveAt(s, i)[j] = s[j]
    BY <1>1, <1>2, RemoveAtElements
  <2> QED BY <1>2, <2>1
<1>3. CASE ~(j < i)
  <2>1. j + 1 \in 1 .. Len(s) /\ RemoveAt(s, i)[j] = s[j + 1]
    BY <1>1, <1>3, RemoveAtElements
  <2> QED BY <1>3, <2>1
<1> QED BY <1>2, <1>3

\* A bucket's lists of primaries and of signer bits.
LEMMA ListTypes ==
    ASSUME NEW bucket \in Bucket
    PROVE  /\ bucket.primary_providers \in Seq(Accounts)
           /\ bucket.snapshot # None =>
                 /\ bucket.snapshot \in BucketSnapshot
                 /\ bucket.snapshot.primary_signers \in Seq(BOOLEAN)
BY DEF Bucket, BucketSnapshot

\* The two lists after a primary joined: it comes last and has not signed.
LEMMA AppendFields ==
    ASSUME NEW bucket \in Bucket, NEW p \in Accounts
    PROVE  /\ AppendPrimary(bucket, p).primary_providers = Append(bucket.primary_providers, p)
           /\ AppendPrimary(bucket, p).snapshot = None <=> bucket.snapshot = None
           /\ bucket.snapshot # None =>
                 AppendPrimary(bucket, p).snapshot.primary_signers =
                     Append(bucket.snapshot.primary_signers, FALSE)
<1>1. /\ AppendPrimary(bucket, p).primary_providers = Append(bucket.primary_providers, p)
      /\ AppendPrimary(bucket, p).snapshot = AppendUnsigned(bucket.snapshot)
  BY DEF AppendPrimary, Bucket
<1>2. ASSUME bucket.snapshot # None
      PROVE  /\ AppendUnsigned(bucket.snapshot) # None
             /\ AppendUnsigned(bucket.snapshot).primary_signers =
                   Append(bucket.snapshot.primary_signers, FALSE)
  <2> DEFINE bits == Append(bucket.snapshot.primary_signers, FALSE)
  <2>1. bucket.snapshot \in BucketSnapshot /\ bits \in Seq(BOOLEAN)
    BY <1>2, ListTypes
  <2>2. AppendUnsigned(bucket.snapshot) = [bucket.snapshot EXCEPT !.primary_signers = bits]
    BY <1>2 DEF AppendUnsigned
  <2> HIDE DEF bits
  <2>3. [bucket.snapshot EXCEPT !.primary_signers = bits].primary_signers = bits
    BY <2>1 DEF BucketSnapshot
  <2>4. AppendUnsigned(bucket.snapshot) # None
    BY <2>1, <2>2, SnapshotType, NoneAssumption
  <2> QED BY <2>2, <2>3, <2>4 DEF bits
<1>3. bucket.snapshot = None => AppendUnsigned(bucket.snapshot) = None
  BY DEF AppendUnsigned
<1> QED BY <1>1, <1>2, <1>3

\* The two lists after a primary left: both lose the same position.
LEMMA RemoveFields ==
    ASSUME NEW bucket \in Bucket, BitPerPrimary(bucket), NEW p, IsPrimary(bucket, p),
           NEW pos, pos = FirstPosition(bucket, p), NEW after,
           after = remove_primary_from_bucket(bucket, p)
    PROVE  /\ after.primary_providers = RemoveAt(bucket.primary_providers, pos)
           /\ after.snapshot = None <=> bucket.snapshot = None
           /\ bucket.snapshot # None =>
                 after.snapshot.primary_signers =
                     RemoveAt(bucket.snapshot.primary_signers, pos)
<1>1. after = [bucket EXCEPT !.primary_providers = RemoveAt(bucket.primary_providers, pos),
                             !.snapshot = RemoveSignerBit(bucket.snapshot, pos)]
  BY DEF remove_primary_from_bucket
<1>2. /\ after.primary_providers = RemoveAt(bucket.primary_providers, pos)
      /\ after.snapshot = RemoveSignerBit(bucket.snapshot, pos)
  BY <1>1 DEF Bucket
<1>3. ASSUME bucket.snapshot # None
      PROVE  /\ RemoveSignerBit(bucket.snapshot, pos) # None
             /\ RemoveSignerBit(bucket.snapshot, pos).primary_signers =
                   RemoveAt(bucket.snapshot.primary_signers, pos)
  <2> DEFINE bits == RemoveAt(bucket.snapshot.primary_signers, pos)
  <2>1. /\ bucket.snapshot \in BucketSnapshot
        /\ bucket.snapshot.primary_signers \in Seq(BOOLEAN)
    BY <1>3, ListTypes
  <2>2. /\ pos \in 1 .. Len(bucket.snapshot.primary_signers)
        /\ pos \in DOMAIN bucket.snapshot.primary_signers
    BY <1>3, <2>1, FirstPositionType DEF BitPerPrimary
  <2>3. bits \in Seq(BOOLEAN)
    BY <2>1, <2>2, RemoveAtType
  <2>4. RemoveSignerBit(bucket.snapshot, pos) =
           [bucket.snapshot EXCEPT !.primary_signers = bits]
    BY <1>3, <2>2 DEF RemoveSignerBit
  <2> HIDE DEF bits
  <2>5. [bucket.snapshot EXCEPT !.primary_signers = bits].primary_signers = bits
    BY <2>1 DEF BucketSnapshot
  <2>6. RemoveSignerBit(bucket.snapshot, pos) # None
    BY <2>1, <2>3, <2>4, SnapshotType, NoneAssumption
  <2> QED BY <2>4, <2>5, <2>6 DEF bits
<1>4. bucket.snapshot = None => RemoveSignerBit(bucket.snapshot, pos) = None
  BY DEF RemoveSignerBit
<1> QED BY <1>2, <1>3, <1>4

\* FirstPosition is where a primary is.
LEMMA FirstPositionIs ==
    ASSUME NEW bucket \in Bucket, NEW p, IsPrimary(bucket, p)
    PROVE  /\ FirstPosition(bucket, p) \in 1 .. Len(bucket.primary_providers)
           /\ bucket.primary_providers[FirstPosition(bucket, p)] = p
<1>1. FirstPosition(bucket, p) \in 1 .. Len(bucket.primary_providers)
  BY FirstPositionType
<1>2. Position(bucket, p) \subseteq Nat /\ Position(bucket, p) # {}
  <2>1. DOMAIN bucket.primary_providers = 1 .. Len(bucket.primary_providers)
    BY ListTypes
  <2> QED BY <2>1 DEF Position, IsPrimary
<1>3. \E i \in Position(bucket, p) : \A j \in Position(bucket, p) : i <= j
  BY <1>2, LeastNat
<1>4. FirstPosition(bucket, p) \in Position(bucket, p)
  BY <1>3 DEF FirstPosition
<1> QED BY <1>1, <1>4 DEF Position

\* A new primary with its agreement.
LEMMA AppendListed ==
    ASSUME NEW bucket \in Bucket, NEW before, ListedIn(bucket, before),
           NEW p \in Accounts, ~IsPrimaryAgreement(before[p]),
           NEW agreements, IsPrimaryAgreement(agreements[p]),
           \A q \in Accounts \ {p} : agreements[q] = before[q]
    PROVE  ListedIn(AppendPrimary(bucket, p), agreements)
<1> DEFINE s == bucket.primary_providers
           after == AppendPrimary(bucket, p)
<1>1. s \in Seq(Accounts) /\ Len(s) \in Nat /\ DOMAIN s = 1 .. Len(s)
  BY ListTypes
<1>2. after.primary_providers = Append(s, p)
  BY AppendFields
<1>3. /\ Len(Append(s, p)) = Len(s) + 1
      /\ DOMAIN Append(s, p) = 1 .. Len(s) + 1
      /\ \A i \in 1 .. Len(s) : Append(s, p)[i] = s[i]
      /\ Append(s, p)[Len(s) + 1] = p
  BY <1>1
<1>4. \A i \in 1 .. Len(s) : s[i] # p
  BY <1>1 DEF ListedIn, IsPrimary, Position
<1>5. BitPerPrimary(after)
  <2> SUFFICES ASSUME after.snapshot # None
               PROVE  Len(after.snapshot.primary_signers) = Len(after.primary_providers)
    BY DEF BitPerPrimary
  <2>1. /\ bucket.snapshot # None
        /\ after.snapshot.primary_signers = Append(bucket.snapshot.primary_signers, FALSE)
    BY AppendFields
  <2>2. /\ bucket.snapshot.primary_signers \in Seq(BOOLEAN)
        /\ Len(bucket.snapshot.primary_signers) = Len(s)
    BY <2>1, ListTypes DEF ListedIn, BitPerPrimary
  <2>3. Len(Append(bucket.snapshot.primary_signers, FALSE)) = Len(s) + 1
    BY <2>2
  <2> QED BY <1>2, <1>3, <2>1, <2>3
<1> HIDE DEF after
<1>6. NoDuplicates(after.primary_providers)
  <2> SUFFICES ASSUME NEW i \in 1 .. Len(s) + 1, NEW j \in 1 .. Len(s) + 1,
                      Append(s, p)[i] = Append(s, p)[j]
               PROVE  i = j
    BY <1>2, <1>3 DEF NoDuplicates
  <2>1. CASE i \in 1 .. Len(s) /\ j \in 1 .. Len(s)
    BY <1>1, <1>3, <2>1 DEF ListedIn, NoDuplicates
  <2>2. CASE i = Len(s) + 1 /\ j = Len(s) + 1
    BY <2>2
  <2>3. CASE i \in 1 .. Len(s) /\ j = Len(s) + 1
    BY <1>3, <1>4, <2>3
  <2>4. CASE i = Len(s) + 1 /\ j \in 1 .. Len(s)
    BY <1>3, <1>4, <2>4
  <2> QED BY <1>1, <2>1, <2>2, <2>3, <2>4
<1>7. ASSUME NEW q \in Accounts
      PROVE  IsPrimary(after, q) <=> IsPrimaryAgreement(agreements[q])
  <2>1. IsPrimary(after, q) <=> \E i \in 1 .. Len(s) + 1 : Append(s, p)[i] = q
    BY <1>2, <1>3 DEF IsPrimary, Position
  <2>2. IsPrimary(bucket, q) <=> \E i \in 1 .. Len(s) : s[i] = q
    BY <1>1 DEF IsPrimary, Position
  <2>3. CASE q = p
    <3>1. Len(s) + 1 \in 1 .. Len(s) + 1
      BY <1>1
    <3> QED BY <1>3, <2>1, <2>3, <3>1
  <2>4. CASE q # p
    <3>1. IsPrimary(after, q) <=> IsPrimary(bucket, q)
      BY <1>1, <1>3, <2>1, <2>2, <2>4
    <3> QED BY <2>4, <3>1 DEF ListedIn
  <2> QED BY <2>3, <2>4
<1> QED BY <1>5, <1>6, <1>7 DEF ListedIn, after

\* A primary that leaves with its agreement.
LEMMA RemoveListed ==
    ASSUME NEW bucket \in Bucket, NEW before, ListedIn(bucket, before),
           NEW p \in Accounts, IsPrimaryAgreement(before[p]),
           NEW agreements, agreements[p] = None,
           \A q \in Accounts \ {p} : agreements[q] = before[q]
    PROVE  ListedIn(remove_primary_from_bucket(bucket, p), agreements)
<1> DEFINE s == bucket.primary_providers
           after == remove_primary_from_bucket(bucket, p)
           pos == FirstPosition(bucket, p)
           t == RemoveAt(s, pos)
<1>0. IsPrimary(bucket, p) /\ BitPerPrimary(bucket)
  BY DEF ListedIn
<1>1. s \in Seq(Accounts) /\ Len(s) \in Nat /\ DOMAIN s = 1 .. Len(s)
  BY ListTypes
<1>2. pos \in 1 .. Len(s) /\ s[pos] = p
  BY <1>0, FirstPositionIs
<1>3. after.primary_providers = t
  BY <1>0, RemoveFields
<1>4. /\ Len(t) = Len(s) - 1
      /\ \A j \in 1 .. Len(s) - 1 : t[j] = IF j < pos THEN s[j] ELSE s[j + 1]
  BY <1>1, <1>2, RemoveAtElements
<1>5. DOMAIN t = 1 .. Len(s) - 1
  BY <1>1, <1>2, <1>4, RemoveAtType
<1>6. BitPerPrimary(after)
  <2> SUFFICES ASSUME after.snapshot # None
               PROVE  Len(after.snapshot.primary_signers) = Len(after.primary_providers)
    BY DEF BitPerPrimary
  <2>1. /\ bucket.snapshot # None
        /\ after.snapshot.primary_signers = RemoveAt(bucket.snapshot.primary_signers, pos)
    BY <1>0, RemoveFields
  <2>2. /\ bucket.snapshot.primary_signers \in Seq(BOOLEAN)
        /\ Len(bucket.snapshot.primary_signers) = Len(s)
    BY <1>0, <2>1, ListTypes DEF BitPerPrimary
  <2>3. Len(RemoveAt(bucket.snapshot.primary_signers, pos)) = Len(s) - 1
    BY <1>2, <2>2, RemoveAtElements
  <2> QED BY <1>3, <1>4, <2>1, <2>3
<1>6a. \A j \in 1 .. Len(s) - 1 :
         \E k \in 1 .. Len(s) : k = (IF j < pos THEN j ELSE j + 1) /\ t[j] = s[k]
  BY <1>1, <1>2, RemoveAtFrom
<1> HIDE DEF after, t, pos
<1>7. NoDuplicates(after.primary_providers)
  <2>1. NoDuplicates(s)
    BY DEF ListedIn
  <2> SUFFICES ASSUME NEW i \in 1 .. Len(s) - 1, NEW j \in 1 .. Len(s) - 1, t[i] = t[j]
               PROVE  i = j
    BY <1>3, <1>5 DEF NoDuplicates
  <2>2. PICK k \in 1 .. Len(s) : k = (IF i < pos THEN i ELSE i + 1) /\ t[i] = s[k]
    BY <1>6a
  <2>3. PICK m \in 1 .. Len(s) : m = (IF j < pos THEN j ELSE j + 1) /\ t[j] = s[m]
    BY <1>6a
  <2>4. k = m
    BY <1>1, <2>1, <2>2, <2>3 DEF NoDuplicates
  <2> QED BY <1>1, <1>2, <2>2, <2>3, <2>4
<1>8. ASSUME NEW q \in Accounts
      PROVE  IsPrimary(after, q) <=> IsPrimaryAgreement(agreements[q])
  <2>1. IsPrimary(after, q) <=> \E i \in 1 .. Len(s) - 1 : t[i] = q
    BY <1>3, <1>5 DEF IsPrimary, Position
  <2>2. IsPrimary(bucket, q) <=> \E i \in 1 .. Len(s) : s[i] = q
    BY <1>1 DEF IsPrimary, Position
  <2>3. NoDuplicates(s)
    BY DEF ListedIn
  <2>4. CASE q = p
    <3>1. ASSUME NEW i \in 1 .. Len(s) - 1 PROVE t[i] # p
      <4>1. PICK k \in 1 .. Len(s) : k = (IF i < pos THEN i ELSE i + 1) /\ t[i] = s[k]
        BY <1>6a
      <4>2. k # pos
        BY <1>1, <1>2, <4>1
      <4> QED BY <1>1, <1>2, <2>3, <4>1, <4>2 DEF NoDuplicates
    <3> QED BY <2>1, <2>4, <3>1 DEF IsPrimaryAgreement
  <2>5. CASE q # p
    <3>1. ASSUME NEW i \in 1 .. Len(s) - 1, t[i] = q PROVE \E j \in 1 .. Len(s) : s[j] = q
      BY <1>6a, <3>1
    <3>2. ASSUME NEW j \in 1 .. Len(s), s[j] = q
          PROVE  \E i \in 1 .. Len(s) - 1 : t[i] = q
      <4>1. CASE j < pos
        <5>1. j \in 1 .. Len(s) - 1 /\ t[j] = q
          BY <1>1, <1>2, <1>4, <3>2, <4>1
        <5> QED BY <5>1
      <4>2. CASE j > pos
        <5>1. j - 1 \in 1 .. Len(s) - 1 /\ ~(j - 1 < pos) /\ (j - 1) + 1 = j
          BY <1>1, <1>2, <4>2
        <5>2. t[j - 1] = q
          BY <1>4, <3>2, <5>1
        <5> QED BY <5>1, <5>2
      <4> QED BY <1>1, <1>2, <2>5, <3>2, <4>1, <4>2
    <3>3. IsPrimary(after, q) <=> IsPrimary(bucket, q)
      BY <2>1, <2>2, <3>1, <3>2
    <3> QED BY <2>5, <3>3 DEF ListedIn
  <2> QED BY <2>4, <2>5
<1> QED BY <1>6, <1>7, <1>8 DEF ListedIn, after

\* A step leaves the lists of primaries and the roles of agreements alone ...
PrimariesUntouched ==
    /\ \A b \in BucketIds : Buckets'[b] # None =>
          /\ Buckets[b] # None
          /\ Buckets'[b].primary_providers = Buckets[b].primary_providers
          /\ BitPerPrimary(Buckets[b]) => BitPerPrimary(Buckets'[b])
    /\ \A b \in BucketIds, p \in Accounts :
          IsPrimaryAgreement(StorageAgreements'[b][p])
              <=> IsPrimaryAgreement(StorageAgreements[b][p])

\* ... or touches one bucket and its agreements only, which ...
Elsewhere(b) ==
    \A c \in BucketIds \ {b} :
        Buckets'[c] = Buckets[c] /\ StorageAgreements'[c] = StorageAgreements[c]

\* ... is created, ...
ListedFromStart ==
    \E b \in BucketIds :
        /\ Buckets[b] = None
        /\ Elsewhere(b)
        /\ ListedIn(Buckets'[b], StorageAgreements'[b])

\* ... gets a primary ...
PrimaryJoins ==
    \E b \in BucketIds, p \in Accounts :
        /\ Buckets[b] # None
        /\ Elsewhere(b)
        /\ Buckets'[b] = AppendPrimary(Buckets[b], p)
        /\ ~IsPrimaryAgreement(StorageAgreements[b][p])
        /\ IsPrimaryAgreement(StorageAgreements'[b][p])
        /\ \A q \in Accounts \ {p} : StorageAgreements'[b][q] = StorageAgreements[b][q]

\* ... or loses one.
PrimaryLeaves ==
    \E b \in BucketIds, p \in Accounts :
        /\ Buckets[b] # None
        /\ Elsewhere(b)
        /\ Buckets'[b] = remove_primary_from_bucket(Buckets[b], p)
        /\ IsPrimaryAgreement(StorageAgreements[b][p])
        /\ StorageAgreements'[b][p] = None
        /\ \A q \in Accounts \ {p} : StorageAgreements'[b][q] = StorageAgreements[b][q]

PrimaryStep == PrimariesUntouched \/ ListedFromStart \/ PrimaryJoins \/ PrimaryLeaves

\* Such a step keeps the primaries listed.
LEMMA PrimaryStepListed ==
    ASSUME TypeOK, PrimariesListed, PrimaryStep
    PROVE  PrimariesListed'
<1>0. ASSUME NEW b \in BucketIds, Elsewhere(b),
             Buckets'[b] # None => ListedIn(Buckets'[b], StorageAgreements'[b])
      PROVE  PrimariesListed'
  BY <1>0 DEF PrimariesListed, Elsewhere
<1>1. CASE PrimariesUntouched
  <2> SUFFICES ASSUME NEW b \in BucketIds, Buckets'[b] # None
               PROVE  ListedIn(Buckets'[b], StorageAgreements'[b])
    BY DEF PrimariesListed
  <2>1. /\ Buckets[b] # None
        /\ Buckets'[b].primary_providers = Buckets[b].primary_providers
        /\ ListedIn(Buckets[b], StorageAgreements[b])
    BY <1>1 DEF PrimariesUntouched, PrimariesListed
  <2>2. NoDuplicates(Buckets'[b].primary_providers) /\ BitPerPrimary(Buckets'[b])
    BY <1>1, <2>1 DEF PrimariesUntouched, ListedIn
  <2>3. \A p \in Accounts : IsPrimary(Buckets'[b], p)
           <=> IsPrimaryAgreement(StorageAgreements'[b][p])
    BY <1>1, <2>1 DEF PrimariesUntouched, ListedIn, IsPrimary, Position
  <2> QED BY <2>2, <2>3 DEF ListedIn
<1>2. CASE ListedFromStart
  BY <1>0, <1>2 DEF ListedFromStart
<1>3. CASE PrimaryJoins
  <2>1. PICK b \in BucketIds, p \in Accounts :
           /\ Buckets[b] # None
           /\ Elsewhere(b)
           /\ Buckets'[b] = AppendPrimary(Buckets[b], p)
           /\ ~IsPrimaryAgreement(StorageAgreements[b][p])
           /\ IsPrimaryAgreement(StorageAgreements'[b][p])
           /\ \A q \in Accounts \ {p} : StorageAgreements'[b][q] = StorageAgreements[b][q]
    BY <1>3 DEF PrimaryJoins
  <2>2. Buckets[b] \in Bucket /\ ListedIn(Buckets[b], StorageAgreements[b])
    BY <2>1, TypeFacts DEF PrimariesListed
  <2>3. ListedIn(AppendPrimary(Buckets[b], p), StorageAgreements'[b])
    BY <2>1, <2>2, AppendListed
  <2> QED BY <1>0, <2>1, <2>3
<1>4. CASE PrimaryLeaves
  <2>1. PICK b \in BucketIds, p \in Accounts :
           /\ Buckets[b] # None
           /\ Elsewhere(b)
           /\ Buckets'[b] = remove_primary_from_bucket(Buckets[b], p)
           /\ IsPrimaryAgreement(StorageAgreements[b][p])
           /\ StorageAgreements'[b][p] = None
           /\ \A q \in Accounts \ {p} : StorageAgreements'[b][q] = StorageAgreements[b][q]
    BY <1>4 DEF PrimaryLeaves
  <2>2. Buckets[b] \in Bucket /\ ListedIn(Buckets[b], StorageAgreements[b])
    BY <2>1, TypeFacts DEF PrimariesListed
  <2>3. ListedIn(remove_primary_from_bucket(Buckets[b], p), StorageAgreements'[b])
    BY <2>1, <2>2, RemoveListed
  <2> QED BY <1>0, <2>1, <2>3
<1> QED BY <1>1, <1>2, <1>3, <1>4 DEF PrimaryStep

\* A call that changes no bucket and leaves each agreement its role.
LEMMA RolesKept ==
    ASSUME TypeOK, UNCHANGED Buckets, NEW b \in BucketIds, NEW p \in Accounts,
           NEW agreement \in StorageAgreement, StorageAgreements[b][p] # None,
           agreement.role = StorageAgreements[b][p].role,
           StorageAgreements' = [StorageAgreements EXCEPT ![b][p] = agreement]
    PROVE  PrimaryStep
BY NoneAssumption DEF TypeOK, PrimaryStep, PrimariesUntouched, IsPrimaryAgreement

\* The same, of a call that is known to replace such a record.
LEMMA SomeRoleKept ==
    ASSUME TypeOK, UNCHANGED Buckets, NEW b \in BucketIds, NEW p \in Accounts,
           AgreementReplacedIn(b, p),
           StorageAgreements'[b][p].role = StorageAgreements[b][p].role
    PROVE  PrimaryStep
<1>1. PICK agreement \in StorageAgreement :
        StorageAgreements' = [StorageAgreements EXCEPT ![b][p] = agreement]
  BY DEF AgreementReplacedIn
<1>2. StorageAgreements'[b][p] = agreement
  BY <1>1 DEF TypeOK
<1>3. StorageAgreements[b][p] # None
  BY DEF AgreementReplacedIn
<1>4. agreement.role = StorageAgreements[b][p].role
  BY <1>2
<1> QED BY <1>1, <1>3, <1>4, RolesKept

\* A call that touches neither buckets nor agreements.
LEMMA PrimariesUnchanged ==
    ASSUME UNCHANGED <<Buckets, StorageAgreements>>
    PROVE  PrimaryStep
BY DEF PrimaryStep, PrimariesUntouched

\* The calls of a provider on itself.
LEMMA ProviderNextPrimaries ==
    ASSUME TypeOK, NEW who \in Accounts, ProviderNext(who)
    PROVE  PrimaryStep
<1>1. ASSUME NEW b \in BucketIds, NEW blocked \in BlockFlags,
             set_extensions_blocked(who, b, blocked)
      PROVE  PrimaryStep
  <2> DEFINE agreement == [StorageAgreements[b][who] EXCEPT !.extensions_blocked = blocked]
  <2>1. StorageAgreements[b][who] # None /\ StorageAgreements[b][who] \in StorageAgreement
    BY <1>1, TypeFacts DEF set_extensions_blocked
  <2>2. /\ agreement \in StorageAgreement
        /\ agreement.role = StorageAgreements[b][who].role
    BY <2>1, DataAssumption DEF StorageAgreement
  <2>3. StorageAgreements' = [StorageAgreements EXCEPT ![b][who] = agreement]
    BY <1>1 DEF set_extensions_blocked, TypeOK
  <2>4. UNCHANGED Buckets
    BY <1>1 DEF set_extensions_blocked
  <2> HIDE DEF agreement
  <2> QED BY <2>1, <2>2, <2>3, <2>4, RolesKept
<1>2. ASSUME ~\E b \in BucketIds, blocked \in BlockFlags :
                 set_extensions_blocked(who, b, blocked)
      PROVE  UNCHANGED <<Buckets, StorageAgreements>>
  BY <1>2 DEF ProviderNext, register_provider, add_stake, deregister_provider,
        complete_deregister, cancel_deregister, update_provider_settings
<1> QED BY <1>1, <1>2, PrimariesUnchanged

\* A call that edits one bucket record but not its primaries.
LEMMA EditKeepsPrimaries ==
    ASSUME TypeOK, NEW b \in BucketIds, Buckets[b] # None, NEW bucket,
           Buckets' = [Buckets EXCEPT ![b] = bucket],
           bucket.primary_providers = Buckets[b].primary_providers,
           BitPerPrimary(Buckets[b]) => BitPerPrimary(bucket),
           UNCHANGED StorageAgreements
    PROVE  PrimaryStep
BY DEF TypeOK, PrimaryStep, PrimariesUntouched

\* The calls of admins and writers on a bucket.
LEMMA BucketEditedPrimaries ==
    ASSUME TypeOK, BucketEdited
    PROVE  PrimaryStep
<1>0. ASSUME NEW b \in BucketIds, Buckets[b] # None PROVE Buckets[b] \in Bucket
  BY <1>0, TypeFacts
<1>1. ASSUME NEW who \in Accounts, NEW b \in BucketIds, delete_bucket(who, b)
      PROVE  PrimaryStep
  BY <1>1 DEF delete_bucket, TypeOK, PrimaryStep, PrimariesUntouched
<1>2. ASSUME NEW who \in Accounts, NEW b \in BucketIds, NEW n \in MinProvidersChoices,
             set_min_providers(who, b, n)
      PROVE  PrimaryStep
  <2> DEFINE bucket == [Buckets[b] EXCEPT !.min_providers = n]
  <2>1. Buckets' = [Buckets EXCEPT ![b] = bucket]
    BY <1>2 DEF set_min_providers, TypeOK
  <2>2. Buckets[b] # None /\ UNCHANGED StorageAgreements
    BY <1>2 DEF set_min_providers
  <2>3. /\ bucket.primary_providers = Buckets[b].primary_providers
        /\ bucket.snapshot = Buckets[b].snapshot
    BY <1>0, <2>2 DEF Bucket
  <2> HIDE DEF bucket
  <2> QED BY <2>1, <2>2, <2>3, EditKeepsPrimaries DEF BitPerPrimary
<1>3. ASSUME NEW who \in Accounts, NEW b \in BucketIds, freeze_bucket(who, b)
      PROVE  PrimaryStep
  <2> DEFINE start == Buckets[b].snapshot.commitment.start_seq
             bucket == [Buckets[b] EXCEPT !.frozen_start_seq = start]
  <2>1. Buckets' = [Buckets EXCEPT ![b] = bucket]
    BY <1>3 DEF freeze_bucket, TypeOK
  <2>2. Buckets[b] # None /\ UNCHANGED StorageAgreements
    BY <1>3 DEF freeze_bucket
  <2>3. /\ bucket.primary_providers = Buckets[b].primary_providers
        /\ bucket.snapshot = Buckets[b].snapshot
    BY <1>0, <2>2 DEF Bucket
  <2> HIDE DEF bucket
  <2> QED BY <2>1, <2>2, <2>3, EditKeepsPrimaries DEF BitPerPrimary
<1>4. ASSUME NEW who \in Accounts, NEW b \in BucketIds, NEW v \in Visibilities,
             set_bucket_visibility(who, b, v)
      PROVE  PrimaryStep
  <2> DEFINE bucket == [Buckets[b] EXCEPT !.visibility = v]
  <2>1. Buckets' = [Buckets EXCEPT ![b] = bucket]
    BY <1>4 DEF set_bucket_visibility, TypeOK
  <2>2. Buckets[b] # None /\ UNCHANGED StorageAgreements
    BY <1>4 DEF set_bucket_visibility
  <2>3. /\ bucket.primary_providers = Buckets[b].primary_providers
        /\ bucket.snapshot = Buckets[b].snapshot
    BY <1>0, <2>2 DEF Bucket
  <2> HIDE DEF bucket
  <2> QED BY <2>1, <2>2, <2>3, EditKeepsPrimaries DEF BitPerPrimary
<1>5. ASSUME NEW b \in BucketIds, Buckets[b] # None, NEW members,
             Buckets' = [Buckets EXCEPT ![b] = [Buckets[b] EXCEPT !.members = members]],
             UNCHANGED StorageAgreements
      PROVE  PrimaryStep
  <2> DEFINE bucket == [Buckets[b] EXCEPT !.members = members]
  <2>1. /\ bucket.primary_providers = Buckets[b].primary_providers
        /\ bucket.snapshot = Buckets[b].snapshot
    BY <1>0, <1>5 DEF Bucket
  <2>2. Buckets' = [Buckets EXCEPT ![b] = bucket]
    BY <1>5
  <2> HIDE DEF bucket
  <2> QED BY <1>5, <2>1, <2>2, EditKeepsPrimaries DEF BitPerPrimary
<1>6. ASSUME NEW who \in Accounts, NEW b \in BucketIds, NEW member \in Accounts,
             NEW role \in Roles, ChangeRole(who, b, member, role)
      PROVE  PrimaryStep
  <2> DEFINE members == [Buckets[b].members EXCEPT ![member].role = role]
  <2>1. Buckets' = [Buckets EXCEPT ![b] = [Buckets[b] EXCEPT !.members = members]]
    BY <1>6 DEF ChangeRole, TypeOK
  <2> HIDE DEF members
  <2> QED BY <1>5, <1>6, <2>1 DEF ChangeRole
<1>7. ASSUME NEW who \in Accounts, NEW b \in BucketIds, NEW member \in Accounts,
             NEW role \in Roles, AddMember(who, b, member, role)
      PROVE  PrimaryStep
  <2> DEFINE members == [Buckets[b].members EXCEPT
                            ![member] = [role |-> role, depositor |-> who]]
  <2>1. Buckets' = [Buckets EXCEPT ![b] = [Buckets[b] EXCEPT !.members = members]]
    BY <1>7 DEF AddMember, TypeOK
  <2> HIDE DEF members
  <2> QED BY <1>5, <1>7, <2>1 DEF AddMember
<1>8. ASSUME NEW who \in Accounts, NEW b \in BucketIds, NEW member \in Accounts,
             remove_member(who, b, member)
      PROVE  PrimaryStep
  <2> DEFINE members == [Buckets[b].members EXCEPT ![member] = None]
  <2>1. Buckets' = [Buckets EXCEPT ![b] = [Buckets[b] EXCEPT !.members = members]]
    BY <1>8 DEF remove_member, TypeOK
  <2> HIDE DEF members
  <2> QED BY <1>5, <1>8, <2>1 DEF remove_member
<1>9. ASSUME NEW who \in Accounts, NEW b \in BucketIds, NEW c \in Commitments,
             NEW signers \in SUBSET Accounts, checkpoint(who, b, c, signers)
      PROVE  PrimaryStep
  <2> DEFINE s == Buckets[b].primary_providers
             bits == [i \in DOMAIN s |-> s[i] \in signers]
             bucket == Checkpointed(Buckets[b], c, bits)
  <2>1. Buckets' = [Buckets EXCEPT ![b] = bucket]
    BY <1>9 DEF checkpoint
  <2>2. Buckets[b] # None /\ UNCHANGED StorageAgreements
    BY <1>9 DEF checkpoint
  <2>3. s \in Seq(Accounts) /\ Len(s) \in Nat /\ DOMAIN s = 1 .. Len(s)
    BY <1>0, <2>2, ListTypes
  <2>4. Len(bits) = Len(s)
    <3>1. bits \in [1 .. Len(s) -> BOOLEAN]
      BY <2>3
    <3> HIDE DEF bits
    <3> QED BY <2>3, <3>1
  <2> HIDE DEF bits
  <2>5. /\ bucket.primary_providers = s
        /\ bucket.snapshot.primary_signers = bits
    BY <1>0, <2>2 DEF Checkpointed, Bucket
  <2> HIDE DEF bucket
  <2> QED BY <2>1, <2>2, <2>4, <2>5, EditKeepsPrimaries DEF BitPerPrimary
<1>10. ASSUME NEW who \in Accounts, NEW b \in BucketIds, NEW signers \in SUBSET Accounts,
              extend_checkpoint(who, b, signers)
       PROVE  PrimaryStep
  <2> DEFINE signed == Buckets[b].snapshot.primary_signers
             bits == [i \in DOMAIN signed |->
                         signed[i] \/ Buckets[b].primary_providers[i] \in signers]
             bucket == [Buckets[b] EXCEPT !.snapshot.primary_signers = bits]
  <2>1. Buckets' = [Buckets EXCEPT ![b].snapshot.primary_signers = bits]
    BY <1>10 DEF extend_checkpoint
  <2>2. /\ Buckets[b] # None /\ UNCHANGED StorageAgreements
        /\ Buckets[b].snapshot # None
    BY <1>10 DEF extend_checkpoint
  <2>3. /\ signed \in Seq(BOOLEAN) /\ Len(signed) \in Nat /\ DOMAIN signed = 1 .. Len(signed)
        /\ Buckets[b] \in Bucket /\ Buckets[b].snapshot \in BucketSnapshot
    BY <1>0, <2>2, ListTypes
  <2>4. Len(bits) = Len(signed)
    <3>1. bits \in [1 .. Len(signed) -> BOOLEAN]
      BY <2>3
    <3> HIDE DEF bits
    <3> QED BY <2>3, <3>1
  <2> HIDE DEF bits
  <2>5. Buckets' = [Buckets EXCEPT ![b] = bucket]
    BY <2>1, <2>2 DEF TypeOK
  <2>6. /\ bucket.primary_providers = Buckets[b].primary_providers
        /\ bucket.snapshot.primary_signers = bits
    BY <2>3 DEF Bucket, BucketSnapshot
  <2> HIDE DEF bucket
  <2> QED BY <2>2, <2>4, <2>5, <2>6, EditKeepsPrimaries DEF BitPerPrimary
<1> QED BY <1>1, <1>2, <1>3, <1>4, <1>6, <1>7, <1>8, <1>9, <1>10 DEF BucketEdited

\* A bucket that is created has no snapshot, and the primaries it is given.
LEMMA NewBucketLists ==
    ASSUME NEW who, NEW n, NEW primaries, NEW v
    PROVE  /\ NewBucket(who, n, primaries, v).primary_providers = primaries
           /\ BitPerPrimary(NewBucket(who, n, primaries, v))
BY DEF NewBucket, BitPerPrimary

\* The id a new bucket gets has no bucket and no agreement.
LEMMA NextIdIsFree ==
    ASSUME Accountable, NEW b \in BucketIds, b = NextBucketId
    PROVE  Buckets[b] = None /\ \A p \in Accounts : StorageAgreements[b][p] = None
<1>1. b >= NextBucketId
  BY DEF BucketIds
<1>2. Buckets[b] = None
  BY <1>1 DEF Accountable, Ledger, BucketIdsFresh
<1> QED BY <1>2, ExposedFacts DEF Accountable

\* The creation of an empty bucket.
LEMMA CreateBucketPrimaries ==
    ASSUME Accountable, NEW who \in Accounts, NEW n \in MinProvidersChoices,
           NEW v \in Visibilities, create_bucket(who, n, v)
    PROVE  PrimaryStep
<1>0. TypeOK
  BY DEF Accountable
<1>1. PICK b \in BucketIds : b = NextBucketId
  BY DEF create_bucket, CanCreateBucket
<1> DEFINE bucket == NewBucket(who, n, <<>>, v)
<1>2. Buckets' = [Buckets EXCEPT ![b] = bucket] /\ UNCHANGED StorageAgreements
  BY <1>1 DEF create_bucket, CreateBucketInternal
<1>3. bucket.primary_providers = <<>> /\ BitPerPrimary(bucket)
  BY NewBucketLists
<1> HIDE DEF bucket
<1>4. Buckets[b] = None /\ \A p \in Accounts : StorageAgreements[b][p] = None
  BY <1>1, NextIdIsFree
<1>5. ListedIn(bucket, StorageAgreements[b])
  <2>1. DOMAIN bucket.primary_providers = {}
    BY <1>3
  <2> QED BY <1>3, <1>4, <2>1
          DEF ListedIn, NoDuplicates, IsPrimary, Position, IsPrimaryAgreement
<1>6. Elsewhere(b) /\ Buckets'[b] = bucket
  BY <1>0, <1>2 DEF Elsewhere, TypeOK
<1> QED BY <1>2, <1>4, <1>5, <1>6 DEF PrimaryStep, ListedFromStart

\* The agreement of a redeemed quote has the quote's role.
LEMMA InsertedRole ==
    ASSUME TypeOK, NEW q \in Quotes, NEW b \in BucketIds, NEW tickets,
           insert_agreement(b, q, tickets)
    PROVE  /\ q.provider \in Accounts
           /\ StorageAgreements'[b][q.provider] # None
           /\ StorageAgreements'[b][q.provider].role = q.kind
           /\ \A c \in BucketIds \ {b} : StorageAgreements'[c] = StorageAgreements[c]
           /\ \A p \in Accounts \ {q.provider} :
                 StorageAgreements'[b][p] = StorageAgreements[b][p]
<1>1. q \in Quote /\ q.provider \in Accounts
  BY DataAssumption DEF Quote
<1>2. NewAgreement(q) \in StorageAgreement
  BY <1>1, NewAgreementType, TypeFacts
<1>3. NewAgreement(q) # None /\ NewAgreement(q).role = q.kind
  BY <1>2, NoneAssumption DEF NewAgreement
<1>4. StorageAgreements' = [StorageAgreements EXCEPT ![b][q.provider] = NewAgreement(q)]
  BY DEF insert_agreement
<1> QED BY <1>1, <1>3, <1>4 DEF TypeOK

\* The three calls that redeem a quote.
LEMMA QuoteNextPrimaries ==
    ASSUME Accountable, NEW who \in Accounts, QuoteNext(who)
    PROVE  PrimaryStep
<1>0. TypeOK
  BY DEF Accountable
<1>1. ASSUME NEW q \in Quotes, NEW v \in Visibilities, create_bucket_with_primary(who, q, v)
      PROVE  PrimaryStep
  <2>1. PICK b \in BucketIds : b = NextBucketId
    BY <1>1 DEF create_bucket_with_primary, CanCreateBucket
  <2> DEFINE p == q.provider
             bucket == NewBucket(who, 1, <<p>>, v)
  <2>2. /\ Buckets' = [Buckets EXCEPT ![b] = bucket]
        /\ insert_agreement(b, q, 3)
        /\ q.kind = "Primary"
    BY <1>1, <2>1 DEF create_bucket_with_primary, CreateBucketInternal, accept_quote
  <2>3. bucket.primary_providers = <<p>> /\ BitPerPrimary(bucket)
    BY NewBucketLists
  <2> HIDE DEF bucket
  <2>4. Buckets[b] = None /\ \A a \in Accounts : StorageAgreements[b][a] = None
    BY <2>1, NextIdIsFree
  <2>5. /\ p \in Accounts
        /\ IsPrimaryAgreement(StorageAgreements'[b][p])
        /\ \A c \in BucketIds \ {b} : StorageAgreements'[c] = StorageAgreements[c]
        /\ \A a \in Accounts \ {p} : ~IsPrimaryAgreement(StorageAgreements'[b][a])
    BY <1>0, <2>2, <2>4, InsertedRole DEF IsPrimaryAgreement
  <2>6. /\ DOMAIN bucket.primary_providers = {1}
        /\ bucket.primary_providers[1] = p
    BY <2>3
  <2>7. \A a \in Accounts : IsPrimary(bucket, a) <=> a = p
    BY <2>6 DEF IsPrimary, Position
  <2>8. ListedIn(bucket, StorageAgreements'[b])
    BY <2>3, <2>5, <2>6, <2>7 DEF ListedIn, NoDuplicates
  <2>9. Elsewhere(b) /\ Buckets'[b] = bucket
    BY <1>0, <2>2, <2>5 DEF Elsewhere, TypeOK
  <2> QED BY <2>4, <2>8, <2>9 DEF PrimaryStep, ListedFromStart
<1>2. ASSUME NEW q \in Quotes, NEW b \in BucketIds, add_primary_provider(who, b, q)
      PROVE  PrimaryStep
  <2>1. /\ Buckets[b] # None
        /\ Buckets' = [Buckets EXCEPT ![b] = AppendPrimary(Buckets[b], q.provider)]
        /\ insert_agreement(b, q, 1)
        /\ q.kind = "Primary"
    BY <1>2 DEF add_primary_provider, accept_quote
  <2>2. StorageAgreements[b][q.provider] = None
    <3>1. b # None
      <4>1. b \in Nat
        BY ConfigAssumption DEF BucketIds
      <4> QED BY <4>1, NoneAssumption
    <3> QED BY <1>2, <3>1 DEF add_primary_provider, accept_quote
  <2>3. /\ Elsewhere(b)
        /\ Buckets'[b] = AppendPrimary(Buckets[b], q.provider)
    BY <1>0, <2>1, InsertedRole DEF Elsewhere, TypeOK
  <2>4. /\ q.provider \in Accounts
        /\ ~IsPrimaryAgreement(StorageAgreements[b][q.provider])
        /\ IsPrimaryAgreement(StorageAgreements'[b][q.provider])
        /\ \A a \in Accounts \ {q.provider} :
              StorageAgreements'[b][a] = StorageAgreements[b][a]
    BY <1>0, <2>1, <2>2, InsertedRole DEF IsPrimaryAgreement
  <2> QED BY <2>1, <2>3, <2>4 DEF PrimaryStep, PrimaryJoins
<1>3. ASSUME NEW q \in Quotes, NEW b \in BucketIds, add_replica_provider(who, b, q)
      PROVE  PrimaryStep
  <2>1. insert_agreement(b, q, 1) /\ q.kind = "Replica" /\ UNCHANGED Buckets
    BY <1>3 DEF add_replica_provider, accept_quote
  <2>2. StorageAgreements[b][q.provider] = None
    <3>1. b # None
      <4>1. b \in Nat
        BY ConfigAssumption DEF BucketIds
      <4> QED BY <4>1, NoneAssumption
    <3> QED BY <1>3, <3>1 DEF add_replica_provider, accept_quote
  <2>3. ASSUME NEW c \in BucketIds, NEW a \in Accounts
        PROVE  IsPrimaryAgreement(StorageAgreements'[c][a])
                   <=> IsPrimaryAgreement(StorageAgreements[c][a])
    <3>1. CASE c = b /\ a = q.provider
      BY <1>0, <2>1, <2>2, <3>1, InsertedRole DEF IsPrimaryAgreement
    <3>2. CASE c # b \/ a # q.provider
      BY <1>0, <2>1, <3>2, InsertedRole
    <3> QED BY <3>1, <3>2
  <2> QED BY <2>1, <2>3 DEF PrimaryStep, PrimariesUntouched
<1> QED BY <1>1, <1>2, <1>3 DEF QuoteNext

\* Closing an agreement takes a primary off the list, and leaves the list
\* alone when a replica goes.
LEMMA CloseAgreementPrimaries ==
    ASSUME Accountable, NEW b \in BucketIds, NEW p \in Accounts,
           StorageAgreements[b][p] # None, NEW f, CloseAgreement(b, p, f)
    PROVE  PrimaryStep
<1>0. TypeOK /\ Buckets[b] # None
  BY ExposedFacts DEF Accountable
<1>1. StorageAgreements' = [StorageAgreements EXCEPT ![b][p] = None]
  BY DEF CloseAgreement
<1>2. /\ StorageAgreements'[b][p] = None
      /\ \A c \in BucketIds \ {b} : StorageAgreements'[c] = StorageAgreements[c]
      /\ \A q \in Accounts \ {p} : StorageAgreements'[b][q] = StorageAgreements[b][q]
  BY <1>0, <1>1 DEF TypeOK
<1>3. CASE StorageAgreements[b][p].role = "Primary"
  <2>1. Buckets' = [Buckets EXCEPT ![b] = remove_primary_from_bucket(Buckets[b], p)]
    BY <1>0, <1>3 DEF CloseAgreement
  <2>2. Elsewhere(b) /\ Buckets'[b] = remove_primary_from_bucket(Buckets[b], p)
    BY <1>0, <1>2, <2>1 DEF Elsewhere, TypeOK
  <2>3. IsPrimaryAgreement(StorageAgreements[b][p])
    BY <1>3 DEF IsPrimaryAgreement
  <2> QED BY <1>0, <1>2, <2>2, <2>3 DEF PrimaryStep, PrimaryLeaves
<1>4. CASE StorageAgreements[b][p].role # "Primary"
  <2>1. Buckets' = Buckets
    <3>1. Buckets' = [Buckets EXCEPT ![b] = Buckets[b]]
      BY <1>4 DEF CloseAgreement
    <3> QED BY <1>0, <3>1 DEF TypeOK
  <2>2. ASSUME NEW c \in BucketIds, NEW q \in Accounts
        PROVE  IsPrimaryAgreement(StorageAgreements'[c][q])
                   <=> IsPrimaryAgreement(StorageAgreements[c][q])
    <3>1. CASE c = b /\ q = p
      BY <1>2, <1>4, <3>1 DEF IsPrimaryAgreement
    <3>2. CASE c # b \/ q # p
      BY <1>2, <3>2
    <3> QED BY <3>1, <3>2
  <2> QED BY <2>1, <2>2 DEF PrimaryStep, PrimariesUntouched
<1> QED BY <1>3, <1>4

\* The calls on agreements.
LEMMA AgreementNextPrimaries ==
    ASSUME Accountable, NEW who \in Accounts, AgreementNext(who)
    PROVE  PrimaryStep
<1>0. TypeOK /\ now \in Nat
  BY TypeFacts DEF Accountable
<1>1. ASSUME NEW b \in BucketIds, claim_expired_agreement(who, b) PROVE PrimaryStep
  BY <1>1, CloseAgreementPrimaries DEF claim_expired_agreement, finalize_agreement
<1>2. ASSUME NEW b \in BucketIds, NEW p \in Accounts, NEW action \in EndActions,
             end_agreement(who, b, p, action)
      PROVE  PrimaryStep
  BY <1>2, CloseAgreementPrimaries DEF end_agreement, finalize_agreement
<1>3. ASSUME NEW b \in BucketIds, NEW p \in Accounts, NEW n \in ByteAmounts,
             NEW m \in PaymentLimits, top_up_agreement(who, b, p, n, m)
      PROVE  PrimaryStep
  <2> DEFINE agreement == StorageAgreements[b][p]
             payment == calculate_payment(Providers[p].settings.price_per_byte, n,
                                          agreement.expires_at - now)
             larger == Enlarged(agreement, n, payment)
  <2>1. /\ Providers[p] \in ProviderInfo /\ agreement \in StorageAgreement
        /\ agreement # None /\ UNCHANGED Buckets
    BY <1>0, <1>3, TypeFacts DEF top_up_agreement
  <2>2. n \in Nat
    BY DataAssumption
  <2>3. payment \in Nat
    <3>1. Providers[p].settings.price_per_byte \in Nat
      BY <2>1 DEF ProviderInfo, ProviderSettings
    <3>2. agreement.expires_at - now \in Nat
      BY <1>0, <1>3, <2>1 DEF top_up_agreement, StorageAgreement
    <3> HIDE DEF agreement
    <3> QED BY <2>2, <3>1, <3>2 DEF calculate_payment
  <2>4. StorageAgreements' = [StorageAgreements EXCEPT ![b][p] = Enlarged(@, n, payment)]
    BY <1>3 DEF top_up_agreement
  <2> HIDE DEF payment
  <2>5. larger \in StorageAgreement
    BY <2>1, <2>2, <2>3, EnlargedType
  <2>6. larger.role = agreement.role
    BY <2>1 DEF Enlarged, StorageAgreement
  <2>7. StorageAgreements' = [StorageAgreements EXCEPT ![b][p] = larger]
    BY <1>0, <2>4 DEF TypeOK
  <2> HIDE DEF larger
  <2> QED BY <1>0, <2>1, <2>5, <2>6, <2>7, RolesKept
<1>4. ASSUME NEW b \in BucketIds, NEW p \in Accounts, NEW d \in Durations,
             NEW m \in PaymentLimits, extend_agreement(who, b, p, d, m)
      PROVE  PrimaryStep
  <2>1. AgreementReplacedIn(b, p) /\ UNCHANGED Buckets
    BY <1>0, <1>4, ExtendType DEF extend_agreement
  <2>2. PICK payment : StorageAgreements' = [StorageAgreements EXCEPT ![b][p] =
           Extended(@, Providers[p].settings, d, payment)]
    BY <1>4 DEF extend_agreement
  <2>3. StorageAgreements[b][p] \in StorageAgreement
    BY <1>0, <2>1, TypeFacts DEF AgreementReplacedIn
  <2>4. Extended(StorageAgreements[b][p], Providers[p].settings, d, payment).role
           = StorageAgreements[b][p].role
    BY <2>3 DEF Extended, StorageAgreement
  <2>5. StorageAgreements'[b][p] =
           Extended(StorageAgreements[b][p], Providers[p].settings, d, payment)
    BY <1>0, <2>2 DEF TypeOK
  <2> QED BY <1>0, <2>1, <2>4, <2>5, SomeRoleKept
<1>5. ASSUME NEW b \in BucketIds, NEW p \in Accounts, NEW a \in NewOwners,
             transfer_agreement_ownership(who, b, p, a)
      PROVE  PrimaryStep
  <2>1. AgreementReplacedIn(b, p) /\ UNCHANGED Buckets
    BY <1>0, <1>5, TransferType DEF transfer_agreement_ownership
  <2>2. StorageAgreements[b][p] \in StorageAgreement
    BY <1>0, <2>1, TypeFacts DEF AgreementReplacedIn
  <2>3. StorageAgreements'[b][p].role = StorageAgreements[b][p].role
    BY <1>0, <1>5, <2>2 DEF transfer_agreement_ownership, TypeOK, StorageAgreement
  <2> QED BY <1>0, <2>1, <2>3, SomeRoleKept
<1>6. ASSUME NEW b \in BucketIds, NEW i \in 0 .. Len(HISTORICAL_ROOT_PRIMES),
             confirm_replica_sync(who, b, i)
      PROVE  PrimaryStep
  <2>1. AgreementReplacedIn(b, who) /\ UNCHANGED Buckets
    BY <1>0, <1>6, ConfirmSyncType DEF confirm_replica_sync
  <2>2. PICK c : StorageAgreements' = [StorageAgreements EXCEPT ![b][who] = Synced(@, c)]
    BY <1>6 DEF confirm_replica_sync
  <2>3. StorageAgreements[b][who] \in StorageAgreement
    BY <1>0, <2>1, TypeFacts DEF AgreementReplacedIn
  <2>4. Synced(StorageAgreements[b][who], c).role = StorageAgreements[b][who].role
    BY <2>3 DEF Synced, StorageAgreement
  <2>5. StorageAgreements'[b][who] = Synced(StorageAgreements[b][who], c)
    BY <1>0, <2>2 DEF TypeOK
  <2> QED BY <1>0, <2>1, <2>4, <2>5, SomeRoleKept
<1>7. ASSUME NEW b \in BucketIds, NEW p \in Accounts, NEW n \in SyncAmounts,
             top_up_replica_sync_balance(who, b, p, n)
      PROVE  PrimaryStep
  <2>1. AgreementReplacedIn(b, p) /\ UNCHANGED Buckets
    BY <1>0, <1>7, TopUpSyncType DEF top_up_replica_sync_balance
  <2>2. StorageAgreements[b][p] \in StorageAgreement
    BY <1>0, <2>1, TypeFacts DEF AgreementReplacedIn
  <2>3. StorageAgreements'[b][p].role = StorageAgreements[b][p].role
    BY <1>0, <1>7, <2>2 DEF top_up_replica_sync_balance, TypeOK, StorageAgreement
  <2> QED BY <1>0, <2>1, <2>3, SomeRoleKept
<1> QED BY <1>1, <1>2, <1>3, <1>4, <1>5, <1>6, <1>7 DEF AgreementNext

\* Every step of the pallet is such a step.
LEMMA StepPrimaries ==
    ASSUME Accountable, [Next]_vars
    PROVE  PrimaryStep
<1>0. TypeOK
  BY DEF Accountable
<1>1. CASE Tick
  BY <1>1, PrimariesUnchanged DEF Tick
<1>2. ASSUME NEW who \in Reapable, NEW dest \in Accounts, on_killed_account(who, dest)
      PROVE  PrimaryStep
  BY <1>2, PrimariesUnchanged DEF on_killed_account
<1>3. ASSUME NEW who \in Accounts, ProviderNext(who) PROVE PrimaryStep
  BY <1>0, <1>3, ProviderNextPrimaries
<1>4. ASSUME NEW who \in Accounts, BucketNext(who) PROVE PrimaryStep
  <2>1. CASE \E n \in MinProvidersChoices, v \in Visibilities : create_bucket(who, n, v)
    BY <2>1, CreateBucketPrimaries
  <2>2. ASSUME ~\E n \in MinProvidersChoices, v \in Visibilities : create_bucket(who, n, v)
        PROVE  BucketEdited
    BY <1>4, <2>2 DEF BucketNext, BucketEdited, set_member
  <2> QED BY <1>0, <2>1, <2>2, BucketEditedPrimaries
<1>5. ASSUME NEW who \in Accounts, QuoteNext(who) PROVE PrimaryStep
  BY <1>5, QuoteNextPrimaries
<1>6. ASSUME NEW who \in Accounts, AgreementNext(who) PROVE PrimaryStep
  BY <1>6, AgreementNextPrimaries
<1>7. ASSUME NEW who \in Accounts, ChallengeNext(who) PROVE PrimaryStep
  <2>1. ASSUME NEW b, NEW p, NEW c, NEW leaf_index,
               create_challenge(who, b, p, c, leaf_index)
        PROVE  UNCHANGED <<Buckets, StorageAgreements>>
    BY <2>1 DEF create_challenge
  <2>2. ASSUME NEW id \in DOMAIN Challenges, NEW r \in ResponseKinds,
               respond_to_challenge(who, id, r)
        PROVE  UNCHANGED <<Buckets, StorageAgreements>>
    BY <2>2 DEF respond_to_challenge
  <2> QED BY <1>7, <2>1, <2>2, PrimariesUnchanged
          DEF ChallengeNext, challenge_checkpoint, challenge_offchain, challenge_replica
<1>8. ASSUME NEW b \in BucketIds, NEW p \in Accounts, remove_slashed(b, p)
      PROVE  PrimaryStep
  BY <1>8, CloseAgreementPrimaries DEF remove_slashed
<1>9. ASSUME NEW id \in DOMAIN Challenges, resolve_expired_challenge(id)
      PROVE  PrimaryStep
  BY <1>9, PrimariesUnchanged DEF resolve_expired_challenge
<1>10. CASE UNCHANGED vars
  BY <1>10, PrimariesUnchanged DEF vars
<1> QED BY <1>1, <1>2, <1>3, <1>4, <1>5, <1>6, <1>7, <1>8, <1>9, <1>10 DEF Next

\* Genesis buckets have no primaries.
LEMMA ListedInit == Init => PrimariesListed
<1> SUFFICES ASSUME Init, NEW b \in BucketIds, Buckets[b] # None
             PROVE  ListedIn(Buckets[b], StorageAgreements[b])
  BY DEF PrimariesListed
<1>1. \E who, n : Buckets[b] = NewBucket(who, n, <<>>, "Private")
  BY DEF Init
<1>2. Buckets[b].primary_providers = <<>> /\ BitPerPrimary(Buckets[b])
  BY <1>1, NewBucketLists
<1>3. \A p \in Accounts : StorageAgreements[b][p] = None
  BY DEF Init
<1>4. DOMAIN Buckets[b].primary_providers = {}
  BY <1>2
<1> QED BY <1>2, <1>3, <1>4
        DEF ListedIn, NoDuplicates, IsPrimary, Position, IsPrimaryAgreement

\* The invariant of the primaries.
LEMMA ListedAlways == Spec => []PrimariesListed
<1>1. Init => PrimariesListed
  BY ListedInit
<1>2. Accountable /\ PrimariesListed /\ [Next]_vars => PrimariesListed'
  BY StepPrimaries, PrimaryStepListed DEF Accountable
<1> QED BY <1>1, <1>2, AccountableAlways, PTL DEF Spec

\* A list without duplicates has a primary at one position or at none.
LEMMA OnePosition ==
    ASSUME NEW bucket, NoDuplicates(bucket.primary_providers), NEW p
    PROVE  Cardinality(Position(bucket, p)) = IF IsPrimary(bucket, p) THEN 1 ELSE 0
<1>1. CASE IsPrimary(bucket, p)
  <2>1. PICK i : i \in Position(bucket, p)
    BY <1>1 DEF IsPrimary
  <2>2. Position(bucket, p) = {i}
    BY <2>1 DEF Position, NoDuplicates
  <2> QED BY <1>1, <2>2, FS_Singleton
<1>2. CASE ~IsPrimary(bucket, p)
  BY <1>2, FS_EmptySet DEF IsPrimary
<1> QED BY <1>1, <1>2

\* Through every way of adding and removing providers a bucket lists exactly
\* the providers with a Primary agreement, each once, and its snapshot has one
\* signer bit for each.
THEOREM PrimariesAlwaysMatch == Spec => []PrimariesMatchAgreements
<1>1. Accountable /\ PrimariesListed => PrimariesMatchAgreements
  <2> SUFFICES ASSUME Accountable, PrimariesListed, NEW b \in BucketIds
               PROVE  /\ Buckets[b] = None => \A p \in Accounts : StorageAgreements[b][p] = None
                      /\ \A p \in Accounts : StorageAgreements[b][p] # None => Providers[p] # None
                      /\ Buckets[b] # None =>
                            /\ \A p \in Accounts :
                                  Cardinality(Position(Buckets[b], p)) =
                                      IF /\ StorageAgreements[b][p] # None
                                         /\ StorageAgreements[b][p].role = "Primary"
                                      THEN 1 ELSE 0
                            /\ BitPerPrimary(Buckets[b])
    BY DEF PrimariesMatchAgreements, BitPerPrimary
  <2>1. /\ Buckets[b] = None => \A p \in Accounts : StorageAgreements[b][p] = None
        /\ \A p \in Accounts : StorageAgreements[b][p] # None => Providers[p] # None
    BY ExposedFacts DEF Accountable
  <2>2. ASSUME Buckets[b] # None, NEW p \in Accounts
        PROVE  Cardinality(Position(Buckets[b], p)) =
                  IF /\ StorageAgreements[b][p] # None
                     /\ StorageAgreements[b][p].role = "Primary" THEN 1 ELSE 0
    BY <2>2, OnePosition DEF PrimariesListed, ListedIn, IsPrimaryAgreement
  <2>3. Buckets[b] # None => BitPerPrimary(Buckets[b])
    BY DEF PrimariesListed, ListedIn
  <2> QED BY <2>1, <2>2, <2>3
<1> QED BY <1>1, AccountableAlways, ListedAlways, PTL

\* A primary that joins is not liable for the snapshot, and leaves the others
\* as liable as they were.
LEMMA AppendBits ==
    ASSUME NEW bucket \in Bucket, BitPerPrimary(bucket), NEW p \in Accounts,
           ~IsPrimary(bucket, p), NEW q \in Accounts
    PROVE  SignedSnapshot(AppendPrimary(bucket, p), q) <=> SignedSnapshot(bucket, q)
<1> DEFINE s == bucket.primary_providers
           bits == bucket.snapshot.primary_signers
           after == AppendPrimary(bucket, p)
<1>1. s \in Seq(Accounts) /\ Len(s) \in Nat /\ DOMAIN s = 1 .. Len(s)
  BY ListTypes
<1>2. CASE bucket.snapshot = None
  BY <1>2, AppendFields DEF SignedSnapshot
<1>3. CASE bucket.snapshot # None
  <2>1. bits \in Seq(BOOLEAN) /\ Len(bits) = Len(s) /\ DOMAIN bits = 1 .. Len(s)
    BY <1>1, <1>3, ListTypes DEF BitPerPrimary
  <2>2. /\ after.snapshot # None
        /\ after.primary_providers = Append(s, p)
        /\ after.snapshot.primary_signers = Append(bits, FALSE)
    BY <1>3, AppendFields
  <2> HIDE DEF after
  <2>3. SignedSnapshot(bucket, q) <=> \E i \in 1 .. Len(s) : s[i] = q /\ bits[i]
    BY <1>1, <1>3, <2>1 DEF SignedSnapshot, Position
  <2>a. FALSE \in BOOLEAN
    OBVIOUS
  <2>b. /\ Append(s, p) \in Seq(Accounts) /\ Len(Append(s, p)) = Len(s) + 1
        /\ \A i \in 1 .. Len(s) : Append(s, p)[i] = s[i]
    BY <1>1, AppendProperties
  <2>c. /\ Append(bits, FALSE) \in Seq(BOOLEAN)
        /\ Len(Append(bits, FALSE)) = Len(s) + 1
        /\ \A i \in 1 .. Len(s) : Append(bits, FALSE)[i] = bits[i]
        /\ Append(bits, FALSE)[Len(s) + 1] = FALSE
    <3>1. \A bit \in BOOLEAN :
             /\ Append(bits, bit) \in Seq(BOOLEAN)
             /\ Len(Append(bits, bit)) = Len(bits) + 1
             /\ \A i \in 1 .. Len(bits) : Append(bits, bit)[i] = bits[i]
             /\ Append(bits, bit)[Len(bits) + 1] = bit
      <4> HIDE DEF bits
      <4> QED BY <2>1, AppendProperties
    <3> HIDE DEF bits, s
    <3> QED BY <2>1, <2>a, <3>1, Zenon
  <2>d. /\ DOMAIN Append(s, p) = 1 .. Len(s) + 1
        /\ DOMAIN Append(bits, FALSE) = 1 .. Len(s) + 1
    BY <2>b, <2>c
  <2>4. SignedSnapshot(after, q) <=>
           \E i \in 1 .. Len(s) + 1 : Append(s, p)[i] = q /\ Append(bits, FALSE)[i]
    BY <1>1, <2>1, <2>2, <2>d DEF SignedSnapshot, Position
  <2>5. /\ \A i \in 1 .. Len(s) : Append(s, p)[i] = s[i] /\ Append(bits, FALSE)[i] = bits[i]
        /\ Append(bits, FALSE)[Len(s) + 1] = FALSE
    BY <2>b, <2>c
  <2>6. ASSUME NEW i \in 1 .. Len(s) + 1, Append(s, p)[i] = q, Append(bits, FALSE)[i]
        PROVE  \E j \in 1 .. Len(s) : s[j] = q /\ bits[j]
    <3>1. i # Len(s) + 1
      BY <2>5, <2>6
    <3>2. i \in 1 .. Len(s)
      BY <1>1, <3>1
    <3> QED BY <2>5, <2>6, <3>2
  <2>7. ASSUME NEW i \in 1 .. Len(s), s[i] = q, bits[i]
        PROVE  \E j \in 1 .. Len(s) + 1 : Append(s, p)[j] = q /\ Append(bits, FALSE)[j]
    <3>1. i \in 1 .. Len(s) + 1
      BY <1>1
    <3> QED BY <2>5, <2>7, <3>1
  <2> QED BY <2>3, <2>4, <2>6, <2>7 DEF after
<1> QED BY <1>2, <1>3

\* A primary that leaves leaves the others as liable as they were.
LEMMA RemoveBits ==
    ASSUME NEW bucket \in Bucket, BitPerPrimary(bucket),
           NEW p \in Accounts, IsPrimary(bucket, p), NEW q \in Accounts, q # p
    PROVE  SignedSnapshot(remove_primary_from_bucket(bucket, p), q)
              <=> SignedSnapshot(bucket, q)
<1> DEFINE s == bucket.primary_providers
           bits == bucket.snapshot.primary_signers
           after == remove_primary_from_bucket(bucket, p)
           pos == FirstPosition(bucket, p)
           t == RemoveAt(s, pos)
           left == RemoveAt(bits, pos)
<1>1. s \in Seq(Accounts) /\ Len(s) \in Nat /\ DOMAIN s = 1 .. Len(s)
  BY ListTypes
<1>2. pos \in 1 .. Len(s) /\ s[pos] = p
  BY FirstPositionIs
<1>3. CASE bucket.snapshot = None
  BY <1>3, RemoveFields DEF SignedSnapshot
<1>4. CASE bucket.snapshot # None
  <2>1. bits \in Seq(BOOLEAN) /\ Len(bits) = Len(s) /\ DOMAIN bits = 1 .. Len(s)
    BY <1>1, <1>4, ListTypes DEF BitPerPrimary
  <2>2. /\ after.snapshot # None
        /\ after.primary_providers = t
        /\ after.snapshot.primary_signers = left
    BY <1>4, RemoveFields
  <2>3. /\ Len(t) = Len(s) - 1 /\ Len(left) = Len(s) - 1
        /\ \A j \in 1 .. Len(s) - 1 :
              /\ t[j] = IF j < pos THEN s[j] ELSE s[j + 1]
              /\ left[j] = IF j < pos THEN bits[j] ELSE bits[j + 1]
    BY <1>1, <1>2, <2>1, RemoveAtElements, ZenonT(60)
  <2>4. DOMAIN t = 1 .. Len(s) - 1 /\ DOMAIN left = 1 .. Len(s) - 1
    BY <1>1, <1>2, <2>1, <2>3, RemoveAtType
  <2> HIDE DEF after, t, left, pos
  <2>5. SignedSnapshot(bucket, q) <=> \E i \in 1 .. Len(s) : s[i] = q /\ bits[i]
    BY <1>1, <1>4, <2>1 DEF SignedSnapshot, Position
  <2>6. SignedSnapshot(after, q) <=> \E i \in 1 .. Len(s) - 1 : t[i] = q /\ left[i]
    BY <2>2, <2>4 DEF SignedSnapshot, Position
  <2>7. ASSUME NEW i \in 1 .. Len(s) - 1, t[i] = q, left[i]
        PROVE  \E j \in 1 .. Len(s) : s[j] = q /\ bits[j]
    <3>1. CASE i < pos
      <4>1. i \in 1 .. Len(s)
        BY <1>1
      <4> QED BY <2>3, <2>7, <3>1, <4>1
    <3>2. CASE ~(i < pos)
      <4>1. i + 1 \in 1 .. Len(s)
        BY <1>1
      <4> QED BY <2>3, <2>7, <3>2, <4>1
    <3> QED BY <3>1, <3>2
  <2>8. ASSUME NEW j \in 1 .. Len(s), s[j] = q, bits[j]
        PROVE  \E i \in 1 .. Len(s) - 1 : t[i] = q /\ left[i]
    <3>1. CASE j < pos
      <4>1. j \in 1 .. Len(s) - 1
        BY <1>1, <1>2, <3>1
      <4> QED BY <2>3, <2>8, <3>1, <4>1
    <3>2. CASE j > pos
      <4>1. j - 1 \in 1 .. Len(s) - 1 /\ ~(j - 1 < pos) /\ (j - 1) + 1 = j
        BY <1>1, <1>2, <3>2
      <4>2. t[j - 1] = q /\ left[j - 1]
        BY <2>3, <2>8, <4>1
      <4> QED BY <4>1, <4>2
    <3> QED BY <1>1, <1>2, <2>8, <3>1, <3>2
  <2> QED BY <2>5, <2>6, <2>7, <2>8 DEF after
<1> QED BY <1>3, <1>4

\* What a step that changes a bucket's primaries does to the liability of the
\* primaries it has then.
LEMMA BitsFollow ==
    ASSUME Accountable, PrimariesListed, PrimaryStep, NEW b \in BucketIds,
           Buckets[b] # None, Buckets'[b] # None,
           Buckets'[b].primary_providers # Buckets[b].primary_providers,
           NEW q \in Accounts, IsPrimary(Buckets'[b], q)
    PROVE  SignedSnapshot(Buckets'[b], q) <=> SignedSnapshot(Buckets[b], q)
<1>0. Buckets[b] \in Bucket /\ ListedIn(Buckets[b], StorageAgreements[b])
  BY TypeFacts DEF Accountable, PrimariesListed
<1>1. ~PrimariesUntouched
  BY DEF PrimariesUntouched
<1>2. ~ListedFromStart
  BY DEF ListedFromStart, Elsewhere
<1>3. CASE PrimaryJoins
  <2>1. PICK p \in Accounts :
           /\ Buckets'[b] = AppendPrimary(Buckets[b], p)
           /\ ~IsPrimaryAgreement(StorageAgreements[b][p])
    BY <1>3 DEF PrimaryJoins, Elsewhere
  <2>2. ~IsPrimary(Buckets[b], p) /\ BitPerPrimary(Buckets[b])
    BY <1>0, <2>1 DEF ListedIn
  <2> QED BY <1>0, <2>1, <2>2, AppendBits
<1>4. CASE PrimaryLeaves
  <2>1. PICK p \in Accounts :
           /\ Buckets'[b] = remove_primary_from_bucket(Buckets[b], p)
           /\ IsPrimaryAgreement(StorageAgreements[b][p])
           /\ StorageAgreements'[b][p] = None
           /\ \A r \in Accounts \ {p} : StorageAgreements'[b][r] = StorageAgreements[b][r]
    BY <1>4 DEF PrimaryLeaves, Elsewhere
  <2>2. IsPrimary(Buckets[b], p) /\ BitPerPrimary(Buckets[b])
    BY <1>0, <2>1 DEF ListedIn
  <2>3. ListedIn(Buckets'[b], StorageAgreements'[b])
    BY <1>0, <2>1, RemoveListed
  <2>4. q # p
    BY <2>1, <2>3 DEF ListedIn, IsPrimaryAgreement
  <2> QED BY <1>0, <2>1, <2>2, <2>4, RemoveBits
<1> QED BY <1>1, <1>2, <1>3, <1>4 DEF PrimaryStep

\* Signer bits are kept by position, yet no signature ever moves from one
\* primary to another: whoever stays is liable for the snapshot exactly if it
\* was before, and whoever joins is not.
THEOREM SignaturesStayPut == Spec => SignerBitsFollowProviders
<1>1. Accountable /\ PrimariesListed /\ [Next]_vars =>
        [\A b \in BucketIds :
            (/\ Buckets[b] # None /\ Buckets'[b] # None
             /\ Buckets'[b].primary_providers # Buckets[b].primary_providers) =>
                \A p \in Accounts :
                    IsPrimary(Buckets'[b], p) =>
                        SignedSnapshot(Buckets'[b], p) = SignedSnapshot(Buckets[b], p)]_vars
  <2> SUFFICES ASSUME Accountable, PrimariesListed, [Next]_vars, NEW b \in BucketIds,
                      Buckets[b] # None, Buckets'[b] # None,
                      Buckets'[b].primary_providers # Buckets[b].primary_providers,
                      NEW p \in Accounts, IsPrimary(Buckets'[b], p)
               PROVE  SignedSnapshot(Buckets'[b], p) = SignedSnapshot(Buckets[b], p)
    OBVIOUS
  <2>1. SignedSnapshot(Buckets'[b], p) <=> SignedSnapshot(Buckets[b], p)
    BY StepPrimaries, BitsFollow
  <2>2. /\ SignedSnapshot(Buckets'[b], p) \in BOOLEAN
        /\ SignedSnapshot(Buckets[b], p) \in BOOLEAN
    BY DEF SignedSnapshot
  <2> QED BY <2>1, <2>2
<1> QED BY <1>1, AccountableAlways, ListedAlways, PTL DEF Spec, SignerBitsFollowProviders

=============================================================================
