--------------------------- MODULE StoragePallet ---------------------------
(***************************************************************************)
(* The storage-provider pallet as one state machine: genesis, every call    *)
(* that changes state, the passing of anchor blocks and the reaping of an    *)
(* account.  Blocks hold any number of calls by any accounts in any order;  *)
(* a call is atomic (it runs in a storage layer).                           *)
(***************************************************************************)
EXTENDS AgreementCalls, ChallengeCalls

----------------------------------------------------------------------------
(* Genesis                                                                  *)

GenesisBucketIds(a) == {i \in DOMAIN GenesisBuckets : GenesisBuckets[i].admin = a}

GenesisStake(a) ==
    IF \E g \in GenesisProviders : g.account = a
    THEN (CHOOSE g \in GenesisProviders : g.account = a).stake ELSE 0

\* Deposits of the provider record, and of each bucket and its admin entry.
GenesisDeposits(a) ==
    StorageDeposit * (2 * Cardinality(GenesisBucketIds(a))
                      + IF \E g \in GenesisProviders : g.account = a THEN 1 ELSE 0)

\* Genesis build panics on an entry its calls would reject.
ASSUME GenesisAssumption ==
    /\ \A g, h \in GenesisProviders : g.account = h.account => g = h
    /\ \A g \in GenesisProviders :
          /\ g.stake >= MinProviderStake
          /\ validate_settings(g.settings, 0, g.stake)
    /\ \A i \in DOMAIN GenesisBuckets :
          GenesisBuckets[i].min_providers \in 1 .. MaxPrimaryProviders
    /\ \A a \in Accounts :
          /\ Cardinality(GenesisBucketIds(a)) \in 0 .. MaxBucketsPerMember
          /\ GenesisStake(a) + GenesisDeposits(a) <= Endowment[a]

Init ==
    /\ now = 0
    /\ Providers = [a \in Accounts |->
          IF \E g \in GenesisProviders : g.account = a
          THEN LET g == CHOOSE g \in GenesisProviders : g.account = a
               IN  NewProvider(g.stake, g.settings)
          ELSE None]
    /\ Buckets = [b \in BucketIds |->
          IF b + 1 \in DOMAIN GenesisBuckets
          THEN NewBucket(GenesisBuckets[b + 1].admin,
                         GenesisBuckets[b + 1].min_providers, <<>>, "Private")
          ELSE None]
    /\ NextBucketId = Len(GenesisBuckets)
    /\ MemberBuckets = [a \in Accounts |->
          {b \in BucketIds : b + 1 \in GenesisBucketIds(a)}]
    /\ StorageAgreements = [b \in BucketIds |-> [a \in Accounts |-> None]]
    /\ Challenges = [x \in {} |-> None]
    /\ NextChallengeIndex = [d \in Deadlines |-> 0]
    /\ PendingChallenges = [a \in Accounts |-> 0]
    /\ PendingChallengesByBucket = [b \in BucketIds |-> [a \in Accounts |-> 0]]
    /\ AgreementNonces = [a \in Accounts |-> 0]
    /\ funds =
          [free |-> [a \in Accounts \cup {Treasury} |->
              IF a \in Accounts THEN Endowment[a] - GenesisStake(a) - GenesisDeposits(a)
              ELSE 0],
           held |-> [r \in HoldReasons |-> [a \in Accounts |->
              CASE r = "ProviderStake" -> GenesisStake(a)
                [] r = "StorageDeposit" -> GenesisDeposits(a)
                [] OTHER -> 0]]]

----------------------------------------------------------------------------
(* The environment                                                          *)

Tick ==
    /\ now < MaxBlock
    /\ now' = now + 1
    /\ UNCHANGED <<Providers, StorageAgreements, Buckets, challengeVars, indexVars, funds>>

\* An account nothing is held on spends everything it has and is reaped; its
\* nonce entry goes with it.
on_killed_account(who, dest) ==
    /\ dest # who
    /\ \A r \in HoldReasons : funds.held[r][who] = 0
    /\ LET spent == [funds.free EXCEPT ![dest] = @ + funds.free[who], ![who] = 0]
       IN  funds' = [funds EXCEPT !.free = spent]
    /\ AgreementNonces' = [AgreementNonces EXCEPT ![who] = 0]
    /\ UNCHANGED <<now, Providers, StorageAgreements, Buckets, challengeVars,
                   NextBucketId, MemberBuckets>>

----------------------------------------------------------------------------
(* Next: every call with every argument the constants provide               *)

ProviderNext(who) ==
    \/ \E stake \in StakeAmounts : register_provider(who, stake)
    \/ \E amount \in StakeAmounts : add_stake(who, amount)
    \/ deregister_provider(who)
    \/ complete_deregister(who)
    \/ cancel_deregister(who)
    \/ \E settings \in SettingsChoices : update_provider_settings(who, settings)
    \/ \E b \in BucketIds, blocked \in BlockFlags : set_extensions_blocked(who, b, blocked)

BucketNext(who) ==
    \/ \E n \in MinProvidersChoices, v \in Visibilities : create_bucket(who, n, v)
    \/ \E b \in BucketIds :
          \/ delete_bucket(who, b)
          \/ \E n \in MinProvidersChoices : set_min_providers(who, b, n)
          \/ freeze_bucket(who, b)
          \/ \E v \in Visibilities : set_bucket_visibility(who, b, v)
          \/ \E member \in Accounts, role \in Roles : set_member(who, b, member, role)
          \/ \E member \in Accounts : remove_member(who, b, member)
          \/ \E c \in Commitments, signers \in SUBSET Accounts :
                checkpoint(who, b, c, signers)
          \/ \E signers \in SUBSET Accounts : extend_checkpoint(who, b, signers)

QuoteNext(who) ==
    \E q \in Quotes :
        \/ \E v \in Visibilities : create_bucket_with_primary(who, q, v)
        \/ \E b \in BucketIds : \/ add_primary_provider(who, b, q)
                                \/ add_replica_provider(who, b, q)

AgreementNext(who) ==
    \E b \in BucketIds :
        \/ claim_expired_agreement(who, b)
        \/ \E i \in 0 .. Len(HISTORICAL_ROOT_PRIMES) : confirm_replica_sync(who, b, i)
        \/ \E p \in Accounts :
              \/ \E action \in EndActions : end_agreement(who, b, p, action)
              \/ \E n \in ByteAmounts, m \in PaymentLimits : top_up_agreement(who, b, p, n, m)
              \/ \E d \in Durations, m \in PaymentLimits : extend_agreement(who, b, p, d, m)
              \/ \E a \in NewOwners : transfer_agreement_ownership(who, b, p, a)
              \/ \E n \in SyncAmounts : top_up_replica_sync_balance(who, b, p, n)

ChallengeNext(who) ==
    \/ \E b \in BucketIds, p \in Accounts, leaf_index \in LeafIndices :
          \/ challenge_checkpoint(who, b, p, leaf_index)
          \/ \E c \in Commitments : challenge_offchain(who, b, p, c, leaf_index)
          \/ challenge_replica(who, b, p, leaf_index)
    \/ \E id \in DOMAIN Challenges, r \in ResponseKinds : respond_to_challenge(who, id, r)

Next ==
    \/ Tick
    \/ \E who \in Reapable, dest \in Accounts : on_killed_account(who, dest)
    \/ \E who \in Accounts : \/ ProviderNext(who)
                             \/ BucketNext(who)
                             \/ QuoteNext(who)
                             \/ AgreementNext(who)
                             \/ ChallengeNext(who)
    \/ \E b \in BucketIds, p \in Accounts : remove_slashed(b, p)
    \/ \E id \in DOMAIN Challenges : resolve_expired_challenge(id)

Spec == Init /\ [][Next]_vars

\* Blocks keep coming; an expired challenge is resolved by somebody, for
\* resolve_expired_challenge is open to everyone and free; a provider that
\* announced its exit, or whose agreement is past its settlement window,
\* makes the call that pays it.
FairSpec ==
    /\ Spec
    /\ WF_vars(Tick)
    /\ WF_vars(\E id \in DOMAIN Challenges : resolve_expired_challenge(id))
    /\ \A p \in Accounts :
          /\ WF_vars(complete_deregister(p))
          /\ WF_vars(\E b \in BucketIds : claim_expired_agreement(p, b))

----------------------------------------------------------------------------
(* Properties                                                               *)

ChallengeTypeOK ==
    /\ DOMAIN Challenges \subseteq ChallengeId
    /\ \A id \in DOMAIN Challenges : Challenges[id] \in Challenge
    /\ IsFiniteSet(DOMAIN Challenges)
    /\ NextChallengeIndex \in [Deadlines -> 0 .. MaxChallengesPerDeadline]
    /\ PendingChallenges \in [Accounts -> Nat]
    /\ PendingChallengesByBucket \in [BucketIds -> [Accounts -> Nat]]

IndexTypeOK ==
    /\ NextBucketId \in 0 .. MaxBuckets
    /\ MemberBuckets \in [Accounts -> SUBSET BucketIds]
    /\ AgreementNonces \in [Accounts -> Nat]

\* Every storage item has the type its declaration in lib.rs gives it; in
\* particular no balance, hold or pending counter is ever below zero, and no
\* deadline hands out more than MaxChallengesPerDeadline indices.
TypeOK ==
    /\ now \in 0 .. MaxBlock
    /\ Providers \in [Accounts -> ProviderInfo \cup {None}]
    /\ StorageAgreements \in [BucketIds -> [Accounts -> StorageAgreement \cup {None}]]
    /\ Buckets \in [BucketIds -> Bucket \cup {None}]
    /\ funds \in Funds
    /\ ChallengeTypeOK
    /\ IndexTypeOK

OpenAgainst(p) == {id \in DOMAIN Challenges : Challenges[id].provider = p}

OpenOn(b, p) == {id \in OpenAgainst(p) : Challenges[id].bucket_id = b}

\* While a challenge is open, everything its resolution needs is there: the
\* challenged provider is registered (so it can be slashed), and its agreement
\* and the bucket exist (so it can answer).  end_agreement,
\* claim_expired_agreement, remove_slashed, delete_bucket and
\* complete_deregister all have to wait.
ChallengeAccountability ==
    \A id \in DOMAIN Challenges :
        /\ Providers[Challenges[id].provider] # None
        /\ Buckets[Challenges[id].bucket_id] # None
        /\ StorageAgreements[Challenges[id].bucket_id][Challenges[id].provider] # None

\* The counters that gate exits and teardown (PendingChallenges,
\* PendingChallengesByBucket) are exactly the numbers of open challenges:
\* create_challenge and the two resolutions keep them in step.
PendingCountersExact ==
    \A p \in Accounts :
        /\ PendingChallenges[p] = Cardinality(OpenAgainst(p))
        /\ \A b \in BucketIds :
              PendingChallengesByBucket[b][p] = Cardinality(OpenOn(b, p))

\* An announced provider is exposed to nothing: deregister_provider demands
\* committed_bytes = 0 and no later call gives it an agreement or a challenge,
\* so the pending-challenge gate of complete_deregister never has to hold it.
AnnouncedProviderIsClear ==
    \A p \in Accounts :
        Providers[p] # None /\ Providers[p].deregister_at # None =>
            /\ \A b \in BucketIds : StorageAgreements[b][p] = None
            /\ OpenAgainst(p) = {}

\* The pallet seen as who is exposed to whom: registration, announced exits,
\* buckets, agreements and open challenges, without counters, clock or money.
L == INSTANCE Liability WITH
        Ids <- [deadline : Deadlines, index : 0 .. MaxChallengesPerDeadline - 1],
        registered <- {p \in Accounts : Providers[p] # None},
        exiting <- {p \in Accounts : /\ Providers[p] # None
                                     /\ Providers[p].deregister_at # None},
        buckets <- {b \in BucketIds : Buckets[b] # None},
        agreements <- {x \in BucketIds \X Accounts : StorageAgreements[x[1]][x[2]] # None},
        open <- [id \in DOMAIN Challenges |->
                    <<Challenges[id].bucket_id, Challenges[id].provider>>]

\* The gates the pallet computes from committed_bytes, deregister_at and the
\* two pending-challenge counters let through exactly the steps Liability
\* allows: no agreement ends and no provider announces or leaves while it is
\* exposed, and no challenge takes the id of another.
LiabilityImplemented == L!Spec

\* A challenge's record never changes and its id is never handed out twice
\* while it is open, although resolve_expired_challenge resets the index
\* counter of its deadline: the fee tier and the commitment judged are those
\* of the block the challenge was created in.
ChallengeRecordsImmutable ==
    [][\A id \in DOMAIN Challenges \cap DOMAIN Challenges' :
          Challenges'[id] = Challenges[id]]_vars

HeldStake(p) == funds.held["ProviderStake"][p]

\* Held stake goes down in two ways only: to the treasury, when a challenge
\* against the provider whose deadline has passed is resolved; or back to the
\* provider, when the announcement period is over and no agreement and no
\* open challenge is left (complete_deregister).
StakeLeavesOnlyWhenDue ==
    [][\A p \in Accounts : HeldStake(p)' < HeldStake(p) =>
          \/ /\ \E id \in OpenAgainst(p) : now > id.deadline /\ id \notin DOMAIN Challenges'
             /\ funds'.free[Treasury] = funds.free[Treasury] + HeldStake(p) - HeldStake(p)'
          \/ /\ Providers[p].deregister_at # None
             /\ now >= Providers[p].deregister_at
             /\ OpenAgainst(p) = {}
             /\ \A b \in BucketIds : StorageAgreements[b][p] = None]_vars

\* primary_providers has no duplicates and lists exactly the providers with a
\* Primary agreement, every agreement is on an existing bucket with a
\* registered provider, and the snapshot has one signer bit per primary,
\* through every way of adding and removing providers.
PrimariesMatchAgreements ==
    \A b \in BucketIds :
        /\ Buckets[b] = None => \A p \in Accounts : StorageAgreements[b][p] = None
        /\ \A p \in Accounts : StorageAgreements[b][p] # None => Providers[p] # None
        /\ Buckets[b] # None =>
              /\ \A p \in Accounts :
                    Cardinality(Position(Buckets[b], p)) =
                        IF /\ StorageAgreements[b][p] # None
                           /\ StorageAgreements[b][p].role = "Primary" THEN 1 ELSE 0
              /\ Buckets[b].snapshot # None =>
                    Len(Buckets[b].snapshot.primary_signers) =
                        Len(Buckets[b].primary_providers)

\* A signature stays with the provider that gave it: when a step changes a
\* bucket's primaries, the primaries that stay are liable for the snapshot
\* exactly if they were before, and one that joins is not.
SignerBitsFollowProviders ==
    [][\A b \in BucketIds :
          (/\ Buckets[b] # None /\ Buckets'[b] # None
           /\ Buckets'[b].primary_providers # Buckets[b].primary_providers) =>
              \A p \in Accounts :
                  IsPrimary(Buckets'[b], p) =>
                      SignedSnapshot(Buckets'[b], p) = SignedSnapshot(Buckets[b], p)]_vars

\* A bucket always has an admin, and MemberBuckets is the exact reverse index
\* of bucket membership (set_member, remove_member, delete_bucket).
MembershipIndexExact ==
    /\ \A b \in BucketIds : Buckets[b] # None => Admins(b) # {}
    /\ \A a \in Accounts :
          MemberBuckets[a] = {b \in BucketIds : Buckets[b] # None /\ IsMember(a, b)}

\* Once frozen, a bucket's history cannot be cut: freeze_bucket pins the start
\* of the snapshot and every later canonical snapshot keeps it, until the
\* bucket itself is deleted.
FrozenPinned ==
    \A b \in BucketIds :
        Buckets[b] # None /\ Buckets[b].frozen_start_seq # None =>
            /\ Buckets[b].snapshot # None
            /\ Buckets[b].snapshot.commitment.start_seq = Buckets[b].frozen_start_seq

\* A challenge does not stay open for ever: every challenge of a deadline is
\* answered, or slashed after it, even if the provider was slashed for another
\* one before.
ChallengeEventuallyCloses ==
    \A d \in Deadlines :
        (\E id \in DOMAIN Challenges : id.deadline = d)
            ~> (\A id \in DOMAIN Challenges : id.deadline # d)

\* Nothing blocks an announced exit for ever: the provider gets its remaining
\* stake back, unless it cancels.
ExitEventuallyCompletes ==
    \A p \in Accounts :
        (Providers[p] # None /\ Providers[p].deregister_at # None)
            ~> (Providers[p] = None \/ Providers[p].deregister_at = None)

\* Escrow is not stranded: an agreement that is not extended past its expiry is
\* closed, by its owner, a bucket admin, anyone (remove_slashed) or the provider's
\* own claim, even if challenges delay it.  An agreement that is extended again
\* and again may live for ever (the "permissionless persistence" of
\* extend_agreement).
AgreementEventuallyCloses ==
    \A b \in BucketIds, p \in Accounts, e \in 0 .. MaxBlock :
        (StorageAgreements[b][p] # None /\ StorageAgreements[b][p].expires_at = e)
            ~> (StorageAgreements[b][p] = None \/ StorageAgreements[b][p].expires_at # e)

=============================================================================
