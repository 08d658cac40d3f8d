--------------------------- MODULE ChallengeCalls --------------------------
(***************************************************************************)
(* Challenges: impls/challenges.rs and the challenge section of lib.rs.     *)
(* Whether a provider can produce a chunk proof is its own affair: a valid  *)
(* Proof or ChunkOutOfRange is an answer it may or may not send.            *)
(***************************************************************************)
EXTENDS PalletState

Expiry == now + ChallengeTimeout

AllowedToChallenge(challenger, b, p) ==
    Buckets[b].visibility = "Private" /\ StorageAgreements[b][p].role = "Primary"
        => is_authorized_for_private(challenger, b)

OpenAtDeadline(deadline) ==
    Cardinality({id \in DOMAIN Challenges : id.deadline = deadline})

\* An off-by-one in the cap, in the mutant.
HasRoomForOneMore(deadline) == NextChallengeIndex[deadline] <= MaxChallengesPerDeadline

HasRoom(deadline) == NextChallengeIndex[deadline] < MaxChallengesPerDeadline

\* The per-deadline counter is never decremented, so an id is never reused.
AllocateIndex(deadline) == NextChallengeIndex[deadline]

\* Common to the three ways to challenge; the bound keeps the deadline inside
\* the modelled time.
create_challenge(challenger, b, p, commitment, leaf_index) ==
    /\ challenger # p
    /\ leaf_index < commitment.leaf_count
    /\ AllowedToChallenge(challenger, b, p)
    /\ CanHold(funds, challenger, ChallengeDeposit)
    /\ HasRoom(Expiry)
    /\ Expiry < MaxBlock
    /\ funds' = Hold(funds, "ChallengeDeposit", challenger, ChallengeDeposit)
    /\ LET id == [deadline |-> Expiry, index |-> AllocateIndex(Expiry)]
           challenge ==
              [bucket_id |-> b, provider |-> p, challenger |-> challenger,
               commitment |-> commitment, leaf_index |-> leaf_index,
               authorized |-> is_authorized(challenger, b), created_at |-> now]
       IN  Challenges' = [x \in DOMAIN Challenges \cup {id} |->
                             IF x = id THEN challenge ELSE Challenges[x]]
    /\ NextChallengeIndex' = [NextChallengeIndex EXCEPT ![Expiry] = @ + 1]
    /\ PendingChallenges' = [PendingChallenges EXCEPT ![p] = @ + 1]
    /\ PendingChallengesByBucket' = [PendingChallengesByBucket EXCEPT ![b][p] = @ + 1]
    /\ UNCHANGED <<now, Providers, StorageAgreements, Buckets, indexVars>>

\* A challenge opens only against a live agreement.
Live(b, p) ==
    /\ Buckets[b] # None
    /\ StorageAgreements[b][p] # None
    /\ now < StorageAgreements[b][p].expires_at

challenge_checkpoint(who, b, p, leaf_index) ==
    /\ Live(b, p)
    /\ SignedSnapshot(Buckets[b], p)
    /\ create_challenge(who, b, p, Buckets[b].snapshot.commitment, leaf_index)

\* commitment: one the provider signed off chain for this bucket, at any time.
challenge_offchain(who, b, p, commitment, leaf_index) ==
    /\ Live(b, p)
    /\ create_challenge(who, b, p, commitment, leaf_index)

challenge_replica(who, b, p, leaf_index) ==
    /\ Live(b, p)
    /\ StorageAgreements[b][p].role = "Replica"
    /\ StorageAgreements[b][p].last_sync # None
    /\ create_challenge(who, b, p, StorageAgreements[b][p].last_sync.commitment,
                        leaf_index)

----------------------------------------------------------------------------
(* Resolution                                                               *)

DecrementProviderOnly(c) ==
    /\ PendingChallenges' =
          [PendingChallenges EXCEPT ![c.provider] = saturating_sub(@, 1)]
    /\ UNCHANGED PendingChallengesByBucket

DecrementBucketOnly(c) ==
    /\ PendingChallengesByBucket' =
          [PendingChallengesByBucket EXCEPT
              ![c.bucket_id][c.provider] = saturating_sub(@, 1)]
    /\ UNCHANGED PendingChallenges

decrement_pending(c) ==
    /\ PendingChallenges' =
          [PendingChallenges EXCEPT ![c.provider] = saturating_sub(@, 1)]
    /\ PendingChallengesByBucket' =
          [PendingChallengesByBucket EXCEPT
              ![c.bucket_id][c.provider] = saturating_sub(@, 1)]

TakeChallenge(id) ==
    Challenges' = [x \in DOMAIN Challenges \ {id} |-> Challenges[x]]

challenged_seq(c) == c.commitment.start_seq + c.leaf_index

contains_seq(commitment, seq) ==
    /\ seq >= commitment.start_seq
    /\ seq < commitment.start_seq + commitment.leaf_count

responder_is_primary(c) ==
    /\ StorageAgreements[c.bucket_id][c.provider] # None
    /\ StorageAgreements[c.bucket_id][c.provider].role = "Primary"

\* A deletion an admin of the bucket signed.
DeletedDefence(c) ==
    /\ Admins(c.bucket_id) # {}
    /\ responder_is_primary(c)
    /\ \E new_start_seq \in DeletionSeqs : challenged_seq(c) < new_start_seq

\* A newer canonical snapshot still covers the challenged leaf.
SupersededDefence(c) ==
    LET snapshot == Buckets[c.bucket_id].snapshot IN
    /\ responder_is_primary(c)
    /\ snapshot # None
    /\ c.commitment.mmr_root # snapshot.commitment.mmr_root
    /\ contains_seq(snapshot.commitment, challenged_seq(c))

ResponseKinds == {"Proof", "ChunkOutOfRange", "Deleted", "Superseded"}

ValidResponse(c, response) ==
    /\ response = "Deleted" => DeletedDefence(c)
    /\ response = "Superseded" => SupersededDefence(c)

\* The share of the deposit the challenger pays for the answer.
ChallengerPercent(c) ==
    LET response_time == now - c.created_at IN
    IF ~c.authorized THEN 100
    ELSE IF response_time <= 1 THEN 90
    ELSE IF response_time <= 5 THEN 80
    ELSE IF response_time <= 24 THEN 70
    ELSE IF response_time <= 95 THEN 60
    ELSE 50

respond_to_challenge(who, id, response) ==
    /\ id \in DOMAIN Challenges
    /\ LET c == Challenges[id] IN
       /\ c.provider = who
       /\ now <= id.deadline
       /\ Buckets[c.bucket_id] # None
       /\ ValidResponse(c, response)
       /\ decrement_pending(c)
       /\ funds' = settle_challenge_deposit(funds, c.challenger, c.provider,
                       ChallengeDeposit,
                       (ChallengeDeposit * ChallengerPercent(c)) \div 100)
    /\ TakeChallenge(id)
    /\ UNCHANGED <<now, Providers, StorageAgreements, Buckets, NextChallengeIndex,
                   indexVars>>

\* The whole stake goes to the treasury and the deposit back to the
\* challenger; nothing at all happens when the provider is gone.
slash_provider_for_failed_challenge(c) ==
    IF Providers[c.provider] = None THEN UNCHANGED <<Providers, funds>>
    ELSE LET p == c.provider
             slashed == BestEffort(funds, "ProviderStake", p, Providers[p].stake)
         IN  /\ funds' = ReleaseChallengeDeposit(
                    SlashStakeToTreasury(funds, p, Providers[p].stake),
                    c.challenger, ChallengeDeposit)
             /\ Providers' = [Providers EXCEPT ![p].stake = saturating_sub(@, slashed)]

ExpiredOnDeadline(id) == now >= id.deadline

Expired(id) == now > id.deadline

ResolveUnlessSlashed(id) ==
    /\ id \in DOMAIN Challenges
    /\ Providers[Challenges[id].provider].stake > 0
    /\ Expired(id)
    /\ TakeChallenge(id)
    /\ NextChallengeIndex' = [NextChallengeIndex EXCEPT ![id.deadline] = 0]
    /\ decrement_pending(Challenges[id])
    /\ slash_provider_for_failed_challenge(Challenges[id])
    /\ UNCHANGED <<now, StorageAgreements, Buckets, indexVars>>

\* Permissionless.  The deadline's index counter is dropped with the first
\* resolution: no new challenge can get a deadline in the past.
resolve_expired_challenge(id) ==
    /\ id \in DOMAIN Challenges
    /\ Expired(id)
    /\ TakeChallenge(id)
    /\ NextChallengeIndex' = [NextChallengeIndex EXCEPT ![id.deadline] = 0]
    /\ decrement_pending(Challenges[id])
    /\ slash_provider_for_failed_challenge(Challenges[id])
    /\ UNCHANGED <<now, StorageAgreements, Buckets, indexVars>>

=============================================================================
