---------------------------- MODULE BucketCalls ----------------------------
(***************************************************************************)
(* Buckets, their members and their checkpoints: impls/buckets.rs,          *)
(* impls/members.rs, impls/checkpoints.rs and the calls of lib.rs that use  *)
(* them.  Which providers signed a commitment is an input; the signatures   *)
(* themselves are not modelled.                                             *)
(***************************************************************************)
EXTENDS PalletState

\* historical_roots starts as [(0, default); 6]; the default commitment is
\* the "no checkpoint has written yet" entry, here None.
NewBucket(admin, min_providers, primaries, visibility) ==
    [members |-> [a \in Accounts |->
        IF a = admin THEN [role |-> "Admin", depositor |-> admin] ELSE None],
     visibility |-> visibility,
     frozen_start_seq |-> None,
     min_providers |-> min_providers,
     primary_providers |-> primaries,
     snapshot |-> None,
     historical_roots |-> [i \in 1 .. Len(HISTORICAL_ROOT_PRIMES) |->
                              [quotient |-> 0, commitment |-> None]],
     creator |-> admin]

\* create_bucket_internal: what it requires of the state (the deposits of
\* the bucket and of its first member are held by the caller of this), and
\* what it writes besides the money.  NextBucketId is capped by the model.
CanCreateBucket(admin, min_providers) ==
    /\ min_providers \in 1 .. MaxPrimaryProviders
    /\ NextBucketId \in BucketIds
    /\ MaxMembers >= 1
    /\ Cardinality(MemberBuckets[admin]) < MaxBucketsPerMember

CreateBucketInternal(admin, min_providers, primaries, visibility) ==
    /\ Buckets' = [Buckets EXCEPT ![NextBucketId] =
                      NewBucket(admin, min_providers, primaries, visibility)]
    /\ NextBucketId' = NextBucketId + 1
    /\ MemberBuckets' = [MemberBuckets EXCEPT ![admin] = @ \cup {NextBucketId}]

create_bucket(who, min_providers, visibility) ==
    /\ CanCreateBucket(who, min_providers)
    /\ CanHold(funds, who, 2 * StorageDeposit)
    /\ CreateBucketInternal(who, min_providers, <<>>, visibility)
    /\ funds' = Hold(funds, "StorageDeposit", who, 2 * StorageDeposit)
    /\ UNCHANGED <<now, Providers, StorageAgreements, challengeVars, AgreementNonces>>

\* The storage-deposit tickets a bucket's records account for: one per member
\* entry, on the admin that added it, and the bucket's own, on its creator.
BucketTickets(bucket, a) ==
    Cardinality({m \in Accounts : /\ bucket.members[m] # None
                                  /\ bucket.members[m].depositor = a})
    + (IF bucket.creator = a THEN 1 ELSE 0)

ForgetOwnEntry(index, bucket, b) ==
    [index EXCEPT ![bucket.creator] = @ \ {b}]

\* remove_from_member_index, for every member of a bucket that goes away.
RemoveFromMemberIndexes(index, bucket, b) ==
    [a \in Accounts |-> IF bucket.members[a] # None THEN index[a] \ {b} ELSE index[a]]

delete_bucket(who, b) ==
    /\ Buckets[b] # None
    /\ IsAdmin(who, b)
    /\ \A p \in Accounts : StorageAgreements[b][p] = None
    /\ \A p \in Accounts : PendingChallengesByBucket[b][p] = 0
    /\ funds' = DropDeposits(funds, [a \in Accounts |-> BucketTickets(Buckets[b], a)])
    /\ MemberBuckets' = RemoveFromMemberIndexes(MemberBuckets, Buckets[b], b)
    /\ Buckets' = [Buckets EXCEPT ![b] = None]
    /\ UNCHANGED <<now, Providers, StorageAgreements, challengeVars, NextBucketId,
                   AgreementNonces>>

set_min_providers(who, b, min_providers) ==
    /\ Buckets[b] # None
    /\ IsAdmin(who, b)
    /\ min_providers \in 1 .. Len(Buckets[b].primary_providers)
    /\ Buckets' = [Buckets EXCEPT ![b].min_providers = min_providers]
    /\ UNCHANGED <<now, Providers, StorageAgreements, challengeVars, indexVars, funds>>

freeze_bucket(who, b) ==
    /\ Buckets[b] # None
    /\ IsAdmin(who, b)
    /\ Buckets[b].frozen_start_seq = None
    /\ Buckets[b].snapshot # None
    /\ Count(Buckets[b].snapshot.primary_signers) >= Quorum(Buckets[b])
    /\ Buckets' = [Buckets EXCEPT
          ![b].frozen_start_seq = Buckets[b].snapshot.commitment.start_seq]
    /\ UNCHANGED <<now, Providers, StorageAgreements, challengeVars, indexVars, funds>>

set_bucket_visibility(who, b, visibility) ==
    /\ Buckets[b] # None
    /\ IsAdmin(who, b)
    /\ Buckets' = [Buckets EXCEPT ![b].visibility = visibility]
    /\ UNCHANGED <<now, Providers, StorageAgreements, challengeVars, indexVars, funds>>

----------------------------------------------------------------------------
(* Members                                                                  *)

\* An admin leaves the role only by its own call, and never as the last one.
MayDemote(who, b, member) ==
    IsAdmin(member, b) => member = who /\ Cardinality(Admins(b)) > 1

\* set_member on an account that is already a member: only the role changes.
ChangeRole(who, b, member, role) ==
    /\ Buckets[b] # None
    /\ IsAdmin(who, b)
    /\ IsMember(member, b)
    /\ role # "Admin" => MayDemote(who, b, member)
    /\ Buckets' = [Buckets EXCEPT ![b].members[member].role = role]
    /\ UNCHANGED <<now, Providers, StorageAgreements, challengeVars, indexVars, funds>>

\* set_member on a new account: the caller pays the entry's deposit.
AddMember(who, b, member, role) ==
    /\ Buckets[b] # None
    /\ IsAdmin(who, b)
    /\ ~IsMember(member, b)
    /\ CanHold(funds, who, StorageDeposit)
    /\ Cardinality({a \in Accounts : IsMember(a, b)}) < MaxMembers
    /\ b \in MemberBuckets[member]
          \/ Cardinality(MemberBuckets[member]) < MaxBucketsPerMember
    /\ funds' = Hold(funds, "StorageDeposit", who, StorageDeposit)
    /\ Buckets' = [Buckets EXCEPT ![b].members[member] =
                      [role |-> role, depositor |-> who]]
    /\ MemberBuckets' = [MemberBuckets EXCEPT ![member] = @ \cup {b}]
    /\ UNCHANGED <<now, Providers, StorageAgreements, challengeVars, NextBucketId,
                   AgreementNonces>>

set_member(who, b, member, role) ==
    ChangeRole(who, b, member, role) \/ AddMember(who, b, member, role)

RemoveMemberRefundingCaller(who, b, member) ==
    /\ Buckets[b] # None
    /\ IsAdmin(who, b)
    /\ IsMember(member, b)
    /\ MayDemote(who, b, member)
    /\ funds' = DropDeposit(funds, who)
    /\ Buckets' = [Buckets EXCEPT ![b].members[member] = None]
    /\ MemberBuckets' = [MemberBuckets EXCEPT ![member] = @ \ {b}]
    /\ UNCHANGED <<now, Providers, StorageAgreements, challengeVars, NextBucketId,
                   AgreementNonces>>

remove_member(who, b, member) ==
    /\ Buckets[b] # None
    /\ IsAdmin(who, b)
    /\ IsMember(member, b)
    /\ MayDemote(who, b, member)
    /\ funds' = DropDeposit(funds, Buckets[b].members[member].depositor)
    /\ Buckets' = [Buckets EXCEPT ![b].members[member] = None]
    /\ MemberBuckets' = [MemberBuckets EXCEPT ![member] = @ \ {b}]
    /\ UNCHANGED <<now, Providers, StorageAgreements, challengeVars, NextBucketId,
                   AgreementNonces>>

----------------------------------------------------------------------------
(* Checkpoints                                                              *)

update_historical_roots(roots, block, commitment) ==
    [i \in DOMAIN roots |->
        LET quotient == block \div HISTORICAL_ROOT_PRIMES[i] IN
        IF quotient # roots[i].quotient
        THEN [quotient |-> quotient, commitment |-> commitment]
        ELSE roots[i]]

FrozenAllowsLater(bucket, commitment) ==
    bucket.frozen_start_seq # None => commitment.start_seq >= bucket.frozen_start_seq

\* A frozen bucket is append-only: start_seq is pinned.
FrozenAllows(bucket, commitment) ==
    bucket.frozen_start_seq # None => commitment.start_seq = bucket.frozen_start_seq

\* The bucket after a checkpoint whose signature bitfield is bits.
Checkpointed(bucket, commitment, bits) ==
    [bucket EXCEPT
        !.historical_roots = update_historical_roots(@, now, commitment),
        !.snapshot = [commitment |-> commitment, primary_signers |-> bits]]

\* signers: the primaries whose valid signature the call carries.
checkpoint(who, b, commitment, signers) ==
    /\ Buckets[b] # None
    /\ IsWriterOrAdmin(who, b)
    /\ FrozenAllows(Buckets[b], commitment)
    /\ \A p \in signers : IsPrimary(Buckets[b], p)
    /\ LET bits == [i \in DOMAIN Buckets[b].primary_providers |->
                       Buckets[b].primary_providers[i] \in signers]
       IN  /\ Count(bits) >= Quorum(Buckets[b])
           /\ Buckets' = [Buckets EXCEPT ![b] = Checkpointed(@, commitment, bits)]
    /\ UNCHANGED <<now, Providers, StorageAgreements, challengeVars, indexVars, funds>>

\* signers: the primaries whose late signature on the snapshot is added.
extend_checkpoint(who, b, signers) ==
    /\ Buckets[b] # None
    /\ IsWriterOrAdmin(who, b)
    /\ Buckets[b].snapshot # None
    /\ \A p \in signers :
          \E i \in Position(Buckets[b], p) :
             i \in DOMAIN Buckets[b].snapshot.primary_signers
    /\ Buckets' = [Buckets EXCEPT ![b].snapshot.primary_signers =
          [i \in DOMAIN @ |-> @[i] \/ Buckets[b].primary_providers[i] \in signers]]
    /\ UNCHANGED <<now, Providers, StorageAgreements, challengeVars, indexVars, funds>>

=============================================================================
