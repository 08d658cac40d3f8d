--------------------------- MODULE AgreementCalls --------------------------
(***************************************************************************)
(* Storage agreements from the redemption of a signed quote to settlement,  *)
(* and the sync payments of replicas: impls/agreements.rs and the calls of  *)
(* lib.rs that use it.  Checked arithmetic that overflows is an error in    *)
(* the code; the amounts here stay far below the width of a balance.        *)
(***************************************************************************)
EXTENDS ProviderCalls, BucketCalls, SequencesExt

validate_duration(settings, duration) ==
    duration \in settings.min_duration .. settings.max_duration

calculate_payment(price_per_byte, max_bytes, duration) ==
    price_per_byte * max_bytes * duration

\* The model's time must outlast the owner's settlement window.
ExpiresInModel(expires_at) == expires_at + SettlementTimeout < MaxBlock

----------------------------------------------------------------------------
(* Redeeming a quote                                                        *)

validate_terms(owner, q, target) ==
    /\ q.owner = owner
    /\ q.bucket = target
    /\ q.max_bytes > 0
    /\ q.valid_until \in now .. now + RequestTimeout

check_capacity(provider, q) ==
    /\ validate_duration(provider.settings, q.duration)
    /\ q.max_bytes >= provider.settings.min_agreement_bytes
    /\ provider.settings.max_capacity > 0 =>
          provider.committed_bytes + q.max_bytes <= provider.settings.max_capacity
    /\ provider.stake >= MinStakePerByte * (provider.committed_bytes + q.max_bytes)

Payment(q) == calculate_payment(q.price_per_byte, q.max_bytes, q.duration)
TotalHold(q) == Payment(q) + q.sync_balance

\* accept_quote up to the hold, which each caller makes together with the
\* storage deposits; its one write besides the money is the owner's nonce.
accept_quote(owner, q, kind, target) ==
    /\ validate_terms(owner, q, target)
    /\ target # None => /\ Buckets[target] # None
                        /\ StorageAgreements[target][q.provider] = None
    /\ q.kind = kind
    /\ Providers[q.provider] # None
    /\ q.nonce = AgreementNonces[owner]
    /\ ensure_provider_active(Providers[q.provider])
    /\ kind = "Primary" => Providers[q.provider].settings.accepting_primary
    /\ kind = "Replica" => Providers[q.provider].settings.replica_sync_price # None
    /\ check_capacity(Providers[q.provider], q)
    /\ ExpiresInModel(now + q.duration)
    /\ AgreementNonces' = [AgreementNonces EXCEPT ![owner] = @ + 1]

NewAgreement(q) ==
    [owner |-> q.owner, depositor |-> q.owner, max_bytes |-> q.max_bytes,
     payment_locked |-> Payment(q), price_per_byte |-> q.price_per_byte,
     expires_at |-> now + q.duration, extensions_blocked |-> FALSE,
     started_at |-> now, role |-> q.kind,
     sync_balance |-> q.sync_balance, sync_price |-> q.sync_price,
     min_sync_interval |-> q.min_sync_interval, last_sync |-> None]

\* insert_agreement, with the payment's hold and all storage deposits
\* (tickets of them) the call takes from the owner.
insert_agreement(b, q, tickets) ==
    /\ CanHold(funds, q.owner, TotalHold(q) + tickets * StorageDeposit)
    /\ funds' = Hold(Hold(funds, "AgreementPayment", q.owner, TotalHold(q)),
                     "StorageDeposit", q.owner, tickets * StorageDeposit)
    /\ Providers' = [Providers EXCEPT ![q.provider].committed_bytes = @ + q.max_bytes]
    /\ StorageAgreements' = [StorageAgreements EXCEPT ![b][q.provider] = NewAgreement(q)]

create_bucket_with_primary(who, q, visibility) ==
    /\ accept_quote(who, q, "Primary", None)
    /\ CanCreateBucket(who, 1)
    /\ MaxPrimaryProviders >= 1
    /\ CreateBucketInternal(who, 1, <<q.provider>>, visibility)
    /\ insert_agreement(NextBucketId, q, 3)
    /\ UNCHANGED <<now, challengeVars>>

\* The new primary has not signed the current snapshot.
AppendUnsigned(snapshot) ==
    IF snapshot = None THEN None
    ELSE [snapshot EXCEPT !.primary_signers = Append(@, FALSE)]

AppendPrimary(bucket, p) ==
    [bucket EXCEPT !.primary_providers = Append(@, p), !.snapshot = AppendUnsigned(@)]

add_primary_provider(who, b, q) ==
    /\ Buckets[b] # None
    /\ IsAdmin(who, b)
    /\ Len(Buckets[b].primary_providers) < MaxPrimaryProviders
    /\ accept_quote(who, q, "Primary", b)
    /\ Buckets' = [Buckets EXCEPT ![b] = AppendPrimary(@, q.provider)]
    /\ insert_agreement(b, q, 1)
    /\ UNCHANGED <<now, challengeVars, NextBucketId, MemberBuckets>>

add_replica_provider(who, b, q) ==
    /\ accept_quote(who, q, "Replica", b)
    /\ insert_agreement(b, q, 1)
    /\ UNCHANGED <<now, Buckets, challengeVars, NextBucketId, MemberBuckets>>

----------------------------------------------------------------------------
(* Closing an agreement                                                     *)

FirstPosition(bucket, p) ==
    CHOOSE i \in Position(bucket, p) : \A j \in Position(bucket, p) : i <= j

KeepSignerBit(snapshot, pos) == snapshot

DropLastSignerBit(snapshot, pos) ==
    IF snapshot = None THEN None
    ELSE [snapshot EXCEPT !.primary_signers = SubSeq(@, 1, Len(@) - 1)]

\* The bit of the primary at pos leaves the signer bits.
RemoveSignerBit(snapshot, pos) ==
    IF snapshot # None /\ pos \in DOMAIN snapshot.primary_signers
    THEN [snapshot EXCEPT !.primary_signers = RemoveAt(@, pos)]
    ELSE snapshot

remove_primary_from_bucket(bucket, p) ==
    IF ~IsPrimary(bucket, p) THEN bucket
    ELSE [bucket EXCEPT
            !.primary_providers = RemoveAt(@, FirstPosition(bucket, p)),
            !.snapshot = RemoveSignerBit(@, FirstPosition(bucket, p))]

KeepBytes(provider, agreement) == provider

FreeAllBytes(provider, agreement) == [provider EXCEPT !.committed_bytes = 0]

FreeBytes(provider, agreement) ==
    [provider EXCEPT !.committed_bytes = saturating_sub(@, agreement.max_bytes)]

\* What finalize_agreement and remove_slashed share: the provider's bytes,
\* the primary's place in the bucket, and remove_agreement.  The deposit
\* ticket is dropped from f, the funds after the escrow was paid out.
CloseAgreement(b, p, f) ==
    LET agreement == StorageAgreements[b][p] IN
    /\ Providers' = [Providers EXCEPT ![p] =
                        IF @ = None THEN None ELSE FreeBytes(@, agreement)]
    /\ Buckets' = [Buckets EXCEPT ![b] =
                      IF agreement.role = "Primary" /\ @ # None
                      THEN remove_primary_from_bucket(@, p) ELSE @]
    /\ StorageAgreements' = [StorageAgreements EXCEPT ![b][p] = None]
    /\ funds' = DropDeposit(f, agreement.depositor)
    /\ UNCHANGED <<now, challengeVars, indexVars>>

BurnAmount(agreement, action) ==
    IF action.kind = "Pay" THEN 0
    ELSE (agreement.payment_locked * AtMost(action.burn_percent, 100)) \div 100

FinalizeKeepingSyncBalance(b, p, action) ==
    LET agreement == StorageAgreements[b][p] IN
    CloseAgreement(b, p, Settle(funds, "AgreementPayment", agreement.owner, p,
                                agreement.payment_locked))

\* Pay the provider, burn the rest, return a replica's unspent sync balance.
\* The three exact movements succeed together when the hold has the escrow.
finalize_agreement(b, p, action) ==
    LET agreement == StorageAgreements[b][p]
        owner == agreement.owner
        to_burn == BurnAmount(agreement, action)
        to_provider == saturating_sub(agreement.payment_locked, to_burn)
        paid == Settle(funds, "AgreementPayment", owner, p, to_provider)
        burned == Settle(paid, "AgreementPayment", owner, Treasury, to_burn)
    IN  /\ CanRelease(funds, "AgreementPayment", owner, escrow(agreement))
        /\ CloseAgreement(b, p, Release(burned, "AgreementPayment", owner,
                                        agreement.sync_balance))

IgnoreChallenges(b, p) == TRUE

\* No challenge against the provider on this bucket is open.
Unchallenged(b, p) == PendingChallengesByBucket[b][p] = 0

\* Before expiry: a bucket admin, on a primary.  After it: the owner, inside
\* the settlement window.
end_agreement(who, b, p, action) ==
    /\ StorageAgreements[b][p] # None
    /\ Unchallenged(b, p)
    /\ LET agreement == StorageAgreements[b][p] IN
       \/ /\ now < agreement.expires_at
          /\ Buckets[b] # None
          /\ IsAdmin(who, b)
          /\ agreement.role = "Primary"
       \/ /\ now >= agreement.expires_at
          /\ agreement.owner = who
          /\ now <= agreement.expires_at + SettlementTimeout
    /\ finalize_agreement(b, p, action)

claim_expired_agreement(who, b) ==
    /\ StorageAgreements[b][who] # None
    /\ Unchallenged(b, who)
    /\ now > StorageAgreements[b][who].expires_at + SettlementTimeout
    /\ finalize_agreement(b, who, [kind |-> "Pay", burn_percent |-> 0])

\* Anyone may clear a slashed provider; the whole escrow returns to the owner.
remove_slashed(b, p) ==
    /\ Providers[p] # None
    /\ Providers[p].stake = 0
    /\ Unchallenged(b, p)
    /\ StorageAgreements[b][p] # None
    /\ LET agreement == StorageAgreements[b][p] IN
       /\ CanRelease(funds, "AgreementPayment", agreement.owner, escrow(agreement))
       /\ CloseAgreement(b, p, Release(funds, "AgreementPayment", agreement.owner,
                                       escrow(agreement)))

----------------------------------------------------------------------------
(* Changing a live agreement                                                *)

Enlarged(agreement, additional_bytes, payment) ==
    [agreement EXCEPT !.max_bytes = @ + additional_bytes, !.payment_locked = @ + payment]

top_up_agreement(who, b, p, additional_bytes, max_payment) ==
    /\ Providers[p] # None
    /\ ensure_provider_active(Providers[p])
    /\ StorageAgreements[b][p] # None
    /\ LET agreement == StorageAgreements[b][p]
           payment == calculate_payment(Providers[p].settings.price_per_byte,
                          additional_bytes, agreement.expires_at - now)
       IN  /\ agreement.owner = who
           /\ now < agreement.expires_at
           /\ payment <= max_payment
           /\ CanHold(funds, who, payment)
           /\ funds' = HoldPaymentFrom(funds, who, agreement.owner, payment)
           /\ StorageAgreements' = [StorageAgreements EXCEPT
                                       ![b][p] = Enlarged(@, additional_bytes, payment)]
           /\ Providers' = [Providers EXCEPT ![p].committed_bytes = @ + additional_bytes]
    /\ UNCHANGED <<now, Buckets, challengeVars, indexVars>>

transfer_agreement_ownership(who, b, p, new_owner) ==
    /\ new_owner # who
    /\ StorageAgreements[b][p] # None
    /\ LET agreement == StorageAgreements[b][p] IN
       /\ agreement.owner = who
       /\ CanRelease(funds, "AgreementPayment", who, escrow(agreement))
       /\ funds' = TransferPaymentOnHold(funds, who, new_owner, escrow(agreement))
    /\ StorageAgreements' = [StorageAgreements EXCEPT ![b][p].owner = new_owner]
    /\ UNCHANGED <<now, Providers, Buckets, challengeVars, indexVars>>

UncappedElapsedPayment(agreement) ==
    calculate_payment(agreement.price_per_byte, agreement.max_bytes,
                      now - agreement.started_at)

\* The elapsed period at the old rate, capped at this agreement's own escrow.
ElapsedPayment(agreement) ==
    AtMost(calculate_payment(agreement.price_per_byte, agreement.max_bytes,
                             saturating_sub(now, agreement.started_at)),
           agreement.payment_locked)

\* The agreement restarted now at the provider's current prices.
Extended(agreement, settings, additional_duration, payment) ==
    [agreement EXCEPT
        !.expires_at = now + additional_duration,
        !.started_at = now,
        !.price_per_byte = settings.price_per_byte,
        !.sync_price = IF agreement.role = "Replica"
                       THEN settings.replica_sync_price ELSE @,
        !.payment_locked = payment]

\* Pay the provider for the elapsed period, then lock the extension's price
\* from the caller on the owner.
extend_agreement(who, b, p, additional_duration, max_payment) ==
    /\ Providers[p] # None
    /\ ensure_provider_active(Providers[p])
    /\ Providers[p].settings.accepting_extensions
    /\ StorageAgreements[b][p] # None
    /\ LET settings == Providers[p].settings
           agreement == StorageAgreements[b][p]
           elapsed_payment == ElapsedPayment(agreement)
           settled == Settle(funds, "AgreementPayment", agreement.owner, p,
                             elapsed_payment)
           extension_payment == calculate_payment(settings.price_per_byte,
                                    agreement.max_bytes, additional_duration)
       IN  /\ ~agreement.extensions_blocked
           /\ validate_duration(settings, additional_duration)
           /\ settings.price_per_byte > agreement.price_per_byte =>
                 agreement.owner = who
           /\ now < agreement.expires_at
           /\ CanRelease(funds, "AgreementPayment", agreement.owner, elapsed_payment)
           /\ extension_payment <= max_payment
           /\ CanHold(settled, who, extension_payment)
           /\ agreement.role = "Replica" => settings.replica_sync_price # None
           /\ ExpiresInModel(now + additional_duration)
           /\ funds' = HoldPaymentFrom(settled, who, agreement.owner, extension_payment)
           /\ StorageAgreements' = [StorageAgreements EXCEPT ![b][p] =
                 Extended(@, settings, additional_duration,
                          saturating_sub(@.payment_locked, elapsed_payment)
                              + extension_payment)]
    /\ UNCHANGED <<now, Providers, Buckets, challengeVars, indexVars>>

----------------------------------------------------------------------------
(* Replica sync                                                             *)

\* find_matching_root: 0 is the current snapshot, i > 0 the i-th historical
\* root.  None where nothing was written yet.
RootAt(bucket, i) ==
    IF i > 0 THEN bucket.historical_roots[i].commitment
    ELSE IF bucket.snapshot = None THEN None ELSE bucket.snapshot.commitment

Synced(agreement, commitment) ==
    [agreement EXCEPT
        !.sync_balance = saturating_sub(@, agreement.sync_price),
        !.last_sync = [commitment |-> commitment, block |-> now]]

\* i: the position the replica's signed roots match.
confirm_replica_sync(who, b, i) ==
    /\ Buckets[b] # None
    /\ StorageAgreements[b][who] # None
    /\ LET agreement == StorageAgreements[b][who]
           matched == RootAt(Buckets[b], i)
       IN  /\ agreement.role = "Replica"
           /\ now < agreement.expires_at
           /\ matched # None
           /\ agreement.last_sync # None =>
                 /\ now >= agreement.last_sync.block + agreement.min_sync_interval
                 /\ matched.mmr_root # agreement.last_sync.commitment.mmr_root
           /\ agreement.sync_balance >= agreement.sync_price
           /\ CanRelease(funds, "AgreementPayment", agreement.owner, agreement.sync_price)
           /\ funds' = Settle(funds, "AgreementPayment", agreement.owner, who,
                              agreement.sync_price)
           /\ StorageAgreements' = [StorageAgreements EXCEPT ![b][who] = Synced(@, matched)]
    /\ UNCHANGED <<now, Providers, Buckets, challengeVars, indexVars>>

top_up_replica_sync_balance(who, b, p, amount) ==
    /\ StorageAgreements[b][p] # None
    /\ StorageAgreements[b][p].role = "Replica"
    /\ CanHold(funds, who, amount)
    /\ funds' = HoldPaymentFrom(funds, who, StorageAgreements[b][p].owner, amount)
    /\ StorageAgreements' = [StorageAgreements EXCEPT ![b][p].sync_balance = @ + amount]
    /\ UNCHANGED <<now, Providers, Buckets, challengeVars, indexVars>>

=============================================================================
