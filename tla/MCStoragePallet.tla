-------------------------- MODULE MCStoragePallet --------------------------
(***************************************************************************)
(* Small instances of StoragePallet for TLC.  Every run uses the whole      *)
(* next-state relation; its configuration chooses the arguments callers     *)
(* pass (an empty set switches a call off), so each run explores one part   *)
(* of the pallet deeply.                                                    *)
(***************************************************************************)
EXTENDS TryState

CONSTANTS p1, p2, c1, s1

----------------------------------------------------------------------------
(* Settings, genesis and commitments                                        *)

Settings(price, capacity, sync_price) ==
    [DefaultSettings EXCEPT !.price_per_byte = price, !.max_capacity = capacity,
                            !.replica_sync_price = sync_price]

Genesis(p, stake) ==
    [account |-> p, stake |-> stake, settings |-> Settings(1, 0, None)]

OneProvider == {Genesis(p1, 4)}
TwoProviders == {Genesis(p1, 4), Genesis(p2, 4)}

ReplicaAndPrimary ==
    {[account |-> p1, stake |-> 4, settings |-> Settings(1, 0, 2)], Genesis(p2, 4)}

OneBucket == <<[admin |-> c1, min_providers |-> 1]>>
TwoBuckets == OneBucket \o OneBucket

Root(r, start, count) == [mmr_root |-> r, start_seq |-> start, leaf_count |-> count]
OneCommitment == {Root(1, 0, 1)}
TwoCommitments == {Root(1, 0, 2), Root(2, 1, 1)}
GrowingCommitments == {Root(1, 0, 1), Root(2, 0, 2)}

NoPrimes == <<>>
OnePrime == <<1>>

Pay == [kind |-> "Pay", burn_percent |-> 0]
Burn(n) == [kind |-> "Burn", burn_percent |-> n]
OnlyPay == {Pay}
OnlyBurn == {Burn(50)}

----------------------------------------------------------------------------
(* Quotes                                                                   *)

PrimaryQuote(p, owner, target, bytes, duration, nonce) ==
    [provider |-> p, kind |-> "Primary", owner |-> owner, bucket |-> target,
     max_bytes |-> bytes, price_per_byte |-> 1, duration |-> duration,
     nonce |-> nonce, valid_until |-> 2, sync_balance |-> 0, sync_price |-> 0,
     min_sync_interval |-> 0]

ReplicaQuote(p, owner, target, duration, nonce) ==
    [PrimaryQuote(p, owner, target, 1, duration, nonce) EXCEPT
        !.kind = "Replica", !.sync_balance = 3, !.sync_price = 2,
        !.min_sync_interval = 1]

\* A quote that must be redeemed in the first block.
AtOnce(q) == [q EXCEPT !.valid_until = 0]

\* One provider on two buckets.
LiabilityQuotes == {AtOnce(PrimaryQuote(p1, c1, 0, 1, 2, 0)),
                    AtOnce(PrimaryQuote(p1, c1, 1, 1, 2, 1))}

\* One provider on one bucket, then on it again.
RejoinQuotes == {PrimaryQuote(p1, c1, 0, 1, 2, 0), PrimaryQuote(p1, c1, 0, 1, 1, 1)}

\* Two agreements of one owner with one provider, whose escrow shares a hold.
EscrowQuotes == {PrimaryQuote(p1, c1, 0, 1, 3, 0), PrimaryQuote(p1, c1, None, 1, 2, 1)}

\* Two providers join one bucket, and the first may come back later.
ChurnQuotes == {AtOnce(PrimaryQuote(p1, c1, 0, 1, 1, 0)),
                AtOnce(PrimaryQuote(p2, c1, 0, 1, 1, 1)),
                PrimaryQuote(p1, c1, 0, 1, 1, 2)}

\* A primary of the admin's and a replica the stranger funds.
PairQuotes(duration) == {AtOnce(PrimaryQuote(p2, c1, 0, 1, duration, 0)),
                         AtOnce(ReplicaQuote(p1, s1, 0, duration, 0))}
ReplicaQuotes == PairQuotes(2)
SyncQuotes == PairQuotes(3)

Prices == {Settings(1, 0, None), Settings(2, 0, None)}

----------------------------------------------------------------------------
(* Balances                                                                 *)

Balances(provider, client, stranger) ==
    [a \in Accounts |-> CASE a \in {p1, p2} -> provider
                          [] a = c1 -> client
                          [] OTHER -> stranger]

EscrowEndowment == Balances(5, 13, 2)
ChurnEndowment == Balances(5, 12, 0)
ReplicaEndowment == Balances(5, 5, 8)
SyncEndowment == Balances(5, 6, 9)
LiabilityEndowment == Balances(6, 15, 0)
RejoinEndowment == Balances(7, 9, 0)

=============================================================================
