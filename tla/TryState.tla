------------------------------ MODULE TryState -----------------------------
(***************************************************************************)
(* The bookkeeping invariants that impls/try_state.rs audits by summing     *)
(* over whole storage maps.                                                 *)
(***************************************************************************)
EXTENDS StoragePallet

\* Every place an agreement can be in.  The sums are taken over all places
\* and all buckets; an empty one adds nothing.
Slots == BucketIds \X Accounts

EscrowIn(agreement, a) ==
    IF agreement # None /\ agreement.owner = a THEN escrow(agreement) ELSE 0

Escrows(a) == [x \in Slots |-> EscrowIn(StorageAgreements[x[1]][x[2]], a)]

EscrowByOwner(a) == SumFunction(Escrows(a))

DepositsByChallenger(a) ==
    ChallengeDeposit
        * Cardinality({id \in DOMAIN Challenges : Challenges[id].challenger = a})

\* The storage deposits a has paid: for its provider record, for buckets and
\* their members, and for agreements.
ProviderTicket(a) == IF Providers[a] = None THEN 0 ELSE 1

TicketsIn(bucket, a) == IF bucket = None THEN 0 ELSE BucketTickets(bucket, a)

TicketOn(agreement, a) == IF agreement # None /\ agreement.depositor = a THEN 1 ELSE 0

BucketDeposits(a) == [b \in BucketIds |-> TicketsIn(Buckets[b], a)]

AgreementDeposits(a) == [x \in Slots |-> TicketOn(StorageAgreements[x[1]][x[2]], a)]

StorageTickets(a) ==
    ProviderTicket(a) + SumFunction(BucketDeposits(a)) + SumFunction(AgreementDeposits(a))

Bytes(p) ==
    [b \in BucketIds |-> IF StorageAgreements[b][p] = None THEN 0
                         ELSE StorageAgreements[b][p].max_bytes]

CommittedTo(p) == SumFunction(Bytes(p))

\* What the pallet records as immobilised is exactly what is held, on every
\* account and for every reason, so no settlement, refund or slash ever pays
\* out of another record's money or finds its own short.
HoldsBackBookkeeping ==
    \A a \in Accounts :
        /\ funds.held["ProviderStake"][a] =
              IF Providers[a] = None THEN 0 ELSE Providers[a].stake
        /\ funds.held["AgreementPayment"][a] = EscrowByOwner(a)
        /\ funds.held["ChallengeDeposit"][a] = DepositsByChallenger(a)
        /\ funds.held["StorageDeposit"][a] = StorageDeposit * StorageTickets(a)

\* What an account owns, free or on hold; the treasury has no holds.
HeldOn(f, a) == [r \in HoldReasons |-> f.held[r][a]]

Wealth(f) ==
    [a \in Accounts \cup {Treasury} |->
        f.free[a] + (IF a = Treasury THEN 0 ELSE SumFunction(HeldOn(f, a)))]

Issued ==
    [a \in Accounts \cup {Treasury} |-> IF a = Treasury THEN 0 ELSE Endowment[a]]

\* No call creates or destroys money: slashes and burns go to the treasury.
FundsConserved == SumFunction(Wealth(funds)) = SumFunction(Issued)

\* A provider's committed_bytes, which its capacity, its required stake and
\* its right to leave are computed from, is the sum of its agreements.
CommittedBytesExact ==
    \A p \in Accounts : Providers[p] # None =>
        Providers[p].committed_bytes = CommittedTo(p)

=============================================================================
