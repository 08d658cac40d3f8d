---------------------------- MODULE MoneyProofs ----------------------------
(***************************************************************************)
(* Money in the storage-provider pallet, for every configuration, genesis   *)
(* and set of accounts: none is created or destroyed, and what is on hold   *)
(* for a reason is, account by account, what the records of that reason add *)
(* up to.                                                                   *)
(***************************************************************************)
EXTENDS StoragePalletProofs

----------------------------------------------------------------------------
(* What the sums range over                                                 *)

Owners == Accounts \cup {Treasury}

\* Buckets, slots, owners and reasons are finitely many.
LEMMA Finite ==
    /\ IsFiniteSet(BucketIds) /\ IsFiniteSet(Slots)
    /\ IsFiniteSet(Owners) /\ IsFiniteSet(HoldReasons)
<1>1. IsFiniteSet(BucketIds) /\ IsFiniteSet(Accounts)
  BY BucketIdsFinite, DataAssumption
<1>2. IsFiniteSet(Slots)
  BY <1>1, FS_Product DEF Slots
<1>3. IsFiniteSet(Owners)
  BY <1>1, FS_AddElement DEF Owners
<1>4. IsFiniteSet(HoldReasons)
  <2>1. IsFiniteSet({"ProviderStake"})
    BY FS_Singleton
  <2>2. IsFiniteSet({"ProviderStake"} \cup {"AgreementPayment"})
    BY <2>1, FS_AddElement
  <2>3. IsFiniteSet(({"ProviderStake"} \cup {"AgreementPayment"}) \cup {"ChallengeDeposit"})
    BY <2>2, FS_AddElement
  <2>4. IsFiniteSet((({"ProviderStake"} \cup {"AgreementPayment"})
                       \cup {"ChallengeDeposit"}) \cup {"StorageDeposit"})
    BY <2>3, FS_AddElement
  <2>5. HoldReasons = (({"ProviderStake"} \cup {"AgreementPayment"})
                          \cup {"ChallengeDeposit"}) \cup {"StorageDeposit"}
    BY DEF HoldReasons
  <2> QED BY <2>4, <2>5
<1> QED BY <1>1, <1>2, <1>3, <1>4

----------------------------------------------------------------------------
(* Movements of money                                                       *)

Total(f) == SumFunction(Wealth(f))

\* What an account owns follows its free balance and the one hold that
\* changes.
LEMMA WealthChange ==
    ASSUME NEW f \in Funds, NEW g \in Funds, NEW r \in HoldReasons, NEW a \in Accounts,
           \A q \in HoldReasons : q # r => g.held[q][a] = f.held[q][a]
    PROVE  /\ Wealth(f)[a] \in Nat /\ Wealth(g)[a] \in Nat
           /\ Wealth(g)[a] = Wealth(f)[a] + (g.free[a] - f.free[a])
                                          + (g.held[r][a] - f.held[r][a])
<1>1. /\ HeldOn(f, a) \in [HoldReasons -> Nat] /\ HeldOn(g, a) \in [HoldReasons -> Nat]
      /\ HeldOn(f, a)[r] = f.held[r][a] /\ f.held[r][a] \in Nat /\ g.held[r][a] \in Nat
  BY DEF Funds, HeldOn
<1>2. HeldOn(g, a) = [HeldOn(f, a) EXCEPT ![r] = g.held[r][a]]
  BY DEF HeldOn
<1>3. /\ SumFunction(HeldOn(f, a)) \in Nat
      /\ HeldOn(f, a)[r] <= SumFunction(HeldOn(f, a))
      /\ SumFunction(HeldOn(g, a)) = SumFunction(HeldOn(f, a)) - f.held[r][a] + g.held[r][a]
  <2>1. /\ SumFunction(HeldOn(f, a)) \in Nat
        /\ HeldOn(f, a)[r] <= SumFunction(HeldOn(f, a))
        /\ SumFunction([HeldOn(f, a) EXCEPT ![r] = g.held[r][a]])
              = SumFunction(HeldOn(f, a)) - HeldOn(f, a)[r] + g.held[r][a]
    BY <1>1, Finite, SumUpdate
  <2> QED BY <1>1, <1>2, <2>1
<1>4. f.free[a] \in Nat /\ g.free[a] \in Nat
  BY DEF Funds
<1>5. /\ Wealth(f)[a] = f.free[a] + SumFunction(HeldOn(f, a))
      /\ Wealth(g)[a] = g.free[a] + SumFunction(HeldOn(g, a))
  BY DataAssumption DEF Wealth
<1> QED BY <1>1, <1>3, <1>4, <1>5

\* The treasury only has a free balance.
LEMMA TreasuryWealth ==
    ASSUME NEW f \in Funds
    PROVE  Wealth(f)[Treasury] = f.free[Treasury] /\ f.free[Treasury] \in Nat
<1>1. f.free[Treasury] \in Nat
  BY DEF Funds
<1>2. Wealth(f)[Treasury] = f.free[Treasury] + 0
  BY DEF Wealth
<1> QED BY <1>1, <1>2

\* What an owner has is a natural.
LEMMA WealthType ==
    ASSUME NEW f \in Funds
    PROVE  Wealth(f) \in [Owners -> Nat]
<1>1. ASSUME NEW a \in Accounts PROVE Wealth(f)[a] \in Nat
  <2>1. "ProviderStake" \in HoldReasons
    BY DEF HoldReasons
  <2> QED BY <2>1, WealthChange
<1>2. Wealth(f)[Treasury] \in Nat
  BY TreasuryWealth
<1>3. \A a \in Owners : Wealth(f)[a] \in Nat
  BY <1>1, <1>2 DEF Owners
<1>4. DOMAIN Wealth(f) = Owners /\ Wealth(f) = [a \in Owners |-> Wealth(f)[a]]
  BY DEF Wealth, Owners
<1> QED BY <1>3, <1>4

\* Nobody gets richer or poorer.
LEMMA TotalSame ==
    ASSUME NEW f \in Funds, NEW g \in Funds, \A a \in Owners : Wealth(g)[a] = Wealth(f)[a]
    PROVE  Total(g) = Total(f)
<1>1. Wealth(g) = Wealth(f)
  BY WealthType
<1> QED BY <1>1 DEF Total

\* One account gets poorer by what another gets richer.
LEMMA TotalMoved ==
    ASSUME NEW f \in Funds, NEW g \in Funds, NEW from \in Owners, NEW to \in Owners,
           from # to, NEW n \in Nat, n <= Wealth(f)[from],
           Wealth(g)[from] = Wealth(f)[from] - n,
           Wealth(g)[to] = Wealth(f)[to] + n,
           \A a \in Owners : a # from /\ a # to => Wealth(g)[a] = Wealth(f)[a]
    PROVE  Total(g) = Total(f)
<1>1. Wealth(f) \in [Owners -> Nat] /\ Wealth(g) \in [Owners -> Nat]
  BY WealthType
<1> DEFINE less == Wealth(f)[from] - n
           mid == [Wealth(f) EXCEPT ![from] = less]
           more == Wealth(f)[to] + n
<1>2. less \in Nat /\ more \in Nat /\ Wealth(f)[from] \in Nat /\ Wealth(f)[to] \in Nat
  BY <1>1
<1>3. mid \in [Owners -> Nat] /\ mid[to] = Wealth(f)[to]
  BY <1>1, <1>2
<1>4. Wealth(g) = [mid EXCEPT ![to] = more]
  BY <1>1, <1>2
<1> HIDE DEF mid
<1>5. SumFunction(mid) = SumFunction(Wealth(f)) - Wealth(f)[from] + less
  BY <1>1, <1>2, Finite, SumUpdate DEF mid
<1>6. SumFunction(Wealth(g)) = SumFunction(mid) - mid[to] + more
  <2>1. SumFunction([mid EXCEPT ![to] = more]) = SumFunction(mid) - mid[to] + more
    <3> HIDE DEF more
    <3> QED BY <1>2, <1>3, Finite, SumUpdate
  <2> QED BY <1>4, <2>1
<1>7. SumFunction(Wealth(f)) \in Nat
  BY <1>1, <1>2, Finite, SumUpdate
<1> QED BY <1>2, <1>3, <1>5, <1>6, <1>7 DEF Total

\* The same, where the two may be one.
Shifted(f, g, from, to, n) ==
    \A a \in Owners : Wealth(g)[a] = Wealth(f)[a] + (IF a = to THEN n ELSE 0)
                                                - (IF a = from THEN n ELSE 0)

\* Moving money between owners keeps the total.
LEMMA TotalShifted ==
    ASSUME NEW f \in Funds, NEW g \in Funds, NEW from \in Owners, NEW to \in Owners,
           NEW n \in Nat, Shifted(f, g, from, to, n)
    PROVE  Total(g) = Total(f)
<1>1. \A a \in Owners : Wealth(f)[a] \in Nat /\ Wealth(g)[a] \in Nat
  BY WealthType
<1>2. CASE to = from
  <2>1. \A a \in Owners : Wealth(g)[a] = Wealth(f)[a]
    BY <1>1, <1>2 DEF Shifted
  <2> QED BY <2>1, TotalSame
<1>3. CASE to # from
  <2>1. Wealth(g)[to] = Wealth(f)[to] + n /\ Wealth(g)[from] = Wealth(f)[from] - n
    BY <1>1, <1>3 DEF Shifted
  <2>2. \A a \in Owners : a # from /\ a # to => Wealth(g)[a] = Wealth(f)[a]
    BY <1>1 DEF Shifted
  <2>3. n <= Wealth(f)[from]
    BY <1>1, <2>1
  <2> QED BY <1>3, <2>1, <2>2, <2>3, TotalMoved
<1> QED BY <1>2, <1>3

\* g has the money of f, with n more (or, n negative, less) on hold for
\* reason r on who, and every other hold as before.
Moves(f, g, r, who, n) ==
    /\ g \in Funds
    /\ Total(g) = Total(f)
    /\ \A q \in HoldReasons, a \in Accounts :
          g.held[q][a] = IF q = r /\ a = who THEN f.held[q][a] + n ELSE f.held[q][a]

\* hold_stake, hold_payment, hold_challenge_deposit, a storage deposit.
LEMMA HoldMoves ==
    ASSUME NEW f \in Funds, NEW r \in HoldReasons, NEW who \in Accounts,
           NEW n \in Nat, CanHold(f, who, n)
    PROVE  /\ Moves(f, Hold(f, r, who, n), r, who, n)
           /\ Hold(f, r, who, n).free[who] = f.free[who] - n
<1> DEFINE g == Hold(f, r, who, n)
<1>1. g \in Funds
  BY HoldType
<1>2. /\ \A q \in HoldReasons, a \in Accounts :
            g.held[q][a] = IF q = r /\ a = who THEN f.held[q][a] + n ELSE f.held[q][a]
      /\ \A a \in Owners : g.free[a] = IF a = who THEN f.free[a] - n ELSE f.free[a]
  BY DEF Funds, Hold, Owners
<1> HIDE DEF g
<1>3. ASSUME NEW a \in Accounts PROVE Wealth(g)[a] = Wealth(f)[a]
  <2>1. /\ Wealth(f)[a] \in Nat
        /\ Wealth(g)[a] = Wealth(f)[a] + (g.free[a] - f.free[a]) + (g.held[r][a] - f.held[r][a])
    BY <1>1, <1>2, WealthChange
  <2>2. f.free[a] \in Nat /\ f.held[r][a] \in Nat /\ a \in Owners
    BY DEF Funds, Owners
  <2> QED BY <1>2, <2>1, <2>2
<1>4. Wealth(g)[Treasury] = Wealth(f)[Treasury]
  BY <1>1, <1>2, TreasuryWealth, DataAssumption DEF Owners
<1>5. Total(g) = Total(f)
  BY <1>1, <1>3, <1>4, TotalSame DEF Owners
<1>6. g.free[who] = f.free[who] - n
  BY <1>2 DEF Owners
<1> QED BY <1>1, <1>2, <1>5, <1>6 DEF Moves, g

\* release_exact, and the BestEffort releases of deposits.
LEMMA ReleaseMoves ==
    ASSUME NEW f \in Funds, NEW r \in HoldReasons, NEW who \in Accounts,
           NEW n \in Nat, CanRelease(f, r, who, n)
    PROVE  /\ Moves(f, Release(f, r, who, n), r, who, -n)
           /\ Release(f, r, who, n).free[Treasury] = f.free[Treasury]
<1> DEFINE g == Release(f, r, who, n)
<1>1. g \in Funds
  BY ReleaseType
<1>2. /\ \A q \in HoldReasons, a \in Accounts :
            g.held[q][a] = IF q = r /\ a = who THEN f.held[q][a] - n ELSE f.held[q][a]
      /\ \A a \in Owners : g.free[a] = IF a = who THEN f.free[a] + n ELSE f.free[a]
  BY DEF Funds, Release, Owners
<1> HIDE DEF g
<1>3. ASSUME NEW a \in Accounts PROVE Wealth(g)[a] = Wealth(f)[a]
  <2>1. /\ Wealth(f)[a] \in Nat
        /\ Wealth(g)[a] = Wealth(f)[a] + (g.free[a] - f.free[a]) + (g.held[r][a] - f.held[r][a])
    BY <1>1, <1>2, WealthChange
  <2>2. f.free[a] \in Nat /\ f.held[r][a] \in Nat /\ a \in Owners
    BY DEF Funds, Owners
  <2> QED BY <1>2, <2>1, <2>2
<1>4. Wealth(g)[Treasury] = Wealth(f)[Treasury] /\ g.free[Treasury] = f.free[Treasury]
  BY <1>1, <1>2, TreasuryWealth, DataAssumption DEF Owners
<1>5. Total(g) = Total(f)
  BY <1>1, <1>3, <1>4, TotalSame DEF Owners
<1>6. \A q \in HoldReasons, a \in Accounts :
         g.held[q][a] = IF q = r /\ a = who THEN f.held[q][a] + (-n) ELSE f.held[q][a]
  <2>1. \A q \in HoldReasons, a \in Accounts : f.held[q][a] \in Nat
    BY DEF Funds
  <2> QED BY <1>2, <2>1
<1> QED BY <1>1, <1>4, <1>5, <1>6 DEF Moves, g

\* settle_payment and a slash: the amount leaves the hold for dest.
LEMMA SettleMoves ==
    ASSUME NEW f \in Funds, NEW r \in HoldReasons, NEW who \in Accounts,
           NEW dest \in Owners, NEW n \in Nat, CanRelease(f, r, who, n)
    PROVE  /\ Moves(f, Settle(f, r, who, dest, n), r, who, -n)
           /\ Settle(f, r, who, dest, n).free[dest] = f.free[dest] + n
<1> DEFINE g == Settle(f, r, who, dest, n)
<1>1. g \in Funds
  BY SettleType DEF Owners
<1>2. /\ \A q \in HoldReasons, a \in Accounts :
            g.held[q][a] = IF q = r /\ a = who THEN f.held[q][a] - n ELSE f.held[q][a]
      /\ \A a \in Owners : g.free[a] = IF a = dest THEN f.free[a] + n ELSE f.free[a]
  BY DEF Funds, Settle, Owners
<1>3. /\ \A a \in Accounts : f.held[r][a] \in Nat
      /\ \A a \in Owners : f.free[a] \in Nat
      /\ n <= f.held[r][who] /\ who \in Owners
  BY DEF Funds, CanRelease, Owners
<1> HIDE DEF g
<1>4. ASSUME NEW a \in Accounts
      PROVE  /\ Wealth(f)[a] \in Nat
             /\ Wealth(g)[a] = Wealth(f)[a] + (IF a = dest THEN n ELSE 0)
                                            - (IF a = who THEN n ELSE 0)
  <2>1. /\ Wealth(f)[a] \in Nat
        /\ Wealth(g)[a] = Wealth(f)[a] + (g.free[a] - f.free[a]) + (g.held[r][a] - f.held[r][a])
    BY <1>1, <1>2, WealthChange
  <2>2. f.free[a] \in Nat /\ f.held[r][a] \in Nat /\ a \in Owners
    BY <1>3 DEF Owners
  <2>3. g.free[a] - f.free[a] = (IF a = dest THEN n ELSE 0)
    BY <1>2, <2>2
  <2>4. g.held[r][a] - f.held[r][a] = -(IF a = who THEN n ELSE 0)
    BY <1>2, <2>2
  <2> QED BY <2>1, <2>3, <2>4
<1>5. /\ Wealth(f)[Treasury] \in Nat /\ who # Treasury
      /\ Wealth(g)[Treasury] = Wealth(f)[Treasury] + (IF Treasury = dest THEN n ELSE 0)
  BY <1>1, <1>2, <1>3, TreasuryWealth, DataAssumption DEF Owners
<1>6. Total(g) = Total(f)
  <2>1. Shifted(f, g, who, dest, n)
    BY <1>4, <1>5 DEF Owners, Shifted
  <2>2. who \in Owners /\ dest \in Owners
    BY DEF Owners
  <2> QED BY <1>1, <2>1, <2>2, TotalShifted
<1>7. \A q \in HoldReasons, a \in Accounts :
         g.held[q][a] = IF q = r /\ a = who THEN f.held[q][a] + (-n) ELSE f.held[q][a]
  <2>1. \A q \in HoldReasons, a \in Accounts : f.held[q][a] \in Nat
    BY DEF Funds
  <2> QED BY <1>2, <2>1
<1>8. g.free[dest] = f.free[dest] + n
  BY <1>2
<1> QED BY <1>1, <1>6, <1>7, <1>8 DEF Moves, g

\* hold_payment_from: paid by one account, held on another.
LEMMA HoldPaymentFromMoves ==
    ASSUME NEW f \in Funds, NEW payer \in Accounts, NEW owner \in Accounts,
           NEW n \in Nat, CanHold(f, payer, n)
    PROVE  Moves(f, HoldPaymentFrom(f, payer, owner, n), "AgreementPayment", owner, n)
<1> DEFINE g == HoldPaymentFrom(f, payer, owner, n)
           r == "AgreementPayment"
<1>0. r \in HoldReasons
  BY DEF HoldReasons
<1>1. g \in Funds
  BY HoldPaymentFromType
<1>2. /\ \A q \in HoldReasons, a \in Accounts :
            g.held[q][a] = IF q = r /\ a = owner THEN f.held[q][a] + n ELSE f.held[q][a]
      /\ \A a \in Owners : g.free[a] = IF a = payer THEN f.free[a] - n ELSE f.free[a]
  BY <1>0 DEF Funds, HoldPaymentFrom, Owners
<1> HIDE DEF g, r
<1>3. ASSUME NEW a \in Accounts
      PROVE  Wealth(g)[a] = Wealth(f)[a] + (IF a = owner THEN n ELSE 0)
                                         - (IF a = payer THEN n ELSE 0)
  <2>1. /\ Wealth(f)[a] \in Nat
        /\ Wealth(g)[a] = Wealth(f)[a] + (g.free[a] - f.free[a]) + (g.held[r][a] - f.held[r][a])
    BY <1>0, <1>1, <1>2, WealthChange
  <2>2. f.free[a] \in Nat /\ f.held[r][a] \in Nat /\ a \in Owners
    BY <1>0 DEF Funds, Owners
  <2>3. g.free[a] - f.free[a] = -(IF a = payer THEN n ELSE 0)
    BY <1>2, <2>2
  <2>4. g.held[r][a] - f.held[r][a] = (IF a = owner THEN n ELSE 0)
    BY <1>0, <1>2, <2>2
  <2> QED BY <2>1, <2>3, <2>4
<1>4. /\ payer # Treasury /\ owner # Treasury /\ Wealth(f)[Treasury] \in Nat
      /\ Wealth(g)[Treasury] = Wealth(f)[Treasury]
  BY <1>1, <1>2, TreasuryWealth, DataAssumption DEF Owners
<1>5. Shifted(f, g, payer, owner, n)
  BY <1>3, <1>4 DEF Owners, Shifted
<1>6. Total(g) = Total(f)
  BY <1>1, <1>5, TotalShifted DEF Owners
<1> QED BY <1>1, <1>2, <1>6 DEF Moves, g, r

\* transfer_payment_on_hold: the hold goes from one owner to another.
LEMMA TransferMoves ==
    ASSUME NEW f \in Funds, NEW from \in Accounts, NEW to \in Accounts, from # to,
           NEW n \in Nat, CanRelease(f, "AgreementPayment", from, n)
    PROVE  LET g == TransferPaymentOnHold(f, from, to, n) IN
           /\ g \in Funds /\ Total(g) = Total(f)
           /\ \A q \in HoldReasons, a \in Accounts :
                 g.held[q][a] = IF q = "AgreementPayment"
                                THEN f.held[q][a] + (IF a = to THEN n ELSE 0)
                                                  - (IF a = from THEN n ELSE 0)
                                ELSE f.held[q][a]
<1> DEFINE g == TransferPaymentOnHold(f, from, to, n)
           r == "AgreementPayment"
           moved == [f.held[r] EXCEPT ![from] = @ - n, ![to] = @ + n]
<1>0. r \in HoldReasons
  BY DEF HoldReasons
<1>1. g \in Funds
  BY TransferPaymentOnHoldType
<1>2. g = [f EXCEPT !.held[r] = moved]
  BY DEF TransferPaymentOnHold
<1>3. \A a \in Accounts : moved[a] = f.held[r][a] + (IF a = to THEN n ELSE 0)
                                                  - (IF a = from THEN n ELSE 0)
  <2>1. f.held[r] \in [Accounts -> Nat]
    BY <1>0 DEF Funds
  <2>2. ASSUME NEW a \in Accounts
        PROVE  moved[a] = IF a = to THEN f.held[r][a] + n
                          ELSE IF a = from THEN f.held[r][a] - n ELSE f.held[r][a]
    <3> HIDE DEF r
    <3> QED BY <2>1
  <2>3. \A a \in Accounts : f.held[r][a] \in Nat
    BY <2>1
  <2> HIDE DEF moved, r
  <2> QED BY <2>2, <2>3
<1> HIDE DEF moved
<1>4. /\ g.free = f.free /\ g.held[r] = moved
      /\ \A q \in HoldReasons : q # r => g.held[q] = f.held[q]
  BY <1>0, <1>2 DEF Funds
<1> HIDE DEF g, r
<1>5. ASSUME NEW a \in Accounts
      PROVE  Wealth(g)[a] = Wealth(f)[a] + (IF a = to THEN n ELSE 0)
                                         - (IF a = from THEN n ELSE 0)
  <2>1. /\ Wealth(f)[a] \in Nat
        /\ Wealth(g)[a] = Wealth(f)[a] + (g.free[a] - f.free[a]) + (g.held[r][a] - f.held[r][a])
    BY <1>0, <1>1, <1>4, WealthChange
  <2>2. f.free[a] \in Nat /\ f.held[r][a] \in Nat
    BY <1>0 DEF Funds
  <2> QED BY <1>3, <1>4, <2>1, <2>2
<1>6. /\ from # Treasury /\ to # Treasury /\ Wealth(f)[Treasury] \in Nat
      /\ Wealth(g)[Treasury] = Wealth(f)[Treasury]
  BY <1>1, <1>4, TreasuryWealth, DataAssumption
<1>7. Shifted(f, g, from, to, n)
  BY <1>5, <1>6 DEF Owners, Shifted
<1>8. Total(g) = Total(f)
  BY <1>1, <1>7, TotalShifted DEF Owners
<1> QED BY <1>1, <1>3, <1>4, <1>8 DEF g, r

\* A BestEffort release is exact when the hold has the amount.
LEMMA EnoughHeld ==
    ASSUME NEW f \in Funds, NEW r \in HoldReasons, NEW who \in Accounts, NEW n \in Nat,
           n <= f.held[r][who]
    PROVE  BestEffort(f, r, who, n) = n /\ CanRelease(f, r, who, n)
BY DEF BestEffort, AtMost, CanRelease

\* One storage deposit returned.
LEMMA DropDepositMoves ==
    ASSUME NEW f \in Funds, NEW who \in Accounts,
           StorageDeposit <= f.held["StorageDeposit"][who]
    PROVE  Moves(f, DropDeposit(f, who), "StorageDeposit", who, -StorageDeposit)
<1>1. "StorageDeposit" \in HoldReasons /\ StorageDeposit \in Nat
  BY ConfigAssumption DEF HoldReasons
<1>2. DropDeposit(f, who) = Release(f, "StorageDeposit", who, StorageDeposit)
  BY <1>1, EnoughHeld DEF DropDeposit
<1>3. Moves(f, Release(f, "StorageDeposit", who, StorageDeposit),
            "StorageDeposit", who, -StorageDeposit)
  BY <1>1, EnoughHeld, ReleaseMoves
<1> QED BY <1>2, <1>3

\* The deposit of a failed challenge returned.
LEMMA ReleaseChallengeDepositMoves ==
    ASSUME NEW f \in Funds, NEW who \in Accounts, NEW n \in Nat,
           n <= f.held["ChallengeDeposit"][who]
    PROVE  /\ Moves(f, ReleaseChallengeDeposit(f, who, n), "ChallengeDeposit", who, -n)
           /\ ReleaseChallengeDeposit(f, who, n).free[Treasury] = f.free[Treasury]
<1>1. "ChallengeDeposit" \in HoldReasons
  BY DEF HoldReasons
<1>2. ReleaseChallengeDeposit(f, who, n) = Release(f, "ChallengeDeposit", who, n)
  BY <1>1, EnoughHeld DEF ReleaseChallengeDeposit
<1>3. /\ Moves(f, Release(f, "ChallengeDeposit", who, n), "ChallengeDeposit", who, -n)
      /\ Release(f, "ChallengeDeposit", who, n).free[Treasury] = f.free[Treasury]
  BY <1>1, EnoughHeld, ReleaseMoves
<1> QED BY <1>2, <1>3

\* Every deposit of a bucket returned.
LEMMA DropDepositsMoves ==
    ASSUME NEW f \in Funds, NEW tickets \in [Accounts -> Nat],
           \A a \in Accounts : tickets[a] * StorageDeposit <= f.held["StorageDeposit"][a]
    PROVE  LET g == DropDeposits(f, tickets) IN
           /\ g \in Funds /\ Total(g) = Total(f)
           /\ \A q \in HoldReasons, a \in Accounts :
                 g.held[q][a] = IF q = "StorageDeposit"
                                THEN f.held[q][a] - tickets[a] * StorageDeposit
                                ELSE f.held[q][a]
<1> DEFINE g == DropDeposits(f, tickets)
           r == "StorageDeposit"
           amount(a) == BestEffort(f, r, a, tickets[a] * StorageDeposit)
           back(a) == tickets[a] * StorageDeposit
<1>0. r \in HoldReasons
  BY DEF HoldReasons
<1>1. g \in Funds
  BY DropDepositsType
<1>2. ASSUME NEW a \in Accounts
      PROVE  amount(a) = back(a) /\ back(a) \in Nat
  <2>1. back(a) \in Nat
    BY ConfigAssumption
  <2> QED BY <1>0, <2>1, EnoughHeld
<1>3. g = [free |-> [a \in Owners |-> IF a \in Accounts THEN f.free[a] + amount(a)
                                       ELSE f.free[a]],
           held |-> [f.held EXCEPT ![r] = [a \in Accounts |-> @[a] - amount(a)]]]
  BY DEF DropDeposits, Owners
<1> HIDE DEF amount, back
<1>4. /\ \A a \in Accounts : g.free[a] = f.free[a] + back(a)
      /\ g.free[Treasury] = f.free[Treasury]
  BY <1>2, <1>3, DataAssumption DEF Owners
<1>5. /\ \A a \in Accounts : g.held[r][a] = f.held[r][a] - back(a)
      /\ \A q \in HoldReasons : q # r => g.held[q] = f.held[q]
  BY <1>0, <1>2, <1>3 DEF Funds
<1> HIDE DEF g, r
<1>6. ASSUME NEW a \in Accounts PROVE Wealth(g)[a] = Wealth(f)[a]
  <2>1. /\ Wealth(f)[a] \in Nat
        /\ Wealth(g)[a] = Wealth(f)[a] + (g.free[a] - f.free[a]) + (g.held[r][a] - f.held[r][a])
    BY <1>0, <1>1, <1>5, WealthChange
  <2>2. f.free[a] \in Nat /\ f.held[r][a] \in Nat
    BY <1>0 DEF Funds
  <2> QED BY <1>2, <1>4, <1>5, <2>1, <2>2
<1>7. Wealth(g)[Treasury] = Wealth(f)[Treasury]
  BY <1>1, <1>4, TreasuryWealth
<1>8. Total(g) = Total(f)
  BY <1>1, <1>6, <1>7, TotalSame DEF Owners
<1> QED BY <1>1, <1>5, <1>8 DEF g, r, back

\* The deposit of an answered challenge, split between the two parties.
LEMMA SettleChallengeDepositMoves ==
    ASSUME NEW f \in Funds, NEW challenger \in Accounts, NEW provider \in Accounts,
           NEW deposit \in Nat, NEW share \in Nat, share <= deposit,
           deposit <= f.held["ChallengeDeposit"][challenger]
    PROVE  Moves(f, settle_challenge_deposit(f, challenger, provider, deposit, share),
                 "ChallengeDeposit", challenger, -deposit)
<1> DEFINE r == "ChallengeDeposit"
           mid == Settle(f, r, challenger, provider, share)
           rest == deposit - share
           g == ReleaseChallengeDeposit(mid, challenger, rest)
<1>0. r \in HoldReasons /\ f.held[r][challenger] \in Nat
  BY DEF HoldReasons, Funds
<1>1. BestEffort(f, r, challenger, share) = share /\ CanRelease(f, r, challenger, share)
  BY <1>0, EnoughHeld
<1>2. settle_challenge_deposit(f, challenger, provider, deposit, share) = g
  BY <1>1 DEF settle_challenge_deposit
<1>3. Moves(f, mid, r, challenger, -share)
  BY <1>0, <1>1, SettleMoves DEF Owners
<1> HIDE DEF mid
<1>4. rest \in Nat /\ mid \in Funds /\ rest <= mid.held[r][challenger]
  BY <1>0, <1>3 DEF Moves
<1> HIDE DEF rest
<1>5. Moves(mid, g, r, challenger, -rest)
  BY <1>4, ReleaseChallengeDepositMoves
<1> HIDE DEF g
<1>6. Moves(f, g, r, challenger, -deposit)
  <2>1. g \in Funds /\ Total(g) = Total(f)
    BY <1>3, <1>5 DEF Moves
  <2>2. ASSUME NEW q \in HoldReasons, NEW a \in Accounts
        PROVE  g.held[q][a] = IF q = r /\ a = challenger THEN f.held[q][a] + (-deposit)
                              ELSE f.held[q][a]
    <3>1. f.held[q][a] \in Nat
      BY DEF Funds
    <3>2. mid.held[q][a] = IF q = r /\ a = challenger THEN f.held[q][a] + (-share)
                           ELSE f.held[q][a]
      BY <1>3 DEF Moves
    <3>3. g.held[q][a] = IF q = r /\ a = challenger THEN mid.held[q][a] + (-rest)
                         ELSE mid.held[q][a]
      BY <1>5 DEF Moves
    <3> HIDE DEF r
    <3> QED BY <3>1, <3>2, <3>3 DEF rest
  <2> QED BY <2>1, <2>2 DEF Moves
<1> QED BY <1>2, <1>6
----------------------------------------------------------------------------
(* The four books                                                           *)

StakeOf(a) == IF Providers[a] = None THEN 0 ELSE Providers[a].stake

OpenBy(a) == {id \in DOMAIN Challenges : Challenges[id].challenger = a}

Held(r, a) == funds.held[r][a]

StakesBacked == \A a \in Accounts : Held("ProviderStake", a) = StakeOf(a)

EscrowsBacked == \A a \in Accounts : Held("AgreementPayment", a) = EscrowByOwner(a)

ChallengesBacked ==
    \A a \in Accounts : Held("ChallengeDeposit", a) = ChallengeDeposit * Cardinality(OpenBy(a))

TicketsBacked ==
    \A a \in Accounts : Held("StorageDeposit", a) = StorageDeposit * StorageTickets(a)

Books == StakesBacked /\ EscrowsBacked /\ ChallengesBacked /\ TicketsBacked

\* The books say what HoldsBackBookkeeping says.
LEMMA BooksAreHolds == Books <=> HoldsBackBookkeeping
BY DEF Books, StakesBacked, EscrowsBacked, ChallengesBacked, TicketsBacked, Held, StakeOf,
       OpenBy, HoldsBackBookkeeping, DepositsByChallenger

\* The hold of reason r stays as it is on every account.
HeldKept(r) == \A a \in Accounts : Held(r, a)' = Held(r, a)

\* Multiplication by the price of a deposit.
LEMMA Distribute ==
    ASSUME NEW d \in Nat, NEW m \in Nat, NEW n \in Nat
    PROVE  d * (m + n) = d * m + d * n /\ d * m \in Nat /\ d * n \in Nat /\ n * d = d * n
OBVIOUS

\* Fewer deposits of one price cost no more.
LEMMA Multiples ==
    ASSUME NEW d \in Nat, NEW m \in Nat, NEW n \in Nat, m <= n
    PROVE  m * d <= d * n /\ m * d \in Nat /\ d * n \in Nat
<1>1. n - m \in Nat /\ n = m + (n - m)
  OBVIOUS
<1>2. d * (m + (n - m)) = d * m + d * (n - m) /\ d * (n - m) \in Nat /\ m * d = d * m
      /\ d * m \in Nat
  BY <1>1, Distribute
<1> QED BY <1>1, <1>2

----------------------------------------------------------------------------
(* The escrow book                                                          *)

\* An agreement's escrow is a natural,
LEMMA EscrowInType ==
    ASSUME NEW agreement \in StorageAgreement \cup {None}, NEW a
    PROVE  EscrowIn(agreement, a) \in Nat
BY NoneAssumption DEF EscrowIn, escrow, StorageAgreement

\* and so are those of an owner.
LEMMA EscrowsType ==
    ASSUME TypeOK, NEW a
    PROVE  Escrows(a) \in [Slots -> Nat]
<1>1. ASSUME NEW x \in Slots PROVE EscrowIn(StorageAgreements[x[1]][x[2]], a) \in Nat
  <2>1. StorageAgreements[x[1]][x[2]] \in StorageAgreement \cup {None}
    BY DEF Slots, TypeOK
  <2> QED BY <2>1, EscrowInType
<1> QED BY <1>1 DEF Escrows

\* Agreements other than that of p on b stay.
OnlyAgreement(b, p) ==
    \A c \in BucketIds, q \in Accounts :
        c # b \/ q # p => StorageAgreements'[c][q] = StorageAgreements[c][q]

\* One agreement appears, changes or goes, and its owners' holds follow.
LEMMA EscrowsStep ==
    ASSUME TypeOK, TypeOK', EscrowsBacked, NEW b \in BucketIds, NEW p \in Accounts,
           OnlyAgreement(b, p),
           \A a \in Accounts :
               Held("AgreementPayment", a)' =
                   Held("AgreementPayment", a) - EscrowIn(StorageAgreements[b][p], a)
                                               + EscrowIn(StorageAgreements'[b][p], a)
    PROVE  EscrowsBacked'
<1> SUFFICES ASSUME NEW a \in Accounts
             PROVE  Held("AgreementPayment", a)' = EscrowByOwner(a)'
  BY DEF EscrowsBacked
<1> DEFINE old == EscrowIn(StorageAgreements[b][p], a)
           new == EscrowIn(StorageAgreements'[b][p], a)
<1>1. /\ Escrows(a) \in [Slots -> Nat] /\ IsFiniteSet(Slots) /\ <<b, p>> \in Slots
      /\ Escrows(a)[<<b, p>>] = old
  BY EscrowsType, Finite DEF Slots, Escrows
<1>2. new \in Nat
  <2>1. StorageAgreements'[b][p] \in StorageAgreement \cup {None}
    BY DEF TypeOK
  <2> QED BY <2>1, EscrowInType
<1>3. Escrows(a)' = [Escrows(a) EXCEPT ![<<b, p>>] = new]
  <2>1. ASSUME NEW x \in Slots, x # <<b, p>>
        PROVE  StorageAgreements'[x[1]][x[2]] = StorageAgreements[x[1]][x[2]]
    BY <2>1 DEF Slots, OnlyAgreement
  <2>2. <<b, p>>[1] = b /\ <<b, p>>[2] = p
    OBVIOUS
  <2> QED BY <2>1, <2>2 DEF Escrows
<1> HIDE DEF old, new
<1>4. SumFunction([Escrows(a) EXCEPT ![<<b, p>>] = new])
        = SumFunction(Escrows(a)) - Escrows(a)[<<b, p>>] + new
  BY <1>1, <1>2, SumUpdate
<1>5. SumFunction(Escrows(a)') = SumFunction(Escrows(a)) - old + new
  BY <1>1, <1>3, <1>4
<1>6. Held("AgreementPayment", a) = SumFunction(Escrows(a))
  BY DEF EscrowsBacked, EscrowByOwner
<1>7. Held("AgreementPayment", a)' = Held("AgreementPayment", a) - old + new
  BY DEF old, new
<1> QED BY <1>5, <1>6, <1>7 DEF EscrowByOwner

\* No agreement's owner or escrow changes.
AgreementsSteady ==
    \A b \in BucketIds, p \in Accounts, a \in Accounts :
        /\ EscrowIn(StorageAgreements'[b][p], a) = EscrowIn(StorageAgreements[b][p], a)
        /\ TicketOn(StorageAgreements'[b][p], a) = TicketOn(StorageAgreements[b][p], a)

\* Escrows stay backed when neither agreements nor holds change.
LEMMA EscrowsKept ==
    ASSUME EscrowsBacked, AgreementsSteady, HeldKept("AgreementPayment")
    PROVE  EscrowsBacked'
<1> SUFFICES ASSUME NEW a \in Accounts
             PROVE  Held("AgreementPayment", a)' = EscrowByOwner(a)'
  BY DEF EscrowsBacked
<1>1. Escrows(a)' = Escrows(a)
  BY DEF Escrows, AgreementsSteady, Slots
<1>2. SumFunction(Escrows(a)') = SumFunction(Escrows(a))
  BY <1>1
<1> QED BY <1>2 DEF EscrowsBacked, EscrowByOwner, HeldKept
----------------------------------------------------------------------------
(* The book of storage deposits                                             *)

\* A bucket's deposits are a natural number of tickets.
LEMMA TicketsInType == ASSUME NEW bucket, NEW a PROVE TicketsIn(bucket, a) \in Nat
BY BucketTicketsType DEF TicketsIn

\* An account's tickets, by what they were paid for.
LEMMA TicketSums ==
    ASSUME NEW a \in Accounts
    PROVE  /\ BucketDeposits(a) \in [BucketIds -> Nat]
           /\ AgreementDeposits(a) \in [Slots -> Nat]
           /\ ProviderTicket(a) \in Nat
BY TicketsInType DEF BucketDeposits, AgreementDeposits, ProviderTicket, TicketOn

\* Buckets other than b account for the deposits they did before.
OnlyBucket(b) ==
    \A c \in BucketIds, a \in Accounts :
        c # b => TicketsIn(Buckets'[c], a) = TicketsIn(Buckets[c], a)

\* The deposits of one bucket change.
LEMMA BucketTicketStep ==
    ASSUME NEW b \in BucketIds, OnlyBucket(b), NEW a \in Accounts
    PROVE  /\ SumFunction(BucketDeposits(a)) \in Nat
           /\ TicketsIn(Buckets[b], a) <= SumFunction(BucketDeposits(a))
           /\ SumFunction(BucketDeposits(a))' =
                 SumFunction(BucketDeposits(a)) - TicketsIn(Buckets[b], a)
                                                + TicketsIn(Buckets'[b], a)
<1> DEFINE new == TicketsIn(Buckets'[b], a)
<1>1. /\ BucketDeposits(a) \in [BucketIds -> Nat] /\ IsFiniteSet(BucketIds)
      /\ BucketDeposits(a)[b] = TicketsIn(Buckets[b], a) /\ new \in Nat
  BY TicketSums, Finite, TicketsInType DEF BucketDeposits
<1>2. BucketDeposits(a)' = [BucketDeposits(a) EXCEPT ![b] = new]
  BY DEF BucketDeposits, OnlyBucket
<1> HIDE DEF new
<1>3. /\ SumFunction(BucketDeposits(a)) \in Nat
      /\ BucketDeposits(a)[b] <= SumFunction(BucketDeposits(a))
      /\ SumFunction([BucketDeposits(a) EXCEPT ![b] = new])
            = SumFunction(BucketDeposits(a)) - BucketDeposits(a)[b] + new
  BY <1>1, SumUpdate
<1>4. SumFunction(BucketDeposits(a)')
        = SumFunction(BucketDeposits(a)) - TicketsIn(Buckets[b], a) + new
  BY <1>1, <1>2, <1>3
<1> QED BY <1>1, <1>3, <1>4 DEF new

\* The deposit of one agreement is paid or returned.
LEMMA AgreementTicketStep ==
    ASSUME NEW b \in BucketIds, NEW p \in Accounts, OnlyAgreement(b, p), NEW a \in Accounts
    PROVE  /\ SumFunction(AgreementDeposits(a)) \in Nat
           /\ TicketOn(StorageAgreements[b][p], a) <= SumFunction(AgreementDeposits(a))
           /\ SumFunction(AgreementDeposits(a))' =
                 SumFunction(AgreementDeposits(a)) - TicketOn(StorageAgreements[b][p], a)
                                                   + TicketOn(StorageAgreements'[b][p], a)
<1> DEFINE new == TicketOn(StorageAgreements'[b][p], a)
<1>1. /\ AgreementDeposits(a) \in [Slots -> Nat] /\ IsFiniteSet(Slots) /\ <<b, p>> \in Slots
      /\ AgreementDeposits(a)[<<b, p>>] = TicketOn(StorageAgreements[b][p], a) /\ new \in Nat
  BY TicketSums, Finite DEF Slots, AgreementDeposits, TicketOn
<1>2. AgreementDeposits(a)' = [AgreementDeposits(a) EXCEPT ![<<b, p>>] = new]
  <2>1. ASSUME NEW x \in Slots, x # <<b, p>>
        PROVE  StorageAgreements'[x[1]][x[2]] = StorageAgreements[x[1]][x[2]]
    BY <2>1 DEF Slots, OnlyAgreement
  <2>2. <<b, p>>[1] = b /\ <<b, p>>[2] = p
    OBVIOUS
  <2> QED BY <2>1, <2>2 DEF AgreementDeposits
<1> HIDE DEF new
<1>3. /\ SumFunction(AgreementDeposits(a)) \in Nat
      /\ AgreementDeposits(a)[<<b, p>>] <= SumFunction(AgreementDeposits(a))
      /\ SumFunction([AgreementDeposits(a) EXCEPT ![<<b, p>>] = new])
            = SumFunction(AgreementDeposits(a)) - AgreementDeposits(a)[<<b, p>>] + new
  BY <1>1, SumUpdate
<1>4. SumFunction(AgreementDeposits(a)')
        = SumFunction(AgreementDeposits(a)) - TicketOn(StorageAgreements[b][p], a) + new
  BY <1>1, <1>2, <1>3
<1> QED BY <1>1, <1>3, <1>4 DEF new

\* No bucket's deposits change.
BucketsSteady ==
    \A b \in BucketIds, a \in Accounts :
        TicketsIn(Buckets'[b], a) = TicketsIn(Buckets[b], a)

\* Untouched buckets keep their tickets,
LEMMA BucketSumKept ==
    ASSUME BucketsSteady, NEW a \in Accounts
    PROVE  SumFunction(BucketDeposits(a))' = SumFunction(BucketDeposits(a))
<1>1. BucketDeposits(a)' = BucketDeposits(a)
  BY DEF BucketDeposits, BucketsSteady
<1>2. SumFunction(BucketDeposits(a)') = SumFunction(BucketDeposits(a))
  BY <1>1
<1> QED BY <1>2

\* and untouched agreements theirs.
LEMMA AgreementSumKept ==
    ASSUME AgreementsSteady, NEW a \in Accounts
    PROVE  SumFunction(AgreementDeposits(a))' = SumFunction(AgreementDeposits(a))
<1>1. AgreementDeposits(a)' = AgreementDeposits(a)
  BY DEF AgreementDeposits, AgreementsSteady, Slots
<1>2. SumFunction(AgreementDeposits(a)') = SumFunction(AgreementDeposits(a))
  BY <1>1
<1> QED BY <1>2

\* The sums of tickets are naturals.
LEMMA StorageTicketsType ==
    ASSUME NEW a \in Accounts
    PROVE  /\ SumFunction(BucketDeposits(a)) \in Nat
           /\ SumFunction(AgreementDeposits(a)) \in Nat
           /\ StorageTickets(a) \in Nat
<1>1. \A S : \A x \in [S -> Nat] : IsFiniteSet(S) => SumFunction(x) \in Nat
  <2> SUFFICES ASSUME NEW S, NEW x \in [S -> Nat], IsFiniteSet(S)
               PROVE  SumFunction(x) \in Nat
    OBVIOUS
  <2>1. PICK it : Summing(x, S, it) /\ SumFunction(x) = it[S]
    BY SumIsFold
  <2>2. S \in SUBSET S /\ \A s \in SUBSET S : it[s] \in Nat
    BY <2>1, FoldValues
  <2> QED BY <2>1, <2>2
<1>2. SumFunction(BucketDeposits(a)) \in Nat /\ SumFunction(AgreementDeposits(a)) \in Nat
  BY <1>1, TicketSums, Finite
<1> QED BY <1>2, TicketSums DEF StorageTickets

\* A hold covers any number of the deposits it is for.
LEMMA TicketsHeld ==
    ASSUME TicketsBacked, NEW a \in Accounts, NEW n \in Nat, n <= StorageTickets(a)
    PROVE  n * StorageDeposit <= Held("StorageDeposit", a)
<1>1. StorageTickets(a) \in Nat /\ StorageDeposit \in Nat
  BY StorageTicketsType, ConfigAssumption
<1> QED BY <1>1, Multiples DEF TicketsBacked

\* Deposits are paid: more[a] of them on account a ...
LEMMA TicketsPaid ==
    ASSUME TicketsBacked, NEW more \in [Accounts -> Nat],
           \A a \in Accounts :
               /\ StorageTickets(a)' = StorageTickets(a) + more[a]
               /\ Held("StorageDeposit", a)' =
                     Held("StorageDeposit", a) + more[a] * StorageDeposit
    PROVE  TicketsBacked'
<1> SUFFICES ASSUME NEW a \in Accounts
             PROVE  Held("StorageDeposit", a)' = StorageDeposit * StorageTickets(a)'
  BY DEF TicketsBacked
<1>1. StorageTickets(a) \in Nat /\ StorageDeposit \in Nat /\ more[a] \in Nat
  BY StorageTicketsType, ConfigAssumption
<1>2. StorageDeposit * (StorageTickets(a) + more[a])
        = StorageDeposit * StorageTickets(a) + more[a] * StorageDeposit
  BY <1>1, Distribute
<1> QED BY <1>2 DEF TicketsBacked

\* ... or returned.
LEMMA TicketsReturned ==
    ASSUME TicketsBacked, NEW less \in [Accounts -> Nat],
           \A a \in Accounts :
               /\ less[a] <= StorageTickets(a)
               /\ StorageTickets(a)' = StorageTickets(a) - less[a]
               /\ Held("StorageDeposit", a)' =
                     Held("StorageDeposit", a) - less[a] * StorageDeposit
    PROVE  TicketsBacked'
<1> SUFFICES ASSUME NEW a \in Accounts
             PROVE  Held("StorageDeposit", a)' = StorageDeposit * StorageTickets(a)'
  BY DEF TicketsBacked
<1> DEFINE left == StorageTickets(a) - less[a]
<1>1. /\ StorageTickets(a) \in Nat /\ StorageDeposit \in Nat /\ less[a] \in Nat
      /\ less[a] <= StorageTickets(a)
  BY StorageTicketsType, ConfigAssumption
<1>2. left \in Nat /\ StorageTickets(a) = left + less[a]
  BY <1>1
<1>3. StorageTickets(a)' = left
  OBVIOUS
<1> HIDE DEF left
<1>4. /\ StorageDeposit * (left + less[a]) = StorageDeposit * left + less[a] * StorageDeposit
      /\ StorageDeposit * left \in Nat /\ less[a] * StorageDeposit \in Nat
  BY <1>1, <1>2, Distribute
<1>5. Held("StorageDeposit", a) = StorageDeposit * (left + less[a])
  BY <1>2 DEF TicketsBacked
<1>6. Held("StorageDeposit", a)' = StorageDeposit * left
  BY <1>4, <1>5
<1> QED BY <1>3, <1>6

\* One account's deposits, k of them, are paid ...
LEMMA OnePays ==
    ASSUME TicketsBacked, NEW who \in Accounts, NEW k \in Nat,
           \A a \in Accounts :
               /\ StorageTickets(a)' = StorageTickets(a) + (IF a = who THEN k ELSE 0)
               /\ Held("StorageDeposit", a)' =
                     IF a = who THEN Held("StorageDeposit", a) + k * StorageDeposit
                     ELSE Held("StorageDeposit", a)
    PROVE  TicketsBacked'
<1> DEFINE more == [a \in Accounts |-> IF a = who THEN k ELSE 0]
<1>1. more \in [Accounts -> Nat]
  OBVIOUS
<1>2. ASSUME NEW a \in Accounts
      PROVE  /\ StorageTickets(a)' = StorageTickets(a) + more[a]
             /\ Held("StorageDeposit", a)' =
                   Held("StorageDeposit", a) + more[a] * StorageDeposit
  <2>1. /\ more[a] = IF a = who THEN k ELSE 0
        /\ StorageDeposit \in Nat /\ StorageTickets(a) \in Nat
    BY ConfigAssumption, StorageTicketsType
  <2>2. 0 * StorageDeposit = 0
    BY <2>1
  <2>3. Held("StorageDeposit", a) \in Nat
    BY <2>1, Distribute DEF TicketsBacked
  <2> HIDE DEF more
  <2> QED BY <2>1, <2>2, <2>3
<1> HIDE DEF more
<1> QED BY <1>1, <1>2, TicketsPaid

\* ... or returned.
LEMMA OneGetsBack ==
    ASSUME TicketsBacked, NEW who \in Accounts, 1 <= StorageTickets(who),
           \A a \in Accounts :
               /\ StorageTickets(a)' = StorageTickets(a) - (IF a = who THEN 1 ELSE 0)
               /\ Held("StorageDeposit", a)' =
                     IF a = who THEN Held("StorageDeposit", a) + (-StorageDeposit)
                     ELSE Held("StorageDeposit", a)
    PROVE  TicketsBacked'
<1> DEFINE less == [a \in Accounts |-> IF a = who THEN 1 ELSE 0]
<1>1. less \in [Accounts -> Nat]
  OBVIOUS
<1>2. ASSUME NEW a \in Accounts
      PROVE  /\ less[a] <= StorageTickets(a)
             /\ StorageTickets(a)' = StorageTickets(a) - less[a]
             /\ Held("StorageDeposit", a)' =
                   Held("StorageDeposit", a) - less[a] * StorageDeposit
  <2>1. /\ less[a] = IF a = who THEN 1 ELSE 0
        /\ StorageDeposit \in Nat /\ StorageTickets(a) \in Nat
    BY ConfigAssumption, StorageTicketsType
  <2>2. 0 * StorageDeposit = 0 /\ 1 * StorageDeposit = StorageDeposit
    BY <2>1
  <2>3. Held("StorageDeposit", a) \in Nat
    BY <2>1, Distribute DEF TicketsBacked
  <2> HIDE DEF less
  <2> QED BY <2>1, <2>2, <2>3
<1> HIDE DEF less
<1> QED BY <1>1, <1>2, TicketsReturned

\* Tickets stay backed when nothing that has one changes.
LEMMA TicketsKept ==
    ASSUME TicketsBacked, BucketsSteady, AgreementsSteady, HeldKept("StorageDeposit"),
           \A a \in Accounts : ProviderTicket(a)' = ProviderTicket(a)
    PROVE  TicketsBacked'
<1> SUFFICES ASSUME NEW a \in Accounts
             PROVE  Held("StorageDeposit", a)' = StorageDeposit * StorageTickets(a)'
  BY DEF TicketsBacked
<1>1. StorageTickets(a)' = StorageTickets(a)
  BY BucketSumKept, AgreementSumKept DEF StorageTickets
<1> QED BY <1>1 DEF TicketsBacked, HeldKept
----------------------------------------------------------------------------
(* What has to be shown of a step                                           *)

\* The reasons stake may leave an account for.
StakeDue(p) ==
    \/ /\ \E id \in OpenAgainst(p) : now > id.deadline /\ id \notin DOMAIN Challenges'
       /\ funds'.free[Treasury] = funds.free[Treasury] + HeldStake(p) - HeldStake(p)'
    \/ /\ Providers[p].deregister_at # None
       /\ now >= Providers[p].deregister_at
       /\ OpenAgainst(p) = {}
       /\ \A b \in BucketIds : StorageAgreements[b][p] = None

StakeFallsWhenDue == \A a \in Accounts : StakeOf(a)' < StakeOf(a) => StakeDue(a)

MoneyStep == Books' /\ Total(funds)' = Total(funds) /\ StakeFallsWhenDue

\* Stake that does not change does not fall.
LEMMA StakeNotLower ==
    ASSUME TypeOK, TypeOK', \A a \in Accounts : StakeOf(a)' = StakeOf(a)
    PROVE  StakeFallsWhenDue
<1>1. \A a \in Accounts : StakeOf(a) \in Nat
  BY TypeFacts DEF StakeOf, ProviderInfo
<1> QED BY <1>1 DEF StakeFallsWhenDue

\* Stakes stay backed when neither stake nor holds change.
LEMMA StakesKept ==
    ASSUME StakesBacked, HeldKept("ProviderStake"),
           \A a \in Accounts : StakeOf(a)' = StakeOf(a)
    PROVE  StakesBacked'
BY DEF StakesBacked, HeldKept

\* Challenge deposits stay backed when neither challenges nor holds change.
LEMMA ChallengesKept ==
    ASSUME ChallengesBacked, HeldKept("ChallengeDeposit"), Challenges' = Challenges
    PROVE  ChallengesBacked'
BY DEF ChallengesBacked, HeldKept, OpenBy

\* A step that moves no money and changes no record that accounts for some.
LEMMA QuietMoney ==
    ASSUME TypeOK, TypeOK', Books, funds' = funds, Challenges' = Challenges,
           AgreementsSteady, BucketsSteady,
           \A a \in Accounts : StakeOf(a)' = StakeOf(a) /\ ProviderTicket(a)' = ProviderTicket(a)
    PROVE  MoneyStep
<1>1. \A r \in HoldReasons : HeldKept(r)
  BY DEF HeldKept, Held
<1>2. /\ HeldKept("ProviderStake") /\ HeldKept("AgreementPayment")
      /\ HeldKept("ChallengeDeposit") /\ HeldKept("StorageDeposit")
  BY <1>1 DEF HoldReasons
<1>3. StakesBacked' /\ EscrowsBacked' /\ ChallengesBacked' /\ TicketsBacked'
  BY <1>2, StakesKept, EscrowsKept, ChallengesKept, TicketsKept DEF Books
<1>4. Total(funds)' = Total(funds)
  OBVIOUS
<1> QED BY <1>3, <1>4, StakeNotLower DEF MoneyStep, Books

\* A map that is left alone leaves its books alone.
LEMMA SteadyWhenUnchanged ==
    /\ UNCHANGED StorageAgreements => AgreementsSteady
    /\ UNCHANGED Buckets => BucketsSteady
    /\ UNCHANGED Providers =>
          \A a \in Accounts : StakeOf(a)' = StakeOf(a) /\ ProviderTicket(a)' = ProviderTicket(a)
<1>1. ASSUME UNCHANGED StorageAgreements PROVE AgreementsSteady
  BY <1>1 DEF AgreementsSteady
<1>2. ASSUME UNCHANGED Buckets PROVE BucketsSteady
  BY <1>2 DEF BucketsSteady
<1>3. ASSUME UNCHANGED Providers, NEW a \in Accounts
      PROVE  StakeOf(a)' = StakeOf(a) /\ ProviderTicket(a)' = ProviderTicket(a)
  BY <1>3 DEF StakeOf, ProviderTicket
<1> QED BY <1>1, <1>2, <1>3

\* What a movement leaves alone.
LEMMA OtherHoldsKept ==
    ASSUME NEW r, NEW who, NEW n, Moves(funds, funds', r, who, n)
    PROVE  /\ \A q \in HoldReasons : q # r => HeldKept(q)
           /\ Total(funds)' = Total(funds)
BY DEF Moves, HeldKept, Held

\* Two holds on one account within its free balance.
LEMMA TwoHolds ==
    ASSUME NEW f \in Funds, NEW r \in HoldReasons, NEW s \in HoldReasons, r # s,
           NEW who \in Accounts, NEW m \in Nat, NEW n \in Nat, CanHold(f, who, m + n)
    PROVE  LET g == Hold(Hold(f, r, who, m), s, who, n) IN
           /\ g \in Funds /\ Total(g) = Total(f)
           /\ \A q \in HoldReasons, a \in Accounts :
                 g.held[q][a] = IF a # who THEN f.held[q][a]
                                ELSE IF q = r THEN f.held[q][a] + m
                                ELSE IF q = s THEN f.held[q][a] + n
                                ELSE f.held[q][a]
<1> DEFINE mid == Hold(f, r, who, m)
           g == Hold(mid, s, who, n)
<1>1. f.free[who] \in Nat /\ m + n <= f.free[who]
  BY DEF Funds, CanHold
<1>2. CanHold(f, who, m)
  BY <1>1 DEF CanHold
<1>3. Moves(f, mid, r, who, m) /\ mid.free[who] = f.free[who] - m
  BY <1>2, HoldMoves
<1> HIDE DEF mid
<1>4. mid \in Funds /\ CanHold(mid, who, n)
  BY <1>1, <1>3 DEF Moves, CanHold
<1>5. Moves(mid, g, s, who, n)
  BY <1>4, HoldMoves
<1> HIDE DEF g
<1>6. g \in Funds /\ Total(g) = Total(f)
  BY <1>3, <1>5 DEF Moves
<1>7. \A q \in HoldReasons, a \in Accounts :
         g.held[q][a] = IF a # who THEN f.held[q][a]
                        ELSE IF q = r THEN f.held[q][a] + m
                        ELSE IF q = s THEN f.held[q][a] + n
                        ELSE f.held[q][a]
  BY <1>3, <1>5 DEF Moves
<1> QED BY <1>6, <1>7 DEF g, mid

----------------------------------------------------------------------------
(* Registration, stake and exit                                             *)

\* register_provider keeps the books and the total.
LEMMA RegisterMoney ==
    ASSUME TypeOK, TypeOK', Books, NEW who \in Accounts, NEW stake \in Nat,
           register_provider(who, stake)
    PROVE  MoneyStep
<1>1. /\ Providers[who] = None /\ CanHold(funds, who, stake + StorageDeposit)
      /\ funds' = Hold(Hold(funds, "ProviderStake", who, stake),
                       "StorageDeposit", who, StorageDeposit)
      /\ Providers' = [Providers EXCEPT ![who] = NewProvider(stake, DefaultSettings)]
      /\ UNCHANGED <<StorageAgreements, Buckets, Challenges>>
  BY DEF register_provider, challengeVars
<1>2. /\ NewProvider(stake, DefaultSettings) # None
      /\ NewProvider(stake, DefaultSettings).stake = stake
  <2>1. NewProvider(stake, DefaultSettings) # None
    BY NewProviderType, DefaultSettingsType, NoneAssumption
  <2> QED BY <2>1 DEF NewProvider
<1>3. Providers'[who] = NewProvider(stake, DefaultSettings)
      /\ \A a \in Accounts : a # who => Providers'[a] = Providers[a]
  BY <1>1 DEF TypeOK
<1>4. /\ funds \in Funds /\ StorageDeposit \in Nat
      /\ "ProviderStake" \in HoldReasons /\ "StorageDeposit" \in HoldReasons
  BY ConfigAssumption DEF TypeOK, HoldReasons
<1>5. /\ Total(funds') = Total(funds)
      /\ \A q \in HoldReasons, a \in Accounts :
            funds'.held[q][a] = IF a # who THEN funds.held[q][a]
                                ELSE IF q = "ProviderStake" THEN funds.held[q][a] + stake
                                ELSE IF q = "StorageDeposit"
                                THEN funds.held[q][a] + StorageDeposit
                                ELSE funds.held[q][a]
  BY <1>1, <1>4, TwoHolds
<1>6. HeldKept("AgreementPayment") /\ HeldKept("ChallengeDeposit")
  BY <1>5 DEF HeldKept, Held, HoldReasons
<1>7. StakesBacked'
  <2>1. ASSUME NEW a \in Accounts PROVE Held("ProviderStake", a)' = StakeOf(a)'
    <3>1. CASE a = who
      <4>1. Held("ProviderStake", a) = 0
        BY <1>1, <3>1 DEF Books, StakesBacked, StakeOf
      <4> QED BY <1>2, <1>3, <1>4, <1>5, <3>1, <4>1 DEF Held, StakeOf
    <3>2. CASE a # who
      BY <1>3, <1>4, <1>5, <3>2 DEF Held, StakeOf, Books, StakesBacked
    <3> QED BY <3>1, <3>2
  <2> QED BY <2>1 DEF StakesBacked
<1>8. AgreementsSteady /\ BucketsSteady
  BY <1>1, SteadyWhenUnchanged
<1>9. TicketsBacked'
  <2>1. ASSUME NEW a \in Accounts
        PROVE  /\ StorageTickets(a)' = StorageTickets(a) + (IF a = who THEN 1 ELSE 0)
               /\ Held("StorageDeposit", a)' =
                     IF a = who THEN Held("StorageDeposit", a) + 1 * StorageDeposit
                     ELSE Held("StorageDeposit", a)
    <3>1. ProviderTicket(a)' = ProviderTicket(a) + (IF a = who THEN 1 ELSE 0)
      BY <1>1, <1>2, <1>3 DEF ProviderTicket
    <3>2. /\ SumFunction(BucketDeposits(a))' = SumFunction(BucketDeposits(a))
          /\ SumFunction(AgreementDeposits(a))' = SumFunction(AgreementDeposits(a))
          /\ SumFunction(BucketDeposits(a)) \in Nat /\ SumFunction(AgreementDeposits(a)) \in Nat
          /\ ProviderTicket(a) \in Nat
      BY <1>8, BucketSumKept, AgreementSumKept, StorageTicketsType, TicketSums
    <3>3. StorageTickets(a)' = StorageTickets(a) + (IF a = who THEN 1 ELSE 0)
      BY <3>1, <3>2 DEF StorageTickets
    <3>4. 1 * StorageDeposit = StorageDeposit
      BY <1>4
    <3> QED BY <1>4, <1>5, <3>3, <3>4 DEF Held
  <2> QED BY <2>1, OnePays DEF Books
<1>10. StakeFallsWhenDue
  <2>1. ASSUME NEW a \in Accounts PROVE ~(StakeOf(a)' < StakeOf(a))
    <3>1. StakeOf(a) \in Nat
      BY TypeFacts DEF StakeOf, ProviderInfo
    <3>2. CASE a = who
      BY <1>1, <1>2, <1>3, <3>2 DEF StakeOf
    <3>3. CASE a # who
      BY <1>3, <3>1, <3>3 DEF StakeOf
    <3> QED BY <3>2, <3>3
  <2> QED BY <2>1 DEF StakeFallsWhenDue
<1> QED BY <1>1, <1>5, <1>6, <1>7, <1>8, <1>9, <1>10, EscrowsKept, ChallengesKept
        DEF MoneyStep, Books

\* add_stake keeps the books and the total.
LEMMA AddStakeMoney ==
    ASSUME TypeOK, TypeOK', Books, NEW who \in Accounts, NEW amount \in Nat,
           add_stake(who, amount)
    PROVE  MoneyStep
<1> DEFINE info == [Providers[who] EXCEPT !.stake = @ + amount]
<1>1. /\ Providers[who] # None /\ CanHold(funds, who, amount)
      /\ funds' = Hold(funds, "ProviderStake", who, amount)
      /\ Providers' = [Providers EXCEPT ![who] = info]
      /\ UNCHANGED <<StorageAgreements, Buckets, Challenges>>
  BY DEF add_stake, challengeVars
<1>2. Providers[who] \in ProviderInfo
  BY <1>1, TypeFacts
<1>3. info \in ProviderInfo /\ info.stake = Providers[who].stake + amount
      /\ Providers[who].stake \in Nat
  BY <1>2 DEF ProviderInfo
<1> HIDE DEF info
<1>4. Providers'[who] = info /\ info # None
      /\ \A a \in Accounts : a # who => Providers'[a] = Providers[a]
  BY <1>1, <1>3, NoneAssumption DEF TypeOK
<1>5. funds \in Funds /\ "ProviderStake" \in HoldReasons
  BY DEF TypeOK, HoldReasons
<1>6. Moves(funds, funds', "ProviderStake", who, amount)
  BY <1>1, <1>5, HoldMoves
<1>7. /\ HeldKept("AgreementPayment") /\ HeldKept("ChallengeDeposit")
      /\ HeldKept("StorageDeposit") /\ Total(funds)' = Total(funds)
  BY <1>6, OtherHoldsKept DEF HoldReasons
<1>8. ASSUME NEW a \in Accounts
      PROVE  /\ ProviderTicket(a)' = ProviderTicket(a)
             /\ Held("ProviderStake", a)' = StakeOf(a)'
             /\ ~(StakeOf(a)' < StakeOf(a))
  <2>1. /\ Held("ProviderStake", a)' = IF a = who THEN Held("ProviderStake", a) + amount
                                       ELSE Held("ProviderStake", a)
        /\ Held("ProviderStake", a) = StakeOf(a)
    BY <1>5, <1>6 DEF Moves, Held, Books, StakesBacked
  <2>2. StakeOf(a)' = StakeOf(a) + (IF a = who THEN amount ELSE 0) /\ StakeOf(a) \in Nat
    BY <1>1, <1>3, <1>4, TypeFacts DEF StakeOf, ProviderInfo
  <2>3. ProviderTicket(a)' = ProviderTicket(a)
    BY <1>1, <1>4 DEF ProviderTicket
  <2> QED BY <2>1, <2>2, <2>3
<1>9. AgreementsSteady /\ BucketsSteady
  BY <1>1, SteadyWhenUnchanged
<1>10. StakesBacked' /\ StakeFallsWhenDue
  BY <1>8 DEF StakesBacked, StakeFallsWhenDue
<1> QED BY <1>1, <1>7, <1>8, <1>9, <1>10, EscrowsKept, ChallengesKept, TicketsKept
        DEF MoneyStep, Books

\* A provider that leaves gets its stake and its deposit back, once nothing
\* is left to be answered for.
LEMMA LeaveMoney ==
    ASSUME TypeOK, TypeOK', Books, Ledger, NEW who \in Accounts, complete_deregister(who)
    PROVE  MoneyStep
<1> DEFINE stake == Providers[who].stake
           mid == DropDeposit(funds, who)
<1>1. /\ Providers[who] # None
      /\ CanRelease(funds, "ProviderStake", who, stake)
      /\ funds' = Release(mid, "ProviderStake", who, stake)
      /\ Providers' = [Providers EXCEPT ![who] = None]
      /\ UNCHANGED <<StorageAgreements, Buckets, Challenges>>
  BY DEF complete_deregister, challengeVars
<1>2. Providers[who] \in ProviderInfo /\ stake \in Nat
  BY <1>1, TypeFacts DEF ProviderInfo
<1>3. Providers'[who] = None /\ \A a \in Accounts : a # who => Providers'[a] = Providers[a]
  BY <1>1 DEF TypeOK
<1>4. /\ funds \in Funds /\ StorageDeposit \in Nat
      /\ "ProviderStake" \in HoldReasons /\ "StorageDeposit" \in HoldReasons
  BY ConfigAssumption DEF TypeOK, HoldReasons
<1>5. 1 <= StorageTickets(who)
  <2>1. ProviderTicket(who) = 1
    BY <1>1 DEF ProviderTicket
  <2> QED BY <2>1, StorageTicketsType DEF StorageTickets
<1>6. StorageDeposit <= funds.held["StorageDeposit"][who]
  <2>1. 1 * StorageDeposit <= Held("StorageDeposit", who)
    BY <1>5, TicketsHeld DEF Books
  <2>2. 1 * StorageDeposit = StorageDeposit
    BY <1>4
  <2> QED BY <2>1, <2>2 DEF Held
<1>7. Moves(funds, mid, "StorageDeposit", who, -StorageDeposit)
  BY <1>4, <1>6, DropDepositMoves
<1> HIDE DEF mid, stake
<1>8. mid \in Funds /\ CanRelease(mid, "ProviderStake", who, stake)
  BY <1>1, <1>4, <1>7 DEF Moves, CanRelease
<1>9. Moves(mid, funds', "ProviderStake", who, -stake)
  BY <1>1, <1>2, <1>4, <1>8, ReleaseMoves
<1>10. /\ HeldKept("AgreementPayment") /\ HeldKept("ChallengeDeposit")
       /\ Total(funds)' = Total(funds)
  BY <1>7, <1>9 DEF Moves, HeldKept, Held, HoldReasons
<1>11. ASSUME NEW a \in Accounts
       PROVE  /\ Held("ProviderStake", a)' = IF a = who THEN Held("ProviderStake", a) + (-stake)
                                             ELSE Held("ProviderStake", a)
              /\ Held("StorageDeposit", a)' =
                    IF a = who THEN Held("StorageDeposit", a) + (-StorageDeposit)
                    ELSE Held("StorageDeposit", a)
  BY <1>4, <1>7, <1>9 DEF Moves, Held
<1>12. AgreementsSteady /\ BucketsSteady
  BY <1>1, SteadyWhenUnchanged
<1>13. StakesBacked'
  <2>1. ASSUME NEW a \in Accounts PROVE Held("ProviderStake", a)' = StakeOf(a)'
    <3>1. Held("ProviderStake", a) = StakeOf(a)
      BY DEF Books, StakesBacked
    <3>2. CASE a = who
      <4>1. StakeOf(a) = stake /\ StakeOf(a)' = 0
        BY <1>1, <1>3, <3>2 DEF StakeOf, stake
      <4> QED BY <1>2, <1>11, <3>1, <3>2, <4>1
    <3>3. CASE a # who
      BY <1>3, <1>11, <3>1, <3>3 DEF StakeOf
    <3> QED BY <3>2, <3>3
  <2> QED BY <2>1 DEF StakesBacked
<1>14. TicketsBacked'
  <2>1. ASSUME NEW a \in Accounts
        PROVE  StorageTickets(a)' = StorageTickets(a) - (IF a = who THEN 1 ELSE 0)
    <3>1. ProviderTicket(a)' = ProviderTicket(a) - (IF a = who THEN 1 ELSE 0)
      BY <1>1, <1>3 DEF ProviderTicket
    <3>2. /\ SumFunction(BucketDeposits(a))' = SumFunction(BucketDeposits(a))
          /\ SumFunction(AgreementDeposits(a))' = SumFunction(AgreementDeposits(a))
          /\ SumFunction(BucketDeposits(a)) \in Nat /\ SumFunction(AgreementDeposits(a)) \in Nat
          /\ ProviderTicket(a) \in Nat
      BY <1>12, BucketSumKept, AgreementSumKept, StorageTicketsType, TicketSums
    <3> QED BY <3>1, <3>2 DEF StorageTickets
  <2> QED BY <1>5, <1>11, <2>1, OneGetsBack DEF Books
<1>15. StakeFallsWhenDue
  <2>1. ASSUME NEW a \in Accounts, a # who PROVE ~(StakeOf(a)' < StakeOf(a))
    <3>1. StakeOf(a) \in Nat
      BY TypeFacts DEF StakeOf, ProviderInfo
    <3> QED BY <1>3, <2>1, <3>1 DEF StakeOf
  <2>2. StakeDue(who)
    <3>1. /\ Providers[who].deregister_at # None /\ now >= Providers[who].deregister_at
          /\ Providers[who].committed_bytes = 0 /\ PendingChallenges[who] = 0
      BY DEF complete_deregister
    <3>2. \A b \in BucketIds : StorageAgreements[b][who] = None
      BY <1>1, <3>1, NothingCommitted DEF Ledger
    <3>3. OpenAgainst(who) = {}
      <4>1. Cardinality(OpenAgainst(who)) = 0
        BY <3>1 DEF Ledger, ChallengeLedger, PendingCountersExact
      <4>2. IsFiniteSet(OpenAgainst(who))
        BY FS_Subset DEF OpenAgainst, TypeOK, ChallengeTypeOK
      <4> QED BY <4>1, <4>2, FS_EmptySet
    <3> QED BY <3>1, <3>2, <3>3 DEF StakeDue
  <2> QED BY <2>1, <2>2 DEF StakeFallsWhenDue
<1> QED BY <1>1, <1>10, <1>12, <1>13, <1>14, <1>15, EscrowsKept, ChallengesKept
        DEF MoneyStep, Books

\* A provider record replaced by one with the same stake.
LEMMA StakeSteady ==
    ASSUME TypeOK, NEW who \in Accounts, Providers[who] # None, NEW info \in ProviderInfo,
           Providers' = [Providers EXCEPT ![who] = info],
           info.stake = Providers[who].stake
    PROVE  \A a \in Accounts : StakeOf(a)' = StakeOf(a) /\ ProviderTicket(a)' = ProviderTicket(a)
<1>1. Providers'[who] = info /\ info # None
      /\ \A a \in Accounts : a # who => Providers'[a] = Providers[a]
  BY NoneAssumption DEF TypeOK
<1> QED BY <1>1 DEF StakeOf, ProviderTicket

\* An agreement record replaced by one with the same owner, depositor and
\* escrow.
LEMMA AgreementSteady ==
    ASSUME TypeOK, NEW b \in BucketIds, NEW p \in Accounts, StorageAgreements[b][p] # None,
           NEW agreement \in StorageAgreement,
           StorageAgreements' = [StorageAgreements EXCEPT ![b][p] = agreement],
           agreement.owner = StorageAgreements[b][p].owner,
           agreement.depositor = StorageAgreements[b][p].depositor,
           escrow(agreement) = escrow(StorageAgreements[b][p])
    PROVE  AgreementsSteady
<1>1. /\ StorageAgreements'[b][p] = agreement /\ agreement # None
      /\ \A c \in BucketIds, q \in Accounts :
            c # b \/ q # p => StorageAgreements'[c][q] = StorageAgreements[c][q]
  BY NoneAssumption DEF TypeOK
<1>2. \A a \in Accounts :
         /\ EscrowIn(agreement, a) = EscrowIn(StorageAgreements[b][p], a)
         /\ TicketOn(agreement, a) = TicketOn(StorageAgreements[b][p], a)
  BY <1>1 DEF EscrowIn, TicketOn
<1> QED BY <1>1, <1>2 DEF AgreementsSteady

\* Every call of the registry keeps the books and the total.
LEMMA ProviderNextMoney ==
    ASSUME TypeOK, TypeOK', Books, Ledger, NEW who \in Accounts, ProviderNext(who)
    PROVE  MoneyStep
<1>1. ASSUME NEW stake \in StakeAmounts, register_provider(who, stake) PROVE MoneyStep
  <2>1. stake \in Nat
    BY DataAssumption
  <2> QED BY <1>1, <2>1, RegisterMoney
<1>2. ASSUME NEW amount \in StakeAmounts, add_stake(who, amount) PROVE MoneyStep
  <2>1. amount \in Nat
    BY DataAssumption
  <2> QED BY <1>2, <2>1, AddStakeMoney
<1>3. ASSUME deregister_provider(who) PROVE MoneyStep
  <2> DEFINE info == WithExit(Providers[who], now + DeregisterAnnouncementPeriod)
  <2>1. /\ Providers[who] # None /\ Providers' = [Providers EXCEPT ![who] = info]
        /\ UNCHANGED <<StorageAgreements, Buckets, Challenges, funds>>
    BY <1>3 DEF deregister_provider, challengeVars
  <2>2. Providers[who] \in ProviderInfo /\ now + DeregisterAnnouncementPeriod \in Nat
    BY <2>1, TypeFacts, ConfigAssumption
  <2>3. info \in ProviderInfo /\ info.stake = Providers[who].stake
    BY <2>2, WithExitType DEF WithExit, ProviderInfo
  <2> HIDE DEF info
  <2> QED BY <2>1, <2>3, StakeSteady, SteadyWhenUnchanged, QuietMoney
<1>4. ASSUME complete_deregister(who) PROVE MoneyStep
  BY <1>4, LeaveMoney
<1>5. ASSUME cancel_deregister(who) PROVE MoneyStep
  <2> DEFINE info == WithExit(Providers[who], None)
  <2>1. /\ Providers[who] # None /\ Providers' = [Providers EXCEPT ![who] = info]
        /\ UNCHANGED <<StorageAgreements, Buckets, Challenges, funds>>
    BY <1>5 DEF cancel_deregister, challengeVars
  <2>2. Providers[who] \in ProviderInfo
    BY <2>1, TypeFacts
  <2>3. info \in ProviderInfo /\ info.stake = Providers[who].stake
    BY <2>2, WithExitType DEF WithExit, ProviderInfo
  <2> HIDE DEF info
  <2> QED BY <2>1, <2>3, StakeSteady, SteadyWhenUnchanged, QuietMoney
<1>6. ASSUME NEW settings \in SettingsChoices, update_provider_settings(who, settings)
      PROVE  MoneyStep
  <2> DEFINE info == [Providers[who] EXCEPT !.settings = settings]
  <2>1. /\ Providers[who] # None /\ Providers' = [Providers EXCEPT ![who] = info]
        /\ UNCHANGED <<StorageAgreements, Buckets, Challenges, funds>>
    BY <1>6 DEF update_provider_settings, challengeVars
  <2>2. Providers[who] \in ProviderInfo
    BY <2>1, TypeFacts
  <2>3. info \in ProviderInfo /\ info.stake = Providers[who].stake
    BY <2>2, DataAssumption DEF ProviderInfo
  <2> HIDE DEF info
  <2> QED BY <2>1, <2>3, StakeSteady, SteadyWhenUnchanged, QuietMoney
<1>7. ASSUME NEW b \in BucketIds, NEW blocked \in BlockFlags,
             set_extensions_blocked(who, b, blocked)
      PROVE  MoneyStep
  <2> DEFINE agreement == [StorageAgreements[b][who] EXCEPT !.extensions_blocked = blocked]
  <2>1. /\ StorageAgreements[b][who] # None
        /\ StorageAgreements' = [StorageAgreements EXCEPT ![b][who] = agreement]
        /\ UNCHANGED <<Providers, Buckets, Challenges, funds>>
    BY <1>7 DEF set_extensions_blocked, challengeVars
  <2>2. StorageAgreements[b][who] \in StorageAgreement
    BY <2>1, TypeFacts
  <2>3. /\ agreement \in StorageAgreement
        /\ agreement.owner = StorageAgreements[b][who].owner
        /\ agreement.depositor = StorageAgreements[b][who].depositor
        /\ escrow(agreement) = escrow(StorageAgreements[b][who])
    BY <2>2, DataAssumption DEF StorageAgreement, escrow
  <2> HIDE DEF agreement
  <2> QED BY <2>1, <2>3, AgreementSteady, SteadyWhenUnchanged, QuietMoney
<1> QED BY <1>1, <1>2, <1>3, <1>4, <1>5, <1>6, <1>7 DEF ProviderNext
----------------------------------------------------------------------------
(* Buckets and members                                                      *)

\* A bucket that keeps its members and its creator keeps its deposits.
LEMMA SameTickets ==
    ASSUME NEW bucket, NEW other, other.members = bucket.members,
           other.creator = bucket.creator
    PROVE  \A a \in Accounts : BucketTickets(other, a) = BucketTickets(bucket, a)
BY DEF BucketTickets

\* One member more is one deposit more, on whoever added it.
LEMMA MemberTicket ==
    ASSUME NEW bucket, NEW other, NEW m \in Accounts, other.creator = bucket.creator,
           bucket.members[m] = None, other.members[m] # None,
           \A x \in Accounts : x # m => other.members[x] = bucket.members[x],
           NEW a \in Accounts
    PROVE  BucketTickets(other, a) =
              BucketTickets(bucket, a) + (IF a = other.members[m].depositor THEN 1 ELSE 0)
<1> DEFINE S == {x \in Accounts : bucket.members[x] # None /\ bucket.members[x].depositor = a}
           T == {x \in Accounts : other.members[x] # None /\ other.members[x].depositor = a}
           own == IF bucket.creator = a THEN 1 ELSE 0
<1>1. IsFiniteSet(S) /\ m \notin S
  <2>1. S \subseteq Accounts
    OBVIOUS
  <2> QED BY <2>1, FS_Subset, DataAssumption
<1>2. Cardinality(S) \in Nat /\ own \in Nat
  BY <1>1, FS_CardinalityType
<1>3. BucketTickets(bucket, a) = Cardinality(S) + own /\ BucketTickets(other, a) = Cardinality(T) + own
  BY DEF BucketTickets
<1>4. CASE a = other.members[m].depositor
  <2>1. T = S \cup {m}
    BY <1>4
  <2>2. Cardinality(S \cup {m}) = Cardinality(S) + 1
    BY <1>1, FS_AddElement
  <2> HIDE DEF S, T, own
  <2> QED BY <1>2, <1>3, <1>4, <2>1, <2>2
<1>5. CASE a # other.members[m].depositor
  <2>1. T = S
    BY <1>5
  <2> HIDE DEF S, T, own
  <2> QED BY <1>2, <1>3, <1>5, <2>1
<1> QED BY <1>4, <1>5

\* A new bucket has two deposits, both on its admin.
LEMMA NewBucketTickets ==
    ASSUME NEW admin \in Accounts, NEW n, NEW primaries, NEW v, NEW a \in Accounts
    PROVE  BucketTickets(NewBucket(admin, n, primaries, v), a) = IF a = admin THEN 2 ELSE 0
<1> DEFINE bucket == NewBucket(admin, n, primaries, v)
           S == {x \in Accounts : bucket.members[x] # None /\ bucket.members[x].depositor = a}
           entry == [role |-> "Admin", depositor |-> admin]
<1>1. entry # None /\ entry.depositor = admin
  <2>1. entry \in Member
    BY DEF Member
  <2> QED BY <2>1, NoneAssumption
<1> HIDE DEF entry
<1>2. /\ bucket.creator = admin
      /\ \A x \in Accounts : bucket.members[x] = IF x = admin THEN entry ELSE None
  BY DEF NewBucket, entry
<1>3. BucketTickets(bucket, a) = Cardinality(S) + (IF bucket.creator = a THEN 1 ELSE 0)
  BY DEF BucketTickets
<1> HIDE DEF bucket
<1>4. CASE a = admin
  <2>1. S = {admin}
    BY <1>1, <1>2, <1>4
  <2>2. Cardinality({admin}) = 1
    BY FS_Singleton
  <2> HIDE DEF S
  <2> QED BY <1>2, <1>3, <1>4, <2>1, <2>2 DEF bucket
<1>5. CASE a # admin
  <2>1. S = {}
    BY <1>1, <1>2, <1>5
  <2>2. Cardinality({}) = 0
    BY FS_EmptySet
  <2> HIDE DEF S
  <2> QED BY <1>2, <1>3, <1>5, <2>1, <2>2 DEF bucket
<1> QED BY <1>4, <1>5

\* One bucket record is replaced.
LEMMA BucketReplacedTickets ==
    ASSUME TypeOK, NEW b \in BucketIds, NEW bucket,
           Buckets' = [Buckets EXCEPT ![b] = bucket]
    PROVE  OnlyBucket(b) /\ Buckets'[b] = bucket
BY DEF OnlyBucket, TypeOK

\* The deposits that are paid and returned with one bucket.
LEMMA BucketTicketsStep ==
    ASSUME NEW b \in BucketIds, OnlyBucket(b), AgreementsSteady, UNCHANGED Providers,
           NEW a \in Accounts
    PROVE  /\ TicketsIn(Buckets[b], a) <= StorageTickets(a)
           /\ StorageTickets(a)' = StorageTickets(a) - TicketsIn(Buckets[b], a)
                                                     + TicketsIn(Buckets'[b], a)
<1>1. ProviderTicket(a)' = ProviderTicket(a) /\ ProviderTicket(a) \in Nat
  BY DEF ProviderTicket
<1>2. /\ SumFunction(AgreementDeposits(a))' = SumFunction(AgreementDeposits(a))
      /\ SumFunction(AgreementDeposits(a)) \in Nat
  BY AgreementSumKept, StorageTicketsType
<1>3. TicketsIn(Buckets[b], a) \in Nat /\ TicketsIn(Buckets'[b], a) \in Nat
  BY TicketsInType
<1>4. /\ SumFunction(BucketDeposits(a)) \in Nat
      /\ TicketsIn(Buckets[b], a) <= SumFunction(BucketDeposits(a))
      /\ SumFunction(BucketDeposits(a))' =
            SumFunction(BucketDeposits(a)) - TicketsIn(Buckets[b], a) + TicketsIn(Buckets'[b], a)
  BY BucketTicketStep
<1> QED BY <1>1, <1>2, <1>3, <1>4 DEF StorageTickets

\* A step that moves storage deposits and nothing else.
LEMMA DepositsMoney ==
    ASSUME TypeOK, TypeOK', Books, TicketsBacked', Total(funds)' = Total(funds),
           HeldKept("ProviderStake"), HeldKept("AgreementPayment"),
           HeldKept("ChallengeDeposit"), UNCHANGED <<Providers, StorageAgreements, Challenges>>
    PROVE  MoneyStep
<1>1. AgreementsSteady /\ \A a \in Accounts : StakeOf(a)' = StakeOf(a)
  BY SteadyWhenUnchanged
<1>2. StakesBacked' /\ EscrowsBacked' /\ ChallengesBacked'
  BY <1>1, StakesKept, EscrowsKept, ChallengesKept DEF Books
<1> QED BY <1>1, <1>2, StakeNotLower DEF MoneyStep, Books

\* create_bucket keeps the books and the total.
LEMMA CreateBucketMoney ==
    ASSUME TypeOK, TypeOK', Books, BucketIdsFresh, NEW who \in Accounts, NEW n \in Nat,
           NEW v \in {"Public", "Private"}, create_bucket(who, n, v)
    PROVE  MoneyStep
<1> DEFINE b == NextBucketId
           bucket == NewBucket(who, n, <<>>, v)
           paid == 2 * StorageDeposit
<1>1. /\ b \in BucketIds /\ CanHold(funds, who, paid)
      /\ funds' = Hold(funds, "StorageDeposit", who, paid)
      /\ Buckets' = [Buckets EXCEPT ![b] = bucket]
      /\ UNCHANGED <<Providers, StorageAgreements, Challenges>>
  BY DEF create_bucket, CanCreateBucket, CreateBucketInternal, challengeVars
<1>2. Buckets[b] = None
  <2>1. b >= NextBucketId
    BY <1>1 DEF BucketIds
  <2> QED BY <1>1, <2>1 DEF BucketIdsFresh
<1>3. OnlyBucket(b) /\ Buckets'[b] = bucket
  BY <1>1, BucketReplacedTickets
<1>4. bucket # None
  <2>1. <<>> \in Seq(Accounts)
    OBVIOUS
  <2>2. bucket \in Bucket
    BY <2>1, NewBucketType
  <2> QED BY <2>2, NoneAssumption
<1>5. funds \in Funds /\ "StorageDeposit" \in HoldReasons /\ paid \in Nat
  BY ConfigAssumption DEF TypeOK, HoldReasons
<1>6. ASSUME NEW a \in Accounts
      PROVE  TicketsIn(Buckets[b], a) = 0 /\ TicketsIn(Buckets'[b], a) = IF a = who THEN 2 ELSE 0
  BY <1>2, <1>3, <1>4, NewBucketTickets DEF TicketsIn
<1> HIDE DEF b, bucket, paid
<1>7. Moves(funds, funds', "StorageDeposit", who, paid)
  BY <1>1, <1>5, HoldMoves
<1>8. /\ HeldKept("AgreementPayment") /\ HeldKept("ChallengeDeposit")
      /\ HeldKept("ProviderStake") /\ Total(funds)' = Total(funds)
  BY <1>7, OtherHoldsKept DEF HoldReasons
<1>9. AgreementsSteady
  BY <1>1, SteadyWhenUnchanged
<1>10. TicketsBacked'
  <2>1. ASSUME NEW a \in Accounts
        PROVE  /\ StorageTickets(a)' = StorageTickets(a) + (IF a = who THEN 2 ELSE 0)
               /\ Held("StorageDeposit", a)' =
                     IF a = who THEN Held("StorageDeposit", a) + 2 * StorageDeposit
                     ELSE Held("StorageDeposit", a)
    <3>1. StorageTickets(a)' = StorageTickets(a) - TicketsIn(Buckets[b], a)
                                                 + TicketsIn(Buckets'[b], a)
      BY <1>1, <1>3, <1>9, BucketTicketsStep
    <3>2. StorageTickets(a) \in Nat
      BY StorageTicketsType
    <3>3. StorageTickets(a)' = StorageTickets(a) + (IF a = who THEN 2 ELSE 0)
      BY <1>6, <3>1, <3>2
    <3> QED BY <1>5, <1>7, <3>3 DEF Moves, Held, paid
  <2> QED BY <2>1, OnePays DEF Books
<1> QED BY <1>1, <1>8, <1>10, DepositsMoney

\* delete_bucket keeps the books and the total.
LEMMA DeleteBucketMoney ==
    ASSUME TypeOK, TypeOK', Books, NEW who, NEW b \in BucketIds, delete_bucket(who, b)
    PROVE  MoneyStep
<1> DEFINE tickets == [a \in Accounts |-> BucketTickets(Buckets[b], a)]
<1>1. /\ Buckets[b] # None
      /\ funds' = DropDeposits(funds, tickets)
      /\ Buckets' = [Buckets EXCEPT ![b] = None]
      /\ UNCHANGED <<Providers, StorageAgreements, Challenges>>
  BY DEF delete_bucket, challengeVars
<1>2. OnlyBucket(b) /\ Buckets'[b] = None /\ AgreementsSteady
  BY <1>1, BucketReplacedTickets, SteadyWhenUnchanged
<1>3. tickets \in [Accounts -> Nat]
      /\ \A a \in Accounts : tickets[a] = TicketsIn(Buckets[b], a)
  BY <1>1, BucketTicketsType DEF TicketsIn
<1> HIDE DEF tickets
<1>4. ASSUME NEW a \in Accounts
      PROVE  /\ tickets[a] <= StorageTickets(a)
             /\ StorageTickets(a)' = StorageTickets(a) - tickets[a]
             /\ tickets[a] * StorageDeposit <= Held("StorageDeposit", a)
  <2>1. /\ TicketsIn(Buckets[b], a) <= StorageTickets(a)
        /\ StorageTickets(a)' = StorageTickets(a) - TicketsIn(Buckets[b], a)
                                                  + TicketsIn(Buckets'[b], a)
    BY <1>1, <1>2, BucketTicketsStep
  <2>2. TicketsIn(Buckets'[b], a) = 0 /\ StorageTickets(a) \in Nat /\ tickets[a] \in Nat
    BY <1>2, <1>3, StorageTicketsType DEF TicketsIn
  <2>3. tickets[a] <= StorageTickets(a)
    BY <1>3, <2>1
  <2>4. tickets[a] * StorageDeposit <= Held("StorageDeposit", a)
    BY <2>2, <2>3, TicketsHeld DEF Books
  <2> QED BY <1>3, <2>1, <2>2, <2>3, <2>4
<1>5. funds \in Funds /\ \A a \in Accounts :
         tickets[a] * StorageDeposit <= funds.held["StorageDeposit"][a]
  BY <1>4 DEF TypeOK, Held
<1>6. /\ Total(funds') = Total(funds)
      /\ \A q \in HoldReasons, a \in Accounts :
            funds'.held[q][a] = IF q = "StorageDeposit"
                                THEN funds.held[q][a] - tickets[a] * StorageDeposit
                                ELSE funds.held[q][a]
  BY <1>1, <1>3, <1>5, DropDepositsMoves
<1>7. /\ HeldKept("AgreementPayment") /\ HeldKept("ChallengeDeposit")
      /\ HeldKept("ProviderStake")
  BY <1>6 DEF HeldKept, Held, HoldReasons
<1>8. \A a \in Accounts : Held("StorageDeposit", a)' =
                             Held("StorageDeposit", a) - tickets[a] * StorageDeposit
  BY <1>6 DEF Held, HoldReasons
<1>9. TicketsBacked'
  BY <1>3, <1>4, <1>8, TicketsReturned DEF Books
<1> QED BY <1>1, <1>6, <1>7, <1>9, DepositsMoney

\* Adding a member keeps the books and the total.
LEMMA AddMemberMoney ==
    ASSUME TypeOK, TypeOK', Books, NEW who \in Accounts, NEW b \in BucketIds,
           NEW member \in Accounts, NEW role \in Roles, AddMember(who, b, member, role)
    PROVE  MoneyStep
<1> DEFINE entry == [role |-> role, depositor |-> who]
           bucket == [Buckets[b] EXCEPT !.members[member] = entry]
<1>1. /\ Buckets[b] # None /\ Buckets[b].members[member] = None
      /\ CanHold(funds, who, StorageDeposit)
      /\ funds' = Hold(funds, "StorageDeposit", who, StorageDeposit)
      /\ Buckets' = [Buckets EXCEPT ![b] = bucket]
      /\ UNCHANGED <<Providers, StorageAgreements, Challenges>>
  BY DEF AddMember, challengeVars, IsMember, TypeOK
<1>2. entry \in Member /\ entry # None /\ entry.depositor = who
  BY DataAssumption, NoneAssumption DEF Member
<1>3. Buckets[b] \in Bucket
  BY <1>1, TypeFacts
<1> HIDE DEF entry
<1>4. /\ bucket.creator = Buckets[b].creator /\ bucket.members[member] = entry
      /\ \A x \in Accounts : x # member => bucket.members[x] = Buckets[b].members[x]
  BY <1>3 DEF Bucket
<1>5. bucket # None
  <2>1. [Buckets[b].members EXCEPT ![member] = entry] \in [Accounts -> Member \cup {None}]
    BY <1>2, <1>3 DEF Bucket
  <2>2. bucket \in Bucket
    BY <1>3, <2>1 DEF Bucket
  <2> QED BY <2>2, NoneAssumption
<1> HIDE DEF bucket
<1>6. OnlyBucket(b) /\ Buckets'[b] = bucket /\ AgreementsSteady
  BY <1>1, BucketReplacedTickets, SteadyWhenUnchanged
<1>7. funds \in Funds /\ "StorageDeposit" \in HoldReasons /\ StorageDeposit \in Nat
  BY ConfigAssumption DEF TypeOK, HoldReasons
<1>8. Moves(funds, funds', "StorageDeposit", who, StorageDeposit)
  BY <1>1, <1>7, HoldMoves
<1>9. /\ HeldKept("AgreementPayment") /\ HeldKept("ChallengeDeposit")
      /\ HeldKept("ProviderStake") /\ Total(funds)' = Total(funds)
  BY <1>8, OtherHoldsKept DEF HoldReasons
<1>10. TicketsBacked'
  <2>1. ASSUME NEW a \in Accounts
        PROVE  /\ StorageTickets(a)' = StorageTickets(a) + (IF a = who THEN 1 ELSE 0)
               /\ Held("StorageDeposit", a)' =
                     IF a = who THEN Held("StorageDeposit", a) + 1 * StorageDeposit
                     ELSE Held("StorageDeposit", a)
    <3>1. StorageTickets(a)' = StorageTickets(a) - TicketsIn(Buckets[b], a)
                                                 + TicketsIn(Buckets'[b], a)
      BY <1>1, <1>6, BucketTicketsStep
    <3>2. BucketTickets(bucket, a) = BucketTickets(Buckets[b], a) + (IF a = who THEN 1 ELSE 0)
      BY <1>1, <1>2, <1>4, MemberTicket
    <3>3. StorageTickets(a) \in Nat /\ BucketTickets(Buckets[b], a) \in Nat
      BY StorageTicketsType, BucketTicketsType
    <3>4. StorageTickets(a)' = StorageTickets(a) + (IF a = who THEN 1 ELSE 0)
      BY <1>1, <1>5, <1>6, <3>1, <3>2, <3>3 DEF TicketsIn
    <3>5. 1 * StorageDeposit = StorageDeposit
      BY <1>7
    <3> QED BY <1>7, <1>8, <3>4, <3>5 DEF Moves, Held
  <2> QED BY <2>1, OnePays DEF Books
<1> QED BY <1>1, <1>9, <1>10, DepositsMoney

\* remove_member keeps the books and the total.
LEMMA RemoveMemberMoney ==
    ASSUME TypeOK, TypeOK', Books, NEW who \in Accounts, NEW b \in BucketIds,
           NEW member \in Accounts, remove_member(who, b, member)
    PROVE  MoneyStep
<1> DEFINE depositor == Buckets[b].members[member].depositor
           bucket == [Buckets[b] EXCEPT !.members[member] = None]
<1>1. /\ Buckets[b] # None /\ Buckets[b].members[member] # None
      /\ funds' = DropDeposit(funds, depositor)
      /\ Buckets' = [Buckets EXCEPT ![b] = bucket]
      /\ UNCHANGED <<Providers, StorageAgreements, Challenges>>
  BY DEF remove_member, challengeVars, IsMember, TypeOK
<1>2. Buckets[b] \in Bucket
  BY <1>1, TypeFacts
<1>3. depositor \in Accounts
  BY <1>1, <1>2 DEF Bucket, Member
<1>4. /\ bucket.creator = Buckets[b].creator /\ bucket.members[member] = None
      /\ \A x \in Accounts : x # member => Buckets[b].members[x] = bucket.members[x]
  BY <1>2 DEF Bucket
<1>5. bucket # None
  <2>1. [Buckets[b].members EXCEPT ![member] = None] \in [Accounts -> Member \cup {None}]
    BY <1>2 DEF Bucket
  <2>2. bucket \in Bucket
    BY <1>2, <2>1 DEF Bucket
  <2> QED BY <2>2, NoneAssumption
<1> HIDE DEF bucket
<1>6. OnlyBucket(b) /\ Buckets'[b] = bucket /\ AgreementsSteady
  BY <1>1, BucketReplacedTickets, SteadyWhenUnchanged
<1>7. funds \in Funds /\ "StorageDeposit" \in HoldReasons /\ StorageDeposit \in Nat
  BY ConfigAssumption DEF TypeOK, HoldReasons
<1>8. ASSUME NEW a \in Accounts
      PROVE  /\ StorageTickets(a)' = StorageTickets(a) - (IF a = depositor THEN 1 ELSE 0)
             /\ (IF a = depositor THEN 1 ELSE 0) <= StorageTickets(a)
  <2>1. /\ StorageTickets(a)' = StorageTickets(a) - TicketsIn(Buckets[b], a)
                                                  + TicketsIn(Buckets'[b], a)
        /\ TicketsIn(Buckets[b], a) <= StorageTickets(a)
    BY <1>1, <1>6, BucketTicketsStep
  <2>2. BucketTickets(Buckets[b], a) = BucketTickets(bucket, a)
                                         + (IF a = depositor THEN 1 ELSE 0)
    BY <1>1, <1>4, MemberTicket
  <2>3. StorageTickets(a) \in Nat /\ BucketTickets(bucket, a) \in Nat
    BY StorageTicketsType, BucketTicketsType
  <2> HIDE DEF depositor
  <2> QED BY <1>1, <1>5, <1>6, <2>1, <2>2, <2>3 DEF TicketsIn
<1> HIDE DEF depositor
<1>9. 1 <= StorageTickets(depositor)
  BY <1>3, <1>8
<1>10. StorageDeposit <= funds.held["StorageDeposit"][depositor]
  <2>1. 1 * StorageDeposit <= Held("StorageDeposit", depositor)
    BY <1>3, <1>9, TicketsHeld DEF Books
  <2>2. 1 * StorageDeposit = StorageDeposit
    BY <1>7
  <2> QED BY <2>1, <2>2 DEF Held
<1>11. Moves(funds, funds', "StorageDeposit", depositor, -StorageDeposit)
  BY <1>1, <1>3, <1>7, <1>10, DropDepositMoves
<1>12. /\ HeldKept("AgreementPayment") /\ HeldKept("ChallengeDeposit")
       /\ HeldKept("ProviderStake") /\ Total(funds)' = Total(funds)
  BY <1>11, OtherHoldsKept DEF HoldReasons
<1>13. \A a \in Accounts : Held("StorageDeposit", a)' =
          IF a = depositor THEN Held("StorageDeposit", a) + (-StorageDeposit)
          ELSE Held("StorageDeposit", a)
  BY <1>7, <1>11 DEF Moves, Held
<1>14. TicketsBacked'
  BY <1>3, <1>8, <1>9, <1>13, OneGetsBack DEF Books
<1> QED BY <1>1, <1>12, <1>14, DepositsMoney

\* A bucket that only changes in what no deposit depends on.
LEMMA QuietBucket ==
    ASSUME TypeOK, TypeOK', Books, NEW b \in BucketIds, Buckets[b] # None,
           NEW bucket, bucket # None, Buckets' = [Buckets EXCEPT ![b] = bucket],
           \A a \in Accounts : BucketTickets(bucket, a) = BucketTickets(Buckets[b], a),
           UNCHANGED <<Providers, StorageAgreements, Challenges, funds>>
    PROVE  MoneyStep
<1>1. OnlyBucket(b) /\ Buckets'[b] = bucket
  BY BucketReplacedTickets
<1>2. \A a \in Accounts : TicketsIn(Buckets'[b], a) = TicketsIn(Buckets[b], a)
  BY <1>1 DEF TicketsIn
<1>3. BucketsSteady
  BY <1>1, <1>2 DEF OnlyBucket, BucketsSteady
<1> QED BY <1>3, SteadyWhenUnchanged, QuietMoney

\* Every bucket call keeps the books and the total.
LEMMA BucketNextMoney ==
    ASSUME TypeOK, TypeOK', Books, Ledger, NEW who \in Accounts, BucketNext(who)
    PROVE  MoneyStep
<1>0. ASSUME NEW b \in BucketIds, Buckets[b] # None, NEW bucket, bucket # None,
             bucket.members = Buckets[b].members, bucket.creator = Buckets[b].creator,
             Buckets' = [Buckets EXCEPT ![b] = bucket],
             UNCHANGED <<Providers, StorageAgreements, Challenges, funds>>
      PROVE  MoneyStep
  <2>1. \A a \in Accounts : BucketTickets(bucket, a) = BucketTickets(Buckets[b], a)
    BY <1>0, SameTickets
  <2> QED BY <1>0, <2>1, QuietBucket
<1>1. ASSUME NEW n \in MinProvidersChoices, NEW v \in Visibilities, create_bucket(who, n, v)
      PROVE  MoneyStep
  <2>1. n \in Nat /\ v \in {"Public", "Private"} /\ BucketIdsFresh
    BY DataAssumption DEF Ledger
  <2> QED BY <1>1, <2>1, CreateBucketMoney
<1>2. ASSUME NEW b \in BucketIds, delete_bucket(who, b) PROVE MoneyStep
  BY <1>2, DeleteBucketMoney
<1>3. ASSUME NEW b \in BucketIds, NEW n \in MinProvidersChoices, set_min_providers(who, b, n)
      PROVE  MoneyStep
  <2> DEFINE bucket == [Buckets[b] EXCEPT !.min_providers = n]
  <2>1. /\ Buckets[b] # None /\ Buckets' = [Buckets EXCEPT ![b] = bucket]
        /\ UNCHANGED <<Providers, StorageAgreements, Challenges, funds>>
    BY <1>3 DEF set_min_providers, challengeVars, TypeOK
  <2>2. Buckets[b] \in Bucket
    BY <2>1, TypeFacts
  <2>3. bucket \in Bucket /\ bucket.members = Buckets[b].members
        /\ bucket.creator = Buckets[b].creator
    BY <2>2, DataAssumption DEF Bucket
  <2> HIDE DEF bucket
  <2> QED BY <1>0, <2>1, <2>3, NoneAssumption
<1>4. ASSUME NEW b \in BucketIds, freeze_bucket(who, b) PROVE MoneyStep
  <2> DEFINE start == Buckets[b].snapshot.commitment.start_seq
             bucket == [Buckets[b] EXCEPT !.frozen_start_seq = start]
  <2>1. /\ Buckets[b] # None /\ Buckets' = [Buckets EXCEPT ![b] = bucket]
        /\ Buckets[b].snapshot # None
        /\ UNCHANGED <<Providers, StorageAgreements, Challenges, funds>>
    BY <1>4 DEF freeze_bucket, challengeVars, TypeOK
  <2>2. Buckets[b] \in Bucket
    BY <2>1, TypeFacts
  <2>3. start \in Nat
    BY <2>1, <2>2 DEF Bucket, BucketSnapshot, Commitment
  <2> HIDE DEF start
  <2>4. bucket \in Bucket /\ bucket.members = Buckets[b].members
        /\ bucket.creator = Buckets[b].creator
    BY <2>2, <2>3 DEF Bucket
  <2> HIDE DEF bucket
  <2> QED BY <1>0, <2>1, <2>4, NoneAssumption
<1>5. ASSUME NEW b \in BucketIds, NEW v \in Visibilities, set_bucket_visibility(who, b, v)
      PROVE  MoneyStep
  <2> DEFINE bucket == [Buckets[b] EXCEPT !.visibility = v]
  <2>1. /\ Buckets[b] # None /\ Buckets' = [Buckets EXCEPT ![b] = bucket]
        /\ UNCHANGED <<Providers, StorageAgreements, Challenges, funds>>
    BY <1>5 DEF set_bucket_visibility, challengeVars, TypeOK
  <2>2. Buckets[b] \in Bucket
    BY <2>1, TypeFacts
  <2>3. bucket \in Bucket /\ bucket.members = Buckets[b].members
        /\ bucket.creator = Buckets[b].creator
    BY <2>2, DataAssumption DEF Bucket
  <2> HIDE DEF bucket
  <2> QED BY <1>0, <2>1, <2>3, NoneAssumption
<1>6. ASSUME NEW b \in BucketIds, NEW member \in Accounts, NEW role \in Roles,
             ChangeRole(who, b, member, role)
      PROVE  MoneyStep
  <2> DEFINE entry == [Buckets[b].members[member] EXCEPT !.role = role]
             members == [Buckets[b].members EXCEPT ![member] = entry]
             bucket == [Buckets[b] EXCEPT !.members = members]
  <2>1. /\ Buckets[b] # None /\ Buckets[b].members[member] # None
        /\ UNCHANGED <<Providers, StorageAgreements, Challenges, funds>>
    BY <1>6 DEF ChangeRole, IsMember, challengeVars
  <2>2. Buckets[b] \in Bucket
    BY <2>1, TypeFacts
  <2>3. Buckets[b].members \in [Accounts -> Member \cup {None}]
        /\ Buckets[b].members[member] \in Member
    BY <2>1, <2>2 DEF Bucket
  <2>4. Buckets' = [Buckets EXCEPT ![b] = bucket]
    BY <1>6, <2>2, <2>3 DEF ChangeRole, TypeOK
  <2>5. entry \in Member /\ entry.depositor = Buckets[b].members[member].depositor
    BY <2>3, DataAssumption DEF Member
  <2> HIDE DEF entry
  <2>6. members \in [Accounts -> Member \cup {None}] /\ members[member] = entry
        /\ \A x \in Accounts : x # member => members[x] = Buckets[b].members[x]
    BY <2>3, <2>5
  <2> HIDE DEF members
  <2>7. bucket \in Bucket /\ bucket.creator = Buckets[b].creator /\ bucket.members = members
    BY <2>2, <2>6 DEF Bucket
  <2> HIDE DEF bucket
  <2>8. ASSUME NEW a \in Accounts
        PROVE  BucketTickets(bucket, a) = BucketTickets(Buckets[b], a)
    <3>1. entry # None
      BY <2>5, NoneAssumption
    <3>2. {x \in Accounts : bucket.members[x] # None /\ bucket.members[x].depositor = a}
            = {x \in Accounts : /\ Buckets[b].members[x] # None
                                /\ Buckets[b].members[x].depositor = a}
      BY <2>1, <2>5, <2>6, <2>7, <3>1
    <3> QED BY <2>7, <3>2 DEF BucketTickets
  <2> QED BY <2>1, <2>4, <2>7, <2>8, QuietBucket, NoneAssumption
<1>7. ASSUME NEW b \in BucketIds, NEW member \in Accounts, NEW role \in Roles,
             AddMember(who, b, member, role)
      PROVE  MoneyStep
  BY <1>7, AddMemberMoney
<1>8. ASSUME NEW b \in BucketIds, NEW member \in Accounts, remove_member(who, b, member)
      PROVE  MoneyStep
  BY <1>8, RemoveMemberMoney
<1>9. ASSUME NEW b \in BucketIds, NEW c \in Commitments, NEW signers \in SUBSET Accounts,
             checkpoint(who, b, c, signers)
      PROVE  MoneyStep
  <2> DEFINE bits == [i \in DOMAIN Buckets[b].primary_providers |->
                         Buckets[b].primary_providers[i] \in signers]
             bucket == Checkpointed(Buckets[b], c, bits)
  <2>1. /\ Buckets[b] # None /\ Buckets' = [Buckets EXCEPT ![b] = bucket]
        /\ UNCHANGED <<Providers, StorageAgreements, Challenges, funds>>
    BY <1>9 DEF checkpoint, challengeVars, TypeOK
  <2>2. Buckets[b] \in Bucket
    BY <2>1, TypeFacts
  <2>3. /\ bucket.members = Buckets[b].members /\ bucket.creator = Buckets[b].creator
        /\ "members" \in DOMAIN bucket
    BY <2>2 DEF Checkpointed, Bucket
  <2>4. bucket # None
    <3>1. Buckets[b].primary_providers \in Seq(Accounts)
      BY <2>2 DEF Bucket
    <3>2. bits \in [1 .. Len(Buckets[b].primary_providers) -> BOOLEAN]
      BY <3>1
    <3> HIDE DEF bits
    <3>3. bits \in Seq(BOOLEAN) /\ c \in Commitment
      <4>1. Len(Buckets[b].primary_providers) \in Nat
        BY <3>1
      <4>2. bits \in Seq(BOOLEAN)
        BY <3>2, <4>1, FunctionIsSeq
      <4> QED BY <4>2, DataAssumption
    <3>4. bucket \in Bucket
      BY <2>2, <3>3, CheckpointedType, TypeFacts
    <3> QED BY <3>4, NoneAssumption
  <2> HIDE DEF bucket
  <2> QED BY <1>0, <2>1, <2>3, <2>4
<1>10. ASSUME NEW b \in BucketIds, NEW signers \in SUBSET Accounts,
              extend_checkpoint(who, b, signers)
       PROVE  MoneyStep
  <2> DEFINE bits == [i \in DOMAIN Buckets[b].snapshot.primary_signers |->
                         \/ Buckets[b].snapshot.primary_signers[i]
                         \/ Buckets[b].primary_providers[i] \in signers]
             bucket == [Buckets[b] EXCEPT !.snapshot.primary_signers = bits]
  <2>1. /\ Buckets[b] # None /\ Buckets[b].snapshot # None
        /\ UNCHANGED <<Providers, StorageAgreements, Challenges, funds>>
    BY <1>10 DEF extend_checkpoint, challengeVars
  <2>2. Buckets[b] \in Bucket
    BY <2>1, TypeFacts
  <2>3. Buckets' = [Buckets EXCEPT ![b] = bucket]
    BY <1>10 DEF extend_checkpoint, TypeOK
  <2>4. /\ bucket.members = Buckets[b].members /\ bucket.creator = Buckets[b].creator
    <3> HIDE DEF bits
    <3> QED BY <2>2 DEF Bucket
  <2>5. bucket # None
    <3>1. BucketReplacedIn(b)
      BY <1>10, ExtendCheckpointType
    <3>2. PICK other \in Bucket : Buckets' = [Buckets EXCEPT ![b] = other]
      BY <3>1 DEF BucketReplacedIn
    <3>3. bucket = other
      <4> HIDE DEF bucket
      <4> QED BY <2>3, <3>2 DEF TypeOK
    <3> QED BY <3>3, NoneAssumption
  <2> HIDE DEF bucket
  <2> QED BY <1>0, <2>1, <2>3, <2>4, <2>5
<1> QED BY <1>1, <1>2, <1>3, <1>4, <1>5, <1>6, <1>7, <1>8, <1>9, <1>10
        DEF BucketNext, set_member
----------------------------------------------------------------------------
(* Redeeming a quote                                                        *)

\* The deposits that go with one agreement and its bucket.
LEMMA TicketsStep ==
    ASSUME NEW b \in BucketIds, NEW p \in Accounts, OnlyBucket(b), OnlyAgreement(b, p),
           NEW a \in Accounts, ProviderTicket(a)' = ProviderTicket(a)
    PROVE  /\ TicketOn(StorageAgreements[b][p], a) <= StorageTickets(a)
           /\ StorageTickets(a)' =
                 StorageTickets(a) - TicketsIn(Buckets[b], a) + TicketsIn(Buckets'[b], a)
                                   - TicketOn(StorageAgreements[b][p], a)
                                   + TicketOn(StorageAgreements'[b][p], a)
<1>1. ProviderTicket(a) \in Nat
  BY DEF ProviderTicket
<1>2. TicketsIn(Buckets[b], a) \in Nat /\ TicketsIn(Buckets'[b], a) \in Nat
  BY TicketsInType
<1>3. TicketOn(StorageAgreements[b][p], a) \in Nat /\ TicketOn(StorageAgreements'[b][p], a) \in Nat
  BY DEF TicketOn
<1>4. /\ SumFunction(BucketDeposits(a)) \in Nat
      /\ SumFunction(BucketDeposits(a))' =
            SumFunction(BucketDeposits(a)) - TicketsIn(Buckets[b], a) + TicketsIn(Buckets'[b], a)
  BY BucketTicketStep
<1>5. /\ SumFunction(AgreementDeposits(a)) \in Nat
      /\ TicketOn(StorageAgreements[b][p], a) <= SumFunction(AgreementDeposits(a))
      /\ SumFunction(AgreementDeposits(a))' =
            SumFunction(AgreementDeposits(a)) - TicketOn(StorageAgreements[b][p], a)
                                              + TicketOn(StorageAgreements'[b][p], a)
  BY AgreementTicketStep
<1> QED BY <1>1, <1>2, <1>3, <1>4, <1>5 DEF StorageTickets

\* An agreement is made: the owner's payment and deposits go on hold, extra
\* of them for the bucket if that is new.
LEMMA InsertMoney ==
    ASSUME TypeOK, TypeOK', Books, NEW q \in Quotes, NEW b \in BucketIds, NEW extra \in Nat,
           insert_agreement(b, q, extra + 1), Providers[q.provider] # None,
           StorageAgreements[b][q.provider] = None, UNCHANGED Challenges, OnlyBucket(b),
           \A a \in Accounts :
               TicketsIn(Buckets'[b], a) =
                   TicketsIn(Buckets[b], a) + (IF a = q.owner THEN extra ELSE 0)
    PROVE  MoneyStep
<1> DEFINE p == q.provider
           owner == q.owner
           tickets == extra + 1
           payment == TotalHold(q)
           agreement == NewAgreement(q)
           deposits == tickets * StorageDeposit
           info == [Providers[p] EXCEPT !.committed_bytes = @ + q.max_bytes]
<1>1. /\ CanHold(funds, owner, payment + deposits)
      /\ funds' = Hold(Hold(funds, "AgreementPayment", owner, payment),
                       "StorageDeposit", owner, deposits)
      /\ Providers' = [Providers EXCEPT ![p] = info]
      /\ StorageAgreements' = [StorageAgreements EXCEPT ![b][p] = agreement]
  BY DEF insert_agreement, TypeOK
<1>2. /\ p \in Accounts /\ owner \in Accounts /\ q \in Quote /\ q.max_bytes \in Nat
      /\ q.sync_balance \in Nat
  BY DataAssumption DEF Quote
<1>3. /\ agreement \in StorageAgreement /\ payment \in Nat /\ Payment(q) \in Nat
      /\ tickets \in Nat
  BY <1>2, NewAgreementType, TypeFacts
<1>4. agreement.owner = owner /\ agreement.depositor = owner /\ escrow(agreement) = payment
  BY DEF NewAgreement, escrow, TotalHold
<1>5. deposits \in Nat /\ StorageDeposit \in Nat
  BY <1>3, ConfigAssumption, Distribute
<1>6. info \in ProviderInfo /\ info.stake = Providers[p].stake
  BY <1>2, TypeFacts DEF ProviderInfo
<1> HIDE DEF p, owner, tickets, payment, agreement, deposits, info
<1>7. agreement # None
  BY <1>3, NoneAssumption
<1>8. OnlyAgreement(b, p) /\ StorageAgreements'[b][p] = agreement
      /\ StorageAgreements[b][p] = None
  BY <1>1, <1>2 DEF OnlyAgreement, TypeOK, p
<1>9. \A a \in Accounts : StakeOf(a)' = StakeOf(a) /\ ProviderTicket(a)' = ProviderTicket(a)
  <2>1. Providers[p] # None
    BY DEF p
  <2> QED BY <1>1, <1>2, <1>6, <2>1, StakeSteady
<1>10. /\ funds \in Funds /\ "AgreementPayment" \in HoldReasons
       /\ "StorageDeposit" \in HoldReasons
  BY DEF TypeOK, HoldReasons
<1>11. /\ Total(funds') = Total(funds)
       /\ \A r \in HoldReasons, a \in Accounts :
             funds'.held[r][a] = IF a # owner THEN funds.held[r][a]
                                 ELSE IF r = "AgreementPayment" THEN funds.held[r][a] + payment
                                 ELSE IF r = "StorageDeposit" THEN funds.held[r][a] + deposits
                                 ELSE funds.held[r][a]
  BY <1>1, <1>2, <1>3, <1>5, <1>10, TwoHolds, SMTT(30)
<1>12. HeldKept("ProviderStake") /\ HeldKept("ChallengeDeposit")
  BY <1>11 DEF HeldKept, Held, HoldReasons
<1>13. EscrowsBacked'
  <2>1. ASSUME NEW a \in Accounts
        PROVE  Held("AgreementPayment", a)' =
                   Held("AgreementPayment", a) - EscrowIn(StorageAgreements[b][p], a)
                                               + EscrowIn(StorageAgreements'[b][p], a)
    <3>1. /\ EscrowIn(StorageAgreements[b][p], a) = 0
          /\ EscrowIn(StorageAgreements'[b][p], a) = IF a = owner THEN payment ELSE 0
      BY <1>4, <1>7, <1>8 DEF EscrowIn
    <3>2. Held("AgreementPayment", a) \in Nat
      BY <1>10 DEF Held, Funds
    <3>3. Held("AgreementPayment", a)' =
             IF a = owner THEN Held("AgreementPayment", a) + payment
             ELSE Held("AgreementPayment", a)
      BY <1>10, <1>11 DEF Held
    <3> QED BY <1>3, <3>1, <3>2, <3>3
  <2> QED BY <1>2, <1>8, <2>1, EscrowsStep DEF Books
<1>14. TicketsBacked'
  <2>1. ASSUME NEW a \in Accounts
        PROVE  /\ StorageTickets(a)' = StorageTickets(a) + (IF a = owner THEN tickets ELSE 0)
               /\ Held("StorageDeposit", a)' =
                     IF a = owner THEN Held("StorageDeposit", a) + tickets * StorageDeposit
                     ELSE Held("StorageDeposit", a)
    <3>1. StorageTickets(a)' =
             StorageTickets(a) - TicketsIn(Buckets[b], a) + TicketsIn(Buckets'[b], a)
                               - TicketOn(StorageAgreements[b][p], a)
                               + TicketOn(StorageAgreements'[b][p], a)
      BY <1>2, <1>8, <1>9, TicketsStep
    <3>2. /\ TicketOn(StorageAgreements[b][p], a) = 0
          /\ TicketOn(StorageAgreements'[b][p], a) = IF a = owner THEN 1 ELSE 0
      BY <1>4, <1>7, <1>8 DEF TicketOn
    <3>3. /\ TicketsIn(Buckets'[b], a) =
                TicketsIn(Buckets[b], a) + (IF a = owner THEN extra ELSE 0)
          /\ TicketsIn(Buckets[b], a) \in Nat /\ StorageTickets(a) \in Nat
      BY TicketsInType, StorageTicketsType DEF owner
    <3>4. StorageTickets(a)' = StorageTickets(a) + (IF a = owner THEN tickets ELSE 0)
      BY <3>1, <3>2, <3>3 DEF tickets
    <3>5. Held("StorageDeposit", a)' =
             IF a = owner THEN Held("StorageDeposit", a) + deposits
             ELSE Held("StorageDeposit", a)
      BY <1>10, <1>11 DEF Held
    <3> QED BY <3>4, <3>5 DEF deposits
  <2> QED BY <1>2, <1>3, <2>1, OnePays DEF Books
<1> QED BY <1>9, <1>11, <1>12, <1>13, <1>14, StakesKept, ChallengesKept, StakeNotLower
        DEF MoneyStep, Books

\* Every redeemed quote keeps the books and the total.
LEMMA QuoteNextMoney ==
    ASSUME TypeOK, TypeOK', Books, Ledger, L!Exposed, NEW who \in Accounts, QuoteNext(who)
    PROVE  MoneyStep
<1>0. \A q \in Quotes : q.provider \in Accounts /\ q.owner \in Accounts
  BY DataAssumption DEF Quote
<1>1. ASSUME NEW q \in Quotes, NEW v \in Visibilities, create_bucket_with_primary(who, q, v)
      PROVE  MoneyStep
  <2> DEFINE b == NextBucketId
             bucket == NewBucket(who, 1, <<q.provider>>, v)
  <2>1. /\ b \in BucketIds /\ q.owner = who /\ Providers[q.provider] # None
        /\ insert_agreement(b, q, 3)
        /\ Buckets' = [Buckets EXCEPT ![b] = bucket]
        /\ UNCHANGED Challenges
    BY <1>1 DEF create_bucket_with_primary, CanCreateBucket, CreateBucketInternal,
                challengeVars, accept_quote, validate_terms
  <2>2. Buckets[b] = None
    <3>1. b >= NextBucketId
      BY <2>1 DEF BucketIds
    <3> QED BY <2>1, <3>1 DEF Ledger, BucketIdsFresh
  <2>3. StorageAgreements[b][q.provider] = None
    BY <1>0, <2>1, <2>2, ExposedFacts
  <2>4. OnlyBucket(b) /\ Buckets'[b] = bucket
    BY <2>1, BucketReplacedTickets
  <2>5. bucket # None
    <3>1. <<q.provider>> \in Seq(Accounts) /\ v \in {"Public", "Private"}
      BY <1>0, DataAssumption
    <3>2. bucket \in Bucket
      BY <3>1, NewBucketType
    <3> QED BY <3>2, NoneAssumption
  <2>6. \A a \in Accounts :
           TicketsIn(Buckets'[b], a) = TicketsIn(Buckets[b], a) + (IF a = q.owner THEN 2 ELSE 0)
    BY <2>1, <2>2, <2>4, <2>5, NewBucketTickets DEF TicketsIn
  <2>7. insert_agreement(b, q, 2 + 1)
    <3>1. 3 = 2 + 1
      OBVIOUS
    <3> QED BY <2>1, <3>1
  <2> HIDE DEF b, bucket
  <2> QED BY <2>1, <2>3, <2>4, <2>6, <2>7, InsertMoney
<1>2. ASSUME NEW b \in BucketIds, NEW q \in Quotes, insert_agreement(b, q, 1),
             Providers[q.provider] # None, StorageAgreements[b][q.provider] = None,
             UNCHANGED Challenges, BucketsSteady
      PROVE  MoneyStep
  <2>1. OnlyBucket(b)
    BY <1>2 DEF OnlyBucket, BucketsSteady
  <2>2. \A a \in Accounts :
           TicketsIn(Buckets'[b], a) = TicketsIn(Buckets[b], a) + (IF a = q.owner THEN 0 ELSE 0)
    BY <1>2, TicketsInType DEF BucketsSteady
  <2>3. insert_agreement(b, q, 0 + 1)
    <3>1. 1 = 0 + 1
      OBVIOUS
    <3> QED BY <1>2, <3>1
  <2> QED BY <1>2, <2>1, <2>2, <2>3, InsertMoney
<1>3. ASSUME NEW q \in Quotes, NEW b \in BucketIds, add_primary_provider(who, b, q)
      PROVE  MoneyStep
  <2> DEFINE bucket == AppendPrimary(Buckets[b], q.provider)
  <2>1. /\ Buckets[b] # None /\ Providers[q.provider] # None
        /\ insert_agreement(b, q, 1)
        /\ Buckets' = [Buckets EXCEPT ![b] = bucket]
        /\ UNCHANGED Challenges
    BY <1>3 DEF add_primary_provider, challengeVars, accept_quote, TypeOK
  <2>2. StorageAgreements[b][q.provider] = None
    <3>1. b # None
      BY ConfigAssumption, NoneAssumption DEF BucketIds
    <3> QED BY <1>3, <3>1 DEF add_primary_provider, accept_quote
  <2>3. Buckets[b] \in Bucket /\ bucket \in Bucket
    BY <1>0, <2>1, TypeFacts, AppendPrimaryType
  <2>4. bucket.members = Buckets[b].members /\ bucket.creator = Buckets[b].creator
    BY <2>3 DEF AppendPrimary, Bucket
  <2> HIDE DEF bucket
  <2>5. OnlyBucket(b) /\ Buckets'[b] = bucket /\ bucket # None
    BY <2>1, <2>3, BucketReplacedTickets, NoneAssumption
  <2>6. \A a \in Accounts : TicketsIn(Buckets'[b], a) = TicketsIn(Buckets[b], a)
    BY <2>1, <2>4, <2>5, SameTickets DEF TicketsIn
  <2>7. BucketsSteady
    BY <2>5, <2>6 DEF OnlyBucket, BucketsSteady
  <2> QED BY <1>2, <2>1, <2>2, <2>7
<1>4. ASSUME NEW q \in Quotes, NEW b \in BucketIds, add_replica_provider(who, b, q)
      PROVE  MoneyStep
  <2>1. /\ Providers[q.provider] # None /\ insert_agreement(b, q, 1)
        /\ UNCHANGED <<Challenges, Buckets>>
    BY <1>4 DEF add_replica_provider, challengeVars, accept_quote
  <2>2. StorageAgreements[b][q.provider] = None
    <3>1. b # None
      BY ConfigAssumption, NoneAssumption DEF BucketIds
    <3> QED BY <1>4, <3>1 DEF add_replica_provider, accept_quote
  <2> QED BY <1>2, <2>1, <2>2, SteadyWhenUnchanged
<1> QED BY <1>1, <1>3, <1>4 DEF QuoteNext
----------------------------------------------------------------------------
(* Agreements: payment and settlement                                       *)

\* Two movements of the same hold.
LEMMA MovesAgain ==
    ASSUME NEW f \in Funds, NEW g, NEW h, NEW r \in HoldReasons, NEW who \in Accounts,
           NEW m \in Int, NEW n \in Int, Moves(f, g, r, who, m), Moves(g, h, r, who, n)
    PROVE  Moves(f, h, r, who, m + n)
<1>1. h \in Funds /\ Total(h) = Total(f)
  BY DEF Moves
<1>2. ASSUME NEW q \in HoldReasons, NEW a \in Accounts
      PROVE  h.held[q][a] = IF q = r /\ a = who THEN f.held[q][a] + (m + n) ELSE f.held[q][a]
  <2>1. f.held[q][a] \in Nat
    BY DEF Funds
  <2>2. /\ g.held[q][a] = IF q = r /\ a = who THEN f.held[q][a] + m ELSE f.held[q][a]
        /\ h.held[q][a] = IF q = r /\ a = who THEN g.held[q][a] + n ELSE g.held[q][a]
    BY DEF Moves
  <2> QED BY <2>1, <2>2
<1> QED BY <1>1, <1>2 DEF Moves

\* An agreement changes its escrow by n, and the owner's hold follows.
LEMMA EscrowMoney ==
    ASSUME TypeOK, TypeOK', Books, NEW b \in BucketIds, NEW p \in Accounts,
           StorageAgreements[b][p] # None, NEW agreement \in StorageAgreement,
           StorageAgreements' = [StorageAgreements EXCEPT ![b][p] = agreement],
           agreement.owner = StorageAgreements[b][p].owner,
           agreement.depositor = StorageAgreements[b][p].depositor,
           NEW n \in Int, escrow(agreement) = escrow(StorageAgreements[b][p]) + n,
           Moves(funds, funds', "AgreementPayment", agreement.owner, n),
           UNCHANGED <<Buckets, Challenges>>,
           \A a \in Accounts : StakeOf(a)' = StakeOf(a) /\ ProviderTicket(a)' = ProviderTicket(a)
    PROVE  MoneyStep
<1> DEFINE old == StorageAgreements[b][p]
<1>1. /\ OnlyAgreement(b, p) /\ StorageAgreements'[b][p] = agreement /\ agreement # None
      /\ old \in StorageAgreement
  BY NoneAssumption, TypeFacts DEF OnlyAgreement, TypeOK
<1>2. escrow(old) \in Nat /\ escrow(agreement) \in Nat
  BY <1>1 DEF escrow, StorageAgreement
<1>3. /\ HeldKept("ProviderStake") /\ HeldKept("ChallengeDeposit")
      /\ HeldKept("StorageDeposit") /\ Total(funds)' = Total(funds)
  BY OtherHoldsKept DEF HoldReasons
<1>4. EscrowsBacked'
  <2>1. ASSUME NEW a \in Accounts
        PROVE  Held("AgreementPayment", a)' =
                   Held("AgreementPayment", a) - EscrowIn(StorageAgreements[b][p], a)
                                               + EscrowIn(StorageAgreements'[b][p], a)
    <3>1. /\ EscrowIn(StorageAgreements[b][p], a) =
                IF a = agreement.owner THEN escrow(old) ELSE 0
          /\ EscrowIn(StorageAgreements'[b][p], a) =
                IF a = agreement.owner THEN escrow(old) + n ELSE 0
      BY <1>1 DEF EscrowIn
    <3>2. Held("AgreementPayment", a) \in Nat
      BY DEF Held, TypeOK, Funds, HoldReasons
    <3>3. Held("AgreementPayment", a)' =
             IF a = agreement.owner THEN Held("AgreementPayment", a) + n
             ELSE Held("AgreementPayment", a)
      BY DEF Held, Moves, HoldReasons
    <3> HIDE DEF old
    <3> QED BY <1>2, <3>1, <3>2, <3>3
  <2> QED BY <1>1, <2>1, EscrowsStep DEF Books
<1>5. TicketsBacked'
  <2>1. ASSUME NEW a \in Accounts
        PROVE  Held("StorageDeposit", a)' = StorageDeposit * StorageTickets(a)'
    <3>1. TicketOn(StorageAgreements'[b][p], a) = TicketOn(StorageAgreements[b][p], a)
      BY <1>1 DEF TicketOn
    <3>2. SumFunction(AgreementDeposits(a))' = SumFunction(AgreementDeposits(a))
      <4>1. AgreementDeposits(a)' = AgreementDeposits(a)
        <5>1. ASSUME NEW x \in Slots
              PROVE  TicketOn(StorageAgreements'[x[1]][x[2]], a)
                       = TicketOn(StorageAgreements[x[1]][x[2]], a)
          <6>1. x[1] \in BucketIds /\ x[2] \in Accounts
            BY DEF Slots
          <6>2. CASE x[1] = b /\ x[2] = p
            BY <3>1, <6>2
          <6>3. CASE x[1] # b \/ x[2] # p
            BY <1>1, <6>1, <6>3 DEF OnlyAgreement
          <6> QED BY <6>2, <6>3
        <5> QED BY <5>1 DEF AgreementDeposits
      <4>2. SumFunction(AgreementDeposits(a)') = SumFunction(AgreementDeposits(a))
        BY <4>1
      <4> QED BY <4>2
    <3>3. BucketsSteady
      BY SteadyWhenUnchanged
    <3>4. StorageTickets(a)' = StorageTickets(a)
      BY <3>2, <3>3, BucketSumKept DEF StorageTickets
    <3> QED BY <1>3, <3>4 DEF HeldKept, Books, TicketsBacked
  <2> QED BY <2>1 DEF TicketsBacked
<1> QED BY <1>3, <1>4, <1>5, StakesKept, ChallengesKept, StakeNotLower
        DEF MoneyStep, Books

\* An agreement closes once its escrow has left the owner's hold.
LEMMA CloseMoney ==
    ASSUME TypeOK, TypeOK', Books, L!Exposed, NEW b \in BucketIds, NEW p \in Accounts,
           StorageAgreements[b][p] # None, NEW f,
           Moves(funds, f, "AgreementPayment", StorageAgreements[b][p].owner,
                 -escrow(StorageAgreements[b][p])),
           CloseAgreement(b, p, f)
    PROVE  MoneyStep
<1> DEFINE old == StorageAgreements[b][p]
           owner == old.owner
           depositor == old.depositor
           info == FreeBytes(Providers[p], old)
           bucket == IF old.role = "Primary" THEN remove_primary_from_bucket(Buckets[b], p)
                     ELSE Buckets[b]
<1>1. /\ old \in StorageAgreement /\ owner \in Accounts /\ depositor \in Accounts
      /\ Providers[p] # None /\ Providers[p] \in ProviderInfo
      /\ Buckets[b] # None /\ Buckets[b] \in Bucket
  BY TypeFacts, ExposedFacts DEF StorageAgreement
<1>2. /\ Providers' = [Providers EXCEPT ![p] = info]
      /\ Buckets' = [Buckets EXCEPT ![b] = bucket]
      /\ StorageAgreements' = [StorageAgreements EXCEPT ![b][p] = None]
      /\ funds' = DropDeposit(f, depositor)
      /\ UNCHANGED Challenges
  BY <1>1 DEF CloseAgreement, TypeOK, challengeVars
<1>3. info \in ProviderInfo /\ info.stake = Providers[p].stake
  BY <1>1, FreeBytesType DEF FreeBytes, ProviderInfo
<1>4. /\ bucket \in Bucket /\ bucket.members = Buckets[b].members
      /\ bucket.creator = Buckets[b].creator
  <2>1. remove_primary_from_bucket(Buckets[b], p) \in Bucket
    BY <1>1, RemovePrimaryType
  <2>2. \A primaries, snapshot :
           LET other == [Buckets[b] EXCEPT !.primary_providers = primaries,
                                           !.snapshot = snapshot]
           IN  other.members = Buckets[b].members /\ other.creator = Buckets[b].creator
    BY <1>1 DEF Bucket
  <2>3. /\ remove_primary_from_bucket(Buckets[b], p).members = Buckets[b].members
        /\ remove_primary_from_bucket(Buckets[b], p).creator = Buckets[b].creator
    BY <2>2 DEF remove_primary_from_bucket
  <2> QED BY <1>1, <2>1, <2>3
<1> HIDE DEF info, bucket
<1>5. \A a \in Accounts : StakeOf(a)' = StakeOf(a) /\ ProviderTicket(a)' = ProviderTicket(a)
  BY <1>1, <1>2, <1>3, StakeSteady
<1>6. /\ OnlyBucket(b)
      /\ \A a \in Accounts : TicketsIn(Buckets'[b], a) = TicketsIn(Buckets[b], a)
  <2>1. OnlyBucket(b) /\ Buckets'[b] = bucket /\ bucket # None
    BY <1>2, <1>4, BucketReplacedTickets, NoneAssumption
  <2> QED BY <1>1, <1>4, <2>1, SameTickets DEF TicketsIn
<1>7. OnlyAgreement(b, p) /\ StorageAgreements'[b][p] = None
  BY <1>2 DEF OnlyAgreement, TypeOK
<1>8. ASSUME NEW a \in Accounts
      PROVE  /\ StorageTickets(a)' = StorageTickets(a) - (IF a = depositor THEN 1 ELSE 0)
             /\ (IF a = depositor THEN 1 ELSE 0) <= StorageTickets(a)
  <2>1. /\ TicketOn(old, a) <= StorageTickets(a)
        /\ StorageTickets(a)' =
              StorageTickets(a) - TicketsIn(Buckets[b], a) + TicketsIn(Buckets'[b], a)
                                - TicketOn(old, a) + TicketOn(StorageAgreements'[b][p], a)
    BY <1>5, <1>6, <1>7, TicketsStep
  <2>2. /\ TicketOn(old, a) = IF a = depositor THEN 1 ELSE 0
        /\ TicketOn(StorageAgreements'[b][p], a) = 0
    BY <1>7 DEF TicketOn
  <2>3. /\ StorageTickets(a) \in Nat /\ TicketsIn(Buckets[b], a) \in Nat
        /\ TicketsIn(Buckets'[b], a) = TicketsIn(Buckets[b], a)
    BY <1>6, StorageTicketsType, TicketsInType
  <2> HIDE DEF old, depositor
  <2> QED BY <2>1, <2>2, <2>3
<1>9. 1 <= StorageTickets(depositor)
  BY <1>1, <1>8
<1>10. funds \in Funds /\ StorageDeposit \in Nat
       /\ "StorageDeposit" \in HoldReasons /\ "AgreementPayment" \in HoldReasons
  BY ConfigAssumption DEF TypeOK, HoldReasons
<1>11. f \in Funds /\ StorageDeposit <= f.held["StorageDeposit"][depositor]
  <2>1. 1 * StorageDeposit <= Held("StorageDeposit", depositor)
    BY <1>1, <1>9, TicketsHeld DEF Books
  <2>2. 1 * StorageDeposit = StorageDeposit
    BY <1>10
  <2>3. f \in Funds
        /\ f.held["StorageDeposit"][depositor] = funds.held["StorageDeposit"][depositor]
    BY <1>1, <1>10 DEF Moves
  <2> QED BY <2>1, <2>2, <2>3 DEF Held
<1>12. Moves(f, funds', "StorageDeposit", depositor, -StorageDeposit)
  BY <1>1, <1>2, <1>11, DropDepositMoves
<1>13. Moves(funds, f, "AgreementPayment", owner, -escrow(old))
  OBVIOUS
<1> HIDE DEF depositor, owner
<1>14. /\ HeldKept("ProviderStake") /\ HeldKept("ChallengeDeposit")
       /\ Total(funds)' = Total(funds)
  BY <1>12, <1>13 DEF Moves, HeldKept, Held, HoldReasons
<1>15. ASSUME NEW a \in Accounts
       PROVE  /\ Held("StorageDeposit", a)' =
                    IF a = depositor THEN Held("StorageDeposit", a) + (-StorageDeposit)
                    ELSE Held("StorageDeposit", a)
              /\ Held("AgreementPayment", a)' =
                    IF a = owner THEN Held("AgreementPayment", a) + (-escrow(old))
                    ELSE Held("AgreementPayment", a)
  BY <1>10, <1>12, <1>13 DEF Moves, Held
<1>16. EscrowsBacked'
  <2>1. ASSUME NEW a \in Accounts
        PROVE  Held("AgreementPayment", a)' =
                   Held("AgreementPayment", a) - EscrowIn(StorageAgreements[b][p], a)
                                               + EscrowIn(StorageAgreements'[b][p], a)
    <3>1. /\ EscrowIn(StorageAgreements[b][p], a) = IF a = owner THEN escrow(old) ELSE 0
          /\ EscrowIn(StorageAgreements'[b][p], a) = 0
      BY <1>7 DEF EscrowIn, owner
    <3>2. Held("AgreementPayment", a) \in Nat /\ escrow(old) \in Nat
      BY <1>1, <1>10 DEF Held, Funds, escrow, StorageAgreement
    <3> HIDE DEF old
    <3> QED BY <1>15, <3>1, <3>2
  <2> QED BY <1>7, <2>1, EscrowsStep DEF Books
<1>17. TicketsBacked'
  <2>1. depositor \in Accounts
    BY <1>1 DEF depositor
  <2> QED BY <1>8, <1>9, <1>15, <2>1, OneGetsBack DEF Books
<1> QED BY <1>2, <1>5, <1>14, <1>16, <1>17, StakesKept, ChallengesKept, StakeNotLower
        DEF MoneyStep, Books

\* finalize_agreement splits the escrow among the provider, the treasury and
\* the owner, and nothing is left over.
LEMMA FinalizeMoney ==
    ASSUME TypeOK, TypeOK', Books, L!Exposed, NEW b \in BucketIds, NEW p \in Accounts,
           NEW action \in EndAction, StorageAgreements[b][p] # None,
           finalize_agreement(b, p, action)
    PROVE  MoneyStep
<1> DEFINE agreement == StorageAgreements[b][p]
           r == "AgreementPayment"
           owner == agreement.owner
           to_burn == BurnAmount(agreement, action)
           to_provider == saturating_sub(agreement.payment_locked, to_burn)
           sync == agreement.sync_balance
           paid == Settle(funds, r, owner, p, to_provider)
           burned == Settle(paid, r, owner, Treasury, to_burn)
           returned == Release(burned, r, owner, sync)
<1>1. /\ agreement \in StorageAgreement /\ owner \in Accounts
      /\ agreement.payment_locked \in Nat /\ sync \in Nat
  BY TypeFacts DEF StorageAgreement
<1>2. to_burn \in Nat /\ to_burn <= agreement.payment_locked
  BY <1>1, BurnAmountType
<1>3. to_provider \in Nat /\ to_provider + to_burn + sync = escrow(agreement)
  BY <1>1, <1>2 DEF saturating_sub, escrow
<1>4. escrow(agreement) <= funds.held[r][owner]
  BY DEF finalize_agreement, CanRelease
<1>5. CloseAgreement(b, p, returned)
  BY DEF finalize_agreement
<1>6. /\ funds \in Funds /\ r \in HoldReasons /\ funds.held[r][owner] \in Nat
      /\ p \in Owners /\ Treasury \in Owners
  BY <1>1 DEF TypeOK, Funds, HoldReasons, Owners
<1> HIDE DEF r, owner, to_burn, to_provider, sync
<1>7. Moves(funds, paid, r, owner, -to_provider)
  <2>1. CanRelease(funds, r, owner, to_provider)
    BY <1>1, <1>2, <1>3, <1>4, <1>6 DEF CanRelease
  <2> QED BY <1>1, <1>3, <1>6, <2>1, SettleMoves
<1> HIDE DEF paid
<1>8. Moves(paid, burned, r, owner, -to_burn)
  <2>1. paid \in Funds /\ paid.held[r][owner] = funds.held[r][owner] + (-to_provider)
    BY <1>1, <1>6, <1>7 DEF Moves
  <2>2. CanRelease(paid, r, owner, to_burn)
    BY <1>1, <1>2, <1>3, <1>4, <1>6, <2>1 DEF CanRelease
  <2> QED BY <1>1, <1>2, <1>6, <2>1, <2>2, SettleMoves
<1> HIDE DEF burned
<1>9. Moves(funds, burned, r, owner, (-to_provider) + (-to_burn))
  <2>1. -to_provider \in Int /\ -to_burn \in Int
    BY <1>2, <1>3
  <2> QED BY <1>1, <1>6, <1>7, <1>8, <2>1, MovesAgain
<1>10. Moves(burned, returned, r, owner, -sync)
  <2>1. burned \in Funds
        /\ burned.held[r][owner] = funds.held[r][owner] + ((-to_provider) + (-to_burn))
    BY <1>1, <1>6, <1>9 DEF Moves
  <2>2. CanRelease(burned, r, owner, sync)
    BY <1>1, <1>2, <1>3, <1>4, <1>6, <2>1 DEF CanRelease
  <2> QED BY <1>1, <1>6, <2>1, <2>2, ReleaseMoves
<1> HIDE DEF returned
<1>11. Moves(funds, returned, r, owner, -escrow(agreement))
  <2>1. -sync \in Int /\ (-to_provider) + (-to_burn) \in Int
    BY <1>1, <1>2, <1>3
  <2>2. Moves(funds, returned, r, owner, ((-to_provider) + (-to_burn)) + (-sync))
    BY <1>1, <1>6, <1>9, <1>10, <2>1, MovesAgain
  <2>3. ((-to_provider) + (-to_burn)) + (-sync) = -escrow(agreement)
    BY <1>1, <1>2, <1>3
  <2> QED BY <2>2, <2>3
<1> QED BY <1>5, <1>11, CloseMoney DEF r, owner

\* remove_slashed keeps the books and the total.
LEMMA RemoveSlashedMoney ==
    ASSUME TypeOK, TypeOK', Books, L!Exposed, NEW b \in BucketIds, NEW p \in Accounts,
           remove_slashed(b, p)
    PROVE  MoneyStep
<1> DEFINE agreement == StorageAgreements[b][p]
           owner == agreement.owner
           amount == escrow(agreement)
           f == Release(funds, "AgreementPayment", owner, amount)
<1>1. /\ StorageAgreements[b][p] # None
      /\ CanRelease(funds, "AgreementPayment", owner, amount)
      /\ CloseAgreement(b, p, f)
  BY DEF remove_slashed
<1>2. agreement \in StorageAgreement
  BY <1>1, TypeFacts
<1>3. owner \in Accounts /\ amount \in Nat /\ funds \in Funds
      /\ "AgreementPayment" \in HoldReasons
  BY <1>2 DEF StorageAgreement, escrow, TypeOK, HoldReasons
<1>4. Moves(funds, f, "AgreementPayment", owner, -amount)
  BY <1>1, <1>3, ReleaseMoves
<1> HIDE DEF f
<1> QED BY <1>1, <1>4, CloseMoney

\* extend_agreement pays the provider out of the agreement's escrow and locks
\* the caller's payment on its owner.
LEMMA ExtendMoney ==
    ASSUME TypeOK, TypeOK', Books, NEW who \in Accounts, NEW b \in BucketIds,
           NEW p \in Accounts, NEW d \in Nat, NEW m, extend_agreement(who, b, p, d, m)
    PROVE  MoneyStep
<1> DEFINE old == StorageAgreements[b][p]
           settings == Providers[p].settings
           elapsed == ElapsedPayment(old)
           owner == old.owner
           settled == Settle(funds, "AgreementPayment", owner, p, elapsed)
           payment == calculate_payment(settings.price_per_byte, old.max_bytes, d)
           locked == saturating_sub(old.payment_locked, elapsed) + payment
           agreement == Extended(old, settings, d, locked)
<1>1. /\ StorageAgreements[b][p] # None /\ Providers[p] # None
      /\ CanRelease(funds, "AgreementPayment", owner, elapsed)
      /\ CanHold(settled, who, payment)
      /\ old.role = "Replica" => settings.replica_sync_price # None
      /\ funds' = HoldPaymentFrom(settled, who, owner, payment)
      /\ StorageAgreements' = [StorageAgreements EXCEPT ![b][p] = agreement]
      /\ UNCHANGED <<Providers, Buckets, Challenges>>
  BY DEF extend_agreement, challengeVars, TypeOK
<1>2. /\ old \in StorageAgreement /\ owner \in Accounts /\ old.max_bytes \in Nat
      /\ old.payment_locked \in Nat /\ old.sync_balance \in Nat /\ now \in Nat
      /\ settings \in ProviderSettings /\ settings.price_per_byte \in Nat
  BY <1>1, TypeFacts DEF StorageAgreement, ProviderInfo, ProviderSettings
<1>3. elapsed \in Nat /\ elapsed <= old.payment_locked
  BY <1>2, ElapsedPaymentType
<1>4. payment \in Nat
  BY <1>2 DEF calculate_payment
<1> HIDE DEF elapsed, payment
<1>5. locked \in Nat /\ locked = old.payment_locked - elapsed + payment
  BY <1>2, <1>3, <1>4 DEF saturating_sub
<1> HIDE DEF locked
<1>6. /\ agreement \in StorageAgreement
      /\ agreement.owner = owner /\ agreement.depositor = old.depositor
      /\ agreement.payment_locked = locked /\ agreement.sync_balance = old.sync_balance
  <2>1. agreement \in StorageAgreement
    BY <1>1, <1>2, <1>5, ExtendedType
  <2>2. /\ agreement.owner = owner /\ agreement.depositor = old.depositor
        /\ agreement.payment_locked = locked /\ agreement.sync_balance = old.sync_balance
    BY <1>2 DEF Extended, StorageAgreement
  <2> QED BY <2>1, <2>2
<1>7. escrow(agreement) = escrow(old) + ((-elapsed) + payment)
  BY <1>2, <1>3, <1>4, <1>5, <1>6 DEF escrow
<1>8. funds \in Funds /\ "AgreementPayment" \in HoldReasons /\ p \in Owners
  BY DEF TypeOK, HoldReasons, Owners
<1>9. Moves(funds, settled, "AgreementPayment", owner, -elapsed)
  <2> HIDE DEF owner
  <2> QED BY <1>1, <1>2, <1>3, <1>8, SettleMoves
<1> HIDE DEF settled, agreement
<1>10. Moves(settled, funds', "AgreementPayment", owner, payment)
  <2>1. settled \in Funds
    BY <1>9 DEF Moves
  <2> QED BY <1>1, <1>2, <1>4, <2>1, HoldPaymentFromMoves
<1>11. (-elapsed) + payment \in Int /\ -elapsed \in Int /\ payment \in Int
  BY <1>3, <1>4
<1>12. Moves(funds, funds', "AgreementPayment", owner, (-elapsed) + payment)
  BY <1>2, <1>8, <1>9, <1>10, <1>11, MovesAgain
<1>13. \A a \in Accounts : StakeOf(a)' = StakeOf(a) /\ ProviderTicket(a)' = ProviderTicket(a)
  BY <1>1, SteadyWhenUnchanged
<1>14. Moves(funds, funds', "AgreementPayment", agreement.owner, (-elapsed) + payment)
  BY <1>6, <1>12
<1> QED BY <1>1, <1>6, <1>7, <1>11, <1>13, <1>14, EscrowMoney

\* top_up_agreement keeps the books and the total.
LEMMA TopUpMoney ==
    ASSUME TypeOK, TypeOK', Books, NEW who \in Accounts, NEW b \in BucketIds,
           NEW p \in Accounts, NEW n \in Nat, NEW m, top_up_agreement(who, b, p, n, m)
    PROVE  MoneyStep
<1> DEFINE old == StorageAgreements[b][p]
           owner == old.owner
           payment == calculate_payment(Providers[p].settings.price_per_byte, n,
                                        old.expires_at - now)
           agreement == Enlarged(old, n, payment)
           info == [Providers[p] EXCEPT !.committed_bytes = @ + n]
<1>1. /\ StorageAgreements[b][p] # None /\ Providers[p] # None
      /\ now < old.expires_at /\ CanHold(funds, who, payment)
      /\ funds' = HoldPaymentFrom(funds, who, owner, payment)
      /\ StorageAgreements' = [StorageAgreements EXCEPT ![b][p] = agreement]
      /\ Providers' = [Providers EXCEPT ![p] = info]
      /\ UNCHANGED <<Buckets, Challenges>>
  BY DEF top_up_agreement, challengeVars, TypeOK
<1>2. /\ old \in StorageAgreement /\ owner \in Accounts
      /\ old.payment_locked \in Nat /\ old.sync_balance \in Nat
      /\ old.expires_at \in Nat /\ now \in Nat
      /\ Providers[p] \in ProviderInfo /\ Providers[p].settings.price_per_byte \in Nat
  BY <1>1, TypeFacts DEF StorageAgreement, ProviderInfo, ProviderSettings
<1>3. payment \in Nat
  <2>1. old.expires_at - now \in Nat
    BY <1>1, <1>2
  <2> QED BY <1>2, <2>1 DEF calculate_payment
<1> HIDE DEF payment
<1>4. /\ agreement \in StorageAgreement
      /\ agreement.owner = owner /\ agreement.depositor = old.depositor
      /\ agreement.payment_locked = old.payment_locked + payment
      /\ agreement.sync_balance = old.sync_balance
  <2>1. agreement \in StorageAgreement
    BY <1>2, <1>3, EnlargedType
  <2>2. /\ agreement.owner = owner /\ agreement.depositor = old.depositor
        /\ agreement.payment_locked = old.payment_locked + payment
        /\ agreement.sync_balance = old.sync_balance
    BY <1>2 DEF Enlarged, StorageAgreement
  <2> QED BY <2>1, <2>2
<1>5. info \in ProviderInfo /\ info.stake = Providers[p].stake
  BY <1>2 DEF ProviderInfo
<1> HIDE DEF agreement, info
<1>6. escrow(agreement) = escrow(old) + payment
  BY <1>2, <1>3, <1>4 DEF escrow
<1>7. Moves(funds, funds', "AgreementPayment", agreement.owner, payment)
  BY <1>1, <1>2, <1>3, <1>4, HoldPaymentFromMoves DEF TypeOK
<1>8. \A a \in Accounts : StakeOf(a)' = StakeOf(a) /\ ProviderTicket(a)' = ProviderTicket(a)
  BY <1>1, <1>5, StakeSteady
<1>9. payment \in Int
  BY <1>3
<1> QED BY <1>1, <1>4, <1>6, <1>7, <1>8, <1>9, EscrowMoney

\* confirm_replica_sync keeps the books and the total.
LEMMA ConfirmSyncMoney ==
    ASSUME TypeOK, TypeOK', Books, NEW who \in Accounts, NEW b \in BucketIds,
           NEW i \in 0 .. Len(HISTORICAL_ROOT_PRIMES), confirm_replica_sync(who, b, i)
    PROVE  MoneyStep
<1> DEFINE old == StorageAgreements[b][who]
           owner == old.owner
           price == old.sync_price
           agreement == Synced(old, RootAt(Buckets[b], i))
<1>1. /\ StorageAgreements[b][who] # None /\ old.sync_balance >= price
      /\ CanRelease(funds, "AgreementPayment", owner, price)
      /\ funds' = Settle(funds, "AgreementPayment", owner, who, price)
      /\ StorageAgreements' = [StorageAgreements EXCEPT ![b][who] = agreement]
      /\ UNCHANGED <<Providers, Buckets, Challenges>>
  BY DEF confirm_replica_sync, challengeVars, TypeOK
<1>2. /\ old \in StorageAgreement /\ owner \in Accounts /\ price \in Nat
      /\ old.payment_locked \in Nat /\ old.sync_balance \in Nat
  BY <1>1, TypeFacts DEF StorageAgreement
<1>3. agreement \in StorageAgreement
  <2>1. AgreementReplacedIn(b, who)
    BY ConfirmSyncType
  <2>2. PICK other \in StorageAgreement :
           StorageAgreements' = [StorageAgreements EXCEPT ![b][who] = other]
    BY <2>1 DEF AgreementReplacedIn
  <2>3. agreement = other
    <3> HIDE DEF agreement
    <3> QED BY <1>1, <2>2 DEF TypeOK
  <2> QED BY <2>3
<1>4. /\ agreement.owner = owner /\ agreement.depositor = old.depositor
      /\ agreement.payment_locked = old.payment_locked
      /\ agreement.sync_balance = saturating_sub(old.sync_balance, price)
  BY <1>2 DEF Synced, StorageAgreement
<1> HIDE DEF agreement
<1>5. escrow(agreement) = escrow(old) + (-price) /\ -price \in Int
  <2> HIDE DEF price
  <2> QED BY <1>1, <1>2, <1>4, SMTT(30) DEF escrow, saturating_sub
<1>6. Moves(funds, funds', "AgreementPayment", agreement.owner, -price)
  <2>1. funds \in Funds /\ "AgreementPayment" \in HoldReasons /\ who \in Owners
    BY DEF TypeOK, HoldReasons, Owners
  <2>2. Moves(funds, funds', "AgreementPayment", owner, -price)
    <3> HIDE DEF owner, price
    <3> QED BY <1>1, <1>2, <2>1, SettleMoves
  <2> QED BY <1>4, <2>2
<1>7. \A a \in Accounts : StakeOf(a)' = StakeOf(a) /\ ProviderTicket(a)' = ProviderTicket(a)
  BY <1>1, SteadyWhenUnchanged
<1> QED BY <1>1, <1>3, <1>4, <1>5, <1>6, <1>7, EscrowMoney

\* top_up_replica_sync_balance keeps the books and the total.
LEMMA TopUpSyncMoney ==
    ASSUME TypeOK, TypeOK', Books, NEW who \in Accounts, NEW b \in BucketIds,
           NEW p \in Accounts, NEW n \in Nat, top_up_replica_sync_balance(who, b, p, n)
    PROVE  MoneyStep
<1> DEFINE old == StorageAgreements[b][p]
           owner == old.owner
           agreement == [old EXCEPT !.sync_balance = @ + n]
<1>1. /\ StorageAgreements[b][p] # None /\ CanHold(funds, who, n)
      /\ funds' = HoldPaymentFrom(funds, who, owner, n)
      /\ StorageAgreements' = [StorageAgreements EXCEPT ![b][p] = agreement]
      /\ UNCHANGED <<Providers, Buckets, Challenges>>
  BY DEF top_up_replica_sync_balance, challengeVars, TypeOK
<1>2. /\ old \in StorageAgreement /\ owner \in Accounts
      /\ old.payment_locked \in Nat /\ old.sync_balance \in Nat
  BY <1>1, TypeFacts DEF StorageAgreement
<1>3. /\ agreement \in StorageAgreement
      /\ agreement.owner = owner /\ agreement.depositor = old.depositor
      /\ agreement.payment_locked = old.payment_locked
      /\ agreement.sync_balance = old.sync_balance + n
  BY <1>2 DEF StorageAgreement
<1> HIDE DEF agreement
<1>4. escrow(agreement) = escrow(old) + n /\ n \in Int
  BY <1>2, <1>3 DEF escrow
<1>5. Moves(funds, funds', "AgreementPayment", agreement.owner, n)
  BY <1>1, <1>2, <1>3, HoldPaymentFromMoves DEF TypeOK
<1>6. \A a \in Accounts : StakeOf(a)' = StakeOf(a) /\ ProviderTicket(a)' = ProviderTicket(a)
  BY <1>1, SteadyWhenUnchanged
<1> QED BY <1>1, <1>3, <1>4, <1>5, <1>6, EscrowMoney

\* transfer_agreement_ownership takes the escrow from one owner's hold to the
\* other's; the deposit stays with who paid it.
LEMMA TransferMoney ==
    ASSUME TypeOK, TypeOK', Books, NEW who \in Accounts, NEW b \in BucketIds,
           NEW p \in Accounts, NEW new_owner \in Accounts,
           transfer_agreement_ownership(who, b, p, new_owner)
    PROVE  MoneyStep
<1> DEFINE old == StorageAgreements[b][p]
           amount == escrow(old)
           agreement == [old EXCEPT !.owner = new_owner]
<1>1. /\ new_owner # who /\ StorageAgreements[b][p] # None /\ old.owner = who
      /\ CanRelease(funds, "AgreementPayment", who, amount)
      /\ funds' = TransferPaymentOnHold(funds, who, new_owner, amount)
      /\ StorageAgreements' = [StorageAgreements EXCEPT ![b][p] = agreement]
      /\ UNCHANGED <<Providers, Buckets, Challenges>>
  BY DEF transfer_agreement_ownership, challengeVars, TypeOK
<1>2. old \in StorageAgreement
  BY <1>1, TypeFacts
<1>3. amount \in Nat
  BY <1>2 DEF StorageAgreement, escrow
<1>4. /\ agreement \in StorageAgreement
      /\ agreement.owner = new_owner /\ agreement.depositor = old.depositor
      /\ escrow(agreement) = amount
  BY <1>2 DEF StorageAgreement, escrow
<1> HIDE DEF agreement
<1>5. OnlyAgreement(b, p) /\ StorageAgreements'[b][p] = agreement /\ agreement # None
  BY <1>1, <1>4, NoneAssumption DEF OnlyAgreement, TypeOK
<1>6. /\ Total(funds') = Total(funds)
      /\ \A q \in HoldReasons, a \in Accounts :
            funds'.held[q][a] = IF q = "AgreementPayment"
                                THEN funds.held[q][a] + (IF a = new_owner THEN amount ELSE 0)
                                                      - (IF a = who THEN amount ELSE 0)
                                ELSE funds.held[q][a]
  BY <1>1, <1>3, TransferMoves DEF TypeOK
<1>7. /\ HeldKept("ProviderStake") /\ HeldKept("ChallengeDeposit")
      /\ HeldKept("StorageDeposit")
  BY <1>6 DEF HeldKept, Held, HoldReasons
<1>8. EscrowsBacked'
  <2>1. ASSUME NEW a \in Accounts
        PROVE  Held("AgreementPayment", a)' =
                   Held("AgreementPayment", a) - EscrowIn(StorageAgreements[b][p], a)
                                               + EscrowIn(StorageAgreements'[b][p], a)
    <3>1. /\ EscrowIn(StorageAgreements[b][p], a) = IF a = who THEN amount ELSE 0
          /\ EscrowIn(StorageAgreements'[b][p], a) = IF a = new_owner THEN amount ELSE 0
      BY <1>1, <1>4, <1>5 DEF EscrowIn
    <3>2. Held("AgreementPayment", a) \in Nat
      BY DEF Held, TypeOK, Funds, HoldReasons
    <3>3. Held("AgreementPayment", a)' =
             Held("AgreementPayment", a) + (IF a = new_owner THEN amount ELSE 0)
                                         - (IF a = who THEN amount ELSE 0)
      BY <1>6 DEF Held, HoldReasons
    <3> HIDE DEF amount
    <3> QED BY <1>3, <3>1, <3>2, <3>3
  <2> QED BY <1>5, <2>1, EscrowsStep DEF Books
<1>9. TicketsBacked'
  <2>1. ASSUME NEW a \in Accounts
        PROVE  Held("StorageDeposit", a)' = StorageDeposit * StorageTickets(a)'
    <3>1. /\ TicketOn(StorageAgreements'[b][p], a) = TicketOn(StorageAgreements[b][p], a)
          /\ TicketOn(StorageAgreements[b][p], a) \in Nat
      BY <1>1, <1>4, <1>5 DEF TicketOn
    <3>2. OnlyBucket(b) /\ TicketsIn(Buckets'[b], a) = TicketsIn(Buckets[b], a)
      BY <1>1 DEF OnlyBucket
    <3>3. ProviderTicket(a)' = ProviderTicket(a)
      BY <1>1, SteadyWhenUnchanged
    <3>4. StorageTickets(a)' =
             StorageTickets(a) - TicketsIn(Buckets[b], a) + TicketsIn(Buckets'[b], a)
                               - TicketOn(StorageAgreements[b][p], a)
                               + TicketOn(StorageAgreements'[b][p], a)
      BY <1>5, <3>2, <3>3, TicketsStep
    <3>5. StorageTickets(a) \in Nat /\ TicketsIn(Buckets[b], a) \in Nat
      BY StorageTicketsType, TicketsInType
    <3>6. StorageTickets(a)' = StorageTickets(a)
      BY <3>1, <3>2, <3>4, <3>5
    <3> QED BY <1>7, <3>6 DEF HeldKept, Books, TicketsBacked
  <2> QED BY <2>1 DEF TicketsBacked
<1>10. \A a \in Accounts : StakeOf(a)' = StakeOf(a)
  BY <1>1, SteadyWhenUnchanged
<1> QED BY <1>1, <1>6, <1>7, <1>8, <1>9, <1>10, StakesKept, ChallengesKept, StakeNotLower
        DEF MoneyStep, Books

\* Every other agreement call keeps the books and the total.
LEMMA AgreementNextMoney ==
    ASSUME TypeOK, TypeOK', Books, L!Exposed, NEW who \in Accounts, AgreementNext(who)
    PROVE  MoneyStep
<1>1. ASSUME NEW b \in BucketIds, claim_expired_agreement(who, b) PROVE MoneyStep
  <2>1. [kind |-> "Pay", burn_percent |-> 0] \in EndAction
    BY DEF EndAction
  <2> QED BY <1>1, <2>1, FinalizeMoney DEF claim_expired_agreement
<1>2. ASSUME NEW b \in BucketIds, NEW i \in 0 .. Len(HISTORICAL_ROOT_PRIMES),
             confirm_replica_sync(who, b, i)
      PROVE  MoneyStep
  BY <1>2, ConfirmSyncMoney
<1>3. ASSUME NEW b \in BucketIds, NEW p \in Accounts, NEW action \in EndActions,
             end_agreement(who, b, p, action)
      PROVE  MoneyStep
  <2>1. action \in EndAction
    BY DataAssumption
  <2> QED BY <1>3, <2>1, FinalizeMoney DEF end_agreement
<1>4. ASSUME NEW b \in BucketIds, NEW p \in Accounts, NEW n \in ByteAmounts,
             NEW m \in PaymentLimits, top_up_agreement(who, b, p, n, m)
      PROVE  MoneyStep
  <2>1. n \in Nat
    BY DataAssumption
  <2> QED BY <1>4, <2>1, TopUpMoney
<1>5. ASSUME NEW b \in BucketIds, NEW p \in Accounts, NEW d \in Durations,
             NEW m \in PaymentLimits, extend_agreement(who, b, p, d, m)
      PROVE  MoneyStep
  <2>1. d \in Nat
    BY DataAssumption
  <2> QED BY <1>5, <2>1, ExtendMoney
<1>6. ASSUME NEW b \in BucketIds, NEW p \in Accounts, NEW a \in NewOwners,
             transfer_agreement_ownership(who, b, p, a)
      PROVE  MoneyStep
  <2>1. a \in Accounts
    BY DataAssumption
  <2> QED BY <1>6, <2>1, TransferMoney
<1>7. ASSUME NEW b \in BucketIds, NEW p \in Accounts, NEW n \in SyncAmounts,
             top_up_replica_sync_balance(who, b, p, n)
      PROVE  MoneyStep
  <2>1. n \in Nat
    BY DataAssumption
  <2> QED BY <1>7, <2>1, TopUpSyncMoney
<1> QED BY <1>1, <1>2, <1>3, <1>4, <1>5, <1>6, <1>7 DEF AgreementNext

----------------------------------------------------------------------------
(* Challenges                                                               *)

\* An account has finitely many open challenges.
LEMMA OpenByFinite ==
    ASSUME TypeOK, NEW a
    PROVE  IsFiniteSet(OpenBy(a)) /\ Cardinality(OpenBy(a)) \in Nat
<1>1. OpenBy(a) \subseteq DOMAIN Challenges /\ IsFiniteSet(DOMAIN Challenges)
  BY DEF OpenBy, TypeOK, ChallengeTypeOK
<1>2. IsFiniteSet(OpenBy(a))
  BY <1>1, FS_Subset
<1> QED BY <1>2, FS_CardinalityType

\* A deposit paid with a new challenge ...
LEMMA ChallengePaid ==
    ASSUME TypeOK, ChallengesBacked, NEW who \in Accounts,
           \A a \in Accounts :
               /\ Cardinality(OpenBy(a))' =
                     Cardinality(OpenBy(a)) + (IF a = who THEN 1 ELSE 0)
               /\ Held("ChallengeDeposit", a)' =
                     IF a = who THEN Held("ChallengeDeposit", a) + ChallengeDeposit
                     ELSE Held("ChallengeDeposit", a)
    PROVE  ChallengesBacked'
<1> SUFFICES ASSUME NEW a \in Accounts
             PROVE  Held("ChallengeDeposit", a)' =
                       ChallengeDeposit * Cardinality(OpenBy(a))'
  BY DEF ChallengesBacked
<1> DEFINE n == Cardinality(OpenBy(a))
<1>1. n \in Nat /\ ChallengeDeposit \in Nat
  BY OpenByFinite, ConfigAssumption
<1>2. /\ ChallengeDeposit * (n + 1) = ChallengeDeposit * n + ChallengeDeposit * 1
      /\ ChallengeDeposit * 1 = ChallengeDeposit
  BY <1>1, Distribute
<1>3. /\ Cardinality(OpenBy(a))' = n + (IF a = who THEN 1 ELSE 0)
      /\ Held("ChallengeDeposit", a) = ChallengeDeposit * n
  BY DEF ChallengesBacked
<1> HIDE DEF n
<1>4. CASE a = who
  <2>1. Cardinality(OpenBy(a))' = n + 1
    BY <1>3, <1>4
  <2> QED BY <1>2, <1>3, <1>4, <2>1
<1>5. CASE a # who
  <2>1. Cardinality(OpenBy(a))' = n
    BY <1>1, <1>3, <1>5
  <2> QED BY <1>3, <1>5, <2>1
<1> QED BY <1>4, <1>5

\* ... and given back, or to the provider, when it is closed.
LEMMA ChallengeReturned ==
    ASSUME TypeOK, ChallengesBacked, NEW who \in Accounts, 1 <= Cardinality(OpenBy(who)),
           \A a \in Accounts :
               /\ Cardinality(OpenBy(a))' =
                     Cardinality(OpenBy(a)) - (IF a = who THEN 1 ELSE 0)
               /\ Held("ChallengeDeposit", a)' =
                     IF a = who THEN Held("ChallengeDeposit", a) + (-ChallengeDeposit)
                     ELSE Held("ChallengeDeposit", a)
    PROVE  ChallengesBacked'
<1> SUFFICES ASSUME NEW a \in Accounts
             PROVE  Held("ChallengeDeposit", a)' =
                       ChallengeDeposit * Cardinality(OpenBy(a))'
  BY DEF ChallengesBacked
<1> DEFINE n == Cardinality(OpenBy(a))
           left == n - 1
<1>1. n \in Nat /\ ChallengeDeposit \in Nat
  BY OpenByFinite, ConfigAssumption
<1>2. /\ Cardinality(OpenBy(a))' = n - (IF a = who THEN 1 ELSE 0)
      /\ Held("ChallengeDeposit", a) = ChallengeDeposit * n
      /\ a = who => 1 <= n
  BY DEF ChallengesBacked
<1> HIDE DEF n
<1>3. CASE a = who
  <2>1. left \in Nat /\ n = left + 1 /\ Cardinality(OpenBy(a))' = left
    BY <1>1, <1>2, <1>3
  <2> HIDE DEF left
  <2>2. /\ ChallengeDeposit * (left + 1) = ChallengeDeposit * left + ChallengeDeposit * 1
        /\ ChallengeDeposit * 1 = ChallengeDeposit /\ ChallengeDeposit * left \in Nat
    BY <1>1, <2>1, Distribute
  <2>3. ChallengeDeposit * n = ChallengeDeposit * left + ChallengeDeposit
    BY <2>1, <2>2
  <2>4. Held("ChallengeDeposit", a)' = Held("ChallengeDeposit", a) + (-ChallengeDeposit)
    BY <1>3
  <2>5. Held("ChallengeDeposit", a)' = ChallengeDeposit * left
    BY <1>1, <1>2, <2>2, <2>3, <2>4
  <2> QED BY <2>1, <2>5
<1>4. CASE a # who
  <2>1. Cardinality(OpenBy(a))' = n
    BY <1>1, <1>2, <1>4
  <2> QED BY <1>2, <1>4, <2>1
<1> QED BY <1>3, <1>4

\* Closing a challenge takes it out of its challenger's.
LEMMA TakenFromChallenger ==
    ASSUME TypeOK, NEW id \in DOMAIN Challenges, TakeChallenge(id)
    PROVE  /\ 1 <= Cardinality(OpenBy(Challenges[id].challenger))
           /\ \A a \in Accounts :
                 Cardinality(OpenBy(a))' =
                     Cardinality(OpenBy(a)) -
                         (IF a = Challenges[id].challenger THEN 1 ELSE 0)
<1>1. /\ DOMAIN Challenges' = DOMAIN Challenges \ {id}
      /\ \A x \in DOMAIN Challenges \ {id} : Challenges'[x] = Challenges[x]
  BY DEF TakeChallenge
<1>2. ASSUME NEW a, a = Challenges[id].challenger
      PROVE  /\ 1 <= Cardinality(OpenBy(a))
             /\ Cardinality(OpenBy(a))' = Cardinality(OpenBy(a)) - 1
  <2>1. id \in OpenBy(a) /\ IsFiniteSet(OpenBy(a)) /\ Cardinality(OpenBy(a)) \in Nat
    BY <1>2, OpenByFinite DEF OpenBy
  <2>2. OpenBy(a)' = OpenBy(a) \ {id}
    BY <1>1 DEF OpenBy
  <2>3. /\ Cardinality(OpenBy(a) \ {id}) = Cardinality(OpenBy(a)) - 1
        /\ Cardinality(OpenBy(a) \ {id}) \in Nat
    BY <2>1, FS_RemoveElement, FS_CardinalityType
  <2>4. Cardinality(OpenBy(a)') = Cardinality(OpenBy(a)) - 1
    BY <2>2, <2>3
  <2> QED BY <2>1, <2>3, <2>4
<1>3. ASSUME NEW a \in Accounts, a # Challenges[id].challenger
      PROVE  Cardinality(OpenBy(a))' = Cardinality(OpenBy(a)) - 0
  <2>1. OpenBy(a)' = OpenBy(a)
    BY <1>1, <1>3 DEF OpenBy
  <2>2. Cardinality(OpenBy(a)') = Cardinality(OpenBy(a))
    BY <2>1
  <2> QED BY <2>2, OpenByFinite
<1> QED BY <1>2, <1>3

\* create_challenge keeps the books and the total.
LEMMA CreateChallengeMoney ==
    ASSUME TypeOK, TypeOK', Books, Ledger, NEW who \in Accounts, NEW b, NEW p, NEW c,
           NEW leaf_index, create_challenge(who, b, p, c, leaf_index)
    PROVE  MoneyStep
<1> DEFINE id == [deadline |-> Expiry, index |-> NextChallengeIndex[Expiry]]
           challenge ==
              [bucket_id |-> b, provider |-> p, challenger |-> who,
               commitment |-> c, leaf_index |-> leaf_index,
               authorized |-> is_authorized(who, b), created_at |-> now]
<1>1. /\ CanHold(funds, who, ChallengeDeposit) /\ Expiry < MaxBlock
      /\ funds' = Hold(funds, "ChallengeDeposit", who, ChallengeDeposit)
      /\ Challenges' = [x \in DOMAIN Challenges \cup {id} |->
                           IF x = id THEN challenge ELSE Challenges[x]]
      /\ UNCHANGED <<Providers, StorageAgreements, Buckets>>
  BY DEF create_challenge, AllocateIndex
<1>2. challenge.challenger = who
  OBVIOUS
<1>3. id \notin DOMAIN Challenges
  BY <1>1, NewIdFresh
<1> HIDE DEF id, challenge
<1>4. /\ DOMAIN Challenges' = DOMAIN Challenges \cup {id}
      /\ Challenges'[id] = challenge
      /\ \A x \in DOMAIN Challenges : Challenges'[x] = Challenges[x]
  BY <1>1, <1>3
<1>5. ASSUME NEW a \in Accounts
      PROVE  Cardinality(OpenBy(a))' = Cardinality(OpenBy(a)) + (IF a = who THEN 1 ELSE 0)
  <2>1. IsFiniteSet(OpenBy(a)) /\ Cardinality(OpenBy(a)) \in Nat /\ id \notin OpenBy(a)
    BY <1>3, OpenByFinite DEF OpenBy
  <2>2. CASE a = who
    <3>1. OpenBy(a)' = OpenBy(a) \cup {id}
      BY <1>2, <1>4, <2>2 DEF OpenBy
    <3>2. Cardinality(OpenBy(a) \cup {id}) = Cardinality(OpenBy(a)) + 1
      BY <2>1, FS_AddElement
    <3>3. Cardinality(OpenBy(a)') = Cardinality(OpenBy(a)) + 1
      BY <3>1, <3>2
    <3> QED BY <2>2, <3>3
  <2>3. CASE a # who
    <3>1. OpenBy(a)' = OpenBy(a)
      BY <1>2, <1>3, <1>4, <2>3 DEF OpenBy
    <3>2. Cardinality(OpenBy(a)') = Cardinality(OpenBy(a))
      BY <3>1
    <3> QED BY <2>1, <2>3, <3>2
  <2> QED BY <2>2, <2>3
<1>6. funds \in Funds /\ "ChallengeDeposit" \in HoldReasons /\ ChallengeDeposit \in Nat
  BY ConfigAssumption DEF TypeOK, HoldReasons
<1>7. Moves(funds, funds', "ChallengeDeposit", who, ChallengeDeposit)
  BY <1>1, <1>6, HoldMoves
<1>8. /\ HeldKept("ProviderStake") /\ HeldKept("AgreementPayment")
      /\ HeldKept("StorageDeposit") /\ Total(funds)' = Total(funds)
  BY <1>7, OtherHoldsKept DEF HoldReasons
<1>9. \A a \in Accounts : Held("ChallengeDeposit", a)' =
         IF a = who THEN Held("ChallengeDeposit", a) + ChallengeDeposit
         ELSE Held("ChallengeDeposit", a)
  BY <1>6, <1>7 DEF Moves, Held
<1>10. ChallengesBacked'
  BY <1>5, <1>9, ChallengePaid DEF Books
<1>11. /\ AgreementsSteady /\ BucketsSteady
       /\ \A a \in Accounts : StakeOf(a)' = StakeOf(a) /\ ProviderTicket(a)' = ProviderTicket(a)
  BY <1>1, SteadyWhenUnchanged
<1> QED BY <1>8, <1>10, <1>11, StakesKept, EscrowsKept, TicketsKept, StakeNotLower
        DEF MoneyStep, Books

\* A challenger's hold covers the deposit of each of its challenges.
LEMMA ChallengeDepositHeld ==
    ASSUME TypeOK, ChallengesBacked, NEW a \in Accounts, 1 <= Cardinality(OpenBy(a))
    PROVE  ChallengeDeposit <= Held("ChallengeDeposit", a)
<1>1. Cardinality(OpenBy(a)) \in Nat /\ ChallengeDeposit \in Nat
  BY OpenByFinite, ConfigAssumption
<1>2. 1 * ChallengeDeposit <= ChallengeDeposit * Cardinality(OpenBy(a))
  BY <1>1, Multiples
<1>3. 1 * ChallengeDeposit = ChallengeDeposit
  BY <1>1
<1> QED BY <1>2, <1>3 DEF ChallengesBacked

\* respond_to_challenge keeps the books and the total.
LEMMA RespondMoney ==
    ASSUME TypeOK, TypeOK', Books, NEW who \in Accounts, NEW id \in DOMAIN Challenges,
           NEW r, respond_to_challenge(who, id, r)
    PROVE  MoneyStep
<1> DEFINE c == Challenges[id]
           challenger == c.challenger
           share == (ChallengeDeposit * ChallengerPercent(c)) \div 100
<1>1. /\ funds' = settle_challenge_deposit(funds, challenger, c.provider,
                                           ChallengeDeposit, share)
      /\ TakeChallenge(id)
      /\ UNCHANGED <<Providers, StorageAgreements, Buckets>>
  BY DEF respond_to_challenge
<1>2. c \in Challenge /\ challenger \in Accounts /\ c.provider \in Accounts
  BY DEF TypeOK, ChallengeTypeOK, Challenge
<1>3. share \in Nat /\ share <= ChallengeDeposit
  BY ChallengerShareType
<1> HIDE DEF share
<1>4. /\ 1 <= Cardinality(OpenBy(challenger))
      /\ \A a \in Accounts : Cardinality(OpenBy(a))' =
            Cardinality(OpenBy(a)) - (IF a = challenger THEN 1 ELSE 0)
  BY <1>1, TakenFromChallenger
<1> HIDE DEF challenger
<1>5. ChallengeDeposit <= funds.held["ChallengeDeposit"][challenger]
  BY <1>2, <1>4, ChallengeDepositHeld DEF Books, Held
<1>6. funds \in Funds /\ "ChallengeDeposit" \in HoldReasons /\ ChallengeDeposit \in Nat
  BY ConfigAssumption DEF TypeOK, HoldReasons
<1>7. Moves(funds, funds', "ChallengeDeposit", challenger, -ChallengeDeposit)
  BY <1>1, <1>2, <1>3, <1>5, <1>6, SettleChallengeDepositMoves
<1>8. /\ HeldKept("ProviderStake") /\ HeldKept("AgreementPayment")
      /\ HeldKept("StorageDeposit") /\ Total(funds)' = Total(funds)
  BY <1>7, OtherHoldsKept DEF HoldReasons
<1>9. \A a \in Accounts : Held("ChallengeDeposit", a)' =
         IF a = challenger THEN Held("ChallengeDeposit", a) + (-ChallengeDeposit)
         ELSE Held("ChallengeDeposit", a)
  BY <1>6, <1>7 DEF Moves, Held
<1>10. ChallengesBacked'
  BY <1>2, <1>4, <1>9, ChallengeReturned DEF Books
<1>11. /\ AgreementsSteady /\ BucketsSteady
       /\ \A a \in Accounts : StakeOf(a)' = StakeOf(a) /\ ProviderTicket(a)' = ProviderTicket(a)
  BY <1>1, SteadyWhenUnchanged
<1> QED BY <1>8, <1>10, <1>11, StakesKept, EscrowsKept, TicketsKept, StakeNotLower
        DEF MoneyStep, Books

\* Every challenge call keeps the books and the total.
LEMMA ChallengeNextMoney ==
    ASSUME TypeOK, TypeOK', Books, Ledger, NEW who \in Accounts, ChallengeNext(who)
    PROVE  MoneyStep
<1>1. ASSUME NEW b, NEW p, NEW c, NEW leaf_index, create_challenge(who, b, p, c, leaf_index)
      PROVE  MoneyStep
  BY <1>1, CreateChallengeMoney
<1>2. ASSUME NEW id \in DOMAIN Challenges, NEW r, respond_to_challenge(who, id, r)
      PROVE  MoneyStep
  BY <1>2, RespondMoney
<1> QED BY <1>1, <1>2
        DEF ChallengeNext, challenge_checkpoint, challenge_offchain, challenge_replica

\* The whole stake is there to be slashed, and the deposit to be returned.
LEMMA ResolveMoney ==
    ASSUME TypeOK, TypeOK', Books, L!Exposed, NEW id \in DOMAIN Challenges,
           NEW p, p = Challenges[id].provider, resolve_expired_challenge(id)
    PROVE  MoneyStep
<1> DEFINE c == Challenges[id]
           challenger == c.challenger
           stake == Providers[p].stake
           mid == Settle(funds, "ProviderStake", p, Treasury, stake)
           info == [Providers[p] EXCEPT !.stake = 0]
<1>1. /\ c.bucket_id \in BucketIds /\ p \in Accounts /\ challenger \in Accounts
  BY DEF TypeOK, ChallengeTypeOK, Challenge
<1>2. Providers[p] # None /\ Providers[p] \in ProviderInfo /\ stake \in Nat
  <2>1. Providers[p] # None
    BY <1>1, ExposedFacts
  <2>2. Providers[p] \in ProviderInfo
    BY <1>1, <2>1, TypeFacts
  <2> QED BY <2>1, <2>2 DEF ProviderInfo
<1>3. /\ funds \in Funds /\ ChallengeDeposit \in Nat
      /\ "ChallengeDeposit" \in HoldReasons /\ "ProviderStake" \in HoldReasons
  BY ConfigAssumption DEF TypeOK, HoldReasons
<1>4. Held("ProviderStake", p) = stake
  BY <1>1, <1>2 DEF Books, StakesBacked, StakeOf
<1>5. /\ BestEffort(funds, "ProviderStake", p, stake) = stake
      /\ CanRelease(funds, "ProviderStake", p, stake)
  <2>1. stake <= funds.held["ProviderStake"][p]
    BY <1>2, <1>4 DEF Held
  <2> QED BY <1>1, <1>2, <1>3, <2>1, EnoughHeld
<1>6. /\ TakeChallenge(id) /\ now > id.deadline
      /\ UNCHANGED <<StorageAgreements, Buckets>>
      /\ slash_provider_for_failed_challenge(c)
  BY DEF resolve_expired_challenge, Expired
<1>7. /\ funds' = ReleaseChallengeDeposit(mid, challenger, ChallengeDeposit)
      /\ Providers' = [Providers EXCEPT ![p].stake = saturating_sub(@, stake)]
  BY <1>2, <1>5, <1>6 DEF slash_provider_for_failed_challenge, SlashStakeToTreasury
<1>8. /\ Providers'[p] = info /\ info # None /\ info.stake = 0
      /\ \A a \in Accounts : a # p => Providers'[a] = Providers[a]
  <2>1. info \in ProviderInfo /\ info.stake = 0
    BY <1>2 DEF ProviderInfo
  <2>2. saturating_sub(stake, stake) = 0
    BY <1>2 DEF saturating_sub
  <2>3. Providers' = [Providers EXCEPT ![p] = info]
    BY <1>7, <2>2
  <2> HIDE DEF info
  <2> QED BY <1>1, <2>1, <2>3, NoneAssumption DEF TypeOK
<1>9. /\ 1 <= Cardinality(OpenBy(challenger))
      /\ \A a \in Accounts : Cardinality(OpenBy(a))' =
            Cardinality(OpenBy(a)) - (IF a = challenger THEN 1 ELSE 0)
  BY <1>6, TakenFromChallenger
<1>10. ChallengeDeposit <= Held("ChallengeDeposit", challenger)
  BY <1>1, <1>9, ChallengeDepositHeld DEF Books
<1>11. id \in OpenAgainst(p) /\ id \notin DOMAIN Challenges'
  BY <1>6 DEF OpenAgainst, TakeChallenge
<1> HIDE DEF stake, info, challenger
<1>12. /\ Moves(funds, mid, "ProviderStake", p, -stake)
       /\ mid.free[Treasury] = funds.free[Treasury] + stake
  <2>1. Treasury \in Owners
    BY DEF Owners
  <2> QED BY <1>1, <1>2, <1>3, <1>5, <2>1, SettleMoves
<1> HIDE DEF mid
<1>13. mid \in Funds /\ ChallengeDeposit <= mid.held["ChallengeDeposit"][challenger]
  BY <1>1, <1>3, <1>10, <1>12 DEF Moves, Held
<1>14. /\ Moves(mid, funds', "ChallengeDeposit", challenger, -ChallengeDeposit)
       /\ funds'.free[Treasury] = funds.free[Treasury] + stake
  BY <1>1, <1>3, <1>7, <1>12, <1>13, ReleaseChallengeDepositMoves
<1>15. /\ HeldKept("AgreementPayment") /\ HeldKept("StorageDeposit")
       /\ Total(funds)' = Total(funds)
  BY <1>12, <1>14 DEF Moves, HeldKept, Held, HoldReasons
<1>16. ASSUME NEW a \in Accounts
       PROVE  /\ Held("ProviderStake", a)' = IF a = p THEN Held("ProviderStake", a) + (-stake)
                                             ELSE Held("ProviderStake", a)
              /\ Held("ChallengeDeposit", a)' =
                    IF a = challenger THEN Held("ChallengeDeposit", a) + (-ChallengeDeposit)
                    ELSE Held("ChallengeDeposit", a)
  BY <1>3, <1>12, <1>14 DEF Moves, Held
<1>17. ChallengesBacked'
  BY <1>1, <1>9, <1>16, ChallengeReturned DEF Books
<1>18. StakeOf(p)' = 0 /\ \A a \in Accounts : a # p => StakeOf(a)' = StakeOf(a)
  BY <1>8 DEF StakeOf
<1>19. Held("ProviderStake", p)' = 0
  BY <1>1, <1>2, <1>4, <1>16
<1>20. StakesBacked'
  BY <1>16, <1>18, <1>19 DEF Books, StakesBacked
<1>21. \A a \in Accounts : ProviderTicket(a)' = ProviderTicket(a)
  BY <1>2, <1>8 DEF ProviderTicket
<1>22. AgreementsSteady /\ BucketsSteady
  BY <1>6, SteadyWhenUnchanged
<1>23. StakeFallsWhenDue
  <2>1. ASSUME NEW a \in Accounts, a # p PROVE ~(StakeOf(a)' < StakeOf(a))
    <3>1. StakeOf(a) \in Nat
      BY TypeFacts DEF StakeOf, ProviderInfo
    <3> QED BY <1>18, <2>1, <3>1
  <2>2. StakeDue(p)
    <3>1. HeldStake(p) = stake /\ HeldStake(p)' = 0
      BY <1>4, <1>19 DEF HeldStake, Held
    <3>2. funds.free[Treasury] \in Nat
      BY <1>3 DEF Funds
    <3>3. funds'.free[Treasury] = funds.free[Treasury] + HeldStake(p) - HeldStake(p)'
      BY <1>2, <1>14, <3>1, <3>2
    <3>4. \E x \in OpenAgainst(p) : now > x.deadline /\ x \notin DOMAIN Challenges'
      BY <1>6, <1>11
    <3> QED BY <3>3, <3>4 DEF StakeDue
  <2> QED BY <2>1, <2>2 DEF StakeFallsWhenDue
<1> QED BY <1>15, <1>17, <1>20, <1>21, <1>22, <1>23, EscrowsKept, TicketsKept
        DEF MoneyStep, Books

----------------------------------------------------------------------------
(* The environment                                                          *)

\* The free balance of a reaped account goes to another; nothing was held.
LEMMA KilledMoney ==
    ASSUME TypeOK, TypeOK', Books, NEW who \in Accounts, NEW dest \in Accounts,
           on_killed_account(who, dest)
    PROVE  MoneyStep
<1> DEFINE spent == [funds.free EXCEPT ![dest] = @ + funds.free[who], ![who] = 0]
           n == funds.free[who]
<1>1. /\ dest # who /\ funds' = [funds EXCEPT !.free = spent]
      /\ UNCHANGED <<Providers, StorageAgreements, Buckets, Challenges>>
  BY DEF on_killed_account, challengeVars
<1>2. funds \in Funds /\ funds' \in Funds /\ n \in Nat
  BY DEF TypeOK, Funds
<1>3. \A a \in Owners : /\ funds.free[a] \in Nat
                        /\ spent[a] = IF a = who THEN 0
                                      ELSE IF a = dest THEN funds.free[a] + n
                                      ELSE funds.free[a]
  <2>1. funds.free \in [Owners -> Nat]
    BY <1>2 DEF Funds, Owners
  <2>2. who \in Owners /\ dest \in Owners
    BY DEF Owners
  <2> QED BY <1>1, <2>1, <2>2
<1>4. funds'.held = funds.held /\ funds'.free = spent
  BY <1>1, <1>2 DEF Funds
<1> HIDE DEF spent
<1>5. \A r \in HoldReasons : HeldKept(r)
  BY <1>4 DEF HeldKept, Held
<1>6. ASSUME NEW a \in Accounts
      PROVE  Wealth(funds')[a] = Wealth(funds)[a] + (IF a = dest THEN n ELSE 0)
                                                  - (IF a = who THEN n ELSE 0)
  <2>0. "ProviderStake" \in HoldReasons
    BY DEF HoldReasons
  <2>1. /\ Wealth(funds)[a] \in Nat
        /\ Wealth(funds')[a] =
              Wealth(funds)[a] + (funds'.free[a] - funds.free[a])
                  + (funds'.held["ProviderStake"][a] - funds.held["ProviderStake"][a])
    BY <1>2, <1>4, <2>0, WealthChange
  <2>2. /\ funds.held["ProviderStake"][a] \in Nat /\ a \in Owners /\ funds.free[a] \in Nat
        /\ funds'.held["ProviderStake"][a] = funds.held["ProviderStake"][a]
    BY <1>2, <1>3, <1>4, <2>0 DEF Funds, Owners
  <2>3. funds'.free[a] - funds.free[a] = (IF a = dest THEN n ELSE 0) - (IF a = who THEN n ELSE 0)
    <3>1. funds'.free[a] = IF a = who THEN 0
                           ELSE IF a = dest THEN funds.free[a] + n ELSE funds.free[a]
      BY <1>3, <1>4, <2>2
    <3>2. a = who => n = funds.free[a]
      OBVIOUS
    <3> HIDE DEF n
    <3> QED BY <1>1, <1>2, <2>2, <3>1, <3>2
  <2> HIDE DEF n
  <2> QED BY <1>2, <2>1, <2>2, <2>3
<1>7. /\ who # Treasury /\ dest # Treasury /\ Wealth(funds)[Treasury] \in Nat
      /\ Wealth(funds')[Treasury] = Wealth(funds)[Treasury]
  BY <1>2, <1>3, <1>4, TreasuryWealth, DataAssumption DEF Owners
<1>8. Total(funds') = Total(funds)
  <2> HIDE DEF n
  <2>1. Shifted(funds, funds', who, dest, n)
    BY <1>2, <1>6, <1>7 DEF Owners, Shifted
  <2>2. who \in Owners /\ dest \in Owners
    BY DEF Owners
  <2> QED BY <1>2, <2>1, <2>2, TotalShifted
<1>9. /\ HeldKept("ProviderStake") /\ HeldKept("AgreementPayment")
      /\ HeldKept("ChallengeDeposit") /\ HeldKept("StorageDeposit")
  BY <1>5 DEF HoldReasons
<1>10. /\ AgreementsSteady /\ BucketsSteady
       /\ \A a \in Accounts : StakeOf(a)' = StakeOf(a) /\ ProviderTicket(a)' = ProviderTicket(a)
  BY <1>1, SteadyWhenUnchanged
<1>11. StakesBacked' /\ EscrowsBacked' /\ ChallengesBacked' /\ TicketsBacked'
  BY <1>1, <1>9, <1>10, StakesKept, EscrowsKept, ChallengesKept, TicketsKept DEF Books
<1>12. StakeFallsWhenDue
  BY <1>10, StakeNotLower
<1> QED BY <1>8, <1>11, <1>12 DEF MoneyStep, Books

----------------------------------------------------------------------------
(* Every step                                                               *)

\* Every step keeps the books and the total.
LEMMA MoneyStepAlways ==
    ASSUME Accountable, Books, [Next]_vars
    PROVE  MoneyStep
<1>0. TypeOK /\ TypeOK' /\ Ledger /\ L!Exposed
  BY StepImplements DEF Accountable
<1>1. ASSUME Tick \/ UNCHANGED vars PROVE MoneyStep
  <2>1. UNCHANGED <<Providers, StorageAgreements, Buckets, Challenges, funds>>
    BY <1>1 DEF Tick, vars, challengeVars
  <2>2. /\ AgreementsSteady /\ BucketsSteady
        /\ \A a \in Accounts : StakeOf(a)' = StakeOf(a) /\ ProviderTicket(a)' = ProviderTicket(a)
    BY <2>1, SteadyWhenUnchanged
  <2> QED BY <1>0, <2>1, <2>2, QuietMoney
<1>2. ASSUME NEW who \in Reapable, NEW dest \in Accounts, on_killed_account(who, dest)
      PROVE  MoneyStep
  <2>1. who \in Accounts
    BY DataAssumption
  <2> QED BY <1>0, <1>2, <2>1, KilledMoney
<1>3. ASSUME NEW who \in Accounts,
             \/ ProviderNext(who) \/ BucketNext(who) \/ QuoteNext(who)
             \/ AgreementNext(who) \/ ChallengeNext(who)
      PROVE  MoneyStep
  BY <1>0, <1>3, ProviderNextMoney, BucketNextMoney, QuoteNextMoney, AgreementNextMoney,
     ChallengeNextMoney
<1>4. ASSUME NEW b \in BucketIds, NEW p \in Accounts, remove_slashed(b, p) PROVE MoneyStep
  BY <1>0, <1>4, RemoveSlashedMoney
<1>5. ASSUME NEW id \in DOMAIN Challenges, resolve_expired_challenge(id) PROVE MoneyStep
  BY <1>0, <1>5, ResolveMoney
<1> QED BY <1>1, <1>2, <1>3, <1>4, <1>5 DEF Next

----------------------------------------------------------------------------
(* Genesis                                                                  *)

\* The buckets genesis gives an account, as bucket ids.
LEMMA GenesisCount ==
    ASSUME NEW a \in Accounts
    PROVE  LET B == {b \in BucketIds : b + 1 \in GenesisBucketIds(a)} IN
           Cardinality(B) = Cardinality(GenesisBucketIds(a)) /\ Cardinality(B) \in Nat
<1> DEFINE B == {b \in BucketIds : b + 1 \in GenesisBucketIds(a)}
           G == GenesisBucketIds(a)
           next == [b \in B |-> b + 1]
<1>1. G \subseteq 1 .. MaxBuckets
  <2>1. GenesisBuckets \in Seq([admin : Accounts, min_providers : Nat])
    BY DataAssumption
  <2>2. DOMAIN GenesisBuckets = 1 .. Len(GenesisBuckets) /\ Len(GenesisBuckets) \in Nat
    BY <2>1
  <2>3. G \subseteq 1 .. Len(GenesisBuckets)
    BY <2>2 DEF GenesisBucketIds
  <2> HIDE DEF G
  <2> QED BY <2>2, <2>3, DataAssumption, ConfigAssumption
<1>2. IsFiniteSet(B)
  <2>1. B \subseteq BucketIds
    OBVIOUS
  <2> QED BY <2>1, Finite, FS_Subset
<1> HIDE DEF G
<1>3. next \in [B -> G]
  BY DEF G
<1>4. \A x, y \in B : next[x] = next[y] => x = y
  BY DEF BucketIds
<1>5. ASSUME NEW g \in G PROVE \E b \in B : next[b] = g
  <2>1. g - 1 \in B /\ (g - 1) + 1 = g
    BY <1>1, ConfigAssumption DEF BucketIds, G
  <2>2. next[g - 1] = g
    BY <2>1
  <2> QED BY <2>1, <2>2
<1> HIDE DEF B, next
<1>6. DOMAIN next = B
  BY <1>3
<1>7. next \in Bijection(B, G)
  BY <1>3, <1>4, <1>5, <1>6 DEF Bijection, Injection, Surjection, IsInjective
<1>8. ExistsBijection(B, G)
  BY <1>7 DEF ExistsBijection
<1>9. Cardinality(G) = Cardinality(B) /\ Cardinality(B) \in Nat
  BY <1>2, <1>8, FS_Bijection, FS_CardinalityType
<1> QED BY <1>9 DEF B, G

\* What genesis puts on hold.
LEMMA GenesisFunds ==
    ASSUME Init, NEW a \in Accounts
    PROVE  /\ funds \in Funds
           /\ Held("ProviderStake", a) = GenesisStake(a)
           /\ Held("StorageDeposit", a) = GenesisDeposits(a)
           /\ Held("AgreementPayment", a) = 0 /\ Held("ChallengeDeposit", a) = 0
           /\ funds.free[a] = Endowment[a] - GenesisStake(a) - GenesisDeposits(a)
           /\ funds.free[Treasury] = 0
           /\ GenesisStake(a) \in Nat /\ GenesisDeposits(a) \in Nat /\ Endowment[a] \in Nat
<1>1. funds \in Funds
  BY TypeInit DEF TypeOK
<1>2. /\ Held("ProviderStake", a) = GenesisStake(a)
      /\ Held("StorageDeposit", a) = GenesisDeposits(a)
      /\ Held("AgreementPayment", a) = 0 /\ Held("ChallengeDeposit", a) = 0
  BY DEF Init, Held, HoldReasons
<1>3. /\ funds.free[a] = Endowment[a] - GenesisStake(a) - GenesisDeposits(a)
      /\ funds.free[Treasury] = 0
  BY DataAssumption DEF Init
<1>4. Held("ProviderStake", a) \in Nat /\ Held("StorageDeposit", a) \in Nat
  BY <1>1 DEF Held, Funds, HoldReasons
<1> QED BY <1>1, <1>2, <1>3, <1>4, DataAssumption

\* The books are right at genesis,
LEMMA BooksInit == Init => Books
<1> SUFFICES ASSUME Init PROVE Books
  OBVIOUS
<1>1. StakesBacked
  <2>1. ASSUME NEW a \in Accounts PROVE StakeOf(a) = GenesisStake(a)
    <3>1. CASE \E g \in GenesisProviders : g.account = a
      <4> DEFINE g == CHOOSE x \in GenesisProviders : x.account = a
      <4>1. g \in GenesisProviders /\ g.stake \in Nat /\ g.settings \in ProviderSettings
        BY <3>1, DataAssumption
      <4>2. Providers[a] = NewProvider(g.stake, g.settings) /\ GenesisStake(a) = g.stake
        BY <3>1 DEF Init, GenesisStake
      <4> HIDE DEF g
      <4>3. NewProvider(g.stake, g.settings) \in ProviderInfo
        BY <4>1, NewProviderType
      <4>4. NewProvider(g.stake, g.settings).stake = g.stake
        BY DEF NewProvider
      <4> QED BY <4>2, <4>3, <4>4, NoneAssumption DEF StakeOf
    <3>2. CASE ~\E g \in GenesisProviders : g.account = a
      BY <3>2 DEF Init, GenesisStake, StakeOf
    <3> QED BY <3>1, <3>2
  <2> QED BY <2>1, GenesisFunds DEF StakesBacked
<1>2. EscrowsBacked
  <2>1. ASSUME NEW a \in Accounts PROVE EscrowByOwner(a) = 0
    <3>1. \A x \in Slots : StorageAgreements[x[1]][x[2]] = None
      BY DEF Slots, Init
    <3>2. Escrows(a) \in [Slots -> Nat] /\ \A x \in Slots : Escrows(a)[x] = 0
      BY <3>1 DEF Escrows, EscrowIn
    <3> QED BY <3>2, Finite, SumOfZeros DEF EscrowByOwner
  <2> QED BY <2>1, GenesisFunds DEF EscrowsBacked
<1>3. ChallengesBacked
  <2>1. \A a \in Accounts : OpenBy(a) = {}
    BY DEF Init, OpenBy
  <2>2. \A a \in Accounts : Cardinality(OpenBy(a)) = 0
    BY <2>1, FS_EmptySet
  <2>3. ChallengeDeposit * 0 = 0
    BY ConfigAssumption
  <2> QED BY <2>2, <2>3, GenesisFunds DEF ChallengesBacked
<1>4. TicketsBacked
  <2> SUFFICES ASSUME NEW a \in Accounts
               PROVE  GenesisDeposits(a) = StorageDeposit * StorageTickets(a)
    BY GenesisFunds DEF TicketsBacked
  <2> DEFINE B == {b \in BucketIds : b + 1 \in GenesisBucketIds(a)}
             k == IF \E g \in GenesisProviders : g.account = a THEN 1 ELSE 0
             n == Cardinality(GenesisBucketIds(a))
  <2>1. ProviderTicket(a) = k
    <3>1. ASSUME NEW g \in GenesisProviders
          PROVE  NewProvider(g.stake, g.settings) # None
      BY NewProviderType, NoneAssumption, DataAssumption
    <3>2. (\E g \in GenesisProviders : g.account = a) <=> Providers[a] # None
      BY <3>1 DEF Init
    <3> QED BY <3>2 DEF ProviderTicket
  <2>2. SumFunction(AgreementDeposits(a)) = 0
    <3>1. \A x \in Slots : StorageAgreements[x[1]][x[2]] = None
      BY DEF Slots, Init
    <3>2. AgreementDeposits(a) \in [Slots -> Nat]
          /\ \A x \in Slots : AgreementDeposits(a)[x] = 0
      BY <3>1 DEF AgreementDeposits, TicketOn
    <3> QED BY <3>2, Finite, SumOfZeros
  <2>3. SumFunction(BucketDeposits(a)) = 2 * Cardinality(B)
    <3>1. ASSUME NEW b \in BucketIds
          PROVE  TicketsIn(Buckets[b], a) = IF b \in B THEN 2 ELSE 0
      <4>1. CASE b + 1 \in DOMAIN GenesisBuckets
        <5> DEFINE g == GenesisBuckets[b + 1]
                   bucket == NewBucket(g.admin, g.min_providers, <<>>, "Private")
        <5>1. g \in [admin : Accounts, min_providers : Nat]
          <6>1. GenesisBuckets \in Seq([admin : Accounts, min_providers : Nat])
            BY DataAssumption
          <6> QED BY <4>1, <6>1, SeqElement
        <5>2. g.admin \in Accounts /\ g.min_providers \in Nat /\ <<>> \in Seq(Accounts)
          <6>1. <<>> \in Seq(Accounts)
            OBVIOUS
          <6> QED BY <5>1, <6>1
        <5>3. bucket \in Bucket
          BY <5>2, NewBucketType
        <5>4. Buckets[b] = bucket /\ (b \in B <=> g.admin = a)
          BY <4>1 DEF Init, GenesisBucketIds
        <5>5. BucketTickets(bucket, a) = IF a = g.admin THEN 2 ELSE 0
          BY <5>2, NewBucketTickets
        <5> HIDE DEF bucket, g, B
        <5> QED BY <5>3, <5>4, <5>5, NoneAssumption DEF TicketsIn
      <4>2. CASE b + 1 \notin DOMAIN GenesisBuckets
        BY <4>2 DEF Init, GenesisBucketIds, TicketsIn
      <4> QED BY <4>1, <4>2
    <3>2. B \in SUBSET BucketIds
      OBVIOUS
    <3> HIDE DEF B
    <3>3. \A b \in BucketIds : BucketDeposits(a)[b] = IF b \in B THEN 2 ELSE 0
      BY <3>1 DEF BucketDeposits
    <3>4. BucketDeposits(a) \in [BucketIds -> Nat] /\ IsFiniteSet(BucketIds)
      BY TicketSums, Finite
    <3> QED BY <3>2, <3>3, <3>4, SumOverPart
  <2>4. Cardinality(B) = n /\ n \in Nat /\ k \in Nat
    BY GenesisCount
  <2>5. GenesisDeposits(a) = StorageDeposit * (2 * n + k)
    BY DEF GenesisDeposits
  <2> HIDE DEF B, n, k
  <2>6. StorageTickets(a) = 2 * n + k
    BY <2>1, <2>2, <2>3, <2>4 DEF StorageTickets
  <2> QED BY <2>5, <2>6
<1> QED BY <1>1, <1>2, <1>3, <1>4 DEF Books

\* when the total is what was issued.
LEMMA TotalInit == Init => Total(funds) = SumFunction(Issued)
<1> SUFFICES ASSUME Init PROVE Total(funds) = SumFunction(Issued)
  OBVIOUS
<1>1. ASSUME NEW a \in Accounts PROVE Wealth(funds)[a] = Endowment[a]
  <2> DEFINE none == [r \in HoldReasons |-> 0]
             staked == [none EXCEPT !["ProviderStake"] = GenesisStake(a)]
             all == [staked EXCEPT !["StorageDeposit"] = GenesisDeposits(a)]
  <2>1. /\ funds.free[a] = Endowment[a] - GenesisStake(a) - GenesisDeposits(a)
        /\ GenesisStake(a) \in Nat /\ GenesisDeposits(a) \in Nat /\ Endowment[a] \in Nat
    BY GenesisFunds
  <2>2. "ProviderStake" \in HoldReasons /\ "StorageDeposit" \in HoldReasons
    BY DEF HoldReasons
  <2>3. HeldOn(funds, a) = all
    BY GenesisFunds DEF Held, HeldOn, HoldReasons
  <2>4. /\ none \in [HoldReasons -> Nat] /\ \A r \in HoldReasons : none[r] = 0
        /\ staked \in [HoldReasons -> Nat] /\ staked["StorageDeposit"] = 0
    BY <2>1, <2>2
  <2> HIDE DEF none
  <2>5. SumFunction(none) = 0
    BY <2>4, Finite, SumOfZeros
  <2>6. SumFunction(staked) = SumFunction(none) - none["ProviderStake"] + GenesisStake(a)
    <3>1. none \in [HoldReasons -> Nat]
      BY <2>4
    <3>2. IsFiniteSet(HoldReasons) /\ GenesisStake(a) \in Nat
      BY <2>1, Finite
    <3> QED BY <2>2, <3>1, <3>2, SumUpdate
  <2> HIDE DEF staked
  <2>7. SumFunction(all) = SumFunction(staked) - staked["StorageDeposit"] + GenesisDeposits(a)
    BY <2>1, <2>2, <2>4, Finite, SumUpdate
  <2> HIDE DEF all
  <2>8. SumFunction(HeldOn(funds, a)) = GenesisStake(a) + GenesisDeposits(a)
    BY <2>1, <2>2, <2>3, <2>4, <2>5, <2>6, <2>7
  <2>9. Wealth(funds)[a] = funds.free[a] + SumFunction(HeldOn(funds, a))
    BY DataAssumption DEF Wealth
  <2> QED BY <2>1, <2>8, <2>9
<1>2. funds \in Funds
  BY TypeInit DEF TypeOK
<1>3. Wealth(funds)[Treasury] = 0
  <2>1. funds.free[Treasury] = 0
    BY DataAssumption DEF Init
  <2> QED BY <1>2, <2>1, TreasuryWealth
<1>4. Wealth(funds) = Issued
  <2>1. Wealth(funds) \in [Owners -> Nat]
    BY <1>2, WealthType
  <2>2. \A a \in Owners : Wealth(funds)[a] = Issued[a]
    BY <1>1, <1>3, DataAssumption DEF Owners, Issued
  <2>3. DOMAIN Issued = Owners /\ Issued = [a \in Owners |-> Issued[a]]
    BY DEF Issued, Owners
  <2> QED BY <2>1, <2>2, <2>3
<1> QED BY <1>4 DEF Total

----------------------------------------------------------------------------
(* The theorems                                                             *)

\* The books agree with the holds in every reachable state, every step keeps
\* the money and takes stake only when it is due.
LEMMA MoneyAlways ==
    Spec => /\ [](Books /\ Total(funds) = SumFunction(Issued))
            /\ [][Books /\ MoneyStep]_vars
<1>1. Init => Books /\ Total(funds) = SumFunction(Issued)
  BY BooksInit, TotalInit
<1>2. ASSUME Accountable, Books, Total(funds) = SumFunction(Issued), [Next]_vars
      PROVE  /\ (Books /\ Total(funds) = SumFunction(Issued))'
             /\ [Books /\ MoneyStep]_vars
  <2>1. MoneyStep
    BY <1>2, MoneyStepAlways
  <2>2. SumFunction(Issued)' = SumFunction(Issued)
    OBVIOUS
  <2> QED BY <1>2, <2>1, <2>2 DEF MoneyStep
<1> QED BY <1>1, <1>2, AccountableAlways, PTL DEF Spec

\* Account by account and reason by reason, what is on hold is what the
\* provider records, agreements, open challenges and paid storage deposits
\* add up to, so no settlement, refund or slash pays out of another record's
\* money or finds its own short.
THEOREM HoldsAlwaysBacked == Spec => []HoldsBackBookkeeping
<1>1. Books => HoldsBackBookkeeping
  BY BooksAreHolds
<1> QED BY <1>1, MoneyAlways, PTL

\* All free balances and holds together are always what the accounts were
\* endowed with: no call, slash or burn creates or destroys money.
THEOREM MoneyConserved == Spec => []FundsConserved
<1>1. Total(funds) = SumFunction(Issued) => FundsConserved
  BY DEF Total, FundsConserved
<1> QED BY <1>1, MoneyAlways, PTL

\* Held stake goes down only to the treasury, with the resolution of an
\* expired challenge against the provider, or back to a provider whose
\* announcement period is over and that is exposed to nothing.
THEOREM StakeIsSafe == Spec => StakeLeavesOnlyWhenDue
<1>1. ASSUME Books, MoneyStep
      PROVE  \A p \in Accounts : HeldStake(p)' < HeldStake(p) => StakeDue(p)
  <2>1. \A p \in Accounts : HeldStake(p) = StakeOf(p) /\ HeldStake(p)' = StakeOf(p)'
    BY <1>1 DEF MoneyStep, Books, StakesBacked, Held, HeldStake
  <2> QED BY <1>1, <2>1 DEF MoneyStep, StakeFallsWhenDue
<1>2. [Books /\ MoneyStep]_vars
        => [\A p \in Accounts : HeldStake(p)' < HeldStake(p) => StakeDue(p)]_vars
  BY <1>1
<1> QED BY <1>2, MoneyAlways, PTL DEF StakeLeavesOnlyWhenDue, StakeDue

=============================================================================
