# A TLA+ model of web3-storage

Storage providers lock stake on chain and promise, in agreements, to keep the data of buckets.
Reads and writes happen off chain; the chain is touched for setup, checkpoints and disputes. What
makes the system credible is that a provider stays reachable by its challengers, with its stake
and its record on chain, until every promise and every open challenge is dealt with; and that the
off-chain node acts on what the chain says although it learns of it late, in pieces, or not at all.

This directory models both: the whole storage-provider pallet; of the provider node, the store with
its Merkle and MMR proofs, the background tasks that answer challenges and confirm replica syncs,
and the cache that decides who may read and write a bucket; of the client, uploads and the loop
that checkpoints a bucket.

Paths below are relative to the repository root; `pallet/` stands for
`crates/pallets/storage-provider/src/`, `providers/` for `crates/providers/`.

## 1. The system

| Component | State | Operations | Talks to |
|---|---|---|---|
| Provider registry (`pallet/impls/providers.rs`, `lib.rs`) | `Providers`: stake, committed bytes, settings, announced exit | register, add stake, settings, announce / cancel / complete an exit | agreements (capacity, stake), challenges (exit gate) |
| Buckets, members, checkpoints (`impls/buckets.rs`, `members.rs`, `checkpoints.rs`) | `Buckets`, `NextBucketId`, `MemberBuckets` | create, delete, freeze, visibility, quorum, members, checkpoint, extend_checkpoint | agreements (primaries), challenges (snapshot) |
| Agreements (`impls/agreements.rs`) | `StorageAgreements`, `AgreementNonces` | redeem a quote (new bucket, primary, replica), end, claim, top up, extend, transfer, block extensions, sync payments, remove_slashed | funds, registry, buckets |
| Challenges (`impls/challenges.rs`) | `Challenges`, `NextChallengeIndex`, two pending counters | three ways to challenge, four answers, resolution after the deadline | everything: a pending challenge holds up every teardown |
| Holds and escrow (`impls/funds.rs`, `deposits.rs`) | free balances; four kinds of hold per account | hold, release, settle, slash, split a deposit | every call |
| try-state (`impls/try_state.rs`) | - | audits of the bookkeeping | reads everything |
| Chain-state coordinator (`providers/coordinator`, `providers/events`) | connection, anchor block, provider record, broadcast channel of 256 events | connect, bootstrap, follow finalized blocks, fan out, reconnect on end, stall or timeout | all background tasks of the node |
| Membership cache (`providers/auth/src/membership.rs`, `provider-node/src/membership.rs`) | entries with an age, an epoch, one receiver of the channel | lookup (drain, get, fetch, insert, undo), stale-if-error, expiry, eviction | coordinator (events), chain (reads), every HTTP request |
| Challenge responder (`providers/challenge`) | queue of commands and events, pause flag | answer on event, scan on (re)subscription, lag and a slow interval | coordinator, storage backend, transaction submission |
| Replica sync coordinator (`providers/replica`) | duties, local buckets | download from primaries, verify, confirm on chain | coordinator, storage backend, pallet |
| Transaction submission (`provider-node/src/subxt_client.rs`) | one lock for all tasks | submit, watch with a timeout, one retry, duplicate rejections taken for success | responder, replica coordinator, pallet |
| Storage backend (`providers/storage`) | nodes shared by all buckets; per bucket its leaves, MMR root and used bytes | init_bucket, store_node, commit, delete_before, proofs for current and earlier commitments | HTTP API, responder, replica |
| Negotiation (`providers/negotiation`, `provider-node/src/negotiate.rs`) | nonce and price book | sign terms | pallet (`accept_quote`) |
| Checkpoint client (`clients/storage`) | provider cache and health, dirty buckets, persisted state | collect commitments, submit with retry, auto-challenge | providers, pallet |
| Merkle and MMR primitives (`crates/primitives/storage`) | - | build and verify proofs | pallet, backend, clients |

Not part of the core logic: runtimes and weights, generated bindings, precompile, TypeScript
packages, user interfaces, command-line tools, indexers. `PROJECT.json` lists them with reasons.

What is hard here:

* **Long sequences of legal calls by different accounts.** Exposure is not recorded anywhere: it
  is spread over `committed_bytes`, `deregister_at`, two counters and the challenges, each changed
  by different calls. The gates that keep a provider in reach read only some of them.
* **Shared money.** All agreements of an owner share one hold, all challenges of a challenger
  another; paying a part of one record wrongly is paid by another record and noticed much later.
* **Positions.** Signer bits refer to places in a list that is edited when a primary leaves.
* **Boundaries.** The last block of an answer, of a settlement window, of an announcement.
* **Concurrency in the node.** Lookups interleave between any two awaits, share one feed, and race
  the follower's events; events are lost by lag, reconnects and unreadable blocks. Two background
  tasks share one submission lock, and a transaction whose watch died may still land.
* **Commitments that outlive the state.** A provider answers for every commitment it ever signed,
  from a bucket that has grown and been pruned since.
* **Reads at different times.** The checkpoint loop reads the providers, the snapshot and each
  provider's answer one after the other, and submits on the strength of all of them.

The properties that make each component correct are in section 4; the hazards they are aimed at,
with their lines, are listed in `PROJECT.json`.

## 2. Modules

```
PalletState --- ProviderCalls --- AgreementCalls --.
            \-- BucketCalls ---/                    +-- StoragePallet -- TryState -- MCStoragePallet -- SyncHistory
            \-- ChallengeCalls --------------------'         |
                                              Liability  (INSTANCE: the abstract specification)
TryState, Sums -- StoragePalletProofs -- MoneyProofs

MembershipCache -- MembershipProofs

Loop (INSTANCE, once per loop)
  |
Merkle -- Mmr -- StorageBackend -- StorageNode --+-- MCStorageNode
                                   Sums ---------+-- StorageNodeProofs

ProviderChain -- TxSubmission -- ChallengeResponder --.
                            \-- ReplicaSync ----------+-- ProviderDuties -- MCProviderDuties, DutiesProofs

CheckpointManager -- MCCheckpointManager, CheckpointProofs
```

### The pallet

`PalletState` declares the storage items under the names of `lib.rs`, the runtime's configuration
as constants, the records, and the movements of money. A storage map is a total function into
record-or-`None`; `Challenges` is a function whose domain is the set of open ids. `funds` has the
free balance of every account and of the treasury and, for each of the four hold reasons, the held
amount of every account.

`ProviderCalls`, `BucketCalls`, `AgreementCalls` and `ChallengeCalls` have one action per
dispatchable call, named after it. A call runs in a storage layer, so it is atomic; its `ensure!`s
are guards, and the whole of what it writes, the moved money, index upkeep and counter decrements
included, is one step. Interleaving comes from any account making any call at any time.
`StoragePallet` composes them with genesis, the anchor block (`Tick`) and the reaping of an
account, and states the properties; `TryState` restates the audits of `impls/try_state.rs`.

`Liability` is what the pallet promises about exposure, in sets: who is registered, who has
announced an exit, which buckets and agreements exist, and which agreement each open challenge is
about. It has no counters, clock, bytes or money. `LiabilityImplemented` is its specification
under the refinement mapping in `StoragePallet`.

`SyncHistory` adds a history variable: the roots a replica was paid for.

Abstracted from the pallet:

* Signatures, keys and chunk proofs are inputs: which providers signed a checkpoint, which quotes
  and commitments a provider has signed, whether an answer carries a valid proof.
* The existential deposit is 0 and `Preservation` is ignored; every storage deposit has one price.
* Statistics, `checkpoint_block`, `total_snapshots`, network addresses are not kept; no modelled
  call reads them to decide anything.
* Checked arithmetic cannot overflow within the bounds of the model, so those errors are absent.
* Releases that the code attempts best-effort (`BestEffort`) are modelled as such, down to the
  available amount; the invariants show that they never fall short.

### The membership cache

`MembershipCache` has the cache, the epoch, the cache's receiver (`feed`, `lagged`) and the local
state of each lookup in flight, and, around it, the chain, the follower of
`providers/coordinator`, and the broadcast channel. A step of a lookup is what happens between two
points where another may run: the drain (atomic, under its mutex), the bump of the epoch, the
removal, the cache's `get`, the two samples of the epoch, each chain read, the insert, the undo.
Bumping and removing are two steps because the code's correctness argument (membership.rs 428-437
and 476-485) is about exactly that order.

Abstracted: a bucket's access is a version number, 0 being a bucket that does not exist; the
replica half of an entry is fetched but not tracked, so an undecodable
`ReplicaAgreementEstablished`, which the decoder drops, is the same as no event; a chain read sees
at least the blocks whose events were broadcast (both come from finalized blocks); several pending
changes of one bucket travel as one event; `fetched_at` is taken at the insert; the `Closed` arm of
the drain is left out, since the sender lives as long as the node; moka's size limit is `Evict`, at
any time. The code's sequentially consistent atomics make the interleaving of these steps the right
notion of concurrency.

### The data path

`Merkle` and `Mmr` are the functions of `crates/primitives/storage`: levels, roots, proofs and their
verification. A hash is a term that shows what was hashed, so hashes do not collide; `level`,
`proof_from_levels`, `verify_merkle_proof`, `bag_peaks`, `verify_mmr_proof` follow the code, and
the library under `mmr.rs` is modelled by what `mmr.rs` says of the shape of its proofs.

The code's loops are loops here too. An operator such as `TakeSibling`, `Visit` or `GoDown` is one
pass over the loop's local variables, and `After` of module `Loop` repeats it. A pass leaves a loop
that has ended alone, so a number of passes that is large enough stands for the `while`; where the
code itself bounds the loop (`MAX_TREE_DEPTH`, the visit budget), that bound is the number of passes.

`StorageBackend` has the two column families: `nodes`, shared by all buckets and never deleted, and
`buckets`. Its writes are RocksDB transactions that lock the bucket's row and the node's key, so
each is one step (the locks are taken on trust: a transaction that forgot one would still be one step
here); its reads are operators with the code's errors. `StorageNode` puts clients and
the HTTP handlers around it. A request is one step per transaction: an upload stores its nodes one
by one, a commit looks at the trees, then runs its transaction, then signs, and other requests and
a restart come in between. `signed` holds any one of the commitments the provider has ever signed
(each signature may or may not be the one that is remembered), so that what is said of it is said of
all. `respond` is what the challenge responder sends for a challenge and `Accepted` is the pallet's
verdict, so node and pallet meet in `SignedIsAnswerable`.

Abstracted: sizes (a chunk has 1 to `ChunkSize` bytes, so the empty chunk that `PUT /node` also
takes is not in the model; an internal node counts 2); the encoding of nodes and rows; the
`MaxBytes` quota is the one every caller asks for, out of reach.

### The node's background duties

`ProviderChain` is the chain as the node meets it: the anchor block, each challenge from open to
defended or slashed, the snapshot of a replicated bucket, and the verdicts of the two calls that the
node makes by itself. The full calls are in `ChallengeCalls` and `AgreementCalls`. `TxSubmission` is
`submit_and_finalize` with its lock, timeout, one retry and the list of rejections that count as
success; the transaction pool is external. `ChallengeResponder` is the select loop, biased as in the
code, with pause, lag, point read and scan, and the coordinator's fan-out in front of it;
`ReplicaSync` is one bucket's duty pass. `ProviderDuties` composes them: one chain, one lock, one
pool. `scenario` is chosen at the start and never changes: the configuration of the node and what it
will meet.

Abstracted: a bucket state is a number; a download succeeds or not (`sync_from_source` stores nodes
and commits nothing, so the local root changes only through the clients' commits); the commands
`RespondTo` and `Stop`, and several replicated buckets at a time, are left out.

### The checkpoint loop of the client

`CheckpointManager` is the background loop of one bucket. The bucket's content is a sequence of
ranges `History`, and a provider is somewhere in it; a commitment is what a provider would sign
there, and all empty ranges have the zero root. Between two awaits lies one action: the list of
providers (`Listings`: cached, the reachable ones of the endpoints configured by hand, or the
bucket's primaries), the floor, each answer, the submission, the end of the watch. The chain around it
changes the primaries, accepts or rejects the checkpoint, and may land a transaction the loop has
given up. The caller marks at any time, whether or not the providers have applied its changes.
`tx.floor` and `mark` are history: the floor the answers were compared with, and how far each
provider had come at the last `mark_dirty`.

Three awaits of an attempt have no timeout: the request for a provider's account
(`fetch_provider_id`), the body of its answer (`checkpoint.rs` 1212), and the wait for finalization
(`SubstrateClient::submit`). `RequestHangs` and `WatchHangs` are the cases in which they never end;
the loop then stays where it is. Reads of the chain end or fail: the RPC client has a request timeout of
its own.

Abstracted: a provider that does not answer in all retries answers `None`; the retry delay with its
backoff is one timer; the requests for the accounts of manual endpoints, sent together, are one step
(any subset answers, or one hangs and the others do not matter); provider health, conflicts,
automatic challenges, metrics and the state file are left out, for they decide nothing about what is
submitted.

## 3. Runs

Every run of the pallet uses the whole next-state relation. Its configuration gives each call the
arguments it may have, and an empty set switches a call off: each run goes deep in one part. Blocks
stop at `MaxBlock`, which is why deadlock is not checked; `MaxBlock` is chosen so that an agreement
can be made, run out, be challenged at its last moment, and be slashed or settled after that. The
other bounds: `MaxBuckets` buckets, and challenges only with deadlines, and agreements only with
expiries, that fall within `MaxBlock`, so that nothing the model starts is cut off by the bound.
`checkpoints`, which is about lists and positions, has short agreements and a settlement window of
no blocks, so that three blocks are enough for a primary to leave and come back.

| Run | Instance | Shows |
|---|---|---|
| `liability` | one provider, two buckets, up to three challenges per deadline | open challenges keep their provider, agreement, bucket and record; counters are exact; an announced provider is clear; stake and deposits move only when due |
| `escrow` | two agreements of one owner, two prices, a transfer, burns | each agreement is paid from its own escrow; committed bytes are the sum of agreements |
| `checkpoints` | two primaries that join, leave and rejoin; two commitments; freeze; members and admins that come and go | signer bits stay with their providers; frozen history is not cut; reverse index exact, always an admin, deposits return to their payer |
| `replica` | a primary, a funded replica, a growing history, a reaped account | sync payments and replica challenges keep the books exact |
| `liveness` | one provider that leaves a bucket and rejoins | under `FairSpec` challenges, exits and agreements do not get stuck; `Liability` is implemented |
| `membership` | two lookups of one bucket, a second bucket that only changes, channel of one event, a reconnect or an unreadable block, eviction | no lookup resurrects revoked access; events lost in any way still lead to the removal of what they named |
| `backend` | two clients, a file of five chunks that repeats two of them, a file that is its last chunk, a misshapen tree, up to seven leaves, two buckets | everything signed can be answered for, answers bind their position, receipts are honest, committed data is readable, the totals are exact |
| `duties` | two challenges or a challenge and a replica duty, with and without the safety-net scan, missing data, a node that does not answer; one fault anywhere | challenges are answered, the lock is released, a success report is never about an open challenge, only held roots are attested |
| `checkpoint_client` | two providers that replace or join each other, asked as primaries or through endpoints configured by hand; a bucket that gets its first leaf; one fault; waits that never end; a command channel of one | no mark is lost; the range goes backwards only past a stale floor; under `FairSpec` a mark is checkpointed, or the loop is paused, stopped or hangs |
| `sync_replay`, `already_done`, `range_regress` | the smallest instance each needs | disagreements between the code and its documentation, section 6 |

Why the instances are enough to be interesting: two agreements of one owner are needed, and enough,
to make one pay for another through the shared hold; three challenges of one deadline let one be
resolved (which resets the index counter) while another is open and a third is created; two
primaries are enough for positions to shift; two lookups are what the epoch protocol is about, and a
channel of one event makes every second event a lag. Five chunks leave the last one without a
sibling on two levels, and repeat subtrees; seven leaves make three peaks, so that a proof has peaks
on both sides; `MaxTreeWalkVisits` 9 is just what the file of five chunks takes; `ChunkPositions`
are the first of them and the one without a sibling. In `duties` `ChallengeTimeout` 0 and `MaxBlock`
1 make every challenge expire one block after it is opened, so that an attempt, its timeout and its
retry fall on both sides of the deadline, and `MinSyncInterval` 1 lets a second sync be refused or
accepted; one fault is enough for a lost event, a failed read, a refused or dropped transaction, or
a dead watch with its retry. In `checkpoint_client` one fault is a lost watch or a failed read, two
commands are a mark and another command behind it, and `MaxFailures` 2 is reached by answers that
disagree or do not come. One change of the content is enough for a mark to come before or after it
and for providers to lag, and either of two endpoints may be unreachable or belong to no primary.
Blocks, challenges, uploads, faults and commands are bounded in those runs too, which is why
deadlock is not checked. TLC covers the instances exhaustively; the theorems of section 5 remove the
bounds for the results they state.

**Fairness.** `FairSpec` of the pallet assumes that blocks come; that somebody resolves an expired
challenge, which is open to everyone and free of charge; and that a provider makes the two calls
that pay it, `complete_deregister` and `claim_expired_agreement`. Nothing is assumed of owners,
admins, challengers, or of providers answering challenges. `FairSpec` of the cache assumes that the
follower's task and each request's task keep being scheduled, and that requests keep coming: the
feed is only drained by requests, so without them an outdated entry stays, unread. `Spec` of
`ProviderDuties` assumes that the two tasks are scheduled; that a transaction in the pool is
eventually included, unless a fault drops it; that a watch ends, at `SUBMIT_TIMEOUT` at the latest;
that the follower keeps reconnecting; and that the lock, a fair tokio mutex, is given to a task
that waits for it (strong fairness, since the other task may take and release it in between).
Neither the interval tick alone nor the absence of faults is assumed: `Excused` names the cases in
which an answer is not promised. Blocks are not fair, so a challenge whose deadline never comes has
to be answered as well. `FairSpec` of `CheckpointManager` assumes that the loop is scheduled, its
interval and retry timers fire, and a transaction in the pool is finalized unless a fault drops it.
Nothing is assumed of the caller or of providers, and not that a request or a watch ends: a fair loop
may take `RequestHangs` or `WatchHangs` instead, and then waits for ever.

Each property is checked against a plausible bug of the code it is about (the operators
that no action uses, such as `IgnoreChallenges` or `TrustInsert`; `PROJECT.json` pairs them), and
TLC finds each one.

## 4. Properties

* **`ChallengeAccountability`, `PendingCountersExact`, `AnnouncedProviderIsClear`** - nobody
  leaves, and nothing a resolution needs is torn down, under an open challenge; the two counters
  the gates rely on are exact; after an announcement nothing new can bind the provider.
* **`ChallengeRecordsImmutable`** - ids are not reused while open, although the counter they come
  from is reset when a sibling is resolved. The reason is timing: a reset happens only after the
  deadline, and a new challenge only gets later ones.
* **`StakeLeavesOnlyWhenDue`** - stake goes down only by a slash after a missed deadline, to the
  treasury, or by a completed exit of a clear provider.
* **`HoldsBackBookkeeping`, `FundsConserved`, `CommittedBytesExact`** - every held amount is the
  sum of the records that account for it; money is neither created nor lost.
* **`PrimariesMatchAgreements`, `SignerBitsFollowProviders`, `FrozenPinned`,
  `MembershipIndexExact`** - lists, positions and indexes kept by hand agree with what they index.
* **`ChallengeEventuallyCloses`, `ExitEventuallyCompletes`, `AgreementEventuallyCloses`** - no
  deposit, stake or escrow is stranded. An agreement may be extended by anyone, again and again
  ("permissionless persistence"), so what is promised is that it does not outlive an expiry it was
  not extended past.
* **`LiabilityImplemented`** - the pallet's steps are steps of `Liability`.
* **`OutdatedIsDoomed`** - an entry older than the chain is in the cache only while its
  invalidation is still coming (in a block, missed and owed a marker, in the feed, drained) or
  being carried out.
* **`RevocationTakesEffect`** - and it does go away.
* **`SignedIsAnswerable`** - every challenge on every commitment the provider has signed, at every
  leaf and chunk and past the last chunk, has an answer the pallet accepts, however the bucket has
  grown since. It holds up to the prune: once `delete_before` passes the start of a signed
  commitment the leaves are gone, and the responder sends no `Deleted` answer for them.
* **`AnswersBindPosition`** - an answer that the pallet accepts for a position has the leaf and the
  chunk at that position of the signed state, also when it was made for another position or for the
  bucket's latest commitment.
* **`ReceiptNamesItsLeaves`, `CommittedDataReadable`, `StatsExact`** - the receipt of a commit names
  the committed roots' places under the commitment it is signed with; a committed file reads back in
  order and in full; shared nodes are counted once.
* **`EveryChallengeAnswered`** - an open challenge is answered or resolved, whichever events are
  lost; without the safety-net scan only if nothing failed. The scan is what makes up for an
  unreadable block, of which the responder is not told (section 6).
* **`SuccessClosesChallenge`, `LockIsReleased`, `AttestedRootWasHeld`** - success is not reported for
  an open challenge; a lost transaction does not hold the lock; a replica attests, and is paid for,
  only roots its bucket really had.
* **`CleanIsCheckpointed`** - when the loop holds no mark, the snapshot covers what `min_providers` of
  the providers, and at least one, had applied at the last mark. `execute_checkpoint` clears the flag
  after an attempt, and a mark that comes meanwhile survives because it waits in the channel. It does
  not cover what the caller had written and the providers had not applied (section 6).
* **`MarkEventuallySettles`** - what all providers had applied at a mark is checkpointed, unless the
  loop is paused, stopped or hangs.
* **`RegressOnlyPastStaleFloor`** - the floor check excludes every step backwards but the one in
  which another checkpoint lands after the floor was read, which `range_regress` shows.

## 5. Proofs

All proofs are checked by TLAPS, for every value of the constants that satisfies the named
assumptions. For the pallet: `ConfigAssumption` (configuration values are naturals),
`TimingAssumption` (the announcement period exceeds the challenge timeout, which the pallet's
`integrity_test` enforces), `DataAssumption` (inputs have their types; accounts are finite and the
treasury is not one of them), `NoneAssumption` (`None` is no value), `GenesisAssumption` (genesis is
one its own calls would accept, else the build panics). For the node: `CacheAssumption`,
`ChannelAssumption`, `ChainAssumption`, `FaultsAssumption`, `DutiesAssumption` (types and bounds of
the constants); `BackendAssumption` (finitely many buckets; a tree within the visit budget is no
deeper than `MAX_TREE_DEPTH`, as with the code's `1 << 22` and 63) and `NodeAssumption` (files are
non-empty sequences of chunks of 1 to `ChunkSize` bytes). For the client: `HistoryAssumption` (the
ranges a bucket goes through: a later range neither starts nor ends before an earlier one),
`ManagerAssumption` (finitely many providers, types). The runs evaluate all of them. The bounds
`MaxBlock` and `MaxBuckets` are parameters of the theorems, so what is proved holds up to any block
and for any number of buckets. The same goes for the chunk size, the quota, the number of clients,
files, chunks and leaves of the data path. No theorem assumes fairness. `Loop` and `Sums` hold the
facts about loops and sums that several modules use.

| Module | Theorem | States |
|---|---|---|
| StoragePalletProofs | `TypeCorrect` | `TypeOK` |
| | `PalletImplementsLiability`, `CountersExact`, `ChallengesStayAccountable`, `AnnouncedStaysClear`, `RecordsImmutable`, `CommittedAlwaysExact` | `LiabilityImplemented`, `PendingCountersExact`, `ChallengeAccountability`, `AnnouncedProviderIsClear`, `ChallengeRecordsImmutable`, `CommittedBytesExact` |
| | `PrimariesAlwaysMatch`, `SignaturesStayPut`, `MembershipIndexed`, `FrozenStaysPinned` | `PrimariesMatchAgreements`, `SignerBitsFollowProviders`, `MembershipIndexExact`, `FrozenPinned` |
| MoneyProofs | `HoldsAlwaysBacked`, `MoneyConserved`, `StakeIsSafe` | `HoldsBackBookkeeping`, `FundsConserved`, `StakeLeavesOnlyWhenDue` |
| MembershipProofs | `NoResurrection`, `CacheTypeOK` | `OutdatedIsDoomed`, `TypeOK` |
| StorageNodeProofs | `MmrProofVerifies`, `MmrProofBinds`, `ChunkProofVerifies`, `ChunkProofBinds` | what is made verifies, and what verifies is what is there |
| | `TypeCorrect`, `SignedStaysAnswerable`, `AnswersBind`, `ReceiptsAreHonest`, `CommittedStaysReadable`, `StatsStayExact` | `TypeOK`, `SignedIsAnswerable`, `AnswersBindPosition`, `ReceiptNamesItsLeaves`, `CommittedDataReadable`, `StatsExact` |
| DutiesProofs | `DutiesTypeOK`, `SuccessIsAboutClosed`, `AttestedWasHeld` | `TypeOK`, `SuccessClosesChallenge`, `AttestedRootWasHeld` |
| CheckpointProofs | `ManagerTypeOK`, `NoMarkIsLost`, `RegressNeedsStaleFloor` | `TypeOK`, `CleanIsCheckpointed`, `RegressOnlyPastStaleFloor` |

### The pallet

**Types.** Balances, holds and counters are naturals, so `TypeCorrect` says that no call subtracts
more than is there; there is one lemma per movement of money. Releases that must not fail have a
guard, best-effort ones take what there is.

**Sums.** The audits of try-state are sums over whole maps. `SumFunction` of the community modules
is a fold with a recursively defined function inside. `Sums` shows that this function
exists on a finite set (`SummingExists`), by the least counterexample among the sizes of its subsets
and not by an induction theorem, and derives the two facts everything else uses: what changing one
summand does to the sum (`SumUpdate`), and the sum of a function that is zero outside a set
(`SumOverPart`).

**Exposure.** `PalletImplementsLiability` rests on the inductive invariant

```
Accountable     == TypeOK /\ Ledger /\ L!Exposed
Ledger          == ChallengeLedger /\ BucketIdsFresh /\ ByteLedger
ChallengeLedger == IdsFresh /\ PendingCountersExact
ByteLedger      == AgreementsPositive /\ CommittedBytesExact
```

`L!Exposed` is Liability's own invariant, preserved by Liability's steps (`ExposedStep`). What is
left is to show that each call is one of those steps, and there the gates the code computes have to
be related to Liability's: `deregister_provider` sees only `committed_bytes = 0`, which means "no
agreement" because `committed_bytes` is the sum over agreements (`CommittedBytesExact`) and no
agreement is empty (`AgreementsPositive`); the teardown gates see a counter, which means "no open
challenge" because it is exact (`PendingCountersExact`); a new challenge or bucket does not
overwrite an old one because of `IdsFresh` and `BucketIdsFresh`. `IdsFresh` has the second disjunct
"or its deadline is over" for the counter that is reset. The other theorems about exposure follow.

**Buckets.** `PrimariesListed` is the inductive form of `PrimariesMatchAgreements`: the list of
primaries has no duplicates, names exactly the providers with a Primary agreement, and the snapshot
has one bit for each place. With it a primary that leaves is at one place only, so removing that
place from the list and from the bits keeps every other provider with its own bit (`RemoveBits`),
which is `SignerBitsFollowProviders`. `MembershipIndexExact` and `FrozenPinned` are inductive on
top of `Accountable`: what a call does to a bucket is one of a few kinds of step (created, deleted,
edited, a primary added or removed), and each kind is looked at once.

**Money.** `Books` says of each of the four holds that it is what its records add up to; it is
inductive together with `Accountable` and equivalent to `HoldsBackBookkeeping`. The argument goes
call by call: `Moves` describes a movement (the total is the same, one hold changes by so much), and
the record that the same call writes changes its book by the same amount (`EscrowsStep`,
`TicketsStep`, `ChallengePaid`, `ChallengeReturned`). The books are what makes the best-effort calls
exact: a slash finds the whole stake, and a return finds the whole deposit, because the hold is the
sum and the sum is at least its part. The
settlement of an agreement finds its escrow in the same way: payment, burn and refund together are
what the record was worth. Slashes and settlements need `L!Exposed` as well: they write the records
of a provider and a bucket that might be gone, a slash does nothing at all when the provider is, and
`L!Exposed` says that they are there. `StakeIsSafe` follows because held stake is recorded stake, before
and after a step, and recorded stake falls in two calls only.

### The membership cache

**`NoResurrection`**, for any number of concurrent lookups and buckets, any capacity and any expiry
times, from

```
Inv == TypeOK /\ LookupShape /\ InFlight /\ OutdatedIsDoomed
```

`OutdatedIsDoomed` alone is not inductive: it says nothing of a lookup that carries an outdated
answer and has not inserted it. `InFlight` does: for such a lookup an invalidation of its bucket is
still coming, or the epoch is no longer the one it sampled. This is the comment in the code ("at
least one always fires") as an invariant: an invalidation that stops coming has bumped the
epoch, so the first check stops the insert, or the second one undoes it.

### The data path

**Loops.** What a loop computes for every input needs induction, and the library's induction
theorems take an operator, which the provers cannot instantiate. `Loop` states induction for a set
of numbers instead (`SetInduction`, `StrongInduction`, from the well-foundedness of `<`), shows with
it that the recursive definition of `After` has a solution (`AfterDef`) and that a first pass can be
taken off a loop (`AfterFirst`). A fact about a loop is then proved of the set of numbers of passes,
or of leaves, for which it holds. The lemmas treat sequences through a few operators (`Cat`, `Take`,
`Drop`, ...) whose laws are proved once.

**Trees and ranges.** `ChunkProofVerifies` and `ChunkProofBinds` go level by level: the tree over
some leaves has the root of the level above (`RootAbove`), the siblings of a leaf are its own one,
or none, followed by those of its parent there, and hashes are injective. The walk of
`chunk_with_proof` goes the other way, from the root, and splits at a power of two; `SplitTree` says
that both give the same root and the same siblings. For the mountain range `LeafPlaced` says that
the prover, who has the leaves, and the verifier, who has their number, find the same peak, and
`RootBinds` that bagging loses nothing: if as many peaks to the left, a peak and a right part give
the root, they are those of the leaves. The length check of `verify_mmr_proof` is used there.

**The store.** The inductive invariant is

```
DataInv == StoreOK(nodes, buckets) /\ requests are RequestOK /\ SignedOK(buckets, signed)
StoreOK(N, B) == Closed(N) /\ every node of N is Real
                 /\ every row of B is RowOK and its leaves are LeavesOK
```

`Closed` says that a node is stored after its children, so what is under a stored node never goes
missing; `LeavesOK` that the tree of every leaf is canonical: chunks of full size but the last, and
`merkle_root` over them gives the data root. It is what connects the walks, which go by the shape of
the tree, with the pallet, which goes by `data_size`; the misshapen tree of the run shows why a
commit has to look. A commit looks before its transaction: `RequestOK` carries what it found over
the gap, which is sound because nodes are never deleted (`Kept`). Between the transaction and the
signature, and ever after, `Honest` holds of the outcome: as long as the row has not been pruned past
its start, the row still holds the leaves that the commitment is the root of, at the indices the
receipt names. Appending keeps it because a stretch of the leaves stays where it is, pruning because
it moves both ends alike.

From `DataInv`, a signed commitment is the root of a stretch of well-committed leaves
(`HeldIsSampled`); the responder rebuilds exactly that stretch, so its MMR proof verifies; the
chunk count it finds down the right edge is the one the pallet computes from `data_size`
(`RightEdgeIs`, `Quotient`); and the descent gives the chunk with the siblings the pallet asks for
(`DescentIs`). `AnswersBind` uses the two binding theorems on whatever response is tried.
`StatsStayExact` adds `Exact`, the two sums as functions of store and rows: a transaction that adds
a node adds it to one row, one that finds it there adds it to none.

### The background duties

```
DutyInv == TypeOK /\ LoopsInStep /\ OnlyKnown /\ CallsHeld /\ WatchesOwn /\ SuccessClosesChallenge
```

`TypeOK` includes that the lock is held by exactly the task whose pass is under way. `WatchesOwn` is
what a success report depends on: while a pass watches, what is in the pool is its own transaction
and not one that an earlier pass gave up. `OnlyKnown` is why a rejection with `ChallengeNotFound`
means "closed" and not "not yet opened". `CallsHeld` carries the replica's check of its local root
through the wait for the lock, the retry, and a transaction that lands after its pass has ended.

### The checkpoint loop

```
CheckpointInv == TypeOK /\ MarkedIsApplied /\ Stages /\ AttemptCoversMark /\ PoolCoversMark
                        /\ CleanIsCheckpointed
```

The flag is cleared after an attempt. That no mark is lost by it needs that what each provider has
answered or signed covers what that provider had applied at the mark (`AttemptCoversMark`: if no
mark waits in the channel, the attempt began after the last one was taken, and providers do not go
back, `MarkedIsApplied`), and the same of a transaction that may still land (`PoolCoversMark`). When
one lands, all its signers have signed the new snapshot, and the chain has counted `min_providers`
of them (`LandedCovers`). `RegressNeedsStaleFloor` adds `FloorsHeld`: every chosen commitment is not
behind the floor it was compared with.

### Only model-checked

Every invariant and every action property of the runs is proved. What is left to TLC:

* The liveness properties and everything under fairness, which is out of this prover's reach:
  `ChallengeEventuallyCloses`, `ExitEventuallyCompletes`, `AgreementEventuallyCloses`,
  `RevocationTakesEffect`, `EveryChallengeAnswered`, `LockIsReleased`, `MarkEventuallySettles`.
* The three violations of section 6.

## 6. Where the code and its documentation differ

Shown by a run:

* `sync_replay`: a comment calls a replayed sync confirmation a no-op; after a sync to other
  roots in between it is a new root again and is paid.
* `already_done`: a comment says that a duplicate rejection of a retry proves the duty done; a
  challenge that was resolved against the provider gives the same rejection, and the responder
  reports success.
* `range_regress`: a comment says that a checkpoint must never move backwards from the range on
  chain; the floor is read at the start of an attempt, and neither the client nor the pallet looks
  again, so a checkpoint that lands in between (a lost watch, or a second writer) is overwritten.

Met while modelling:

* `max_capacity` is documented as a limit no agreement exceeds (`lib.rs` 548-549);
  `top_up_agreement` (2137-2212) does not look at it, nor at the stake per byte.
* `end_agreement` is documented "Owner only" (`lib.rs` 2023-2027); before expiry the code asks for
  a bucket admin, whether or not it owns the agreement (2059-2067).
* `drain_invalidations` says a change broadcast before a request arrived is honoured by that
  request (`membership.rs` 374-376); another lookup may have taken the event from the shared feed
  and not yet removed the entry. The window closes with that lookup's next steps
  (`OutdatedIsDoomed`).
* `MembershipScopeUnknown` says that every other coordinator's view of chain state is unaffected
  (`providers/events/src/lib.rs` 56-61); it is also sent for a block that could not be read at all,
  and then a `ChallengeCreated` event of that block is lost to the responder until its next scan.
* `dirty` is documented as "Whether the bucket has pending changes." (`checkpoint.rs` 354). It is
  cleared by any submitted checkpoint (2186): a mark that comes before the providers have applied the
  changes is cleared by the checkpoint of the state they still have, and the changes wait for the
  next mark. The draft of the protocol has the client wait for providers that are behind
  (`docs/drafts/CHECKPOINT_PROTOCOL.md` 560, 600-609); the loop does not.
* `provider_timeout` is documented as the "Maximum time to wait for provider responses."
  (`checkpoint.rs` 55); the body of a response is read outside it (1205, 1212), and an answer that
  breaks off there stops the loop, which then takes no command; `stop` waits for the task and does
  not return either.
* After `max_consecutive_failures` the checkpoint loop is paused; `Resume` clears the flag, and the
  check at the end of the same iteration sets it again, because the counter is reset only by a
  success (`checkpoint.rs` 2158). A `SubmitNow` that succeeds brings the loop back.
* Two empty ranges at different positions have the same root, so providers whose answers "agree"
  may have signed different payloads, and the checkpoint of all of them is rejected
  (`checkpoint.rs` 1028-1031).
* `save_state` says that the conflict history is saved and `export_state` leaves it out;
  `record_checkpoint_metrics` says that `submit_checkpoint` calls it, which it does not;
  `analyze_conflicts` calls a provider that merely lags a data divergence.
* A replica's `sync_from_source` stores nodes and commits nothing, so the check of the local root
  fails unless clients commit the same state to the replica itself
  (`providers/replica/tests/replica_sync.rs` 429-457).

## 7. Not modelled, and the plan

Not modelled because there is no state to model or nothing to decide: queries and marketplace
matching (read-only), signature checks, precompile (decoding), runtimes, weights, bindings,
packages, tools. `check_no_empty_index_entries` of try-state concerns how empty map entries are
encoded, which total functions do not have.

Left out of components that are modelled in part: the values of the coordinator's `ChainState`; the
responder's `RespondTo` and `Stop`; several replicated buckets at a time and the download of nodes
from a source; read-only HTTP handlers and request authentication; of the checkpoint manager, health,
conflicts, automatic challenges, metrics and the state file. Requests to the node that are dropped
half-way are not modelled: a lookup always goes on, while in the code one whose client disconnects
between the drain and the removals (`membership.rs` 378-386) takes the removals it has not made with
it. The plan below has it. Negotiation keeps no state but a nonce.
Most of the repository's lines that no module covers are generated bindings, weights, benchmarks,
runtime configuration, user interfaces and tests.

Next, in this order:

1. **Dropped requests** in `MembershipCache`: a lookup that ends at any await, and what
   `OutdatedIsDoomed` can then promise.
2. **Negotiation**: what a provider signs against what `accept_quote` accepts.
3. An abstract specification of the checkpoint loop (a mark is eventually covered by the snapshot)
   that `CheckpointManager` implements, and one of the duties (answered or excused), with the step
   simulation proved from `CheckpointInv` and `DutyInv`.
