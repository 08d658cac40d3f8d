--------------------------- MODULE ProviderChain ---------------------------
(***************************************************************************)
(* The chain as one provider's node meets it: the challenges against the    *)
(* provider, the bucket it replicates, and the verdicts of the two calls    *)
(* that the node submits by itself.  ChallengeCalls and AgreementCalls hold *)
(* the full calls; what is here is what the node can tell apart.            *)
(***************************************************************************)
EXTENDS Naturals, Sequences, SequencesExt, FiniteSets

CONSTANTS
    Challenges,         \* challenges that may be opened against the provider
    None,
    ChallengeTimeout,
    MinSyncInterval,
    MaxBlock,           \* bound on the anchor block
    MaxRoot,            \* bound on checkpoints; root 0 is H256::zero()
    Scenarios           \* how the node may be started, and what it may meet

ASSUME ChainAssumption ==
    /\ ChallengeTimeout \in Nat /\ MinSyncInterval \in Nat
    /\ MaxBlock \in Nat /\ MaxRoot \in Nat

VARIABLES
    scenario,           \* one of Scenarios: the configuration auto_respond and
                        \* safety_net (poll_interval is not zero), the challenges
                        \* there will be, those whose data the provider holds,
                        \* is there a replica agreement, and the bound on
                        \* connections to the chain
    anchor_block,
    challenge,          \* [Challenges -> status and deadline]
    snapshot,           \* root of the bucket's snapshot
    last_sync           \* the replica agreement's ReplicaSyncRecord, or None

chainVars == <<scenario, anchor_block, challenge, snapshot, last_sync>>

Unopened == [status |-> "unopened", deadline |-> 0]

ChainInit ==
    /\ scenario \in Scenarios
    /\ anchor_block = 0
    /\ challenge = [c \in Challenges |-> Unopened]
    /\ snapshot = 0
    /\ last_sync = None

NextBlock ==
    /\ anchor_block < MaxBlock
    /\ anchor_block' = anchor_block + 1
    /\ UNCHANGED <<scenario, challenge, snapshot, last_sync>>

create_challenge(c) ==
    /\ c \in scenario.challenges /\ challenge[c].status = "unopened"
    /\ challenge' = [challenge EXCEPT ![c] =
           [status |-> "open", deadline |-> anchor_block + ChallengeTimeout]]
    /\ UNCHANGED <<scenario, anchor_block, snapshot, last_sync>>

Expired(c) == anchor_block > challenge[c].deadline

\* Somebody resolves the challenge after its deadline: the provider is slashed.
resolve_expired_challenge(c) ==
    /\ challenge[c].status = "open" /\ Expired(c)
    /\ challenge' = [challenge EXCEPT ![c].status = "slashed"]
    /\ UNCHANGED <<scenario, anchor_block, snapshot, last_sync>>

\* The primaries checkpoint a newer state of the bucket.
checkpoint ==
    /\ scenario.replica /\ snapshot < MaxRoot
    /\ snapshot' = snapshot + 1
    /\ UNCHANGED <<scenario, anchor_block, challenge, last_sync>>

----------------------------------------------------------------------------
(* The provider's calls.  A rejected call changes nothing.                  *)

RespondCall(c) == [name |-> "respond_to_challenge", arg |-> c]
ConfirmCall(root) == [name |-> "confirm_replica_sync", arg |-> root]

SyncAllowed ==
    last_sync # None => anchor_block >= last_sync.block + MinSyncInterval

\* A response carries a valid proof (StorageNode's SignedIsAnswerable); an
\* attested root is in the bucket's recent history and the sync balance pays.
Verdict(call) ==
    IF call.name = "respond_to_challenge"
    THEN IF challenge[call.arg].status # "open" THEN "ChallengeNotFound"
         ELSE IF Expired(call.arg) THEN "ChallengeExpired" ELSE "ok"
    ELSE IF ~SyncAllowed THEN "SyncTooFrequent"
         ELSE IF last_sync # None /\ last_sync.root = call.arg THEN "InvalidSyncRoot" ELSE "ok"

Dispatch(call) ==
    /\ challenge' = IF Verdict(call) = "ok" /\ call.name = "respond_to_challenge"
                    THEN [challenge EXCEPT ![call.arg].status = "defended"] ELSE challenge
    /\ last_sync' = IF Verdict(call) = "ok" /\ call.name = "confirm_replica_sync"
                    THEN [root |-> call.arg, block |-> anchor_block] ELSE last_sync
    /\ UNCHANGED <<scenario, anchor_block, snapshot>>

=============================================================================
