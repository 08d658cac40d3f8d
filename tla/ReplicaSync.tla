---------------------------- MODULE ReplicaSync ----------------------------
(***************************************************************************)
(* The replica coordinator's task (crates/providers/replica,                *)
(* coordinator.rs and sync.rs) for one bucket that the provider replicates. *)
(*                                                                          *)
(* A root is the number of the bucket state it belongs to.  Every event the *)
(* task cares for and every tick starts the same duty pass, at any time;    *)
(* pausing and stopping the task only keep it from starting one.            *)
(* sync_from_source stores nodes and commits nothing: the local root moves  *)
(* only when clients commit to this provider or prune.                      *)
(***************************************************************************)
EXTENDS TxSubmission

VARIABLES
    replica,        \* the loop's local state, with the duty at hand
    local_root,     \* mmr_root of the local bucket
    held            \* history: roots the local bucket had

replicaVars == <<replica, local_root, held>>

ReplicaInit ==
    /\ replica = [pc |-> "select", target |-> None]
    /\ local_root = 0
    /\ held = {0}

Done == [pc |-> "select", target |-> None]

----------------------------------------------------------------------------
(* The bucket                                                               *)

\* Clients commit to this provider, or prune: the bucket is in another state.
LocalCommit(root) ==
    /\ scenario.replica /\ root # local_root
    /\ local_root' = root
    /\ held' = held \cup {root}
    /\ UNCHANGED <<chainVars, txVars, replica>>

BucketCheckpointed ==
    /\ checkpoint
    /\ UNCHANGED <<txVars, replica, local_root, held>>

----------------------------------------------------------------------------
(* run_loop                                                                 *)

\* A bucket at the root of the snapshot, or an empty one, has no duty.
Duty == IF snapshot \in {0, local_root} THEN Done ELSE [pc |-> "source", target |-> snapshot]

\* An event or a tick: get_active_replica_duties, which finds none while the
\* sync interval runs.
run_duty_pass ==
    /\ replica.pc = "select"
    /\ scenario.replica /\ SyncAllowed
    /\ replica' = Duty
    /\ UNCHANGED <<chainVars, txVars, local_root, held>>

\* The command asks for the sync of a bucket whatever its agreement says.
ForceSync ==
    /\ replica.pc = "select" /\ scenario.replica
    /\ replica' = Duty
    /\ UNCHANGED <<chainVars, txVars, local_root, held>>

\* Every source fails or is at another root.
SourcesUnavailable ==
    /\ replica.pc = "source"
    /\ replica' = Done
    /\ UNCHANGED <<chainVars, txVars, local_root, held>>

Confirming ==
    /\ replica' = [replica EXCEPT !.pc = "confirm"]
    /\ tx' = [tx EXCEPT !["replica"] = Submission(ConfirmCall(replica.target))]

TrustSource ==
    /\ replica.pc = "source"
    /\ Confirming
    /\ UNCHANGED <<chainVars, submit_lock, pool, faults, local_root, held>>

\* A source was at the target and its nodes are stored.  The local root is
\* read again, and only a match is attested and confirmed.
sync_and_confirm ==
    /\ replica.pc = "source"
    /\ IF local_root = replica.target THEN Confirming ELSE replica' = Done /\ UNCHANGED tx
    /\ UNCHANGED <<chainVars, submit_lock, pool, faults, local_root, held>>

submit_sync_confirmation ==
    /\ replica.pc = "confirm" /\ Returned("replica")
    /\ replica' = Done
    /\ tx' = [tx EXCEPT !["replica"] = NoTx]
    /\ UNCHANGED <<chainVars, submit_lock, pool, faults, local_root, held>>

\* What a pass does once it is started.
ReplicaSteps == SourcesUnavailable \/ sync_and_confirm \/ submit_sync_confirmation

ReplicaNext ==
    \/ ReplicaSteps
    \/ run_duty_pass \/ ForceSync \/ BucketCheckpointed
    \/ \E root \in 0..MaxRoot : LocalCommit(root)

=============================================================================
