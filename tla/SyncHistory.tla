---------------------------- MODULE SyncHistory ----------------------------
(***************************************************************************)
(* StoragePallet with a history variable: the roots each replica has been   *)
(* paid for under its current agreement.                                    *)
(***************************************************************************)
EXTENDS MCStoragePallet

VARIABLE paid    \* [BucketIds -> [Accounts -> set of mmr roots]]

\* The step is a sync payment to replica p on bucket b.
SyncPaid(b, p) ==
    /\ StorageAgreements[b][p] # None
    /\ StorageAgreements'[b][p] # None
    /\ StorageAgreements'[b][p].last_sync # StorageAgreements[b][p].last_sync

HistoryInit == Init /\ paid = [b \in BucketIds |-> [p \in Accounts |-> {}]]

HistoryNext ==
    /\ Next
    /\ paid' = [b \in BucketIds |-> [p \in Accounts |->
          IF StorageAgreements'[b][p] = None THEN {}
          ELSE IF SyncPaid(b, p)
          THEN paid[b][p] \cup {StorageAgreements'[b][p].last_sync.commitment.mmr_root}
          ELSE paid[b][p]]]

HistorySpec == HistoryInit /\ [][HistoryNext]_<<vars, paid>>

\* What the comment in confirm_replica_sync says of a replayed confirmation:
\* it re-attests the same roots, so it is never paid a second time.
ReplayedSyncIsNoOp ==
    [][\A b \in BucketIds, p \in Accounts : SyncPaid(b, p) =>
          StorageAgreements'[b][p].last_sync.commitment.mmr_root \notin paid[b][p]]_<<vars, paid>>

=============================================================================
